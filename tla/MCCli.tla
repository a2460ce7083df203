------------------------------- MODULE MCCli -------------------------------
(***************************************************************************)
(* Instances for the runs of the command line: documents longer than the   *)
(* buffer, and limits below, at and past their length.                     *)
(***************************************************************************)
EXTENDS Cli

MCLimits == {0, 2, MaxItems + 1}
=============================================================================
