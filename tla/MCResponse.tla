----------------------------- MODULE MCResponse -----------------------------
(***************************************************************************)
(* Instances for the runs of the HTTP adapters.                            *)
(***************************************************************************)
EXTENDS Response

MCRequested == Formats \cup {"protobuf"}
=============================================================================
