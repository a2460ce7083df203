---------------------------- MODULE MCNodeWriter ----------------------------
(* NodeWriter on small instances. *)
EXTENDS NodeWriter

MCElementSizes == {1, 3}
=============================================================================
