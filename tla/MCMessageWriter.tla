-------------------------- MODULE MCMessageWriter --------------------------
(* MessageWriter with small constants for TLC: see the .cfg files.         *)
EXTENDS MessageWriter
=============================================================================
