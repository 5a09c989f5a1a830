--------------------------- MODULE MCNativePubSub ---------------------------
(* NativePubSub with small constants for TLC: see the .cfg file.           *)
EXTENDS NativePubSub
=============================================================================
