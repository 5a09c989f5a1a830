------------------------ MODULE MCNativeSubscriber -------------------------
(* NativeSubscriber with small constants for TLC: see the .cfg files.      *)
EXTENDS NativeSubscriber
=============================================================================
