--------------------------- MODULE MCNativeBridge ---------------------------
(* NativeBridge with small constants for TLC: see the .cfg file.           *)
EXTENDS NativeBridge
=============================================================================
