--------------------------- MODULE MCNativeWriter ---------------------------
(* NativeWriter with small constants for TLC: see the .cfg file.           *)
EXTENDS NativeWriter
=============================================================================
