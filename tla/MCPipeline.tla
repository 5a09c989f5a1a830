----------------------------- MODULE MCPipeline -----------------------------
(* Pipeline with small constants for TLC: see the .cfg file.               *)
EXTENDS Pipeline, TLC

CONSTANTS w1, w2

\* Two messages through one process, and one through another.
TwoAndOne == w1 :> 2 @@ w2 :> 1
=============================================================================
