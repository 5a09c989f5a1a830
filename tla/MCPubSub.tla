------------------------------ MODULE MCPubSub ------------------------------
(* PubSub with small constants for TLC: see the .cfg files.                *)
EXTENDS PubSub, TLC

\* Calls of one kind are not told apart by the specification.
Symmetric == Permutations(Subscribes) \cup Permutations(Unsubscribes)
=============================================================================
