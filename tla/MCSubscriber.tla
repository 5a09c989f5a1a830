---------------------------- MODULE MCSubscriber ----------------------------
(* Subscriber with small constants for TLC: see the .cfg files.            *)
EXTENDS Subscriber, TLC

\* Neither subscribers nor writers are told apart by the specification.
Symmetric == Permutations(Subscribers) \cup Permutations(Writers)
=============================================================================
