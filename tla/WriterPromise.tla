--------------------------- MODULE WriterPromise ---------------------------
(***************************************************************************)
(* What a message writer promises to the code that broadcasts through it,  *)
(* whichever engine implements it (lib/solid_mcp/message_writer.rb, or     *)
(* ext/solid_mcp_native/core/src/writer.rs).                               *)
(*                                                                         *)
(* A message is identified by its ticket: the position it was accepted at. *)
(* The writer settles tickets in order, each exactly once, a batch at a    *)
(* time; one INSERT statement stores the whole batch or loses all of it,   *)
(* and at most Capacity accepted messages exist only in memory.            *)
(***************************************************************************)
EXTENDS Naturals, Sequences

CONSTANT Capacity        \* accepted messages that may await their INSERT

VARIABLES
    accepted,            \* number of messages accepted so far
    settled              \* history: [n, stored] per ticket, in insert order

vars == <<accepted, settled>>

Outcome == [n : Nat, stored : BOOLEAN]

Pending == accepted - Len(settled)

Init ==
    /\ accepted = 0
    /\ settled = <<>>

Accept ==
    /\ Pending < Capacity
    /\ accepted' = accepted + 1
    /\ UNCHANGED settled

\* The next k tickets share the fate of one INSERT.
Settle(k, stored) ==
    /\ settled' = settled \o
         [i \in 1..k |-> [n |-> Len(settled) + i, stored |-> stored]]
    /\ UNCHANGED accepted

Next ==
    \/ Accept
    \/ \E k \in 1..Pending, stored \in BOOLEAN : Settle(k, stored)

Spec == Init /\ [][Next]_vars
=============================================================================
