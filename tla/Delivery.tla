------------------------------ MODULE Delivery ------------------------------
(***************************************************************************)
(* What one session's subscribers may rely on, whatever lies between them  *)
(* and the code that broadcasts (README.md, "Database-backed pub/sub").    *)
(*                                                                         *)
(* A message is its writer and its ticket there.  Each subscriber is       *)
(* passed messages that were accepted, those of one writer in the order    *)
(* they were accepted, none twice.  Messages may be missing.               *)
(* A message counts as passed on when all of the subscriber's callbacks    *)
(* succeeded for it in one round.                                          *)
(***************************************************************************)
EXTENDS Naturals, Sequences

CONSTANTS Writers, Subscribers

VARIABLES
    accepted,            \* messages each writer accepted
    passed               \* history: messages passed on to each subscriber

vars == <<accepted, passed>>

Init ==
    /\ accepted = [w \in Writers |-> 0]
    /\ passed = [s \in Subscribers |-> <<>>]

Accept(w) ==
    /\ accepted' = [accepted EXCEPT ![w] = @ + 1]
    /\ UNCHANGED passed

\* n comes after everything of w that s was passed before.
InOrder(s, w, n) ==
    \A i \in 1..Len(passed[s]) : passed[s][i].writer = w => passed[s][i].n < n

Pass(s, w, n) ==
    /\ n <= accepted[w]
    /\ InOrder(s, w, n)
    /\ passed' = [passed EXCEPT ![s] = Append(@, [writer |-> w, n |-> n])]
    /\ UNCHANGED accepted

Next ==
    \/ \E w \in Writers : Accept(w)
    \/ \E s \in Subscribers, w \in Writers : \E n \in 1..accepted[w] : Pass(s, w, n)

Spec == Init /\ [][Next]_vars
=============================================================================
