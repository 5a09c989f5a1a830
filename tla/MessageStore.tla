--------------------------- MODULE MessageStore ----------------------------
(***************************************************************************)
(* The table solid_mcp_messages as the writers, the subscribers and the    *)
(* cleanup job of one session see it: app/models/solid_mcp/message.rb and  *)
(* the INSERT that MessageWriter#write_batch sends it.                     *)
(*                                                                         *)
(* Rows of other sessions only leave gaps between the ids of this one, so  *)
(* the ids of the session are numbered 1, 2, 3, ...  The database assigns  *)
(* ids in order when an INSERT runs and shows its rows when it commits:    *)
(* two processes that write at the same time may commit in the other order.*)
(***************************************************************************)
EXTENDS Integers, FiniteSets

CONSTANTS
    Writers,             \* the processes that write, one INSERT each at a time
    MaxId                \* bound: ids assigned

ASSUME StoreAssumption == MaxId \in Nat

Ids == 1..MaxId

VARIABLES
    row,                 \* the state of each id
    txn                  \* ids of the INSERT each writer has in flight

storeVars == <<row, txn>>

RowState == {"none", "open", "undelivered", "delivered", "gone"}

RowsIn(state) == {id \in Ids : row[id] = state}

\* The table after all of ids moved on to the given state.
Moved(ids, state) == [id \in Ids |-> IF id \in ids THEN state ELSE row[id]]

StoreInit ==
    /\ row = [id \in Ids |-> "none"]
    /\ txn = [w \in Writers |-> {}]

\* insert_all begins: the batch gets the next ids.
BeginInsert(w) ==
    /\ txn[w] = {}
    /\ \E last \in RowsIn("none") :
         LET batch == {id \in RowsIn("none") : id <= last}
         IN  /\ txn' = [txn EXCEPT ![w] = batch]
             /\ row' = Moved(batch, "open")

\* The statement ends: its rows are there, all of them or none.
EndInsert(w, outcome) ==
    /\ txn[w] # {}
    /\ row' = Moved(txn[w], outcome)
    /\ txn' = [txn EXCEPT ![w] = {}]

\* Message.mark_delivered(ids): one UPDATE of the rows that still exist.
Delivered(ids) ==
    Moved(ids \cap (RowsIn("undelivered") \cup RowsIn("delivered")), "delivered")

\* Message.cleanup: one transaction deletes the delivered and the undelivered
\* rows that are older than their retention.
Cleanup ==
    /\ \E old \in SUBSET (RowsIn("delivered") \cup RowsIn("undelivered")) :
         /\ old # {}
         /\ row' = Moved(old, "gone")
    /\ UNCHANGED txn

StoreNext ==
    \/ \E w \in Writers : BeginInsert(w)
    \/ \E w \in Writers, outcome \in {"undelivered", "gone"} : EndInsert(w, outcome)
    \/ Cleanup

StoreTypeOK ==
    /\ row \in [Ids -> RowState]
    /\ txn \in [Writers -> SUBSET Ids]
=============================================================================
