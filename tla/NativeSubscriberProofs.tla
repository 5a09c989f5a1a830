----------------------- MODULE NativeSubscriberProofs -----------------------
(***************************************************************************)
(* Proofs about NativeSubscriber, polling or listening, for any number of  *)
(* rows and any limits.                                                    *)
(*                                                                         *)
(* IInv puts the cursor between what was heard and what is in hand.  It    *)
(* asks nothing of the table, so it holds whoever writes.  OneWriterInv    *)
(* adds what holds when a single process writes: ids become visible in     *)
(* order.  Unlike the Ruby subscriber's, this cursor may start at an id    *)
(* whose INSERT is still open (max_id looks at the whole table), so only a *)
(* cursor that has moved is known to lie among the visible rows.           *)
(***************************************************************************)
EXTENDS NativeSubscriber, FiniteSetTheorems, SequenceTheorems, TLAPS

\* The cursor separates what was heard from what is in hand.
CursorOK ==
    /\ task = "new" => heard = <<>> /\ todo = {}
    /\ first <= last
    /\ \A i \in 1..Len(heard) : first < heard[i] /\ heard[i] <= last
    /\ \A i, j \in 1..Len(heard) : i < j => heard[i] < heard[j]
    /\ \A id \in todo : last < id

IInv == TypeOK /\ CursorOK

\* Ids whose INSERT has not ended.
Unseen == RowsIn("none") \cup RowsIn("open")

\* One writer: what is in flight lies behind everything that was ever seen.
Ordered ==
    /\ \A w \in Writers : txn[w] = RowsIn("open")
    /\ \A id \in Unseen, later \in Ids : id < later => later \in Unseen
    /\ \A id \in RowsIn("none"), later \in Ids : id < later => later \in RowsIn("none")

\* One writer: a cursor that moved and the rows in hand were seen, and no
\* undelivered row lies between them that is not in hand.
Complete ==
    /\ first < last => last \notin Unseen
    /\ todo \cap Unseen = {}
    /\ \A id \in todo, j \in RowsIn("undelivered") : last < j /\ j < id => j \in todo

OneWriterInv ==
    /\ IInv
    /\ Ordered
    /\ Complete
    /\ SkipsNothing

-----------------------------------------------------------------------------
(* The table.                                                              *)

\* What an INSERT, an UPDATE or a DELETE makes of the rows.
LEMMA MovedRows ==
    ASSUME StoreTypeOK, NEW ids, NEW state \in RowState
    PROVE  /\ Moved(ids, state) \in [Ids -> RowState]
           /\ \A id \in Ids : Moved(ids, state)[id] =
                IF id \in ids THEN state ELSE row[id]
BY DEF Moved, StoreTypeOK

\* The application marks rows that are there, and adds none.
LEMMA DeliveredRows ==
    ASSUME StoreTypeOK, NEW ids
    PROVE  /\ Delivered(ids) \in [Ids -> RowState]
           /\ \A id \in Ids : Delivered(ids)[id] = "none" <=> row[id] = "none"
           /\ \A id \in Ids : Delivered(ids)[id] = "open" <=> row[id] = "open"
           /\ \A id \in Ids : Delivered(ids)[id] = "undelivered" =>
                row[id] = "undelivered"
<1> DEFINE covered == ids \cap (RowsIn("undelivered") \cup RowsIn("delivered"))
<1>1. Delivered(ids) = Moved(covered, "delivered")
  BY DEF Delivered
<1>2. \A id \in covered : row[id] \in {"undelivered", "delivered"}
  BY DEF RowsIn
<1> QED
  BY <1>1, <1>2, MovedRows DEF RowState

\* Everybody else: whoever writes to the table, and whoever notifies.
World ==
    \/ Inserts
    \/ CleanupDelivered
    \/ CleanupUndelivered
    \/ ApplicationMarks
    \/ Notification

\* What a step that inserts nothing leaves of the table.
TableKept ==
    /\ RowsIn("none")' = RowsIn("none")
    /\ RowsIn("open")' = RowsIn("open")
    /\ RowsIn("undelivered")' \subseteq RowsIn("undelivered")
    /\ txn' = txn

\* Deletions and marks insert nothing, and keep the table's types.
LEMMA RemovalKeepsTable ==
    ASSUME StoreTypeOK, CleanupDelivered \/ CleanupUndelivered \/ ApplicationMarks
    PROVE  StoreTypeOK' /\ TableKept
<1>1. ASSUME NEW state \in {"delivered", "undelivered"}, Deletes(state)
      PROVE  StoreTypeOK' /\ TableKept
  <2>1. PICK old \in SUBSET RowsIn(state) : row' = Moved(old, "gone") /\ txn' = txn
    BY <1>1 DEF Deletes
  <2>2. \A id \in old : row[id] = state
    BY DEF RowsIn
  <2>3. row' \in [Ids -> RowState]
    BY <2>1, MovedRows DEF RowState
  <2>4. \A id \in Ids : row'[id] = IF id \in old THEN "gone" ELSE row[id]
    BY <2>1, MovedRows DEF RowState
  <2> QED
    BY <2>1, <2>2, <2>3, <2>4 DEF StoreTypeOK, TableKept, RowsIn
<1>2. CASE ApplicationMarks
  <2>1. PICK ids \in SUBSET RowsIn("undelivered") : row' = Delivered(ids) /\ txn' = txn
    BY <1>2 DEF ApplicationMarks
  <2> QED
    BY <2>1, DeliveredRows DEF StoreTypeOK, TableKept, RowsIn
<1> QED
  BY <1>1, <1>2 DEF CleanupDelivered, CleanupUndelivered

\* An INSERT keeps the table's types, when it begins and when it ends.
LEMMA InsertKeepsTypes ==
    ASSUME StoreTypeOK, Inserts
    PROVE  StoreTypeOK'
<1>1. ASSUME NEW w \in Writers, BeginInsert(w)
      PROVE  StoreTypeOK'
  <2>1. PICK batch \in SUBSET Ids :
          txn' = [txn EXCEPT ![w] = batch] /\ row' = Moved(batch, "open")
    BY <1>1 DEF BeginInsert, RowsIn
  <2> QED
    BY <2>1, MovedRows DEF StoreTypeOK, RowState
<1>2. ASSUME NEW w \in Writers, NEW outcome \in {"undelivered", "gone"},
             EndInsert(w, outcome)
      PROVE  StoreTypeOK'
  <2>1. txn' = [txn EXCEPT ![w] = {}] /\ row' = Moved(txn[w], outcome)
    BY <1>2 DEF EndInsert
  <2> QED
    BY <2>1, MovedRows DEF StoreTypeOK, RowState
<1> QED
  BY <1>1, <1>2 DEF Inserts

-----------------------------------------------------------------------------
(* IInv, whoever writes.                                                   *)

\* No subscriber is created yet.
LEMMA InitIInv == Init => IInv
<1> SUFFICES ASSUME Init PROVE IInv
  OBVIOUS
<1> USE StoreAssumption DEF Init, StoreInit
<1>1. StoreTypeOK
  BY DEF StoreTypeOK, RowState
<1>2. TypeOK
  <2>1. 0 \in 0..MaxId /\ <<>> \in Seq(Ids)
    OBVIOUS
  <2> QED
    BY <1>1, <2>1, Zenon DEF TypeOK
<1>3. CursorOK
  BY DEF CursorOK
<1> QED
  BY <1>2, <1>3 DEF IInv

\* A step that keeps the cursor, and what is in hand or drops that.
LEMMA CursorKept ==
    ASSUME IInv, TypeOK', last' = last, heard' = heard, first' = first,
           todo' \in {todo, {}}, task' = "new" => task = "new"
    PROVE  IInv'
BY DEF IInv, CursorOK

\* Subscriber::new puts the cursor at an id of the table.
LEMMA NewIInv ==
    ASSUME IInv, New
    PROVE  IInv'
<1>1. PICK id \in {0} \cup (Ids \ RowsIn("none")) : first' = id /\ last' = id
  BY DEF New
<1>2. /\ task = "new" /\ task' \in {"catchUp", "check"}
      /\ UNCHANGED <<storeVars, listening, shutdown, todo, heard, inbox>>
  BY DEF New, Goto
<1>3. id \in 0..MaxId
  BY StoreAssumption DEF Ids
<1>4. TypeOK'
  BY <1>1, <1>2, <1>3 DEF IInv, TypeOK, StoreTypeOK, storeVars
<1>5. heard' = <<>> /\ todo' = {}
  BY <1>2 DEF IInv, CursorOK
<1>6. CursorOK'
  BY <1>1, <1>2, <1>3, <1>5 DEF CursorOK
<1> QED
  BY <1>4, <1>6 DEF IInv

\* Steps of the task and of stop that fetch and deliver nothing.
Moves ==
    \/ Stop
    \/ Check
    \/ FetchFails
    \/ CallbackPanics
    \/ Wake
    \/ Connect
    \/ ReceiveNotification
    \/ RecvEnds

\* They leave the table and the cursor, and drop at most what is in hand.
LEMMA MovesKeep ==
    ASSUME IInv, Moves
    PROVE  /\ UNCHANGED <<storeVars, listening, last, heard, first>>
           /\ todo' \in {todo, {}}
           /\ task # "new"
           /\ task' \in {task, "check", "recv", "fetch", "sleep", "connect", "done"}
           /\ shutdown' \in BOOLEAN
           /\ inbox' \in SUBSET Ids
<1> USE DEF IInv, TypeOK, cursorVars
<1>1. CASE Stop
  BY <1>1 DEF Stop
<1>2. CASE Check
  BY <1>2 DEF Check, Move, Goto
<1>3. CASE FetchFails
  BY <1>3 DEF FetchFails, Move, Goto, Rest
<1>4. CASE CallbackPanics
  BY <1>4 DEF CallbackPanics, Goto
<1>5. CASE Wake
  BY <1>5 DEF Wake, Move, Goto
<1>6. CASE Connect
  BY <1>6 DEF Connect, Move, Goto
<1>7. CASE ReceiveNotification
  BY <1>7 DEF ReceiveNotification, Goto
<1>8. CASE RecvEnds
  BY <1>8 DEF RecvEnds, Move, Goto
<1> QED
  BY <1>1, <1>2, <1>3, <1>4, <1>5, <1>6, <1>7, <1>8 DEF Moves

\* So they keep the invariant.
LEMMA MovesIInv ==
    ASSUME IInv, Moves
    PROVE  IInv'
<1>1. TypeOK'
  <2>1. StoreTypeOK'
    BY MovesKeep DEF IInv, TypeOK, StoreTypeOK, storeVars
  <2>2. todo' \in SUBSET Ids
    BY MovesKeep DEF IInv, TypeOK
  <2> QED
    BY <2>1, <2>2, MovesKeep DEF IInv, TypeOK
<1> QED
  BY <1>1, MovesKeep, CursorKept

\* What both loops fetch lies ahead of the cursor.
LEMMA FetchIInv ==
    ASSUME IInv, Fetch
    PROVE  IInv'
<1>1. /\ todo' \subseteq Eligible
      /\ UNCHANGED <<storeVars, listening, shutdown, last, heard, inbox, first>>
  BY DEF Fetch, Lowest
<1>2. task' \in {"connect", "catching", "check", "sleep", "deliver"}
  BY DEF Fetch, Goto, Rest
<1>3. TypeOK'
  BY <1>1, <1>2 DEF IInv, TypeOK, StoreTypeOK, storeVars, Eligible, RowsIn
<1>4. CursorOK'
  <2>1. \A id \in todo' : last' < id
    BY <1>1 DEF Eligible
  <2> QED
    BY <2>1, <1>1, <1>2 DEF IInv, CursorOK
<1> QED
  BY <1>3, <1>4 DEF IInv

\* One row is delivered: the lowest in hand, which becomes the cursor.
LEMMA Delivers ==
    ASSUME IInv, Deliver
    PROVE  \E id \in todo :
             /\ id \in Ids /\ last < id /\ last' = id
             /\ \A other \in todo : id <= other
             /\ todo' = todo \ {id}
             /\ heard' \in Seq(Ids)
             /\ Len(heard') = Len(heard) + 1 /\ Len(heard) \in Nat
             /\ \A i \in 1..Len(heard) : heard'[i] = heard[i] /\ heard[i] \in Ids
             /\ heard'[Len(heard) + 1] = id
<1>1. PICK id \in todo :
        /\ \A other \in todo : id <= other
        /\ last' = id
        /\ heard' = Append(heard, id)
        /\ todo' = todo \ {id}
  BY DEF Deliver
<1>2. id \in Ids /\ last < id /\ heard \in Seq(Ids)
  BY DEF IInv, TypeOK, CursorOK
<1>3. /\ heard' \in Seq(Ids)
      /\ Len(heard') = Len(heard) + 1
      /\ \A i \in 1..Len(heard) : heard'[i] = heard[i]
      /\ heard'[Len(heard) + 1] = id
  BY <1>1, <1>2, AppendProperties
<1>4. Len(heard) \in Nat /\ \A i \in 1..Len(heard) : heard[i] \in Ids
  BY <1>2, LenProperties
<1> QED
  BY <1>1, <1>2, <1>3, <1>4

\* The cursor stays between what was heard and what is in hand.
LEMMA DeliverIInv ==
    ASSUME IInv, Deliver
    PROVE  IInv'
<1>1. PICK id \in todo :
        /\ id \in Ids /\ last < id /\ last' = id
        /\ \A other \in todo : id <= other
        /\ todo' = todo \ {id}
        /\ heard' \in Seq(Ids)
        /\ Len(heard') = Len(heard) + 1 /\ Len(heard) \in Nat
        /\ \A i \in 1..Len(heard) : heard'[i] = heard[i] /\ heard[i] \in Ids
        /\ heard'[Len(heard) + 1] = id
  BY Delivers
<1>2. /\ task' \in {"connect", "catching", "check", "sleep", "deliver"}
      /\ UNCHANGED <<storeVars, listening, shutdown, inbox, first>>
  BY DEF Deliver, Goto, Rest
<1>3. first \in Int /\ last \in Int /\ todo \subseteq Int /\ Ids \subseteq Int
  BY StoreAssumption DEF IInv, TypeOK, Ids
<1>4. TypeOK'
  <2>1. last' \in 0..MaxId
    BY <1>1, StoreAssumption DEF Ids
  <2> QED
    BY <2>1, <1>1, <1>2 DEF IInv, TypeOK, StoreTypeOK, storeVars
<1>5. CursorOK'
  <2>1. \A i \in 1..Len(heard) : heard[i] \in Int /\ first < heard[i] /\ heard[i] < id
    <3> SUFFICES ASSUME NEW i \in 1..Len(heard)
                 PROVE  heard[i] \in Int /\ first < heard[i] /\ heard[i] < id
      OBVIOUS
    <3>1. first < heard[i] /\ heard[i] <= last
      BY DEF IInv, CursorOK
    <3>2. heard[i] \in Int /\ id \in Int /\ last < id
      BY <1>1, <1>3
    <3> QED
      BY <3>1, <3>2, <1>3
  <2>2. first < id
    BY <1>1, <1>3 DEF IInv, CursorOK
  <2>3. \A i \in 1..Len(heard') : first < heard'[i] /\ heard'[i] <= id
    <3> SUFFICES ASSUME NEW i \in 1..Len(heard')
                 PROVE  first < heard'[i] /\ heard'[i] <= id
      OBVIOUS
    <3>1. i \in 1..Len(heard) \/ i = Len(heard) + 1
      BY <1>1
    <3>2. CASE i \in 1..Len(heard)
      <4>1. heard'[i] = heard[i] /\ heard[i] \in Int /\ first < heard[i] /\ heard[i] < id
        BY <2>1, <1>1, <3>2
      <4> QED
        BY <4>1, <1>1, <1>3
    <3>3. CASE i = Len(heard) + 1
      BY <2>2, <1>1, <1>3, <3>3
    <3> QED
      BY <3>1, <3>2, <3>3
  <2>4. \A i, j \in 1..Len(heard') : i < j => heard'[i] < heard'[j]
    <3>1. \A i, j \in 1..Len(heard) : i < j => heard[i] < heard[j]
      BY DEF IInv, CursorOK
    <3> QED
      BY <3>1, <2>1, <1>1
  <2>5. \A other \in todo' : id < other
    BY <1>1, <1>3
  <2> QED
    BY <2>2, <2>3, <2>4, <2>5, <1>1, <1>2, <1>3 DEF CursorOK
<1> QED
  BY <1>4, <1>5 DEF IInv

\* The others touch the table and the notifications, never the subscriber.
LEMMA WorldIInv ==
    ASSUME IInv, World
    PROVE  IInv'
<1>1. UNCHANGED Others
  BY DEF World, Inserts, CleanupDelivered, CleanupUndelivered, Deletes,
         ApplicationMarks, Notification, Others
<1>2. StoreTypeOK'
  <2>1. CASE Notification
    BY <2>1 DEF Notification, storeVars, IInv, TypeOK, StoreTypeOK
  <2>2. StoreTypeOK
    BY DEF IInv, TypeOK
  <2> QED
    BY <2>1, <2>2, RemovalKeepsTable, InsertKeepsTypes DEF World
<1>3. inbox' \in SUBSET Ids
  BY DEF World, Inserts, CleanupDelivered, CleanupUndelivered, Deletes,
         ApplicationMarks, Notification, Visible, RowsIn, IInv, TypeOK
<1>4. TypeOK'
  BY <1>1, <1>2, <1>3 DEF Others, cursorVars, IInv, TypeOK
<1> QED
  BY <1>1, <1>4, CursorKept DEF Others, cursorVars

\* The steps of the specification, as the lemmas group them.
LEMMA Steps == Next => New \/ Moves \/ Fetch \/ Deliver \/ World
BY DEF Next, Task, Moves, World

\* Every step keeps the invariant.
LEMMA NextIInv == IInv /\ [Next]_vars => IInv'
<1> SUFFICES ASSUME IInv, [Next]_vars PROVE IInv'
  OBVIOUS
<1>1. CASE UNCHANGED vars
  BY <1>1 DEF vars, storeVars, cursorVars, IInv, TypeOK, StoreTypeOK, CursorOK
<1> QED
  BY <1>1, Steps, NewIInv, MovesIInv, FetchIInv, DeliverIInv, WorldIInv

\* The inductive invariant holds in every reachable state.
THEOREM Invariance == Spec => []IInv
  BY InitIInv, NextIInv, PTL DEF Spec

\* Every variable keeps its type: last_id stays among the ids assigned.
THEOREM TypeCorrect == Spec => []TypeOK
<1>1. IInv => TypeOK
  BY DEF IInv
<1> QED
  BY <1>1, Invariance, PTL

\* Both loops, and the fetch before LISTEN, pass rows on in the order of their
\* ids, never twice and none from before the subscription, whoever writes and
\* whatever notifications name.
THEOREM OrderCorrect == Spec => []HeardInOrder
<1>1. IInv => HeardInOrder
  BY DEF IInv, CursorOK, HeardInOrder
<1> QED
  BY <1>1, Invariance, PTL

-----------------------------------------------------------------------------
(* One writing process.                                                    *)

\* No cursor has moved and nothing is in flight at first.
LEMMA InitOneWriter ==
    ASSUME NEW w, Writers = {w}
    PROVE  Init => OneWriterInv
<1> SUFFICES ASSUME Init PROVE OneWriterInv
  OBVIOUS
<1>1. Ordered
  BY DEF Init, StoreInit, Ordered, Unseen, RowsIn
<1>2. Complete
  BY DEF Init, Complete
<1>3. SkipsNothing
  BY DEF Init, StoreInit, SkipsNothing, RowsIn
<1> QED
  BY <1>1, <1>2, <1>3, InitIInv DEF OneWriterInv

\* A cursor that stays is not overtaken while nothing is inserted.
LEMMA KeptOneWriter ==
    ASSUME OneWriterInv, IInv', TableKept,
           last' = last, heard' = heard, first' = first, todo' \in {todo, {}}
    PROVE  OneWriterInv'
<1> USE DEF OneWriterInv
<1>1. Ordered'
  BY DEF TableKept, Ordered, Unseen
<1>2. Complete'
  BY DEF TableKept, Complete, Unseen
<1>3. SkipsNothing'
  BY DEF TableKept, SkipsNothing, Heard
<1> QED
  BY <1>1, <1>2, <1>3

\* Subscriber::new skips what its max_id covers, and that only.
LEMMA NewOneWriter ==
    ASSUME OneWriterInv, IInv', New
    PROVE  OneWriterInv'
<1> USE DEF OneWriterInv
<1>1. /\ first' = last' /\ last' \in Int
      /\ UNCHANGED <<storeVars, todo>>
      /\ todo = {}
  BY DEF New, Goto, IInv, TypeOK, CursorOK
<1>2. Ordered'
  BY <1>1 DEF Ordered, Unseen, RowsIn, storeVars
<1>3. Complete'
  BY <1>1 DEF Complete
<1>4. SkipsNothing'
  <2>1. ~ \E id \in Ids : first' < id /\ id <= last'
    BY <1>1 DEF Ids
  <2> QED
    BY <2>1 DEF SkipsNothing, RowsIn
<1> QED
  BY <1>2, <1>3, <1>4

\* LIMIT cuts the highest rows off: what lies below a row it took was taken.
LEMMA LowestIsDownward ==
    ASSUME NEW ids \in SUBSET Ids, NEW limit \in Nat,
           NEW id \in Lowest(ids, limit), NEW j \in ids, j < id
    PROVE  j \in Lowest(ids, limit)
<1> DEFINE Below(k) == {e \in ids : e < k}
<1>1. id \in Int /\ j \in Int /\ ids \subseteq Int
  BY DEF Lowest, Ids
<1>2. IsFiniteSet(Below(id))
  <2>1. IsFiniteSet(Ids)
    BY FS_Interval, StoreAssumption DEF Ids
  <2> QED
    BY <2>1, FS_Subset
<1>3. Below(j) \subseteq Below(id)
  <2>1. \A e \in ids : e < j => e < id
    BY <1>1
  <2> QED
    BY <2>1
<1>4. /\ Cardinality(Below(j)) <= Cardinality(Below(id))
      /\ Cardinality(Below(j)) \in Nat /\ Cardinality(Below(id)) \in Nat
  BY <1>2, <1>3, FS_Subset, FS_CardinalityType
<1>5. Cardinality(Below(id)) < limit
  BY DEF Lowest
<1> QED
  BY <1>4, <1>5 DEF Lowest

\* A fetch takes the lowest undelivered rows ahead of the cursor.
LEMMA FetchOneWriter ==
    ASSUME OneWriterInv, IInv', Fetch
    PROVE  OneWriterInv'
<1> USE DEF OneWriterInv
<1>1. PICK limit \in Nat : todo' = Lowest(Eligible, limit)
  BY NativeSubscriberAssumption DEF Fetch
<1>2. UNCHANGED <<storeVars, last, heard, first>>
  BY DEF Fetch
<1>3. Ordered'
  BY <1>2 DEF Ordered, Unseen, RowsIn, storeVars
<1>4. Complete'
  <2>1. Unseen' = Unseen /\ RowsIn("undelivered")' = RowsIn("undelivered")
    BY <1>2 DEF Unseen, RowsIn, storeVars
  <2>2. todo' \cap Unseen = {}
    BY <1>1 DEF Lowest, Eligible, RowsIn, Unseen
  <2>3. ASSUME NEW id \in todo', NEW j \in RowsIn("undelivered"), last < j, j < id
        PROVE  j \in todo'
    <3>1. j \in Eligible /\ Eligible \in SUBSET Ids
      BY <2>3 DEF Eligible, RowsIn
    <3> QED
      BY <1>1, <2>3, <3>1, LowestIsDownward
  <2> QED
    BY <1>2, <2>1, <2>2, <2>3 DEF Complete
<1>5. SkipsNothing'
  BY <1>2 DEF SkipsNothing, Heard, RowsIn, storeVars
<1> QED
  BY <1>3, <1>4, <1>5

\* The cursor moves to the lowest row in hand, over nothing else.
LEMMA DeliverOneWriter ==
    ASSUME OneWriterInv, IInv', Deliver
    PROVE  OneWriterInv'
<1> USE DEF OneWriterInv
<1>1. PICK id \in todo :
        /\ id \in Ids /\ last < id /\ last' = id
        /\ \A other \in todo : id <= other
        /\ todo' = todo \ {id}
        /\ heard' \in Seq(Ids)
        /\ Len(heard') = Len(heard) + 1 /\ Len(heard) \in Nat
        /\ \A i \in 1..Len(heard) : heard'[i] = heard[i] /\ heard[i] \in Ids
        /\ heard'[Len(heard) + 1] = id
  BY Delivers
<1>2. UNCHANGED <<storeVars, first>>
  BY DEF Deliver
<1>3. last \in Int /\ Ids \subseteq Int /\ todo \subseteq Ids
  BY DEF IInv, TypeOK, Ids
<1>4. Ordered'
  BY <1>2 DEF Ordered, Unseen, RowsIn, storeVars
<1>5. \A k \in todo, j \in RowsIn("undelivered") : last < j /\ j < k => j \in todo
  BY DEF Complete
<1>6. Unseen' = Unseen /\ RowsIn("undelivered")' = RowsIn("undelivered")
  BY <1>2 DEF Unseen, RowsIn, storeVars
<1>7. Complete'
  <2>1. todo \cap Unseen = {}
    BY DEF Complete
  <2>2. ASSUME NEW k \in todo', NEW j \in RowsIn("undelivered"), id < j, j < k
        PROVE  j \in todo'
    <3>1. j \in Int /\ last < j /\ j # id
      BY <1>1, <1>3, <2>2 DEF RowsIn
    <3> QED
      BY <1>1, <1>5, <2>2, <3>1
  <2> QED
    BY <1>1, <1>6, <2>1, <2>2 DEF Complete
<1>8. SkipsNothing'
  <2> SUFFICES ASSUME NEW j \in RowsIn("undelivered"), first < j, j <= id
               PROVE  Heard(j)'
    BY <1>1, <1>2, <1>6 DEF SkipsNothing
  <2>1. j \in Int
    BY <1>3 DEF RowsIn
  <2>2. CASE j <= last
    <3>1. Heard(j)
      BY <2>2 DEF SkipsNothing
    <3>2. PICK i \in 1..Len(heard) : heard[i] = j
      BY <3>1 DEF Heard
    <3>3. i \in 1..Len(heard') /\ heard'[i] = j
      BY <1>1, <3>2
    <3> QED
      BY <3>3 DEF Heard
  <2>3. CASE last < j
    <3>1. j < id => j \in todo
      BY <1>5, <2>3
    <3>2. j = id
      BY <1>1, <1>3, <2>1, <3>1
    <3>3. Len(heard) + 1 \in 1..Len(heard')
      BY <1>1
    <3> QED
      BY <1>1, <3>2, <3>3 DEF Heard
  <2> QED
    BY <1>3, <2>1, <2>2, <2>3
<1> QED
  BY <1>4, <1>7, <1>8

\* An INSERT that begins opens the lowest ids that are left.
LEMMA BeginOneWriter ==
    ASSUME NEW w, Writers = {w}, OneWriterInv, IInv', BeginInsert(w), UNCHANGED Others
    PROVE  OneWriterInv'
<1> USE DEF OneWriterInv
<1>1. StoreTypeOK /\ last' = last /\ heard' = heard /\ todo' = todo /\ first' = first
  BY DEF Others, cursorVars, IInv, TypeOK
<1>2. PICK end \in RowsIn("none") :
        /\ txn' = [txn EXCEPT ![w] = {id \in RowsIn("none") : id <= end}]
        /\ row' = Moved({id \in RowsIn("none") : id <= end}, "open")
  BY DEF BeginInsert
<1> DEFINE batch == {id \in RowsIn("none") : id <= end}
<1>3. RowsIn("open") = {}
  BY DEF BeginInsert, Ordered
<1>4. \A id \in Ids : row'[id] = IF id \in batch THEN "open" ELSE row[id]
  BY <1>1, <1>2, MovedRows DEF RowState
<1>5. /\ RowsIn("open")' = batch
      /\ RowsIn("none")' = RowsIn("none") \ batch
      /\ RowsIn("undelivered")' = RowsIn("undelivered")
      /\ Unseen' = Unseen
  BY <1>3, <1>4 DEF RowsIn, Unseen
<1>6. Ordered'
  <2>1. \A v \in Writers : txn'[v] = RowsIn("open")'
    BY <1>1, <1>2, <1>5 DEF StoreTypeOK
  <2>2. \A id \in RowsIn("none")', later \in Ids : id < later => later \in RowsIn("none")'
    BY <1>5 DEF Ordered, RowsIn, Ids
  <2> QED
    BY <1>5, <2>1, <2>2 DEF Ordered
<1>7. Complete'
  BY <1>1, <1>5 DEF Complete
<1>8. SkipsNothing'
  BY <1>1, <1>5 DEF SkipsNothing, Heard
<1> QED
  BY <1>6, <1>7, <1>8

\* An INSERT that ends shows its rows ahead of every cursor that moved and of
\* every row in hand.
LEMMA EndOneWriter ==
    ASSUME NEW w, Writers = {w}, OneWriterInv, IInv',
           NEW outcome \in {"undelivered", "gone"}, EndInsert(w, outcome),
           UNCHANGED Others
    PROVE  OneWriterInv'
<1> USE DEF OneWriterInv
<1>1. StoreTypeOK /\ last' = last /\ heard' = heard /\ todo' = todo /\ first' = first
  BY DEF Others, cursorVars, IInv, TypeOK
<1>2. txn' = [txn EXCEPT ![w] = {}] /\ row' = Moved(RowsIn("open"), outcome)
  BY DEF EndInsert, Ordered
<1>3. \A id \in Ids : row'[id] = IF id \in RowsIn("open") THEN outcome ELSE row[id]
  BY <1>1, <1>2, MovedRows DEF RowState
<1>4. /\ RowsIn("open")' = {}
      /\ RowsIn("none")' = RowsIn("none")
      /\ RowsIn("undelivered")' \subseteq RowsIn("undelivered") \cup Unseen
      /\ Unseen' = RowsIn("none")
  BY <1>3 DEF RowsIn, Unseen
<1>5. Ordered'
  BY <1>1, <1>2, <1>4 DEF Ordered, StoreTypeOK
<1>6. \A id \in Ids \ Unseen, j \in Unseen : id < j
  BY DEF Ordered, Unseen, RowsIn, Ids
<1>7. Complete'
  <2>1. ASSUME NEW id \in todo, NEW j \in RowsIn("undelivered")', last < j, j < id
        PROVE  j \in todo
    <3>1. id \in Ids \ Unseen
      BY DEF IInv, TypeOK, Complete
    <3>2. id \in Int /\ j \in Int
      BY <3>1 DEF RowsIn, Ids
    <3>3. j \notin Unseen
      BY <1>6, <2>1, <3>1, <3>2
    <3> QED
      BY <1>4, <2>1, <3>3 DEF Complete
  <2> QED
    BY <1>1, <1>4, <2>1 DEF Complete, Unseen
<1>8. SkipsNothing'
  <2> SUFFICES ASSUME NEW j \in RowsIn("undelivered")', first < j, j <= last
               PROVE  Heard(j)
    BY <1>1 DEF SkipsNothing, Heard
  <2>1. j \in Int /\ first \in 0..MaxId /\ last \in 0..MaxId
    BY DEF RowsIn, Ids, IInv, TypeOK
  <2>2. first < last /\ last \in Ids
    BY <2>1, StoreAssumption DEF Ids
  <2>3. j \notin Unseen
    BY <1>6, <2>1, <2>2 DEF Complete
  <2> QED
    BY <1>4, <2>3 DEF SkipsNothing
<1> QED
  BY <1>5, <1>7, <1>8

\* Every step keeps OneWriterInv when a single process writes.
LEMMA NextOneWriter ==
    ASSUME NEW w, Writers = {w}
    PROVE  OneWriterInv /\ [Next]_vars => OneWriterInv'
<1> SUFFICES ASSUME OneWriterInv, [Next]_vars PROVE OneWriterInv'
  OBVIOUS
<1>1. IInv /\ IInv' /\ StoreTypeOK
  BY NextIInv DEF OneWriterInv, IInv, TypeOK
<1>2. CASE UNCHANGED storeVars /\ last' = last /\ heard' = heard /\ first' = first
           /\ todo' \in {todo, {}}
  <2>1. TableKept
    BY <1>2 DEF TableKept, RowsIn, storeVars
  <2> QED
    BY <1>1, <1>2, <2>1, KeptOneWriter
<1>3. CASE Moves
  BY <1>1, <1>2, <1>3, MovesKeep
<1>4. CASE World
  <2>1. UNCHANGED Others
    BY <1>4 DEF World, Inserts, CleanupDelivered, CleanupUndelivered, Deletes,
                ApplicationMarks, Notification, Others
  <2>2. last' = last /\ heard' = heard /\ first' = first /\ todo' = todo
    BY <2>1 DEF Others, cursorVars
  <2>3. CASE Inserts
    BY <1>1, <2>1, <2>3, BeginOneWriter, EndOneWriter DEF Inserts
  <2>4. CASE CleanupDelivered \/ CleanupUndelivered \/ ApplicationMarks
    BY <1>1, <2>2, <2>4, RemovalKeepsTable, KeptOneWriter
  <2>5. CASE Notification
    BY <1>2, <2>2, <2>5 DEF Notification
  <2> QED
    BY <1>4, <2>3, <2>4, <2>5 DEF World
<1>5. CASE UNCHANGED vars
  BY <1>2, <1>5 DEF vars, cursorVars
<1> QED
  BY <1>1, <1>3, <1>4, <1>5, Steps, NewOneWriter, FetchOneWriter, DeliverOneWriter

\* With a single writing process no undelivered row of the subscription falls
\* behind last_id unheard: not when a fetch fails, a callback panics, LISTEN
\* begins between two rows, or max_id covers ids that are still open.
THEOREM NothingSkipped ==
    ASSUME NEW w, Writers = {w}
    PROVE  Spec => []SkipsNothing
<1>1. Init => OneWriterInv
  BY InitOneWriter
<1>2. OneWriterInv /\ [Next]_vars => OneWriterInv'
  BY NextOneWriter
<1>3. OneWriterInv => SkipsNothing
  BY DEF OneWriterInv
<1> QED
  BY <1>1, <1>2, <1>3, PTL DEF Spec
=============================================================================
