-------------------------- MODULE SubscriberProofs --------------------------
(***************************************************************************)
(* Proofs about Subscriber, for any number of subscribers, writers and     *)
(* rows, and any limits.                                                   *)
(*                                                                         *)
(* IInv relates each subscriber's cursor to what it has in hand: heard is  *)
(* behind last, todo is ahead of it, whatever was fetched and is not in    *)
(* todo any more was handled, and what met no callback came before all     *)
(* that did.  OneWriterInv adds what holds when a single process writes:   *)
(* ids become visible in order, so that nothing can appear between the     *)
(* cursor and a row in hand.                                               *)
(***************************************************************************)
EXTENDS Subscriber, FiniteSetTheorems, SequenceTheorems, TLAPS

Handled(s, id) ==
    \/ Heard(s, id)
    \/ \E r \in raised[s] : r <= id
    \/ id \in unheard[s]

\* The cursor separates what was heard from what is in hand.
CursorOK(s) ==
    /\ \A i \in 1..Len(heard[s]) : heard[s][i] <= last[s]
    /\ \A id \in todo[s] : last[s] < id
    /\ \A i, j \in 1..Len(heard[s]) : i < j => heard[s][i] < heard[s][j]

\* An array without a callback comes first: PubSub only ever appends.
UnheardOK(s) ==
    /\ callbacks[s] # "some" => heard[s] = <<>> /\ raised[s] = {}
    /\ \A id \in unheard[s] : id <= last[s] /\ BeforeCallbacks(s, id)

\* What the poll fetched is in hand, or handled.
PollOK(s) ==
    /\ poll[s] # "process" => todo[s] = {}
    /\ \A id \in fetched[s] \ todo[s] : Handled(s, id)

Local(s) == CursorOK(s) /\ UnheardOK(s) /\ PollOK(s)

DeliveredIsHandled ==
    \A id \in RowsIn("delivered") : \E s \in Subscribers : Handled(s, id)

IInv ==
    /\ TypeOK
    /\ \A s \in Subscribers : Local(s)
    /\ DeliveredIsHandled

\* Ids whose INSERT has not ended.
Unseen == RowsIn("none") \cup RowsIn("open")

\* One writer: what is in flight lies behind everything that was ever seen.
Ordered ==
    /\ \A w \in Writers : txn[w] = RowsIn("open")
    /\ \A id \in Unseen, later \in Ids : id < later => later \in Unseen
    /\ \A id \in RowsIn("none"), later \in Ids : id < later => later \in RowsIn("none")

\* One writer: the cursor and the rows in hand were seen, and no undelivered
\* row lies between them that is not in hand.
Complete(s) ==
    /\ last[s] # 0 => last[s] \notin Unseen
    /\ todo[s] \cap Unseen = {}
    /\ \A id \in todo[s], j \in RowsIn("undelivered") :
         last[s] < j /\ j < id => j \in todo[s]

\* One writer: what is undelivered behind the cursor has been passed over.
PassedOver(s) ==
    \A id \in RowsIn("undelivered") : id <= last[s] => Heard(s, id) \/ id \in unheard[s]

OneWriterInv ==
    /\ IInv
    /\ Ordered
    /\ \A s \in Subscribers : Complete(s) /\ PassedOver(s)

-----------------------------------------------------------------------------
(* The table.                                                              *)

\* What an UPDATE or an INSERT makes of the rows: those it names are in the
\* new state, the others where they were.
LEMMA MovedRows ==
    ASSUME StoreTypeOK, NEW ids, NEW state \in RowState
    PROVE  /\ Moved(ids, state) \in [Ids -> RowState]
           /\ \A id \in Ids : Moved(ids, state)[id] =
                IF id \in ids THEN state ELSE row[id]
BY DEF Moved, StoreTypeOK

\* Writers and the cleanup job keep the table's types, and deliver no row.
LEMMA StoreStep ==
    ASSUME StoreTypeOK, StoreNext
    PROVE  StoreTypeOK' /\ RowsIn("delivered")' \subseteq RowsIn("delivered")
<1>1. CASE \E w \in Writers : BeginInsert(w)
  <2>1. PICK w \in Writers : BeginInsert(w)
    BY <1>1
  <2>2. PICK batch \in SUBSET Ids :
          txn' = [txn EXCEPT ![w] = batch] /\ row' = Moved(batch, "open")
    BY <2>1 DEF BeginInsert, RowsIn
  <2> QED
    BY <2>2, MovedRows DEF StoreTypeOK, RowsIn, RowState
<1>2. CASE \E w \in Writers, outcome \in {"undelivered", "gone"} : EndInsert(w, outcome)
  <2>1. PICK w \in Writers, outcome \in {"undelivered", "gone"} : EndInsert(w, outcome)
    BY <1>2
  <2>2. txn' = [txn EXCEPT ![w] = {}] /\ row' = Moved(txn[w], outcome)
    BY <2>1 DEF EndInsert
  <2> QED
    BY <2>2, MovedRows DEF StoreTypeOK, RowsIn, RowState
<1>3. CASE Cleanup
  <2>1. PICK old \in SUBSET Ids : row' = Moved(old, "gone") /\ txn' = txn
    BY <1>3 DEF Cleanup, RowsIn
  <2> QED
    BY <2>1, MovedRows DEF StoreTypeOK, RowsIn, RowState
<1> QED
  BY <1>1, <1>2, <1>3 DEF StoreNext

\* mark_delivered keeps the table's types, and delivers only rows it names.
LEMMA DeliveredRows ==
    ASSUME StoreTypeOK, NEW ids \in SUBSET Ids
    PROVE  /\ Delivered(ids) \in [Ids -> RowState]
           /\ \A id \in Ids : Delivered(ids)[id] = "delivered" =>
                id \in ids \/ row[id] = "delivered"
           /\ \A id \in Ids : Delivered(ids)[id] = "undelivered" =>
                row[id] = "undelivered"
           /\ \A id \in Ids : Delivered(ids)[id] \in {"none", "open"}
                <=> row[id] \in {"none", "open"}
           /\ \A id \in Ids : Delivered(ids)[id] = "none" <=> row[id] = "none"
           /\ \A id \in Ids : Delivered(ids)[id] = "open" <=> row[id] = "open"
<1> DEFINE covered == ids \cap (RowsIn("undelivered") \cup RowsIn("delivered"))
<1>1. Delivered(ids) = Moved(covered, "delivered")
  BY DEF Delivered
<1>2. \A id \in covered : row[id] \in {"undelivered", "delivered"}
  BY DEF RowsIn
<1> QED
  BY <1>1, <1>2, MovedRows DEF RowState

-----------------------------------------------------------------------------
(* IInv is inductive.                                                      *)

\* No subscriber is started, and the table is empty.
LEMMA InitIInv == Init => IInv
<1> SUFFICES ASSUME Init PROVE IInv
  OBVIOUS
<1> USE SubscriberAssumption, StoreAssumption DEF Init, StoreInit
<1>1. StoreTypeOK
  BY DEF StoreTypeOK, RowState
<1>2. TypeOK
  BY <1>1 DEF TypeOK
<1>3. \A s \in Subscribers : Local(s)
  BY DEF Local, CursorOK, UnheardOK, PollOK
<1>4. DeliveredIsHandled
  BY DEF DeliveredIsHandled, RowsIn
<1> QED
  BY <1>2, <1>3, <1>4 DEF IInv

\* A subscriber a step does not touch keeps what holds of it.
LEMMA Frame ==
    ASSUME NEW s \in Subscribers, Local(s),
           callbacks'[s] = callbacks[s], poll'[s] = poll[s], last'[s] = last[s],
           fetched'[s] = fetched[s], todo'[s] = todo[s],
           heard'[s] = heard[s], raised'[s] = raised[s], unheard'[s] = unheard[s]
    PROVE  Local(s)'
BY DEF Local, CursorOK, UnheardOK, BeforeCallbacks, PollOK, Handled, Heard

\* While nobody's row is delivered unhandled and what was handled stays so,
\* everything delivered is handled.
LEMMA DeliveredStep ==
    ASSUME DeliveredIsHandled,
           \A id \in RowsIn("delivered")' :
             \/ id \in RowsIn("delivered")
             \/ \E s \in Subscribers : Handled(s, id),
           \A s \in Subscribers, id \in Ids : Handled(s, id) => Handled(s, id)'
    PROVE  DeliveredIsHandled'
<1> SUFFICES ASSUME NEW id \in RowsIn("delivered")'
             PROVE  \E s \in Subscribers : Handled(s, id)'
  BY DEF DeliveredIsHandled
<1>1. \E s \in Subscribers : Handled(s, id)
  BY DEF DeliveredIsHandled
<1> QED
  BY <1>1 DEF RowsIn

\* One message more that was heard: those heard before it still are, and it is.
LEMMA HeardStep ==
    ASSUME TypeOK, NEW s \in Subscribers, NEW id \in Ids,
           heard' = [heard EXCEPT ![s] = Append(@, id)]
    PROVE  /\ heard' \in [Subscribers -> Seq(Ids)]
           /\ Len(heard[s]) \in Nat /\ Len(heard'[s]) = Len(heard[s]) + 1
           /\ \A i \in 1..Len(heard[s]) : heard'[s][i] = heard[s][i]
           /\ heard'[s][Len(heard[s]) + 1] = id
           /\ \A t \in Subscribers \ {s} : heard'[t] = heard[t]
           /\ Heard(s, id)'
           /\ \A t \in Subscribers, j \in Ids : Heard(t, j) => Heard(t, j)'
<1>1. /\ heard[s] \in Seq(Ids) /\ Len(heard[s]) \in Nat
      /\ heard'[s] = Append(heard[s], id)
      /\ \A t \in Subscribers \ {s} : heard'[t] = heard[t]
  BY LenProperties DEF TypeOK
<1>2. /\ heard'[s] \in Seq(Ids)
      /\ Len(heard'[s]) = Len(heard[s]) + 1
      /\ \A i \in 1..Len(heard[s]) : heard'[s][i] = heard[s][i]
      /\ heard'[s][Len(heard[s]) + 1] = id
  BY <1>1, AppendProperties
<1>3. heard' \in [Subscribers -> Seq(Ids)]
  BY <1>1, <1>2 DEF TypeOK
<1>4. Heard(s, id)'
  BY <1>1, <1>2 DEF Heard
<1>5. ASSUME NEW t \in Subscribers, NEW j \in Ids, Heard(t, j)
      PROVE  Heard(t, j)'
  BY <1>1, <1>2, <1>5 DEF Heard
<1> QED
  BY <1>1, <1>2, <1>3, <1>4, <1>5

\* Steps that move a subscriber between polls, with no message in hand after.
LEMMA QuietIInv ==
    ASSUME IInv, NEW s \in Subscribers,
           Start(s) \/ FirstCallback(s) \/ Stop(s) \/ Crash(s) \/ PollBegins(s)
    PROVE  IInv'
<1> USE SubscriberAssumption DEF IInv
<1> USE DEF Start, FirstCallback, Stop, Crash, PollBegins, storeVars, pollVars, retryVars,
            histVars
<1>1. TypeOK'
  <2>1. CASE Start(s)
    BY <2>1 DEF TypeOK, StoreTypeOK
  <2>2. CASE FirstCallback(s)
    BY <2>2 DEF TypeOK, StoreTypeOK
  <2>3. CASE Stop(s)
    BY <2>3 DEF TypeOK, StoreTypeOK
  <2>4. CASE Crash(s)
    BY <2>4 DEF TypeOK, StoreTypeOK
  <2>5. CASE PollBegins(s)
    BY <2>5 DEF TypeOK, StoreTypeOK
  <2> QED
    BY <2>1, <2>2, <2>3, <2>4, <2>5
<1>2. ASSUME NEW t \in Subscribers \ {s} PROVE Local(t)'
  BY <1>2, Frame DEF TypeOK
<1>3. Local(s)'
  <2>1. Local(s)
    OBVIOUS
  <2>2. CursorOK(s)'
    BY <2>1 DEF Local, CursorOK, TypeOK
  <2>3. UnheardOK(s)'
    BY <2>1 DEF Local, UnheardOK, BeforeCallbacks, TypeOK
  <2>4. PollOK(s)'
    BY <2>1 DEF Local, PollOK, Handled, Heard, TypeOK
  <2> QED
    BY <2>2, <2>3, <2>4 DEF Local
<1>4. DeliveredIsHandled'
  BY DEF DeliveredIsHandled, Handled, Heard, RowsIn
<1> QED
  BY <1>1, <1>2, <1>3, <1>4

\* fetch_new_messages takes rows beyond the cursor only.
LEMMA FetchIInv ==
    ASSUME IInv, NEW s \in Subscribers, Fetch(s)
    PROVE  IInv'
<1> USE DEF IInv
<1> DEFINE found == FirstOf(Eligible(s))
<1>1. found \subseteq Ids /\ \A id \in found : last[s] < id
  BY DEF FirstOf, Eligible, RowsIn, TypeOK, Ids
<1>2. /\ fetched' = [fetched EXCEPT ![s] = found]
      /\ todo' = [todo EXCEPT ![s] = found]
      /\ poll' = [poll EXCEPT ![s] = IF found = {} THEN "sleep" ELSE "process"]
      /\ poll[s] = "fetch"
      /\ UNCHANGED <<storeVars, callbacks, running, last, retryVars, histVars>>
  BY DEF Fetch
<1> HIDE DEF found
<1>3. TypeOK'
  BY <1>1, <1>2 DEF TypeOK, StoreTypeOK, retryVars, histVars, storeVars, RowsIn
<1>4. ASSUME NEW t \in Subscribers \ {s} PROVE Local(t)'
  BY <1>2, <1>4, Frame DEF TypeOK, histVars
<1>5. Local(s)'
  BY <1>1, <1>2 DEF Local, CursorOK, UnheardOK, BeforeCallbacks, PollOK, TypeOK, histVars
<1>6. DeliveredIsHandled'
  BY <1>2 DEF DeliveredIsHandled, Handled, Heard, RowsIn, histVars, storeVars
<1> QED
  BY <1>3, <1>4, <1>5, <1>6

\* The message passed over is the lowest in hand: it lies after the cursor and
\* becomes it.
LEMMA PassOverStep ==
    ASSUME IInv, NEW s \in Subscribers, NEW id \in Ids,
           NextMessage(s, id), PassOver(s, id), poll[s] = "process",
           last' = [last EXCEPT ![s] = id]
    PROVE  /\ todo' \in [Subscribers -> SUBSET Ids]
           /\ poll' \in [Subscribers -> {"new", "sleep", "fetch", "process", "mark"}]
           /\ last' \in [Subscribers -> 0..MaxId]
           /\ \A t \in Subscribers \ {s} :
                todo'[t] = todo[t] /\ poll'[t] = poll[t] /\ last'[t] = last[t]
           /\ last'[s] = id /\ last[s] \in Int /\ last[s] < id
           /\ todo'[s] = todo[s] \ {id} /\ \A j \in todo'[s] : id < j
           /\ poll'[s] # "process" => todo'[s] = {}
           /\ \A i \in 1..Len(heard[s]) : heard[s][i] \in Ids /\ heard[s][i] < id
<1> USE DEF IInv, NextMessage, PassOver
<1>1. /\ todo[s] \in SUBSET Ids /\ id \in todo[s] /\ \A j \in todo[s] : id <= j
      /\ last[s] \in 0..MaxId /\ last[s] < id
      /\ heard[s] \in Seq(Ids)
      /\ \A i \in 1..Len(heard[s]) : heard[s][i] <= last[s]
  BY DEF TypeOK, Local, CursorOK
<1>2. last' \in [Subscribers -> 0..MaxId] /\ last'[s] = id
  BY StoreAssumption DEF TypeOK, Ids
<1>3. \A i \in 1..Len(heard[s]) : heard[s][i] \in Ids
  BY <1>1
<1>4. todo'[s] = todo[s] \ {id} /\ (poll'[s] # "process" => todo'[s] = {})
  BY DEF TypeOK
<1> QED
  BY <1>1, <1>2, <1>3, <1>4, StoreAssumption DEF TypeOK, Ids

\* Callbacks that succeed add one message behind the cursor to those heard.
LEMMA SucceedIInv ==
    ASSUME IInv, NEW s \in Subscribers, CallbacksSucceed(s)
    PROVE  IInv'
<1> USE DEF IInv
<1>1. PICK id \in Ids :
        /\ NextMessage(s, id)
        /\ PassOver(s, id)
        /\ last' = [last EXCEPT ![s] = id]
        /\ heard' = [heard EXCEPT ![s] = Append(@, id)]
  BY DEF CallbacksSucceed
<1>2. /\ poll[s] = "process" /\ callbacks[s] = "some"
      /\ UNCHANGED <<storeVars, callbacks, running, fetched, retryVars, raised, unheard>>
  BY DEF CallbacksSucceed
<1>3. TypeOK'
  BY <1>1, <1>2, PassOverStep, HeardStep
     DEF TypeOK, StoreTypeOK, storeVars, retryVars, RowsIn
<1>4. ASSUME NEW t \in Subscribers \ {s} PROVE Local(t)'
  BY <1>1, <1>2, <1>4, PassOverStep, HeardStep, Frame
<1>5. \A t \in Subscribers, j \in Ids : Handled(t, j) => Handled(t, j)'
  BY <1>1, <1>2, HeardStep DEF Handled
<1>6. Local(s)'
  <2>1. CursorOK(s)'
    <3>1. \A i \in 1..Len(heard'[s]) : heard'[s][i] <= last'[s]
      <4>1. last'[s] = id /\ \A i \in 1..Len(heard[s]) : heard[s][i] \in Ids /\ heard[s][i] < id
        BY <1>1, <1>2, PassOverStep
      <4>2. /\ Len(heard[s]) \in Nat /\ Len(heard'[s]) = Len(heard[s]) + 1
            /\ \A i \in 1..Len(heard[s]) : heard'[s][i] = heard[s][i]
            /\ heard'[s][Len(heard[s]) + 1] = id
        BY <1>1, HeardStep
      <4> QED
        BY <4>1, <4>2 DEF Ids
    <3>2. \A j \in todo'[s] : last'[s] < j
      BY <1>1, <1>2, PassOverStep
    <3>3. \A i, j \in 1..Len(heard'[s]) : i < j => heard'[s][i] < heard'[s][j]
      <4>1. \A i, j \in 1..Len(heard[s]) : i < j => heard[s][i] < heard[s][j]
        BY DEF Local, CursorOK
      <4>2. \A i \in 1..Len(heard[s]) : heard[s][i] < id
        BY <1>1, <1>2, PassOverStep
      <4> QED
        BY <1>1, <4>1, <4>2, HeardStep
    <3> QED
      BY <3>1, <3>2, <3>3 DEF CursorOK
  <2>2. UnheardOK(s)'
    <3>1. ASSUME NEW j \in unheard[s]
          PROVE  j <= id /\ j < id /\ BeforeCallbacks(s, j)
      <4>1. j \in Ids /\ j <= last[s] /\ BeforeCallbacks(s, j)
        BY DEF Local, UnheardOK, TypeOK
      <4>2. last[s] \in Int /\ last[s] < id
        BY <1>1, <1>2, PassOverStep
      <4> QED
        BY <4>1, <4>2 DEF Ids
    <3>2. ASSUME NEW j \in unheard'[s]
          PROVE  j <= last'[s] /\ BeforeCallbacks(s, j)'
      <4>1. j <= id /\ j < id /\ BeforeCallbacks(s, j)
        BY <1>2, <3>1
      <4>2. \A i \in 1..Len(heard'[s]) : j < heard'[s][i]
        BY <1>1, <4>1, HeardStep DEF BeforeCallbacks
      <4>3. last'[s] = id
        BY <1>1, <1>2, PassOverStep
      <4> QED
        BY <1>2, <4>1, <4>2, <4>3 DEF BeforeCallbacks
    <3> QED
      BY <1>2, <3>2 DEF UnheardOK
  <2>3. PollOK(s)'
    <3>1. poll'[s] # "process" => todo'[s] = {}
      BY <1>1, <1>2, PassOverStep
    <3>2. Handled(s, id)'
      BY <1>1, HeardStep DEF Handled
    <3>3. \A j \in fetched[s] \ todo[s] : Handled(s, j)'
      BY <1>5 DEF Local, PollOK, TypeOK
    <3>4. fetched'[s] \ todo'[s] \subseteq (fetched[s] \ todo[s]) \cup {id}
      BY <1>1, <1>2, PassOverStep
    <3> QED
      BY <3>1, <3>2, <3>3, <3>4 DEF PollOK
  <2> QED
    BY <2>1, <2>2, <2>3 DEF Local
<1>7. DeliveredIsHandled'
  BY <1>2, <1>5, DeliveredStep DEF RowsIn, storeVars
<1> QED
  BY <1>3, <1>4, <1>6, <1>7

\* With nobody to call the cursor moves just the same, while nothing was heard
\* and no callback has raised.
LEMMA NobodyIInv ==
    ASSUME IInv, NEW s \in Subscribers, NobodyToCall(s)
    PROVE  IInv'
<1> USE DEF IInv
<1>1. PICK id \in Ids :
        /\ NextMessage(s, id)
        /\ PassOver(s, id)
        /\ last' = [last EXCEPT ![s] = id]
        /\ unheard' = [unheard EXCEPT ![s] = @ \cup {id}]
  BY DEF NobodyToCall
<1>2. /\ poll[s] = "process" /\ callbacks[s] = "empty"
      /\ UNCHANGED <<storeVars, callbacks, running, fetched, retryVars, heard, raised>>
  BY DEF NobodyToCall
<1>3. TypeOK'
  <2>1. unheard' \in [Subscribers -> SUBSET Ids]
    BY <1>1 DEF TypeOK
  <2>2. /\ todo' \in [Subscribers -> SUBSET Ids]
        /\ poll' \in [Subscribers -> {"new", "sleep", "fetch", "process", "mark"}]
        /\ last' \in [Subscribers -> 0..MaxId]
    BY <1>1, <1>2, PassOverStep
  <2> QED
    BY <1>2, <2>1, <2>2 DEF TypeOK, StoreTypeOK, storeVars, retryVars
<1>4. ASSUME NEW t \in Subscribers \ {s} PROVE Local(t)'
  BY <1>1, <1>2, <1>4, PassOverStep, Frame DEF TypeOK
<1>5. unheard'[s] = unheard[s] \cup {id}
  BY <1>1 DEF TypeOK
<1>6. \A t \in Subscribers, j \in Ids : Handled(t, j) => Handled(t, j)'
  BY <1>1, <1>2 DEF Handled, Heard, TypeOK
<1>7. Local(s)'
  <2>1. heard[s] = <<>> /\ raised[s] = {}
    BY <1>2 DEF Local, UnheardOK
  <2>2. CursorOK(s)'
    <3>1. heard'[s] = <<>> /\ Len(heard'[s]) = 0
      BY <1>2, <2>1
    <3>2. last'[s] = id /\ \A j \in todo'[s] : id < j
      BY <1>1, <1>2, PassOverStep
    <3> QED
      BY <3>1, <3>2 DEF CursorOK
  <2>3. UnheardOK(s)'
    <3>1. \A j \in unheard[s] : j \in Ids /\ j <= last[s]
      BY DEF Local, UnheardOK, TypeOK
    <3>2. last'[s] = id /\ last[s] \in Int /\ last[s] < id
      BY <1>1, <1>2, PassOverStep
    <3>3. \A j \in unheard'[s] : j <= last'[s]
      BY <1>5, <3>1, <3>2 DEF Ids
    <3> QED
      BY <1>2, <2>1, <3>3 DEF UnheardOK, BeforeCallbacks
  <2>4. PollOK(s)'
    <3>1. poll'[s] # "process" => todo'[s] = {}
      BY <1>1, <1>2, PassOverStep
    <3>2. Handled(s, id)'
      BY <1>5 DEF Handled
    <3>3. \A j \in fetched[s] \ todo[s] : Handled(s, j)'
      BY <1>6 DEF Local, PollOK, TypeOK
    <3>4. fetched'[s] \ todo'[s] \subseteq (fetched[s] \ todo[s]) \cup {id}
      BY <1>1, <1>2, PassOverStep
    <3> QED
      BY <3>1, <3>2, <3>3, <3>4 DEF PollOK
  <2> QED
    BY <2>2, <2>3, <2>4 DEF Local
<1>8. DeliveredIsHandled'
  BY <1>2, <1>6, DeliveredStep DEF RowsIn, storeVars
<1> QED
  BY <1>3, <1>4, <1>7, <1>8

\* What the rescue clause leaves: nothing in hand, and a subscriber that has
\* failed as often as it may runs on only if the logger raised.
LEMMA RescueStep ==
    ASSUME IInv, NEW s \in Subscribers, Rescue(s)
    PROVE  /\ fetched' = [fetched EXCEPT ![s] = {}]
           /\ todo' = [todo EXCEPT ![s] = {}]
           /\ poll' = [poll EXCEPT ![s] = "sleep"]
           /\ UNCHANGED <<txn, last>>
           /\ retries' \in [Subscribers -> 0..MaxRetries]
           /\ running' \in [Subscribers -> BOOLEAN]
           /\ unlogged' \in [Subscribers -> BOOLEAN]
           /\ \A t \in Subscribers :
                running'[t] /\ retries'[t] = MaxRetries => unlogged'[t]
<1> USE SubscriberAssumption DEF IInv, TypeOK
<1>1. CASE LimitedRetries
  <2>1. PICK logs \in BOOLEAN :
          /\ retries' = [retries EXCEPT ![s] = IF @ < MaxRetries THEN @ + 1 ELSE @]
          /\ running' = [running EXCEPT ![s] = @ /\ (retries'[s] < MaxRetries \/ ~logs)]
          /\ unlogged' = [unlogged EXCEPT ![s] = retries'[s] = MaxRetries /\ ~logs]
    BY <1>1 DEF Rescue
  <2>2. retries' \in [Subscribers -> 0..MaxRetries]
    BY <2>1
  <2>3. running' \in [Subscribers -> BOOLEAN] /\ unlogged' \in [Subscribers -> BOOLEAN]
    BY <2>1
  <2>4. ASSUME NEW t \in Subscribers, running'[t], retries'[t] = MaxRetries
        PROVE  unlogged'[t]
    <3>1. CASE t = s
      <4>1. running'[s] = (running[s] /\ (retries'[s] < MaxRetries \/ ~logs))
        BY <2>1
      <4>2. unlogged'[s] = (retries'[s] = MaxRetries /\ ~logs)
        BY <2>1
      <4>3. ~(retries'[s] < MaxRetries)
        BY <2>4, <3>1
      <4> QED
        BY <2>4, <3>1, <4>1, <4>2, <4>3
    <3>2. CASE t # s
      <4>1. running'[t] = running[t] /\ retries'[t] = retries[t] /\ unlogged'[t] = unlogged[t]
        BY <2>1, <3>2
      <4> QED
        BY <2>4, <4>1
    <3> QED
      BY <3>1, <3>2
  <2> QED
    BY <2>2, <2>3, <2>4 DEF Rescue
<1>2. CASE ~LimitedRetries
  BY <1>2 DEF Rescue, retryVars
<1> QED
  BY <1>1, <1>2

\* Everything after a message whose callback raised counts as handled, since
\* that message comes before it; whether the poll goes on to its mark or the
\* logger ends it.
LEMMA RaiseIInv ==
    ASSUME IInv, NEW s \in Subscribers, CallbackRaises(s) \/ CallbackLogRaises(s)
    PROVE  IInv'
<1> USE DEF IInv
<1>1. PICK id \in Ids :
        /\ NextMessage(s, id)
        /\ raised' = [raised EXCEPT ![s] = IF \E r \in @ : r < id THEN @ ELSE {id}]
  BY DEF CallbackRaises, CallbackLogRaises, Raises
<1>2. /\ poll[s] = "process" /\ callbacks[s] = "some"
      /\ UNCHANGED <<storeVars, callbacks, last, heard, unheard>>
      /\ todo' = [todo EXCEPT ![s] = {}]
      /\ fetched' \in {fetched, [fetched EXCEPT ![s] = {}]}
      /\ poll' \in {[poll EXCEPT ![s] = "mark"], [poll EXCEPT ![s] = "sleep"]}
  BY RescueStep DEF CallbackRaises, CallbackLogRaises, Raises, storeVars
<1>3. /\ raised' \in [Subscribers -> SUBSET Ids]
      /\ \A t \in Subscribers \ {s} : raised'[t] = raised[t]
      /\ raised'[s] = IF \E r \in raised[s] : r < id THEN raised[s] ELSE {id}
  BY <1>1 DEF TypeOK
<1>4. TypeOK'
  <2>1. CASE CallbackRaises(s)
    BY <1>2, <1>3, <2>1 DEF CallbackRaises, TypeOK, StoreTypeOK, storeVars, retryVars, RowsIn
  <2>2. CASE CallbackLogRaises(s)
    BY <1>2, <1>3, <2>2, RescueStep DEF CallbackLogRaises, TypeOK, StoreTypeOK, storeVars, RowsIn
  <2> QED
    BY <2>1, <2>2
<1>5. ASSUME NEW t \in Subscribers \ {s} PROVE Local(t)'
  BY <1>2, <1>3, <1>5, Frame DEF TypeOK
<1>6. raised[s] \subseteq Ids /\ \E r \in raised'[s] : r <= id
  BY <1>3 DEF TypeOK, Ids
<1>7. ASSUME NEW t \in Subscribers, NEW j \in Ids, Handled(t, j)
      PROVE  Handled(t, j)'
  <2>1. CASE t # s
    BY <1>2, <1>3, <1>7, <2>1 DEF Handled, Heard
  <2>2. CASE t = s /\ \E r \in raised[s] : r <= j
    <3>1. \E r \in raised'[s] : r <= j
      BY <1>3, <1>6, <2>2 DEF Ids
    <3> QED
      BY <2>2, <3>1 DEF Handled
  <2>3. CASE t = s /\ ~\E r \in raised[s] : r <= j
    BY <1>2, <1>7, <2>3 DEF Handled, Heard
  <2> QED
    BY <2>1, <2>2, <2>3
<1>8. Local(s)'
  <2>1. CursorOK(s)'
    BY <1>2 DEF Local, CursorOK, TypeOK
  <2>2. UnheardOK(s)'
    <3>1. last[s] \in 0..MaxId /\ last[s] < id
      BY <1>1 DEF NextMessage, Local, CursorOK, TypeOK
    <3>2. ASSUME NEW j \in unheard[s]
          PROVE  j <= last[s] /\ BeforeCallbacks(s, j)'
      <4>1. j \in Ids /\ j <= last[s] /\ BeforeCallbacks(s, j)
        BY DEF Local, UnheardOK, TypeOK
      <4>2. j < id
        BY <3>1, <4>1 DEF Ids
      <4>3. \A r \in raised'[s] : j < r
        BY <1>3, <4>1, <4>2 DEF BeforeCallbacks
      <4> QED
        BY <1>2, <4>1, <4>3 DEF BeforeCallbacks
    <3> QED
      BY <1>2, <3>2 DEF UnheardOK
  <2>3. PollOK(s)'
    <3>1. \A j \in todo[s] : Handled(s, j)'
      <4>1. \A j \in todo[s] : id <= j /\ j \in Ids
        BY <1>1 DEF NextMessage, TypeOK
      <4>2. raised'[s] \subseteq Ids
        BY <1>3
      <4> QED
        BY <1>6, <4>1, <4>2 DEF Handled, Ids
    <3>2. \A j \in fetched[s] \ todo[s] : Handled(s, j)'
      BY <1>7 DEF Local, PollOK, TypeOK
    <3>3. todo'[s] = {} /\ fetched'[s] \subseteq fetched[s]
      BY <1>2 DEF TypeOK
    <3> QED
      BY <3>1, <3>2, <3>3 DEF PollOK
  <2> QED
    BY <2>1, <2>2, <2>3 DEF Local
<1>9. DeliveredIsHandled'
  BY <1>2, <1>7, DeliveredStep DEF RowsIn, storeVars
<1> QED
  BY <1>4, <1>5, <1>8, <1>9

\* The UPDATE covers what was fetched, all of it handled, whether it is
\* followed by a reset of the retries or reports an error.
LEMMA EndOfPollIInv ==
    ASSUME IInv, NEW s \in Subscribers,
           Mark(s) \/ FetchFails(s) \/ ProcessFails(s) \/ MarkFails(s)
    PROVE  IInv'
<1> USE SubscriberAssumption DEF IInv
<1>1. /\ fetched' = [fetched EXCEPT ![s] = {}]
      /\ poll' = [poll EXCEPT ![s] = "sleep"]
      /\ todo' = [todo EXCEPT ![s] = {}]
      /\ UNCHANGED <<txn, callbacks, last, histVars>>
  <2>1. CASE Mark(s)
    <3>1. todo[s] = {}
      BY <2>1 DEF Mark, Local, PollOK
    <3> QED
      BY <2>1, <3>1 DEF Mark, TypeOK
  <2> QED
    BY <2>1, RescueStep DEF FetchFails, ProcessFails, MarkFails
<1>2. /\ row' \in {row, Delivered(fetched[s])}
      /\ row' # row => poll[s] = "mark"
  BY DEF Mark, FetchFails, ProcessFails, MarkFails
<1>3. /\ retries' \in [Subscribers -> 0..MaxRetries]
      /\ running' \in [Subscribers -> BOOLEAN]
      /\ unlogged' \in [Subscribers -> BOOLEAN]
      /\ \A t \in Subscribers : running'[t] /\ retries'[t] = MaxRetries => unlogged'[t]
  <2>1. CASE Mark(s)
    BY <2>1 DEF Mark, TypeOK
  <2> QED
    BY <2>1, RescueStep DEF FetchFails, ProcessFails, MarkFails
<1>4. /\ row' \in [Ids -> RowState]
      /\ \A id \in RowsIn("delivered")' :
           id \in RowsIn("delivered") \/ Handled(s, id)
  <2>1. fetched[s] \in SUBSET Ids /\ StoreTypeOK
    BY DEF TypeOK
  <2>2. poll[s] = "mark" => \A id \in fetched[s] : Handled(s, id)
    BY DEF Local, PollOK
  <2>3. CASE row' = row
    BY <2>1, <2>3 DEF RowsIn, StoreTypeOK
  <2>4. CASE row' # row
    <3>1. row' = Delivered(fetched[s]) /\ poll[s] = "mark"
      BY <1>2, <2>4
    <3> QED
      BY <2>1, <2>2, <3>1, DeliveredRows DEF RowsIn
  <2> QED
    BY <2>3, <2>4
<1>5. TypeOK'
  BY <1>1, <1>3, <1>4 DEF TypeOK, StoreTypeOK, histVars
<1>6. ASSUME NEW t \in Subscribers \ {s} PROVE Local(t)'
  BY <1>1, <1>6, Frame DEF TypeOK, histVars
<1>7. Local(s)'
  <2>1. CursorOK(s)'
    BY <1>1 DEF Local, CursorOK, TypeOK, histVars
  <2>2. UnheardOK(s)'
    BY <1>1 DEF Local, UnheardOK, BeforeCallbacks, histVars
  <2>3. PollOK(s)'
    BY <1>1 DEF PollOK, TypeOK
  <2> QED
    BY <2>1, <2>2, <2>3 DEF Local
<1>8. DeliveredIsHandled'
  <2>1. \A t \in Subscribers, j \in Ids : Handled(t, j) => Handled(t, j)'
    BY <1>1 DEF Handled, Heard, histVars
  <2> QED
    BY <1>4, <2>1, DeliveredStep
<1> QED
  BY <1>5, <1>6, <1>7, <1>8

\* Writers and the cleanup job keep IInv: they touch neither a subscriber nor a
\* delivered row, except that cleanup deletes some.
LEMMA StoreIInv ==
    ASSUME IInv, Store
    PROVE  IInv'
<1> USE DEF IInv
<1>1. /\ StoreNext
      /\ UNCHANGED <<callbacks, running, pollVars, last, retryVars, histVars>>
  BY DEF Store
<1>2. StoreTypeOK' /\ RowsIn("delivered")' \subseteq RowsIn("delivered")
  BY <1>1, StoreStep DEF TypeOK
<1>3. TypeOK'
  BY <1>1, <1>2 DEF TypeOK, pollVars, retryVars, histVars
<1>4. ASSUME NEW t \in Subscribers PROVE Local(t)'
  BY <1>1, <1>4, Frame DEF pollVars, histVars
<1>5. DeliveredIsHandled'
  BY <1>1, <1>2 DEF DeliveredIsHandled, Handled, Heard, histVars
<1> QED
  BY <1>3, <1>4, <1>5

\* Every action keeps IInv: what all of the lemmas above amount to.
LEMMA NextIInv == IInv /\ [Next]_vars => IInv'
<1> SUFFICES ASSUME IInv, [Next]_vars PROVE IInv'
  OBVIOUS
<1>1. CASE Store
  BY <1>1, StoreIInv
<1>2. ASSUME NEW s \in Subscribers, SubscriberStep(s)
      PROVE  IInv'
  BY <1>2, QuietIInv, FetchIInv, SucceedIInv, NobodyIInv, RaiseIInv, EndOfPollIInv
     DEF SubscriberStep, Process
<1>3. CASE UNCHANGED vars
  <2> USE <1>3 DEF IInv, vars, storeVars, pollVars, retryVars, histVars
  <2>1. TypeOK'
    BY DEF TypeOK, StoreTypeOK
  <2>2. ASSUME NEW s \in Subscribers PROVE Local(s)'
    BY <2>2, Frame
  <2>3. DeliveredIsHandled'
    BY DEF DeliveredIsHandled, Handled, Heard, RowsIn
  <2> QED
    BY <2>1, <2>2, <2>3
<1> QED
  BY <1>1, <1>2, <1>3 DEF Next

\* The inductive invariant holds in every reachable state.
THEOREM Invariance == Spec => []IInv
<1>1. Init => IInv
  BY InitIInv
<1>2. IInv /\ [Next]_vars => IInv'
  BY NextIInv
<1> QED
  BY <1>1, <1>2, PTL DEF Spec

\* Every variable keeps its type, and a limited subscriber that has failed
\* max_retries times in a row runs on only if the logger raised over the last
\* failure, which keeps poll_once's rescue clause from its stop.
THEOREM TypeCorrect == Spec => []TypeOK
<1>1. IInv => TypeOK
  BY DEF IInv
<1> QED
  BY <1>1, Invariance, PTL

\* poll_once passes messages on in the order of their ids and never twice,
\* whatever the database, the other subscribers and the writers do.
THEOREM OrderCorrect == Spec => []HeardInOrder
<1>1. IInv => HeardInOrder
  BY DEF IInv, Local, CursorOK, HeardInOrder
<1> QED
  BY <1>1, Invariance, PTL

\* A row that mark_delivered covered was passed to callbacks that succeeded,
\* unless one raised for it or before it, or the array of callbacks was still
\* empty when a subscriber came to it.
THEOREM LossCorrect == Spec => []LostOnlyByCallbacks
<1>1. IInv => LostOnlyByCallbacks
  BY DEF IInv, DeliveredIsHandled, Handled, Local, UnheardOK, LostOnlyByCallbacks
<1> QED
  BY <1>1, Invariance, PTL

-----------------------------------------------------------------------------
(* One writing process.                                                    *)

\* What a step that inserts nothing leaves of the table.
TableKept ==
    /\ RowsIn("none")' = RowsIn("none")
    /\ RowsIn("open")' = RowsIn("open")
    /\ RowsIn("undelivered")' \subseteq RowsIn("undelivered")
    /\ txn' = txn

\* A subscriber that keeps its cursor and what it has in hand, or drops that,
\* is not overtaken while nothing is inserted.
LEMMA CompleteKept ==
    ASSUME TableKept, NEW s \in Subscribers, Complete(s),
           last'[s] = last[s], todo'[s] \in {todo[s], {}}
    PROVE  Complete(s)'
BY DEF TableKept, Complete, Unseen

\* Ids in flight stay behind what was seen while neither changes.
LEMMA OrderedKept ==
    ASSUME TableKept, Ordered
    PROVE  Ordered'
BY DEF TableKept, Ordered, Unseen

\* Nothing was heard and nothing is in flight, so OneWriterInv holds at first.
LEMMA InitOneWriter ==
    ASSUME NEW w, Writers = {w}
    PROVE  Init => OneWriterInv
<1> SUFFICES ASSUME Init PROVE OneWriterInv
  OBVIOUS
<1>1. IInv
  BY InitIInv
<1>2. Ordered
  BY DEF Init, StoreInit, Ordered, Unseen, RowsIn
<1>3. \A s \in Subscribers : Complete(s) /\ PassedOver(s)
  BY DEF Init, StoreInit, Complete, PassedOver, RowsIn
<1> QED
  BY <1>1, <1>2, <1>3 DEF OneWriterInv

\* Steps of subscribers that neither fetch nor pass over a message: cursors
\* stay, histories stay, and rows only leave the undelivered ones.
LEMMA RestOneWriter ==
    ASSUME OneWriterInv, IInv', TableKept,
           last' = last, heard' = heard, unheard' = unheard,
           \A s \in Subscribers : todo'[s] \in {todo[s], {}}
    PROVE  OneWriterInv'
<1> USE DEF OneWriterInv
<1>1. Ordered'
  BY OrderedKept
<1>2. \A s \in Subscribers : Complete(s)'
  BY CompleteKept
<1>3. \A s \in Subscribers : PassedOver(s)'
  BY DEF PassedOver, Heard, TableKept
<1> QED
  BY <1>1, <1>2, <1>3

\* A poll takes the lowest undelivered rows beyond the cursor, so a row between
\* the cursor and one it took was taken as well.
LEMMA FetchOneWriter ==
    ASSUME OneWriterInv, IInv', NEW s \in Subscribers, Fetch(s)
    PROVE  OneWriterInv'
<1> USE DEF OneWriterInv
<1> DEFINE found == FirstOf(Eligible(s))
<1>1. /\ todo' = [todo EXCEPT ![s] = found]
      /\ UNCHANGED <<storeVars, last, histVars>>
  BY DEF Fetch
<1>2. TableKept
  BY <1>1 DEF TableKept, storeVars, RowsIn
<1>3. ASSUME NEW t \in Subscribers \ {s} PROVE Complete(t)'
  BY <1>1, <1>2, <1>3, CompleteKept DEF IInv, TypeOK
<1>4. Complete(s)'
  <2>1. found \cap Unseen = {}
    BY DEF FirstOf, Eligible, RowsIn, Unseen
  <2>2. ASSUME NEW id \in found, NEW j \in RowsIn("undelivered"), last[s] < j, j < id
        PROVE  j \in found
    <3> DEFINE Below(k) == {e \in Eligible(s) : e < k}
    <3>1. j \in Eligible(s) /\ id \in Eligible(s) /\ Eligible(s) \subseteq Ids
      BY <2>2 DEF Eligible, FirstOf, RowsIn
    <3>2. IsFiniteSet(Below(id))
      <4>1. IsFiniteSet(Ids)
        BY FS_Interval, StoreAssumption DEF Ids
      <4> QED
        BY <3>1, <4>1, FS_Subset
    <3>3. Below(j) \subseteq Below(id)
      BY <2>2, <3>1 DEF Ids
    <3>4. /\ Cardinality(Below(j)) <= Cardinality(Below(id))
          /\ Cardinality(Below(j)) \in Nat /\ Cardinality(Below(id)) \in Nat
      BY <3>2, <3>3, FS_Subset, FS_CardinalityType
    <3>5. Cardinality(Below(id)) < Limit
      BY DEF FirstOf
    <3> QED
      BY <3>1, <3>4, <3>5, SubscriberAssumption DEF FirstOf
  <2>3. todo'[s] = found /\ last'[s] = last[s]
    BY <1>1 DEF IInv, TypeOK
  <2> HIDE DEF found
  <2> QED
    BY <1>2, <2>1, <2>2, <2>3 DEF Complete, TableKept, Unseen
<1>5. \A t \in Subscribers : PassedOver(t)'
  BY <1>1 DEF PassedOver, Heard, RowsIn, storeVars, histVars
<1> QED
  BY <1>2, <1>3, <1>4, <1>5, OrderedKept

\* The cursor moves over rows that are in hand only, so over one: the lowest.
LEMMA ProcessOneWriter ==
    ASSUME OneWriterInv, IInv', NEW s \in Subscribers,
           CallbacksSucceed(s) \/ NobodyToCall(s)
    PROVE  OneWriterInv'
<1> USE DEF OneWriterInv
<1>1. PICK id \in Ids :
        /\ NextMessage(s, id)
        /\ PassOver(s, id)
        /\ last' = [last EXCEPT ![s] = id]
        /\ \/ heard' = [heard EXCEPT ![s] = Append(@, id)] /\ unheard' = unheard
           \/ unheard' = [unheard EXCEPT ![s] = @ \cup {id}] /\ heard' = heard
  BY DEF CallbacksSucceed, NobodyToCall
<1>2. TableKept /\ row' = row /\ poll[s] = "process"
  BY DEF CallbacksSucceed, NobodyToCall, TableKept, storeVars, RowsIn
<1>3. /\ \A t \in Subscribers \ {s} : todo'[t] = todo[t] /\ last'[t] = last[t]
      /\ last'[s] = id /\ todo'[s] = todo[s] \ {id}
      /\ last[s] \in Int /\ last[s] < id
  BY <1>1, <1>2, PassOverStep
<1>4. /\ id \in todo[s] /\ todo[s] \subseteq Ids
      /\ \A j \in todo[s] : id <= j
      /\ \A j \in RowsIn("undelivered"), k \in todo[s] :
           last[s] < j /\ j < k => j \in todo[s]
  BY <1>1 DEF IInv, TypeOK, NextMessage, Complete
<1>5. ASSUME NEW t \in Subscribers \ {s} PROVE Complete(t)'
  BY <1>2, <1>3, <1>5, CompleteKept
<1>6. Complete(s)'
  <2>1. id \notin Unseen /\ todo[s] \cap Unseen = {} /\ Unseen' = Unseen
    BY <1>2, <1>4 DEF Complete, TableKept, Unseen
  <2>2. ASSUME NEW k \in todo'[s], NEW j \in RowsIn("undelivered"), id < j, j < k
        PROVE  j \in todo'[s]
    BY <1>3, <1>4, <2>2 DEF RowsIn, Ids
  <2> QED
    BY <1>2, <1>3, <1>4, <2>1, <2>2 DEF Complete, TableKept
<1>7. /\ Heard(s, id)' \/ id \in unheard'[s]
      /\ \A t \in Subscribers, j \in Ids :
           Heard(t, j) \/ j \in unheard[t] => Heard(t, j)' \/ j \in unheard'[t]
  <2>1. CASE heard' = [heard EXCEPT ![s] = Append(@, id)] /\ unheard' = unheard
    BY <2>1, HeardStep DEF IInv
  <2>2. CASE unheard' = [unheard EXCEPT ![s] = @ \cup {id}] /\ heard' = heard
    BY <2>2 DEF IInv, TypeOK, Heard
  <2> QED
    BY <1>1, <2>1, <2>2
<1>8. ASSUME NEW t \in Subscribers, NEW j \in RowsIn("undelivered"), j <= last'[t]
      PROVE  Heard(t, j)' \/ j \in unheard'[t]
  <2>1. CASE j <= last[t]
    BY <1>7, <2>1 DEF PassedOver, RowsIn
  <2>2. CASE t = s /\ last[s] < j
    <3>1. j <= id /\ j \in Ids
      BY <1>3, <1>8, <2>2 DEF RowsIn
    <3>2. j = id
      BY <1>3, <1>4, <2>2, <3>1 DEF Ids
    <3> QED
      BY <1>7, <2>2, <3>2
  <2> QED
    BY <1>3, <1>8, <2>1, <2>2 DEF RowsIn, Ids
<1> QED
  BY <1>2, <1>5, <1>6, <1>8, OrderedKept DEF PassedOver, TableKept

\* The ids in flight lie behind every cursor and every row in hand, so an
\* INSERT that ends puts nothing in front of them.
LEMMA StoreOneWriter ==
    ASSUME NEW w, Writers = {w}, OneWriterInv, IInv', Store
    PROVE  OneWriterInv'
<1> USE DEF OneWriterInv
<1>1. StoreTypeOK /\ last' = last /\ heard' = heard /\ unheard' = unheard /\ todo' = todo
  BY DEF Store, pollVars, histVars, IInv, TypeOK
<1>2. CASE Cleanup
  <2>1. PICK old \in SUBSET (RowsIn("delivered") \cup RowsIn("undelivered")) :
          row' = Moved(old, "gone") /\ txn' = txn
    BY <1>2 DEF Cleanup
  <2>2. TableKept
    BY <1>1, <2>1, MovedRows DEF TableKept, RowsIn, RowState
  <2> QED
    BY <1>1, <2>2, RestOneWriter
<1>3. CASE BeginInsert(w)
  <2>1. PICK end \in RowsIn("none") :
          /\ txn' = [txn EXCEPT ![w] = {id \in RowsIn("none") : id <= end}]
          /\ row' = Moved({id \in RowsIn("none") : id <= end}, "open")
    BY <1>3 DEF BeginInsert
  <2> DEFINE batch == {id \in RowsIn("none") : id <= end}
  <2>2. txn[w] = {} /\ RowsIn("open") = {}
    BY <1>3 DEF BeginInsert, Ordered
  <2>3. \A id \in Ids : row'[id] = IF id \in batch THEN "open" ELSE row[id]
    BY <1>1, <2>1, MovedRows DEF RowState
  <2>4. /\ RowsIn("open")' = batch
        /\ RowsIn("none")' = RowsIn("none") \ batch
        /\ RowsIn("undelivered")' = RowsIn("undelivered")
        /\ Unseen' = Unseen
    BY <2>2, <2>3 DEF RowsIn, Unseen
  <2>5. Ordered'
    <3>1. \A v \in Writers : txn'[v] = RowsIn("open")'
      BY <1>1, <2>1, <2>4 DEF StoreTypeOK
    <3>2. \A id \in RowsIn("none")', later \in Ids : id < later => later \in RowsIn("none")'
      BY <2>4 DEF Ordered, RowsIn, Ids
    <3> QED
      BY <2>4, <3>1, <3>2 DEF Ordered
  <2>6. \A s \in Subscribers : Complete(s)'
    BY <1>1, <2>4 DEF Complete
  <2>7. \A s \in Subscribers : PassedOver(s)'
    BY <1>1, <2>4 DEF PassedOver, Heard
  <2> QED
    BY <2>5, <2>6, <2>7
<1>4. ASSUME NEW outcome \in {"undelivered", "gone"}, EndInsert(w, outcome)
      PROVE  OneWriterInv'
  <2>1. txn' = [txn EXCEPT ![w] = {}] /\ row' = Moved(txn[w], outcome)
    BY <1>4 DEF EndInsert
  <2>2. txn[w] = RowsIn("open")
    BY DEF Ordered
  <2>3. \A id \in Ids : row'[id] = IF id \in RowsIn("open") THEN outcome ELSE row[id]
    BY <1>1, <2>1, <2>2, MovedRows DEF RowState
  <2>4. /\ RowsIn("open")' = {}
        /\ RowsIn("none")' = RowsIn("none")
        /\ RowsIn("undelivered")' \subseteq RowsIn("undelivered") \cup Unseen
        /\ Unseen' = RowsIn("none")
    BY <2>3 DEF RowsIn, Unseen
  <2>5. Ordered'
    BY <1>1, <2>1, <2>4 DEF Ordered, StoreTypeOK
  <2>6. ASSUME NEW s \in Subscribers PROVE Complete(s)'
    <3>1. Complete(s) /\ todo[s] \subseteq Ids
      BY DEF IInv, TypeOK
    <3>2. ASSUME NEW id \in todo[s], NEW j \in RowsIn("undelivered")', last[s] < j, j < id
          PROVE  j \in todo[s]
      <4>1. j \notin Unseen
        BY <3>1, <3>2 DEF Ordered, Complete
      <4> QED
        BY <2>4, <3>1, <3>2, <4>1 DEF Complete
    <3> QED
      BY <1>1, <2>4, <3>1, <3>2 DEF Complete, Unseen
  <2>7. ASSUME NEW s \in Subscribers PROVE PassedOver(s)'
    <3> SUFFICES ASSUME NEW j \in RowsIn("undelivered")', j <= last[s]
                 PROVE  Heard(s, j) \/ j \in unheard[s]
      BY <1>1 DEF PassedOver, Heard
    <3>1. last[s] \in 0..MaxId /\ j \in Ids
      BY DEF IInv, TypeOK, RowsIn
    <3>2. last[s] \in Ids /\ last[s] \notin Unseen
      BY <3>1, StoreAssumption DEF Complete, Ids
    <3>3. j \notin Unseen
      BY <3>1, <3>2 DEF Ordered, Ids
    <3> QED
      BY <2>4, <3>3 DEF PassedOver
  <2> QED
    BY <2>5, <2>6, <2>7
<1> QED
  BY <1>2, <1>3, <1>4 DEF Store, StoreNext

\* Every action keeps OneWriterInv when a single process writes.
LEMMA NextOneWriter ==
    ASSUME NEW w, Writers = {w}
    PROVE  OneWriterInv /\ [Next]_vars => OneWriterInv'
<1> SUFFICES ASSUME OneWriterInv, [Next]_vars PROVE OneWriterInv'
  OBVIOUS
<1>1. IInv /\ IInv'
  BY NextIInv DEF OneWriterInv
<1>2. CASE Store
  BY <1>1, <1>2, StoreOneWriter
<1>3. ASSUME NEW s \in Subscribers,
             Fetch(s) \/ CallbacksSucceed(s) \/ NobodyToCall(s)
      PROVE  OneWriterInv'
  BY <1>1, <1>3, FetchOneWriter, ProcessOneWriter
<1>4. ASSUME NEW s \in Subscribers,
             \/ Start(s) \/ FirstCallback(s) \/ Stop(s) \/ Crash(s) \/ PollBegins(s)
             \/ CallbackRaises(s) \/ CallbackLogRaises(s)
      PROVE  OneWriterInv'
  <2> USE DEF Start, FirstCallback, Stop, Crash, PollBegins, CallbackRaises,
              CallbackLogRaises, Raises, storeVars, pollVars, histVars
  <2>1. row' = row /\ txn' = txn /\ last' = last /\ heard' = heard /\ unheard' = unheard
    BY <1>1, <1>4, RescueStep
  <2>2. \A t \in Subscribers : todo'[t] \in {todo[t], {}}
    <3>1. todo' \in {todo, [todo EXCEPT ![s] = {}]}
      BY <1>1, <1>4, RescueStep
    <3> QED
      BY <1>1, <3>1 DEF IInv, TypeOK
  <2>3. TableKept
    BY <2>1 DEF TableKept, RowsIn
  <2> QED
    BY <1>1, <2>1, <2>2, <2>3, RestOneWriter
<1>5. ASSUME NEW s \in Subscribers,
             Mark(s) \/ FetchFails(s) \/ ProcessFails(s) \/ MarkFails(s)
      PROVE  OneWriterInv'
  <2> USE DEF Mark, FetchFails, ProcessFails, MarkFails, histVars
  <2>1. /\ last' = last /\ heard' = heard /\ unheard' = unheard /\ txn' = txn
        /\ row' \in {row, Delivered(fetched[s])}
    BY <1>1, <1>5, RescueStep
  <2>2. \A t \in Subscribers : todo'[t] \in {todo[t], {}}
    <3>1. todo' \in {todo, [todo EXCEPT ![s] = {}]}
      BY <1>1, <1>5, RescueStep
    <3> QED
      BY <1>1, <3>1 DEF IInv, TypeOK
  <2>3. TableKept
    <3>1. StoreTypeOK /\ fetched[s] \in SUBSET Ids
      BY <1>1 DEF IInv, TypeOK
    <3> QED
      BY <2>1, <3>1, DeliveredRows DEF TableKept, RowsIn
  <2> QED
    BY <1>1, <2>1, <2>2, <2>3, RestOneWriter
<1>6. CASE UNCHANGED vars
  <2>1. /\ TableKept /\ last' = last /\ heard' = heard /\ unheard' = unheard
        /\ \A t \in Subscribers : todo'[t] \in {todo[t], {}}
    BY <1>6 DEF vars, storeVars, pollVars, histVars, TableKept, RowsIn
  <2> QED
    BY <1>1, <2>1, RestOneWriter
<1> QED
  BY <1>2, <1>3, <1>4, <1>5, <1>6 DEF Next, SubscriberStep, Process

\* With a single writing process the cursor of fetch_new_messages never passes
\* an undelivered row that its subscriber has not processed: not when a
\* callback raises, a mark fails, a poll is partial or a subscriber crashes.
\* (Before the first callback is there, processing calls nobody.)
THEOREM NothingSkipped ==
    ASSUME NEW w, Writers = {w}
    PROVE  Spec => []CursorSkipsNothing
<1>1. Init => OneWriterInv
  BY InitOneWriter
<1>2. OneWriterInv /\ [Next]_vars => OneWriterInv'
  BY NextOneWriter
<1>3. OneWriterInv => CursorSkipsNothing
  BY DEF OneWriterInv, IInv, PassedOver, Local, UnheardOK, CursorSkipsNothing
<1> QED
  BY <1>1, <1>2, <1>3, PTL DEF Spec
=============================================================================
