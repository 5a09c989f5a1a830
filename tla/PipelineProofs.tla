--------------------------- MODULE PipelineProofs ---------------------------
(***************************************************************************)
(* Proofs about Pipeline, for any number of writers, subscribers and rows. *)
(*                                                                         *)
(* The pipeline is Subscriber with writers that know their messages: each  *)
(* of its steps is one of Subscriber's or leaves it alone, so that what    *)
(* SubscriberProofs shows holds here too.  PInv adds what ties ids to      *)
(* messages: ids are begun in the order of each writer's tickets, and what *)
(* a subscriber has in hand or has heard was begun.                        *)
(***************************************************************************)
EXTENDS Pipeline, SubscriberProofs

Message == [writer : Writers, n : Nat \ {0}]

Begun == 1..Len(message)

\* Tickets whose row of w was begun.
Reached(w) == settled[w] + Cardinality(txn[w])

\* The ids of one writer's messages are in the order of their tickets, and the
\* next batch of a writer that runs comes after them.
MessagesOrdered ==
    /\ \A i, j \in Begun :
         i < j /\ message[i].writer = message[j].writer => message[i].n < message[j].n
    /\ \A i \in Begun : message[i].n <= accepted[message[i].writer]
    /\ \A i \in Begun :
         message[i].writer \in up => message[i].n <= Reached(message[i].writer)

\* Nothing in flight, in hand or heard lies beyond the ids that were begun.
IdsBegun ==
    /\ \A w \in Writers : txn[w] \subseteq Begun
    /\ \A s \in Subscribers : todo[s] \subseteq Begun
    /\ \A s \in Subscribers : \A i \in 1..Len(heard[s]) : heard[s][i] \in Begun

PInv ==
    /\ IInv
    /\ PipelineTypeOK
    /\ MessagesOrdered
    /\ IdsBegun

-----------------------------------------------------------------------------
(* Each step of the pipeline is one of Subscriber, or none.                *)

\* What the writers add to Subscriber leaves its variables to its own actions.
LEMMA StepOfSubscriber == [PipelineNext]_pipelineVars => [Next]_vars
<1> SUFFICES ASSUME [PipelineNext]_pipelineVars PROVE [Next]_vars
  OBVIOUS
<1>1. ASSUME NEW w \in Writers, WriterStep(w)
      PROVE  [Next]_vars
  <2>1. CASE Accept(w) \/ WriterCrash(w)
    BY <2>1 DEF Accept, WriterCrash
  <2>2. CASE Insert(w)
    BY <2>2 DEF Insert, restVars, Next, Store, StoreNext
  <2>3. CASE InsertEnds(w)
    BY <2>3 DEF InsertEnds, restVars, Next, Store, StoreNext
  <2>4. CASE InsertEndsAlone(w)
    BY <2>4 DEF InsertEndsAlone, restVars, Next, Store, StoreNext
  <2> QED
    BY <1>1, <2>1, <2>2, <2>3, <2>4 DEF WriterStep
<1>2. CASE CleanupStep
  BY <1>2 DEF CleanupStep, restVars, Next, Store, StoreNext
<1>3. ASSUME NEW s \in Subscribers, SubscriberStep(s)
      PROVE  [Next]_vars
  BY <1>3 DEF Next
<1>4. CASE UNCHANGED pipelineVars
  BY <1>4 DEF pipelineVars
<1> QED
  BY <1>1, <1>2, <1>3, <1>4 DEF PipelineNext

\* The writers of the pipeline interfere with its subscribers in no way that
\* Subscriber leaves out, so its theorems are about the pipeline as well.
THEOREM PipelineIsSubscriber == PipelineSpec => Spec
<1>1. PipelineInit => Init
  BY DEF PipelineInit
<1> QED
  BY <1>1, StepOfSubscriber, PTL DEF PipelineSpec, Spec

-----------------------------------------------------------------------------
(* PInv is inductive.                                                      *)

\* The invariant holds before anything was accepted.
LEMMA InitPInv == PipelineInit => PInv
<1> SUFFICES ASSUME PipelineInit PROVE PInv
  OBVIOUS
<1>1. IInv
  BY InitIInv DEF PipelineInit
<1>2. message = <<>> /\ Len(message) = 0 /\ message \in Seq(Message)
  BY EmptySeq DEF PipelineInit
<1>3. Begun = {}
  BY <1>2 DEF Begun
<1>4. \A w \in Writers : txn[w] = {} /\ settled[w] = 0 /\ accepted[w] = 0
  BY DEF PipelineInit, Init, StoreInit
<1>5. PipelineTypeOK
  <2>1. RowsIn("none") = Ids \ 1..Len(message)
    BY <1>2 DEF PipelineInit, Init, StoreInit, RowsIn
  <2>2. \A w \in Writers : settled[w] + Cardinality(txn[w]) <= accepted[w]
    BY <1>4, FS_EmptySet
  <2> QED
    BY <1>1, <1>2, <2>1, <2>2, StoreAssumption
       DEF PipelineInit, PipelineTypeOK, IInv, Message
<1>6. MessagesOrdered
  BY <1>3 DEF MessagesOrdered
<1>7. IdsBegun
  BY <1>4 DEF IdsBegun, PipelineInit, Init
<1> QED
  BY <1>1, <1>5, <1>6, <1>7 DEF PInv

\* What the types say of lengths and cardinalities, for the provers.
LEMMA Numbers ==
    ASSUME PInv
    PROVE  /\ Len(message) \in Nat /\ MaxId \in Nat
           /\ \A i \in Begun : i \in Nat /\ message[i] \in Message /\ i \in Ids
           /\ \A w \in Writers : /\ accepted[w] \in Nat
                                  /\ settled[w] \in Nat
                                  /\ Cardinality(txn[w]) \in Nat
                                  /\ Reached(w) \in Nat
<1>1. message \in Seq(Message) /\ Len(message) \in Nat /\ MaxId \in Nat
      /\ Len(message) <= MaxId
  BY LenProperties, StoreAssumption DEF PInv, PipelineTypeOK, Message
<1>2. \A i \in Begun : i \in Nat /\ message[i] \in Message /\ i \in Ids
  BY <1>1, ElementOfSeq DEF Begun, Ids
<1>3. IsFiniteSet(Ids)
  BY <1>1, FS_Interval DEF Ids
<1>4. ASSUME NEW w \in Writers
      PROVE  Cardinality(txn[w]) \in Nat
  <2>1. txn[w] \subseteq Ids
    BY DEF PInv, IInv, TypeOK, StoreTypeOK
  <2>2. IsFiniteSet(txn[w])
    BY <2>1, <1>3, FS_Subset
  <2> QED
    BY <2>2, FS_CardinalityType
<1>5. \A w \in Writers : accepted[w] \in Nat /\ settled[w] \in Nat
  BY DEF PInv, PipelineTypeOK
<1> QED
  BY <1>1, <1>2, <1>4, <1>5 DEF Reached

\* An accepted message has no id yet: only the writer's backlog grows.
LEMMA AcceptPInv ==
    ASSUME PInv, IInv', NEW w \in Writers, Accept(w)
    PROVE  PInv'
<1>1. /\ accepted' = [accepted EXCEPT ![w] = @ + 1]
      /\ message' = message /\ up' = up /\ settled' = settled
      /\ txn' = txn /\ row' = row /\ todo' = todo /\ heard' = heard
  BY DEF Accept, vars, storeVars, pollVars, histVars
<1>2. /\ accepted' \in [Writers -> Nat]
      /\ \A v \in Writers : accepted[v] \in Nat /\ accepted[v] <= accepted'[v]
  <2>1. accepted \in [Writers -> Nat]
    BY DEF PInv, PipelineTypeOK
  <2> QED
    BY <1>1, <2>1
<1>3. PipelineTypeOK'
  <2>1. \A v \in Writers : settled[v] + Cardinality(txn[v]) <= accepted'[v]
    BY <1>2, Numbers DEF PInv, PipelineTypeOK
  <2> QED
    BY <1>1, <1>2, <2>1 DEF PInv, IInv, PipelineTypeOK, RowsIn
<1>4. MessagesOrdered'
  <2>1. \A i \in Begun : message[i].n <= accepted'[message[i].writer]
    <3> SUFFICES ASSUME NEW i \in Begun
                 PROVE  message[i].n <= accepted'[message[i].writer]
      OBVIOUS
    <3>1. message[i].n \in Nat /\ message[i].writer \in Writers
      BY Numbers DEF Message
    <3>2. message[i].n <= accepted[message[i].writer]
      BY DEF PInv, MessagesOrdered
    <3> QED
      BY <3>1, <3>2, <1>2
  <2> QED
    BY <1>1, <2>1 DEF PInv, MessagesOrdered, Begun, Reached
<1>5. IdsBegun'
  BY <1>1 DEF PInv, IdsBegun, Begun
<1> QED
  BY <1>3, <1>4, <1>5 DEF PInv

\* A crash takes nothing from the table and nothing from the history.
LEMMA CrashPInv ==
    ASSUME PInv, IInv', NEW w \in Writers, WriterCrash(w)
    PROVE  PInv'
<1>1. /\ up' \subseteq up
      /\ accepted' = accepted /\ message' = message /\ settled' = settled
      /\ txn' = txn /\ row' = row /\ todo' = todo /\ heard' = heard
  BY DEF WriterCrash, vars, storeVars, pollVars, histVars
<1>2. PipelineTypeOK'
  BY <1>1 DEF PInv, IInv, PipelineTypeOK, RowsIn
<1>3. MessagesOrdered'
  BY <1>1 DEF PInv, MessagesOrdered, Begun, Reached
<1>4. IdsBegun'
  BY <1>1 DEF PInv, IdsBegun, Begun
<1> QED
  BY <1>2, <1>3, <1>4 DEF PInv

\* A statement in flight ends, in whatever way: no row appears or disappears
\* among those that were begun, and its messages are settled or left.
LEMMA EndPInv ==
    ASSUME PInv, IInv', NEW w \in Writers, InsertEnds(w) \/ InsertEndsAlone(w)
    PROVE  PInv'
<1>1. PICK outcome \in {"undelivered", "gone"} : EndInsert(w, outcome)
  BY DEF InsertEnds, InsertEndsAlone
<1>2. /\ row' = Moved(txn[w], outcome)
      /\ txn' = [txn EXCEPT ![w] = {}]
  BY <1>1 DEF EndInsert
<1>3. /\ accepted' = accepted /\ message' = message /\ up' = up
      /\ todo' = todo /\ heard' = heard
      /\ settled' \in {settled, [settled EXCEPT ![w] = @ + Cardinality(txn[w])]}
      /\ w \in up => settled' = [settled EXCEPT ![w] = @ + Cardinality(txn[w])]
  BY DEF InsertEnds, InsertEndsAlone, restVars, pollVars, histVars, writerVars
<1>4. Begun' = Begun
  BY <1>3 DEF Begun
<1>5. RowsIn("none")' = RowsIn("none")
  <2>1. \A id \in txn[w] : id \notin RowsIn("none")
    BY DEF PInv, PipelineTypeOK, IdsBegun, Begun
  <2>2. /\ row' \in [Ids -> RowState]
        /\ \A id \in Ids : row'[id] = IF id \in txn[w] THEN outcome ELSE row[id]
    BY <1>2, MovedRows DEF PInv, IInv, TypeOK, RowState
  <2>3. outcome # "none"
    OBVIOUS
  <2> QED
    BY <2>1, <2>2, <2>3 DEF RowsIn
<1>6. /\ txn' \in [Writers -> SUBSET Ids]
      /\ txn'[w] = {} /\ \A v \in Writers \ {w} : txn'[v] = txn[v]
  BY <1>2 DEF PInv, IInv, TypeOK, StoreTypeOK
<1>7. Cardinality(txn'[w]) = 0
  BY <1>6, FS_EmptySet
<1>8. /\ settled' \in [Writers -> Nat]
      /\ \A v \in Writers : Reached(v)' <= Reached(v)
      /\ \A v \in Writers : v \in up => Reached(v)' = Reached(v)
  <2>1. settled \in [Writers -> Nat]
    BY DEF PInv, PipelineTypeOK
  <2>2. \A v \in Writers : Cardinality(txn[v]) \in Nat
    BY Numbers
  <2>3. settled' \in [Writers -> Nat]
    BY <1>3, <2>1, <2>2
  <2>4. /\ settled'[w] \in {settled[w], settled[w] + Cardinality(txn[w])}
        /\ w \in up => settled'[w] = settled[w] + Cardinality(txn[w])
        /\ \A v \in Writers \ {w} : settled'[v] = settled[v]
    BY <1>3, <2>1, <2>2
  <2>5. /\ Reached(w)' <= Reached(w)
        /\ w \in up => Reached(w)' = Reached(w)
    BY <1>7, <2>1, <2>2, <2>4 DEF Reached
  <2>6. \A v \in Writers \ {w} : Reached(v)' = Reached(v) /\ Reached(v) \in Nat
    BY <1>6, <2>1, <2>2, <2>4 DEF Reached
  <2> QED
    BY <2>3, <2>5, <2>6
<1>9. PipelineTypeOK'
  <2>1. \A v \in Writers : Reached(v)' <= accepted[v]
    <3> SUFFICES ASSUME NEW v \in Writers PROVE Reached(v)' <= accepted[v]
      OBVIOUS
    <3>1. Reached(v) \in Nat /\ accepted[v] \in Nat /\ Reached(v) <= accepted[v]
      BY Numbers DEF PInv, PipelineTypeOK, Reached
    <3>2. Reached(v)' <= Reached(v) /\ Reached(v)' \in Nat
      <4>1. settled'[v] \in Nat
        BY <1>8
      <4>2. Cardinality(txn'[v]) \in Nat
        <5>1. CASE v = w
          BY <5>1, <1>7
        <5>2. CASE v # w
          BY <5>2, <1>6, Numbers
        <5> QED
          BY <5>1, <5>2
      <4> QED
        BY <4>1, <4>2, <1>8 DEF Reached
    <3> QED
      BY <3>1, <3>2
  <2> QED
    BY <1>3, <1>5, <1>8, <2>1 DEF PInv, IInv, PipelineTypeOK, Reached
<1>10. MessagesOrdered'
  <2>1. \A i \in Begun : message[i].writer \in Writers
    BY Numbers DEF Message
  <2> QED
    BY <1>3, <1>4, <1>8, <2>1 DEF PInv, MessagesOrdered
<1>11. IdsBegun'
  BY <1>3, <1>4, <1>6 DEF PInv, IdsBegun
<1> QED
  BY <1>9, <1>10, <1>11 DEF PInv

\* The cleanup job, and the steps of a subscriber that bring it no id: the ids
\* that were begun stay begun, and the writers are not concerned.
LEMMA QuietPInv ==
    ASSUME PInv, IInv', UNCHANGED <<writerVars, message, txn>>,
           RowsIn("none")' = RowsIn("none"),
           \A s \in Subscribers : todo'[s] \subseteq Begun,
           \A s \in Subscribers : \A i \in 1..Len(heard'[s]) : heard'[s][i] \in Begun
    PROVE  PInv'
<1>1. /\ accepted' = accepted /\ message' = message /\ up' = up
      /\ settled' = settled /\ txn' = txn
  BY DEF writerVars
<1>2. PipelineTypeOK'
  BY <1>1 DEF PInv, IInv, PipelineTypeOK
<1>3. MessagesOrdered'
  BY <1>1 DEF PInv, MessagesOrdered, Begun, Reached
<1>4. IdsBegun'
  BY <1>1 DEF PInv, IdsBegun, Begun
<1> QED
  BY <1>2, <1>3, <1>4 DEF PInv

\* The cleanup deletes rows that were begun, and moves nothing else.
LEMMA CleanupPInv ==
    ASSUME PInv, IInv', CleanupStep
    PROVE  PInv'
<1>1. /\ todo' = todo /\ heard' = heard /\ txn' = txn
      /\ UNCHANGED <<writerVars, message>>
  BY DEF CleanupStep, Cleanup, restVars, pollVars, histVars
<1>2. RowsIn("none")' = RowsIn("none")
  <2>1. PICK old : /\ old \subseteq RowsIn("delivered") \cup RowsIn("undelivered")
                   /\ row' = Moved(old, "gone")
    BY DEF CleanupStep, Cleanup
  <2>2. \A id \in Ids : row'[id] = IF id \in old THEN "gone" ELSE row[id]
    BY <2>1, MovedRows DEF PInv, IInv, TypeOK, RowState
  <2>3. \A id \in old : row[id] # "none"
    BY <2>1 DEF RowsIn
  <2> QED
    BY <2>2, <2>3 DEF RowsIn
<1> QED
  BY <1>1, <1>2, QuietPInv DEF PInv, IdsBegun

\* A row that was begun is all a subscriber can fetch.
LEMMA SubscriberPInv ==
    ASSUME PInv, IInv', NEW s \in Subscribers, SubscriberStep(s),
           UNCHANGED <<writerVars, message>>
    PROVE  PInv'
<1>1. \A id \in Ids : row[id] # "none" => id \in Begun
  BY DEF PInv, PipelineTypeOK, RowsIn, Begun
<1>2. StoreTypeOK /\ fetched[s] \in SUBSET Ids
  BY DEF PInv, IInv, TypeOK
<1>3. txn' = txn
  BY DEF SubscriberStep, Start, FirstCallback, Stop, Crash, PollBegins, Fetch, Process,
         CallbacksSucceed, NobodyToCall, CallbackRaises, CallbackLogRaises, Mark,
         FetchFails, ProcessFails, MarkFails, Rescue, storeVars
<1>4. row' \in {row, Delivered(fetched[s])}
  BY DEF SubscriberStep, Start, FirstCallback, Stop, Crash, PollBegins, Fetch, Process,
         CallbacksSucceed, NobodyToCall, CallbackRaises, CallbackLogRaises, Mark,
         FetchFails, ProcessFails, MarkFails, Rescue, storeVars
<1>5. RowsIn("none")' = RowsIn("none")
  BY <1>2, <1>4, DeliveredRows DEF RowsIn
<1>6. \A t \in Subscribers : todo'[t] \subseteq Begun
  <2>1. todo \in [Subscribers -> SUBSET Ids] /\ \A t \in Subscribers : todo[t] \subseteq Begun
    BY DEF PInv, IInv, TypeOK, IdsBegun
  <2>2. CASE Fetch(s)
    <3>1. FirstOf(Eligible(s)) \subseteq Begun
      BY <1>1 DEF FirstOf, Eligible, RowsIn
    <3> QED
      BY <2>1, <2>2, <3>1 DEF Fetch
  <2>3. CASE CallbacksSucceed(s) \/ NobodyToCall(s)
    <3>1. PICK id \in Ids : todo' = [todo EXCEPT ![s] = @ \ {id}]
      BY <2>3 DEF CallbacksSucceed, NobodyToCall, PassOver
    <3> QED
      BY <2>1, <3>1
  <2>4. CASE todo' = todo \/ todo' = [todo EXCEPT ![s] = {}]
    BY <2>1, <2>4
  <2> QED
    BY <2>2, <2>3, <2>4
       DEF SubscriberStep, Start, FirstCallback, Stop, Crash, PollBegins, Process,
           CallbackRaises, CallbackLogRaises, Mark, FetchFails, ProcessFails, MarkFails,
           Rescue, pollVars
<1>7. \A t \in Subscribers : \A i \in 1..Len(heard'[t]) : heard'[t][i] \in Begun
  <2>1. CASE CallbacksSucceed(s)
    <3>1. PICK id \in Ids : id \in todo[s] /\ heard' = [heard EXCEPT ![s] = Append(@, id)]
      BY <2>1 DEF CallbacksSucceed, NextMessage
    <3>2. heard \in [Subscribers -> Seq(Ids)]
      BY DEF PInv, IInv, TypeOK
    <3>3. /\ Len(heard'[s]) = Len(heard[s]) + 1 /\ Len(heard[s]) \in Nat
          /\ \A i \in 1..Len(heard[s]) : heard'[s][i] = heard[s][i]
          /\ heard'[s][Len(heard[s]) + 1] = id
      BY <3>1, <3>2, AppendProperties
    <3>4. id \in Begun
      BY <3>1 DEF PInv, IdsBegun
    <3>5. \A i \in 1..Len(heard'[s]) : heard'[s][i] \in Begun
      BY <3>3, <3>4 DEF PInv, IdsBegun
    <3>6. \A t \in Subscribers \ {s} : heard'[t] = heard[t]
      BY <3>1, <3>2
    <3> QED
      BY <3>5, <3>6 DEF PInv, IdsBegun
  <2>2. CASE heard' = heard
    BY <2>2 DEF PInv, IdsBegun
  <2> QED
    BY <2>1, <2>2
       DEF SubscriberStep, Start, FirstCallback, Stop, Crash, PollBegins, Fetch, Process,
           NobodyToCall, CallbackRaises, CallbackLogRaises, Raises, Mark, FetchFails,
           ProcessFails, MarkFails, histVars
<1> QED
  BY <1>3, <1>5, <1>6, <1>7, QuietPInv

\* A batch gets the ids after those that were begun, in its order.
LEMMA NextIds ==
    ASSUME PInv, NEW w \in Writers, Insert(w)
    PROVE  \E k \in Nat \ {0} :
             /\ txn' = [txn EXCEPT ![w] = (Len(message) + 1)..(Len(message) + k)]
             /\ row' = Moved((Len(message) + 1)..(Len(message) + k), "open")
             /\ Cardinality((Len(message) + 1)..(Len(message) + k)) = k
             /\ Len(message) + k <= MaxId
             /\ settled[w] + k <= accepted[w]
             /\ message' = message \o Batch(w, k)
<1> DEFINE N == Len(message)
<1>1. PICK hi \in RowsIn("none") :
        /\ txn' = [txn EXCEPT ![w] = {id \in RowsIn("none") : id <= hi}]
        /\ row' = Moved({id \in RowsIn("none") : id <= hi}, "open")
  BY DEF Insert, BeginInsert
<1>2. N \in Nat /\ MaxId \in Nat /\ RowsIn("none") = (1..MaxId) \ (1..N)
  BY Numbers DEF PInv, PipelineTypeOK, Ids
<1>3. hi \in Nat /\ hi > N /\ hi <= MaxId
  BY <1>2
<1>4. {id \in RowsIn("none") : id <= hi} = (N + 1)..hi
  BY <1>2, <1>3
<1>5. hi - N \in Nat \ {0} /\ N + (hi - N) = hi
  BY <1>2, <1>3
<1>6. Cardinality((N + 1)..hi) = hi - N
  BY <1>2, <1>3, FS_Interval
<1>7. txn'[w] = (N + 1)..hi
  BY <1>1, <1>4 DEF PInv, IInv, TypeOK, StoreTypeOK
<1>8. hi - N <= accepted[w] - settled[w] /\ message' = message \o Batch(w, hi - N)
  BY <1>6, <1>7 DEF Insert, Pending
<1>9. settled[w] + (hi - N) <= accepted[w]
  BY <1>5, <1>8, Numbers
<1> QED
  BY <1>1, <1>3, <1>4, <1>5, <1>6, <1>8, <1>9

\* An INSERT gives the writer's next tickets the next ids, in order.
LEMMA InsertPInv ==
    ASSUME PInv, IInv', NEW w \in Writers, Insert(w)
    PROVE  PInv'
<1> DEFINE N == Len(message)
<1>1. PICK k \in Nat \ {0} :
        /\ txn' = [txn EXCEPT ![w] = (N + 1)..(N + k)]
        /\ row' = Moved((N + 1)..(N + k), "open")
        /\ Cardinality((N + 1)..(N + k)) = k
        /\ N + k <= MaxId
        /\ settled[w] + k <= accepted[w]
        /\ message' = message \o Batch(w, k)
  BY NextIds
<1>2. /\ accepted' = accepted /\ up' = up /\ settled' = settled
      /\ todo' = todo /\ heard' = heard /\ w \in up /\ txn[w] = {}
  BY DEF Insert, BeginInsert, restVars, pollVars, histVars, writerVars
<1>3. N \in Nat /\ MaxId \in Nat /\ message \in Seq(Message)
      /\ settled[w] \in Nat /\ accepted[w] \in Nat
  BY Numbers DEF PInv, PipelineTypeOK, Message
<1>4. /\ Batch(w, k) \in Seq(Message) /\ Len(Batch(w, k)) = k
      /\ \A i \in 1..k : Batch(w, k)[i] = [writer |-> w, n |-> settled[w] + i]
  BY <1>3 DEF Batch, Message
<1>5. /\ message' \in Seq(Message) /\ Len(message') = N + k
      /\ \A i \in 1..(N + k) : message'[i] =
           IF i <= N THEN message[i] ELSE [writer |-> w, n |-> settled[w] + (i - N)]
  <2>1. /\ message \o Batch(w, k) \in Seq(Message)
        /\ Len(message \o Batch(w, k)) = N + k
        /\ \A i \in 1..(N + k) : (message \o Batch(w, k))[i] =
             IF i <= N THEN message[i] ELSE Batch(w, k)[i - N]
    <3> DEFINE batch == Batch(w, k)
    <3>1. batch \in Seq(Message) /\ Len(batch) = k /\ N = Len(message)
      BY <1>4
    <3> HIDE DEF batch, N
    <3>2. /\ message \o batch \in Seq(Message)
          /\ Len(message \o batch) = N + k
          /\ \A i \in 1..(N + k) : (message \o batch)[i] =
               IF i <= N THEN message[i] ELSE batch[i - N]
      BY <1>3, <3>1, ConcatProperties
    <3> QED
      BY <3>2 DEF batch
  <2>2. \A i \in 1..(N + k) : i > N => i - N \in 1..k
    BY <1>3
  <2> QED
    BY <1>1, <1>3, <1>4, <2>1, <2>2
<1>6. Begun \subseteq Begun' /\ (N + 1)..(N + k) \subseteq Begun'
  BY <1>3, <1>5 DEF Begun
<1>7. /\ txn' \in [Writers -> SUBSET Ids]
      /\ txn'[w] = (N + 1)..(N + k)
      /\ \A v \in Writers \ {w} : txn'[v] = txn[v]
  BY <1>1, <1>3 DEF PInv, IInv, TypeOK, StoreTypeOK, Ids
<1>8. /\ Reached(w) = settled[w] /\ Reached(w)' = settled[w] + k
      /\ \A v \in Writers \ {w} : Reached(v)' = Reached(v)
  <2>1. Cardinality(txn[w]) = 0
    BY <1>2, FS_EmptySet
  <2> QED
    BY <1>1, <1>2, <1>3, <1>7, <2>1 DEF Reached
<1>9. PipelineTypeOK'
  <2>1. RowsIn("none")' = (Ids \ 1..Len(message))'
    <3>1. \A id \in Ids : row'[id] = IF id \in (N + 1)..(N + k) THEN "open" ELSE row[id]
      BY <1>1, MovedRows DEF PInv, IInv, TypeOK, RowState
    <3>2. \A id \in Ids : row[id] = "none" <=> id \notin 1..N
      BY DEF PInv, PipelineTypeOK, RowsIn
    <3>3. \A id \in Ids : id \in 1..(N + k) <=> id \in 1..N \/ id \in (N + 1)..(N + k)
      BY <1>3 DEF Ids
    <3> QED
      BY <1>5, <3>1, <3>2, <3>3 DEF RowsIn, Ids
  <2>2. \A v \in Writers : Reached(v)' <= accepted[v]
    BY <1>1, <1>8 DEF PInv, PipelineTypeOK, Reached
  <2> QED
    BY <1>1, <1>2, <1>5, <2>1, <2>2
       DEF PInv, IInv, PipelineTypeOK, Reached, Message
<1>10. MessagesOrdered'
  <2>1. ASSUME NEW i \in Begun', NEW j \in Begun', i < j,
               message'[i].writer = message'[j].writer
        PROVE  message'[i].n < message'[j].n
    <3>1. i \in Nat /\ j \in Nat /\ i \in 1..(N + k) /\ j \in 1..(N + k)
      BY <1>5, <1>3 DEF Begun
    <3>2. CASE j <= N
      <4>1. /\ i \in Begun /\ j \in Begun
            /\ message'[i] = message[i] /\ message'[j] = message[j]
        BY <1>3, <1>5, <2>1, <3>1, <3>2 DEF Begun
      <4> QED
        BY <2>1, <4>1 DEF PInv, MessagesOrdered
    <3>3. CASE i <= N /\ j > N
      <4>1. i \in Begun /\ message'[i] = message[i]
        BY <1>3, <1>5, <3>1, <3>3 DEF Begun
      <4>2. message'[j].writer = w /\ message'[j].n = settled[w] + (j - N)
        BY <1>5, <3>1, <3>3
      <4>3. message[i].n \in Nat /\ message[i].n <= settled[w]
        BY <1>2, <1>8, <2>1, <4>1, <4>2, Numbers DEF PInv, MessagesOrdered, Message
      <4> QED
        BY <1>3, <3>1, <3>3, <4>1, <4>2, <4>3
    <3>4. CASE i > N
      <4>1. message'[i].n = settled[w] + (i - N) /\ message'[j].n = settled[w] + (j - N)
        BY <1>3, <1>5, <2>1, <3>1, <3>4
      <4> QED
        BY <1>3, <2>1, <3>1, <4>1
    <3> QED
      BY <1>3, <3>1, <3>2, <3>3, <3>4
  <2>2. ASSUME NEW i \in Begun', NEW v, v = message'[i].writer
        PROVE  /\ message'[i].n <= accepted[v]
               /\ v \in up => message'[i].n <= Reached(v)'
    <3>1. i \in Nat /\ i \in 1..(N + k)
      BY <1>5, <1>3 DEF Begun
    <3>2. CASE i <= N
      <4>1. i \in Begun /\ message'[i] = message[i]
        BY <1>3, <1>5, <3>1, <3>2 DEF Begun
      <4>2. /\ v \in Writers /\ message[i].n \in Nat
            /\ message[i].n <= accepted[v]
            /\ v \in up => message[i].n <= Reached(v)
        BY <2>2, <4>1, Numbers DEF PInv, MessagesOrdered, Message
      <4>3. Reached(v)' >= Reached(v) /\ Reached(v)' \in Nat /\ Reached(v) \in Nat
        <5>1. CASE v = w
          BY <1>3, <1>8, <5>1
        <5>2. CASE v # w
          BY <1>8, <4>2, <5>2, Numbers
        <5> QED
          BY <5>1, <5>2
      <4> QED
        BY <4>1, <4>2, <4>3
    <3>3. CASE i > N
      <4>0. message'[i] = [writer |-> w, n |-> settled[w] + (i - N)]
        BY <1>3, <1>5, <3>1, <3>3
      <4>1. v = w /\ message'[i].n = settled[w] + (i - N)
        BY <2>2, <4>0
      <4>2. i - N \in Nat /\ i - N <= k
        BY <1>3, <3>1, <3>3
      <4> QED
        BY <1>1, <1>3, <1>8, <4>1, <4>2
    <3> QED
      BY <1>3, <3>1, <3>2, <3>3
  <2> QED
    BY <1>2, <2>1, <2>2 DEF MessagesOrdered, Reached
<1>11. IdsBegun'
  BY <1>2, <1>6, <1>7 DEF PInv, IdsBegun
<1> QED
  BY <1>9, <1>10, <1>11 DEF PInv

\* Every action keeps PInv.
LEMMA NextPInv == PInv /\ [PipelineNext]_pipelineVars => PInv'
<1> SUFFICES ASSUME PInv, [PipelineNext]_pipelineVars PROVE PInv'
  OBVIOUS
<1>1. IInv'
  BY StepOfSubscriber, NextIInv DEF PInv
<1>2. ASSUME NEW w \in Writers, WriterStep(w)
      PROVE  PInv'
  BY <1>1, <1>2, AcceptPInv, InsertPInv, EndPInv, CrashPInv DEF WriterStep
<1>3. CASE CleanupStep
  BY <1>1, <1>3, CleanupPInv
<1>4. ASSUME NEW s \in Subscribers, SubscriberStep(s), UNCHANGED <<writerVars, message>>
      PROVE  PInv'
  BY <1>1, <1>4, SubscriberPInv
<1>5. CASE UNCHANGED pipelineVars
  <2>1. /\ row' = row /\ txn' = txn /\ todo' = todo /\ heard' = heard
        /\ UNCHANGED <<writerVars, message>>
    BY <1>5 DEF pipelineVars, vars, storeVars, pollVars, histVars
  <2> QED
    BY <1>1, <2>1, QuietPInv DEF PInv, IdsBegun, RowsIn
<1> QED
  BY <1>2, <1>3, <1>4, <1>5 DEF PipelineNext

\* The inductive invariant holds in every reachable state of the pipeline.
THEOREM PipelineInvariance == PipelineSpec => []PInv
<1>1. PipelineInit => PInv
  BY InitPInv
<1>2. PInv /\ [PipelineNext]_pipelineVars => PInv'
  BY NextPInv
<1> QED
  BY <1>1, <1>2, PTL DEF PipelineSpec

\* Values have their types, ids are assigned without gaps in the order of the
\* INSERTs, and no writer settles more than it accepted.
THEOREM PipelineTypeCorrect == PipelineSpec => []PipelineTypeOK
<1>1. PInv => PipelineTypeOK
  BY DEF PInv
<1> QED
  BY <1>1, PipelineInvariance, PTL

-----------------------------------------------------------------------------
(* The pipeline implements Delivery.                                       *)

\* As long as nothing new is heard and the messages heard stay what they are,
\* the same messages have been passed on.
LEMMA SamePassed ==
    ASSUME heard' = heard,
           \A s \in Subscribers : \A i \in 1..Len(heard[s]) :
             message'[heard[s][i]] = message[heard[s][i]]
    PROVE  passed' = passed
BY DEF passed

\* A successful round of callbacks passes on the message of its row.
LEMMA CallbacksPass ==
    ASSUME PInv, NEW s \in Subscribers, CallbacksSucceed(s),
           accepted' = accepted, message' = message
    PROVE  PerWriter!Next
<1>1. PICK id \in Ids : /\ id \in todo[s]
                        /\ heard' = [heard EXCEPT ![s] = Append(@, id)]
  BY DEF CallbacksSucceed, NextMessage
<1>2. id \in Begun /\ message[id] \in Message
  BY <1>1, Numbers DEF PInv, IdsBegun
<1> DEFINE w == message[id].writer
           n == message[id].n
<1>3. w \in Writers /\ n \in Nat /\ n <= accepted[w] /\ message[id] = [writer |-> w, n |-> n]
  BY <1>2 DEF PInv, MessagesOrdered, Message
<1>4. heard \in [Subscribers -> Seq(Ids)]
  BY DEF PInv, IInv, TypeOK
<1>5. /\ Len(heard[s]) \in Nat /\ Len(heard'[s]) = Len(heard[s]) + 1
      /\ \A i \in 1..Len(heard[s]) : heard'[s][i] = heard[s][i]
      /\ heard'[s][Len(heard[s]) + 1] = id
      /\ \A t \in Subscribers \ {s} : heard'[t] = heard[t]
  BY <1>1, <1>4, AppendProperties
<1>6. /\ passed[s] \in Seq(Message) /\ Len(passed[s]) = Len(heard[s])
      /\ \A i \in 1..Len(heard[s]) : passed[s][i] = message[heard[s][i]]
  <2>1. \A i \in 1..Len(heard[s]) : message[heard[s][i]] \in Message
    BY Numbers DEF PInv, IdsBegun
  <2> QED
    BY <1>5, <2>1 DEF passed
<1>7. PerWriter!InOrder(s, w, n)
  <2> SUFFICES ASSUME NEW i \in 1..Len(passed[s]), passed[s][i].writer = w
               PROVE  passed[s][i].n < n
    BY DEF PerWriter!InOrder
  <2>1. /\ heard[s][i] \in Begun /\ heard[s][i] \in Nat /\ id \in Nat
        /\ passed[s][i] = message[heard[s][i]]
    BY <1>2, <1>6, Numbers DEF PInv, IdsBegun
  <2>2. heard[s][i] <= last[s] /\ last[s] < id /\ last[s] \in Nat
    <3>1. CursorOK(s) /\ last[s] \in 0..MaxId
      BY DEF PInv, IInv, Local, TypeOK
    <3> QED
      BY <1>1, <1>6, <3>1 DEF CursorOK
  <2>3. heard[s][i] < id
    BY <2>1, <2>2
  <2> QED
    BY <1>2, <2>1, <2>3 DEF PInv, MessagesOrdered
<1>8. passed' = [passed EXCEPT ![s] = Append(@, [writer |-> w, n |-> n])]
  <2> DEFINE new == Append(passed[s], [writer |-> w, n |-> n])
  <2>1. passed'[s] = [i \in 1..(Len(heard[s]) + 1) |-> message[heard'[s][i]]]
    BY <1>5 DEF passed
  <2>2. /\ new \in Seq(Message) /\ Len(new) = Len(heard[s]) + 1
        /\ \A i \in 1..Len(heard[s]) : new[i] = passed[s][i]
        /\ new[Len(heard[s]) + 1] = message[id]
    BY <1>2, <1>3, <1>6, AppendProperties
  <2>3. new = [i \in 1..(Len(heard[s]) + 1) |-> new[i]]
    BY <2>2
  <2>4. \A i \in 1..(Len(heard[s]) + 1) : new[i] = message[heard'[s][i]]
    <3> HIDE DEF new
    <3>1. \A i \in 1..Len(heard[s]) : new[i] = message[heard'[s][i]]
      BY <1>5, <1>6, <2>2
    <3>2. new[Len(heard[s]) + 1] = message[heard'[s][Len(heard[s]) + 1]]
      BY <1>5, <2>2
    <3>3. \A i \in 1..(Len(heard[s]) + 1) : i \in 1..Len(heard[s]) \/ i = Len(heard[s]) + 1
      BY <1>5
    <3> QED
      BY <3>1, <3>2, <3>3
  <2>5. passed'[s] = new
    <3> HIDE DEF new
    <3> QED
      BY <2>1, <2>3, <2>4
  <2>6. \A t \in Subscribers \ {s} : passed'[t] = passed[t]
    BY <1>5 DEF passed
  <2>7. passed' = [t \in Subscribers |-> passed'[t]] /\ passed = [t \in Subscribers |-> passed[t]]
    BY DEF passed
  <2> QED
    BY <2>5, <2>6, <2>7
<1>9. n \in 1..accepted[w]
  <2>1. accepted[w] \in Nat /\ n \in Nat \ {0}
    BY <1>2, <1>3, Numbers DEF Message
  <2> QED
    BY <1>3, <2>1
<1> QED
  BY <1>3, <1>7, <1>8, <1>9 DEF PerWriter!Next, PerWriter!Pass

\* Every step of the pipeline accepts a message, passes one on, or is neither.
LEMMA StepKeepsDelivery ==
    ASSUME PInv, [PipelineNext]_pipelineVars
    PROVE  [PerWriter!Next]_(PerWriter!vars)
<1>1. ASSUME accepted' = accepted, heard' = heard, message' = message
      PROVE  PerWriter!vars' = PerWriter!vars
  BY <1>1, SamePassed DEF PerWriter!vars
<1>2. ASSUME NEW w \in Writers, Accept(w)
      PROVE  PerWriter!Next
  <2>1. heard' = heard /\ message' = message
    BY <1>2 DEF Accept, vars, histVars
  <2> QED
    BY <1>2, <2>1, SamePassed DEF Accept, PerWriter!Next, PerWriter!Accept
<1>3. ASSUME NEW w \in Writers, Insert(w)
      PROVE  PerWriter!vars' = PerWriter!vars
  <2>1. accepted' = accepted /\ heard' = heard
    BY <1>3 DEF Insert, restVars, histVars, writerVars
  <2>2. PICK k \in Nat \ {0} : message' = message \o Batch(w, k)
    BY <1>3, NextIds
  <2>3. message \in Seq(Message) /\ settled[w] \in Nat /\ Len(message) \in Nat
    BY Numbers DEF PInv, PipelineTypeOK, Message
  <2>4. Batch(w, k) \in Seq(Message) /\ Len(Batch(w, k)) = k
    BY <2>3 DEF Batch, Message
  <2>5. \A i \in Begun : message'[i] = message[i]
    BY <2>2, <2>3, <2>4, ConcatProperties DEF Begun
  <2> QED
    BY <2>1, <2>5, SamePassed DEF PInv, IdsBegun, PerWriter!vars
<1>4. ASSUME NEW w \in Writers, InsertEnds(w) \/ InsertEndsAlone(w) \/ WriterCrash(w)
      PROVE  PerWriter!vars' = PerWriter!vars
  BY <1>1, <1>4 DEF InsertEnds, InsertEndsAlone, WriterCrash, restVars, histVars, writerVars, vars
<1>5. CASE CleanupStep
  BY <1>1, <1>5 DEF CleanupStep, restVars, histVars, writerVars
<1>6. ASSUME NEW s \in Subscribers, SubscriberStep(s), UNCHANGED <<writerVars, message>>
      PROVE  [PerWriter!Next]_(PerWriter!vars)
  <2>1. accepted' = accepted /\ message' = message
    BY <1>6 DEF writerVars
  <2>2. CASE CallbacksSucceed(s)
    BY <2>1, <2>2, CallbacksPass
  <2>3. CASE heard' = heard
    BY <1>1, <2>1, <2>3
  <2> QED
    BY <1>6, <2>2, <2>3
       DEF SubscriberStep, Start, FirstCallback, Stop, Crash, PollBegins, Fetch, Process,
           NobodyToCall, CallbackRaises, CallbackLogRaises, Raises, Mark, FetchFails,
           ProcessFails, MarkFails, histVars
<1>7. CASE UNCHANGED pipelineVars
  BY <1>1, <1>7 DEF pipelineVars, vars, histVars, writerVars
<1> QED
  BY <1>2, <1>3, <1>4, <1>5, <1>6, <1>7 DEF PipelineNext, WriterStep

\* However many writers and subscribers there are, and whatever fails or
\* crashes, each subscriber is passed accepted messages only, those of one
\* writer in the order of its enqueue calls, and none twice.
THEOREM DeliveryCorrect == PipelineSpec => DeliversInOrder
<1>1. PipelineInit => PerWriter!Init
  <2> SUFFICES ASSUME PipelineInit PROVE PerWriter!Init
    OBVIOUS
  <2>1. \A s \in Subscribers : heard[s] = <<>>
    BY DEF PipelineInit, Init
  <2>2. passed = [s \in Subscribers |-> <<>>]
    BY <2>1 DEF passed
  <2> QED
    BY <2>2 DEF PipelineInit, PerWriter!Init
<1>2. PInv /\ [PipelineNext]_pipelineVars => [PerWriter!Next]_(PerWriter!vars)
  BY StepKeepsDelivery
<1> QED
  BY <1>1, <1>2, PipelineInvariance, PTL DEF PipelineSpec, DeliversInOrder, PerWriter!Spec

=============================================================================
