------------------------ MODULE MessageWriterProofs ------------------------
(***************************************************************************)
(* Proofs about MessageWriter, for every queue size, batch size, number of *)
(* flush calls and number of messages.                                     *)
(*                                                                         *)
(* The queue is described by Chain: its items continue the tickets where   *)
(* the batch in hand stops, and reach the last one accepted.  Lemmas show  *)
(* what the three queue operations make of a chain; the inductive          *)
(* invariant IInv adds the order of the batch and of the outcomes, where   *)
(* the flush markers are, and what the worker's position implies.          *)
(***************************************************************************)
EXTENDS MessageWriter, SequenceTheorems, TLAPS

\* Tickets the worker has taken off the queue.
Taken == Len(settled) + Len(batch)

\* From one position of the queue to a later one n never falls, grows by at
\* most one a position, and grows whenever the later item is a message.
Climbs(q) ==
    \A i, j \in 1..Len(q) : i < j =>
        /\ q[i].n <= q[j].n
        /\ q[j].n <= q[i].n + (j - i)
        /\ IsMessage(q[j]) => q[i].n < q[j].n

Covers(q, taken, acc) ==
    \A t \in (taken + 1)..acc :
        \E i \in 1..Len(q) : IsMessage(q[i]) /\ q[i].n = t

Chain(q, taken, acc) ==
    /\ taken <= acc
    /\ acc <= taken + Len(q)
    /\ q # <<>> => q[Len(q)].n = acc
    /\ \A i \in 1..Len(q) : taken <= q[i].n /\ q[i].n <= acc
    /\ \A i \in 1..Len(q) : IsMessage(q[i]) => taken < q[i].n
    /\ Climbs(q)
    /\ Covers(q, taken, acc)

InOrder ==
    /\ \A i \in 1..Len(settled) : settled[i].n = i
    /\ \A i \in 1..Len(batch) : batch[i] = Len(settled) + i

\* What flush[f] is once f's marker went into the queue.
Pushed == {"waiting", "signalled", "timedOut"}

\* A marker is queued or in the worker's hands only after its push, and one
\* that left the queue has nothing accepted before it left behind.
MarkersOK ==
    /\ \A i \in 1..Len(queue) : ~IsMessage(queue[i]) =>
         /\ queue[i].n = mark[queue[i].latch]
         /\ flush[queue[i].latch] \in Pushed
    /\ \A f \in markers :
         mark[f] <= Taken /\ flush[f] \in Pushed
    /\ \A f \in FlushCalls : flush[f] = "signalled" => mark[f] <= Taken

WorkerOK ==
    /\ batch # <<>> => worker \in {"fill", "signal", "write"}
    /\ markers # {} => worker \in {"fill", "signal"}

StopOK ==
    /\ atShutdown <= accepted
    /\ worker = "exited" => ShutdownFlag /\ atShutdown <= Len(settled)

IInv ==
    /\ TypeOK
    /\ Chain(queue, Taken, accepted)
    /\ InOrder
    /\ MarkersOK
    /\ WorkerOK
    /\ StopOK

-----------------------------------------------------------------------------
(* The queue operations on chains.                                         *)

\* What a queue holds are items.
LEMMA QueueItem ==
    ASSUME NEW q \in Seq(Item)
    PROVE  \A i \in 1..Len(q) : q[i] \in Item /\ q[i].n \in Nat
<1>1. \A i \in 1..Len(q) : q[i] \in Item
  BY ElementOfSeq
<1>2. \A item \in Item : item.n \in Nat
  BY DEF Item
<1> QED
  BY <1>1, <1>2

\* What Append does to the positions of a queue: the fact every enqueue
\* and every flush marker of the code relies on.
LEMMA AppendItem ==
    ASSUME NEW q \in Seq(Item), NEW item \in Item
    PROVE  /\ Append(q, item) \in Seq(Item)
           /\ Len(Append(q, item)) = Len(q) + 1
           /\ Len(q) \in Nat
           /\ \A i \in 1..Len(q) : Append(q, item)[i] = q[i]
           /\ Append(q, item)[Len(q) + 1] = item
BY AppendProperties, LenProperties DEF Item

\* A queue that ends at ticket acc, extended by an item that ends at the
\* same ticket (a marker) or the next (a message), is a chain to that ticket.
LEMMA ChainAppend ==
    ASSUME NEW q \in Seq(Item), NEW taken \in Nat, NEW acc \in Nat,
           NEW item \in Item, Chain(q, taken, acc),
           item.n = IF IsMessage(item) THEN acc + 1 ELSE acc
    PROVE  Chain(Append(q, item), taken, item.n)
<1> DEFINE r == Append(q, item)
<1>1. /\ r \in Seq(Item)
      /\ Len(r) = Len(q) + 1
      /\ Len(q) \in Nat
      /\ \A i \in 1..Len(q) : r[i] = q[i]
      /\ r[Len(q) + 1] = item
  BY AppendItem
<1>2. \A i \in 1..Len(q) : q[i] \in Item /\ q[i].n \in Nat
  BY QueueItem
<1>3. q = <<>> => Len(q) = 0
  OBVIOUS
<1>4. q # <<>> => Len(q) >= 1
  BY EmptySeq
<1> HIDE DEF r
<1>5. taken <= item.n /\ item.n <= taken + Len(r)
  BY <1>1 DEF Chain
<1>6. r # <<>> => r[Len(r)].n = item.n
  BY <1>1
<1>7. \A i \in 1..Len(r) : taken <= r[i].n /\ r[i].n <= item.n
  <2> SUFFICES ASSUME NEW i \in 1..Len(r)
               PROVE  taken <= r[i].n /\ r[i].n <= item.n
    OBVIOUS
  <2>1. CASE i \in 1..Len(q)
    BY <2>1, <1>1, <1>2 DEF Chain
  <2>2. CASE i = Len(q) + 1
    BY <2>2, <1>1, <1>5
  <2> QED
    BY <2>1, <2>2, <1>1
<1>8. \A i \in 1..Len(r) : IsMessage(r[i]) => taken < r[i].n
  <2> SUFFICES ASSUME NEW i \in 1..Len(r), IsMessage(r[i])
               PROVE  taken < r[i].n
    OBVIOUS
  <2>1. CASE i \in 1..Len(q)
    BY <2>1, <1>1, <1>2 DEF Chain
  <2>2. CASE i = Len(q) + 1
    BY <2>2, <1>1 DEF Chain
  <2> QED
    BY <2>1, <2>2, <1>1
<1>9. Climbs(r)
  <2> SUFFICES ASSUME NEW i \in 1..Len(r), NEW j \in 1..Len(r), i < j
               PROVE  /\ r[i].n <= r[j].n
                      /\ r[j].n <= r[i].n + (j - i)
                      /\ IsMessage(r[j]) => r[i].n < r[j].n
    BY DEF Climbs
  <2>1. i \in 1..Len(q) /\ r[i] = q[i] /\ q[i].n \in Nat
    BY <1>1, <1>2
  <2>2. CASE j \in 1..Len(q)
    BY <2>1, <2>2, <1>1 DEF Chain, Climbs
  <2>3. CASE j = Len(q) + 1
    <3>1. q # <<>> /\ Len(q) \in 1..Len(q) /\ q[Len(q)].n = acc
      BY <2>1, <1>1, <1>3, <1>4 DEF Chain
    <3>2. q[i].n <= acc /\ acc <= q[i].n + (Len(q) - i)
      <4>1. CASE i = Len(q)
        BY <4>1, <3>1, <1>1
      <4>2. CASE i < Len(q)
        BY <4>2, <3>1, <2>1 DEF Chain, Climbs
      <4> QED
        BY <4>1, <4>2, <2>1, <1>1
    <3> QED
      BY <3>2, <2>1, <2>3, <1>1
  <2> QED
    BY <2>2, <2>3, <1>1
<1>10. Covers(r, taken, item.n)
  <2> SUFFICES ASSUME NEW t \in (taken + 1)..item.n
               PROVE  \E i \in 1..Len(r) : IsMessage(r[i]) /\ r[i].n = t
    BY DEF Covers
  <2>1. CASE t <= acc
    <3>1. PICK i \in 1..Len(q) : IsMessage(q[i]) /\ q[i].n = t
      BY <2>1 DEF Chain, Covers
    <3> QED
      BY <3>1, <1>1
  <2>2. CASE t > acc
    <3>1. IsMessage(item) /\ item.n = t
      BY <2>2
    <3> QED
      BY <3>1, <1>1
  <2> QED
    BY <2>1, <2>2
<1> QED
  BY <1>5, <1>6, <1>7, <1>8, <1>9, <1>10 DEF Chain, r

\* What Head and Tail are of the positions of a queue.
LEMMA TailItem ==
    ASSUME NEW q \in Seq(Item), q # <<>>
    PROVE  /\ Head(q) = q[1] /\ Head(q) \in Item
           /\ Tail(q) \in Seq(Item)
           /\ Len(q) \in Nat /\ Len(q) >= 1
           /\ Len(Tail(q)) = Len(q) - 1
           /\ \A i \in 1..Len(Tail(q)) : Tail(q)[i] = q[i + 1]
BY HeadTailProperties, EmptySeq, LenProperties

\* The first item of a chain is the next ticket, or a marker with nothing
\* before it; what remains is a chain from there.
LEMMA ChainTail ==
    ASSUME NEW q \in Seq(Item), NEW taken \in Nat, NEW acc \in Nat,
           Chain(q, taken, acc), q # <<>>
    PROVE  /\ Head(q).n = IF IsMessage(Head(q)) THEN taken + 1 ELSE taken
           /\ Chain(Tail(q), Head(q).n, acc)
<1> DEFINE r == Tail(q)
           h == Head(q)
<1>1. /\ h = q[1] /\ h \in Item
      /\ r \in Seq(Item)
      /\ Len(q) \in Nat /\ Len(q) >= 1
      /\ Len(r) = Len(q) - 1
      /\ \A i \in 1..Len(r) : r[i] = q[i + 1]
  BY TailItem
<1>2. \A i \in 1..Len(q) : q[i] \in Item /\ q[i].n \in Nat
  BY QueueItem
<1> HIDE DEF r, h
<1>4. h.n \in Nat /\ taken <= h.n /\ h.n <= acc
  BY <1>1, <1>2 DEF Chain
<1>5. h.n = IF IsMessage(h) THEN taken + 1 ELSE taken
  <2>1. CASE taken < acc
    <3>1. PICK i \in 1..Len(q) : IsMessage(q[i]) /\ q[i].n = taken + 1
      BY <2>1 DEF Chain, Covers
    <3>2. CASE i = 1
      BY <3>1, <3>2, <1>1 DEF Chain
    <3>3. CASE i > 1
      <4>1. h.n < taken + 1
        BY <3>1, <3>3, <1>1 DEF Chain, Climbs
      <4>2. IsMessage(h) => taken < h.n
        BY <1>1 DEF Chain
      <4> QED
        BY <4>1, <4>2, <1>4
    <3> QED
      BY <3>2, <3>3
  <2>2. CASE taken = acc
    BY <2>2, <1>1, <1>4 DEF Chain
  <2> QED
    BY <2>1, <2>2 DEF Chain
<1>6. acc <= h.n + Len(r)
  <2>1. CASE Len(q) = 1
    BY <2>1, <1>1, <1>4 DEF Chain
  <2>2. CASE Len(q) > 1
    BY <2>2, <1>1, <1>2 DEF Chain, Climbs
  <2> QED
    BY <2>1, <2>2, <1>1
<1>7. r # <<>> => r[Len(r)].n = acc
  <2> SUFFICES ASSUME r # <<>>
               PROVE  r[Len(r)].n = acc
    OBVIOUS
  <2>1. Len(r) \in 1..Len(r)
    BY <1>1, EmptySeq
  <2> QED
    BY <2>1, <1>1 DEF Chain
<1>8. \A i \in 1..Len(r) :
        /\ h.n <= r[i].n
        /\ r[i].n <= acc
        /\ IsMessage(r[i]) => h.n < r[i].n
  <2> SUFFICES ASSUME NEW i \in 1..Len(r)
               PROVE  /\ h.n <= r[i].n
                      /\ r[i].n <= acc
                      /\ IsMessage(r[i]) => h.n < r[i].n
    OBVIOUS
  <2>1. 1 \in 1..Len(q) /\ i + 1 \in 1..Len(q) /\ 1 < i + 1 /\ r[i] = q[i + 1]
    BY <1>1
  <2>2. q[1].n <= q[i + 1].n /\ (IsMessage(q[i + 1]) => q[1].n < q[i + 1].n)
    BY <2>1 DEF Chain, Climbs
  <2> QED
    BY <2>1, <2>2, <1>1 DEF Chain
<1>10. Climbs(r)
  <2> SUFFICES ASSUME NEW i \in 1..Len(r), NEW j \in 1..Len(r), i < j
               PROVE  /\ r[i].n <= r[j].n
                      /\ r[j].n <= r[i].n + (j - i)
                      /\ IsMessage(r[j]) => r[i].n < r[j].n
    BY DEF Climbs
  <2>1. /\ i + 1 \in 1..Len(q) /\ j + 1 \in 1..Len(q)
        /\ r[i] = q[i + 1] /\ r[j] = q[j + 1]
    BY <1>1
  <2>2. /\ q[i + 1].n <= q[j + 1].n
        /\ q[j + 1].n <= q[i + 1].n + (j - i)
        /\ IsMessage(q[j + 1]) => q[i + 1].n < q[j + 1].n
    <3>1. \A a, b \in 1..Len(q) : a < b =>
            /\ q[a].n <= q[b].n
            /\ q[b].n <= q[a].n + (b - a)
            /\ IsMessage(q[b]) => q[a].n < q[b].n
      BY DEF Chain, Climbs
    <3>2. i + 1 < j + 1 /\ (j + 1) - (i + 1) = j - i
      BY <1>1
    <3> QED
      BY <2>1, <3>1, <3>2
  <2> QED
    BY <2>1, <2>2
<1>11. Covers(r, h.n, acc)
  <2> SUFFICES ASSUME NEW t \in (h.n + 1)..acc
               PROVE  \E i \in 1..Len(r) : IsMessage(r[i]) /\ r[i].n = t
    BY DEF Covers
  <2>1. PICK i \in 1..Len(q) : IsMessage(q[i]) /\ q[i].n = t
    BY <1>4 DEF Chain, Covers
  <2>2. i # 1
    BY <2>1, <1>1, <1>4
  <2>3. i - 1 \in 1..Len(r) /\ r[i - 1] = q[i]
    BY <2>2, <1>1
  <2> QED
    BY <2>1, <2>3
<1> QED
  BY <1>4, <1>5, <1>6, <1>7, <1>8, <1>10, <1>11 DEF Chain, r, h

-----------------------------------------------------------------------------
(* The invariant, action by action.                                        *)

\* A writer that has just been built satisfies the invariant.
LEMMA InitIInv == Init => IInv
<1> SUFFICES ASSUME Init
             PROVE  IInv
  OBVIOUS
<1> USE DEF Init
<1>1. TypeOK
  <2>1. <<>> \in Seq(Item) /\ <<>> \in Seq(Nat) /\ <<>> \in Seq(Outcome)
    BY EmptySeq
  <2>2. Len(queue) = 0 /\ Len(batch) = 0
    BY EmptySeq
  <2> QED
    BY <2>1, <2>2, WriterAssumption DEF TypeOK
<1>2. Chain(queue, Taken, accepted)
  <2>1. Len(queue) = 0 /\ Taken = 0
    BY EmptySeq DEF Taken
  <2> QED
    BY <2>1 DEF Chain, Climbs, Covers
<1>3. InOrder /\ MarkersOK /\ WorkerOK /\ StopOK
  BY EmptySeq DEF InOrder, MarkersOK, WorkerOK, StopOK
<1> QED
  BY <1>1, <1>2, <1>3 DEF IInv

\* Arithmetic facts every step below starts from.
LEMMA Counts ==
    ASSUME IInv
    PROVE  /\ queue \in Seq(Item) /\ Len(queue) \in Nat
           /\ batch \in Seq(Nat) /\ Len(batch) \in Nat
           /\ settled \in Seq(Outcome) /\ Len(settled) \in Nat
           /\ Taken \in Nat /\ accepted \in Nat
           /\ Taken <= accepted
           /\ (queue = <<>> => Taken = accepted)
<1>1. queue \in Seq(Item) /\ batch \in Seq(Nat) /\ settled \in Seq(Outcome)
  BY DEF IInv, TypeOK
<1>2. Len(queue) \in Nat /\ Len(batch) \in Nat /\ Len(settled) \in Nat
  BY <1>1, LenProperties
<1>3. accepted \in Nat /\ Taken <= accepted /\ accepted <= Taken + Len(queue)
  BY DEF IInv, TypeOK, Chain
<1>4. queue = <<>> => Len(queue) = 0
  BY EmptySeq
<1>5. Taken \in Nat
  BY <1>2 DEF Taken
<1>6. queue = <<>> => Taken = accepted
  BY <1>3, <1>4, <1>5
<1> QED
  BY <1>1, <1>2, <1>3, <1>5, <1>6

\* A message joins the end of the queue.
LEMMA EnqueueIInv == IInv /\ Enqueue => IInv'
<1> SUFFICES ASSUME IInv, Enqueue
             PROVE  IInv'
  OBVIOUS
<1> DEFINE item == [n |-> accepted + 1, latch |-> NoLatch]
<1>1. item \in Item /\ IsMessage(item) /\ item.n = accepted + 1
  BY Counts DEF Item, IsMessage
<1>2. /\ queue' = Append(queue, item)
      /\ accepted' = item.n
      /\ Taken' = Taken
  BY DEF Enqueue, workerVars, Taken
<1> HIDE DEF item
<1>3. Chain(queue, Taken, accepted)'
  BY <1>1, <1>2, ChainAppend, Counts DEF IInv
<1>4. TypeOK'
  <2>1. queue' \in Seq(Item) /\ Len(queue') <= QueueSize
    BY <1>1, <1>2, AppendItem, Counts, WriterAssumption DEF Enqueue, Full
  <2>2. accepted' \in Nat
    BY <1>1, <1>2, Counts
  <2> QED
    BY <2>1, <2>2, Counts DEF IInv, TypeOK, Enqueue, workerVars, flushVars, stopVars
<1>5. MarkersOK'
  BY <1>1, <1>2, AppendItem, Counts
     DEF IInv, MarkersOK, Enqueue, workerVars, flushVars
<1>6. StopOK'
  BY Counts DEF IInv, TypeOK, StopOK, Enqueue, workerVars, stopVars, ShutdownFlag
<1>7. InOrder' /\ WorkerOK'
  BY DEF IInv, InOrder, WorkerOK, Enqueue, workerVars
<1> QED
  BY <1>3, <1>4, <1>5, <1>6, <1>7 DEF IInv

\* A flush marker joins the end of the queue.
LEMMA FlushPushIInv ==
    ASSUME NEW f \in FlushCalls, IInv, FlushPush(f)
    PROVE  IInv'
<1> DEFINE item == [n |-> accepted, latch |-> f]
<1>1. item \in Item /\ ~IsMessage(item) /\ item.n = accepted /\ item.latch = f
  BY Counts, WriterAssumption DEF Item, IsMessage
<1>2. /\ queue' = Append(queue, item)
      /\ accepted' = item.n
      /\ Taken' = Taken
  BY <1>1 DEF FlushPush, producerVars, workerVars, Taken
<1> HIDE DEF item
<1>3. Chain(queue, Taken, accepted)'
  BY <1>1, <1>2, ChainAppend, Counts DEF IInv
<1>4. TypeOK'
  <2>1. queue' \in Seq(Item) /\ Len(queue') <= QueueSize
    BY <1>1, <1>2, AppendItem, Counts, WriterAssumption DEF FlushPush, Full
  <2>2. accepted' \in Nat
    BY <1>1, <1>2, Counts
  <2> QED
    BY <2>1, <2>2, Counts DEF IInv, TypeOK, FlushPush, producerVars, workerVars, stopVars
<1>5. MarkersOK'
  <2>1. \A g \in FlushCalls : g # f => mark'[g] = mark[g] /\ flush'[g] = flush[g]
    BY DEF IInv, TypeOK, FlushPush
  <2>2. mark'[f] = accepted /\ flush'[f] = "waiting" /\ flush[f] = "push"
    BY DEF IInv, TypeOK, FlushPush
  <2>3. \A i \in 1..Len(queue') : ~IsMessage(queue'[i]) =>
          /\ queue'[i].n = mark'[queue'[i].latch]
          /\ flush'[queue'[i].latch] \in Pushed
    <3> SUFFICES ASSUME NEW i \in 1..Len(queue'), ~IsMessage(queue'[i])
                 PROVE  /\ queue'[i].n = mark'[queue'[i].latch]
                        /\ flush'[queue'[i].latch] \in Pushed
      OBVIOUS
    <3>1. CASE i \in 1..Len(queue)
      <4>1. queue'[i] = queue[i] /\ queue[i] \in Item /\ ~IsMessage(queue[i])
        BY <3>1, <1>1, <1>2, AppendItem, QueueItem, Counts
      <4>2. queue[i].latch \in FlushCalls
        BY <4>1 DEF Item, IsMessage
      <4>3. /\ queue[i].n = mark[queue[i].latch]
            /\ flush[queue[i].latch] \in Pushed
        BY <3>1, <4>1 DEF IInv, MarkersOK
      <4> QED
        BY <4>1, <4>2, <4>3, <2>1, <2>2 DEF Pushed
    <3>2. CASE i = Len(queue) + 1
      BY <3>2, <1>1, <1>2, <2>2, AppendItem, Counts DEF Pushed
    <3> QED
      BY <3>1, <3>2, <1>1, <1>2, AppendItem, Counts
  <2>4. \A g \in markers' :
          mark'[g] <= Taken' /\ flush'[g] \in Pushed
    BY <2>1, <2>2, <1>2 DEF IInv, TypeOK, MarkersOK, Pushed, FlushPush, workerVars
  <2>5. \A g \in FlushCalls : flush'[g] = "signalled" => mark'[g] <= Taken'
    BY <2>1, <2>2, <1>2 DEF IInv, MarkersOK
  <2> QED
    BY <2>3, <2>4, <2>5 DEF MarkersOK
<1>6. InOrder' /\ WorkerOK' /\ StopOK'
  BY DEF IInv, InOrder, WorkerOK, StopOK, FlushPush, producerVars, workerVars,
         stopVars, ShutdownFlag
<1> QED
  BY <1>3, <1>4, <1>5, <1>6 DEF IInv

\* The worker takes the first item: a message joins the end of the batch, a
\* marker joins the markers in hand.
LEMMA TakeIInv ==
    ASSUME IInv, Take, worker \in {"wait", "fill"}, worker' = "fill", HasRoom,
           UNCHANGED <<producerVars, settled, flushVars, stopVars>>
    PROVE  IInv'
<1> DEFINE item == Head(queue)
<1>1. /\ item = queue[1] /\ item \in Item
      /\ queue' = Tail(queue) /\ queue' \in Seq(Item)
      /\ Len(queue) >= 1
      /\ Len(queue') = Len(queue) - 1
      /\ \A i \in 1..Len(queue') : queue'[i] = queue[i + 1]
  BY TailItem, Counts DEF Take
<1>2. /\ item.n = IF IsMessage(item) THEN Taken + 1 ELSE Taken
      /\ Chain(queue', item.n, accepted)
  BY <1>1, ChainTail, Counts DEF IInv, Take
<1>3. item.n \in Nat
  BY <1>1 DEF Item
<1> HIDE DEF item
<1>4. /\ batch' = IF IsMessage(item) THEN Append(batch, item.n) ELSE batch
      /\ markers' = IF IsMessage(item) THEN markers
                                       ELSE markers \cup {item.latch}
  BY DEF Take, item
<1>5. /\ batch' \in Seq(Nat)
      /\ Len(batch') = IF IsMessage(item) THEN Len(batch) + 1 ELSE Len(batch)
      /\ \A i \in 1..Len(batch) : batch'[i] = batch[i]
      /\ IsMessage(item) => batch'[Len(batch) + 1] = item.n
  BY <1>3, <1>4, AppendProperties, Counts
<1>6. Taken' = item.n
  BY <1>2, <1>5, Counts DEF Taken
<1>7. TypeOK'
  <2>1. Len(queue') <= QueueSize
    BY <1>1, Counts, WriterAssumption DEF IInv, TypeOK
  <2>2. Len(batch') <= BatchSize
    BY <1>5, Counts, WriterAssumption DEF HasRoom
  <2>3. markers' \subseteq FlushCalls
    BY <1>1, <1>4 DEF IInv, TypeOK, Item, IsMessage
  <2> QED
    BY <1>1, <1>5, <2>1, <2>2, <2>3
       DEF IInv, TypeOK, producerVars, flushVars, stopVars
<1>8. Chain(queue, Taken, accepted)'
  BY <1>2, <1>6 DEF producerVars
<1>9. InOrder'
  <2>1. \A i \in 1..Len(settled) : settled[i].n = i
    BY DEF IInv, InOrder
  <2>2. \A i \in 1..Len(batch') : batch'[i] = Len(settled) + i
    <3> SUFFICES ASSUME NEW i \in 1..Len(batch')
                 PROVE  batch'[i] = Len(settled) + i
      OBVIOUS
    <3>1. CASE i \in 1..Len(batch)
      BY <3>1, <1>5 DEF IInv, InOrder
    <3>2. CASE i = Len(batch) + 1
      <4>1. IsMessage(item) /\ batch'[i] = Taken + 1
        BY <3>2, <1>2, <1>5, Counts
      <4> QED
        BY <4>1, <3>2, Counts DEF Taken
    <3> QED
      BY <3>1, <3>2, <1>5, Counts
  <2> QED
    BY <2>1, <2>2 DEF InOrder
<1>10. MarkersOK'
  <2>1. \A i \in 1..Len(queue') : ~IsMessage(queue'[i]) =>
          /\ queue'[i].n = mark[queue'[i].latch]
          /\ flush[queue'[i].latch] \in Pushed
    <3>1. \A i \in 1..Len(queue') : i + 1 \in 1..Len(queue)
      BY <1>1, Counts
    <3> QED
      BY <3>1, <1>1 DEF IInv, MarkersOK
  <2>2. \A f \in markers' :
          mark[f] <= Taken' /\ flush[f] \in Pushed
    <3> SUFFICES ASSUME NEW f \in markers'
                 PROVE  mark[f] <= Taken' /\ flush[f] \in Pushed
      OBVIOUS
    <3>1. CASE f \in markers
      <4>1. mark[f] <= Taken /\ mark[f] \in Nat /\ flush[f] \in Pushed
        BY <3>1 DEF IInv, MarkersOK, TypeOK
      <4> QED
        BY <4>1, <1>2, <1>6, Counts
    <3>2. CASE ~IsMessage(item) /\ f = item.latch
      <4>1. 1 \in 1..Len(queue)
        BY <1>1, Counts
      <4>2. item.n = mark[f] /\ flush[f] \in Pushed
        BY <4>1, <3>2, <1>1 DEF IInv, MarkersOK
      <4> QED
        BY <4>2, <1>3, <1>6
    <3> QED
      BY <3>1, <3>2, <1>4
  <2>3. \A f \in FlushCalls : flush[f] = "signalled" => mark[f] <= Taken'
    <3> SUFFICES ASSUME NEW f \in FlushCalls, flush[f] = "signalled"
                 PROVE  mark[f] <= Taken'
      OBVIOUS
    <3>1. mark[f] <= Taken /\ mark[f] \in Nat
      BY DEF IInv, MarkersOK, TypeOK
    <3> QED
      BY <3>1, <1>2, <1>6, Counts
  <2> QED
    BY <2>1, <2>2, <2>3 DEF MarkersOK, flushVars
<1>11. WorkerOK' /\ StopOK'
  BY DEF IInv, WorkerOK, StopOK, producerVars, stopVars, ShutdownFlag
<1> QED
  BY <1>7, <1>8, <1>9, <1>10, <1>11 DEF IInv

\* insert_all settles the batch in hand, whether it stores it or not.
LEMMA SettleIInv ==
    ASSUME NEW stored \in BOOLEAN, IInv, Settle(stored),
           worker = "write", worker' \in {"top", "rescue"},
           UNCHANGED <<queue, producerVars, markers, flushVars, stopVars>>
    PROVE  IInv'
<1> DEFINE new == [i \in 1..Len(batch) |-> [n |-> batch[i], stored |-> stored]]
<1>1. /\ new \in Seq(Outcome)
      /\ Len(new) = Len(batch)
      /\ \A i \in 1..Len(batch) : new[i].n = Len(settled) + i
  <2>1. \A i \in 1..Len(batch) : batch[i] \in Nat /\ batch[i] = Len(settled) + i
    BY ElementOfSeq, Counts DEF IInv, InOrder
  <2>2. new \in [1..Len(batch) -> Outcome]
    BY <2>1 DEF Outcome
  <2> QED
    BY <2>1, <2>2, Counts
<1>2. settled' = settled \o new /\ batch' = <<>>
  BY DEF Settle
<1> HIDE DEF new
<1>3. /\ settled' \in Seq(Outcome)
      /\ Len(settled') = Len(settled) + Len(batch)
      /\ \A i \in 1..(Len(settled) + Len(batch)) : settled'[i] =
           IF i <= Len(settled) THEN settled[i] ELSE new[i - Len(settled)]
  <2>1. /\ settled \o new \in Seq(Outcome)
        /\ Len(settled \o new) = Len(settled) + Len(new)
        /\ \A i \in 1..Len(settled) + Len(new) : (settled \o new)[i] =
             IF i <= Len(settled) THEN settled[i] ELSE new[i - Len(settled)]
    BY <1>1, ConcatProperties, Counts
  <2> QED
    BY <2>1, <1>1, <1>2
<1>4. Len(batch') = 0 /\ batch' \in Seq(Nat)
  BY <1>2, EmptySeq
<1>5. Taken' = Taken
  BY <1>3, <1>4, Counts DEF Taken
<1>6. TypeOK'
  BY <1>3, <1>4, WriterAssumption
     DEF IInv, TypeOK, producerVars, flushVars, stopVars
<1>7. InOrder'
  <2>1. \A i \in 1..Len(settled') : settled'[i].n = i
    <3> SUFFICES ASSUME NEW i \in 1..Len(settled')
                 PROVE  settled'[i].n = i
      OBVIOUS
    <3>1. CASE i <= Len(settled)
      <4>1. i \in 1..Len(settled) /\ settled'[i] = settled[i]
        BY <3>1, <1>3, Counts
      <4> QED
        BY <4>1 DEF IInv, InOrder
    <3>2. CASE i > Len(settled)
      <4>1. i - Len(settled) \in 1..Len(batch)
        BY <3>2, <1>3, Counts
      <4>2. settled'[i] = new[i - Len(settled)]
        BY <3>2, <1>3, Counts
      <4>3. new[i - Len(settled)].n = Len(settled) + (i - Len(settled))
        BY <4>1, <1>1
      <4>4. i \in Int /\ Len(settled) + (i - Len(settled)) = i
        BY <1>3, Counts
      <4> QED
        BY <4>2, <4>3, <4>4
    <3> QED
      BY <3>1, <3>2, <1>3, Counts
  <2> QED
    BY <2>1, <1>4 DEF InOrder
<1>8. Chain(queue, Taken, accepted)'
  BY <1>5 DEF IInv, producerVars
<1>9. MarkersOK'
  BY <1>5 DEF IInv, MarkersOK, flushVars
<1>10. WorkerOK' /\ StopOK'
  BY <1>2 DEF IInv, WorkerOK, StopOK, producerVars, stopVars, ShutdownFlag
<1> QED
  BY <1>6, <1>7, <1>8, <1>9, <1>10 DEF IInv

\* A flush call that is checked, or gives up, leaves the markers that are on
\* their way as they are.
LEMMA FlushMovesIInv ==
    ASSUME NEW f \in FlushCalls, IInv, FlushCheck(f) \/ FlushTimesOut(f)
    PROVE  IInv'
<1>1. /\ UNCHANGED <<queue, accepted, dropped, worker, batch, markers, settled,
                     mark, stop, atShutdown>>
      /\ Taken' = Taken
  BY DEF FlushCheck, FlushTimesOut, producerVars, workerVars, stopVars, Taken
<1>2. \A g \in FlushCalls :
        /\ flush[g] \in Pushed => flush'[g] \in Pushed
        /\ flush'[g] = "signalled" => flush[g] = "signalled"
  BY DEF FlushCheck, FlushTimesOut, IInv, TypeOK, Pushed
<1>3. TypeOK'
  BY <1>1 DEF IInv, TypeOK, FlushCheck, FlushTimesOut
<1>4. MarkersOK'
  <2>1. \A i \in 1..Len(queue) : ~IsMessage(queue[i]) =>
          queue[i].latch \in FlushCalls
    BY QueueItem, Counts DEF Item, IsMessage
  <2>2. markers \subseteq FlushCalls
    BY DEF IInv, TypeOK
  <2> QED
    BY <1>1, <1>2, <2>1, <2>2 DEF IInv, MarkersOK
<1>5. Chain(queue, Taken, accepted)' /\ InOrder' /\ WorkerOK' /\ StopOK'
  BY <1>1 DEF IInv, InOrder, WorkerOK, StopOK, ShutdownFlag
<1> QED
  BY <1>3, <1>4, <1>5 DEF IInv

\* The worker counts the latches down: what it has taken covers their marks.
LEMMA SignalIInv == IInv /\ SignalMarkers => IInv'
<1> SUFFICES ASSUME IInv, SignalMarkers
             PROVE  IInv'
  OBVIOUS
<1>1. /\ UNCHANGED <<queue, accepted, dropped, batch, settled, mark, stop, atShutdown>>
      /\ Taken' = Taken
      /\ markers' = {}
      /\ worker = "signal"
      /\ worker' = IF batch = <<>> THEN "top" ELSE "write"
  BY DEF SignalMarkers, Goto, producerVars, stopVars, Taken
<1>2. \A g \in FlushCalls :
        /\ flush[g] \in Pushed => flush'[g] \in Pushed
        /\ flush'[g] = "signalled" => flush[g] = "signalled" \/ g \in markers
  BY DEF SignalMarkers, Pushed
<1>3. TypeOK'
  BY <1>1 DEF IInv, TypeOK, SignalMarkers
<1>4. MarkersOK'
  <2>1. \A i \in 1..Len(queue) : ~IsMessage(queue[i]) =>
          queue[i].latch \in FlushCalls
    BY QueueItem, Counts DEF Item, IsMessage
  <2> QED
    BY <1>1, <1>2, <2>1 DEF IInv, MarkersOK
<1>5. Chain(queue, Taken, accepted)' /\ InOrder' /\ WorkerOK' /\ StopOK'
  BY <1>1 DEF IInv, InOrder, WorkerOK, StopOK, ShutdownFlag
<1> QED
  BY <1>3, <1>4, <1>5 DEF IInv

\* The call of shutdown moves on; nothing accepted before it is counted out.
LEMMA StopperIInv == IInv /\ Stopper => IInv'
<1> SUFFICES ASSUME IInv, Stopper
             PROVE  IInv'
  OBVIOUS
<1>1. /\ UNCHANGED <<queue, accepted, dropped, worker, batch, markers, settled,
                     flush, mark>>
      /\ Taken' = Taken
  BY DEF Stopper, ShutdownSetFlag, ShutdownExecutor, ShutdownEnds,
         producerVars, workerVars, flushVars, Taken
<1>2. TypeOK'
  BY <1>1 DEF IInv, TypeOK, Stopper, ShutdownSetFlag, ShutdownExecutor, ShutdownEnds
<1>3. StopOK'
  BY <1>1, Counts DEF IInv, TypeOK, StopOK, ShutdownFlag,
     Stopper, ShutdownSetFlag, ShutdownExecutor, ShutdownEnds
<1>4. Chain(queue, Taken, accepted)' /\ InOrder' /\ MarkersOK' /\ WorkerOK'
  BY <1>1 DEF IInv, InOrder, MarkersOK, WorkerOK
<1> QED
  BY <1>2, <1>3, <1>4 DEF IInv

\* The worker only moves from one place to the next.  At its exit the queue
\* is empty and no batch is in hand, so every ticket accepted is settled.
LEMMA WorkerMovesIInv ==
    IInv /\ (WorkerStart \/ LoopExit \/ LoopEnter \/ DrainGivesUp \/ FillDone
               \/ Rescue) => IInv'
<1> SUFFICES ASSUME IInv, WorkerStart \/ LoopExit \/ LoopEnter \/ DrainGivesUp
                            \/ FillDone \/ Rescue
             PROVE  IInv'
  OBVIOUS
<1>1. /\ UNCHANGED <<queue, accepted, dropped, batch, markers, settled, flush,
                     mark, stop, atShutdown>>
      /\ Taken' = Taken
  BY DEF Move, WorkerStart, LoopExit, LoopEnter, DrainGivesUp, FillDone, Rescue,
         producerVars, flushVars, stopVars, Taken
<1>2. TypeOK' /\ WorkerOK'
  BY <1>1 DEF IInv, TypeOK, WorkerOK, Goto, Move,
     WorkerStart, LoopExit, LoopEnter, DrainGivesUp, FillDone, Rescue
<1>3. StopOK'
  <2>1. CASE LoopExit
    <3>1. queue = <<>> /\ ShutdownFlag /\ worker = "top"
      BY <2>1 DEF LoopExit, NothingLeft, Goto, Move
    <3>2. Len(batch) = 0
      BY <3>1, EmptySeq DEF IInv, WorkerOK
    <3>3. accepted = Len(settled)
      BY <3>1, <3>2, Counts DEF Taken
    <3> QED
      BY <1>1, <3>1, <3>3 DEF IInv, StopOK, ShutdownFlag
  <2>2. CASE ~LoopExit
    <3>1. worker' = "exited" => worker = "exited"
      BY <2>2 DEF Goto, Move, WorkerStart, LoopEnter, DrainGivesUp, FillDone, Rescue
    <3> QED
      BY <1>1, <3>1 DEF IInv, StopOK, ShutdownFlag
  <2> QED
    BY <2>1, <2>2
<1>4. Chain(queue, Taken, accepted)' /\ InOrder' /\ MarkersOK'
  BY <1>1 DEF IInv, InOrder, MarkersOK
<1> QED
  BY <1>2, <1>3, <1>4 DEF IInv

\* Every step of the writer and its callers preserves the invariant.
LEMMA NextIInv == IInv /\ [Next]_vars => IInv'
<1> SUFFICES ASSUME IInv, [Next]_vars
             PROVE  IInv'
  OBVIOUS
<1>1. CASE Enqueue
  BY <1>1, EnqueueIInv
<1>2. CASE EnqueueDropped
  <2>1. /\ UNCHANGED <<queue, accepted, workerVars, flushVars, stopVars>>
        /\ dropped' = dropped + 1
    BY <1>2 DEF EnqueueDropped
  <2> QED
    BY <2>1 DEF IInv, TypeOK, InOrder, MarkersOK, WorkerOK, StopOK, ShutdownFlag,
                Taken, workerVars, flushVars, stopVars
<1>3. ASSUME NEW f \in FlushCalls, Flusher(f)
      PROVE  IInv'
  BY <1>3, FlushPushIInv, FlushMovesIInv DEF Flusher
<1>4. CASE Stopper
  BY <1>4, StopperIInv
<1>5. CASE WorkerStart \/ LoopExit \/ LoopEnter \/ DrainGivesUp \/ FillDone \/ Rescue
  BY <1>5, WorkerMovesIInv
<1>6. CASE PopFirst
  <2>1. Len(batch) = 0
    BY <1>6, EmptySeq DEF IInv, WorkerOK, PopFirst, Goto
  <2>2. HasRoom
    BY <2>1, WriterAssumption DEF HasRoom
  <2> QED
    BY <1>6, <2>2, TakeIInv DEF PopFirst, Goto
<1>7. CASE PopMore
  BY <1>7, TakeIInv DEF PopMore, Goto
<1>8. CASE SignalMarkers
  BY <1>8, SignalIInv
<1>9. CASE WriteSucceeds
  BY <1>9, SettleIInv DEF WriteSucceeds, Goto
<1>10. CASE WriteFails
  <2>1. PICK stored \in BOOLEAN : Settle(stored)
    BY <1>10 DEF WriteFails
  <2> QED
    BY <1>10, <2>1, SettleIInv DEF WriteFails, Goto
<1>11. CASE UNCHANGED vars
  BY <1>11 DEF IInv, TypeOK, InOrder, MarkersOK, WorkerOK, StopOK, ShutdownFlag,
               Taken, vars, producerVars, workerVars, flushVars, stopVars
<1> QED
  BY <1>1, <1>2, <1>3, <1>4, <1>5, <1>6, <1>7, <1>8, <1>9, <1>10, <1>11
     DEF Next, Producer, Worker

\* The inductive invariant holds in every state of the writer.
THEOREM Invariance == Spec => []IInv
<1> QED
  BY InitIInv, NextIInv, PTL DEF Spec

-----------------------------------------------------------------------------
(* What follows from the invariant.                                        *)

\* The writer's state has its types, and neither the queue nor a batch grows
\* beyond its configured size.
THEOREM TypeCorrect == Spec => []TypeOK
<1>1. IInv => TypeOK
  BY DEF IInv
<1> QED
  BY <1>1, Invariance, PTL

\* Where a ticket is follows from its number alone.
LEMMA Whereabouts ==
    ASSUME IInv
    PROVE  \A t \in 1..accepted :
             /\ Settled(t) <=> t <= Len(settled)
             /\ InBatch(t) <=> Len(settled) < t /\ t <= Taken
             /\ InQueue(t) <=> Taken < t
<1> SUFFICES ASSUME NEW t \in 1..accepted
             PROVE  /\ Settled(t) <=> t <= Len(settled)
                    /\ InBatch(t) <=> Len(settled) < t /\ t <= Taken
                    /\ InQueue(t) <=> Taken < t
  OBVIOUS
<1>1. /\ DOMAIN settled = 1..Len(settled)
      /\ DOMAIN batch = 1..Len(batch)
      /\ DOMAIN queue = 1..Len(queue)
  BY LenProperties, Counts
<1>2. t \in Nat /\ t >= 1 /\ Taken = Len(settled) + Len(batch)
  BY Counts DEF Taken
<1>3. Settled(t) <=> t <= Len(settled)
  BY <1>1, <1>2, Counts DEF Settled, IInv, InOrder
<1>4. InBatch(t) <=> Len(settled) < t /\ t <= Taken
  <2>1. ASSUME Len(settled) < t, t <= Taken
        PROVE  InBatch(t)
    <3>1. /\ t - Len(settled) \in 1..Len(batch)
          /\ Len(settled) + (t - Len(settled)) = t
      BY <2>1, <1>2, Counts
    <3> QED
      BY <3>1, <1>1 DEF InBatch, IInv, InOrder
  <2>2. ASSUME InBatch(t)
        PROVE  Len(settled) < t /\ t <= Taken
    <3>1. PICK i \in 1..Len(batch) : t = Len(settled) + i
      BY <2>2, <1>1 DEF InBatch, IInv, InOrder
    <3> QED
      BY <3>1, <1>2, Counts
  <2> QED
    BY <2>1, <2>2
<1>5. InQueue(t) <=> Taken < t
  <2>1. ASSUME Taken < t
        PROVE  InQueue(t)
    <3>1. t \in (Taken + 1)..accepted
      BY <2>1, <1>2, Counts
    <3> QED
      BY <3>1, <1>1 DEF InQueue, IInv, Chain, Covers
  <2>2. InQueue(t) => Taken < t
    BY <1>1 DEF InQueue, IInv, Chain
  <2> QED
    BY <2>1, <2>2
<1> QED
  BY <1>3, <1>4, <1>5

\* No message that enqueue accepted is lost between the queue, the batch and
\* the outcomes, or is in two of them.
THEOREM MessagesConserved == Spec => []Conserved
<1>1. IInv => Conserved
  <2> SUFFICES ASSUME IInv, NEW t \in 1..accepted
               PROVE  /\ Settled(t) \/ InBatch(t) \/ InQueue(t)
                      /\ ~(Settled(t) /\ InBatch(t))
                      /\ ~(Settled(t) /\ InQueue(t))
                      /\ ~(InBatch(t) /\ InQueue(t))
    BY DEF Conserved
  <2>1. Taken >= Len(settled)
    BY Counts DEF Taken
  <2>2. t \in Nat
    BY Counts
  <2> QED
    BY <2>1, <2>2, Whereabouts, Counts
<1> QED
  BY <1>1, Invariance, PTL

\* When flush has been signalled, nothing accepted before its marker is still
\* in the queue.
THEOREM FlushCorrect == Spec => []FlushEmptiesQueue
<1>1. IInv => FlushEmptiesQueue
  <2> SUFFICES ASSUME IInv, NEW f \in FlushCalls, flush[f] = "signalled",
                      NEW i \in DOMAIN queue, IsMessage(queue[i])
               PROVE  queue[i].n > mark[f]
    BY DEF FlushEmptiesQueue
  <2>1. i \in 1..Len(queue)
    BY LenProperties, Counts
  <2>2. queue[i].n \in Nat /\ mark[f] \in Nat
    BY <2>1, QueueItem, Counts DEF IInv, TypeOK
  <2>3. Taken < queue[i].n /\ mark[f] <= Taken
    BY <2>1 DEF IInv, Chain, MarkersOK
  <2> QED
    BY <2>2, <2>3, Counts
<1> QED
  BY <1>1, Invariance, PTL

\* A worker that has left its loop on shutdown has settled every message
\* accepted before the shutdown began.
THEOREM ExitCorrect == Spec => []ExitSettles
<1>1. IInv => ExitSettles
  <2> SUFFICES ASSUME IInv, worker = "exited", NEW t \in 1..atShutdown
               PROVE  Settled(t)
    BY DEF ExitSettles
  <2>1. atShutdown <= Len(settled) /\ atShutdown <= accepted /\ atShutdown \in Nat
    BY DEF IInv, StopOK, TypeOK
  <2>2. t \in 1..accepted /\ t <= Len(settled)
    BY <2>1, Counts
  <2> QED
    BY <2>2, Whereabouts
<1> QED
  BY <1>1, Invariance, PTL

-----------------------------------------------------------------------------
(* The writer implements WriterPromise.                                    *)

\* Every step of the writer is a step of the promise or leaves it unchanged.
LEMMA StepKeepsPromise == IInv /\ [Next]_vars => [Promise!Next]_(Promise!vars)
<1> SUFFICES ASSUME IInv, [Next]_vars
             PROVE  [Promise!Next]_(Promise!vars)
  OBVIOUS
<1>1. CASE Enqueue
  <2>1. accepted' = accepted + 1 /\ settled' = settled
    BY <1>1 DEF Enqueue, workerVars
  <2>2. accepted - Len(settled) < QueueSize + BatchSize
    <3>1. Len(queue) < QueueSize
      BY <1>1, Counts, WriterAssumption DEF Enqueue, Full
    <3>2. accepted <= Len(settled) + Len(batch) + Len(queue)
      BY DEF IInv, Chain, Taken
    <3>3. Len(batch) <= BatchSize
      BY DEF IInv, TypeOK
    <3> QED
      BY <3>1, <3>2, <3>3, Counts, WriterAssumption
  <2> QED
    BY <2>1, <2>2 DEF Promise!Next, Promise!Accept, Promise!Pending
<1>2. CASE WriteSucceeds \/ WriteFails
  <2>1. PICK stored \in BOOLEAN : Settle(stored)
    BY <1>2 DEF WriteSucceeds, WriteFails
  <2>2. accepted' = accepted
    BY <1>2 DEF WriteSucceeds, WriteFails, producerVars
  <2>3. [i \in 1..Len(batch) |-> [n |-> batch[i], stored |-> stored]]
          = [i \in 1..Len(batch) |-> [n |-> Len(settled) + i, stored |-> stored]]
    BY DEF IInv, InOrder
  <2>4. CASE batch = <<>>
    <3>1. Len(batch) = 0
      BY <2>4, EmptySeq
    <3>2. [i \in 1..Len(batch) |-> [n |-> batch[i], stored |-> stored]] = <<>>
      BY <3>1
    <3>3. settled' = settled
      BY <2>1, <3>2, ConcatEmptySeq, Counts DEF Settle
    <3> QED
      BY <2>2, <3>3 DEF Promise!vars
  <2>5. CASE batch # <<>>
    <3>1. Len(batch) \in 1..(accepted - Len(settled))
      <4>1. Len(batch) >= 1
        BY <2>5, EmptySeq, Counts
      <4> QED
        BY <4>1, Counts DEF Taken
    <3>2. Promise!Settle(Len(batch), stored)
      BY <2>1, <2>2, <2>3 DEF Settle, Promise!Settle
    <3> QED
      BY <3>1, <3>2 DEF Promise!Next, Promise!Pending
  <2> QED
    BY <2>4, <2>5
<1>3. CASE ~Enqueue /\ ~WriteSucceeds /\ ~WriteFails
  <2>1. UNCHANGED <<accepted, settled>>
    BY <1>3 DEF Next, Producer, Flusher, Stopper, Worker, EnqueueDropped,
         FlushCheck, FlushPush, FlushTimesOut,
         ShutdownSetFlag, ShutdownExecutor, ShutdownEnds,
         Move, WorkerStart, LoopExit, LoopEnter, DrainGivesUp, PopFirst, PopMore,
         FillDone, SignalMarkers, Rescue, vars, producerVars, workerVars
  <2> QED
    BY <2>1 DEF Promise!vars
<1> QED
  BY <1>1, <1>2, <1>3

\* The Ruby writer is the bounded, ordered, settle-once channel that
\* WriterPromise describes.
THEOREM Refinement == Spec => ImplementsPromise
<1>1. Init => Promise!Init
  BY DEF Init, Promise!Init
<1> QED
  BY <1>1, Invariance, StepKeepsPromise, PTL DEF Spec, ImplementsPromise, Promise!Spec

=============================================================================
