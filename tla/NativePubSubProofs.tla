------------------------- MODULE NativePubSubProofs -------------------------
(***************************************************************************)
(* Proofs about NativePubSub, for any sessions, calls and writer sizes.    *)
(*                                                                         *)
(* The engine uses its writer only as NativeWriter lets an owner use one,  *)
(* so what NativeWriterProofs shows of every writer holds of this one.     *)
(* EInv adds the engine's own part: the queue at the lock and who has      *)
(* passed it, that nobody else inserts while a subscribe is connecting,    *)
(* and what the phases of a shutdown have left behind them.                *)
(***************************************************************************)
EXTENDS NativePubSub, SequenceTheorems, TLAPS

WriterProofs == INSTANCE NativeWriterProofs

\* The queue at the lock: the calls in progress, each once, and only the
\* first of them has passed it.
LockOK ==
    /\ lock \in Seq(Calls)
    /\ call \in [Calls -> Results \cup {"idle", "waiting", "connecting", "stopping"}]
    /\ \A i, j \in 1..Len(lock) : lock[i] = lock[j] => i = j
    /\ \A c \in Calls : InProgress(c) <=> \E i \in 1..Len(lock) : lock[i] = c
    /\ \A i \in 1..Len(lock) : call[lock[i]] # "waiting" => i = 1

MapOK ==
    /\ session \in [Calls -> Sessions]
    /\ subscribers \in [Sessions -> Subscribes \cup {None}]
    /\ task \in [Subscribes -> {"none", "running", "ended"}]
    /\ flag \in [Subscribes -> BOOLEAN]
    /\ NoTaskLeaks

\* Between the check of subscribe and its insert the session stays free.
ConnectingOK ==
    \A c \in Subscribes : call[c] = "connecting" => subscribers[session[c]] = None

\* The engine is taken from its callers only with no call in progress; the
\* map is empty before the writer is shut down, and that is the last step.
PhaseOK ==
    /\ engine \in {"open", "stopping", "flushing", "closed", "abandoned"}
    /\ engine # "open" => lock = <<>>
    /\ engine \in {"flushing", "closed"} => Emptied
    /\ engine = "closed" => owner = "returned"

EInv ==
    /\ LockOK
    /\ MapOK
    /\ ConnectingOK
    /\ PhaseOK

-----------------------------------------------------------------------------
(* The engine's writer is a NativeWriter.                                  *)

\* NativeWriterProofs speaks of the writer that NativePubSub instantiates.
LEMMA SameWriter ==
    /\ WriterProofs!NativeWriterAssumption
    /\ Writer!Init <=> WriterProofs!Init
    /\ [Writer!Next]_(Writer!vars) <=> [WriterProofs!Next]_(WriterProofs!vars)
    /\ Writer!TypeOK <=> WriterProofs!TypeOK
    /\ Writer!FlushWaitsForWrite <=> WriterProofs!FlushWaitsForWrite
    /\ Writer!ShutdownSettles <=> WriterProofs!ShutdownSettles
<1>1. WriterProofs!NativeWriterAssumption
  BY NativePubSubAssumption DEF WriterProofs!NativeWriterAssumption
<1>2. Writer!Init <=> WriterProofs!Init
  BY DEF Writer!Init, WriterProofs!Init
<1>3. [Writer!Next]_(Writer!vars) <=> [WriterProofs!Next]_(WriterProofs!vars)
  BY DEF
    Writer!Next, Writer!Enqueue, Writer!Flusher, Writer!FlushBegins,
    Writer!FlushSends, Writer!FlushCancelled, Writer!Owner,
    Writer!ShutdownBegins, Writer!ShutdownSends, Writer!ShutdownReturns,
    Writer!ShutdownCancelled, Writer!Drop, Writer!Worker, Writer!Receive,
    Writer!ReceiveMessage, Writer!ReceiveFlush, Writer!ReceiveShutdown,
    Writer!Received, Writer!Goto, Writer!ChannelClosed, Writer!Fill,
    Writer!FillDone, Writer!Drain, Writer!Write, Writer!Settle, Writer!Signal,
    Writer!Full, Writer!Borrowed, Writer!vars, Writer!workerVars, Writer!flushVars,
    WriterProofs!Next, WriterProofs!Enqueue, WriterProofs!Flusher,
    WriterProofs!FlushBegins, WriterProofs!FlushSends,
    WriterProofs!FlushCancelled, WriterProofs!Owner,
    WriterProofs!ShutdownBegins, WriterProofs!ShutdownSends,
    WriterProofs!ShutdownReturns, WriterProofs!ShutdownCancelled,
    WriterProofs!Drop, WriterProofs!Worker, WriterProofs!Receive,
    WriterProofs!ReceiveMessage, WriterProofs!ReceiveFlush,
    WriterProofs!ReceiveShutdown, WriterProofs!Received, WriterProofs!Goto,
    WriterProofs!ChannelClosed, WriterProofs!Fill, WriterProofs!FillDone,
    WriterProofs!Drain, WriterProofs!Write, WriterProofs!Settle,
    WriterProofs!Signal, WriterProofs!Full, WriterProofs!Borrowed,
    WriterProofs!vars, WriterProofs!workerVars, WriterProofs!flushVars
<1>4. Writer!TypeOK <=> WriterProofs!TypeOK
  BY DEF Writer!TypeOK, Writer!Command, Writer!Outcome,
         WriterProofs!TypeOK, WriterProofs!Command, WriterProofs!Outcome
<1>5. Writer!FlushWaitsForWrite <=> WriterProofs!FlushWaitsForWrite
  BY DEF Writer!FlushWaitsForWrite, WriterProofs!FlushWaitsForWrite
<1>6. Writer!ShutdownSettles <=> WriterProofs!ShutdownSettles
  BY DEF Writer!ShutdownSettles, WriterProofs!ShutdownSettles
<1> QED
  BY <1>1, <1>2, <1>3, <1>4, <1>5, <1>6

\* Each step of the engine is one of its writer's, or leaves it alone.
LEMMA StepOfWriter == [Next]_vars => [Writer!Next]_(Writer!vars)
<1> SUFFICES ASSUME [Next]_vars
             PROVE  [Writer!Next]_(Writer!vars)
  OBVIOUS
<1>1. UNCHANGED writerVars => UNCHANGED Writer!vars
  BY DEF writerVars, Writer!vars, Writer!workerVars, Writer!flushVars
<1>2. ASSUME NEW c \in Calls, Begin(c) \/ Cancel(c)
      PROVE  [Writer!Next]_(Writer!vars)
  BY <1>1, <1>2 DEF Begin, Cancel
<1>3. ASSUME NEW c \in Subscribes, Subscribe(c) \/ TaskSeesFlag(c) \/ TaskDies(c)
      PROVE  [Writer!Next]_(Writer!vars)
  BY <1>1, <1>3 DEF Subscribe, SubscribeChecks, SubscribeFails, SubscribeInserts,
                    TaskSeesFlag, TaskDies
<1>4. ASSUME NEW c \in Unsubscribes, Unsubscribe(c)
      PROVE  [Writer!Next]_(Writer!vars)
  BY <1>1, <1>4 DEF Unsubscribe, UnsubscribeRemoves, UnsubscribeReturns
<1>5. CASE ShutdownBegins \/ EngineShutdown \/ ShutdownCancelled \/ Drop
  BY <1>1, <1>5 DEF ShutdownBegins, EngineShutdown, ShutdownStopsOne,
     ShutdownFlushes, ShutdownSends, ShutdownReturns, ShutdownCancelled, Drop,
     Writer!Next, Writer!Owner
<1>6. CASE Broadcast \/ WriterTask
  BY <1>6 DEF Broadcast, WriterTask, Writer!Next
<1>7. ASSUME NEW f \in FlushCalls, FlushBegins(f) \/ FlushSends(f) \/ FlushCancelled(f)
      PROVE  [Writer!Next]_(Writer!vars)
  BY <1>7 DEF FlushBegins, FlushSends, FlushCancelled, Writer!Next, Writer!Flusher
<1>8. CASE UNCHANGED vars
  BY <1>1, <1>8 DEF vars
<1> QED
  BY <1>2, <1>3, <1>4, <1>5, <1>6, <1>7, <1>8 DEF Next

\* The engine is an owner of a writer as NativeWriter describes owners: its
\* calls borrow the writer, and its shutdown or its end consumes it.
THEOREM UsesWriter == Spec => Writer!Spec
<1>1. Init => Writer!Init
  BY DEF Init
<1> QED
  BY <1>1, StepOfWriter, PTL DEF Spec, Writer!Spec

\* So the engine's writer is a writer of NativeWriterProofs, whose theorems
\* hold of it.
LEMMA EngineIsWriter == Spec => WriterProofs!Spec
<1>1. Writer!Init => WriterProofs!Init
  BY SameWriter
<1>2. [Writer!Next]_(Writer!vars) => [WriterProofs!Next]_(WriterProofs!vars)
  BY SameWriter
<1>3. Writer!Spec => WriterProofs!Spec
  BY <1>1, <1>2, PTL DEF Writer!Spec, WriterProofs!Spec
<1> QED
  BY <1>3, UsesWriter, PTL

LEMMA WriterCorrect == Spec => [](Writer!TypeOK /\ Writer!ShutdownSettles)
<1>1. WriterProofs!NativeWriterAssumption
  BY SameWriter
<1>2. WriterProofs!Spec => []WriterProofs!TypeOK
  BY <1>1, WriterProofs!TypeCorrect
<1>3. WriterProofs!Spec => []WriterProofs!ShutdownSettles
  BY <1>1, WriterProofs!ShutdownCorrect
<1>4. /\ WriterProofs!TypeOK => Writer!TypeOK
      /\ WriterProofs!ShutdownSettles => Writer!ShutdownSettles
  BY SameWriter
<1> QED
  BY <1>2, <1>3, <1>4, EngineIsWriter, PTL

\* flush of the engine answers Ok only after the INSERT of every message the
\* engine had accepted before the flush command was sent.
THEOREM FlushCorrect == Spec => []Writer!FlushWaitsForWrite
<1>1. WriterProofs!NativeWriterAssumption
  BY SameWriter
<1>2. WriterProofs!Spec => []WriterProofs!FlushWaitsForWrite
  BY <1>1, WriterProofs!FlushCorrect
<1>3. WriterProofs!FlushWaitsForWrite => Writer!FlushWaitsForWrite
  BY SameWriter
<1> QED
  BY <1>2, <1>3, EngineIsWriter, PTL

\* However its calls are interleaved, cancelled or followed by a drop of the
\* engine, what the engine accepts is settled in order, once, a batch at a
\* time, and only as much waits in memory as channel and batch hold.
THEOREM Refinement == Spec => Writer!ImplementsPromise
<1>1. WriterProofs!NativeWriterAssumption
  BY SameWriter
<1>2. WriterProofs!Spec => WriterProofs!ImplementsPromise
  BY <1>1, WriterProofs!Refinement
<1>3. WriterProofs!Promise!Init => Writer!Promise!Init
  BY DEF WriterProofs!Promise!Init, Writer!Promise!Init
<1>4. [WriterProofs!Promise!Next]_(WriterProofs!Promise!vars)
        => [Writer!Promise!Next]_(Writer!Promise!vars)
  BY DEF WriterProofs!Promise!Next, WriterProofs!Promise!Accept,
         WriterProofs!Promise!Settle, WriterProofs!Promise!Pending,
         WriterProofs!Promise!vars, Writer!Promise!Next, Writer!Promise!Accept,
         Writer!Promise!Settle, Writer!Promise!Pending, Writer!Promise!vars
<1>5. WriterProofs!ImplementsPromise => Writer!ImplementsPromise
  BY <1>3, <1>4, PTL DEF WriterProofs!ImplementsPromise, WriterProofs!Promise!Spec,
                         Writer!ImplementsPromise, Writer!Promise!Spec
<1> QED
  BY <1>2, <1>5, EngineIsWriter, PTL

-----------------------------------------------------------------------------
(* The queue at the lock.                                                  *)

\* What is left of a sequence without its i-th place.
LEMMA WithoutPlace ==
    ASSUME NEW S, NEW q \in Seq(S), NEW i \in 1..Len(q)
    PROVE  LET r == SubSeq(q, 1, i - 1) \o SubSeq(q, i + 1, Len(q))
           IN  /\ r \in Seq(S)
               /\ Len(r) = Len(q) - 1
               /\ \A j \in 1..Len(r) : r[j] = IF j < i THEN q[j] ELSE q[j + 1]
<1> DEFINE a == SubSeq(q, 1, i - 1)
           b == SubSeq(q, i + 1, Len(q))
           r == a \o b
<1>1. Len(q) \in Nat /\ \A j \in 1..Len(q) : q[j] \in S
  BY LenProperties, ElementOfSeq
<1>2. /\ a \in Seq(S) /\ Len(a) = i - 1
      /\ \A j \in 1..(i - 1) : a[j] = q[j]
  <2>1. \A j \in 1..(i - 1) : q[j] \in S
    BY <1>1
  <2>2. /\ a \in Seq(S)
        /\ Len(a) = IF 1 <= i - 1 THEN (i - 1) - 1 + 1 ELSE 0
        /\ \A j \in 1..((i - 1) - 1 + 1) : a[j] = q[1 + j - 1]
    BY <2>1, SubSeqProperties
  <2> HIDE DEF a
  <2> QED
    BY <2>2, <1>1
<1>3. /\ b \in Seq(S) /\ Len(b) = Len(q) - i
      /\ \A j \in 1..(Len(q) - i) : b[j] = q[i + j]
  <2>1. \A j \in (i + 1)..Len(q) : q[j] \in S
    BY <1>1
  <2>2. /\ b \in Seq(S)
        /\ Len(b) = IF i + 1 <= Len(q) THEN Len(q) - (i + 1) + 1 ELSE 0
        /\ \A j \in 1..(Len(q) - (i + 1) + 1) : b[j] = q[(i + 1) + j - 1]
    BY <2>1, <1>1, SubSeqProperties
  <2> HIDE DEF b
  <2> QED
    BY <2>2, <1>1
<1> HIDE DEF a, b
<1>4. /\ r \in Seq(S)
      /\ Len(r) = Len(a) + Len(b)
      /\ \A j \in 1..(Len(a) + Len(b)) : r[j] =
           IF j <= Len(a) THEN a[j] ELSE b[j - Len(a)]
  BY <1>2, <1>3, ConcatProperties
<1>5. r \in Seq(S) /\ Len(r) = Len(q) - 1
  BY <1>1, <1>2, <1>3, <1>4
<1>6. \A j \in 1..Len(r) : r[j] = IF j < i THEN q[j] ELSE q[j + 1]
  <2> SUFFICES ASSUME NEW j \in 1..Len(r)
               PROVE  r[j] = IF j < i THEN q[j] ELSE q[j + 1]
    OBVIOUS
  <2>1. CASE j < i
    BY <2>1, <1>1, <1>2, <1>3, <1>4
  <2>2. CASE j >= i
    <3>1. /\ r[j] = b[j - Len(a)]
          /\ j - Len(a) \in 1..(Len(q) - i)
          /\ i + (j - Len(a)) = j + 1
      BY <2>2, <1>1, <1>2, <1>3, <1>4, <1>5
    <3>2. b[j - Len(a)] = q[i + (j - Len(a))]
      BY <3>1, <1>3
    <3>3. ~(j < i)
      BY <2>2, <1>1, <1>5
    <3> QED
      BY <3>1, <3>2, <3>3
  <2> QED
    BY <2>1, <2>2, <1>5
<1> QED
  BY <1>5, <1>6 DEF r, a, b

\* A call that begins takes the last place.
LEMMA BeginLock ==
    ASSUME LockOK, NEW c \in Calls, Begin(c)
    PROVE  LockOK'
<1>1. /\ call[c] = "idle"
      /\ call' = [call EXCEPT ![c] = "waiting"]
      /\ lock' = Append(lock, c)
      /\ lock \in Seq(Calls) /\ Len(lock) \in Nat
  BY LenProperties DEF Begin, LockOK
<1>2. /\ lock' \in Seq(Calls)
      /\ Len(lock') = Len(lock) + 1
      /\ \A i \in 1..Len(lock) : lock'[i] = lock[i]
      /\ lock'[Len(lock) + 1] = c
  BY <1>1, AppendProperties
<1>3. /\ call' \in [Calls -> Results \cup {"idle", "waiting", "connecting", "stopping"}]
      /\ \A d \in Calls : d # c => call'[d] = call[d]
      /\ call'[c] = "waiting"
  BY <1>1 DEF LockOK
<1>4. \A i \in 1..Len(lock) : lock[i] # c /\ lock[i] \in Calls
  <2>1. ~InProgress(c)
    BY <1>1 DEF InProgress
  <2> QED
    BY <2>1, <1>1, ElementOfSeq DEF LockOK
<1>5. \A i, j \in 1..Len(lock') : lock'[i] = lock'[j] => i = j
  <2>1. \A i \in 1..Len(lock') : i \in 1..Len(lock) \/ i = Len(lock) + 1
    BY <1>1, <1>2
  <2> QED
    BY <2>1, <1>2, <1>4 DEF LockOK
<1>6. \A d \in Calls : InProgress(d)' <=> \E i \in 1..Len(lock') : lock'[i] = d
  <2> SUFFICES ASSUME NEW d \in Calls
               PROVE  InProgress(d)' <=> \E i \in 1..Len(lock') : lock'[i] = d
    OBVIOUS
  <2>1. CASE d = c
    BY <2>1, <1>1, <1>2, <1>3 DEF InProgress
  <2>2. CASE d # c
    <3>1. InProgress(d)' <=> InProgress(d)
      BY <2>2, <1>3 DEF InProgress
    <3>2. (\E i \in 1..Len(lock') : lock'[i] = d) <=> \E i \in 1..Len(lock) : lock[i] = d
      BY <2>2, <1>1, <1>2
    <3> QED
      BY <3>1, <3>2 DEF LockOK
  <2> QED
    BY <2>1, <2>2
<1>7. \A i \in 1..Len(lock') : call'[lock'[i]] # "waiting" => i = 1
  <2> SUFFICES ASSUME NEW i \in 1..Len(lock'), call'[lock'[i]] # "waiting"
               PROVE  i = 1
    OBVIOUS
  <2>1. i \in 1..Len(lock)
    BY <1>1, <1>2, <1>3
  <2> QED
    BY <2>1, <1>2, <1>3, <1>4 DEF LockOK
<1> QED
  BY <1>2, <1>3, <1>5, <1>6, <1>7 DEF LockOK

\* The call at the head of the queue goes on while it holds the lock.
LEMMA AwaitLock ==
    ASSUME LockOK, NEW c \in Calls, NEW what \in {"connecting", "stopping"},
           Locked(c), Await(c, what)
    PROVE  LockOK'
<1>1. /\ call' = [call EXCEPT ![c] = what] /\ lock' = lock
      /\ call[c] = "waiting" /\ Head(lock) = c
      /\ lock \in Seq(Calls)
  BY DEF Locked, Await, LockOK
<1>2. /\ call' \in [Calls -> Results \cup {"idle", "waiting", "connecting", "stopping"}]
      /\ \A d \in Calls : d # c => call'[d] = call[d]
      /\ call'[c] = what
  BY <1>1 DEF LockOK
<1>3. lock[1] = c
  <2>1. \E i \in 1..Len(lock) : lock[i] = c
    BY <1>1 DEF LockOK, InProgress
  <2>2. lock # <<>>
    BY <2>1
  <2> QED
    BY <2>2, <1>1, HeadTailProperties
<1>4. \A d \in Calls : InProgress(d)' <=> InProgress(d)
  BY <1>1, <1>2 DEF InProgress
<1>5. \A i \in 1..Len(lock) : call'[lock[i]] # "waiting" => i = 1
  <2> SUFFICES ASSUME NEW i \in 1..Len(lock), call'[lock[i]] # "waiting"
               PROVE  i = 1
    OBVIOUS
  <2>1. lock[i] \in Calls /\ 1 \in 1..Len(lock)
    BY <1>1, ElementOfSeq
  <2>2. CASE lock[i] = c
    BY <2>1, <2>2, <1>3 DEF LockOK
  <2>3. CASE lock[i] # c
    BY <2>1, <2>3, <1>2 DEF LockOK
  <2> QED
    BY <2>2, <2>3
<1> QED
  BY <1>1, <1>2, <1>4, <1>5 DEF LockOK

\* A call that returns, or is cancelled, leaves the queue at its own place:
\* if it held the lock, the next one has it.
LEMMA ReturnLock ==
    ASSUME LockOK, NEW c \in Calls, NEW result \in Results, Return(c, result)
    PROVE  LockOK'
<1>1. PICK p \in 1..Len(lock) :
        /\ lock[p] = c
        /\ lock' = SubSeq(lock, 1, p - 1) \o SubSeq(lock, p + 1, Len(lock))
  BY DEF Return
<1>2. lock \in Seq(Calls) /\ Len(lock) \in Nat
  BY LenProperties DEF LockOK
<1>3. /\ lock' \in Seq(Calls)
      /\ Len(lock') = Len(lock) - 1
      /\ \A j \in 1..Len(lock') : lock'[j] = IF j < p THEN lock[j] ELSE lock[j + 1]
  BY <1>1, <1>2, WithoutPlace
<1>4. /\ call' \in [Calls -> Results \cup {"idle", "waiting", "connecting", "stopping"}]
      /\ \A d \in Calls : d # c => call'[d] = call[d]
      /\ call'[c] = result
  BY DEF Return, LockOK
<1>5. \A j \in 1..Len(lock') :
        \E k \in 1..Len(lock) :
          /\ k = IF j < p THEN j ELSE j + 1
          /\ lock'[j] = lock[k]
          /\ lock[k] # c
          /\ lock[k] \in Calls
  <2> SUFFICES ASSUME NEW j \in 1..Len(lock')
               PROVE  \E k \in 1..Len(lock) :
                        /\ k = IF j < p THEN j ELSE j + 1
                        /\ lock'[j] = lock[k]
                        /\ lock[k] # c
                        /\ lock[k] \in Calls
    OBVIOUS
  <2> DEFINE k == IF j < p THEN j ELSE j + 1
  <2>1. k \in 1..Len(lock) /\ k # p /\ lock'[j] = lock[k]
    BY <1>2, <1>3
  <2> HIDE DEF k
  <2>2. lock[k] # c
    BY <2>1, <1>1 DEF LockOK
  <2>3. lock[k] \in Calls
    BY <2>1, <1>2, ElementOfSeq
  <2> QED
    BY <2>1, <2>2, <2>3 DEF k
<1>6. \A i, j \in 1..Len(lock') : lock'[i] = lock'[j] => i = j
  <2> SUFFICES ASSUME NEW i \in 1..Len(lock'), NEW j \in 1..Len(lock'),
                      lock'[i] = lock'[j]
               PROVE  i = j
    OBVIOUS
  <2>1. PICK k \in 1..Len(lock) :
          k = (IF i < p THEN i ELSE i + 1) /\ lock'[i] = lock[k]
    BY <1>5
  <2>2. PICK l \in 1..Len(lock) :
          l = (IF j < p THEN j ELSE j + 1) /\ lock'[j] = lock[l]
    BY <1>5
  <2>3. k = l
    BY <2>1, <2>2 DEF LockOK
  <2> QED
    BY <2>1, <2>2, <2>3
<1>7. \A d \in Calls : InProgress(d)' <=> \E i \in 1..Len(lock') : lock'[i] = d
  <2> SUFFICES ASSUME NEW d \in Calls
               PROVE  InProgress(d)' <=> \E i \in 1..Len(lock') : lock'[i] = d
    OBVIOUS
  <2>1. CASE d = c
    <3>1. ~InProgress(d)'
      BY <2>1, <1>4 DEF InProgress, Results
    <3> QED
      BY <3>1, <2>1, <1>5
  <2>2. CASE d # c
    <3>1. InProgress(d)' <=> \E k \in 1..Len(lock) : lock[k] = d
      BY <2>2, <1>4 DEF InProgress, LockOK
    <3>2. ASSUME NEW k \in 1..Len(lock), lock[k] = d
          PROVE  \E i \in 1..Len(lock') : lock'[i] = d
      <4>1. k # p
        BY <3>2, <2>2, <1>1
      <4>2. CASE k < p
        <5>1. k \in 1..Len(lock') /\ lock'[k] = lock[k]
          BY <4>2, <1>2, <1>3
        <5> QED
          BY <5>1, <3>2
      <4>3. CASE k > p
        <5>1. k - 1 \in 1..Len(lock') /\ lock'[k - 1] = lock[(k - 1) + 1]
          BY <4>3, <1>2, <1>3
        <5>2. (k - 1) + 1 = k
          OBVIOUS
        <5> QED
          BY <5>1, <5>2, <3>2
      <4> QED
        BY <4>1, <4>2, <4>3
    <3> QED
      BY <3>1, <3>2, <1>5
  <2> QED
    BY <2>1, <2>2
<1>8. \A i \in 1..Len(lock') : call'[lock'[i]] # "waiting" => i = 1
  <2> SUFFICES ASSUME NEW i \in 1..Len(lock'), call'[lock'[i]] # "waiting"
               PROVE  i = 1
    OBVIOUS
  <2>1. PICK k \in 1..Len(lock) :
          /\ k = IF i < p THEN i ELSE i + 1
          /\ lock'[i] = lock[k]
          /\ lock[k] # c
          /\ lock[k] \in Calls
    BY <1>5
  <2>2. k = 1
    BY <2>1, <1>4 DEF LockOK
  <2> QED
    BY <2>1, <2>2
<1> QED
  BY <1>3, <1>4, <1>6, <1>7, <1>8 DEF LockOK

-----------------------------------------------------------------------------
(* EInv is inductive.                                                      *)

\* A new engine satisfies the invariant.
LEMMA InitEInv == Init => EInv
<1> SUFFICES ASSUME Init
             PROVE  EInv
  OBVIOUS
<1> USE DEF Init
<1>1. LockOK
  BY EmptySeq DEF LockOK, InProgress, Results
<1>2. MapOK
  BY DEF MapOK, NoTaskLeaks, Calls
<1>3. ConnectingOK /\ PhaseOK
  BY DEF ConnectingOK, PhaseOK, Calls
<1> QED
  BY <1>1, <1>2, <1>3 DEF EInv

\* A call in progress borrows the engine.
LEMMA Borrows ==
    ASSUME EInv, NEW c \in Calls, InProgress(c)
    PROVE  engine = "open"
<1>1. PICK i \in 1..Len(lock) : lock[i] = c
  BY DEF EInv, LockOK
<1>2. lock # <<>>
  BY <1>1, EmptySeq
<1> QED
  BY <1>2 DEF EInv, PhaseOK

\* At most one call at a time has passed the lock, and none while another is
\* about to.
LEMMA Exclusive ==
    ASSUME LockOK, NEW c \in Calls, Locked(c) \/ call[c] \in {"connecting", "stopping"}
    PROVE  \A d \in Calls : call[d] = "connecting" => d = c
<1> SUFFICES ASSUME NEW d \in Calls, call[d] = "connecting"
             PROVE  d = c
  OBVIOUS
<1>1. lock \in Seq(Calls)
  BY DEF LockOK
<1>2. PICK i \in 1..Len(lock) : lock[i] = c
  BY DEF LockOK, InProgress, Locked
<1>3. PICK j \in 1..Len(lock) : lock[j] = d
  BY DEF LockOK, InProgress
<1>4. j = 1
  BY <1>3 DEF LockOK
<1>5. lock[1] = c
  <2>1. CASE Locked(c)
    <3>1. lock # <<>>
      BY <1>2, EmptySeq
    <3> QED
      BY <3>1, <2>1, <1>1, HeadTailProperties DEF Locked
  <2>2. CASE call[c] \in {"connecting", "stopping"}
    BY <2>2, <1>2 DEF LockOK
  <2> QED
    BY <2>1, <2>2
<1> QED
  BY <1>3, <1>4, <1>5

\* The steps of a call that touch neither the map nor a task.
LEMMA CallMovesEInv ==
    ASSUME EInv, NEW c \in Calls,
           \/ Begin(c)
           \/ Cancel(c)
           \/ SubscribeChecks(c)
           \/ SubscribeFails(c)
           \/ UnsubscribeReturns(c)
    PROVE  EInv'
<1>1. UNCHANGED <<engine, session, subscribers, task, flag, owner>>
  BY DEF Begin, Cancel, SubscribeChecks, SubscribeFails, UnsubscribeReturns,
         taskVars, writerVars
<1>2. engine = "open"
  BY Borrows DEF Begin, Cancel, SubscribeChecks, SubscribeFails,
     UnsubscribeReturns, Locked, InProgress
<1>3. LockOK'
  <2>1. CASE Begin(c)
    BY <2>1, BeginLock DEF EInv
  <2>2. CASE Cancel(c)
    BY <2>2, ReturnLock DEF EInv, Cancel, Results
  <2>3. CASE SubscribeChecks(c)
    BY <2>3, AwaitLock, ReturnLock DEF EInv, SubscribeChecks, Results
  <2>4. CASE SubscribeFails(c) \/ UnsubscribeReturns(c)
    BY <2>4, ReturnLock DEF EInv, SubscribeFails, UnsubscribeReturns, Results
  <2> QED
    BY <2>1, <2>2, <2>3, <2>4
<1>4. MapOK'
  BY <1>1 DEF EInv, MapOK, NoTaskLeaks
<1>5. ConnectingOK'
  <2> SUFFICES ASSUME NEW d \in Subscribes, call'[d] = "connecting"
               PROVE  subscribers[session[d]] = None
    BY <1>1 DEF ConnectingOK
  <2>1. CASE call[d] = "connecting"
    BY <2>1 DEF EInv, ConnectingOK
  <2>2. CASE call[d] # "connecting"
    BY <2>2 DEF EInv, LockOK, Begin, Cancel, SubscribeChecks, SubscribeFails,
       UnsubscribeReturns, Await, Return, Calls
  <2> QED
    BY <2>1, <2>2
<1>6. PhaseOK'
  BY <1>1, <1>2 DEF PhaseOK
<1> QED
  BY <1>3, <1>4, <1>5, <1>6 DEF EInv

\* subscribe inserts into a place it found free and kept locked.
LEMMA SubscribeInsertsEInv ==
    ASSUME EInv, NEW c \in Subscribes, SubscribeInserts(c)
    PROVE  EInv'
<1>1. /\ c \in Calls
      /\ call[c] = "connecting"
      /\ task' = [task EXCEPT ![c] = "running"]
      /\ subscribers' = [subscribers EXCEPT ![session[c]] = c]
      /\ call' = [call EXCEPT ![c] = "ok"]
      /\ UNCHANGED <<engine, session, flag, owner>>
  BY DEF SubscribeInserts, Return, Calls, writerVars
<1>2. engine = "open"
  BY <1>1, Borrows DEF InProgress
<1>3. LockOK'
  BY <1>1, ReturnLock DEF EInv, SubscribeInserts, Results
<1>4. subscribers[session[c]] = None
  BY <1>1 DEF EInv, ConnectingOK
<1>5. MapOK'
  <2>1. /\ session[c] \in Sessions
        /\ subscribers \in [Sessions -> Subscribes \cup {None}]
        /\ task \in [Subscribes -> {"none", "running", "ended"}]
        /\ \A s \in Subscribes : session[s] \in Sessions
    BY <1>1 DEF EInv, MapOK, Calls
  <2>2. NoTaskLeaks'
    <3> SUFFICES ASSUME NEW s \in Subscribes, task'[s] = "running", ~flag[s]
                 PROVE  subscribers'[session[s]] = s
      BY <1>1 DEF NoTaskLeaks
    <3>1. CASE s = c
      BY <3>1, <2>1, <1>1
    <3>2. CASE s # c
      <4>1. subscribers[session[s]] = s
        BY <3>2, <2>1, <1>1, <1>2 DEF EInv, MapOK, NoTaskLeaks
      <4>2. session[s] # session[c]
        BY <4>1, <1>4, NativePubSubAssumption
      <4> QED
        BY <4>1, <4>2, <2>1, <1>1
    <3> QED
      BY <3>1, <3>2
  <2> QED
    BY <2>1, <2>2, <1>1 DEF EInv, MapOK
<1>6. ConnectingOK'
  <2>1. \A d \in Subscribes : call[d] = "connecting" => d = c
    BY <1>1, Exclusive DEF EInv, Calls
  <2>2. call'[c] = "ok" /\ \A d \in Calls : d # c => call'[d] = call[d]
    BY <1>1 DEF EInv, LockOK
  <2> QED
    BY <2>1, <2>2 DEF ConnectingOK, Calls
<1>7. PhaseOK'
  BY <1>1, <1>2 DEF PhaseOK
<1> QED
  BY <1>3, <1>5, <1>6, <1>7 DEF EInv

\* Taking a subscriber out of the map leaves no task beyond reach when its
\* flag is set in the same step.
LEMMA Removed ==
    ASSUME MapOK, engine # "abandoned", NEW x \in Sessions, subscribers[x] # None,
           subscribers' = [subscribers EXCEPT ![x] = None],
           flag' = [flag EXCEPT ![subscribers[x]] = TRUE],
           UNCHANGED <<session, task>>
    PROVE  MapOK'
<1>1. /\ subscribers \in [Sessions -> Subscribes \cup {None}]
      /\ flag \in [Subscribes -> BOOLEAN]
      /\ subscribers[x] \in Subscribes
      /\ \A s \in Subscribes : session[s] \in Sessions
  BY DEF MapOK, Calls
<1>2. NoTaskLeaks'
  <2> SUFFICES ASSUME NEW s \in Subscribes, task[s] = "running", ~flag'[s]
               PROVE  subscribers'[session[s]] = s
    BY DEF NoTaskLeaks
  <2>1. s # subscribers[x] /\ ~flag[s]
    BY <1>1
  <2>2. subscribers[session[s]] = s
    BY <2>1 DEF MapOK, NoTaskLeaks
  <2>3. session[s] # x
    BY <2>1, <2>2
  <2> QED
    BY <2>2, <2>3, <1>1
<1>3. /\ subscribers' \in [Sessions -> Subscribes \cup {None}]
      /\ flag' \in [Subscribes -> BOOLEAN]
  BY <1>1
<1> QED
  BY <1>2, <1>3 DEF MapOK

\* unsubscribe removes while it holds the lock: no subscribe is connecting.
LEMMA UnsubscribeRemovesEInv ==
    ASSUME EInv, NEW c \in Unsubscribes, UnsubscribeRemoves(c)
    PROVE  EInv'
<1>1. c \in Calls /\ Locked(c) /\ UNCHANGED <<engine, session, task, owner>>
  BY DEF UnsubscribeRemoves, Calls, writerVars
<1>2. engine = "open"
  BY <1>1, Borrows DEF InProgress, Locked
<1> DEFINE s == subscribers[session[c]]
<1>3. LockOK'
  BY <1>1, AwaitLock, ReturnLock DEF EInv, UnsubscribeRemoves, Results
<1>4. MapOK'
  <2>1. CASE s = None
    <3>1. UNCHANGED <<subscribers, flag>>
      BY <2>1 DEF UnsubscribeRemoves
    <3> QED
      BY <3>1, <1>1 DEF EInv, MapOK, NoTaskLeaks
  <2>2. CASE s # None
    <3>1. /\ session[c] \in Sessions
          /\ subscribers' = [subscribers EXCEPT ![session[c]] = None]
          /\ flag' = [flag EXCEPT ![subscribers[session[c]]] = TRUE]
      BY <2>2, <1>1 DEF UnsubscribeRemoves, EInv, MapOK
    <3> QED
      BY <3>1, <2>2, <1>1, <1>2, Removed DEF EInv
  <2> QED
    BY <2>1, <2>2
<1>5. ConnectingOK'
  <2>1. \A d \in Calls : call[d] # "connecting"
    BY <1>1, Exclusive DEF EInv, Locked
  <2>2. \/ call' = [call EXCEPT ![c] = "ok"]
        \/ call' = [call EXCEPT ![c] = "stopping"]
    BY DEF UnsubscribeRemoves, Await, Return
  <2>3. \A d \in Calls : call'[d] # "connecting"
    BY <2>1, <2>2 DEF EInv, LockOK
  <2> QED
    BY <2>3 DEF ConnectingOK, Calls
<1>6. PhaseOK'
  BY <1>1, <1>2 DEF PhaseOK
<1> QED
  BY <1>3, <1>4, <1>5, <1>6 DEF EInv

\* Without a call in progress nobody is connecting.
LEMMA Quiet ==
    ASSUME EInv, lock = <<>>
    PROVE  \A c \in Calls : ~InProgress(c)
BY EmptySeq DEF EInv, LockOK

\* The steps of the engine's end.
LEMMA EngineEndsEInv ==
    ASSUME EInv,
           \/ ShutdownBegins
           \/ ShutdownStopsOne
           \/ ShutdownFlushes
           \/ ShutdownReturns
           \/ ShutdownCancelled
           \/ Drop
    PROVE  EInv'
<1>1. UNCHANGED <<lock, call, session, task>>
  BY DEF ShutdownBegins, ShutdownStopsOne, ShutdownFlushes, ShutdownReturns,
         ShutdownCancelled, Drop, Abandon, callVars, taskVars
<1>2. lock = <<>>
  BY DEF EInv, PhaseOK, ShutdownBegins, ShutdownStopsOne, ShutdownFlushes,
         ShutdownReturns, ShutdownCancelled, Drop, Unborrowed
<1>3. engine \notin {"closed", "abandoned"}
  BY DEF ShutdownBegins, ShutdownStopsOne, ShutdownFlushes,
         ShutdownReturns, ShutdownCancelled, Drop
<1>4. LockOK'
  BY <1>1 DEF EInv, LockOK, InProgress
<1>5. ConnectingOK'
  BY <1>1, <1>2, Quiet DEF ConnectingOK, InProgress, Calls
<1>6. MapOK'
  <2>1. CASE ShutdownStopsOne
    BY <2>1, <1>1, <1>3, Removed DEF ShutdownStopsOne, EInv
  <2>2. CASE ShutdownBegins \/ ShutdownFlushes \/ ShutdownReturns
    BY <2>2, <1>3 DEF EInv, MapOK, NoTaskLeaks, ShutdownBegins, ShutdownFlushes,
       ShutdownReturns, callVars, taskVars
  <2>3. CASE ShutdownCancelled \/ Drop
    BY <2>3 DEF EInv, MapOK, NoTaskLeaks, ShutdownCancelled, Drop, Abandon,
       callVars, taskVars
  <2> QED
    BY <2>1, <2>2, <2>3
<1>7. PhaseOK'
  <2>1. CASE ShutdownBegins \/ ShutdownStopsOne
    BY <2>1, <1>1, <1>2 DEF PhaseOK, ShutdownBegins, ShutdownStopsOne
  <2>2. CASE ShutdownFlushes
    BY <2>2, <1>1, <1>2 DEF PhaseOK, ShutdownFlushes, Emptied
  <2>3. CASE ShutdownReturns
    BY <2>3, <1>1, <1>2
       DEF EInv, PhaseOK, ShutdownReturns, Writer!ShutdownReturns, Emptied
  <2>4. CASE ShutdownCancelled \/ Drop
    BY <2>4, <1>1, <1>2 DEF PhaseOK, ShutdownCancelled, Drop, Abandon
  <2> QED
    BY <2>1, <2>2, <2>3, <2>4
<1> QED
  BY <1>4, <1>5, <1>6, <1>7 DEF EInv

\* A subscriber's task ends, told to or not; the writer and its callers work
\* on: the engine's own state is as before.
LEMMA OthersEInv ==
    ASSUME EInv,
           \/ \E s \in Subscribes : TaskSeesFlag(s) \/ TaskDies(s)
           \/ Broadcast
           \/ \E f \in FlushCalls : FlushBegins(f) \/ FlushSends(f) \/ FlushCancelled(f)
           \/ ShutdownSends
           \/ WriterTask
           \/ UNCHANGED vars
    PROVE  EInv'
<1>1. /\ UNCHANGED <<engine, lock, call, session, subscribers, flag>>
      /\ task' \in [Subscribes -> {"none", "running", "ended"}]
      /\ \A s \in Subscribes : task'[s] = "running" => task[s] = "running"
  BY DEF TaskSeesFlag, TaskDies, Broadcast, FlushBegins, FlushSends,
         FlushCancelled, ShutdownSends, WriterTask, Rest, vars, callVars, taskVars,
         EInv, MapOK
<1>2. owner = "returned" => owner' = "returned"
  BY DEF TaskSeesFlag, TaskDies, Broadcast, FlushBegins, FlushSends,
         FlushCancelled, ShutdownSends, WriterTask, vars, writerVars,
         Writer!Enqueue, Writer!FlushBegins, Writer!FlushSends,
         Writer!FlushCancelled, Writer!ShutdownSends, Writer!Worker,
         Writer!Receive, Writer!ReceiveMessage, Writer!ReceiveFlush,
         Writer!ReceiveShutdown, Writer!ChannelClosed, Writer!Fill,
         Writer!FillDone, Writer!Drain, Writer!Write, Writer!Signal
<1>3. LockOK' /\ ConnectingOK'
  BY <1>1 DEF EInv, LockOK, ConnectingOK, InProgress
<1>4. MapOK'
  BY <1>1 DEF EInv, MapOK, NoTaskLeaks
<1>5. PhaseOK'
  BY <1>1, <1>2 DEF EInv, PhaseOK, Emptied
<1> QED
  BY <1>3, <1>4, <1>5 DEF EInv

\* Every step of the engine preserves the invariant.
LEMMA NextEInv == EInv /\ [Next]_vars => EInv'
<1> SUFFICES ASSUME EInv, [Next]_vars
             PROVE  EInv'
  OBVIOUS
<1>1. ASSUME NEW c \in Calls, Begin(c) \/ Cancel(c)
      PROVE  EInv'
  BY <1>1, CallMovesEInv
<1>2. ASSUME NEW c \in Subscribes, Subscribe(c)
      PROVE  EInv'
  BY <1>2, CallMovesEInv, SubscribeInsertsEInv DEF Subscribe, Calls
<1>3. ASSUME NEW c \in Unsubscribes, Unsubscribe(c)
      PROVE  EInv'
  BY <1>3, CallMovesEInv, UnsubscribeRemovesEInv DEF Unsubscribe, Calls
<1>4. CASE ShutdownBegins \/ ShutdownCancelled \/ Drop
  BY <1>4, EngineEndsEInv
<1>5. CASE EngineShutdown
  BY <1>5, EngineEndsEInv, OthersEInv DEF EngineShutdown
<1>6. CASE \/ \E s \in Subscribes : TaskSeesFlag(s) \/ TaskDies(s)
           \/ Broadcast
           \/ \E f \in FlushCalls : FlushBegins(f) \/ FlushSends(f) \/ FlushCancelled(f)
           \/ WriterTask
           \/ UNCHANGED vars
  BY <1>6, OthersEInv
<1> QED
  BY <1>1, <1>2, <1>3, <1>4, <1>5, <1>6 DEF Next

\* The inductive invariant holds in every state of the engine.
THEOREM Invariance == Spec => []EInv
<1> QED
  BY InitEInv, NextEInv, PTL DEF Spec

-----------------------------------------------------------------------------
(* What follows from the invariant.                                        *)

\* The engine's state and its writer's have their types; the queue at the
\* lock is the calls in progress, and only its head has passed the lock.
THEOREM TypeCorrect == Spec => []TypeOK
<1>1. EInv /\ Writer!TypeOK => TypeOK
  BY DEF EInv, LockOK, MapOK, PhaseOK, TypeOK
<1> QED
  BY <1>1, Invariance, WriterCorrect, PTL

\* No call of subscribe or unsubscribe, wherever it is cancelled, leaves a
\* task that runs, was not told to stop, and is not in the map.
THEOREM TasksInReach == Spec => []NoTaskLeaks
<1>1. EInv => NoTaskLeaks
  BY DEF EInv, MapOK
<1> QED
  BY <1>1, Invariance, PTL

\* When the engine's shutdown has returned every subscriber was told to stop
\* and every message it accepted has had its INSERT.
THEOREM ShutdownCorrect == Spec => []ShutdownIsComplete
<1>1. EInv /\ Writer!ShutdownSettles => ShutdownIsComplete
  <2> SUFFICES ASSUME EInv, Writer!ShutdownSettles, engine = "closed"
               PROVE  /\ \A s \in Subscribes : task[s] = "running" => flag[s]
                      /\ Len(settled) = accepted
    BY DEF ShutdownIsComplete
  <2>1. ASSUME NEW s \in Subscribes, task[s] = "running"
        PROVE  flag[s]
    <3>1. session[s] \in Sessions
      BY DEF EInv, MapOK, Calls
    <3>2. subscribers[session[s]] = None
      BY <3>1 DEF EInv, PhaseOK, Emptied
    <3> QED
      BY <3>2, <2>1, NativePubSubAssumption DEF EInv, MapOK, NoTaskLeaks
  <2>2. Len(settled) = accepted
    BY DEF EInv, PhaseOK, Writer!ShutdownSettles
  <2> QED
    BY <2>1, <2>2
<1> QED
  BY <1>1, Invariance, WriterCorrect, PTL

=============================================================================
