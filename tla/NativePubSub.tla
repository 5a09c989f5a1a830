---------------------------- MODULE NativePubSub ----------------------------
(***************************************************************************)
(* ext/solid_mcp_native/core/src/pubsub.rs: an engine that owns a writer   *)
(* (NativeWriter, instantiated) and, behind one RwLock, a map from the     *)
(* sessions to their subscribers.                                          *)
(*                                                                         *)
(* subscribe and unsubscribe keep the lock over an await: of the highest   *)
(* id, and of the end of a task.  Waiting calls get the lock in the order  *)
(* they asked for it (tokio's RwLock is fair).  The caller may drop the    *)
(* future of any call at any await.  shutdown takes the engine by value    *)
(* and needs no lock; like a drop it happens only while no call borrows    *)
(* the engine.  is_subscribed and subscription_count change nothing.       *)
(*                                                                         *)
(* A subscriber is named after the subscribe call that made it.  Of its    *)
(* task only this matters here: it runs until it sees its flag, or until   *)
(* it dies by itself (see NativeSubscriber).                               *)
(***************************************************************************)
EXTENDS Naturals, Sequences, FiniteSets

CONSTANTS
    Sessions,
    Subscribes,          \* calls of subscribe
    Unsubscribes,        \* calls of unsubscribe
    None,                \* no subscriber
    QueueSize, BatchSize, FlushCalls, Message, Shutdown, MaxAccepted

ASSUME NativePubSubAssumption ==
    /\ Subscribes \cap Unsubscribes = {}
    /\ None \notin Subscribes
    /\ QueueSize \in Nat \ {0}
    /\ BatchSize \in Nat \ {0}
    /\ Message # Shutdown
    /\ {Message, Shutdown} \cap FlushCalls = {}
    /\ MaxAccepted \in Nat

VARIABLES
    engine,              \* what its owner does with the engine
    lock,                \* calls that hold or want the lock: the first holds it
    call,                \* progress of each call
    session,             \* the session each call is about
    subscribers,         \* the map: session to subscriber, or None
    task,                \* what each subscriber's task does
    flag                 \* each subscriber's shutdown flag

VARIABLES channel, accepted, worker, batch, waiters, settled, flush, mark, owner

Writer == INSTANCE NativeWriter

callVars == <<lock, call, session>>
taskVars == <<task, flag>>
writerVars == <<channel, accepted, worker, batch, waiters, settled, flush, mark, owner>>
vars == <<engine, callVars, subscribers, taskVars, writerVars>>

Calls == Subscribes \cup Unsubscribes

Init ==
    /\ Writer!Init
    /\ engine = "open"
    /\ lock = <<>>
    /\ call = [c \in Calls |-> "idle"]
    /\ session \in [Calls -> Sessions]
    /\ subscribers = [x \in Sessions |-> None]
    /\ task = [s \in Subscribes |-> "none"]
    /\ flag = [s \in Subscribes |-> FALSE]

-----------------------------------------------------------------------------
(* The calls that take the write lock.                                     *)

Begin(c) ==
    /\ engine = "open"
    /\ call[c] = "idle"
    /\ call' = [call EXCEPT ![c] = "waiting"]
    /\ lock' = Append(lock, c)
    /\ UNCHANGED <<engine, session, subscribers, taskVars, writerVars>>

\* The call waits for the lock no longer: it has it.
Locked(c) == call[c] = "waiting" /\ Head(lock) = c

Await(c, what) == call' = [call EXCEPT ![c] = what] /\ UNCHANGED lock

\* The guard of the lock is dropped with the call's future.
Return(c, result) ==
    /\ call' = [call EXCEPT ![c] = result]
    /\ \E i \in 1..Len(lock) :
         /\ lock[i] = c
         /\ lock' = SubSeq(lock, 1, i - 1) \o SubSeq(lock, i + 1, Len(lock))

SubscribeChecks(c) ==
    /\ Locked(c)
    /\ IF subscribers[session[c]] = None THEN Await(c, "connecting")
                                         ELSE Return(c, "error")
    /\ UNCHANGED <<engine, session, subscribers, taskVars, writerVars>>

\* max_id failed in Subscriber::new.
SubscribeFails(c) ==
    /\ call[c] = "connecting"
    /\ Return(c, "error")
    /\ UNCHANGED <<engine, session, subscribers, taskVars, writerVars>>

\* Subscriber::new has spawned the task, and the map takes the subscriber.
SubscribeInserts(c) ==
    /\ call[c] = "connecting"
    /\ task' = [task EXCEPT ![c] = "running"]
    /\ subscribers' = [subscribers EXCEPT ![session[c]] = c]
    /\ Return(c, "ok")
    /\ UNCHANGED <<engine, session, flag, writerVars>>

\* Mutant: stop waits for the task before it sets the flag.
UnsubscribeRemovesOnly(c) ==
    /\ Locked(c)
    /\ subscribers' = [subscribers EXCEPT ![session[c]] = None]
    /\ IF subscribers[session[c]] = None THEN Return(c, "ok")
                                         ELSE Await(c, "stopping")
    /\ UNCHANGED <<engine, session, taskVars, writerVars>>

\* The subscriber is out of the map and its flag is set before stop awaits.
UnsubscribeRemoves(c) ==
    /\ Locked(c)
    /\ LET s == subscribers[session[c]]
       IN  IF s = None
           THEN Return(c, "ok") /\ UNCHANGED <<subscribers, flag>>
           ELSE /\ subscribers' = [subscribers EXCEPT ![session[c]] = None]
                /\ flag' = [flag EXCEPT ![s] = TRUE]
                /\ Await(c, "stopping")
    /\ UNCHANGED <<engine, session, task, writerVars>>

\* The task has ended, or five seconds have passed.
UnsubscribeReturns(c) ==
    /\ call[c] = "stopping"
    /\ Return(c, "ok")
    /\ UNCHANGED <<engine, session, subscribers, taskVars, writerVars>>

InProgress(c) == call[c] \in {"waiting", "connecting", "stopping"}

\* Mutant: a cancelled call keeps its place at the lock.
CancelKeepsLock(c) ==
    /\ InProgress(c)
    /\ call' = [call EXCEPT ![c] = "cancelled"]
    /\ UNCHANGED <<engine, lock, session, subscribers, taskVars, writerVars>>

Cancel(c) ==
    /\ InProgress(c)
    /\ Return(c, "cancelled")
    /\ UNCHANGED <<engine, session, subscribers, taskVars, writerVars>>

-----------------------------------------------------------------------------
(* The end of the engine.  Its writer is an Arc that nobody else clones,   *)
(* so shutdown always gets the writer out of it.                           *)

Unborrowed == lock = <<>> /\ ~Writer!Borrowed

ShutdownBegins ==
    /\ engine = "open"
    /\ Unborrowed
    /\ engine' = "stopping"
    /\ UNCHANGED <<callVars, subscribers, taskVars, writerVars>>

\* One round of the loop over subscribers.drain(): the flag is set, and the
\* wait for the task ends with it or after five seconds.
ShutdownStopsOne ==
    /\ engine = "stopping"
    /\ \E x \in Sessions :
         /\ subscribers[x] # None
         /\ subscribers' = [subscribers EXCEPT ![x] = None]
         /\ flag' = [flag EXCEPT ![subscribers[x]] = TRUE]
    /\ UNCHANGED <<engine, callVars, task, writerVars>>

Emptied == \A x \in Sessions : subscribers[x] = None

\* Mutant: the writer is dropped where it should be shut down.
ShutdownDropsWriter ==
    /\ engine = "stopping"
    /\ Emptied
    /\ engine' = "closed"
    /\ Writer!Drop
    /\ UNCHANGED <<callVars, subscribers, taskVars>>

ShutdownFlushes ==
    /\ engine = "stopping"
    /\ Emptied
    /\ engine' = "flushing"
    /\ Writer!ShutdownBegins
    /\ UNCHANGED <<callVars, subscribers, taskVars>>

ShutdownReturns ==
    /\ engine = "flushing"
    /\ engine' = "closed"
    /\ Writer!ShutdownReturns
    /\ UNCHANGED <<callVars, subscribers, taskVars>>

\* What is left goes with the engine: a subscriber's task is detached, and
\* nothing will set its flag any more.
Abandon ==
    /\ engine' = "abandoned"
    /\ subscribers' = [x \in Sessions |-> None]
    /\ UNCHANGED <<callVars, taskVars>>

ShutdownCancelled ==
    /\ \/ engine = "stopping" /\ Writer!Drop
       \/ engine = "flushing" /\ Writer!ShutdownCancelled
    /\ Abandon

\* Mutant: dropping the engine leaves somebody else with the writer.
DropKeepsWriter ==
    /\ engine = "open"
    /\ Unborrowed
    /\ Abandon
    /\ UNCHANGED writerVars

Drop ==
    /\ engine = "open"
    /\ Unborrowed
    /\ Writer!Drop
    /\ Abandon

-----------------------------------------------------------------------------
(* The subscribers' tasks; broadcast, flush and the writer's task.         *)

TaskSeesFlag(s) ==
    /\ task[s] = "running"
    /\ flag[s]
    /\ task' = [task EXCEPT ![s] = "ended"]
    /\ UNCHANGED <<engine, callVars, subscribers, flag, writerVars>>

\* The callback panicked or the listener failed: the map is not told.
TaskDies(s) ==
    /\ task[s] = "running"
    /\ task' = [task EXCEPT ![s] = "ended"]
    /\ UNCHANGED <<engine, callVars, subscribers, flag, writerVars>>

Rest == <<engine, callVars, subscribers, taskVars>>

Broadcast == engine = "open" /\ Writer!Enqueue /\ UNCHANGED Rest

FlushBegins(f) == engine = "open" /\ Writer!FlushBegins(f) /\ UNCHANGED Rest
FlushSends(f) == Writer!FlushSends(f) /\ UNCHANGED Rest
FlushCancelled(f) == Writer!FlushCancelled(f) /\ UNCHANGED Rest

ShutdownSends == Writer!ShutdownSends /\ UNCHANGED Rest

WriterTask == Writer!Worker /\ UNCHANGED Rest

-----------------------------------------------------------------------------
Subscribe(c) == SubscribeChecks(c) \/ SubscribeFails(c) \/ SubscribeInserts(c)

Unsubscribe(c) == UnsubscribeRemoves(c) \/ UnsubscribeReturns(c)

EngineShutdown ==
    ShutdownStopsOne \/ ShutdownFlushes \/ ShutdownSends \/ ShutdownReturns

Next ==
    \/ \E c \in Calls : Begin(c) \/ Cancel(c)
    \/ \E c \in Subscribes : Subscribe(c) \/ TaskSeesFlag(c) \/ TaskDies(c)
    \/ \E c \in Unsubscribes : Unsubscribe(c)
    \/ ShutdownBegins
    \/ EngineShutdown
    \/ ShutdownCancelled
    \/ Drop
    \/ Broadcast
    \/ \E f \in FlushCalls : FlushBegins(f) \/ FlushSends(f) \/ FlushCancelled(f)
    \/ WriterTask

Spec == Init /\ [][Next]_vars

\* The runtime polls the tasks and the futures that are being awaited, max_id
\* (a plain SELECT, which waits for no row lock) is answered or fails, and a
\* task looks at its flag again and again (NativeSubscriber's StopEndsTask).
FairSpec ==
    /\ Spec
    /\ \A c \in Subscribes : WF_vars(Subscribe(c)) /\ WF_vars(TaskSeesFlag(c))
    /\ \A c \in Unsubscribes : WF_vars(Unsubscribe(c))
    /\ \A f \in FlushCalls : SF_vars(FlushSends(f))
    /\ WF_vars(EngineShutdown)
    /\ WF_vars(WriterTask)

-----------------------------------------------------------------------------
(* Properties.                                                             *)

Results == {"ok", "error", "cancelled"}

\* Types; the calls at the lock are those in progress, each once, and only
\* the first of them has passed it.
TypeOK ==
    /\ Writer!TypeOK
    /\ engine \in {"open", "stopping", "flushing", "closed", "abandoned"}
    /\ lock \in Seq(Calls)
    /\ \A i, j \in 1..Len(lock) : lock[i] = lock[j] => i = j
    /\ call \in [Calls -> Results \cup {"idle", "waiting", "connecting", "stopping"}]
    /\ \A c \in Calls : InProgress(c) <=> \E i \in 1..Len(lock) : lock[i] = c
    /\ \A i \in 1..Len(lock) : call[lock[i]] # "waiting" => i = 1
    /\ session \in [Calls -> Sessions]
    /\ subscribers \in [Sessions -> Subscribes \cup {None}]
    /\ task \in [Subscribes -> {"none", "running", "ended"}]
    /\ flag \in [Subscribes -> BOOLEAN]

\* A task that nobody has told to stop is the registered subscriber of its
\* session: no call, cancelled wherever it may be, leaves a second one or one
\* beyond reach, unless the whole engine was abandoned.
NoTaskLeaks ==
    engine # "abandoned" =>
        \A s \in Subscribes :
            task[s] = "running" /\ ~flag[s] => subscribers[session[s]] = s

\* When shutdown has returned, every subscriber was told to stop and every
\* message the engine ever accepted has had its INSERT.
ShutdownIsComplete ==
    engine = "closed" =>
        /\ \A s \in Subscribes : task[s] = "running" => flag[s]
        /\ Len(settled) = accepted

\* No call waits for the lock for ever, whatever becomes of those before it.
CallsReturn == \A c \in Calls : call[c] = "waiting" ~> call[c] \in Results

\* An engine that is shut down or dropped, or whose shutdown is cancelled at
\* any point, still has everything it accepted written, and its writer ends.
EngineEnds ==
    engine # "open" ~> (worker = "done" /\ Len(settled) = accepted)
=============================================================================
