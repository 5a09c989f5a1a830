--------------------------- MODULE MessageWriter ---------------------------
(***************************************************************************)
(* lib/solid_mcp/message_writer.rb: the per-process singleton that accepts *)
(* messages into a SizedQueue and writes them in batches from one worker   *)
(* thread, with its flush and shutdown calls.                              *)
(*                                                                         *)
(* The actors are the threads that enqueue, one thread per flush call, the *)
(* thread that calls shutdown, and the worker.  A queue operation is one   *)
(* atomic step (the queue has its own lock), and everything else the       *)
(* threads share is an atomic boolean, a latch or the executor's state.    *)
(*                                                                         *)
(* A message is its ticket: the number of messages accepted before it,     *)
(* plus one.  Its session, event type and data never influence the writer. *)
(***************************************************************************)
EXTENDS Naturals, Sequences

CONSTANTS
    QueueSize,           \* configuration.max_queue_size
    BatchSize,           \* configuration.batch_size
    FlushCalls,          \* the calls of flush, one identity per call
    NoLatch,             \* a queue item that is no flush marker
    MaxAccepted,         \* bound: messages accepted
    MaxDropped           \* bound: messages dropped

ASSUME WriterAssumption ==
    /\ QueueSize \in Nat \ {0}
    /\ BatchSize \in Nat \ {0}
    /\ NoLatch \notin FlushCalls
    /\ MaxAccepted \in Nat
    /\ MaxDropped \in Nat

VARIABLES
    queue,               \* @queue
    accepted,            \* messages enqueue answered true for
    dropped,             \* @dropped_count
    worker,              \* where the worker thread is
    batch,               \* the worker's local: tickets taken and not written
    markers,             \* the worker's local: latches taken, not signalled
    settled,             \* history of insert_all: [n, stored] per ticket
    flush,               \* progress of each flush call
    mark,                \* history: messages accepted when f's marker went in
    stop,                \* progress of the call of shutdown
    atShutdown           \* history: messages accepted when @shutdown was set

producerVars == <<accepted, dropped>>
workerVars == <<worker, batch, markers, settled>>
flushVars == <<flush, mark>>
stopVars == <<stop, atShutdown>>
vars == <<queue, producerVars, workerVars, flushVars, stopVars>>

-----------------------------------------------------------------------------
(* A queue item: n counts the messages accepted up to and including it.    *)

Item == [n : Nat, latch : FlushCalls \cup {NoLatch}]

IsMessage(item) == item.latch = NoLatch

Outcome == [n : Nat, stored : BOOLEAN]

Full == Len(queue) >= QueueSize

ShutdownFlag == stop # "idle"                       \* @shutdown.true?

ExecutorRunning == stop \in {"idle", "flagged"}     \* @executor.running?

\* The worker's two loops end on the same condition.
NothingLeft == ShutdownFlag /\ queue = <<>>

WorkerGone == worker \in {"exited", "aborted"}

Init ==
    /\ queue = <<>>
    /\ accepted = 0
    /\ dropped = 0
    /\ worker = "starting"
    /\ batch = <<>>
    /\ markers = {}
    /\ settled = <<>>
    /\ flush = [f \in FlushCalls |-> "idle"]
    /\ mark = [f \in FlushCalls |-> 0]
    /\ stop = "idle"
    /\ atShutdown = 0

-----------------------------------------------------------------------------
(* Threads that broadcast.  enqueue looks neither at @shutdown nor at the  *)
(* worker: it accepts whenever there is room.                              *)

Enqueue ==
    /\ ~Full
    /\ accepted < MaxAccepted
    /\ accepted' = accepted + 1
    /\ queue' = Append(queue, [n |-> accepted + 1, latch |-> NoLatch])
    /\ UNCHANGED <<dropped, workerVars, flushVars, stopVars>>

EnqueueDropped ==
    /\ Full
    /\ dropped < MaxDropped
    /\ dropped' = dropped + 1
    /\ UNCHANGED <<queue, accepted, workerVars, flushVars, stopVars>>

-----------------------------------------------------------------------------
(* Threads that flush: check the executor, push a marker (blocking while   *)
(* the queue is full), wait for the latch at most a second.                *)

FlushCheck(f) ==
    /\ flush[f] = "idle"
    /\ flush' = [flush EXCEPT ![f] = IF ExecutorRunning THEN "push"
                                                        ELSE "skipped"]
    /\ UNCHANGED <<queue, producerVars, workerVars, mark, stopVars>>

FlushPush(f) ==
    /\ flush[f] = "push"
    /\ ~Full
    /\ queue' = Append(queue, [n |-> accepted, latch |-> f])
    /\ flush' = [flush EXCEPT ![f] = "waiting"]
    /\ mark' = [mark EXCEPT ![f] = accepted]
    /\ UNCHANGED <<producerVars, workerVars, stopVars>>

FlushTimesOut(f) ==
    /\ flush[f] = "waiting"
    /\ flush' = [flush EXCEPT ![f] = "timedOut"]
    /\ UNCHANGED <<queue, producerVars, workerVars, mark, stopVars>>

-----------------------------------------------------------------------------
(* The thread that shuts the writer down.                                  *)

ShutdownSetFlag ==
    /\ stop = "idle"
    /\ stop' = "flagged"
    /\ atShutdown' = accepted
    /\ UNCHANGED <<queue, producerVars, workerVars, flushVars>>

ShutdownExecutor ==
    /\ stop = "flagged"
    /\ stop' = "waiting"
    /\ UNCHANGED <<queue, producerVars, workerVars, flushVars, atShutdown>>

\* wait_for_termination: the pool has terminated, or shutdown_timeout passed.
ShutdownEnds(outcome) ==
    /\ stop = "waiting"
    /\ outcome = "terminated" => WorkerGone
    /\ stop' = outcome
    /\ UNCHANGED <<queue, producerVars, workerVars, flushVars, atShutdown>>

-----------------------------------------------------------------------------
(* The worker: run_loop, drain_batch and write_batch.                      *)

Goto(from, to) == worker = from /\ worker' = to

\* A step that only moves the worker on.
Move(from, to) ==
    /\ Goto(from, to)
    /\ UNCHANGED <<queue, producerVars, batch, markers, settled, flushVars, stopVars>>

WorkerStart == Move("starting", "top")

\* Mutant: the loop ends on @shutdown alone.
LoopExitAtOnce == ShutdownFlag /\ Move("top", "exited")

LoopExit == NothingLeft /\ Move("top", "exited")

LoopEnter == ~NothingLeft /\ Move("top", "wait")

\* Waiting for a first item: pop times out every 0.1 s to look at @shutdown.
\* Mutant: a blocking pop without a timeout never looks at @shutdown again.
DrainNeverGivesUp == FALSE /\ Move("wait", "top")

DrainGivesUp == NothingLeft /\ Move("wait", "top")

Take ==
    /\ queue # <<>>
    /\ queue' = Tail(queue)
    /\ IF IsMessage(Head(queue))
       THEN /\ batch' = Append(batch, Head(queue).n)
            /\ UNCHANGED markers
       ELSE /\ markers' = markers \cup {Head(queue).latch}
            /\ UNCHANGED batch

\* Mutant: the item the blocking pop returned is forgotten.
PopFirstForgotten ==
    /\ Goto("wait", "fill")
    /\ queue # <<>>
    /\ queue' = Tail(queue)
    /\ UNCHANGED <<producerVars, batch, markers, settled, flushVars, stopVars>>

PopFirst ==
    /\ Goto("wait", "fill")
    /\ Take
    /\ UNCHANGED <<producerVars, settled, flushVars, stopVars>>

\* Mutant: the fill loop's bound is off by one.
HasRoomForOneMore == Len(batch) <= BatchSize

HasRoom == Len(batch) < BatchSize

PopMore ==
    /\ HasRoom
    /\ Goto("fill", "fill")
    /\ Take
    /\ UNCHANGED <<producerVars, settled, flushVars, stopVars>>

\* Mutant: the fill loop waits for a full batch.
FillDoneWhenFull == ~HasRoom /\ Move("fill", "signal")

FillDone == (~HasRoom \/ queue = <<>>) /\ Move("fill", "signal")

\* Mutant: every call that waits is woken, as by a shared condition variable.
SignalEveryone ==
    /\ Goto("signal", IF batch = <<>> THEN "top" ELSE "write")
    /\ flush' = [f \in FlushCalls |->
                   IF flush[f] = "waiting" THEN "signalled" ELSE flush[f]]
    /\ markers' = {}
    /\ UNCHANGED <<queue, producerVars, batch, settled, mark, stopVars>>

\* Every latch taken is counted down, the batch not yet being written; a
\* flush call that still waits returns.
SignalMarkers ==
    /\ Goto("signal", IF batch = <<>> THEN "top" ELSE "write")
    /\ flush' = [f \in FlushCalls |->
                   IF f \in markers /\ flush[f] = "waiting" THEN "signalled"
                                                            ELSE flush[f]]
    /\ markers' = {}
    /\ UNCHANGED <<queue, producerVars, batch, settled, mark, stopVars>>

\* One insert_all for the whole batch: all of its rows, or none.
Settle(stored) ==
    /\ settled' = settled \o
         [i \in 1..Len(batch) |-> [n |-> batch[i], stored |-> stored]]
    /\ batch' = <<>>

WriteSucceeds ==
    /\ Goto("write", "top")
    /\ Settle(TRUE)
    /\ UNCHANGED <<queue, producerVars, markers, flushVars, stopVars>>

\* Mutant: a failed batch is written again though the log says it is lost.
WriteFailsAndRetries ==
    /\ Goto("write", "write")
    /\ settled' = settled \o
         [i \in 1..Len(batch) |-> [n |-> batch[i], stored |-> FALSE]]
    /\ UNCHANGED <<queue, producerVars, batch, markers, flushVars, stopVars>>

\* insert_all raises, having stored nothing or (the connection broke after the
\* commit) everything: the error is logged and the batch is forgotten, or
\* logging raises in turn and run_loop's rescue clause takes over.
WriteFails ==
    /\ \E next \in {"top", "rescue"} : Goto("write", next)
    /\ \E stored \in BOOLEAN : Settle(stored)
    /\ UNCHANGED <<queue, producerVars, markers, flushVars, stopVars>>

\* rescue logs and retries the loop unless shutting down; if logging raises
\* again, start_worker's job ends and nothing restarts it.
Rescue ==
    /\ \E next \in {"top", "aborted"} :
         /\ next = "top" => ~ShutdownFlag
         /\ Move("rescue", next)

-----------------------------------------------------------------------------
Producer == Enqueue \/ EnqueueDropped

Flusher(f) == FlushCheck(f) \/ FlushPush(f) \/ FlushTimesOut(f)

Stopper ==
    \/ ShutdownSetFlag
    \/ ShutdownExecutor
    \/ \E outcome \in {"terminated", "timedOut"} : ShutdownEnds(outcome)

Worker ==
    \/ WorkerStart
    \/ LoopExit
    \/ LoopEnter
    \/ DrainGivesUp
    \/ PopFirst
    \/ PopMore
    \/ FillDone
    \/ SignalMarkers
    \/ WriteSucceeds
    \/ WriteFails
    \/ Rescue

Next ==
    \/ Producer
    \/ \E f \in FlushCalls : Flusher(f)
    \/ Stopper
    \/ Worker

Spec == Init /\ [][Next]_vars

\* The worker thread is scheduled as long as it can run.  Nobody has to
\* enqueue, to flush or to shut down.
FairSpec == Spec /\ WF_vars(Worker)

\* In addition a thread in flush goes on, and gets its push in if there is
\* room in the queue again and again.
FairFlushSpec == FairSpec /\ \A f \in FlushCalls : SF_vars(Flusher(f))

-----------------------------------------------------------------------------
(* Properties.                                                             *)

\* Types; the queue keeps to max_queue_size and a batch to batch_size.
TypeOK ==
    /\ queue \in Seq(Item) /\ Len(queue) <= QueueSize
    /\ accepted \in Nat
    /\ dropped \in Nat
    /\ worker \in {"starting", "top", "wait", "fill", "signal", "write",
                   "rescue", "exited", "aborted"}
    /\ batch \in Seq(Nat) /\ Len(batch) <= BatchSize
    /\ markers \subseteq FlushCalls
    /\ settled \in Seq(Outcome)
    /\ flush \in [FlushCalls -> {"idle", "push", "waiting", "signalled",
                                 "timedOut", "skipped"}]
    /\ mark \in [FlushCalls -> Nat]
    /\ stop \in {"idle", "flagged", "waiting", "terminated", "timedOut"}
    /\ atShutdown \in Nat

Settled(t) == t \in DOMAIN settled /\ settled[t].n = t
InBatch(t) == \E i \in DOMAIN batch : batch[i] = t
InQueue(t) == \E i \in DOMAIN queue : IsMessage(queue[i]) /\ queue[i].n = t

\* No message accepted by enqueue disappears on its way through the queue,
\* drain_batch and write_batch, whatever flush and shutdown do meanwhile:
\* each is in exactly one of the queue, the batch in hand and the outcomes.
Conserved ==
    \A t \in 1..accepted :
        /\ Settled(t) \/ InBatch(t) \/ InQueue(t)
        /\ ~(Settled(t) /\ InBatch(t))
        /\ ~(Settled(t) /\ InQueue(t))
        /\ ~(InBatch(t) /\ InQueue(t))

\* When a flush call has been signalled, no message accepted before its
\* marker went in is still queued: what is not settled is in the batch the
\* worker is about to write (drain_batch counts the latches down before
\* write_batch runs).
FlushEmptiesQueue ==
    \A f \in FlushCalls : flush[f] = "signalled" =>
        \A i \in DOMAIN queue : IsMessage(queue[i]) => queue[i].n > mark[f]

\* The worker leaves run_loop on shutdown only after it has settled every
\* message accepted before @shutdown was set, though enqueue goes on
\* accepting between the check of @shutdown and the check of the queue.
ExitSettles ==
    worker = "exited" => \A t \in 1..atShutdown : Settled(t)

\* The writer is a bounded channel that settles tickets in order, each once,
\* a batch at a time, whatever the markers among the messages.
Promise == INSTANCE WriterPromise WITH Capacity <- QueueSize + BatchSize
ImplementsPromise == Promise!Spec

\* A message accepted before shutdown is settled (its row is stored, or its
\* batch failed) unless the worker's job ended on an error of the logger.
AcceptedIsSettled ==
    \A t \in 1..MaxAccepted :
        (accepted >= t /\ stop = "idle")
            ~> (t <= Len(settled) \/ worker = "aborted")

\* Once @shutdown is set the worker ends, if the broadcasts stop coming.
ShutdownStopsWorker == ShutdownFlag ~> WorkerGone

-----------------------------------------------------------------------------
(* A claim of the comments that the code does not keep.                    *)

\* The marker is "not subject to queue limits", and flush waits "up to 1
\* second": a call of flush returns.
FlushReturns ==
    \A f \in FlushCalls :
        flush[f] = "push" ~> flush[f] \in {"signalled", "timedOut"}

=============================================================================
