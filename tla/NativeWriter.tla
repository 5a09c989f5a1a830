---------------------------- MODULE NativeWriter ----------------------------
(***************************************************************************)
(* ext/solid_mcp_native/core/src/writer.rs: the Rust MessageWriter, a      *)
(* bounded tokio channel of commands and one task that batches messages.   *)
(*                                                                         *)
(* enqueue and flush borrow the writer, shutdown consumes it, and dropping *)
(* it closes the channel: the compiler lets the owner shut down or drop    *)
(* only while no call is in progress.  The future of a flush or of the     *)
(* shutdown may be dropped (cancelled) by its caller at any await.         *)
(*                                                                         *)
(* A message is its ticket, as in MessageWriter.  A message that does not  *)
(* fit is answered Ok(false) and leaves no trace; enqueue_async waits.     *)
(***************************************************************************)
EXTENDS Naturals, Sequences

CONSTANTS
    QueueSize,           \* config.max_queue_size
    BatchSize,           \* config.batch_size
    FlushCalls,          \* calls of flush
    Message, Shutdown,   \* the other two kinds of command
    MaxAccepted          \* bound: messages accepted

ASSUME NativeWriterAssumption ==
    /\ QueueSize \in Nat \ {0}
    /\ BatchSize \in Nat \ {0}
    /\ Message # Shutdown
    /\ {Message, Shutdown} \cap FlushCalls = {}
    /\ MaxAccepted \in Nat

VARIABLES
    channel,             \* commands sent and not received
    accepted,            \* messages sent
    worker,              \* where writer_loop is
    batch,               \* its local: tickets received and not written
    waiters,             \* its local flush_waiters: flush calls to answer
    settled,             \* history of insert_batch: [n, stored] per ticket
    flush,               \* progress of each flush call
    mark,                \* history: messages accepted when f was sent
    owner                \* what the owner does with the writer

workerVars == <<worker, batch, waiters, settled>>
flushVars == <<flush, mark>>
vars == <<channel, accepted, workerVars, flushVars, owner>>

\* n counts the messages accepted up to and including the command.
Command == [n : Nat, kind : FlushCalls \cup {Message, Shutdown}]

Outcome == [n : Nat, stored : BOOLEAN]

Full == Len(channel) >= QueueSize

Borrowed == \E f \in FlushCalls : flush[f] \in {"sending", "waiting"}

Init ==
    /\ channel = <<>>
    /\ accepted = 0
    /\ worker = "recv"
    /\ batch = <<>>
    /\ waiters = {}
    /\ settled = <<>>
    /\ flush = [f \in FlushCalls |-> "idle"]
    /\ mark = [f \in FlushCalls |-> 0]
    /\ owner = "open"

-----------------------------------------------------------------------------
(* Callers.                                                                *)

Enqueue ==
    /\ owner = "open"
    /\ ~Full
    /\ accepted < MaxAccepted
    /\ accepted' = accepted + 1
    /\ channel' = Append(channel, [n |-> accepted + 1, kind |-> Message])
    /\ UNCHANGED <<workerVars, flushVars, owner>>

FlushBegins(f) ==
    /\ owner = "open"
    /\ flush[f] = "idle"
    /\ flush' = [flush EXCEPT ![f] = "sending"]
    /\ UNCHANGED <<channel, accepted, workerVars, mark, owner>>

FlushSends(f) ==
    /\ flush[f] = "sending"
    /\ ~Full
    /\ channel' = Append(channel, [n |-> accepted, kind |-> f])
    /\ flush' = [flush EXCEPT ![f] = "waiting"]
    /\ mark' = [mark EXCEPT ![f] = accepted]
    /\ UNCHANGED <<accepted, workerVars, owner>>

FlushCancelled(f) ==
    /\ flush[f] \in {"sending", "waiting"}
    /\ flush' = [flush EXCEPT ![f] = "cancelled"]
    /\ UNCHANGED <<channel, accepted, workerVars, mark, owner>>

ShutdownBegins ==
    /\ owner = "open"
    /\ ~Borrowed
    /\ owner' = "sending"
    /\ UNCHANGED <<channel, accepted, workerVars, flushVars>>

ShutdownSends ==
    /\ owner = "sending"
    /\ ~Full
    /\ channel' = Append(channel, [n |-> accepted, kind |-> Shutdown])
    /\ owner' = "joining"
    /\ UNCHANGED <<accepted, workerVars, flushVars>>

ShutdownReturns ==
    /\ owner = "joining"
    /\ worker = "done"
    /\ owner' = "returned"
    /\ UNCHANGED <<channel, accepted, workerVars, flushVars>>

\* The future of shutdown, which owns the writer, is dropped before its end.
ShutdownCancelled ==
    /\ owner \in {"sending", "joining"}
    /\ owner' = "dropped"
    /\ UNCHANGED <<channel, accepted, workerVars, flushVars>>

\* The writer goes out of scope: the channel is closed, the task detached.
Drop ==
    /\ owner = "open"
    /\ ~Borrowed
    /\ owner' = "dropped"
    /\ UNCHANGED <<channel, accepted, workerVars, flushVars>>

-----------------------------------------------------------------------------
(* writer_loop.                                                            *)

Goto(from, to) == worker = from /\ worker' = to

Received(kind) ==
    /\ channel # <<>>
    /\ Head(channel).kind = kind
    /\ channel' = Tail(channel)

ReceiveMessage(from, to) ==
    /\ Received(Message)
    /\ Goto(from, to)
    /\ batch' = Append(batch, Head(channel).n)
    /\ UNCHANGED <<accepted, waiters, settled, flushVars, owner>>

\* Mutant: a flush is answered on receipt, before the batch is written.
ReceiveFlushAnswered(from, to) ==
    /\ \E f \in FlushCalls :
         /\ Received(f)
         /\ flush' = [flush EXCEPT ![f] = IF @ = "waiting" THEN "ok" ELSE @]
    /\ Goto(from, to)
    /\ UNCHANGED <<accepted, batch, waiters, settled, mark, owner>>

ReceiveFlush(from, to) ==
    /\ \E f \in FlushCalls : Received(f) /\ waiters' = waiters \cup {f}
    /\ Goto(from, to)
    /\ UNCHANGED <<accepted, batch, settled, flushVars, owner>>

ReceiveShutdown(from) ==
    /\ Received(Shutdown)
    /\ Goto(from, "drain")
    /\ UNCHANGED <<accepted, batch, waiters, settled, flushVars, owner>>

\* rx.recv().await, with nothing in hand.
Receive ==
    \/ ReceiveMessage("recv", "fill")
    \/ ReceiveFlush("recv", "fill")
    \/ ReceiveShutdown("recv")

\* Mutant: the loop goes on when the channel is closed.
ChannelClosedIgnored ==
    /\ owner = "dropped"
    /\ channel = <<>>
    /\ Goto("recv", "recv")
    /\ UNCHANGED <<channel, accepted, batch, waiters, settled, flushVars, owner>>

\* The channel is closed once the writer is dropped and nothing is left.
ChannelClosed ==
    /\ owner = "dropped"
    /\ channel = <<>>
    /\ Goto("recv", "done")
    /\ UNCHANGED <<channel, accepted, batch, waiters, settled, flushVars, owner>>

\* Mutant: the fill loop's bound is off by one.
FillOneMore ==
    /\ Len(batch) <= BatchSize
    /\ \/ ReceiveMessage("fill", "fill")
       \/ ReceiveFlush("fill", "write")
       \/ ReceiveShutdown("fill")

\* rx.try_recv() while the batch has room: a flush ends the filling.
Fill ==
    /\ Len(batch) < BatchSize
    /\ \/ ReceiveMessage("fill", "fill")
       \/ ReceiveFlush("fill", "write")
       \/ ReceiveShutdown("fill")

FillDone ==
    /\ Len(batch) >= BatchSize \/ channel = <<>>
    /\ Goto("fill", "write")
    /\ UNCHANGED <<channel, accepted, batch, waiters, settled, flushVars, owner>>

\* Mutant: the task ends on Shutdown without writing its last batch.
DrainAndForget ==
    /\ Goto("drain", "lastSignal")
    /\ channel' = <<>>
    /\ UNCHANGED <<accepted, batch, waiters, settled, flushVars, owner>>

\* drain_remaining: whatever came after the Shutdown command.
Drain ==
    /\ Goto("drain", "lastWrite")
    /\ LET drained[i \in 0..Len(channel)] ==   \* the batch, i commands later
             IF i = 0 THEN batch
             ELSE IF channel[i].kind = Message
                  THEN Append(drained[i - 1], channel[i].n)
                  ELSE drained[i - 1]
       IN  batch' = drained[Len(channel)]
    /\ waiters' = waiters \cup
         {f \in FlushCalls : \E i \in 1..Len(channel) : channel[i].kind = f}
    /\ channel' = <<>>
    /\ UNCHANGED <<accepted, settled, flushVars, owner>>

\* Mutant: batch.clear() is forgotten.
SettleAndKeep(stored) ==
    /\ settled' = settled \o
         [i \in 1..Len(batch) |-> [n |-> batch[i], stored |-> stored]]
    /\ UNCHANGED batch

\* write_batch, for a batch that is not empty: stored, or the error logged.
Settle(stored) ==
    /\ settled' = settled \o
         [i \in 1..Len(batch) |-> [n |-> batch[i], stored |-> stored]]
    /\ batch' = <<>>

\* Mutant: with nothing to write the loop starts over at once.
WriteElseContinue ==
    /\ worker \in {"write", "lastWrite"}
    /\ IF batch = <<>>
       THEN /\ worker' = IF worker = "write" THEN "recv" ELSE "lastSignal"
            /\ UNCHANGED <<settled, batch>>
       ELSE /\ worker' = IF worker = "write" THEN "signal" ELSE "lastSignal"
            /\ \E stored \in BOOLEAN : Settle(stored)
    /\ UNCHANGED <<channel, accepted, waiters, flushVars, owner>>

Write ==
    /\ \/ Goto("write", "signal")
       \/ Goto("lastWrite", "lastSignal")
    /\ IF batch = <<>> THEN UNCHANGED <<settled, batch>>
                       ELSE \E stored \in BOOLEAN : Settle(stored)
    /\ UNCHANGED <<channel, accepted, waiters, flushVars, owner>>

\* signal_flush_waiters: a call that was cancelled does not notice.
Signal ==
    /\ \/ Goto("signal", "recv")
       \/ Goto("lastSignal", "done")
    /\ flush' = [f \in FlushCalls |->
                   IF f \in waiters /\ flush[f] = "waiting" THEN "ok" ELSE flush[f]]
    /\ waiters' = {}
    /\ UNCHANGED <<channel, accepted, batch, settled, mark, owner>>

-----------------------------------------------------------------------------
Worker == Receive \/ ChannelClosed \/ Fill \/ FillDone \/ Drain \/ Write \/ Signal

Flusher(f) == FlushBegins(f) \/ FlushSends(f) \/ FlushCancelled(f)

Owner ==
    ShutdownBegins \/ ShutdownSends \/ ShutdownReturns \/ ShutdownCancelled \/ Drop

Next ==
    \/ Enqueue
    \/ \E f \in FlushCalls : Flusher(f)
    \/ Owner
    \/ Worker

Spec == Init /\ [][Next]_vars

\* The runtime polls the task, and a caller that awaits a send gets its turn
\* (the channel serves waiting senders in order); nobody has to call.
FairSpec ==
    /\ Spec
    /\ WF_vars(Worker)
    /\ \A f \in FlushCalls : SF_vars(FlushSends(f))
    /\ WF_vars(ShutdownSends \/ ShutdownReturns)

-----------------------------------------------------------------------------
(* Properties.                                                             *)

\* Types; the channel keeps to max_queue_size, a batch to batch_size, and
\* drain_remaining has nothing to add to it: Shutdown is the last command.
TypeOK ==
    /\ channel \in Seq(Command) /\ Len(channel) <= QueueSize
    /\ accepted \in Nat
    /\ worker \in {"recv", "fill", "drain", "write", "lastWrite", "signal",
                   "lastSignal", "done"}
    /\ batch \in Seq(Nat) /\ Len(batch) <= BatchSize
    /\ waiters \subseteq FlushCalls
    /\ settled \in Seq(Outcome)
    /\ flush \in [FlushCalls -> {"idle", "sending", "waiting", "ok", "cancelled"}]
    /\ mark \in [FlushCalls -> Nat]
    /\ owner \in {"open", "sending", "joining", "returned", "dropped"}

\* flush answers Ok only after the INSERT of every message accepted before
\* its command was sent.
FlushWaitsForWrite ==
    \A f \in FlushCalls : flush[f] = "ok" => mark[f] <= Len(settled)

\* When shutdown returns every message ever accepted has had its INSERT, and
\* nothing is left behind in the channel.
ShutdownSettles ==
    owner = "returned" => Len(settled) = accepted /\ channel = <<>>

\* The Rust writer keeps the same promise as the Ruby one.
Promise == INSTANCE WriterPromise WITH Capacity <- QueueSize + BatchSize
ImplementsPromise == Promise!Spec

\* flush never hangs: not on an empty channel, not on a full one, and not
\* while the worker fills batches.
FlushReturns ==
    \A f \in FlushCalls : flush[f] = "sending" ~> flush[f] \in {"ok", "cancelled"}

\* A writer that is shut down or dropped, or whose shutdown is cancelled,
\* settles everything and its task ends.
OwnerEnds ==
    owner # "open" ~> (worker = "done" /\ Len(settled) = accepted)
=============================================================================
