---------------------------- MODULE NativeBridge ----------------------------
(***************************************************************************)
(* ext/solid_mcp_native/ffi/src/lib.rs: the functions Ruby calls, and the  *)
(* slot of each native thread that holds its engine.  (Ruby may run        *)
(* several of its threads on one native thread, one after the other.)      *)
(*                                                                         *)
(* Every function keeps Ruby's global lock to its end, also while block_on *)
(* waits, and Ruby cannot interrupt it: the one call in progress is the    *)
(* holder's.  The writer's task of every engine runs on the runtime's own  *)
(* threads, which need no global lock and outlive engine and thread.       *)
(*                                                                         *)
(* An engine is what NativePubSub shows of it: what it accepted it writes  *)
(* in order, a batch at a time, however it ends; flush and shutdown wait   *)
(* for that.  A message is its thread and its number among the messages    *)
(* this thread had accepted.  What broadcast refuses, because there is no  *)
(* engine or its queue is full, leaves no trace, as does a shutdown        *)
(* without an engine.                                                      *)
(*                                                                         *)
(* The application may be in a transaction of its own, on a connection of  *)
(* its own, that holds rows of the table; to commit, it must run.          *)
(***************************************************************************)
EXTENDS Naturals, Sequences, SequencesExt

CONSTANTS
    Threads,             \* native threads that run Ruby
    None,                \* no thread
    QueueSize, BatchSize,
    MaxEngines,          \* bound: engines created
    MaxSent              \* bound: messages accepted from each thread

ASSUME NativeBridgeAssumption ==
    /\ None \notin Threads
    /\ QueueSize \in Nat \ {0}
    /\ BatchSize \in Nat \ {0}
    /\ MaxEngines \in Nat
    /\ MaxSent \in Nat

VARIABLES
    gvl,                 \* the thread whose call keeps the global lock
    call,                \* that call
    awaited,             \* threads whose transactions hold rows it wants
    slot,                \* PUBSUB of each thread: its engine, or 0
    closing,             \* the engine that shutdown took out of the slot, or 0
    ended,               \* threads that have ended
    inTransaction,       \* threads whose Ruby code holds rows in a transaction
    started,             \* engines created, numbered from 1
    pending,             \* what each engine accepted and has not written
    written,             \* history: messages in the order of their INSERTs
    sent,                \* history: messages accepted from each thread
    settledUpTo,         \* history: sent when flush or shutdown last returned
    replaced             \* history: threads whose init dropped a busy engine

callVars == <<gvl, call, awaited>>
engineVars == <<slot, closing, started>>
threadVars == <<ended, inTransaction>>
dataVars == <<pending, written>>
histVars == <<sent, settledUpTo, replaced>>
vars == <<callVars, engineVars, threadVars, dataVars, histVars>>

Engines == 1..MaxEngines

Init ==
    /\ gvl = None
    /\ call = "none"
    /\ awaited = {}
    /\ slot = [t \in Threads |-> 0]
    /\ closing = 0
    /\ ended = {}
    /\ inTransaction = {}
    /\ started = 0
    /\ pending = [e \in Engines |-> <<>>]
    /\ written = <<>>
    /\ sent = [t \in Threads |-> 0]
    /\ settledUpTo = [t \in Threads |-> 0]
    /\ replaced = {}

-----------------------------------------------------------------------------
Runs(t) == gvl = None /\ t \notin ended

EntersFor(t, what, rows) ==
    /\ Runs(t)
    /\ gvl' = t
    /\ call' = what
    /\ awaited' = rows

Enters(t, what) == EntersFor(t, what, {})

Leaves(what) ==
    /\ call = what
    /\ gvl' = None
    /\ call' = "none"
    /\ awaited' = {}

\* init and init_with_config: PubSub::new connects.
InitBegins(t) ==
    /\ Enters(t, "init")
    /\ started < MaxEngines
    /\ UNCHANGED <<engineVars, threadVars, dataVars, histVars>>

\* The engine in the slot, if any, stays.
InitFails ==
    /\ Leaves("init")
    /\ UNCHANGED <<engineVars, threadVars, dataVars, histVars>>

\* The assignment to the slot drops the engine that was there.
InitReturns ==
    /\ Leaves("init")
    /\ started' = started + 1
    /\ slot' = [slot EXCEPT ![gvl] = started + 1]
    /\ replaced' =
         IF slot[gvl] # 0 /\ pending[slot[gvl]] # <<>> THEN replaced \cup {gvl} ELSE replaced
    /\ UNCHANGED <<closing, threadVars, dataVars, sent, settledUpTo>>

\* try_send: it does not wait.
Broadcast(t) ==
    /\ Runs(t)
    /\ slot[t] # 0
    /\ Len(pending[slot[t]]) < QueueSize + BatchSize
    /\ sent[t] < MaxSent
    /\ sent' = [sent EXCEPT ![t] = @ + 1]
    /\ pending' = [pending EXCEPT ![slot[t]] = Append(@, <<t, sent[t] + 1>>)]
    /\ UNCHANGED <<callVars, engineVars, threadVars, written, settledUpTo, replaced>>

FlushBegins(t) ==
    /\ Enters(t, "flush")
    /\ slot[t] # 0
    /\ UNCHANGED <<engineVars, threadVars, dataVars, histVars>>

\* Mutant: flush does not wait for the answer.
FlushReturnsAtOnce ==
    /\ Leaves("flush")
    /\ settledUpTo' = [settledUpTo EXCEPT ![gvl] = sent[gvl]]
    /\ UNCHANGED <<engineVars, threadVars, dataVars, sent, replaced>>

\* Nobody else has this engine, so nothing comes after the flush.
FlushReturns ==
    /\ Leaves("flush")
    /\ pending[slot[gvl]] = <<>>
    /\ settledUpTo' = [settledUpTo EXCEPT ![gvl] = sent[gvl]]
    /\ UNCHANGED <<engineVars, threadVars, dataVars, sent, replaced>>

\* Mutant: the engine is left in the slot.
ShutdownBeginsKeepsSlot(t) ==
    /\ Enters(t, "shutdown")
    /\ slot[t] # 0
    /\ closing' = slot[t]
    /\ UNCHANGED <<slot, started, threadVars, dataVars, histVars>>

\* The slot is empty at once; try_unwrap succeeds: see TypeOK.
ShutdownBegins(t) ==
    /\ Enters(t, "shutdown")
    /\ slot[t] # 0
    /\ closing' = slot[t]
    /\ slot' = [slot EXCEPT ![t] = 0]
    /\ UNCHANGED <<started, threadVars, dataVars, histVars>>

\* Mutant: the engine is only dropped.
ShutdownReturnsAtOnce ==
    /\ Leaves("shutdown")
    /\ closing' = 0
    /\ settledUpTo' = [settledUpTo EXCEPT ![gvl] = sent[gvl]]
    /\ UNCHANGED <<slot, started, threadVars, dataVars, sent, replaced>>

ShutdownReturns ==
    /\ Leaves("shutdown")
    /\ pending[closing] = <<>>
    /\ closing' = 0
    /\ settledUpTo' = [settledUpTo EXCEPT ![gvl] = sent[gvl]]
    /\ UNCHANGED <<slot, started, threadVars, dataVars, sent, replaced>>

\* subscription_count, mark_delivered and cleanup: the last two change rows on
\* a connection of the pool, so they wait for the transactions that hold them,
\* one of the calling thread's own included.
QueryBegins(t) ==
    /\ \E rows \in SUBSET inTransaction : EntersFor(t, "query", rows)
    /\ slot[t] # 0
    /\ UNCHANGED <<engineVars, threadVars, dataVars, histVars>>

Blocked == awaited \cap inTransaction # {}

QueryReturns ==
    /\ ~Blocked
    /\ Leaves("query")
    /\ UNCHANGED <<engineVars, threadVars, dataVars, histVars>>

\* SQLite answers "busy" after the pool's busy_timeout; PostgreSQL has no limit
\* to a statement's wait.
QueryGivesUp ==
    /\ Blocked
    /\ Leaves("query")
    /\ UNCHANGED <<engineVars, threadVars, dataVars, histVars>>

\* ActiveRecord in the application: each end of a transaction is Ruby code.
TransactionBegins(t) ==
    /\ Runs(t)
    /\ inTransaction' = inTransaction \cup {t}
    /\ UNCHANGED <<callVars, engineVars, ended, dataVars, histVars>>

\* Mutant: another Ruby thread runs while block_on waits.
TransactionEndsBesideCall(t) ==
    /\ t \in Threads \ ended
    /\ inTransaction' = inTransaction \ {t}
    /\ UNCHANGED <<callVars, engineVars, ended, dataVars, histVars>>

TransactionEnds(t) ==
    /\ Runs(t)
    /\ inTransaction' = inTransaction \ {t}
    /\ UNCHANGED <<callVars, engineVars, ended, dataVars, histVars>>

\* The thread's storage is destroyed and drops the engine in its slot.
ThreadEnds(t) ==
    /\ Runs(t)
    /\ t \notin inTransaction
    /\ ended' = ended \cup {t}
    /\ slot' = [slot EXCEPT ![t] = 0]
    /\ UNCHANGED <<callVars, closing, started, inTransaction, dataVars, histVars>>

\* Mutant: the writer's task ends with its engine.
WriterTaskEndsWithEngine(e) ==
    /\ pending[e] # <<>>
    /\ \E t \in Threads : slot[t] = e
    /\ \E k \in 1..BatchSize :
         /\ k <= Len(pending[e])
         /\ written' = written \o SubSeq(pending[e], 1, k)
         /\ pending' = [pending EXCEPT ![e] = SubSeq(@, k + 1, Len(@))]
    /\ UNCHANGED <<callVars, engineVars, threadVars, histVars>>

\* writer_loop has had one batch inserted, or its loss logged.
WriterTask(e) ==
    /\ pending[e] # <<>>
    /\ \E k \in 1..BatchSize :
         /\ k <= Len(pending[e])
         /\ written' = written \o SubSeq(pending[e], 1, k)
         /\ pending' = [pending EXCEPT ![e] = SubSeq(@, k + 1, Len(@))]
    /\ UNCHANGED <<callVars, engineVars, threadVars, histVars>>

-----------------------------------------------------------------------------
Returns ==
    InitFails \/ InitReturns \/ FlushReturns \/ ShutdownReturns \/ QueryReturns

Next ==
    \/ \E t \in Threads :
         \/ InitBegins(t)
         \/ Broadcast(t)
         \/ FlushBegins(t)
         \/ ShutdownBegins(t)
         \/ QueryBegins(t)
         \/ TransactionBegins(t)
         \/ TransactionEnds(t)
         \/ ThreadEnds(t)
    \/ Returns
    \/ QueryGivesUp
    \/ \E e \in Engines : WriterTask(e)

Spec == Init /\ [][Next]_vars

\* The runtime polls its tasks and block_on the call's future.  The database
\* answers a statement that waits for no transaction of this process, if only
\* with an error.  Nothing limits the wait for one that does.
FairSpec ==
    /\ Spec
    /\ WF_vars(Returns)
    /\ \A e \in Engines : WF_vars(WriterTask(e))

-----------------------------------------------------------------------------
(* Properties.                                                             *)

Messages == Threads \X (1..MaxSent)

\* Types; an engine is in one slot or in one shutdown, never in two places, so
\* that try_unwrap never meets "other references exist".
TypeOK ==
    /\ gvl \in Threads \cup {None}
    /\ call \in {"none", "init", "flush", "shutdown", "query"}
    /\ awaited \subseteq inTransaction
    /\ awaited # {} => call = "query"
    /\ (gvl = None) <=> (call = "none")
    /\ slot \in [Threads -> 0..started]
    /\ closing \in 0..started
    /\ (closing = 0) <=> (call # "shutdown")
    /\ ended \subseteq Threads
    /\ inTransaction \subseteq Threads \ ended
    /\ started \in 0..MaxEngines
    /\ pending \in [Engines -> Seq(Messages)]
    /\ written \in Seq(Messages)
    /\ sent \in [Threads -> 0..MaxSent]
    /\ settledUpTo \in [Threads -> 0..MaxSent]
    /\ replaced \subseteq Threads
    /\ \A t \in Threads : slot[t] # 0 =>
         slot[t] # closing /\ \A u \in Threads \ {t} : slot[u] # slot[t]

Written(t, n) == Contains(written, <<t, n>>)

\* When flush or shutdown has returned, everything that its thread ever
\* broadcast has had its INSERT, through whichever engines it went, unless
\* the thread called init while its engine still had messages to write.
SettledUnlessReplaced ==
    \A t \in Threads \ replaced : \A n \in 1..settledUpTo[t] : Written(t, n)

\* A thread's messages are written in the order it sent them, across the
\* engines it had one after the other, with the same exception.
OrderedUnlessReplaced ==
    \A t \in Threads \ replaced : \A n \in 2..MaxSent :
        Written(t, n) => Written(t, n - 1)
            /\ \E i, j \in 1..Len(written) :
                 i < j /\ written[i] = <<t, n - 1>> /\ written[j] = <<t, n>>

\* An accepted message is written whatever becomes of its engine and of its
\* thread: shut down, replaced by another init, or ended.
AcceptedIsWritten ==
    \A t \in Threads : \A n \in 1..MaxSent : sent[t] >= n ~> Written(t, n)

\* mark_delivered or cleanup waits for rows that Ruby code holds, which waits
\* for the global lock.
Deadlocked == gvl # None /\ Blocked

\* No call of the bridge keeps the global lock for ever, whatever its engine
\* has to write, unless it has run into this deadlock.
LockIsReleased == gvl # None ~> gvl = None \/ Deadlocked

\* Once it has, no thread of the process gets anything done for it: only the
\* database can end it, by giving up.
DeadlockLasts == [][Deadlocked => Deadlocked' \/ QueryGivesUp]_vars
=============================================================================
