# solid_mcp in TLA+

solid_mcp is a publish/subscribe engine for Rails that keeps its messages in
one database table. A process broadcasts through a writer thread that batches
INSERTs; a subscriber polls the rows of its session, calls back and marks the
rows delivered. There are two engines: Ruby (`lib/`, `app/`) and Rust
(`ext/solid_mcp_native`), the second an opt-in replacement of the first.

## Inventory

| Part | State it keeps | Operations | Module |
|---|---|---|---|
| Ruby `MessageWriter` (`lib/solid_mcp/message_writer.rb`) | a `SizedQueue`, `@shutdown`, a dropped count, an executor with one thread; the thread's batch and flush markers | `enqueue`, `flush`, `shutdown`; in the thread `run_loop`, `drain_batch`, `write_batch` | `MessageWriter` |
| Ruby `Subscriber` (`subscriber.rb`) | `@running`, `@last_message_id`, `@retry_count`, a timer task | `start`, `stop`, `poll_once` | `Subscriber` |
| Ruby `PubSub` (`pub_sub.rb`) | the maps `@subscriptions` and `@listeners` | `subscribe`, `unsubscribe`, `broadcast`, `shutdown` | `PubSub` |
| Message table (`app/models/solid_mcp/message.rb`, the migration, `cleanup_job.rb`) | rows with an id and `delivered_at` | INSERT, `mark_delivered`, `cleanup` | `MessageStore` |
| Rust `MessageWriter` (`core/src/writer.rs`) | an mpsc channel of commands, one task with a batch and flush waiters | `enqueue`, `enqueue_async`, `flush`, `shutdown`, drop | `NativeWriter` |
| Rust `Subscriber` (`core/src/subscriber.rs`) | a task, `shutdown`, `last_id` | `new`, `stop`, polling loop, LISTEN/NOTIFY loop | `NativeSubscriber` |
| Rust `PubSub` (`core/src/pubsub.rs`) | an `RwLock` of subscribers by session, an `Arc` of the writer | `subscribe`, `unsubscribe`, `broadcast`, `flush`, `mark_delivered`, `cleanup`, `shutdown` | `NativePubSub` |
| Rust database layer (`core/src/db/`) | a connection pool | `insert_batch`, `fetch_after`, `mark_delivered`, cleanup, `max_id`, `listen`, `notify` | in `NativeWriter`, `NativeSubscriber` |
| Bridge (`ffi/src/lib.rs`, `native_speedup.rb`) | one engine per native thread, the runtime's threads; `@native_initialized` in the override | `init`, `init_with_config`, `broadcast`, `flush`, `mark_delivered`, `cleanup`, `shutdown` | `NativeBridge` (not the override) |
| `TestPubSub`, configuration, logger, engine, generators | settings | | not modelled |

How they interact: `PubSub#broadcast` calls `MessageWriter#enqueue` from any
thread; the worker thread alone takes from the queue and writes the table; a
listener of `PubSub` is a `Subscriber`, whose timer thread reads and updates
the table and calls the application's callbacks; the cleanup job deletes rows
under everybody. `PubSub#shutdown` stops the listeners and then shuts the
writer down. Processes share nothing but the table. The Rust engine has the
same shape, with tasks for threads; Ruby reaches it through the functions of
the bridge, which block the calling thread on the runtime.

What is hard, and what correct means there:

* **The writer**: producers, flush calls and a shutdown race with the worker's
  checks. No accepted message may disappear, batches keep the order of
  acceptance, a failed batch is settled once, the worker leaves only when what
  came before the shutdown is settled, and flush means something when it returns.
* **The subscriber**: other processes write, mark and delete the same rows
  between a poll's SELECT, its callbacks and its UPDATE, each of which may fail.
  Order and no repetition per subscriber, nothing skipped, nothing marked that
  nobody handled (which the code does not keep, see *Findings*).
* **PubSub**: the calls of one method on two concurrent maps are not one step.
  One listener per session, none out of reach, no callback without a listener.
* **The Rust subscriber**: a task that polls or listens while rows come and go,
  a `stop` that stops waiting before the task has ended. Order, no repetition,
  nothing skipped, and a stopped task ends in either loop.
* **The Rust writer**: flush futures can be cancelled, commands of three kinds
  share a bounded channel, the owner may shut down or just drop the writer.
* **The Rust PubSub**: calls keep a fair lock over awaits, any of them may be
  cancelled there, tasks die unnoticed, a shutdown can be cancelled between two
  subscribers. No task beyond reach, a complete shutdown, no call that waits
  for ever.
* **The bridge**: an engine per native thread that `init` may replace while it
  is busy, calls that keep Ruby's global lock while they wait. What flush and
  shutdown mean to their thread, order across engines, no freeze.
* **The whole**: from `broadcast` to callback through processes that crash and
  INSERTs that fail or commit out of order. What a subscriber may rely on.

`PROJECT.json` lists each hazard at its line with the properties that watch it.

## Modules

* `WriterPromise`: what a writer of either engine promises. Tickets (positions
  of acceptance) are settled in order, once, a batch at a time, all of a batch
  stored or none; at most `Capacity` accepted messages exist in memory only.
* `MessageWriter`: one action per step of a thread. `Enqueue`/`EnqueueDropped`
  are the two outcomes of `enqueue`; `FlushCheck`, `FlushPush`, `FlushTimesOut`
  the steps of `flush`; `ShutdownSetFlag`, `ShutdownExecutor`, `ShutdownEnds`
  those of `shutdown`. The worker's program counter `worker` is at `top` (the
  loop's check), `wait` (the timed pop of `drain_batch`), `fill`, `signal`
  (the latches), `write`, `rescue`, or has `exited`, or is `aborted` when the
  rescue clauses themselves raised. A message is its ticket: contents never
  decide anything in the writer. `WriteFails` covers an INSERT that stored
  nothing and one whose connection broke after the commit.
* `MessageWriterProofs`: the theorems about `MessageWriter`.
* `MessageStore`: the rows of one session. Ids are assigned when an INSERT
  runs and seen when it commits, so two writing processes may commit out of
  order; a batch commits as a whole. `Cleanup` deletes any set of old rows
  (ages are not modelled: any visible row may be old enough).
* `Subscriber` (extends `MessageStore`): several subscribers of the session. A
  poll is `PollBegins`, `Fetch`, one `CallbacksSucceed`, `NobodyToCall` or
  `CallbackRaises` per message, `Mark`. `callbacks` is what `PubSub` handed over:
  `nil` or an array still empty (both come from the races of finding 3, at
  `pub_sub.rb:17,49`), or one with callbacks; `FirstCallback` is the append that
  may come late. An empty array makes every round a success: the cursor advances
  and the row is marked, with nobody called. `FetchFails`, `ProcessFails` (over
  `nil`), `CallbackLogRaises` and `MarkFails` lead into the rescue clause. The
  logger may raise there too, before the code reaches the stop at the retry limit
  (`unlogged`), and over a callback that raised. `Crash` ends a process anywhere.
  `heard`, `unheard` and `raised` are histories of what the callbacks did: all
  succeeded, there were none, one raised.
* `Delivery`: what the subscribers of a session may rely on: each is passed
  accepted messages, those of one writer in order, none twice. Messages may be
  missing. A message is passed when a round of callbacks succeeds for it; one of
  several callbacks may have been called before in a round in which another
  raised (then the subscriber meets the row again only if the UPDATE failed too).
* `Pipeline` (extends `Subscriber`): the writers of the session's messages join
  its subscribers over the table. A writer is any that keeps `WriterPromise`:
  `Accept`, then `Insert` and `InsertEnds` for each batch, in order.
  `WriterCrash` ends its process with what it had accepted, and the database
  ends the statement in flight by itself (`InsertEndsAlone`). `message` is a
  history: which message each id of the table belongs to. `passed`, computed
  from it and from `heard`, is the mapping onto `Delivery`.
* `PubSub`: the steps of `subscribe`, `unsubscribe` and `shutdown` on the two
  maps of one session. Every call of a map is one step; `compute_if_absent`
  runs its block under the map's lock, so creating, starting and registering a
  listener is one step. Callback arrays and listeners are named after the
  subscribe call that made them. `raced` and `before` are histories.
* `NativeWriter`: the Rust writer and the ownership rules around it (`flush`
  borrows the writer, `shutdown` consumes it, so neither can overlap the other).
* `NativePubSub` (instantiates `NativeWriter`): the engine with its writer, the
  lock and the map of subscribers. A call is `waiting` in the lock's queue,
  `connecting` (the await of `max_id`), `stopping` (the await of the task's end),
  then has a result; `Cancel` drops its future at any of these. `engine` goes from
  `open` through `stopping` and `flushing` to `closed`, or is `abandoned` by a
  drop or a cancelled shutdown. Shutdown takes the engine by value, so nothing
  else is in progress then. A task is running until it sees its flag or dies by
  itself; what it does is `NativeSubscriber`'s subject.
* `NativeBridge`: the functions Ruby calls. `gvl` and `call` are the one call that
  may be in progress, since none gives the global lock away; `slot` is the
  thread-local engine, `closing` the engine a shutdown has taken out of it. An
  engine is what `NativePubSub` shows of it (everything accepted is written in
  order, whatever becomes of the engine: `EngineEnds`), and the writers of
  all engines run side by side. `replaced` is a history: the threads whose `init`
  dropped an engine that had messages to write. `inTransaction` are the threads
  whose Ruby code holds rows of the table in a transaction of its own (external:
  ActiveRecord), `awaited` those whose rows a `mark_delivered` or `cleanup` in
  progress wants: any set of them, the calling thread included. The call cannot
  return while one of these is open (`Blocked`), and a transaction ends only when
  Ruby runs; `QueryGivesUp` is the database's way out of it.
* `NativeSubscriber` (extends `MessageStore`): one subscriber, since it writes
  nothing that another could see. `task` is its place in either loop:
  `catchUp`/`catching`/`connect` before LISTEN, `check`, `recv`, `fetch`,
  `deliver`, `sleep` after it, and `done`. `listening` chooses the loop and never
  changes. `Inserts`, `CleanupDelivered`, `CleanupUndelivered` and
  `ApplicationMarks` are the statements of the database layer that others
  run, `Notification` what comes from outside: nothing in the repository marks
  rows for this subscriber or calls `notify`. Its start
  at `max_id` may lie beyond the rows of the session, for the query reads the
  whole table. `first` and `heard` are histories.
* `SubscriberProofs`, `PipelineProofs`, `PubSubProofs`, `NativeWriterProofs`,
  `NativeSubscriberProofs`, `NativePubSubProofs`, `NativeBridgeProofs`: the
  theorems about the module each is named after.
* `MC*` modules instantiate these for TLC; operators whose comment starts with
  `Mutant:` are deliberately wrong versions of the definition after them, used
  to confirm that each property notices the mistake.

## Runs

| Run | Question | Bounds |
|---|---|---|
| `ruby_writer` | Is every message accounted for, ordered, and does the worker start, run and end as it should? Does the writer implement `WriterPromise`? | queue 2, batch 2, two flush calls, 3 accepted, 1 dropped |
| `ruby_flush_returns` | Does flush return? (Not always.) | queue 1, batch 1, one flush call |
| `ruby_subscriber` | Order, no repetition, nothing skipped, retries limited, and what can be lost | one writer, two subscribers with any callbacks, 2 rows, 2 per poll, limit 2 |
| `pipeline` | Do writers, table and subscriber together implement `Delivery`? Does what is accepted arrive? | two writers with 2 and 1 messages, batches of 2, one subscriber, 1 row per poll, no retry limit |
| `ruby_delivered` | Is a delivered row a processed row? (No.) | one writer, one subscriber |
| `ruby_pubsub` | One listener per session, none beyond reach (a shutdown may forget one), no callback revived | 3 subscribe calls, 2 unsubscribe calls, a shutdown |
| `ruby_pubsub_raced` | Is a callback subscribed in peace always listened for? (No.) | the same |
| `native_writer` | The same questions as `ruby_writer`, and flush waits for the write | channel 2, batch 2, two flush calls, 4 accepted |
| `native_pubsub` | Tasks within reach, a complete shutdown, no call stuck, with every call cancelled anywhere | two sessions, two subscribes, one unsubscribe, one flush, channel 1, one message |
| `native_bridge` | What do flush and shutdown mean to a Ruby thread? Which calls can freeze Ruby, and can Ruby get out of it? | two threads, three engines, queue 1 and batch 2, 2 messages per thread, any transactions |
| `native_subscriber` | Order, nothing skipped, delivery by polling, and stop ends the task | one writer, 3 rows, 2 per poll, 3 before LISTEN |
| `native_listen` | Does a listening subscriber hear what is inserted? (Not without notifications.) | one writer, 2 rows |

Why the bounds are enough for the cases of interest: a queue of two and a batch
of two fill up, overflow, and split markers and messages between batches in
every order; with three or four messages one batch is in hand while the queue
is full again. In `ruby_subscriber` (a million states, for the callbacks and the
logger multiply everything) a poll takes two rows, of which the first may raise and
leave the second unprocessed, or only the first while the second is in flight, and
two subscribers do so at once. `pipeline` adds a third row, rows that commit in
either order with one between them, and polls cut off by their limit. Three
subscribe calls with two unsubscribe calls give one call before, one between
and one after a removal. Two messages through one writing process and one
through another give every order of commits around a batch, and a batch that is
split. Two Rust subscribes may meet in one session or not (all assignments of
calls to sessions are initial states); three engines for two threads give a
thread a second one while the first still writes. `MaxAccepted`, `MaxDropped`,
`MaxId`, `MaxEngines` and `MaxSent` are the only bounds on counters, and stand
in guards; `LimitedRetries` selects the test environment's limit, with
`MaxRetries` the limit itself. Subscribers, writers and calls are symmetric;
the runs with symmetry check safety only. Deadlock is not checked, since every
system here may come to rest (nothing to write, nobody calling, everything shut
down).

### Fairness

`FairSpec` of `MessageWriter` asks only that the worker thread is scheduled
while it can run (`WF_vars(Worker)`): an operating system thread with its own
queue pops. `FairFlushSpec` adds that a flush call goes on and that a blocked
push succeeds if there is room again and again (a `SizedQueue` serves its
waiting threads), which makes the counterexample of `ruby_flush_returns` one of
the code and not of an idle scheduler. `PipelineFairSpec` assumes that a running
writer goes on and the database ends its statements, that a subscriber's timer
fires, that callbacks return and the logger does not raise over every one that
raised (`SF` of `Process`: an error may end a poll before it), and that SELECT
and UPDATE, attempted again and again, succeed some day (`SF` of `Fetch` and
`Mark`); not that any INSERT succeeds, nor that a listener has callbacks:
`AcceptedIsPassedOn` excepts one that was started with `nil`, and `OutOfReach`
lists what was taken before the first callback was there. `FairSpec` of
`NativeWriter` assumes that the runtime polls the task, that a pending send is
served (tokio's channel is first come, first served) and that the owner polls
its shutdown. `FairSpec` of `NativeSubscriber` assumes that the runtime polls
the task, that callbacks return, that a fetch attempted again and again succeeds
some day and that a notification that is there is received; not that anybody
sends one. `FairSpec` of `NativePubSub` adds to the writer's that awaited
futures are polled, that `max_id`, a plain SELECT that waits for no row lock, is
answered by the database or fails, and that a task looks at its flag again and
again, which `StopEndsTask` shows. `FairSpec` of `NativeBridge` assumes that the
runtime runs its tasks, that a `block_on` whose future is ready returns, and
that the database answers a statement, if only with an error, unless it waits
for a transaction of this very process. For one that does, nothing is assumed:
`QueryGivesUp` has no fairness. The SQLite pool has a `busy_timeout`
(`sqlite.rs:25`), the PostgreSQL pool only an `acquire_timeout`
(`postgres.rs:28`), which does not end a statement that runs. INSERTs of the
writer's tasks wait for no row lock on PostgreSQL, and on SQLite for 30 seconds
at most; that no Ruby transaction locks the whole PostgreSQL table is an
assumption. Nobody is ever assumed to call `enqueue`, `flush`, `stop` or
`shutdown`.

## Findings

Each is a claim of a comment, a test or the README that the code does not keep,
with a run whose counterexample shows it.

1. `flush` may block for ever: its push has no time limit, and nobody pops once
   the worker has ended (`message_writer.rb:83`, against the comments at 81 and 89).
2. Rows are marked delivered that no callback processed (`subscriber.rb:51`,
   against `README.md:120`). There are two ways. In the run, a callback raises,
   and the row is marked with the rest of the poll. The other is an array of
   callbacks to which nobody has appended yet: one call's array is removed by an
   `unsubscribe`, a second call creates a new one, the first starts a listener
   with it, and a poll before the append counts every row as a success
   (`subscriber.rb:78-94`). `DeliveredIsHeard` takes such a row as processed by
   all the callbacks there were, so that its counterexample needs no race.
   `LostOnlyByCallbacks` is what does hold: a callback that raised for the row or
   an earlier one, or callbacks that were not there yet, are the only reasons.
3. An unsubscribe racing a subscribe leaves a registered listener without
   callbacks, which silences every later subscriber of the session
   (`pub_sub.rb:49`, against `README.md:101-102`). `ListenedUnlessRaced` is
   what does hold.
4. A listening Rust subscriber hears nothing that is inserted after its
   catch-up: nothing in the repository calls `notify` (`subscriber.rs:212`,
   against `subscriber.rs:4`). `PolledIsHeard` is what holds of the other loop.

Three things the models take note of without a finding. `mark_delivered` and
`cleanup` of the bridge keep Ruby's global lock while they wait for rows; when a
Ruby thread of the same process holds these in an open transaction, neither can go
on (`Deadlocked`). The PostgreSQL engine then stands still for ever, with
the whole Ruby process, the SQLite engine until `busy_timeout`. `LockIsReleased`
excepts this state, and `DeadlockLasts` says that nothing in the process can end
it. The Ruby `flush` counts its
latch down before the batch in hand is written (`message_writer.rb:168`), so a
return does not mean that the rows are in the table, as `pub_sub_test.rb:32`
hopes; the proved `FlushEmptiesQueue` is what does hold. And what `OutOfReach`
lists in `Pipeline` is the price of a cursor by id: a row whose INSERT commits
after a later row of another process was passed on is never fetched by that
subscriber.

## Proofs

`MessageWriterProofs` proves, for every queue size, batch size, set of flush
calls and number of messages (from `WriterAssumption` alone: the sizes are
positive, the marker of "no latch" is no flush call): `TypeCorrect`,
`MessagesConserved`, `FlushCorrect`, `ExitCorrect`, and `Refinement`, that the
writer implements `WriterPromise` with capacity queue plus batch.

The inductive invariant `IInv` exists because none of these is inductive.
`Conserved` says where a ticket is, and to keep it through a pop one must know
that the item popped is the next ticket. So `IInv` says that the tickets run in
one unbroken chain: outcomes are 1, 2, ... (`InOrder`), the batch continues
them, and the queue continues the batch (`Chain`): numbers never fall, rise by
at most one per position and rise at every message, cover what is missing, and
end at the last ticket accepted. A marker carries the number of messages
accepted before it (`MarkersOK`), so when it leaves the queue those have left
before it, which is `FlushEmptiesQueue`. `WorkerOK` and `StopOK` tie the
worker's position to what it has in hand and to the shutdown. Three lemmas say
what `Append` and `Tail` make of a chain, one lemma per group of actions shows
that `IInv` is kept, and the properties follow without further induction.
`StepKeepsPromise` maps each step to a step of `WriterPromise` or to a stutter.

`SubscriberProofs` proves, for any number of subscribers, writers and rows and
for all limits (from `StoreAssumption` and `SubscriberAssumption`),
`TypeCorrect`, `OrderCorrect` and `LossCorrect`, and for a single writing
process `NothingSkipped`, whatever callbacks each was handed and whenever the
logger raises. `TypeCorrect` includes what is left of the retry limit: a
subscriber polls on after `max_retries` failures in a row only if the logger
raised over the last of them. Order rests on the cursor: everything heard is at or
before `last_message_id` and everything in hand after it (`CursorOK`), so the
next message extends the history. What may be marked rests on `PollOK`: a
fetched row that is no longer in hand was heard, or a callback raised for it or
an earlier one, or it was taken before there was any callback (`UnheardOK`: all
rows so taken lie before everything heard or raised over, since the append comes
once), and that survives the other subscribers' steps because histories only
grow. Skipping needs the table too, and one writer: rows whose
INSERT has not ended lie behind all that was ever seen (`Ordered`), hence
behind every cursor and every row in hand (`Complete`), so that no row can
appear in front of one already fetched. With two writers that is false (rows
commit out of order), and `CursorSkipsNothing` with it.

`PipelineProofs` proves, for any number of writers, subscribers and messages
and all sizes (from `PipelineAssumption` and those before it),
`PipelineIsSubscriber` (every step is a step of `Subscriber` or a stutter, so
the theorems above hold of the pipeline), `PipelineTypeCorrect`, and
`DeliveryCorrect`: the pipeline implements `Delivery`. The invariant `PInv`
adds to `Subscriber`'s that the messages of one writer have ids in their order
(`MessagesOrdered`) up to the ticket its statement in flight reaches, and that
nothing in hand or heard lies beyond the ids begun (`IdsBegun`). Since a
subscriber's ids increase, its messages of each writer do then. `NextIds` is
the lemma that carries the weight: a batch takes the ids right after those
begun. `StepKeepsDelivery` maps a step to `Accept`, to `Pass` (a successful
round of callbacks), or to a stutter.

`PubSubProofs` proves, for any number of `subscribe` and `unsubscribe` calls
(from `PubSubAssumption`), `TypeCorrect`, `LeaksBounded`, `SilenceKept` and
`ListenersKept`. The maps hold at most one array and one listener, named after
the calls that made them, so `NamesOK` says what a call's place tells of its own
names: an array exists from the call's first step on, a listener only after its
last. `LeaksOK` counts: a listener that runs unregistered is in the hands of an
`unsubscribe` about to stop it, or is the single one that a shutdown iterating
over the map can miss. `SilentOK` says that the
callbacks an `unsubscribe` was to silence are not in the registered array, and
that a listener which still has them is one that this call will remove or that
some call is about to stop. `ListenedOK` is the part that `raced` protects: if no
removal overlapped a subscribe, then during a removal nothing is subscribed, and
outside one every live callback is in the registered array and a listener of
that array is registered. `ShutdownOK` says what the shutdown's snapshot took and
what it missed.

`NativeWriterProofs` proves, for all sizes, flush calls and message counts (from
`NativeWriterAssumption`), `TypeCorrect`, `FlushCorrect`, `ShutdownCorrect` and
`Refinement` of `WriterPromise`. The chain of tickets is that of
`MessageWriterProofs`; a command other than a message repeats the number of its
predecessor. `FlushesOK` follows a flush call from its command in the channel
(which carries the number of messages before it) to the waiters of the task, and
says that a waiter is answered only after the batch in hand is written, which is
where the Rust engine is stronger than the Ruby one (`BatchOK`: the batch is
empty when the task answers). `OwnerOK` says that the
shutdown command is the last in the channel (its sender has consumed the
writer), so the task that has drained the channel has everything.

`NativePubSubProofs` proves, for any sessions, calls and sizes (from
`NativePubSubAssumption`), first `UsesWriter`: the engine does to its writer
only what `NativeWriter` allows. The theorems about `NativeWriter` are then
taken over by INSTANCE, for the state the engine shares with it: `FlushCorrect`
and `Refinement` hold of the engine as they do of the writer. `TypeCorrect`,
`TasksInReach` and `ShutdownCorrect` need `EInv`: the lock's queue is exactly
the calls in progress, each once, and only its head is past the lock (`LockOK`,
through `Cancel` at any place of the queue); so nobody else touches the map
while a subscribe connects (`ConnectingOK`), which is why the insert replaces
nothing; and a shutdown finds the queue empty and leaves the map empty before it
consumes the writer (`PhaseOK`).

`NativeSubscriberProofs` proves, for any rows, writers and limits (from
`StoreAssumption` and `NativeSubscriberAssumption`), `TypeCorrect` and
`OrderCorrect`, and for one writing process `NothingSkipped`. The argument is
that of `SubscriberProofs`, for either loop, with one difference. The first
cursor is `max_id` of the whole table: it need not be the id of one of the
session's rows and may lie beyond all of them, even at an id whose INSERT is
still open. So `Complete` puts only a cursor that has moved among the ids
already seen, and what the subscriber does not skip is what lies after its first
cursor.

`NativeBridgeProofs` proves, for any number of threads, engines and messages
(from `NativeBridgeAssumption`), `TypeCorrect`, `SettledCorrect`,
`OrderCorrect`, `NothingLost` (what a thread sent is written or waits in an
engine, replaced or not) and `DeadlockStays`: while a statement waits for a Ruby
transaction of the process, every step but the database's giving up keeps it
waiting, since every call, every commit and every end of a thread needs the lock
that the statement's call has. A thread whose engine was not replaced has all its
unwritten messages in one place, the engine in its slot or the one it is shutting
down (`HomeOK`); hence when that engine is empty everything is written. For the
order, a backlog is one run of consecutive messages of one thread (`RunOK`) that
ends at the last message sent if the thread still owns the engine (`LastOK`) and
begins after what is written (`FirstOK`). Consecutive runs of one thread are
thus written one after the other, unless `init` replaced an engine that had
messages left: then two engines race, as the model's `replaced` records.

Only model-checked: the liveness properties (`AcceptedIsSettled`,
`ShutdownStopsWorker`, `AcceptedIsPassedOn`, `StopEndsTask`, `PolledIsHeard`,
`FlushReturns`, `OwnerEnds`, `CallsReturn`, `EngineEnds`, `AcceptedIsWritten`,
`LockIsReleased`), which are beyond this prover: they rest on fairness and
ENABLED. Every invariant and every refinement that a passing run checks has a
theorem. Four of them are narrower than the property's name suggests, as the
runs are: `CursorSkipsNothing` and `SkipsNothing` are proved for one writing
process, and `ListenedUnlessRaced` and `OrderedUnlessReplaced` carry their
exception in their statement. `LockIsReleased` has no safety half to prove but
`DeadlockLasts`, which says that its exception is final.

## Not modelled, and why

The contents of messages, time (an interval that passes is a step that may be
taken), SQL text, logging (a logger that raises is modelled in the two Ruby
classes that go on after an error: the writer's worker and the subscriber's
poll), `reset!` and forks, configuration and generators. `TestPubSub` is
sequential. How long `stop` waits for a poll in flight is the timer library's
business: the modules let such a poll go on in every case. Row ages are
abstracted to "any row may be old". A Rust flush that is cancelled and the
owner's calls follow Rust's borrow rules, which the compiler enforces.

The override in `native_speedup.rb` is not modelled: the shipped code does not
prepend it (line 137), and its `initialize` calls
`configuration.database_config` (line 66), which no configuration defines.
The transactions of Ruby code in `NativeBridge` hold rows, never the whole
table, and are of this process: those of others are assumed to end.
`NativeBridge` ends with its process: a fork copies the runtime without its
threads, and an exit loses what the engines have not written. Because ages are
left out, so is what SQLite makes of timestamps written by the two engines in
different formats (a hazard in `PROJECT.json`).

## Plan

Every part with behaviour over time is modelled, and every safety property
checked is proved. What is left, in this order:

1. The bridge's engines: an abstract engine stated once, which `NativePubSub`
   implements and `NativeBridge` instantiates per thread, so that
   `NativePubSubProofs!Refinement` is cited there and not only described.
2. Action properties: a cursor never goes back, a settled outcome never
   changes, a shut-down engine accepts nothing.
3. The safety half of the liveness properties, where the invariants give it: a
   flush that waits has its command ahead in the channel, a call that waits for
   the lock has a holder ahead of it.
