-------------------------- MODULE NativeSubscriber --------------------------
(***************************************************************************)
(* ext/solid_mcp_native/core/src/subscriber.rs: a task that delivers the   *)
(* rows of one session to a callback, by polling (SQLite) or upon          *)
(* notifications (PostgreSQL), and the calls that start and stop it.       *)
(*                                                                         *)
(* A subscriber writes nothing to the table, so subscribers do not         *)
(* influence each other and one is the whole story: the application marks  *)
(* rows, and notifications come from outside (PostgresPool::notify has no  *)
(* caller in the repository).  A statement is one step, and so is a        *)
(* callback with the store of last_id after it.                            *)
(***************************************************************************)
EXTENDS MessageStore, Sequences

CONSTANTS
    Limit,               \* rows per fetch (100)
    CatchUpLimit         \* rows fetched before LISTEN (1000)

ASSUME NativeSubscriberAssumption ==
    /\ Limit \in Nat \ {0}
    /\ CatchUpLimit \in Nat \ {0}

VARIABLES
    listening,           \* PostgreSQL (or SQLite): fixed from the start
    task,                \* where the spawned task is
    shutdown,            \* the flag that stop sets
    last,                \* last_id
    todo,                \* the task's local: ids fetched, not yet delivered
    inbox,               \* notifications sent to the listener, not received
    first,               \* history: last_id the subscriber started with
    heard                \* history: ids delivered, in order

cursorVars == <<todo, last, heard>>
vars == <<storeVars, listening, task, shutdown, cursorVars, inbox, first>>

Init ==
    /\ StoreInit
    /\ listening \in BOOLEAN
    /\ task = "new"
    /\ shutdown = FALSE
    /\ last = 0
    /\ todo = {}
    /\ inbox = {}
    /\ first = 0
    /\ heard = <<>>

Goto(from, to) == task = from /\ task' = to

\* A step that only moves the task on.
Move(from, to) ==
    /\ Goto(from, to)
    /\ UNCHANGED <<storeVars, listening, shutdown, cursorVars, inbox, first>>

Visible == RowsIn("undelivered") \cup RowsIn("delivered")

-----------------------------------------------------------------------------
(* Subscriber::new and stop.                                               *)

\* Mutant: last_id is one past the highest id.
NewAtNext ==
    /\ \E id \in {0} \cup (Ids \ RowsIn("none")) :
         /\ \A seen \in Visible : seen <= id
         /\ first' = id + 1
         /\ last' = id + 1
    /\ Goto("new", IF listening THEN "catchUp" ELSE "check")
    /\ UNCHANGED <<storeVars, listening, shutdown, todo, heard, inbox>>

\* max_id: the highest visible id of the whole table, be it the session's or,
\* between the ids assigned so far, that of another session.
New ==
    /\ \E id \in {0} \cup (Ids \ RowsIn("none")) :
         /\ \A seen \in Visible : seen <= id
         /\ first' = id
         /\ last' = id
    /\ Goto("new", IF listening THEN "catchUp" ELSE "check")
    /\ UNCHANGED <<storeVars, listening, shutdown, todo, heard, inbox>>

\* stop sets the flag and waits at most five seconds for the task, which goes
\* on in any case.
Stop ==
    /\ task # "new"
    /\ ~shutdown
    /\ shutdown' = TRUE
    /\ UNCHANGED <<storeVars, listening, task, cursorVars, inbox, first>>

-----------------------------------------------------------------------------
(* Both loops: look at the flag, fetch, deliver what was fetched.          *)

Rest == IF listening THEN "check" ELSE "sleep"

\* Mutant: the loop goes on whatever the flag says.
CheckForgotten == Move("check", IF listening THEN "recv" ELSE "fetch")

Check ==
    Move("check", IF shutdown THEN "done" ELSE IF listening THEN "recv" ELSE "fetch")

\* Mutant: the first row after the cursor is left out.
EligibleAfterNext == {id \in RowsIn("undelivered") : id > last + 1}

\* Mutant: the cursor is not looked at.
EligibleIgnoringLast == RowsIn("undelivered")

\* WHERE delivered_at IS NULL AND id > last_id
Eligible == {id \in RowsIn("undelivered") : id > last}

\* Mutant: the newest rows are fetched, not the oldest.
LowestDescending(ids, limit) ==
    {id \in ids : Cardinality({j \in ids : j > id}) < limit}

\* ORDER BY id LIMIT limit
Lowest(ids, limit) == {id \in ids : Cardinality({j \in ids : j < id}) < limit}

Fetch ==
    /\ todo' = Lowest(Eligible, IF task = "catchUp" THEN CatchUpLimit ELSE Limit)
    /\ IF todo' = {} THEN Goto("catchUp", "connect") \/ Goto("fetch", Rest)
                     ELSE Goto("catchUp", "catching") \/ Goto("fetch", "deliver")
    /\ UNCHANGED <<storeVars, listening, shutdown, last, heard, inbox, first>>

\* The error is logged.
FetchFails == Move("catchUp", "connect") \/ Move("fetch", Rest)

Deliver ==
    /\ \E id \in todo :
         /\ \A other \in todo : id <= other
         /\ last' = id
         /\ heard' = Append(heard, id)
         /\ todo' = todo \ {id}
    /\ \/ Goto("catching", IF todo' = {} THEN "connect" ELSE "catching")
       \/ Goto("deliver", IF todo' = {} THEN Rest ELSE "deliver")
    /\ UNCHANGED <<storeVars, listening, shutdown, inbox, first>>

\* A callback that panics ends the task and nothing else.
CallbackPanics ==
    /\ Goto("catching", "done") \/ Goto("deliver", "done")
    /\ todo' = {}
    /\ UNCHANGED <<storeVars, listening, shutdown, last, heard, inbox, first>>

\* Polling: the interval has passed, or the flag was seen meanwhile.
Wake == Move("sleep", "check") \/ (shutdown /\ Move("sleep", "done"))

-----------------------------------------------------------------------------
(* The LISTEN loop.                                                        *)

\* listen fails: the task returns.
Connect == Move("connect", "check") \/ Move("connect", "done")

\* A notification is a reason to fetch if it names an id after last_id.
ReceiveNotification ==
    /\ \E id \in inbox :
         /\ inbox' = inbox \ {id}
         /\ Goto("recv", IF id > last THEN "fetch" ELSE "check")
    /\ UNCHANGED <<storeVars, listening, shutdown, cursorVars, first>>

\* A second passed, or the listener failed, which ends the task.
RecvEnds == Move("recv", "check") \/ Move("recv", "done")

-----------------------------------------------------------------------------
(* Everybody else: writers, PubSub::cleanup, an application that marks     *)
(* rows, and whatever sends notifications to the sessions listened to.     *)

Others == <<listening, task, shutdown, cursorVars, first>>

\* insert_batch: one statement for all the rows of a batch.
Inserts ==
    /\ \E w \in Writers :
         \/ BeginInsert(w)
         \/ \E outcome \in {"undelivered", "gone"} : EndInsert(w, outcome)
    /\ UNCHANGED <<Others, inbox>>

\* The retention decides which: the ages of rows are left open.
Deletes(state) ==
    /\ \E old \in SUBSET RowsIn(state) : old # {} /\ row' = Moved(old, "gone")
    /\ UNCHANGED <<txn, Others, inbox>>

\* Unlike the Ruby cleanup, two statements without a transaction.
CleanupDelivered == Deletes("delivered")
CleanupUndelivered == Deletes("undelivered")

ApplicationMarks ==
    /\ \E ids \in SUBSET RowsIn("undelivered") : ids # {} /\ row' = Delivered(ids)
    /\ UNCHANGED <<txn, Others, inbox>>

Notification ==
    /\ listening
    /\ task \in {"check", "recv", "fetch", "deliver"}
    /\ \E id \in Visible \ inbox : inbox' = inbox \cup {id}
    /\ UNCHANGED <<storeVars, Others>>

Task ==
    \/ Check
    \/ Fetch
    \/ FetchFails
    \/ Deliver
    \/ CallbackPanics
    \/ Wake
    \/ Connect
    \/ ReceiveNotification
    \/ RecvEnds

Next ==
    \/ New
    \/ Stop
    \/ Task
    \/ Inserts
    \/ CleanupDelivered
    \/ CleanupUndelivered
    \/ ApplicationMarks
    \/ Notification

Spec == Init /\ [][Next]_vars

\* The runtime polls the task and callbacks return; the database does not
\* fail every time, and a notification is received when it is there.
FairSpec ==
    /\ Spec
    /\ WF_vars(Task)
    /\ SF_vars(Fetch)
    /\ SF_vars(ReceiveNotification)

-----------------------------------------------------------------------------
(* Properties.                                                             *)

\* Types; last_id never goes beyond the ids that were assigned.
TypeOK ==
    /\ StoreTypeOK
    /\ listening \in BOOLEAN
    /\ task \in {"new", "check", "fetch", "deliver", "sleep", "catchUp",
                 "catching", "connect", "recv", "done"}
    /\ shutdown \in BOOLEAN
    /\ last \in 0..MaxId
    /\ todo \in SUBSET Ids
    /\ inbox \in SUBSET Ids
    /\ first \in 0..MaxId
    /\ heard \in Seq(Ids)

Heard(id) == \E i \in 1..Len(heard) : heard[i] = id

\* The callback gets ids in order, each at most once, and none from before
\* the subscription, whichever loop runs and whatever notifications say.
HeardInOrder ==
    /\ \A i \in 1..Len(heard) : first < heard[i]
    /\ \A i, j \in 1..Len(heard) : i < j => heard[i] < heard[j]

\* With one writer, a row of the subscription that is still undelivered
\* behind last_id was passed to the callback.
SkipsNothing ==
    \A id \in RowsIn("undelivered") : first < id /\ id <= last => Heard(id)

Alive == task \notin {"new", "done"} /\ ~shutdown

\* Once stop has set the flag the task ends, whether it polls, listens or
\* delivers, though stop itself waits only five seconds.
StopEndsTask == shutdown ~> task = "done"

Awaited(id) == Alive /\ row[id] = "undelivered" /\ id > last

\* A polling subscriber passes on every row that it is behind of, if it lives
\* on and the row stays.
PolledIsHeard ==
    \A id \in Ids :
        (~listening /\ Awaited(id)) ~> (Heard(id) \/ ~Awaited(id))

-----------------------------------------------------------------------------
(* Claims of the comments that the code does not keep.                     *)

\* "PostgreSQL: Uses LISTEN/NOTIFY for real-time delivery (no polling)": a
\* listening subscriber gets the rows that are inserted.
ListenedIsHeard ==
    \A id \in Ids :
        (listening /\ Awaited(id)) ~> (Heard(id) \/ ~Awaited(id))
=============================================================================
