----------------------------- MODULE Subscriber -----------------------------
(***************************************************************************)
(* lib/solid_mcp/subscriber.rb: subscribers that poll one session's rows   *)
(* of the message table, call back, and mark what they fetched delivered.  *)
(*                                                                         *)
(* Several subscribers of the session may be alive, each in a process of   *)
(* its own or one after the other, among writers and the cleanup job.  A   *)
(* poll is the steps fetch, one step per message, mark: the other actors   *)
(* move in between.  All callbacks of a message are called whatever the    *)
(* others do, so a message's round of callbacks is one step.  The timer    *)
(* runs one poll at a time.                                                *)
(*                                                                         *)
(* The array of callbacks is PubSub's, which may hand over one to which    *)
(* nobody has appended yet, or none at all.  The logger may raise.         *)
(***************************************************************************)
EXTENDS MessageStore, Sequences

CONSTANTS
    Subscribers,
    Limit,               \* rows fetched per poll (100)
    MaxRetries,          \* @max_retries where it is finite (3)
    LimitedRetries       \* whether it is: only if RAILS_ENV is "test"

ASSUME SubscriberAssumption ==
    /\ Limit \in Nat \ {0}
    /\ MaxRetries \in Nat \ {0}
    /\ LimitedRetries \in BOOLEAN

VARIABLES
    callbacks,           \* @callbacks: "nil", "empty", or "some"
    running,             \* @running
    poll,                \* where the subscriber's timer task is
    last,                \* @last_message_id
    fetched,             \* the poll's local: ids fetched
    todo,                \* the poll's local: ids not yet passed to callbacks
    retries,             \* @retry_count, counted while and as far as it matters
    heard,               \* history: ids whose callbacks all succeeded
    raised,              \* history: the lowest id for which a callback raised, or none
    unheard,             \* history: ids for which there was no callback
    unlogged             \* history: the logger kept the last failure from stop

pollVars == <<poll, fetched, todo>>
retryVars == <<retries, unlogged>>
histVars == <<heard, raised, unheard>>
vars == <<storeVars, callbacks, running, pollVars, last, retryVars, histVars>>

Init ==
    /\ StoreInit
    /\ callbacks \in [Subscribers -> {"nil", "empty", "some"}]
    /\ running = [s \in Subscribers |-> FALSE]
    /\ poll = [s \in Subscribers |-> "new"]
    /\ last = [s \in Subscribers |-> 0]
    /\ fetched = [s \in Subscribers |-> {}]
    /\ todo = [s \in Subscribers |-> {}]
    /\ retries = [s \in Subscribers |-> 0]
    /\ heard = [s \in Subscribers |-> <<>>]
    /\ raised = [s \in Subscribers |-> {}]
    /\ unheard = [s \in Subscribers |-> {}]
    /\ unlogged = [s \in Subscribers |-> FALSE]

-----------------------------------------------------------------------------
Start(s) ==
    /\ poll[s] = "new"
    /\ poll' = [poll EXCEPT ![s] = "sleep"]
    /\ running' = [running EXCEPT ![s] = TRUE]
    /\ retries' = [retries EXCEPT ![s] = 0]
    /\ UNCHANGED <<storeVars, callbacks, fetched, todo, last, unlogged, histVars>>

\* PubSub's subscribe appends to the array it has created.
FirstCallback(s) ==
    /\ callbacks[s] = "empty"
    /\ callbacks' = [callbacks EXCEPT ![s] = "some"]
    /\ UNCHANGED <<storeVars, running, pollVars, last, retryVars, histVars>>

\* stop returns when the poll in flight has ended, or after five seconds;
\* either way that poll goes on to its end.
Stop(s) ==
    /\ running[s]
    /\ running' = [running EXCEPT ![s] = FALSE]
    /\ UNCHANGED <<storeVars, callbacks, pollVars, last, retryVars, histVars>>

\* The process is gone with what the poll had in hand: a subscriber that is
\* stopped and has nothing to finish.
Crash(s) ==
    /\ running[s] \/ poll[s] \notin {"new", "sleep"}
    /\ running' = [running EXCEPT ![s] = FALSE]
    /\ poll' = [poll EXCEPT ![s] = "sleep"]
    /\ fetched' = [fetched EXCEPT ![s] = {}]
    /\ todo' = [todo EXCEPT ![s] = {}]
    /\ UNCHANGED <<storeVars, callbacks, last, retryVars, histVars>>

\* The timer fires: return unless running.
PollBegins(s) ==
    /\ poll[s] = "sleep"
    /\ running[s]
    /\ poll' = [poll EXCEPT ![s] = "fetch"]
    /\ UNCHANGED <<storeVars, callbacks, running, fetched, todo, last, retryVars, histVars>>

\* Mutant: the first row after the cursor is left out.
EligibleAfterNext(s) == {id \in RowsIn("undelivered") : id > last[s] + 1}

\* for_session.undelivered.after_id(last)
Eligible(s) == {id \in RowsIn("undelivered") : id > last[s]}

\* order(:id).limit(Limit)
FirstOf(ids) == {id \in ids : Cardinality({j \in ids : j < id}) < Limit}

Fetch(s) ==
    /\ poll[s] = "fetch"
    /\ LET found == FirstOf(Eligible(s))
       IN  /\ fetched' = [fetched EXCEPT ![s] = found]
           /\ todo' = [todo EXCEPT ![s] = found]
           /\ poll' = [poll EXCEPT ![s] = IF found = {} THEN "sleep" ELSE "process"]
    /\ UNCHANGED <<storeVars, callbacks, running, last, retryVars, histVars>>

NextMessage(s, id) == id \in todo[s] /\ \A j \in todo[s] : id <= j

\* The loop goes on to the message after id, or is through.
PassOver(s, id) ==
    /\ todo' = [todo EXCEPT ![s] = @ \ {id}]
    /\ poll' = [poll EXCEPT ![s] = IF todo[s] = {id} THEN "mark" ELSE @]

\* Mutant: the cursor is not advanced.
CallbacksSucceedNoCursor(s) ==
    /\ poll[s] = "process"
    /\ callbacks[s] = "some"
    /\ \E id \in Ids :
         /\ NextMessage(s, id)
         /\ PassOver(s, id)
         /\ heard' = [heard EXCEPT ![s] = Append(@, id)]
    /\ UNCHANGED <<storeVars, callbacks, running, last, fetched, retryVars, raised, unheard>>

CallbacksSucceed(s) ==
    /\ poll[s] = "process"
    /\ callbacks[s] = "some"
    /\ \E id \in Ids :
         /\ NextMessage(s, id)
         /\ PassOver(s, id)
         /\ last' = [last EXCEPT ![s] = id]
         /\ heard' = [heard EXCEPT ![s] = Append(@, id)]
    /\ UNCHANGED <<storeVars, callbacks, running, fetched, retryVars, raised, unheard>>

\* all_successful stays true though there is nobody to call.
NobodyToCall(s) ==
    /\ poll[s] = "process"
    /\ callbacks[s] = "empty"
    /\ \E id \in Ids :
         /\ NextMessage(s, id)
         /\ PassOver(s, id)
         /\ last' = [last EXCEPT ![s] = id]
         /\ unheard' = [unheard EXCEPT ![s] = @ \cup {id}]
    /\ UNCHANGED <<storeVars, callbacks, running, fetched, retryVars, heard, raised>>

\* A callback raised for the next message.
Raises(s) ==
    /\ poll[s] = "process"
    /\ callbacks[s] = "some"
    /\ \E id \in Ids :
         /\ NextMessage(s, id)
         /\ raised' = [raised EXCEPT ![s] = IF \E r \in @ : r < id THEN @ ELSE {id}]
    /\ UNCHANGED <<callbacks, heard, unheard>>

\* Mutant: the cursor is advanced whether the callbacks succeeded or not.
CallbackRaisesAndAdvances(s) ==
    /\ Raises(s)
    /\ \E id \in Ids : NextMessage(s, id) /\ last' = [last EXCEPT ![s] = id]
    /\ todo' = [todo EXCEPT ![s] = {}]
    /\ poll' = [poll EXCEPT ![s] = "mark"]
    /\ UNCHANGED <<storeVars, running, fetched, retryVars>>

\* The messages after one whose callback raised are not passed on, and
\* @last_message_id stays before it.
CallbackRaises(s) ==
    /\ Raises(s)
    /\ todo' = [todo EXCEPT ![s] = {}]
    /\ poll' = [poll EXCEPT ![s] = "mark"]
    /\ UNCHANGED <<storeVars, running, fetched, last, retryVars>>

\* Mutant: the UPDATE covers all rows of the session.
MarkWholeSession(s) ==
    /\ poll[s] = "mark"
    /\ row' = Delivered(Ids)
    /\ fetched' = [fetched EXCEPT ![s] = {}]
    /\ poll' = [poll EXCEPT ![s] = "sleep"]
    /\ retries' = [retries EXCEPT ![s] = 0]
    /\ unlogged' = [unlogged EXCEPT ![s] = FALSE]
    /\ UNCHANGED <<txn, callbacks, running, todo, last, histVars>>

\* Everything fetched is marked, processed or not.
Mark(s) ==
    /\ poll[s] = "mark"
    /\ row' = Delivered(fetched[s])
    /\ fetched' = [fetched EXCEPT ![s] = {}]
    /\ poll' = [poll EXCEPT ![s] = "sleep"]
    /\ retries' = [retries EXCEPT ![s] = 0]
    /\ unlogged' = [unlogged EXCEPT ![s] = FALSE]
    /\ UNCHANGED <<txn, callbacks, running, todo, last, histVars>>

\* Mutant: one retry too many before the subscriber stops.
RescueOnceMore(s) ==
    /\ fetched' = [fetched EXCEPT ![s] = {}]
    /\ todo' = [todo EXCEPT ![s] = {}]
    /\ poll' = [poll EXCEPT ![s] = "sleep"]
    /\ IF LimitedRetries
       THEN \E logs \in BOOLEAN :
              /\ retries' = [retries EXCEPT ![s] = IF @ < MaxRetries THEN @ + 1 ELSE @]
              /\ running' = [running EXCEPT ![s] = @ /\ (retries[s] < MaxRetries \/ ~logs)]
              /\ unlogged' = [unlogged EXCEPT ![s] = retries'[s] = MaxRetries /\ ~logs]
       ELSE UNCHANGED <<retryVars, running>>
    /\ UNCHANGED <<txn, last>>

\* The rescue clause, and the stop it calls when the retries are used up: but
\* it logs first, and when that raises the timer polls on.
Rescue(s) ==
    /\ fetched' = [fetched EXCEPT ![s] = {}]
    /\ todo' = [todo EXCEPT ![s] = {}]
    /\ poll' = [poll EXCEPT ![s] = "sleep"]
    /\ IF LimitedRetries
       THEN \E logs \in BOOLEAN :
              /\ retries' = [retries EXCEPT ![s] = IF @ < MaxRetries THEN @ + 1 ELSE @]
              /\ running' = [running EXCEPT ![s] = @ /\ (retries'[s] < MaxRetries \/ ~logs)]
              /\ unlogged' = [unlogged EXCEPT ![s] = retries'[s] = MaxRetries /\ ~logs]
       ELSE UNCHANGED <<retryVars, running>>
    /\ UNCHANGED <<txn, last>>

FetchFails(s) ==
    /\ poll[s] = "fetch"
    /\ Rescue(s)
    /\ UNCHANGED <<row, callbacks, histVars>>

\* @callbacks is nil: a race left the listener without an array (see PubSub).
ProcessFails(s) ==
    /\ poll[s] = "process"
    /\ callbacks[s] = "nil"
    /\ Rescue(s)
    /\ UNCHANGED <<row, callbacks, histVars>>

\* The logger raises over a callback that did: this poll marks nothing.
CallbackLogRaises(s) == Raises(s) /\ Rescue(s) /\ UNCHANGED row

\* The UPDATE raised: before it took effect, or after.
MarkFails(s) ==
    /\ poll[s] = "mark"
    /\ row' \in {row, Delivered(fetched[s])}
    /\ Rescue(s)
    /\ UNCHANGED <<callbacks, histVars>>

-----------------------------------------------------------------------------
Store ==
    StoreNext /\ UNCHANGED <<callbacks, running, pollVars, last, retryVars, histVars>>

Process(s) == CallbacksSucceed(s) \/ NobodyToCall(s) \/ CallbackRaises(s)

SubscriberStep(s) ==
    \/ Start(s)
    \/ FirstCallback(s)
    \/ Stop(s)
    \/ Crash(s)
    \/ PollBegins(s)
    \/ Fetch(s)
    \/ Process(s)
    \/ Mark(s)
    \/ FetchFails(s)
    \/ ProcessFails(s)
    \/ CallbackLogRaises(s)
    \/ MarkFails(s)

Next == Store \/ \E s \in Subscribers : SubscriberStep(s)

Spec == Init /\ [][Next]_vars

-----------------------------------------------------------------------------
(* Properties.                                                             *)

\* Types; a subscriber with limited retries polls on after as many failures in
\* a row only if the logger raised over the last one.
TypeOK ==
    /\ StoreTypeOK
    /\ callbacks \in [Subscribers -> {"nil", "empty", "some"}]
    /\ running \in [Subscribers -> BOOLEAN]
    /\ poll \in [Subscribers -> {"new", "sleep", "fetch", "process", "mark"}]
    /\ last \in [Subscribers -> 0..MaxId]
    /\ fetched \in [Subscribers -> SUBSET Ids]
    /\ todo \in [Subscribers -> SUBSET Ids]
    /\ retries \in [Subscribers -> 0..MaxRetries]
    /\ heard \in [Subscribers -> Seq(Ids)]
    /\ raised \in [Subscribers -> SUBSET Ids]
    /\ unheard \in [Subscribers -> SUBSET Ids]
    /\ unlogged \in [Subscribers -> BOOLEAN]
    /\ \A s \in Subscribers : running[s] /\ retries[s] = MaxRetries => unlogged[s]

Heard(s, id) == \E i \in 1..Len(heard[s]) : heard[s][i] = id

\* A subscriber's callbacks succeed for its messages in the order of their
\* ids, and never again for a message they succeeded for, though a failed
\* mark leaves the row undelivered and other subscribers poll the same rows.
HeardInOrder ==
    \A s \in Subscribers : \A i, j \in 1..Len(heard[s]) :
        i < j => heard[s][i] < heard[s][j]

\* No callback of s was called, or had raised, for id or anything before it.
BeforeCallbacks(s, id) ==
    /\ id \in unheard[s]
    /\ \A i \in 1..Len(heard[s]) : id < heard[s][i]
    /\ \A r \in raised[s] : id < r

\* A row that is marked delivered was passed to callbacks that all succeeded,
\* unless a callback raised for it or for an earlier message, or a subscriber
\* took it before its first callback was there.
LostOnlyByCallbacks ==
    \A id \in RowsIn("delivered") : \E s \in Subscribers :
        \/ Heard(s, id)
        \/ \E r \in raised[s] : r <= id
        \/ BeforeCallbacks(s, id)

\* With one writer, a row that waits undelivered behind a subscriber's cursor
\* is one that this subscriber has processed (its mark failed or is to come),
\* if only before its first callback was there.
CursorSkipsNothing ==
    \A s \in Subscribers : \A id \in RowsIn("undelivered") :
        id <= last[s] => Heard(s, id) \/ BeforeCallbacks(s, id)

-----------------------------------------------------------------------------
(* Claims of the documentation that the code does not keep.                *)

\* "Messages are marked as delivered after successful processing": by all the
\* callbacks there were, be it none.
DeliveredIsHeard ==
    \A id \in RowsIn("delivered") : \E s \in Subscribers :
        Heard(s, id) \/ id \in unheard[s]
=============================================================================
