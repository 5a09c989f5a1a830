------------------------------ MODULE Pipeline ------------------------------
(***************************************************************************)
(* From broadcast to callback: the writers of one session's messages and   *)
(* its subscribers (Subscriber), joined by the table (MessageStore).       *)
(*                                                                         *)
(* A writer is any that keeps WriterPromise, as MessageWriter and          *)
(* NativeWriter do: one statement inserts the next batch of what it        *)
(* accepted, and it goes on whatever that reports.  (A statement that      *)
(* fails leaves rows that nobody will see: compare MessageStore.)  What it *)
(* has accepted and not settled is lost with its process; the database     *)
(* ends the statement in flight without it.  The process that replaces it  *)
(* is another writer.                                                      *)
(***************************************************************************)
EXTENDS Subscriber

CONSTANTS
    Capacity,            \* accepted messages that may await their INSERT
    BatchSize,           \* configuration.batch_size
    MaxAccepted          \* bound: messages each writer accepts

ASSUME PipelineAssumption ==
    /\ Capacity \in Nat \ {0}
    /\ BatchSize \in Nat \ {0}
    /\ MaxAccepted \in [Writers -> Nat]

VARIABLES
    up,                  \* writers whose process runs
    accepted,            \* messages each writer accepted
    settled,             \* messages of each writer whose INSERT has ended
    message              \* history: the message of each id, from id 1 on

writerVars == <<up, accepted, settled>>
restVars == <<callbacks, running, pollVars, last, retryVars, histVars>>
pipelineVars == <<vars, writerVars, message>>

Pending(w) == accepted[w] - settled[w]

PipelineInit ==
    /\ Init
    /\ up = Writers
    /\ accepted = [w \in Writers |-> 0]
    /\ settled = [w \in Writers |-> 0]
    /\ message = <<>>

-----------------------------------------------------------------------------
Accept(w) ==
    /\ w \in up
    /\ Pending(w) < Capacity
    /\ accepted[w] < MaxAccepted[w]
    /\ accepted' = [accepted EXCEPT ![w] = @ + 1]
    /\ UNCHANGED <<vars, up, settled, message>>

\* The next k tickets of w.
Batch(w, k) == [i \in 1..k |-> [writer |-> w, n |-> settled[w] + i]]

\* Mutant: the rows are built from the batch in the wrong order.
InsertReversed(w) ==
    /\ w \in up
    /\ BeginInsert(w)
    /\ LET k == Cardinality(txn'[w])
       IN  /\ k <= Pending(w) /\ k <= BatchSize
           /\ message' = message \o [i \in 1..k |-> Batch(w, k)[k + 1 - i]]
    /\ UNCHANGED <<restVars, writerVars>>

\* insert_all of the next batch begins: the ids are in the order of the batch.
Insert(w) ==
    /\ w \in up
    /\ BeginInsert(w)
    /\ LET k == Cardinality(txn'[w])
       IN  /\ k <= Pending(w) /\ k <= BatchSize
           /\ message' = message \o Batch(w, k)
    /\ UNCHANGED <<restVars, writerVars>>

\* Mutant: whatever the batch held, it counts as a full one.
InsertEndsFull(w) ==
    /\ w \in up
    /\ \E outcome \in {"undelivered", "gone"} : EndInsert(w, outcome)
    /\ settled' = [settled EXCEPT ![w] = @ + BatchSize]
    /\ UNCHANGED <<restVars, up, accepted, message>>

\* All rows are there or none: the writer goes on in either case.
InsertEnds(w) ==
    /\ w \in up
    /\ \E outcome \in {"undelivered", "gone"} : EndInsert(w, outcome)
    /\ settled' = [settled EXCEPT ![w] = @ + Cardinality(txn[w])]
    /\ UNCHANGED <<restVars, up, accepted, message>>

WriterCrash(w) ==
    /\ w \in up
    /\ up' = up \ {w}
    /\ UNCHANGED <<vars, accepted, settled, message>>

\* The statement of a process that is gone.
InsertEndsAlone(w) ==
    /\ w \notin up
    /\ \E outcome \in {"undelivered", "gone"} : EndInsert(w, outcome)
    /\ UNCHANGED <<restVars, writerVars, message>>

WriterStep(w) ==
    \/ Accept(w)
    \/ Insert(w)
    \/ InsertEnds(w)
    \/ WriterCrash(w)
    \/ InsertEndsAlone(w)

CleanupStep == Cleanup /\ UNCHANGED <<restVars, writerVars, message>>

PipelineNext ==
    \/ \E w \in Writers : WriterStep(w)
    \/ CleanupStep
    \/ \E s \in Subscribers : SubscriberStep(s) /\ UNCHANGED <<writerVars, message>>

PipelineSpec == PipelineInit /\ [][PipelineNext]_pipelineVars

\* A writer that runs goes on writing, and the database ends what it began.
\* A subscriber's timer fires, and its callbacks return.  The database and the
\* logger may fail any number of times, but not every time from some moment on.
PipelineFairSpec ==
    /\ PipelineSpec
    /\ \A w \in Writers :
         WF_pipelineVars(Insert(w) \/ InsertEnds(w))
    /\ \A s \in Subscribers :
         /\ WF_pipelineVars(PollBegins(s) /\ UNCHANGED <<writerVars, message>>)
         /\ SF_pipelineVars(Process(s) /\ UNCHANGED <<writerVars, message>>)
         /\ SF_pipelineVars(Fetch(s) /\ UNCHANGED <<writerVars, message>>)
         /\ SF_pipelineVars(Mark(s) /\ UNCHANGED <<writerVars, message>>)

-----------------------------------------------------------------------------
(* Properties.                                                             *)

\* Types; the ids that were begun are those with a message, and a statement in
\* flight holds the next tickets of its writer.
PipelineTypeOK ==
    /\ TypeOK
    /\ up \subseteq Writers
    /\ accepted \in [Writers -> Nat]
    /\ settled \in [Writers -> Nat]
    /\ message \in Seq([writer : Writers, n : Nat \ {0}]) /\ Len(message) <= MaxId
    /\ RowsIn("none") = Ids \ 1..Len(message)
    /\ \A w \in Writers : settled[w] + Cardinality(txn[w]) <= accepted[w]

\* The messages passed on to each subscriber.
passed == [s \in Subscribers |-> [i \in 1..Len(heard[s]) |-> message[heard[s][i]]]]

\* Each subscriber is passed the messages of one writer in the order in which
\* they were broadcast there, none twice, whatever fails or crashes on the way.
\* A message is passed on when all callbacks succeeded for it: those that did
\* before, in a round in which another one raised, may be called again.
PerWriter == INSTANCE Delivery
DeliversInOrder == PerWriter!Spec

PassedOn(s, w, n) ==
    \E i \in 1..Len(heard[s]) : message[heard[s][i]] = [writer |-> w, n |-> n]

\* The INSERT of n failed, or somebody had its row marked or cleaned up; or
\* another writer's later row became visible first, and s moved its cursor on;
\* or s moved it on before its first callback was there.
OutOfReach(s, w, n) ==
    \E id \in 1..Len(message) :
        /\ message[id] = [writer |-> w, n |-> n]
        /\ \/ row[id] \in {"delivered", "gone"}
           \/ id \in unheard[s]
           \/ \E later \in unheard[s] \cup {heard[s][i] : i \in 1..Len(heard[s])} :
                later > id /\ message[later].writer # w

\* What a writer accepts is passed on to every subscriber that keeps running
\* with an array of callbacks, unless it is lost in one of these ways or its
\* writer's process ends.
AcceptedIsPassedOn ==
    \A s \in Subscribers, w \in Writers : \A n \in 1..MaxAccepted[w] :
        (running[s] /\ accepted[w] >= n)
            ~> \/ PassedOn(s, w, n)
               \/ OutOfReach(s, w, n)
               \/ ~running[s] \/ callbacks[s] = "nil"
               \/ w \notin up
=============================================================================
