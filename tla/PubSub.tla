------------------------------- MODULE PubSub -------------------------------
(***************************************************************************)
(* lib/solid_mcp/pub_sub.rb: threads that subscribe to, unsubscribe from   *)
(* and shut down one session, over the two concurrent maps @subscriptions  *)
(* and @listeners.  Sessions share nothing but the maps, so one session is *)
(* the whole story of each.                                                *)
(*                                                                         *)
(* Every call on a map is atomic (compute_if_absent holds the map's lock   *)
(* while its block creates and starts the listener), the calls of one      *)
(* method are not.  A callbacks array and a listener are named after the   *)
(* subscribe call that created them.  broadcast only enqueues: see         *)
(* MessageWriter.  What a started listener does is in Subscriber; a poll   *)
(* in flight when it is stopped goes on to its end, and whether stop waits *)
(* for that is up to the timer library.                                    *)
(***************************************************************************)
EXTENDS Naturals, FiniteSets

CONSTANTS
    Subscribes,          \* calls of subscribe, each with its callback
    Unsubscribes,        \* calls of unsubscribe
    None                 \* no entry in a map; nil

ASSUME PubSubAssumption == None \notin Subscribes

VARIABLES
    subscriptions,       \* @subscriptions[session]: an array or None
    listeners,           \* @listeners[session]: a listener or None
    callbacks,           \* what each array holds
    array,               \* the array each listener calls back to, or None
    running,             \* listeners started and not told to stop
    sub,                 \* progress of each subscribe call
    mine,                \* its local: the array it got
    unsub,               \* progress of each unsubscribe call
    taken,               \* its local: the listener it removed, or None
    before,              \* history: subscribed when the call began
    down,                \* progress of the call of shutdown
    snapshot,            \* its local: the listener it iterates over, or None
    raced                \* history: subscribe calls that overlapped a removal

mapVars == <<subscriptions, listeners, callbacks>>
listenerVars == <<array, running>>
subVars == <<sub, mine>>
unsubVars == <<unsub, taken, before>>
downVars == <<down, snapshot>>
vars == <<mapVars, listenerVars, subVars, unsubVars, downVars, raced>>

Init ==
    /\ subscriptions = None
    /\ listeners = None
    /\ callbacks = [c \in Subscribes |-> {}]
    /\ array = [c \in Subscribes |-> None]
    /\ running = {}
    /\ sub = [c \in Subscribes |-> "idle"]
    /\ mine = [c \in Subscribes |-> None]
    /\ unsub = [u \in Unsubscribes |-> "idle"]
    /\ taken = [u \in Unsubscribes |-> None]
    /\ before = [u \in Unsubscribes |-> {}]
    /\ down = "idle"
    /\ snapshot = None
    /\ raced = {}

Subscribing == {c \in Subscribes : sub[c] \in {"append", "ensure"}}
Removing == \/ \E u \in Unsubscribes : unsub[u] \in {"delete", "stop"}
            \/ down \in {"stop", "clear"}
Returned == {c \in Subscribes : sub[c] = "returned"}

-----------------------------------------------------------------------------
(* subscribe: get or create the array, append the callback, ensure that a  *)
(* listener runs.                                                          *)

GetArray(c) ==
    /\ sub[c] = "idle"
    /\ subscriptions' = IF subscriptions = None THEN c ELSE subscriptions
    /\ mine' = [mine EXCEPT ![c] = subscriptions']
    /\ sub' = [sub EXCEPT ![c] = "append"]
    /\ raced' = IF Removing THEN raced \cup {c} ELSE raced
    /\ UNCHANGED <<listeners, callbacks, listenerVars, unsubVars, downVars>>

AppendCallback(c) ==
    /\ sub[c] = "append"
    /\ callbacks' = [callbacks EXCEPT ![mine[c]] = @ \cup {c}]
    /\ sub' = [sub EXCEPT ![c] = "ensure"]
    /\ UNCHANGED <<subscriptions, listeners, listenerVars, mine, unsubVars, downVars, raced>>

\* Mutant: the listener is registered and never started.
StartListenerForgotten(l) ==
    /\ listeners' = l
    /\ array' = [array EXCEPT ![l] = subscriptions]
    /\ UNCHANGED running

\* Subscriber.new(session_id, @subscriptions[session_id]).start, registered
\* under the session.
StartListener(l) ==
    /\ listeners' = l
    /\ array' = [array EXCEPT ![l] = subscriptions]
    /\ running' = running \cup {l}

\* Mutant: a listener is started without a look at the map.
EnsureListenerBlindly(c) ==
    /\ sub[c] = "ensure"
    /\ StartListener(c)
    /\ sub' = [sub EXCEPT ![c] = "returned"]
    /\ UNCHANGED <<subscriptions, callbacks, mine, unsubVars, downVars, raced>>

EnsureListener(c) ==
    /\ sub[c] = "ensure"
    /\ IF listeners = None THEN StartListener(c)
                           ELSE UNCHANGED <<listeners, array, running>>
    /\ sub' = [sub EXCEPT ![c] = "returned"]
    /\ UNCHANGED <<subscriptions, callbacks, mine, unsubVars, downVars, raced>>

-----------------------------------------------------------------------------
(* unsubscribe: delete the array, delete the listener, stop it.            *)

\* Mutant: only the listener is removed, the callbacks stay.
DeleteArrayForgotten(u) ==
    /\ unsub[u] = "idle"
    /\ before' = [before EXCEPT ![u] = Returned]
    /\ unsub' = [unsub EXCEPT ![u] = "delete"]
    /\ raced' = raced \cup Subscribing
    /\ UNCHANGED <<mapVars, listenerVars, subVars, taken, downVars>>

DeleteArray(u) ==
    /\ unsub[u] = "idle"
    /\ subscriptions' = None
    /\ before' = [before EXCEPT ![u] = Returned]
    /\ unsub' = [unsub EXCEPT ![u] = "delete"]
    /\ raced' = raced \cup Subscribing
    /\ UNCHANGED <<listeners, callbacks, listenerVars, subVars, taken, downVars>>

\* Mutant: the listener is looked up and stopped, not removed.
DeleteListenerForgotten(u) ==
    /\ unsub[u] = "delete"
    /\ taken' = [taken EXCEPT ![u] = listeners]
    /\ unsub' = [unsub EXCEPT ![u] = IF listeners = None THEN "returned" ELSE "stop"]
    /\ UNCHANGED <<mapVars, listenerVars, subVars, before, downVars, raced>>

DeleteListener(u) ==
    /\ unsub[u] = "delete"
    /\ taken' = [taken EXCEPT ![u] = listeners]
    /\ listeners' = None
    /\ unsub' = [unsub EXCEPT ![u] = IF listeners = None THEN "returned" ELSE "stop"]
    /\ UNCHANGED <<subscriptions, callbacks, listenerVars, subVars, before, downVars, raced>>

StopListener(u) ==
    /\ unsub[u] = "stop"
    /\ running' = running \ {taken[u]}
    /\ unsub' = [unsub EXCEPT ![u] = "returned"]
    /\ UNCHANGED <<mapVars, array, subVars, taken, before, downVars, raced>>

-----------------------------------------------------------------------------
(* shutdown: stop every listener of a snapshot of the map, clear the map.  *)
(* @subscriptions is left as it is.                                        *)

ShutdownBegins ==
    /\ down = "idle"
    /\ snapshot' = listeners
    /\ down' = IF listeners = None THEN "clear" ELSE "stop"
    /\ raced' = raced \cup Subscribing
    /\ UNCHANGED <<mapVars, listenerVars, subVars, unsubVars>>

ShutdownStops ==
    /\ down = "stop"
    /\ running' = running \ {snapshot}
    /\ down' = "clear"
    /\ UNCHANGED <<mapVars, array, subVars, unsubVars, snapshot, raced>>

ShutdownClears ==
    /\ down = "clear"
    /\ listeners' = None
    /\ down' = "returned"
    /\ UNCHANGED <<subscriptions, callbacks, listenerVars, subVars, unsubVars, snapshot, raced>>

-----------------------------------------------------------------------------
Subscribe(c) == GetArray(c) \/ AppendCallback(c) \/ EnsureListener(c)

Unsubscribe(u) ==
    DeleteArray(u) \/ DeleteListener(u) \/ StopListener(u)

Shutdown == ShutdownBegins \/ ShutdownStops \/ ShutdownClears

Next ==
    \/ \E c \in Subscribes : Subscribe(c)
    \/ \E u \in Unsubscribes : Unsubscribe(u)
    \/ Shutdown

Spec == Init /\ [][Next]_vars

-----------------------------------------------------------------------------
(* Properties.                                                             *)

\* Types; the registered listener is running, but for the moment after
\* shutdown stopped it.
TypeOK ==
    /\ subscriptions \in Subscribes \cup {None}
    /\ listeners \in running \cup {None, snapshot}
    /\ callbacks \in [Subscribes -> SUBSET Subscribes]
    /\ array \in [Subscribes -> Subscribes \cup {None}]
    /\ running \subseteq Subscribes
    /\ sub \in [Subscribes -> {"idle", "append", "ensure", "returned"}]
    /\ mine \in [Subscribes -> Subscribes \cup {None}]
    /\ unsub \in [Unsubscribes -> {"idle", "delete", "stop", "returned"}]
    /\ taken \in [Unsubscribes -> Subscribes \cup {None}]
    /\ before \in [Unsubscribes -> SUBSET Subscribes]
    /\ down \in {"idle", "stop", "clear", "returned"}
    /\ snapshot \in Subscribes \cup {None}
    /\ raced \subseteq Subscribes

\* Subscribed, and no unsubscribe has begun since.
Live == {c \in Returned : \A u \in Unsubscribes : c \notin before[u]}

Listened(c) ==
    /\ listeners \in running
    /\ array[listeners] # None
    /\ c \in callbacks[array[listeners]]

Quiet == Subscribing = {} /\ ~Removing

\* Between calls, every live callback has a running listener that calls it,
\* if no subscribe of the session ever overlapped an unsubscribe.
ListenedUnlessRaced ==
    (Quiet /\ raced = {} /\ down = "idle") => \A c \in Live : Listened(c)

\* A running listener is the registered one, or an unsubscribe call is about
\* to stop it, whatever subscribe calls race: no session is polled twice for
\* good, and no listener is beyond reach.  Shutdown forgets one at most, and
\* only one whose subscribe overlapped it or an unsubscribe.
NoListenerLeaks ==
    LET Leaked == {l \in running :
                     /\ l # listeners
                     /\ \A u \in Unsubscribes : ~(unsub[u] = "stop" /\ taken[u] = l)}
    IN  IF down = "returned" THEN Leaked \subseteq raced /\ Cardinality(Leaked) <= 1
                             ELSE Leaked = {}

\* Until a shutdown, once the unsubscribe calls have all returned, no running
\* listener holds a callback subscribed before one of them began: a new
\* subscriber of the session does not revive the callbacks of the old one.
UnsubscribedIsSilent ==
    (down = "idle" /\ ~Removing) =>
        \A u \in Unsubscribes, l \in running :
            array[l] # None => callbacks[array[l]] \cap before[u] = {}

-----------------------------------------------------------------------------
(* Claims of the documentation that the code does not keep.                *)

\* "Automatic listener management per session", "Thread-safe operations": a
\* callback subscribed while nobody unsubscribes is listened for, whatever
\* calls raced before.
SubscribedIsListenedTo ==
    (Quiet /\ down = "idle") => \A c \in Live \ raced : Listened(c)
=============================================================================
