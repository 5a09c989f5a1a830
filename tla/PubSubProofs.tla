---------------------------- MODULE PubSubProofs ----------------------------
(***************************************************************************)
(* Proofs about PubSub, for any number of threads that subscribe and       *)
(* unsubscribe while the process shuts down.                               *)
(*                                                                         *)
(* No step of the three methods is guarded by another thread's progress,   *)
(* so the invariant says where each race leaves the maps: NamesOK that an  *)
(* array or a listener is never put back once removed, LeaksOK where every *)
(* running listener is, SilentOK which listeners may still call callbacks  *)
(* that were unsubscribed, ListenedOK what holds while nothing has raced.  *)
(***************************************************************************)
EXTENDS PubSub, FiniteSetTheorems, TLAPS

\* What is called after a subscribe call exists only once that call made it.
NamesOK ==
    /\ \A c \in Subscribes : sub[c] = "idle" => callbacks[c] = {}
    /\ subscriptions # None => sub[subscriptions] # "idle"
    /\ \A c \in Subscribes : mine[c] # None => sub[mine[c]] # "idle"
    /\ running \subseteq Returned
    /\ listeners \in Returned \cup {None}
    /\ snapshot \in Returned \cup {None}
    /\ \A u \in Unsubscribes : taken[u] \in Returned \cup {None}
    /\ \A u \in Unsubscribes : unsub[u] = "stop" =>
         taken[u] # None /\ taken[u] # listeners
    /\ \A u \in Unsubscribes : before[u] \subseteq Returned

\* What shutdown took and did not take into its snapshot.
ShutdownOK ==
    /\ down = "idle" => snapshot = None
    /\ down \in {"clear", "returned"} => snapshot \notin running
    /\ down \in {"stop", "clear"} =>
         Subscribing \subseteq raced /\ listeners \in raced \cup {None, snapshot}

\* An unsubscribe call has l in hand and will stop it.
BeingStopped(l) ==
    \E u \in Unsubscribes : unsub[u] = "stop" /\ taken[u] = l

Leaked == {l \in running : l # listeners /\ ~BeingStopped(l)}

LeaksOK ==
    IF down = "returned"
    THEN Leaked \subseteq raced /\ \A k, l \in Leaked : k = l
    ELSE Leaked = {}

SilentOK ==
    down = "idle" => \A u \in Unsubscribes :
        /\ subscriptions # None => callbacks[subscriptions] \cap before[u] = {}
        /\ \A l \in running :
             array[l] # None /\ callbacks[array[l]] \cap before[u] # {} =>
                 (unsub[u] = "delete" /\ l = listeners) \/ BeingStopped(l)

\* Subscribe calls and unsubscribe calls took turns.
ListenedOK ==
    raced = {} /\ down = "idle" =>
        IF Removing
        THEN /\ Subscribing = {}
             /\ Live = {}
             /\ subscriptions = None
             /\ (\A u \in Unsubscribes : unsub[u] # "delete") => listeners = None
        ELSE /\ \A c \in Subscribing : mine[c] = subscriptions /\ subscriptions # None
             /\ \A c \in Subscribes : sub[c] = "ensure" => c \in callbacks[subscriptions]
             /\ listeners # None =>
                  subscriptions # None /\ array[listeners] = subscriptions
             /\ \A c \in Live : listeners # None /\ c \in callbacks[subscriptions]

IInv ==
    /\ TypeOK
    /\ NamesOK
    /\ ShutdownOK
    /\ LeaksOK
    /\ SilentOK
    /\ ListenedOK

-----------------------------------------------------------------------------
(* The invariant, action by action.                                        *)

\* A new PubSub satisfies the invariant.
LEMMA InitIInv == Init => IInv
<1> SUFFICES ASSUME Init
             PROVE  IInv
  OBVIOUS
<1> USE DEF Init
<1>1. TypeOK /\ NamesOK /\ ShutdownOK
  BY DEF TypeOK, NamesOK, ShutdownOK, Returned
<1>2. LeaksOK /\ SilentOK
  BY DEF LeaksOK, Leaked, SilentOK
<1>3. ListenedOK
  BY DEF ListenedOK, Removing, Subscribing, Live, Returned
<1> QED
  BY <1>1, <1>2, <1>3 DEF IInv

\* subscribe gets the array of its session, or makes it: an empty one.
LEMMA GetArrayIInv ==
    ASSUME IInv, NEW c \in Subscribes, GetArray(c)
    PROVE  IInv'
<1>1. /\ sub[c] = "idle" /\ sub'[c] = "append"
      /\ \A d \in Subscribes : d # c => sub'[d] = sub[d] /\ mine'[d] = mine[d]
      /\ subscriptions' = IF subscriptions = None THEN c ELSE subscriptions
      /\ mine'[c] = subscriptions'
      /\ raced' = IF Removing THEN raced \cup {c} ELSE raced
      /\ UNCHANGED <<listeners, callbacks, array, running, unsub, taken, before,
                     down, snapshot>>
  BY DEF GetArray, IInv, TypeOK, listenerVars, unsubVars, downVars
<1>2. Returned' = Returned
  BY <1>1 DEF Returned
<1>3. subscriptions' \in Subscribes /\ sub'[subscriptions'] # "idle"
  BY <1>1, PubSubAssumption DEF IInv, TypeOK, NamesOK
<1>4. TypeOK'
  BY <1>1, <1>3 DEF IInv, TypeOK, GetArray
<1>5. NamesOK'
  <2>1. \A d \in Subscribes : sub'[d] = "idle" => callbacks[d] = {}
    BY <1>1 DEF IInv, NamesOK
  <2>2. \A d \in Subscribes : mine'[d] # None => sub'[mine'[d]] # "idle"
    <3> SUFFICES ASSUME NEW d \in Subscribes, d # c, mine[d] # None
                 PROVE  sub'[mine[d]] # "idle"
      BY <1>1, <1>3
    <3>1. mine[d] \in Subscribes /\ sub[mine[d]] # "idle"
      BY DEF IInv, TypeOK, NamesOK
    <3> QED
      BY <3>1, <1>1
  <2> QED
    BY <2>1, <2>2, <1>1, <1>2, <1>3 DEF IInv, NamesOK
<1>6. ShutdownOK'
  BY <1>1 DEF IInv, TypeOK, ShutdownOK, Subscribing, Removing
<1>7. LeaksOK'
  BY <1>1 DEF IInv, LeaksOK, Leaked, BeingStopped
<1>8. SilentOK'
  <2>1. callbacks[c] = {}
    BY <1>1 DEF IInv, NamesOK
  <2> QED
    BY <2>1, <1>1 DEF IInv, SilentOK, BeingStopped
<1>9. ListenedOK'
  <2> SUFFICES ASSUME raced' = {}, down = "idle"
               PROVE  ListenedOK'
    BY <1>1 DEF ListenedOK
  <2>1. raced = {} /\ ~Removing /\ ~Removing'
    BY <1>1 DEF Removing
  <2>2. Live' = Live
    BY <1>1, <1>2 DEF Live
  <2>3. /\ \A d \in Subscribing : mine[d] = subscriptions /\ subscriptions # None
        /\ \A d \in Subscribes : sub[d] = "ensure" => d \in callbacks[subscriptions]
        /\ listeners # None => subscriptions # None /\ array[listeners] = subscriptions
        /\ \A d \in Live : listeners # None /\ d \in callbacks[subscriptions]
    BY <2>1 DEF IInv, ListenedOK
  <2>4. \A d \in Subscribing' : d = c \/ d \in Subscribing
    BY <1>1 DEF Subscribing
  <2>5. CASE subscriptions = None
    <3>1. Subscribing = {} /\ listeners = None /\ Live = {}
      BY <2>3, <2>5
    <3>2. \A d \in Subscribes : sub'[d] # "ensure"
      BY <3>1, <1>1 DEF Subscribing
    <3> QED
      BY <3>1, <3>2, <2>1, <2>2, <2>4, <1>1, <1>3, PubSubAssumption DEF ListenedOK
  <2>6. CASE subscriptions # None
    <3>1. \A d \in Subscribes : sub'[d] = "ensure" => sub[d] = "ensure"
      BY <1>1
    <3>2. \A d \in Subscribing' : mine'[d] = subscriptions
      BY <1>1, <2>3, <2>4, <2>6 DEF Subscribing
    <3> QED
      BY <3>1, <3>2, <2>1, <2>2, <2>3, <2>6, <1>1 DEF ListenedOK
  <2> QED
    BY <2>5, <2>6
<1> QED
  BY <1>4, <1>5, <1>6, <1>7, <1>8, <1>9 DEF IInv

\* subscribe appends its callback to the array it got, wherever that is now.
LEMMA AppendCallbackIInv ==
    ASSUME IInv, NEW c \in Subscribes, AppendCallback(c)
    PROVE  IInv'
<1>1. /\ sub[c] = "append" /\ sub'[c] = "ensure"
      /\ \A d \in Subscribes : d # c => sub'[d] = sub[d]
      /\ callbacks' = [callbacks EXCEPT ![mine[c]] = @ \cup {c}]
      /\ UNCHANGED <<subscriptions, listeners, array, running, mine, unsub, taken,
                     before, down, snapshot, raced>>
  BY DEF AppendCallback, IInv, TypeOK, listenerVars, unsubVars, downVars
<1>2. Returned' = Returned /\ Subscribing' = Subscribing /\ c \notin Returned
  BY <1>1 DEF Returned, Subscribing
<1>3. \A a \in Subscribes :
        callbacks'[a] = IF a = mine[c] THEN callbacks[a] \cup {c} ELSE callbacks[a]
  BY <1>1 DEF IInv, TypeOK
<1>4. TypeOK'
  <2>1. callbacks' \in [Subscribes -> SUBSET Subscribes]
    BY <1>1 DEF IInv, TypeOK
  <2>2. sub' \in [Subscribes -> {"idle", "append", "ensure", "returned"}]
    BY DEF AppendCallback, IInv, TypeOK
  <2> QED
    BY <2>1, <2>2, <1>1 DEF IInv, TypeOK
<1>5. NamesOK'
  <2>1. \A d \in Subscribes : sub'[d] = "idle" <=> sub[d] = "idle"
    BY <1>1
  <2>2. \A d \in Subscribes : sub[d] = "idle" => callbacks'[d] = {}
    <3>1. \A d \in Subscribes : sub[d] = "idle" => callbacks[d] = {} /\ d # mine[c]
      BY PubSubAssumption DEF IInv, NamesOK
    <3> QED
      BY <3>1, <1>3
  <2>3. subscriptions # None => sub'[subscriptions] # "idle"
    BY <2>1 DEF IInv, TypeOK, NamesOK
  <2>4. \A d \in Subscribes : mine[d] # None => sub'[mine[d]] # "idle"
    BY <2>1 DEF IInv, TypeOK, NamesOK
  <2> QED
    BY <2>1, <2>2, <2>3, <2>4, <1>1, <1>2 DEF IInv, NamesOK
<1>6. ShutdownOK'
  BY <1>1, <1>2 DEF IInv, ShutdownOK
<1>7. LeaksOK'
  BY <1>1 DEF IInv, LeaksOK, Leaked, BeingStopped
<1>8. \A u \in Unsubscribes : \A a \in Subscribes :
        callbacks'[a] \cap before[u] = callbacks[a] \cap before[u]
  BY <1>2, <1>3 DEF IInv, NamesOK
<1>9. SilentOK'
  <2>1. subscriptions # None => subscriptions \in Subscribes
    BY DEF IInv, TypeOK
  <2>2. \A l \in running : array[l] # None => array[l] \in Subscribes
    BY DEF IInv, TypeOK
  <2> QED
    BY <2>1, <2>2, <1>1, <1>8 DEF IInv, SilentOK, BeingStopped
<1>10. ListenedOK'
  <2> SUFFICES ASSUME raced = {}, down = "idle"
               PROVE  ListenedOK'
    BY <1>1 DEF ListenedOK
  <2>1. Removing' = Removing /\ Live' = Live
    BY <1>1, <1>2 DEF Removing, Live
  <2>2. c \in Subscribing
    BY <1>1 DEF Subscribing
  <2>3. ~Removing
    BY <2>2 DEF IInv, ListenedOK
  <2>4. /\ \A d \in Subscribing : mine[d] = subscriptions /\ subscriptions # None
        /\ \A d \in Subscribes : sub[d] = "ensure" => d \in callbacks[subscriptions]
        /\ listeners # None => subscriptions # None /\ array[listeners] = subscriptions
        /\ \A d \in Live : listeners # None /\ d \in callbacks[subscriptions]
    BY <2>3 DEF IInv, ListenedOK
  <2>5. /\ mine[c] = subscriptions /\ subscriptions \in Subscribes
        /\ callbacks'[subscriptions] = callbacks[subscriptions] \cup {c}
    BY <2>2, <2>4, <1>3 DEF IInv, TypeOK
  <2>6. \A d \in Subscribes : sub'[d] = "ensure" => d \in callbacks'[subscriptions]
    BY <2>4, <2>5, <1>1
  <2> QED
    BY <2>1, <2>3, <2>4, <2>5, <2>6, <1>1, <1>2 DEF ListenedOK
<1> QED
  BY <1>4, <1>5, <1>6, <1>7, <1>9, <1>10 DEF IInv

\* subscribe starts a listener on the array the map holds now, if none is
\* registered.
LEMMA EnsureListenerIInv ==
    ASSUME IInv, NEW c \in Subscribes, EnsureListener(c)
    PROVE  IInv'
<1>1. /\ sub[c] = "ensure" /\ sub'[c] = "returned"
      /\ \A d \in Subscribes : d # c => sub'[d] = sub[d]
      /\ UNCHANGED <<subscriptions, callbacks, mine, unsub, taken, before, down,
                     snapshot, raced>>
  BY DEF EnsureListener, IInv, TypeOK, unsubVars, downVars
<1>2. /\ Returned' = Returned \cup {c} /\ c \notin Returned
      /\ Subscribing' = Subscribing \ {c} /\ c \in Subscribing
  BY <1>1 DEF Returned, Subscribing
<1>3. \/ /\ listeners = None /\ listeners' = c
         /\ array'[c] = subscriptions
         /\ \A l \in Subscribes : l # c => array'[l] = array[l]
         /\ running' = running \cup {c}
      \/ /\ listeners # None
         /\ UNCHANGED <<listeners, array, running>>
  BY DEF EnsureListener, StartListener, IInv, TypeOK
<1>4. /\ c \notin running /\ c # listeners /\ c # snapshot /\ c # None
      /\ \A u \in Unsubscribes : c # taken[u] /\ c \notin before[u]
  BY <1>2, PubSubAssumption DEF IInv, NamesOK
<1>5. TypeOK'
  <2>1. array' \in [Subscribes -> Subscribes \cup {None}]
    BY DEF EnsureListener, StartListener, IInv, TypeOK
  <2>2. sub' \in [Subscribes -> {"idle", "append", "ensure", "returned"}]
    BY DEF EnsureListener, IInv, TypeOK
  <2> QED
    BY <2>1, <2>2, <1>1, <1>3 DEF IInv, TypeOK
<1>6. NamesOK'
  <2>1. \A d \in Subscribes : sub'[d] = "idle" <=> sub[d] = "idle"
    BY <1>1
  <2>2. subscriptions # None => subscriptions \in Subscribes
    BY DEF IInv, TypeOK
  <2>3. \A d \in Subscribes : mine[d] # None => mine[d] \in Subscribes
    BY DEF IInv, TypeOK
  <2> QED
    BY <2>1, <2>2, <2>3, <1>1, <1>2, <1>3, <1>4 DEF IInv, NamesOK
<1>7. ShutdownOK'
  BY <1>1, <1>2, <1>3, <1>4 DEF IInv, ShutdownOK
<1>8. \A l : BeingStopped(l)' <=> BeingStopped(l)
  BY <1>1 DEF BeingStopped
<1>9. LeaksOK'
  <2>1. Leaked' \subseteq Leaked
    <3>1. None \notin running
      BY PubSubAssumption DEF IInv, TypeOK
    <3> QED
      BY <3>1, <1>3, <1>4, <1>8 DEF Leaked
  <2> QED
    BY <2>1, <1>1 DEF IInv, LeaksOK
<1>10. SilentOK'
  <2> SUFFICES ASSUME down = "idle", NEW u \in Unsubscribes
               PROVE  /\ subscriptions # None => callbacks[subscriptions] \cap before[u] = {}
                      /\ \A l \in running' :
                           array'[l] # None /\ callbacks[array'[l]] \cap before[u] # {} =>
                               (unsub[u] = "delete" /\ l = listeners') \/ BeingStopped(l)'
    BY <1>1 DEF SilentOK
  <2>1. /\ subscriptions # None => callbacks[subscriptions] \cap before[u] = {}
        /\ \A l \in running :
             array[l] # None /\ callbacks[array[l]] \cap before[u] # {} =>
                 (unsub[u] = "delete" /\ l = listeners) \/ BeingStopped(l)
    BY DEF IInv, SilentOK
  <2>2. running \subseteq Subscribes /\ (listeners = None => listeners \notin running)
    BY PubSubAssumption DEF IInv, TypeOK
  <2> QED
    BY <2>1, <2>2, <1>3, <1>4, <1>8
<1>11. ListenedOK'
  <2> SUFFICES ASSUME raced = {}, down = "idle"
               PROVE  ListenedOK'
    BY <1>1 DEF ListenedOK
  <2>1. ~Removing /\ ~Removing'
    BY <1>1, <1>2 DEF IInv, ListenedOK, Removing
  <2>2. /\ \A d \in Subscribing : mine[d] = subscriptions /\ subscriptions # None
        /\ \A d \in Subscribes : sub[d] = "ensure" => d \in callbacks[subscriptions]
        /\ listeners # None => subscriptions # None /\ array[listeners] = subscriptions
        /\ \A d \in Live : listeners # None /\ d \in callbacks[subscriptions]
    BY <2>1 DEF IInv, ListenedOK
  <2>3. Live' \subseteq Live \cup {c}
    BY <1>1, <1>2 DEF Live
  <2>4. subscriptions # None /\ c \in callbacks[subscriptions]
    BY <2>2, <1>1, <1>2
  <2>5. listeners' # None /\ array'[listeners'] = subscriptions
    BY <2>2, <1>3, <1>4
  <2>6. \A d \in Subscribes : sub'[d] = "ensure" => sub[d] = "ensure"
    BY <1>1
  <2> QED
    BY <2>1, <2>2, <2>3, <2>4, <2>5, <2>6, <1>1, <1>2 DEF ListenedOK
<1> QED
  BY <1>5, <1>6, <1>7, <1>9, <1>10, <1>11 DEF IInv

\* unsubscribe deletes the array: whatever was subscribed is to fall silent.
LEMMA DeleteArrayIInv ==
    ASSUME IInv, NEW u \in Unsubscribes, DeleteArray(u)
    PROVE  IInv'
<1>1. /\ unsub[u] = "idle" /\ unsub'[u] = "delete" /\ before'[u] = Returned
      /\ \A v \in Unsubscribes : v # u => unsub'[v] = unsub[v] /\ before'[v] = before[v]
      /\ subscriptions' = None
      /\ raced' = raced \cup Subscribing
      /\ UNCHANGED <<listeners, callbacks, array, running, sub, mine, taken, down,
                     snapshot>>
  BY DEF DeleteArray, IInv, TypeOK, listenerVars, subVars, downVars
<1>2. Returned' = Returned /\ Subscribing' = Subscribing
  BY <1>1 DEF Returned, Subscribing
<1>3. TypeOK'
  <2>1. before' \in [Unsubscribes -> SUBSET Subscribes]
    BY DEF DeleteArray, IInv, TypeOK, Returned
  <2>2. unsub' \in [Unsubscribes -> {"idle", "delete", "stop", "returned"}]
    BY DEF DeleteArray, IInv, TypeOK
  <2>3. raced' \subseteq Subscribes
    BY <1>1 DEF IInv, TypeOK, Subscribing
  <2> QED
    BY <2>1, <2>2, <2>3, <1>1 DEF IInv, TypeOK
<1>4. NamesOK'
  <2>1. \A v \in Unsubscribes : before'[v] \subseteq Returned
    BY <1>1 DEF IInv, NamesOK
  <2>2. \A v \in Unsubscribes : unsub'[v] = "stop" => unsub[v] = "stop"
    BY <1>1
  <2> QED
    BY <2>1, <2>2, <1>1, <1>2 DEF IInv, NamesOK
<1>5. ShutdownOK'
  BY <1>1, <1>2 DEF IInv, ShutdownOK
<1>6. \A l : BeingStopped(l)' <=> BeingStopped(l)
  BY <1>1 DEF BeingStopped
<1>7. LeaksOK'
  <2>1. Leaked' = Leaked
    BY <1>1, <1>6 DEF Leaked
  <2> QED
    BY <2>1, <1>1 DEF IInv, LeaksOK
<1>8. SilentOK'
  <2>1. ASSUME down = "idle", NEW l \in running
        PROVE  l = listeners \/ BeingStopped(l)
    BY <2>1 DEF IInv, LeaksOK, Leaked
  <2> QED
    BY <2>1, <1>1, <1>6 DEF IInv, SilentOK
<1>9. ListenedOK'
  <2> SUFFICES ASSUME raced' = {}, down = "idle"
               PROVE  ListenedOK'
    BY <1>1 DEF ListenedOK
  <2>1. Subscribing' = {} /\ Removing'
    BY <1>1, <1>2 DEF Removing
  <2>2. Live' = {}
    BY <1>1, <1>2 DEF Live
  <2> QED
    BY <2>1, <2>2, <1>1 DEF ListenedOK
<1> QED
  BY <1>3, <1>4, <1>5, <1>7, <1>8, <1>9 DEF IInv

\* unsubscribe removes the listener: the one it will stop.
LEMMA DeleteListenerIInv ==
    ASSUME IInv, NEW u \in Unsubscribes, DeleteListener(u)
    PROVE  IInv'
<1>1. /\ unsub[u] = "delete" /\ taken'[u] = listeners
      /\ unsub'[u] = IF listeners = None THEN "returned" ELSE "stop"
      /\ \A v \in Unsubscribes : v # u => unsub'[v] = unsub[v] /\ taken'[v] = taken[v]
      /\ listeners' = None
      /\ UNCHANGED <<subscriptions, callbacks, array, running, sub, mine, before, down,
                     snapshot, raced>>
  BY DEF DeleteListener, IInv, TypeOK, listenerVars, subVars, downVars
<1>2. Returned' = Returned /\ Subscribing' = Subscribing /\ Live' = Live
  BY <1>1 DEF Returned, Subscribing, Live
<1>3. TypeOK'
  <2>1. listeners \in Subscribes \cup {None}
    BY DEF IInv, TypeOK
  <2>2. taken' \in [Unsubscribes -> Subscribes \cup {None}]
    BY <2>1 DEF DeleteListener, IInv, TypeOK
  <2>3. unsub' \in [Unsubscribes -> {"idle", "delete", "stop", "returned"}]
    BY DEF DeleteListener, IInv, TypeOK
  <2> QED
    BY <2>2, <2>3, <1>1 DEF IInv, TypeOK
<1>4. NamesOK'
  <2>1. \A v \in Unsubscribes : taken'[v] \in Returned \cup {None}
    BY <1>1 DEF IInv, NamesOK
  <2>2. \A v \in Unsubscribes : unsub'[v] = "stop" => taken'[v] # None
    BY <1>1 DEF IInv, NamesOK
  <2> QED
    BY <2>1, <2>2, <1>1, <1>2 DEF IInv, NamesOK
<1>5. ShutdownOK'
  BY <1>1, <1>2 DEF IInv, ShutdownOK
<1>6. /\ \A l : BeingStopped(l) => BeingStopped(l)'
      /\ \A l \in running : l = listeners => BeingStopped(l)'
  <2>1. None \notin running
    BY PubSubAssumption DEF IInv, TypeOK
  <2> QED
    BY <2>1, <1>1 DEF BeingStopped
<1>7. LeaksOK'
  <2>1. Leaked' \subseteq Leaked
    BY <1>1, <1>6 DEF Leaked
  <2> QED
    BY <2>1, <1>1 DEF IInv, LeaksOK
<1>8. SilentOK'
  BY <1>1, <1>6 DEF IInv, SilentOK
<1>9. ListenedOK'
  <2> SUFFICES ASSUME raced = {}, down = "idle"
               PROVE  ListenedOK'
    BY <1>1 DEF ListenedOK
  <2>1. Removing
    BY <1>1 DEF Removing
  <2>2. Subscribing' = {} /\ Live' = {} /\ subscriptions' = None
    BY <2>1, <1>1, <1>2 DEF IInv, ListenedOK
  <2>3. \A c \in Subscribes : sub'[c] # "ensure"
    BY <2>2 DEF Subscribing
  <2> QED
    BY <2>2, <2>3, <1>1 DEF ListenedOK
<1> QED
  BY <1>3, <1>4, <1>5, <1>7, <1>8, <1>9 DEF IInv

\* unsubscribe stops the listener it removed.
LEMMA StopListenerIInv ==
    ASSUME IInv, NEW u \in Unsubscribes, StopListener(u)
    PROVE  IInv'
<1>1. /\ unsub[u] = "stop" /\ unsub'[u] = "returned"
      /\ \A v \in Unsubscribes : v # u => unsub'[v] = unsub[v]
      /\ running' = running \ {taken[u]}
      /\ UNCHANGED <<subscriptions, listeners, callbacks, array, sub, mine, taken,
                     before, down, snapshot, raced>>
  BY DEF StopListener, IInv, TypeOK, mapVars, subVars, downVars
<1>2. Returned' = Returned /\ Subscribing' = Subscribing /\ Live' = Live
  BY <1>1 DEF Returned, Subscribing, Live
<1>3. TypeOK'
  <2>1. unsub' \in [Unsubscribes -> {"idle", "delete", "stop", "returned"}]
    BY DEF StopListener, IInv, TypeOK
  <2>2. taken[u] # listeners
    BY <1>1 DEF IInv, NamesOK
  <2> QED
    BY <2>1, <2>2, <1>1 DEF IInv, TypeOK
<1>4. NamesOK'
  <2>1. \A v \in Unsubscribes : unsub'[v] = "stop" => unsub[v] = "stop"
    BY <1>1
  <2> QED
    BY <2>1, <1>1, <1>2 DEF IInv, NamesOK
<1>5. ShutdownOK'
  BY <1>1, <1>2 DEF IInv, ShutdownOK
<1>6. \A l \in running' : BeingStopped(l) => BeingStopped(l)'
  BY <1>1 DEF BeingStopped
<1>7. LeaksOK'
  <2>1. Leaked' \subseteq Leaked
    BY <1>1, <1>6 DEF Leaked
  <2> QED
    BY <2>1, <1>1 DEF IInv, LeaksOK
<1>8. SilentOK'
  BY <1>1, <1>6 DEF IInv, SilentOK
<1>9. ListenedOK'
  <2> SUFFICES ASSUME raced = {}, down = "idle"
               PROVE  ListenedOK'
    BY <1>1 DEF ListenedOK
  <2>1. Removing
    BY <1>1 DEF Removing
  <2>2. /\ Subscribing' = {} /\ Live' = {} /\ subscriptions' = None
        /\ (\A v \in Unsubscribes : unsub[v] # "delete") => listeners = None
    BY <2>1, <1>1, <1>2 DEF IInv, ListenedOK
  <2>3. (\A v \in Unsubscribes : unsub'[v] # "delete") => listeners' = None
    BY <2>2, <1>1
  <2>4. ~Removing' => \A v \in Unsubscribes : unsub'[v] # "delete"
    BY DEF Removing
  <2>5. \A c \in Subscribes : sub'[c] # "ensure"
    BY <2>2 DEF Subscribing
  <2> QED
    BY <2>2, <2>3, <2>4, <2>5 DEF ListenedOK
<1> QED
  BY <1>3, <1>4, <1>5, <1>7, <1>8, <1>9 DEF IInv

\* shutdown looks at the listener that is registered now.
LEMMA ShutdownBeginsIInv ==
    ASSUME IInv, ShutdownBegins
    PROVE  IInv'
<1>1. /\ down = "idle" /\ snapshot' = listeners
      /\ down' = IF listeners = None THEN "clear" ELSE "stop"
      /\ raced' = raced \cup Subscribing
      /\ UNCHANGED <<subscriptions, listeners, callbacks, array, running, sub, mine,
                     unsub, taken, before>>
  BY DEF ShutdownBegins, mapVars, listenerVars, subVars, unsubVars
<1>2. Returned' = Returned /\ Subscribing' = Subscribing
  BY <1>1 DEF Returned, Subscribing
<1>3. listeners \in running \cup {None} /\ None \notin running
  BY <1>1, PubSubAssumption DEF IInv, TypeOK, ShutdownOK
<1>4. TypeOK'
  <2>1. raced' \subseteq Subscribes
    BY <1>1 DEF IInv, TypeOK, Subscribing
  <2> QED
    BY <2>1, <1>1, <1>3 DEF IInv, TypeOK
<1>5. NamesOK'
  BY <1>1, <1>2 DEF IInv, NamesOK
<1>6. ShutdownOK'
  BY <1>1, <1>2, <1>3 DEF ShutdownOK
<1>7. LeaksOK'
  BY <1>1 DEF IInv, LeaksOK, Leaked, BeingStopped
<1>8. SilentOK' /\ ListenedOK'
  BY <1>1 DEF SilentOK, ListenedOK
<1> QED
  BY <1>4, <1>5, <1>6, <1>7, <1>8 DEF IInv

\* shutdown stops the listener of its snapshot.
LEMMA ShutdownStopsIInv ==
    ASSUME IInv, ShutdownStops
    PROVE  IInv'
<1>1. /\ down = "stop" /\ down' = "clear"
      /\ running' = running \ {snapshot}
      /\ UNCHANGED <<subscriptions, listeners, callbacks, array, sub, mine,
                     unsub, taken, before, snapshot, raced>>
  BY DEF ShutdownStops, mapVars, subVars, unsubVars
<1>2. Returned' = Returned /\ Subscribing' = Subscribing
  BY <1>1 DEF Returned, Subscribing
<1>3. TypeOK'
  BY <1>1 DEF IInv, TypeOK
<1>4. NamesOK'
  BY <1>1, <1>2 DEF IInv, NamesOK
<1>5. ShutdownOK'
  BY <1>1, <1>2 DEF IInv, ShutdownOK
<1>6. LeaksOK'
  BY <1>1 DEF IInv, LeaksOK, Leaked, BeingStopped
<1>7. SilentOK' /\ ListenedOK'
  BY <1>1 DEF SilentOK, ListenedOK
<1> QED
  BY <1>3, <1>4, <1>5, <1>6, <1>7 DEF IInv

\* shutdown clears the map: a listener registered since its snapshot is
\* forgotten, and that one only.
LEMMA ShutdownClearsIInv ==
    ASSUME IInv, ShutdownClears
    PROVE  IInv'
<1>1. /\ down = "clear" /\ down' = "returned" /\ listeners' = None
      /\ UNCHANGED <<subscriptions, callbacks, array, running, sub, mine,
                     unsub, taken, before, snapshot, raced>>
  BY DEF ShutdownClears, listenerVars, subVars, unsubVars
<1>2. Returned' = Returned
  BY <1>1 DEF Returned
<1>3. TypeOK'
  BY <1>1 DEF IInv, TypeOK
<1>4. NamesOK'
  BY <1>1, <1>2 DEF IInv, NamesOK
<1>5. ShutdownOK'
  BY <1>1 DEF IInv, ShutdownOK
<1>6. LeaksOK'
  <2>1. \A l \in running : l = listeners \/ BeingStopped(l)
    BY <1>1 DEF IInv, LeaksOK, Leaked
  <2>2. listeners \in running => listeners \in raced
    BY <1>1, PubSubAssumption DEF IInv, TypeOK, ShutdownOK
  <2>3. \A l : BeingStopped(l)' <=> BeingStopped(l)
    BY <1>1 DEF BeingStopped
  <2>4. \A l \in Leaked' : l = listeners /\ l \in raced
    BY <2>1, <2>2, <2>3, <1>1 DEF Leaked
  <2> QED
    BY <2>4, <1>1 DEF LeaksOK
<1>7. SilentOK' /\ ListenedOK'
  BY <1>1 DEF SilentOK, ListenedOK
<1> QED
  BY <1>3, <1>4, <1>5, <1>6, <1>7 DEF IInv

\* Every step of the specification keeps the invariant.
LEMMA NextIInv == IInv /\ [Next]_vars => IInv'
<1> SUFFICES ASSUME IInv, [Next]_vars
             PROVE  IInv'
  OBVIOUS
<1>1. ASSUME NEW c \in Subscribes, Subscribe(c)
      PROVE  IInv'
  BY <1>1, GetArrayIInv, AppendCallbackIInv, EnsureListenerIInv DEF Subscribe
<1>2. ASSUME NEW u \in Unsubscribes, Unsubscribe(u)
      PROVE  IInv'
  BY <1>2, DeleteArrayIInv, DeleteListenerIInv, StopListenerIInv DEF Unsubscribe
<1>3. CASE Shutdown
  BY <1>3, ShutdownBeginsIInv, ShutdownStopsIInv, ShutdownClearsIInv DEF Shutdown
<1>4. CASE UNCHANGED vars
  BY <1>4 DEF vars, mapVars, listenerVars, subVars, unsubVars, downVars, IInv,
     TypeOK, NamesOK, ShutdownOK, LeaksOK, Leaked, BeingStopped, SilentOK,
     ListenedOK, Removing, Subscribing, Live, Returned
<1> QED
  BY <1>1, <1>2, <1>3, <1>4 DEF Next

-----------------------------------------------------------------------------
(* What follows.                                                           *)

\* Whatever calls race, every reachable state satisfies the invariant.
THEOREM Invariance == Spec => []IInv
  BY InitIInv, NextIInv, PTL DEF Spec

\* Every variable keeps to its type; what is registered runs, but for the
\* moment after shutdown stopped it.
THEOREM TypeCorrect == Spec => []TypeOK
<1>1. IInv => TypeOK
  BY DEF IInv
<1> QED
  BY <1>1, Invariance, PTL

\* For any number of racing threads: every running listener is registered or
\* about to be stopped, and a shutdown forgets one at most.
THEOREM LeaksBounded == Spec => []NoListenerLeaks
<1>1. IInv => NoListenerLeaks
  <2> SUFFICES ASSUME LeaksOK
               PROVE  NoListenerLeaks
    BY DEF IInv
  <2>1. Leaked = {l \in running :
                    /\ l # listeners
                    /\ \A u \in Unsubscribes : ~(unsub[u] = "stop" /\ taken[u] = l)}
    BY DEF Leaked, BeingStopped
  <2>2. ASSUME \A k, l \in Leaked : k = l
        PROVE  Cardinality(Leaked) <= 1
    <3>1. CASE Leaked = {}
      BY <3>1, FS_EmptySet
    <3>2. CASE Leaked # {}
      <4>1. PICK l \in Leaked : TRUE
        BY <3>2
      <4>2. Leaked = {l}
        BY <2>2, <4>1
      <4> QED
        BY <4>2, FS_Singleton
    <3> QED
      BY <3>1, <3>2
  <2> QED
    BY <2>1, <2>2 DEF NoListenerLeaks, LeaksOK
<1> QED
  BY <1>1, Invariance, PTL

\* For any number of racing threads: once the unsubscribe calls are through,
\* nothing that runs calls a callback they were to silence.
THEOREM SilenceKept == Spec => []UnsubscribedIsSilent
<1>1. IInv => UnsubscribedIsSilent
  BY DEF IInv, SilentOK, UnsubscribedIsSilent, Removing, BeingStopped
<1> QED
  BY <1>1, Invariance, PTL

\* For any number of subscribers: if subscribing never overlapped removing,
\* every live callback is listened for between the calls.
THEOREM ListenersKept == Spec => []ListenedUnlessRaced
<1>1. IInv => ListenedUnlessRaced
  <2> SUFFICES ASSUME IInv, Quiet, raced = {}, down = "idle", NEW c \in Live
               PROVE  Listened(c)
    BY DEF ListenedUnlessRaced
  <2>1. listeners \in running \cup {None}
    BY DEF IInv, TypeOK, ShutdownOK
  <2>2. /\ listeners # None => subscriptions # None /\ array[listeners] = subscriptions
        /\ listeners # None /\ c \in callbacks[subscriptions]
    BY DEF IInv, ListenedOK, Quiet
  <2> QED
    BY <2>1, <2>2 DEF Listened
<1> QED
  BY <1>1, Invariance, PTL
=============================================================================
