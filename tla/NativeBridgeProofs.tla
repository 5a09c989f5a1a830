------------------------- MODULE NativeBridgeProofs -------------------------
(***************************************************************************)
(* Proofs about NativeBridge, for any number of native threads, engines    *)
(* and messages.                                                           *)
(*                                                                         *)
(* What keeps a thread's messages together over the engines it had is that *)
(* it never leaves one behind with messages of its own in it, but by init. *)
(* HomeOK says where a thread's unwritten messages can be, the rest of the *)
(* invariant what an engine's backlog looks like: a run of one thread's    *)
(* numbers, up to the last it sent, preceded by what is written.           *)
(***************************************************************************)
EXTENDS NativeBridge, SequenceTheorems, TLAPS

\* What a call that is in progress found when it began.
CallOK ==
    /\ gvl \notin ended
    /\ call = "init" => started < MaxEngines
    /\ call = "flush" => slot[gvl] # 0
    /\ call = "shutdown" => slot[gvl] = 0

\* An engine that is not created yet has accepted nothing.
FreshOK == \A e \in Engines : e > started => pending[e] = <<>>

\* The backlog of an engine is one thread's, its numbers one after the other.
RunOK ==
    \A e \in Engines : \A i \in 1..(Len(pending[e]) - 1) :
        pending[e][i + 1] = <<pending[e][i][1], pending[e][i][2] + 1>>

\* The backlog of the engine in a slot ends with what its thread sent last.
LastOK ==
    \A t \in Threads : slot[t] # 0 /\ pending[slot[t]] # <<>> =>
        pending[slot[t]][Len(pending[slot[t]])] = <<t, sent[t]>>

Waiting(t, n) == \E e \in Engines : Contains(pending[e], <<t, n>>)

\* Nothing that was accepted is lost.
KeptOK ==
    \A t \in Threads : \A n \in 1..sent[t] : Written(t, n) \/ Waiting(t, n)

\* What comes before a backlog is written.
FirstOK ==
    \A e \in Engines : \A t \in Threads \ replaced : \A n \in 2..MaxSent :
        pending[e] # <<>> /\ pending[e][1] = <<t, n>> => Written(t, n - 1)

\* A message is written after the one before it.
OrderOK ==
    \A t \in Threads \ replaced : \A n \in 2..MaxSent : \A j \in 1..Len(written) :
        written[j] = <<t, n>> =>
            \E i \in 1..Len(written) : i < j /\ written[i] = <<t, n - 1>>

DataOK == FreshOK /\ RunOK /\ LastOK /\ KeptOK /\ FirstOK /\ OrderOK

\* The engines that may hold unwritten messages of t: the one in its slot or
\* in its shutdown, and whichever it left when it ended.
Home(t) ==
    {e \in Engines :
        \/ slot[t] = e
        \/ slot[t] = 0 /\ call = "shutdown" /\ gvl = t /\ closing = e
        \/ slot[t] = 0 /\ t \in ended}

HomeOK ==
    \A t \in Threads \ replaced : \A e \in Engines : \A i \in 1..Len(pending[e]) :
        pending[e][i][1] = t => e \in Home(t)

IInv ==
    /\ TypeOK
    /\ CallOK
    /\ DataOK
    /\ HomeOK
    /\ SettledUnlessReplaced

-----------------------------------------------------------------------------
(* Sequences and histories.                                                *)

\* The engine in a slot is one of the engines.
LEMMA SlotIsEngine ==
    ASSUME TypeOK, NEW t \in Threads, slot[t] # 0
    PROVE  slot[t] \in Engines /\ slot[t] \in 1..started
<1>1. slot[t] \in 0..started /\ started \in 0..MaxEngines /\ MaxEngines \in Nat
  BY NativeBridgeAssumption DEF TypeOK
<1> QED
  BY <1>1 DEF Engines

\* A backlog is a sequence of numbered messages.
LEMMA Backlog ==
    ASSUME TypeOK, NEW e \in Engines
    PROVE  /\ pending[e] \in Seq(Messages)
           /\ Len(pending[e]) \in Nat
           /\ pending[e] # <<>> => Len(pending[e]) > 0
           /\ \A i \in 1..Len(pending[e]) :
                /\ pending[e][i] \in Messages
                /\ pending[e][i][1] \in Threads /\ pending[e][i][2] \in 1..MaxSent
                /\ pending[e][i] = <<pending[e][i][1], pending[e][i][2]>>
<1>1. pending[e] \in Seq(Messages)
  BY DEF TypeOK
<1>2. Len(pending[e]) \in Nat /\ (pending[e] # <<>> => Len(pending[e]) > 0)
  BY <1>1, LenProperties, EmptySeq
<1>3. ASSUME NEW i \in 1..Len(pending[e])
      PROVE  /\ pending[e][i] \in Messages
             /\ pending[e][i][1] \in Threads /\ pending[e][i][2] \in 1..MaxSent
             /\ pending[e][i] = <<pending[e][i][1], pending[e][i][2]>>
  <2>1. pending[e][i] \in Messages
    BY <1>1, ElementOfSeq
  <2> QED
    BY <2>1 DEF Messages
<1> QED
  BY <1>1, <1>2, <1>3

\* At first nothing is accepted and nobody calls.
LEMMA InitIInv == Init => IInv
<1> SUFFICES ASSUME Init
             PROVE  IInv
  OBVIOUS
<1> USE NativeBridgeAssumption DEF Init
<1>1. TypeOK
  <2>1. <<>> \in Seq(Messages) /\ 0 \in 0..MaxSent /\ 0 \in 0..0 /\ 0 \in 0..MaxEngines
    OBVIOUS
  <2> QED
    BY <2>1, Zenon DEF TypeOK
<1>2. CallOK
  BY DEF CallOK
<1>3. FreshOK /\ LastOK /\ FirstOK
  BY DEF FreshOK, LastOK, FirstOK
<1>4. \A e \in Engines : Len(pending[e]) = 0
  OBVIOUS
<1>5. RunOK /\ HomeOK
  BY <1>4 DEF RunOK, HomeOK
<1>6. KeptOK /\ OrderOK /\ SettledUnlessReplaced
  BY DEF KeptOK, OrderOK, SettledUnlessReplaced
<1> QED
  BY <1>1, <1>2, <1>3, <1>5, <1>6 DEF IInv, DataOK

\* While messages stay where they are, slots may only be emptied, or filled
\* with an engine that has no backlog.
LEMMA DataKept ==
    ASSUME TypeOK, DataOK, UNCHANGED <<pending, written, sent>>,
           replaced \subseteq replaced', started' \in Nat, started <= started',
           \A t \in Threads : slot'[t] # 0 =>
             slot'[t] = slot[t] \/ pending[slot'[t]] = <<>>
    PROVE  DataOK'
<1>1. FreshOK'
  BY DEF DataOK, FreshOK, TypeOK, Engines
<1>2. RunOK' /\ KeptOK'
  BY DEF DataOK, RunOK, KeptOK, Waiting, Written
<1>3. LastOK'
  BY DEF DataOK, LastOK
<1>4. FirstOK' /\ OrderOK'
  BY DEF DataOK, FirstOK, OrderOK, Written
<1> QED
  BY <1>1, <1>2, <1>3, <1>4 DEF DataOK

\* While messages stay where they are, a thread may only leave engines behind
\* in which it has none.
LEMMA HomeKept ==
    ASSUME HomeOK, pending' = pending, replaced \subseteq replaced',
           \A t \in Threads \ replaced' :
             \/ Home(t) \subseteq Home(t)'
             \/ \A e \in Home(t) : pending[e] = <<>>
    PROVE  HomeOK'
<1> SUFFICES ASSUME NEW t \in Threads \ replaced', NEW e \in Engines,
                    NEW i \in 1..Len(pending[e]), pending[e][i][1] = t
             PROVE  e \in Home(t)'
  BY DEF HomeOK
<1>1. e \in Home(t)
  BY DEF HomeOK
<1>2. pending[e] # <<>>
  OBVIOUS
<1> QED
  BY <1>1, <1>2

\* A thread whose home is empty has everything written.
LEMMA HomeEmpty ==
    ASSUME IInv, NEW t \in Threads \ replaced, \A e \in Home(t) : pending[e] = <<>>,
           NEW n \in 1..sent[t]
    PROVE  Written(t, n)
<1> SUFFICES ASSUME Waiting(t, n)
             PROVE  FALSE
  BY DEF IInv, DataOK, KeptOK
<1>1. PICK e \in Engines : \E i \in 1..Len(pending[e]) : pending[e][i] = <<t, n>>
  BY DEF Waiting, Contains
<1>2. e \in Home(t)
  BY <1>1 DEF IInv, HomeOK
<1> QED
  BY <1>1, <1>2

-----------------------------------------------------------------------------
(* Calls that begin and end.                                               *)

\* A call that begins finds no other in progress.
LEMMA CallBeginsIInv ==
    ASSUME IInv, NEW t \in Threads, InitBegins(t) \/ FlushBegins(t) \/ QueryBegins(t)
    PROVE  IInv'
<1>1. /\ gvl = None /\ t \notin ended /\ gvl' = t
      /\ call' \in {"init", "flush", "query"}
      /\ call' = "init" => started < MaxEngines
      /\ call' = "flush" => slot[t] # 0
      /\ awaited' \subseteq inTransaction /\ (awaited' # {} => call' = "query")
      /\ UNCHANGED <<slot, closing, started, ended, inTransaction, pending, written,
                     sent, settledUpTo, replaced>>
  BY DEF InitBegins, FlushBegins, QueryBegins, Enters, EntersFor, Runs, engineVars,
         threadVars, dataVars, histVars
<1>2. call = "none"
  BY <1>1 DEF IInv, TypeOK
<1>3. TypeOK'
  BY <1>1, <1>2, NativeBridgeAssumption DEF IInv, TypeOK
<1>4. CallOK'
  BY <1>1 DEF CallOK
<1>5. DataOK'
  BY <1>1, DataKept DEF IInv, TypeOK
<1>6. HomeOK'
  <2>1. \A u \in Threads : Home(u)' = Home(u)
    BY <1>1, <1>2 DEF Home
  <2> QED
    BY <2>1, <1>1, HomeKept DEF IInv
<1>7. SettledUnlessReplaced'
  BY <1>1 DEF IInv, SettledUnlessReplaced, Written
<1> QED
  BY <1>3, <1>4, <1>5, <1>6, <1>7 DEF IInv

\* init that fails, and a query, however it ends, leave everything as it was.
LEMMA CallEndsIInv ==
    ASSUME IInv, InitFails \/ QueryReturns \/ QueryGivesUp
    PROVE  IInv'
<1>1. /\ call \in {"init", "query"} /\ gvl' = None /\ call' = "none" /\ awaited' = {}
      /\ UNCHANGED <<slot, closing, started, ended, inTransaction, pending, written,
                     sent, settledUpTo, replaced>>
  BY DEF InitFails, QueryReturns, QueryGivesUp, Leaves, engineVars, threadVars, dataVars,
         histVars
<1>2. TypeOK'
  BY <1>1 DEF IInv, TypeOK
<1>3. CallOK'
  BY <1>1, NativeBridgeAssumption DEF IInv, TypeOK, CallOK
<1>4. DataOK'
  BY <1>1, DataKept DEF IInv, TypeOK
<1>5. HomeOK'
  <2>1. \A u \in Threads : Home(u)' = Home(u)
    BY <1>1 DEF Home
  <2> QED
    BY <2>1, <1>1, HomeKept DEF IInv
<1>6. SettledUnlessReplaced'
  BY <1>1 DEF IInv, SettledUnlessReplaced, Written
<1> QED
  BY <1>2, <1>3, <1>4, <1>5, <1>6 DEF IInv

\* init that succeeds puts a new engine in the slot, and leaves the old one
\* behind empty, unless the thread counts as replaced.
LEMMA InitReturnsIInv ==
    ASSUME IInv, InitReturns
    PROVE  IInv'
<1>1. /\ call = "init" /\ gvl' = None /\ call' = "none" /\ awaited' = {}
      /\ started' = started + 1
      /\ slot' = [slot EXCEPT ![gvl] = started + 1]
      /\ replaced' = IF slot[gvl] # 0 /\ pending[slot[gvl]] # <<>>
                     THEN replaced \cup {gvl} ELSE replaced
      /\ UNCHANGED <<closing, ended, inTransaction, pending, written, sent, settledUpTo>>
  BY DEF InitReturns, Leaves, threadVars, dataVars
<1>2. /\ gvl \in Threads /\ started < MaxEngines /\ gvl \notin ended
      /\ started \in Nat /\ MaxEngines \in Nat /\ closing = 0
  BY <1>1, NativeBridgeAssumption DEF IInv, TypeOK, CallOK
<1>3. /\ slot'[gvl] = started + 1
      /\ \A t \in Threads : t # gvl => slot'[t] = slot[t]
      /\ \A t \in Threads : slot[t] \in 0..started
  BY <1>1, <1>2 DEF IInv, TypeOK
<1>4. started + 1 \in Engines /\ pending[started + 1] = <<>>
  BY <1>2 DEF IInv, DataOK, FreshOK, Engines
<1>5. TypeOK'
  <2>1. slot' \in [Threads -> 0..started']
    BY <1>1, <1>2, <1>3 DEF IInv, TypeOK
  <2>2. started' \in 0..MaxEngines /\ closing' \in 0..started'
    BY <1>1, <1>2 DEF IInv, TypeOK
  <2>3. replaced' \subseteq Threads
    BY <1>1, <1>2 DEF IInv, TypeOK
  <2>4. \A t \in Threads : slot'[t] # 0 =>
          slot'[t] # closing' /\ \A u \in Threads \ {t} : slot'[u] # slot'[t]
    <3>1. \A t \in Threads : slot[t] # started + 1
      BY <1>2, <1>3
    <3>2. \A t \in Threads : slot[t] # 0 => \A u \in Threads \ {t} : slot[u] # slot[t]
      BY DEF IInv, TypeOK
    <3> SUFFICES ASSUME NEW t \in Threads, slot'[t] # 0, NEW u \in Threads \ {t}
                 PROVE  slot'[u] # slot'[t]
      BY <1>1, <1>2
    <3>3. CASE t = gvl
      BY <3>1, <3>3, <1>3
    <3>4. CASE u = gvl
      BY <3>1, <3>4, <1>3
    <3>5. CASE t # gvl /\ u # gvl
      BY <3>2, <3>5, <1>3
    <3> QED
      BY <3>3, <3>4, <3>5
  <2> QED
    BY <2>1, <2>2, <2>3, <2>4, <1>1 DEF IInv, TypeOK
<1>6. CallOK'
  BY <1>1, NativeBridgeAssumption DEF IInv, TypeOK, CallOK
<1>7. DataOK'
  <2>1. \A t \in Threads : slot'[t] = slot[t] \/ pending[slot'[t]] = <<>>
    BY <1>3, <1>4
  <2>2. started' \in Nat /\ started <= started' /\ replaced \subseteq replaced'
    BY <1>1, <1>2
  <2> QED
    BY <2>1, <2>2, <1>1, DataKept DEF IInv
<1>8. HomeOK'
  <2> SUFFICES ASSUME NEW t \in Threads \ replaced'
               PROVE  \/ Home(t) \subseteq Home(t)'
                      \/ \A e \in Home(t) : pending[e] = <<>>
    BY <1>1, HomeKept DEF IInv
  <2>1. CASE t = gvl
    <3>1. slot[t] = 0 \/ pending[slot[t]] = <<>>
      BY <1>1, <1>2, <2>1
    <3> QED
      BY <3>1, <2>1, <1>1, <1>2 DEF Home, Engines
  <2>2. CASE t # gvl
    BY <2>2, <1>1, <1>3 DEF Home
  <2> QED
    BY <2>1, <2>2
<1>9. SettledUnlessReplaced'
  BY <1>1 DEF IInv, SettledUnlessReplaced, Written
<1> QED
  BY <1>5, <1>6, <1>7, <1>8, <1>9 DEF IInv

\* What flush and shutdown have in common: the engine of the thread is empty,
\* so everything the thread sent is written.
LEMMA SettlingKeeps ==
    ASSUME IInv, gvl \in Threads,
           gvl \notin replaced => \A e \in Home(gvl) : pending[e] = <<>>,
           settledUpTo' = [settledUpTo EXCEPT ![gvl] = sent[gvl]],
           UNCHANGED <<written, replaced>>
    PROVE  SettledUnlessReplaced'
<1> SUFFICES ASSUME NEW t \in Threads \ replaced, NEW n \in 1..settledUpTo'[t]
             PROVE  Written(t, n)
  BY DEF SettledUnlessReplaced, Written
<1>1. CASE t = gvl
  <2>1. n \in 1..sent[t]
    BY <1>1 DEF IInv, TypeOK
  <2> QED
    BY <2>1, <1>1, HomeEmpty
<1>2. CASE t # gvl
  <2>1. n \in 1..settledUpTo[t]
    BY <1>2 DEF IInv, TypeOK
  <2> QED
    BY <2>1 DEF IInv, SettledUnlessReplaced
<1> QED
  BY <1>1, <1>2

\* flush returns when the engine in the slot has nothing left to write.
LEMMA FlushReturnsIInv ==
    ASSUME IInv, FlushReturns
    PROVE  IInv'
<1>1. /\ call = "flush" /\ gvl' = None /\ call' = "none" /\ awaited' = {}
      /\ pending[slot[gvl]] = <<>>
      /\ settledUpTo' = [settledUpTo EXCEPT ![gvl] = sent[gvl]]
      /\ UNCHANGED <<slot, closing, started, ended, inTransaction, pending, written,
                     sent, replaced>>
  BY DEF FlushReturns, Leaves, engineVars, threadVars, dataVars
<1>2. gvl \in Threads /\ slot[gvl] # 0
  BY <1>1 DEF IInv, TypeOK, CallOK
<1>3. TypeOK'
  <2>1. settledUpTo' \in [Threads -> 0..MaxSent]
    BY <1>1, <1>2 DEF IInv, TypeOK
  <2> QED
    BY <2>1, <1>1 DEF IInv, TypeOK
<1>4. CallOK'
  BY <1>1, NativeBridgeAssumption DEF IInv, TypeOK, CallOK
<1>5. DataOK'
  BY <1>1, DataKept DEF IInv, TypeOK
<1>6. HomeOK'
  <2>1. \A u \in Threads : Home(u)' = Home(u)
    BY <1>1 DEF Home
  <2> QED
    BY <2>1, <1>1, HomeKept DEF IInv
<1>7. SettledUnlessReplaced'
  <2>1. \A e \in Home(gvl) : pending[e] = <<>>
    BY <1>1, <1>2 DEF Home
  <2> QED
    BY <2>1, <1>1, <1>2, SettlingKeeps
<1> QED
  BY <1>3, <1>4, <1>5, <1>6, <1>7 DEF IInv

\* shutdown takes the engine along, and with it what the thread has unwritten.
LEMMA ShutdownBeginsIInv ==
    ASSUME IInv, NEW t \in Threads, ShutdownBegins(t)
    PROVE  IInv'
<1>1. /\ gvl = None /\ t \notin ended /\ gvl' = t /\ call' = "shutdown"
      /\ slot[t] # 0 /\ closing' = slot[t]
      /\ slot' = [slot EXCEPT ![t] = 0] /\ awaited' = {}
      /\ UNCHANGED <<started, ended, inTransaction, pending, written, sent, settledUpTo,
                     replaced>>
  BY DEF ShutdownBegins, Enters, EntersFor, Runs, threadVars, dataVars, histVars
<1>2. slot'[t] = 0 /\ \A u \in Threads : u # t => slot'[u] = slot[u]
  BY <1>1 DEF IInv, TypeOK
<1>3. call = "none"
  BY <1>1 DEF IInv, TypeOK
<1>4. TypeOK'
  <2>1. slot' \in [Threads -> 0..started] /\ closing' \in 0..started
    BY <1>1, <1>2 DEF IInv, TypeOK
  <2>2. \A u \in Threads : slot'[u] # 0 =>
          slot'[u] # closing' /\ \A v \in Threads \ {u} : slot'[v] # slot'[u]
    BY <1>1, <1>2 DEF IInv, TypeOK
  <2> QED
    BY <2>1, <2>2, <1>1, NativeBridgeAssumption DEF IInv, TypeOK
<1>5. CallOK'
  BY <1>1, <1>2 DEF CallOK
<1>6. DataOK'
  BY <1>1, <1>2, DataKept DEF IInv, TypeOK
<1>7. HomeOK'
  <2>1. \A u \in Threads : Home(u) \subseteq Home(u)'
    BY <1>1, <1>2, <1>3 DEF Home
  <2> QED
    BY <2>1, <1>1, HomeKept DEF IInv
<1>8. SettledUnlessReplaced'
  BY <1>1 DEF IInv, SettledUnlessReplaced, Written
<1> QED
  BY <1>4, <1>5, <1>6, <1>7, <1>8 DEF IInv

\* shutdown returns when the engine it took has nothing left to write.
LEMMA ShutdownReturnsIInv ==
    ASSUME IInv, ShutdownReturns
    PROVE  IInv'
<1>1. /\ call = "shutdown" /\ gvl' = None /\ call' = "none" /\ awaited' = {}
      /\ pending[closing] = <<>> /\ closing' = 0
      /\ settledUpTo' = [settledUpTo EXCEPT ![gvl] = sent[gvl]]
      /\ UNCHANGED <<slot, started, ended, inTransaction, pending, written, sent, replaced>>
  BY DEF ShutdownReturns, Leaves, threadVars, dataVars
<1>2. gvl \in Threads /\ gvl \notin ended
  BY <1>1 DEF IInv, TypeOK, CallOK
<1>3. TypeOK'
  <2>1. settledUpTo' \in [Threads -> 0..MaxSent]
    BY <1>1, <1>2 DEF IInv, TypeOK
  <2>2. closing' \in 0..started' /\ \A t \in Threads : slot'[t] # 0 => slot'[t] # closing'
    BY <1>1 DEF IInv, TypeOK
  <2> QED
    BY <2>1, <2>2, <1>1 DEF IInv, TypeOK
<1>4. CallOK'
  BY <1>1, NativeBridgeAssumption DEF IInv, TypeOK, CallOK
<1>5. DataOK'
  BY <1>1, DataKept DEF IInv, TypeOK
<1>6. \A e \in Home(gvl) : pending[e] = <<>>
  BY <1>1, <1>2 DEF IInv, CallOK, Home, Engines
<1>7. HomeOK'
  <2>1. ASSUME NEW u \in Threads, u # gvl
        PROVE  Home(u) \subseteq Home(u)'
    BY <2>1, <1>1 DEF Home
  <2> QED
    BY <2>1, <1>1, <1>6, HomeKept DEF IInv
<1>8. SettledUnlessReplaced'
  BY <1>1, <1>2, <1>6, SettlingKeeps
<1> QED
  BY <1>3, <1>4, <1>5, <1>7, <1>8 DEF IInv

\* A thread that ends leaves its engine to the runtime.
LEMMA ThreadEndsIInv ==
    ASSUME IInv, NEW t \in Threads, ThreadEnds(t)
    PROVE  IInv'
<1>1. /\ gvl = None /\ ended' = ended \cup {t} /\ t \notin inTransaction
      /\ slot' = [slot EXCEPT ![t] = 0]
      /\ UNCHANGED <<gvl, call, awaited, closing, started, inTransaction, pending,
                     written, sent, settledUpTo, replaced>>
  BY DEF ThreadEnds, Runs, callVars, dataVars, histVars
<1>2. slot'[t] = 0 /\ \A u \in Threads : u # t => slot'[u] = slot[u]
  BY <1>1 DEF IInv, TypeOK
<1>3. TypeOK'
  <2>1. slot' \in [Threads -> 0..started]
    BY <1>1 DEF IInv, TypeOK
  <2>2. \A u \in Threads : slot'[u] # 0 =>
          slot'[u] # closing' /\ \A v \in Threads \ {u} : slot'[v] # slot'[u]
    BY <1>1, <1>2 DEF IInv, TypeOK
  <2> QED
    BY <2>1, <2>2, <1>1 DEF IInv, TypeOK
<1>4. CallOK'
  BY <1>1, NativeBridgeAssumption DEF IInv, TypeOK, CallOK
<1>5. DataOK'
  BY <1>1, <1>2, DataKept DEF IInv, TypeOK
<1>6. HomeOK'
  <2>1. \A u \in Threads : Home(u) \subseteq Home(u)'
    BY <1>1, <1>2 DEF Home
  <2> QED
    BY <2>1, <1>1, HomeKept DEF IInv
<1>7. SettledUnlessReplaced'
  BY <1>1 DEF IInv, SettledUnlessReplaced, Written
<1> QED
  BY <1>3, <1>4, <1>5, <1>6, <1>7 DEF IInv

\* The application's transactions begin and end between the calls, when no
\* statement waits for one.
LEMMA TransactionIInv ==
    ASSUME IInv, NEW t \in Threads, TransactionBegins(t) \/ TransactionEnds(t)
    PROVE  IInv'
<1>1. /\ gvl = None /\ t \notin ended
      /\ inTransaction' \subseteq inTransaction \cup {t}
      /\ UNCHANGED <<gvl, call, awaited, slot, closing, started, ended, pending, written,
                     sent, settledUpTo, replaced>>
  BY DEF TransactionBegins, TransactionEnds, Runs, callVars, engineVars, dataVars, histVars
<1>2. awaited = {}
  BY <1>1 DEF IInv, TypeOK
<1>3. TypeOK'
  BY <1>1, <1>2 DEF IInv, TypeOK
<1>4. CallOK'
  BY <1>1 DEF IInv, CallOK
<1>5. DataOK'
  BY <1>1, DataKept DEF IInv, TypeOK
<1>6. HomeOK'
  BY <1>1 DEF IInv, HomeOK, Home
<1>7. SettledUnlessReplaced'
  BY <1>1 DEF IInv, SettledUnlessReplaced, Written
<1> QED
  BY <1>3, <1>4, <1>5, <1>6, <1>7 DEF IInv

-----------------------------------------------------------------------------
(* Messages that come and go.                                              *)

\* A message that is accepted is the next number of its thread.
LEMMA Accepts ==
    ASSUME IInv, NEW t \in Threads, Broadcast(t)
    PROVE  /\ slot[t] \in Engines /\ slot[t] \in 1..started
           /\ sent[t] \in Nat /\ sent'[t] = sent[t] + 1 /\ sent'[t] \in 1..MaxSent
           /\ \A u \in Threads : u # t => sent'[u] = sent[u]
           /\ pending'[slot[t]] = Append(pending[slot[t]], <<t, sent[t] + 1>>)
           /\ \A e \in Engines : e # slot[t] => pending'[e] = pending[e]
           /\ pending' \in [Engines -> Seq(Messages)]
           /\ sent' \in [Threads -> 0..MaxSent]
           /\ UNCHANGED <<gvl, call, awaited, slot, closing, started, ended,
                          inTransaction, written, settledUpTo, replaced>>
<1>1. slot[t] \in Engines /\ slot[t] \in 1..started
  BY SlotIsEngine DEF Broadcast, IInv
<1>2. /\ sent' = [sent EXCEPT ![t] = @ + 1]
      /\ pending' = [pending EXCEPT ![slot[t]] = Append(@, <<t, sent[t] + 1>>)]
      /\ sent[t] < MaxSent
      /\ UNCHANGED <<gvl, call, awaited, slot, closing, started, ended, inTransaction,
                     written, settledUpTo, replaced>>
  BY DEF Broadcast, callVars, engineVars, threadVars
<1>3. sent[t] \in Nat /\ sent[t] + 1 \in 1..MaxSent
  BY <1>2, NativeBridgeAssumption DEF IInv, TypeOK
<1>4. sent' \in [Threads -> 0..MaxSent] /\ sent'[t] = sent[t] + 1
      /\ \A u \in Threads : u # t => sent'[u] = sent[u]
  BY <1>2, <1>3 DEF IInv, TypeOK
<1>5. Append(pending[slot[t]], <<t, sent[t] + 1>>) \in Seq(Messages)
  <2>1. <<t, sent[t] + 1>> \in Messages
    BY <1>3 DEF Messages
  <2> QED
    BY <2>1, <1>1, AppendProperties DEF IInv, TypeOK
<1>6. /\ pending' \in [Engines -> Seq(Messages)]
      /\ pending'[slot[t]] = Append(pending[slot[t]], <<t, sent[t] + 1>>)
      /\ \A e \in Engines : e # slot[t] => pending'[e] = pending[e]
  BY <1>1, <1>2, <1>5 DEF IInv, TypeOK
<1> QED
  BY <1>1, <1>2, <1>3, <1>4, <1>6

\* broadcast adds to the backlog of the engine in the slot.
LEMMA BroadcastIInv ==
    ASSUME IInv, NEW t \in Threads, Broadcast(t)
    PROVE  IInv'
<1> DEFINE e == slot[t]
           q == pending[e]
           m == <<t, sent[t] + 1>>
<1>1. /\ e \in Engines /\ e \in 1..started
      /\ sent[t] \in Nat /\ sent'[t] = sent[t] + 1 /\ sent'[t] \in 1..MaxSent
      /\ \A u \in Threads : u # t => sent'[u] = sent[u]
      /\ \A d \in Engines : d # e => pending'[d] = pending[d]
      /\ pending' \in [Engines -> Seq(Messages)]
      /\ sent' \in [Threads -> 0..MaxSent]
      /\ UNCHANGED <<gvl, call, awaited, slot, closing, started, ended, inTransaction,
                     written, settledUpTo, replaced>>
  BY Accepts
<1>2. /\ pending'[e] # <<>> /\ Len(q) \in Nat
      /\ Len(pending'[e]) = Len(q) + 1
      /\ \A i \in 1..Len(q) : pending'[e][i] = q[i]
      /\ pending'[e][Len(q) + 1] = m
  <2>1. q \in Seq(Messages) /\ m \in Messages /\ pending'[e] = Append(q, m)
    BY <1>1, Accepts DEF IInv, TypeOK, Messages
  <2> HIDE DEF m
  <2> QED
    BY <2>1, AppendProperties, LenProperties, EmptySeq
<1>3. e # 0 /\ \A u \in Threads : u # t /\ slot[u] # 0 => slot[u] # e /\ slot[u] \in Engines
  <2>1. e # 0
    BY <1>1
  <2>2. \A u \in Threads : u # t => slot[u] # e
    BY <2>1 DEF IInv, TypeOK
  <2>3. \A u \in Threads : slot[u] # 0 => slot[u] \in Engines
    BY SlotIsEngine DEF IInv
  <2> QED
    BY <2>1, <2>2, <2>3
<1>4. q # <<>> => Len(q) > 0 /\ q[Len(q)] = <<t, sent[t]>>
  BY <1>1, <1>3, Backlog DEF IInv, DataOK, LastOK
<1>5. TypeOK'
  BY <1>1 DEF IInv, TypeOK
<1> HIDE DEF e, q
<1>6. CallOK'
  BY <1>1 DEF IInv, CallOK
<1>7. FreshOK'
  BY <1>1 DEF IInv, TypeOK, DataOK, FreshOK, Engines
<1>8. RunOK'
  <2> SUFFICES ASSUME NEW d \in Engines, NEW i \in 1..(Len(pending'[d]) - 1)
               PROVE  pending'[d][i + 1] = <<pending'[d][i][1], pending'[d][i][2] + 1>>
    BY DEF RunOK
  <2>1. CASE d # e
    <3>1. pending'[d] = pending[d]
      BY <2>1, <1>1
    <3>2. RunOK /\ i \in 1..(Len(pending[d]) - 1)
      BY <3>1 DEF IInv, DataOK
    <3>3. pending[d][i + 1] = <<pending[d][i][1], pending[d][i][2] + 1>>
      BY <3>2 DEF RunOK
    <3> QED
      BY <3>1, <3>3
  <2>2. CASE d = e /\ i < Len(q)
    <3>1. i \in 1..(Len(q) - 1) /\ i \in 1..Len(q) /\ i + 1 \in 1..Len(q)
      BY <1>2, <2>2
    <3>2. q[i + 1] = <<q[i][1], q[i][2] + 1>>
      BY <3>1, <1>1 DEF q, IInv, DataOK, RunOK
    <3> QED
      BY <3>1, <3>2, <2>2, <1>2
  <2>3. CASE d = e /\ i = Len(q)
    <3>1. q # <<>> /\ i \in 1..Len(q)
      BY <2>3, EmptySeq
    <3> QED
      BY <3>1, <2>3, <1>2, <1>4
  <2>4. d = e => i < Len(q) \/ i = Len(q)
    BY <1>2
  <2> QED
    BY <2>1, <2>2, <2>3, <2>4
<1>9. LastOK'
  <2>1. slot' = slot /\ slot[t] = e
    BY <1>1 DEF e
  <2>2. pending'[e][Len(pending'[e])] = <<t, sent'[t]>>
    BY <1>1, <1>2
  <2> QED
    BY <2>1, <2>2, <1>1, <1>3 DEF IInv, DataOK, LastOK
<1>10. KeptOK'
  <2> SUFFICES ASSUME NEW u \in Threads, NEW n \in 1..sent'[u]
               PROVE  Written(u, n)' \/ Waiting(u, n)'
    BY DEF KeptOK
  <2>1. CASE n \in 1..sent[u]
    <3>1. Written(u, n) \/ Waiting(u, n)
      BY <2>1 DEF IInv, DataOK, KeptOK
    <3>2. ASSUME NEW d \in Engines, NEW i \in 1..Len(pending[d]), pending[d][i] = <<u, n>>
          PROVE  Waiting(u, n)'
      <4>1. i \in 1..Len(pending'[d]) /\ pending'[d][i] = <<u, n>>
        BY <1>1, <1>2, <3>2 DEF q
      <4> QED
        BY <4>1 DEF Waiting, Contains
    <3> QED
      BY <3>1, <3>2, <1>1 DEF Waiting, Written, Contains
  <2>2. CASE n \notin 1..sent[u]
    <3>1. u = t /\ n = sent[t] + 1
      BY <2>2, <1>1 DEF IInv, TypeOK
    <3>2. Len(q) + 1 \in 1..Len(pending'[e])
      BY <1>2
    <3> QED
      BY <3>1, <3>2, <1>1, <1>2 DEF Waiting, Contains
  <2> QED
    BY <2>1, <2>2
<1>11. FirstOK'
  <2> SUFFICES ASSUME NEW d \in Engines, NEW u \in Threads \ replaced, NEW n \in 2..MaxSent,
                      pending'[d] # <<>>, pending'[d][1] = <<u, n>>
               PROVE  Written(u, n - 1)
    BY <1>1 DEF FirstOK, Written
  <2>1. CASE pending[d] = <<>>
    <3>1. d = e /\ Len(q) = 0
      BY <1>1, <2>1, EmptySeq DEF q
    <3>2. u = t /\ n = sent[t] + 1
      BY <3>1, <1>2
    <3>3. n - 1 \in 1..sent[t]
      BY <3>2, <1>1
    <3>4. \A h \in Home(t) : pending[h] = <<>>
      BY <2>1, <3>1, <1>3 DEF Home, e
    <3> QED
      BY <3>2, <3>3, <3>4, HomeEmpty
  <2>2. CASE pending[d] # <<>>
    <3>1. pending[d][1] = <<u, n>>
      <4>1. 1 \in 1..Len(pending[d])
        BY <2>2, Backlog DEF IInv
      <4> QED
        BY <4>1, <1>1, <1>2 DEF q
    <3> QED
      BY <2>2, <3>1 DEF IInv, DataOK, FirstOK
  <2> QED
    BY <2>1, <2>2
<1>12. OrderOK'
  <2>1. written' = written /\ replaced' = replaced
    BY <1>1
  <2>2. OrderOK
    BY DEF IInv, DataOK
  <2> QED
    BY <2>1, <2>2 DEF OrderOK
<1>13. HomeOK'
  <2> SUFFICES ASSUME NEW u \in Threads \ replaced, NEW d \in Engines,
                      NEW i \in 1..Len(pending'[d]), pending'[d][i][1] = u
               PROVE  d \in Home(u)
    BY <1>1 DEF HomeOK, Home
  <2>1. CASE i \in 1..Len(pending[d])
    <3>1. pending[d][i][1] = u
      BY <2>1, <1>1, <1>2 DEF q
    <3> QED
      BY <2>1, <3>1 DEF IInv, HomeOK
  <2>2. CASE i \notin 1..Len(pending[d])
    <3>1. d = e /\ i = Len(q) + 1
      BY <2>2, <1>1, <1>2 DEF q
    <3>2. u = t
      BY <3>1, <1>2
    <3> QED
      BY <3>1, <3>2, <1>1 DEF Home, e
  <2> QED
    BY <2>1, <2>2
<1>14. SettledUnlessReplaced'
  BY <1>1 DEF IInv, SettledUnlessReplaced, Written
<1> QED
  BY <1>5, <1>6, <1>7, <1>8, <1>9, <1>10, <1>11, <1>12, <1>13, <1>14 DEF IInv, DataOK

\* A batch is the front of a backlog, and goes to the end of what is written.
LEMMA BatchWritten ==
    ASSUME IInv, NEW e \in Engines, WriterTask(e)
    PROVE  \E k \in Nat :
             /\ 0 < k /\ k <= Len(pending[e])
             /\ Len(pending[e]) \in Nat /\ Len(written) \in Nat
             /\ written' \in Seq(Messages)
             /\ Len(written') = Len(written) + k
             /\ \A i \in 1..Len(written) : written'[i] = written[i]
             /\ \A i \in 1..k : written'[Len(written) + i] = pending[e][i]
             /\ pending' \in [Engines -> Seq(Messages)]
             /\ \A d \in Engines : d # e => pending'[d] = pending[d]
             /\ Len(pending'[e]) = Len(pending[e]) - k
             /\ \A i \in 1..(Len(pending[e]) - k) : pending'[e][i] = pending[e][k + i]
<1> DEFINE q == pending[e]
<1>1. PICK k \in 1..BatchSize :
        /\ k <= Len(q)
        /\ written' = written \o SubSeq(q, 1, k)
        /\ pending' = [pending EXCEPT ![e] = SubSeq(@, k + 1, Len(@))]
  BY DEF WriterTask
<1>2. k \in Nat /\ 0 < k /\ k \in Int /\ k + 1 \in Int
  BY NativeBridgeAssumption
<1>3. /\ q \in Seq(Messages) /\ Len(q) \in Nat
      /\ written \in Seq(Messages) /\ Len(written) \in Nat
      /\ \A i \in 1..Len(q) : q[i] \in Messages
  BY Backlog, LenProperties DEF IInv, TypeOK
<1>4. /\ pending'[e] = SubSeq(q, k + 1, Len(q))
      /\ \A d \in Engines : d # e => pending'[d] = pending[d]
  BY <1>1 DEF IInv, TypeOK
<1> HIDE DEF q
<1>5. /\ SubSeq(q, 1, k) \in Seq(Messages)
      /\ Len(SubSeq(q, 1, k)) = k
      /\ \A i \in 1..k : SubSeq(q, 1, k)[i] = q[i]
  <2>1. \A i \in 1..k : q[i] \in Messages
    BY <1>1, <1>2, <1>3
  <2>2. /\ SubSeq(q, 1, k) \in Seq(Messages)
        /\ Len(SubSeq(q, 1, k)) = IF 1 <= k THEN k - 1 + 1 ELSE 0
        /\ \A i \in 1..(k - 1 + 1) : SubSeq(q, 1, k)[i] = q[1 + i - 1]
    BY <2>1, <1>2, SubSeqProperties
  <2> QED
    BY <2>2, <1>2
<1>6. /\ SubSeq(q, k + 1, Len(q)) \in Seq(Messages)
      /\ Len(SubSeq(q, k + 1, Len(q))) = Len(q) - k
      /\ \A i \in 1..(Len(q) - k) : SubSeq(q, k + 1, Len(q))[i] = q[k + i]
  <2>1. \A i \in (k + 1)..Len(q) : q[i] \in Messages
    BY <1>2, <1>3
  <2>2. /\ SubSeq(q, k + 1, Len(q)) \in Seq(Messages)
        /\ Len(SubSeq(q, k + 1, Len(q))) =
             IF k + 1 <= Len(q) THEN Len(q) - (k + 1) + 1 ELSE 0
        /\ \A i \in 1..(Len(q) - (k + 1) + 1) :
             SubSeq(q, k + 1, Len(q))[i] = q[(k + 1) + i - 1]
    BY <2>1, <1>2, <1>3, SubSeqProperties
  <2> QED
    BY <2>2, <1>1, <1>2, <1>3
<1>7. /\ written' \in Seq(Messages)
      /\ Len(written') = Len(written) + k
      /\ \A i \in 1..(Len(written) + k) :
           written'[i] = IF i <= Len(written) THEN written[i]
                         ELSE SubSeq(q, 1, k)[i - Len(written)]
  BY <1>1, <1>3, <1>5, ConcatProperties
<1>8. \A i \in 1..Len(written) : written'[i] = written[i]
  BY <1>2, <1>3, <1>7
<1>9. ASSUME NEW i \in 1..k
      PROVE  written'[Len(written) + i] = q[i]
  <2>1. Len(written) + i \in 1..(Len(written) + k) /\ ~ (Len(written) + i <= Len(written))
        /\ (Len(written) + i) - Len(written) = i
    BY <1>2, <1>3
  <2> QED
    BY <2>1, <1>5, <1>7
<1>10. pending' \in [Engines -> Seq(Messages)]
  BY <1>1, <1>4, <1>6 DEF q, IInv, TypeOK
<1> QED
  BY <1>1, <1>2, <1>3, <1>4, <1>6, <1>7, <1>8, <1>9, <1>10 DEF q

\* writer_loop keeps the run going: what it writes follows what is written,
\* what it leaves follows what it writes.
LEMMA WriterTaskIInv ==
    ASSUME IInv, NEW e \in Engines, WriterTask(e)
    PROVE  IInv'
<1> DEFINE q == pending[e]
           done == Len(written)
<1>1. UNCHANGED <<gvl, call, awaited, slot, closing, started, ended, inTransaction, sent,
                  settledUpTo, replaced>>
  BY DEF WriterTask, callVars, engineVars, threadVars, histVars
<1>2. PICK k \in Nat :
        /\ 0 < k /\ k <= Len(q) /\ Len(q) \in Nat /\ done \in Nat
        /\ written' \in Seq(Messages)
        /\ Len(written') = done + k
        /\ \A i \in 1..done : written'[i] = written[i]
        /\ \A i \in 1..k : written'[done + i] = q[i]
        /\ pending' \in [Engines -> Seq(Messages)]
        /\ \A d \in Engines : d # e => pending'[d] = pending[d]
        /\ Len(pending'[e]) = Len(q) - k
        /\ \A i \in 1..(Len(q) - k) : pending'[e][i] = q[k + i]
  BY BatchWritten
<1>3. \A i \in 1..(Len(q) - 1) : q[i + 1] = <<q[i][1], q[i][2] + 1>>
  BY DEF IInv, DataOK, RunOK
<1>4. q # <<>>
  BY <1>2, EmptySeq
<1>5. pending'[e] # <<>> => Len(q) - k > 0
  BY <1>2, EmptySeq
<1> HIDE DEF q, done
<1>6. /\ \A i \in 1..k : i \in 1..Len(q) /\ done + i \in 1..Len(written')
      /\ \A i \in 1..(Len(q) - k) : k + i \in 1..Len(q)
      /\ 1..done \subseteq 1..Len(written')
  BY <1>2
<1>7. \A t, n : Written(t, n) => Written(t, n)'
  BY <1>2, <1>6 DEF Written, Contains, done
<1>8. ASSUME NEW i \in 1..k, NEW t, NEW n, q[i] = <<t, n>>
      PROVE  Written(t, n)'
  BY <1>2, <1>6, <1>8 DEF Written, Contains
<1>9. TypeOK'
  BY <1>1, <1>2 DEF IInv, TypeOK
<1>10. CallOK'
  BY <1>1 DEF IInv, CallOK
<1>11. FreshOK'
  BY <1>1, <1>2, <1>4 DEF IInv, DataOK, FreshOK, q
<1>12. RunOK'
  <2> SUFFICES ASSUME NEW d \in Engines, NEW i \in 1..(Len(pending'[d]) - 1)
               PROVE  pending'[d][i + 1] = <<pending'[d][i][1], pending'[d][i][2] + 1>>
    BY DEF RunOK
  <2>1. CASE d # e
    <3>1. pending'[d] = pending[d]
      BY <2>1, <1>2
    <3> QED
      BY <3>1 DEF IInv, DataOK, RunOK
  <2>2. CASE d = e
    <3>1. /\ i \in 1..(Len(q) - k) /\ i + 1 \in 1..(Len(q) - k)
          /\ k + i \in 1..(Len(q) - 1) /\ k + (i + 1) = (k + i) + 1
      BY <1>2, <2>2
    <3>2. pending'[e][i] = q[k + i] /\ pending'[e][i + 1] = q[(k + i) + 1]
      BY <3>1, <1>2
    <3> QED
      BY <3>1, <3>2, <2>2, <1>3
  <2> QED
    BY <2>1, <2>2
<1>13. LastOK'
  <2> SUFFICES ASSUME NEW t \in Threads, slot[t] # 0, pending'[slot[t]] # <<>>
               PROVE  pending'[slot[t]][Len(pending'[slot[t]])] = <<t, sent[t]>>
    BY <1>1 DEF LastOK
  <2>1. slot[t] \in Engines
    BY SlotIsEngine DEF IInv
  <2>2. CASE slot[t] # e
    BY <2>1, <2>2, <1>2 DEF IInv, DataOK, LastOK
  <2>3. CASE slot[t] = e
    <3>1. q[Len(q)] = <<t, sent[t]>>
      BY <2>3, <1>4 DEF q, IInv, DataOK, LastOK
    <3>2. Len(q) - k \in 1..(Len(q) - k) /\ k + (Len(q) - k) = Len(q)
      BY <2>3, <1>2, <1>5
    <3>3. pending'[e][Len(q) - k] = q[Len(q)]
      BY <3>2, <1>2
    <3> QED
      BY <3>1, <3>3, <2>3, <1>2
  <2> QED
    BY <2>2, <2>3
<1>14. KeptOK'
  <2> SUFFICES ASSUME NEW t \in Threads, NEW n \in 1..sent[t]
               PROVE  Written(t, n)' \/ Waiting(t, n)'
    BY <1>1 DEF KeptOK
  <2>1. Written(t, n) \/ Waiting(t, n)
    BY DEF IInv, DataOK, KeptOK
  <2>2. ASSUME NEW d \in Engines, NEW i \in 1..Len(pending[d]), pending[d][i] = <<t, n>>
        PROVE  Written(t, n)' \/ Waiting(t, n)'
    <3>1. CASE d # e
      BY <3>1, <2>2, <1>2 DEF Waiting, Contains
    <3>2. CASE d = e /\ i <= k
      <4>1. i \in 1..k /\ q[i] = <<t, n>>
        BY <3>2, <2>2, <1>2 DEF q
      <4> QED
        BY <4>1, <1>8
    <3>3. CASE d = e /\ k < i
      <4>1. /\ i - k \in 1..(Len(q) - k) /\ k + (i - k) = i
            /\ q[i] = <<t, n>>
        BY <3>3, <2>2, <1>2 DEF q
      <4>2. pending'[e][i - k] = <<t, n>> /\ i - k \in 1..Len(pending'[e])
        BY <4>1, <1>2
      <4> QED
        BY <4>2 DEF Waiting, Contains
    <3> QED
      BY <3>1, <3>2, <3>3, <1>2
  <2> QED
    BY <2>1, <2>2, <1>7 DEF Waiting, Contains
<1>15. FirstOK'
  <2> SUFFICES ASSUME NEW d \in Engines, NEW t \in Threads \ replaced, NEW n \in 2..MaxSent,
                      pending'[d] # <<>>, pending'[d][1] = <<t, n>>
               PROVE  Written(t, n - 1)'
    BY <1>1 DEF FirstOK
  <2>1. CASE d # e
    <3>1. Written(t, n - 1)
      BY <2>1, <1>2 DEF IInv, DataOK, FirstOK
    <3> QED
      BY <3>1, <1>7
  <2>2. CASE d = e
    <3>1. 1 \in 1..(Len(q) - k) /\ k \in 1..(Len(q) - 1) /\ k \in 1..k
      BY <2>2, <1>2, <1>5
    <3>2. q[k + 1] = <<t, n>> /\ q[k + 1] = <<q[k][1], q[k][2] + 1>>
      BY <3>1, <2>2, <1>2, <1>3
    <3>3. q[k][2] \in 1..MaxSent /\ q[k] = <<q[k][1], q[k][2]>>
      BY <3>1, <1>6, Backlog DEF q, IInv
    <3>4. q[k] = <<t, n - 1>>
      BY <3>2, <3>3
    <3> QED
      BY <3>1, <3>4, <1>8
  <2> QED
    BY <2>1, <2>2
<1>16. OrderOK'
  <2> SUFFICES ASSUME NEW t \in Threads \ replaced, NEW n \in 2..MaxSent,
                      NEW j \in 1..Len(written'), written'[j] = <<t, n>>
               PROVE  \E i \in 1..Len(written') : i < j /\ written'[i] = <<t, n - 1>>
    BY <1>1 DEF OrderOK
  <2>1. CASE j \in 1..done
    <3>1. j \in 1..Len(written) /\ written[j] = <<t, n>>
      BY <2>1, <1>2 DEF done
    <3>2. PICK i \in 1..done : i < j /\ written[i] = <<t, n - 1>>
      BY <3>1 DEF done, IInv, DataOK, OrderOK
    <3> QED
      BY <3>2, <1>2, <1>6
  <2>2. CASE j \notin 1..done
    <3>1. PICK i \in 1..k : j = done + i
      <4>1. j - done \in 1..k /\ j = done + (j - done)
        BY <2>2, <1>2
      <4> QED
        BY <4>1
    <3>2. q[i] = <<t, n>>
      BY <3>1, <1>2
    <3>3. CASE i = 1
      <4>1. Written(t, n - 1)
        BY <3>2, <3>3, <1>4 DEF q, IInv, DataOK, FirstOK
      <4>2. PICK h \in 1..done : written[h] = <<t, n - 1>>
        BY <4>1 DEF Written, Contains, done
      <4>3. h < j /\ h \in 1..Len(written') /\ written'[h] = <<t, n - 1>>
        BY <4>2, <3>1, <1>2, <1>6
      <4> QED
        BY <4>3
    <3>4. CASE i # 1
      <4>1. i - 1 \in 1..k /\ i - 1 \in 1..(Len(q) - 1) /\ (i - 1) + 1 = i
        BY <3>4, <1>2
      <4>2. <<t, n>> = <<q[i - 1][1], q[i - 1][2] + 1>>
        BY <4>1, <3>2, <1>3
      <4>3. q[i - 1][2] \in 1..MaxSent /\ q[i - 1] = <<q[i - 1][1], q[i - 1][2]>>
        BY <4>1, <1>6, Backlog DEF q, IInv
      <4>4. q[i - 1] = <<t, n - 1>>
        BY <4>2, <4>3
      <4>5. written'[done + (i - 1)] = <<t, n - 1>> /\ done + (i - 1) \in 1..Len(written')
        BY <4>1, <4>4, <1>2, <1>6
      <4>6. done + (i - 1) < j
        BY <3>1, <1>2
      <4> QED
        BY <4>5, <4>6
    <3> QED
      BY <3>3, <3>4
  <2> QED
    BY <2>1, <2>2
<1>17. HomeOK'
  <2> SUFFICES ASSUME NEW t \in Threads \ replaced, NEW d \in Engines,
                      NEW i \in 1..Len(pending'[d]), pending'[d][i][1] = t
               PROVE  d \in Home(t)
    BY <1>1 DEF HomeOK, Home
  <2>1. CASE d # e
    BY <2>1, <1>2 DEF IInv, HomeOK
  <2>2. CASE d = e
    <3>1. k + i \in 1..Len(q) /\ q[k + i][1] = t
      BY <2>2, <1>2, <1>6
    <3> QED
      BY <3>1, <2>2 DEF q, IInv, HomeOK
  <2> QED
    BY <2>1, <2>2
<1>18. SettledUnlessReplaced'
  BY <1>1, <1>7 DEF IInv, SettledUnlessReplaced
<1> QED
  BY <1>9, <1>10, <1>11, <1>12, <1>13, <1>14, <1>15, <1>16, <1>17, <1>18 DEF IInv, DataOK

-----------------------------------------------------------------------------
(* What follows.                                                           *)

\* Every step of the specification keeps the invariant.
LEMMA NextIInv == IInv /\ [Next]_vars => IInv'
<1> SUFFICES ASSUME IInv, [Next]_vars
             PROVE  IInv'
  OBVIOUS
<1>1. CASE UNCHANGED vars
  <2>1. UNCHANGED <<gvl, call, awaited, slot, closing, started, ended, inTransaction,
                    pending, written, sent, settledUpTo, replaced>>
    BY <1>1 DEF vars, callVars, engineVars, threadVars, dataVars, histVars
  <2>2. TypeOK' /\ CallOK'
    BY <2>1 DEF IInv, TypeOK, CallOK
  <2>3. DataOK'
    BY <2>1, DataKept DEF IInv, TypeOK
  <2>4. HomeOK'
    BY <2>1 DEF IInv, HomeOK, Home
  <2>5. SettledUnlessReplaced'
    BY <2>1 DEF IInv, SettledUnlessReplaced, Written
  <2> QED
    BY <2>2, <2>3, <2>4, <2>5 DEF IInv
<1>2. ASSUME NEW t \in Threads,
             \/ InitBegins(t) \/ Broadcast(t) \/ FlushBegins(t)
             \/ ShutdownBegins(t) \/ QueryBegins(t) \/ ThreadEnds(t)
             \/ TransactionBegins(t) \/ TransactionEnds(t)
      PROVE  IInv'
  BY <1>2, CallBeginsIInv, BroadcastIInv, ShutdownBeginsIInv, ThreadEndsIInv, TransactionIInv
<1>3. CASE Returns \/ QueryGivesUp
  BY <1>3, CallEndsIInv, InitReturnsIInv, FlushReturnsIInv, ShutdownReturnsIInv DEF Returns
<1>4. ASSUME NEW e \in Engines, WriterTask(e)
      PROVE  IInv'
  BY <1>4, WriterTaskIInv
<1> QED
  BY <1>1, <1>2, <1>3, <1>4 DEF Next

\* The inductive invariant holds in every reachable state.
THEOREM Invariance == Spec => []IInv
  BY InitIInv, NextIInv, PTL DEF Spec

\* Every variable keeps to its type; an engine is in one slot or in one
\* shutdown, so that try_unwrap succeeds.
THEOREM TypeCorrect == Spec => []TypeOK
<1>1. IInv => TypeOK
  BY DEF IInv
<1> QED
  BY <1>1, Invariance, PTL

\* For any threads and engines: when flush or shutdown has returned, all that
\* its thread ever broadcast is written, unless init dropped a busy engine.
THEOREM SettledCorrect == Spec => []SettledUnlessReplaced
<1>1. IInv => SettledUnlessReplaced
  BY DEF IInv
<1> QED
  BY <1>1, Invariance, PTL

\* For any threads and engines: a thread's messages are written in the order
\* it sent them, with the same exception.
THEOREM OrderCorrect == Spec => []OrderedUnlessReplaced
<1>1. IInv => OrderedUnlessReplaced
  <2> SUFFICES ASSUME OrderOK, NEW t \in Threads \ replaced, NEW n \in 2..MaxSent,
                      Written(t, n)
               PROVE  /\ Written(t, n - 1)
                      /\ \E i, j \in 1..Len(written) :
                           i < j /\ written[i] = <<t, n - 1>> /\ written[j] = <<t, n>>
    BY DEF IInv, DataOK, OrderedUnlessReplaced
  <2>1. PICK j \in 1..Len(written) : written[j] = <<t, n>>
    BY DEF Written, Contains
  <2>2. PICK i \in 1..Len(written) : i < j /\ written[i] = <<t, n - 1>>
    BY <2>1 DEF OrderOK
  <2> QED
    BY <2>1, <2>2 DEF Written, Contains
<1> QED
  BY <1>1, Invariance, PTL

\* What broadcast accepted is written or in the backlog of an engine, also
\* when the engine was shut down or replaced, or its thread has ended.
THEOREM NothingLost == Spec => []KeptOK
<1>1. IInv => KeptOK
  BY DEF IInv, DataOK
<1> QED
  BY <1>1, Invariance, PTL

\* For any threads: once mark_delivered or cleanup waits for rows that a Ruby
\* transaction holds, it does so until the database gives up; no commit, no
\* call and no end of a thread comes in between, for they need the lock.
THEOREM DeadlockStays == Spec => DeadlockLasts
<1>1. IInv /\ [Next]_vars => (Deadlocked => Deadlocked' \/ QueryGivesUp)
  <2> SUFFICES ASSUME IInv, [Next]_vars, Deadlocked, ~QueryGivesUp
               PROVE  Deadlocked'
    OBVIOUS
  <2>1. gvl # None /\ Blocked /\ call = "query"
    BY DEF Deadlocked, Blocked, IInv, TypeOK
  <2>2. ~Returns
    BY <2>1 DEF Returns, InitFails, InitReturns, FlushReturns, ShutdownReturns,
                QueryReturns, Leaves
  <2>3. \A t \in Threads :
          ~(\/ InitBegins(t) \/ Broadcast(t) \/ FlushBegins(t)
            \/ ShutdownBegins(t) \/ QueryBegins(t) \/ ThreadEnds(t)
            \/ TransactionBegins(t) \/ TransactionEnds(t))
    BY <2>1 DEF InitBegins, Broadcast, FlushBegins, ShutdownBegins, QueryBegins, ThreadEnds,
                TransactionBegins, TransactionEnds, Enters, EntersFor, Runs
  <2>4. UNCHANGED vars \/ \E e \in Engines : WriterTask(e)
    BY <2>2, <2>3 DEF Next
  <2>5. UNCHANGED <<gvl, awaited, inTransaction>>
    BY <2>4 DEF vars, callVars, threadVars, WriterTask
  <2> QED
    BY <2>1, <2>5 DEF Deadlocked, Blocked
<1> QED
  BY <1>1, Invariance, PTL DEF Spec, DeadlockLasts
=============================================================================
