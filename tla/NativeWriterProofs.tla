------------------------- MODULE NativeWriterProofs -------------------------
(***************************************************************************)
(* Proofs about NativeWriter, for every channel size, batch size, number   *)
(* of flush calls and number of messages.                                  *)
(*                                                                         *)
(* The channel is described by Chain: each command counts one message more *)
(* than the one before it if it is a message and as many if it is not,     *)
(* from what the task has received to what was accepted.  IInv adds where  *)
(* the flush commands are, that the Shutdown command is the last one, and  *)
(* what the task's position and the owner's imply about each other.        *)
(***************************************************************************)
EXTENDS NativeWriter, SequenceTheorems, TLAPS

\* Messages the task has received.
Taken == Len(settled) + Len(batch)

Step(cmd) == IF cmd.kind = Message THEN 1 ELSE 0

Chain(q, taken, acc) ==
    /\ taken <= acc
    /\ acc <= taken + Len(q)
    /\ q # <<>> => q[1].n = taken + Step(q[1]) /\ q[Len(q)].n = acc
    /\ \A i \in 1..(Len(q) - 1) : q[i + 1].n = q[i].n + Step(q[i + 1])
    /\ \A i \in 1..Len(q) : q[i].n <= acc /\ acc <= q[i].n + (Len(q) - i)

InOrder ==
    \A i \in 1..Len(batch) : batch[i] = Len(settled) + i

\* What flush[f] can be once its command was sent.
Sent == {"waiting", "ok", "cancelled"}

\* A flush command in the channel, and a waiter in the task's hands, belong
\* to a call that was sent; a waiter's messages are received, and a call that
\* was answered has them written.
FlushesOK ==
    /\ \A i \in 1..Len(channel) : channel[i].kind \in FlushCalls =>
         /\ channel[i].n = mark[channel[i].kind]
         /\ flush[channel[i].kind] \in Sent
    /\ \A f \in waiters : mark[f] <= Taken /\ flush[f] \in Sent
    /\ \A f \in FlushCalls : flush[f] = "ok" => mark[f] <= Len(settled)

BatchOK ==
    batch # <<>> => worker \in {"fill", "drain", "write", "lastWrite"}

\* The owner leaves "open" only with no call in progress, so nothing is sent
\* after Shutdown, and the task that received it has an empty channel.
OwnerOK ==
    /\ owner # "open" => ~Borrowed
    /\ \A i \in 1..Len(channel) : channel[i].kind = Shutdown =>
         i = Len(channel) /\ owner \notin {"open", "sending"}
    /\ worker \in {"drain", "lastWrite", "lastSignal", "done"} =>
         channel = <<>> /\ owner \notin {"open", "sending"}
    /\ owner = "returned" => worker = "done"

IInv ==
    /\ TypeOK
    /\ Chain(channel, Taken, accepted)
    /\ InOrder
    /\ FlushesOK
    /\ BatchOK
    /\ OwnerOK

-----------------------------------------------------------------------------
(* Commands, and what sending and receiving make of a chain.               *)

\* What a channel holds are commands.
LEMMA Commands ==
    ASSUME NEW q \in Seq(Command)
    PROVE  /\ Len(q) \in Nat
           /\ q = <<>> => Len(q) = 0
           /\ q # <<>> => Len(q) >= 1
           /\ \A i \in 1..Len(q) : q[i] \in Command /\ q[i].n \in Nat
<1>1. \A cmd \in Command : cmd.n \in Nat
  BY DEF Command
<1>2. \A i \in 1..Len(q) : q[i] \in Command
  BY ElementOfSeq
<1> QED
  BY <1>1, <1>2, EmptySeq, LenProperties

\* What sending does to the positions of a channel.
LEMMA AppendCommand ==
    ASSUME NEW q \in Seq(Command), NEW cmd \in Command
    PROVE  /\ Append(q, cmd) \in Seq(Command)
           /\ Append(q, cmd) # <<>>
           /\ Len(Append(q, cmd)) = Len(q) + 1
           /\ \A i \in 1..Len(q) : Append(q, cmd)[i] = q[i]
           /\ Append(q, cmd)[Len(q) + 1] = cmd
BY AppendProperties

\* What receiving does to the positions of a channel.
LEMMA TailCommand ==
    ASSUME NEW q \in Seq(Command), q # <<>>
    PROVE  /\ Head(q) = q[1] /\ Head(q) \in Command
           /\ Tail(q) \in Seq(Command)
           /\ Len(q) \in Nat /\ Len(q) >= 1
           /\ Len(Tail(q)) = Len(q) - 1
           /\ \A i \in 1..Len(Tail(q)) : Tail(q)[i] = q[i + 1]
BY HeadTailProperties, EmptySeq, LenProperties

\* A command that counts one message more (Message) or as many (the others)
\* extends a chain.
LEMMA ChainAppend ==
    ASSUME NEW q \in Seq(Command), NEW taken \in Nat, NEW acc \in Nat,
           NEW cmd \in Command, Chain(q, taken, acc), cmd.n = acc + Step(cmd)
    PROVE  Chain(Append(q, cmd), taken, cmd.n)
<1> DEFINE r == Append(q, cmd)
<1>1. /\ r \in Seq(Command) /\ r # <<>>
      /\ Len(r) = Len(q) + 1
      /\ \A i \in 1..Len(q) : r[i] = q[i]
      /\ r[Len(q) + 1] = cmd
  BY AppendCommand
<1>2. /\ Len(q) \in Nat
      /\ q = <<>> => Len(q) = 0
      /\ q # <<>> => Len(q) >= 1
      /\ \A i \in 1..Len(q) : q[i] \in Command /\ q[i].n \in Nat
  BY Commands
<1> HIDE DEF r
<1>3. cmd.n \in Nat /\ acc <= cmd.n /\ cmd.n <= acc + 1
  BY DEF Step
<1>4. taken <= cmd.n /\ cmd.n <= taken + Len(r)
  BY <1>1, <1>2, <1>3 DEF Chain
<1>5. r[1].n = taken + Step(r[1]) /\ r[Len(r)].n = cmd.n
  <2>1. CASE q = <<>>
    <3>1. taken = acc
      BY <2>1, <1>2 DEF Chain
    <3> QED
      BY <3>1, <2>1, <1>1, <1>2
  <2>2. CASE q # <<>>
    BY <2>2, <1>1, <1>2 DEF Chain
  <2> QED
    BY <2>1, <2>2
<1>6. \A i \in 1..(Len(r) - 1) : r[i + 1].n = r[i].n + Step(r[i + 1])
  <2> SUFFICES ASSUME NEW i \in 1..Len(q)
               PROVE  r[i + 1].n = r[i].n + Step(r[i + 1])
    BY <1>1, <1>2
  <2>1. CASE i = Len(q)
    BY <2>1, <1>1, <1>2 DEF Chain
  <2>2. CASE i < Len(q)
    <3>1. /\ i \in 1..(Len(q) - 1)
          /\ r[i] = q[i] /\ r[i + 1] = q[i + 1]
      BY <2>2, <1>1, <1>2
    <3> QED
      BY <3>1 DEF Chain
  <2> QED
    BY <2>1, <2>2, <1>2
<1>7. \A i \in 1..Len(r) : r[i].n <= cmd.n /\ cmd.n <= r[i].n + (Len(r) - i)
  <2> SUFFICES ASSUME NEW i \in 1..Len(r)
               PROVE  r[i].n <= cmd.n /\ cmd.n <= r[i].n + (Len(r) - i)
    OBVIOUS
  <2>1. CASE i \in 1..Len(q)
    <3>1. /\ r[i] = q[i] /\ q[i].n \in Nat
          /\ q[i].n <= acc /\ acc <= q[i].n + (Len(q) - i)
      BY <2>1, <1>1, <1>2 DEF Chain
    <3> QED
      BY <3>1, <1>1, <1>2, <1>3
  <2>2. CASE i = Len(q) + 1
    BY <2>2, <1>1, <1>2, <1>3
  <2> QED
    BY <2>1, <2>2, <1>1, <1>2
<1> QED
  BY <1>1, <1>4, <1>5, <1>6, <1>7 DEF Chain, r

\* The first command of a chain counts the next message, or none; what
\* remains is a chain from there.
LEMMA ChainTail ==
    ASSUME NEW q \in Seq(Command), NEW taken \in Nat, NEW acc \in Nat,
           Chain(q, taken, acc), q # <<>>
    PROVE  /\ Head(q).n = taken + Step(Head(q))
           /\ Chain(Tail(q), Head(q).n, acc)
<1> DEFINE r == Tail(q)
<1>1. /\ Head(q) = q[1]
      /\ r \in Seq(Command)
      /\ Len(q) >= 1
      /\ Len(r) = Len(q) - 1
      /\ \A i \in 1..Len(r) : r[i] = q[i + 1]
  BY TailCommand
<1>2. /\ Len(q) \in Nat
      /\ \A i \in 1..Len(q) : q[i] \in Command /\ q[i].n \in Nat
  BY Commands
<1>3. r # <<>> => Len(r) >= 1
  BY <1>1, Commands
<1> HIDE DEF r
<1>4. Head(q).n = taken + Step(Head(q)) /\ Head(q).n = q[1].n
  BY <1>1 DEF Chain
<1>5. q[1].n <= acc /\ acc <= q[1].n + Len(r)
  BY <1>1, <1>2 DEF Chain
<1>6. r # <<>> => r[1].n = q[1].n + Step(r[1]) /\ r[Len(r)].n = acc
  BY <1>1, <1>2, <1>3 DEF Chain
<1>7. \A i \in 1..(Len(r) - 1) : r[i + 1].n = r[i].n + Step(r[i + 1])
  <2> SUFFICES ASSUME NEW i \in 1..(Len(r) - 1)
               PROVE  r[i + 1].n = r[i].n + Step(r[i + 1])
    OBVIOUS
  <2>1. /\ i + 1 \in 1..(Len(q) - 1)
        /\ r[i] = q[i + 1] /\ r[i + 1] = q[(i + 1) + 1]
    BY <1>1, <1>2
  <2> QED
    BY <2>1 DEF Chain
<1>8. \A i \in 1..Len(r) : r[i].n <= acc /\ acc <= r[i].n + (Len(r) - i)
  <2> SUFFICES ASSUME NEW i \in 1..Len(r)
               PROVE  r[i].n <= acc /\ acc <= r[i].n + (Len(r) - i)
    OBVIOUS
  <2>1. i + 1 \in 1..Len(q) /\ Len(q) - (i + 1) = Len(r) - i /\ r[i] = q[i + 1]
    BY <1>1, <1>2
  <2> QED
    BY <2>1 DEF Chain
<1> QED
  BY <1>4, <1>5, <1>6, <1>7, <1>8 DEF Chain, r

-----------------------------------------------------------------------------
(* The invariant, action by action.                                        *)

\* A writer that has just been built satisfies the invariant.
LEMMA InitIInv == Init => IInv
<1> SUFFICES ASSUME Init
             PROVE  IInv
  OBVIOUS
<1> USE DEF Init
<1>1. Len(channel) = 0 /\ Len(batch) = 0 /\ Len(settled) = 0
  BY EmptySeq
<1>2. TypeOK
  <2>1. <<>> \in Seq(Command) /\ <<>> \in Seq(Nat) /\ <<>> \in Seq(Outcome)
    BY EmptySeq
  <2> QED
    BY <1>1, <2>1, NativeWriterAssumption DEF TypeOK
<1>3. Chain(channel, Taken, accepted)
  BY <1>1 DEF Chain, Taken
<1>4. InOrder /\ FlushesOK /\ BatchOK /\ OwnerOK
  BY <1>1 DEF InOrder, FlushesOK, BatchOK, OwnerOK
<1> QED
  BY <1>2, <1>3, <1>4 DEF IInv

\* Arithmetic facts every step below starts from.
LEMMA Counts ==
    ASSUME IInv
    PROVE  /\ channel \in Seq(Command) /\ Len(channel) \in Nat
           /\ batch \in Seq(Nat) /\ Len(batch) \in Nat
           /\ (batch = <<>> => Len(batch) = 0)
           /\ settled \in Seq(Outcome) /\ Len(settled) \in Nat
           /\ Taken \in Nat /\ accepted \in Nat
           /\ Taken = Len(settled) + Len(batch)
           /\ Taken <= accepted
           /\ (channel = <<>> => Taken = accepted)
<1>1. channel \in Seq(Command) /\ batch \in Seq(Nat) /\ settled \in Seq(Outcome)
  BY DEF IInv, TypeOK
<1>2. Len(channel) \in Nat /\ Len(batch) \in Nat /\ Len(settled) \in Nat
  BY <1>1, LenProperties
<1>3. accepted \in Nat /\ Taken <= accepted /\ accepted <= Taken + Len(channel)
  BY DEF IInv, TypeOK, Chain
<1>4. (channel = <<>> => Len(channel) = 0) /\ (batch = <<>> => Len(batch) = 0)
  BY EmptySeq
<1>5. Taken \in Nat /\ Taken = Len(settled) + Len(batch)
  BY <1>2 DEF Taken
<1> QED
  BY <1>1, <1>2, <1>3, <1>4, <1>5

\* What every send leaves right, whatever the command.
LEMMA Sends ==
    ASSUME IInv, NEW cmd \in Command, ~Full,
           channel' = Append(channel, cmd),
           accepted' = cmd.n, cmd.n = accepted + Step(cmd),
           UNCHANGED workerVars
    PROVE  /\ channel' \in Seq(Command) /\ Len(channel') <= QueueSize
           /\ accepted' \in Nat
           /\ Len(channel') = Len(channel) + 1
           /\ \A i \in 1..Len(channel) : channel'[i] = channel[i]
           /\ channel'[Len(channel) + 1] = cmd
           /\ Taken' = Taken
           /\ Chain(channel, Taken, accepted)'
           /\ InOrder' /\ BatchOK'
<1>1. /\ channel' \in Seq(Command)
      /\ Len(channel') = Len(channel) + 1
      /\ \A i \in 1..Len(channel) : channel'[i] = channel[i]
      /\ channel'[Len(channel) + 1] = cmd
  BY AppendCommand, Counts
<1>2. Len(channel') <= QueueSize
  BY <1>1, Counts, NativeWriterAssumption DEF Full
<1>3. accepted' \in Nat
  BY DEF Command
<1>4. Taken' = Taken
  BY DEF Taken, workerVars
<1>5. Chain(channel, Taken, accepted)'
  BY <1>4, ChainAppend, Counts DEF IInv
<1>6. InOrder' /\ BatchOK'
  BY DEF IInv, InOrder, BatchOK, workerVars
<1> QED
  BY <1>1, <1>2, <1>3, <1>4, <1>5, <1>6

\* A message is sent only while the writer is open.
LEMMA EnqueueIInv == IInv /\ Enqueue => IInv'
<1> SUFFICES ASSUME IInv, Enqueue
             PROVE  IInv'
  OBVIOUS
<1> DEFINE cmd == [n |-> accepted + 1, kind |-> Message]
<1>1. /\ cmd \in Command /\ cmd.kind = Message
      /\ cmd.n = accepted + 1 /\ cmd.n = accepted + Step(cmd)
  BY Counts DEF Command, Step
<1>2. /\ channel' = Append(channel, cmd) /\ accepted' = cmd.n
      /\ owner = "open" /\ ~Full
      /\ UNCHANGED <<workerVars, flushVars, owner>>
  BY DEF Enqueue
<1> HIDE DEF cmd
<1>3. /\ channel' \in Seq(Command) /\ Len(channel') <= QueueSize
      /\ accepted' \in Nat
      /\ Len(channel') = Len(channel) + 1
      /\ \A i \in 1..Len(channel) : channel'[i] = channel[i]
      /\ channel'[Len(channel) + 1] = cmd
      /\ Taken' = Taken
      /\ Chain(channel, Taken, accepted)'
      /\ InOrder' /\ BatchOK'
  BY <1>1, <1>2, Sends
<1>4. \A i \in 1..Len(channel') : i \in 1..Len(channel) \/ channel'[i] = cmd
  BY <1>3, Counts
<1>5. TypeOK'
  BY <1>2, <1>3 DEF IInv, TypeOK, workerVars, flushVars
<1>6. FlushesOK'
  <2>1. cmd.kind \notin FlushCalls
    BY <1>1, NativeWriterAssumption
  <2> QED
    BY <2>1, <1>2, <1>3, <1>4 DEF IInv, FlushesOK, workerVars, flushVars
<1>7. OwnerOK'
  <2>1. /\ worker \notin {"drain", "lastWrite", "lastSignal", "done"}
        /\ \A i \in 1..Len(channel) : channel[i].kind # Shutdown
    BY <1>2 DEF IInv, OwnerOK
  <2> QED
    BY <2>1, <1>1, <1>2, <1>3, <1>4, NativeWriterAssumption
       DEF IInv, OwnerOK, workerVars
<1> QED
  BY <1>3, <1>5, <1>6, <1>7 DEF IInv

\* A flush command joins the channel; its call was in progress, so the owner
\* has not moved on.
LEMMA FlushSendsIInv ==
    ASSUME NEW f \in FlushCalls, IInv, FlushSends(f)
    PROVE  IInv'
<1> DEFINE cmd == [n |-> accepted, kind |-> f]
<1>1. /\ cmd \in Command /\ cmd.kind = f
      /\ cmd.n = accepted /\ cmd.n = accepted + Step(cmd)
  BY Counts, NativeWriterAssumption DEF Command, Step
<1>2. /\ channel' = Append(channel, cmd) /\ accepted' = cmd.n
      /\ flush[f] = "sending" /\ ~Full
      /\ flush' = [flush EXCEPT ![f] = "waiting"]
      /\ mark' = [mark EXCEPT ![f] = accepted]
      /\ UNCHANGED <<accepted, workerVars, owner>>
  BY <1>1 DEF FlushSends
<1> HIDE DEF cmd
<1>3. /\ channel' \in Seq(Command) /\ Len(channel') <= QueueSize
      /\ accepted' \in Nat
      /\ Len(channel') = Len(channel) + 1
      /\ \A i \in 1..Len(channel) : channel'[i] = channel[i]
      /\ channel'[Len(channel) + 1] = cmd
      /\ Taken' = Taken
      /\ Chain(channel, Taken, accepted)'
      /\ InOrder' /\ BatchOK'
  BY <1>1, <1>2, Sends
<1>4. \A i \in 1..Len(channel') : i \in 1..Len(channel) \/ channel'[i] = cmd
  BY <1>3, Counts
<1>5. /\ \A g \in FlushCalls : g # f => mark'[g] = mark[g] /\ flush'[g] = flush[g]
      /\ mark'[f] = accepted /\ flush'[f] = "waiting"
      /\ flush' \in [FlushCalls -> {"idle", "sending", "waiting", "ok", "cancelled"}]
      /\ mark' \in [FlushCalls -> Nat]
  BY <1>2, Counts DEF IInv, TypeOK
<1>6. TypeOK'
  BY <1>2, <1>3, <1>5 DEF IInv, TypeOK, workerVars
<1>7. FlushesOK'
  <2>1. \A i \in 1..Len(channel') : channel'[i].kind \in FlushCalls =>
          /\ channel'[i].n = mark'[channel'[i].kind]
          /\ flush'[channel'[i].kind] \in Sent
    <3> SUFFICES ASSUME NEW i \in 1..Len(channel'), channel'[i].kind \in FlushCalls
                 PROVE  /\ channel'[i].n = mark'[channel'[i].kind]
                        /\ flush'[channel'[i].kind] \in Sent
      OBVIOUS
    <3>1. CASE i \in 1..Len(channel)
      <4>1. /\ channel'[i] = channel[i]
            /\ channel[i].n = mark[channel[i].kind]
            /\ flush[channel[i].kind] \in Sent
        BY <3>1, <1>3 DEF IInv, FlushesOK
      <4>2. channel[i].kind # f
        BY <4>1, <1>2 DEF Sent
      <4> QED
        BY <4>1, <4>2, <1>5
    <3>2. CASE channel'[i] = cmd
      BY <3>2, <1>1, <1>5 DEF Sent
    <3> QED
      BY <3>1, <3>2, <1>4
  <2>2. \A g \in waiters' : mark'[g] <= Taken' /\ flush'[g] \in Sent
    BY <1>2, <1>3, <1>5 DEF IInv, TypeOK, FlushesOK, Sent, workerVars
  <2>3. \A g \in FlushCalls : flush'[g] = "ok" => mark'[g] <= Len(settled')
    BY <1>2, <1>5 DEF IInv, FlushesOK, workerVars
  <2> QED
    BY <2>1, <2>2, <2>3 DEF FlushesOK
<1>8. OwnerOK'
  <2>1. owner = "open"
    BY <1>2 DEF IInv, OwnerOK, Borrowed
  <2>2. /\ worker \notin {"drain", "lastWrite", "lastSignal", "done"}
        /\ \A i \in 1..Len(channel) : channel[i].kind # Shutdown
    BY <2>1 DEF IInv, OwnerOK
  <2> QED
    BY <2>1, <2>2, <1>1, <1>2, <1>3, <1>4, NativeWriterAssumption
       DEF OwnerOK, workerVars
<1> QED
  BY <1>3, <1>6, <1>7, <1>8 DEF IInv

\* Shutdown is sent once, after which nothing is.
LEMMA ShutdownSendsIInv == IInv /\ ShutdownSends => IInv'
<1> SUFFICES ASSUME IInv, ShutdownSends
             PROVE  IInv'
  OBVIOUS
<1> DEFINE cmd == [n |-> accepted, kind |-> Shutdown]
<1>1. /\ cmd \in Command /\ cmd.kind = Shutdown
      /\ cmd.n = accepted /\ cmd.n = accepted + Step(cmd)
  BY Counts, NativeWriterAssumption DEF Command, Step
<1>2. /\ channel' = Append(channel, cmd) /\ accepted' = cmd.n
      /\ owner = "sending" /\ owner' = "joining" /\ ~Full
      /\ UNCHANGED <<accepted, workerVars, flushVars>>
  BY <1>1 DEF ShutdownSends
<1> HIDE DEF cmd
<1>3. /\ channel' \in Seq(Command) /\ Len(channel') <= QueueSize
      /\ accepted' \in Nat
      /\ Len(channel') = Len(channel) + 1
      /\ \A i \in 1..Len(channel) : channel'[i] = channel[i]
      /\ channel'[Len(channel) + 1] = cmd
      /\ Taken' = Taken
      /\ Chain(channel, Taken, accepted)'
      /\ InOrder' /\ BatchOK'
  BY <1>1, <1>2, Sends
<1>4. \A i \in 1..Len(channel') : i \in 1..Len(channel) \/ channel'[i] = cmd
  BY <1>3, Counts
<1>5. TypeOK'
  BY <1>2, <1>3 DEF IInv, TypeOK, workerVars, flushVars
<1>6. FlushesOK'
  <2>1. cmd.kind \notin FlushCalls
    BY <1>1, NativeWriterAssumption
  <2> QED
    BY <2>1, <1>2, <1>3, <1>4 DEF IInv, FlushesOK, workerVars, flushVars
<1>7. OwnerOK'
  <2>1. /\ ~Borrowed
        /\ worker \notin {"drain", "lastWrite", "lastSignal", "done"}
        /\ \A i \in 1..Len(channel) : channel[i].kind # Shutdown
    BY <1>2 DEF IInv, OwnerOK
  <2>2. ~Borrowed'
    BY <2>1, <1>2 DEF Borrowed, flushVars
  <2>3. \A i \in 1..Len(channel') : channel'[i].kind = Shutdown => i = Len(channel')
    <3>1. \A i \in 1..Len(channel') : i \in 1..Len(channel) \/ i = Len(channel')
      BY <1>3, Counts
    <3> QED
      BY <3>1, <2>1, <1>3
  <2>4. worker' = worker /\ owner' = "joining"
    BY <1>2 DEF workerVars
  <2> QED
    BY <2>1, <2>2, <2>3, <2>4 DEF OwnerOK
<1> QED
  BY <1>3, <1>5, <1>6, <1>7 DEF IInv

\* What every receipt leaves right, once its message is counted.
LEMMA Receives ==
    ASSUME IInv, channel # <<>>, channel' = Tail(channel),
           UNCHANGED <<accepted, flushVars, owner>>
    PROVE  /\ Head(channel) \in Command /\ Head(channel) = channel[1]
           /\ 1 \in 1..Len(channel)
           /\ Head(channel).n = Taken + Step(Head(channel))
           /\ channel' \in Seq(Command) /\ Len(channel') <= QueueSize
           /\ Len(channel') = Len(channel) - 1
           /\ Chain(channel', Head(channel).n, accepted)
           /\ \A i \in 1..Len(channel') : channel'[i].kind \in FlushCalls =>
                /\ channel'[i].n = mark[channel'[i].kind]
                /\ flush[channel'[i].kind] \in Sent
           /\ \A i \in 1..Len(channel') : channel'[i].kind = Shutdown =>
                i = Len(channel') /\ owner \notin {"open", "sending"}
           /\ worker \notin {"drain", "lastWrite", "lastSignal", "done"}
           /\ owner # "returned"
<1>1. /\ Head(channel) = channel[1] /\ Head(channel) \in Command
      /\ channel' \in Seq(Command)
      /\ Len(channel) \in Nat /\ Len(channel) >= 1
      /\ Len(channel') = Len(channel) - 1
      /\ \A i \in 1..Len(channel') : channel'[i] = channel[i + 1]
  BY TailCommand, Counts
<1>2. /\ Head(channel).n = Taken + Step(Head(channel))
      /\ Chain(channel', Head(channel).n, accepted)
  BY ChainTail, Counts DEF IInv
<1>3. Len(channel') <= QueueSize
  BY <1>1, NativeWriterAssumption DEF IInv, TypeOK
<1>4. \A i \in 1..Len(channel') : i + 1 \in 1..Len(channel)
  BY <1>1
<1>5. \A i \in 1..Len(channel') : channel'[i].kind \in FlushCalls =>
        /\ channel'[i].n = mark[channel'[i].kind]
        /\ flush[channel'[i].kind] \in Sent
  BY <1>1, <1>4 DEF IInv, FlushesOK
<1>6. \A i \in 1..Len(channel') : channel'[i].kind = Shutdown =>
        i = Len(channel') /\ owner \notin {"open", "sending"}
  <2> SUFFICES ASSUME NEW i \in 1..Len(channel'), channel'[i].kind = Shutdown
               PROVE  i = Len(channel') /\ owner \notin {"open", "sending"}
    OBVIOUS
  <2>1. i + 1 = Len(channel) /\ owner \notin {"open", "sending"}
    BY <1>1, <1>4 DEF IInv, OwnerOK
  <2> QED
    BY <2>1, <1>1
<1>7. /\ worker \notin {"drain", "lastWrite", "lastSignal", "done"}
      /\ owner # "returned"
  BY DEF IInv, OwnerOK
<1>8. 1 \in 1..Len(channel)
  BY <1>1
<1> QED
  BY <1>1, <1>2, <1>3, <1>5, <1>6, <1>7, <1>8, Zenon

\* A message joins the end of the batch.
LEMMA ReceiveMessageIInv ==
    ASSUME IInv, NEW from, ReceiveMessage(from, "fill"), Len(batch) < BatchSize
    PROVE  IInv'
<1> DEFINE cmd == Head(channel)
<1>1. /\ channel # <<>> /\ channel' = Tail(channel)
      /\ cmd.kind = Message /\ worker' = "fill"
      /\ batch' = Append(batch, cmd.n)
      /\ UNCHANGED <<accepted, waiters, settled, flushVars, owner>>
  BY DEF ReceiveMessage, Received, Goto
<1>2. /\ cmd \in Command
      /\ cmd.n = Taken + Step(cmd)
      /\ channel' \in Seq(Command) /\ Len(channel') <= QueueSize
      /\ Chain(channel', cmd.n, accepted)
      /\ \A i \in 1..Len(channel') : channel'[i].kind \in FlushCalls =>
           /\ channel'[i].n = mark[channel'[i].kind]
           /\ flush[channel'[i].kind] \in Sent
      /\ \A i \in 1..Len(channel') : channel'[i].kind = Shutdown =>
           i = Len(channel') /\ owner \notin {"open", "sending"}
      /\ owner # "returned"
  BY <1>1, Receives
<1> HIDE DEF cmd
<1>3. cmd.n = Taken + 1 /\ cmd.n \in Nat
  BY <1>1, <1>2, Counts DEF Step
<1>4. /\ batch' \in Seq(Nat)
      /\ Len(batch') = Len(batch) + 1
      /\ \A i \in 1..Len(batch) : batch'[i] = batch[i]
      /\ batch'[Len(batch) + 1] = cmd.n
  BY <1>1, <1>3, AppendProperties, Counts
<1>5. Taken' = cmd.n
  BY <1>1, <1>3, <1>4, Counts DEF Taken
<1>6. TypeOK'
  <2>1. Len(batch') <= BatchSize
    BY <1>4, Counts, NativeWriterAssumption
  <2> QED
    BY <2>1, <1>1, <1>2, <1>4 DEF IInv, TypeOK, flushVars
<1>7. Chain(channel, Taken, accepted)'
  BY <1>1, <1>2, <1>5
<1>8. InOrder'
  <2> SUFFICES ASSUME NEW i \in 1..Len(batch')
               PROVE  batch'[i] = Len(settled) + i
    BY <1>1 DEF InOrder
  <2>1. CASE i \in 1..Len(batch)
    BY <2>1, <1>4 DEF IInv, InOrder
  <2>2. CASE i = Len(batch) + 1
    BY <2>2, <1>3, <1>4, Counts
  <2> QED
    BY <2>1, <2>2, <1>4, Counts
<1>9. FlushesOK'
  <2>1. \A f \in waiters : mark[f] <= Taken' /\ flush[f] \in Sent
    <3>1. \A f \in waiters : mark[f] <= Taken /\ mark[f] \in Nat /\ flush[f] \in Sent
      BY DEF IInv, FlushesOK, TypeOK
    <3> QED
      BY <3>1, <1>3, <1>5, Counts
  <2>2. UNCHANGED <<waiters, settled, flush, mark>>
    BY <1>1 DEF flushVars
  <2> QED
    BY <2>1, <2>2, <1>2 DEF IInv, FlushesOK
<1>10. BatchOK'
  BY <1>1 DEF BatchOK
<1>11. OwnerOK'
  BY <1>1, <1>2 DEF IInv, OwnerOK, Borrowed, flushVars
<1> QED
  BY <1>6, <1>7, <1>8, <1>9, <1>10, <1>11 DEF IInv

\* A flush command makes its call a waiter.
LEMMA ReceiveFlushIInv ==
    ASSUME IInv, NEW from, NEW to \in {"fill", "write"}, ReceiveFlush(from, to)
    PROVE  IInv'
<1> DEFINE cmd == Head(channel)
<1>1. PICK f \in FlushCalls :
        /\ channel # <<>> /\ channel' = Tail(channel)
        /\ cmd.kind = f /\ worker' = to
        /\ waiters' = waiters \cup {f}
        /\ UNCHANGED <<accepted, batch, settled, flushVars, owner>>
  BY DEF ReceiveFlush, Received, Goto
<1>2. /\ cmd = channel[1] /\ 1 \in 1..Len(channel)
      /\ cmd.n = Taken + Step(cmd)
      /\ channel' \in Seq(Command) /\ Len(channel') <= QueueSize
      /\ Chain(channel', cmd.n, accepted)
      /\ \A i \in 1..Len(channel') : channel'[i].kind \in FlushCalls =>
           /\ channel'[i].n = mark[channel'[i].kind]
           /\ flush[channel'[i].kind] \in Sent
      /\ \A i \in 1..Len(channel') : channel'[i].kind = Shutdown =>
           i = Len(channel') /\ owner \notin {"open", "sending"}
      /\ owner # "returned"
  BY <1>1, Receives
<1> HIDE DEF cmd
<1>3. cmd.n = Taken
  BY <1>1, <1>2, Counts, NativeWriterAssumption DEF Step
<1>4. UNCHANGED <<accepted, batch, settled, flush, mark, owner>> /\ Taken' = Taken
  BY <1>1 DEF flushVars, Taken
<1>5. TypeOK'
  BY <1>1, <1>2, <1>4 DEF IInv, TypeOK
<1>6. Chain(channel, Taken, accepted)' /\ InOrder' /\ BatchOK'
  BY <1>1, <1>2, <1>3, <1>4 DEF IInv, InOrder, BatchOK
<1>7. FlushesOK'
  <2>1. mark[f] = Taken /\ flush[f] \in Sent
    BY <1>1, <1>2, <1>3 DEF IInv, FlushesOK
  <2>2. \A g \in waiters' : mark[g] <= Taken /\ flush[g] \in Sent
    BY <2>1, <1>1, Counts DEF IInv, FlushesOK
  <2> QED
    BY <2>2, <1>2, <1>4 DEF IInv, FlushesOK
<1>8. OwnerOK'
  BY <1>1, <1>2, <1>4 DEF IInv, OwnerOK, Borrowed
<1> QED
  BY <1>5, <1>6, <1>7, <1>8 DEF IInv

\* Shutdown is the last command: the channel is empty once it is received.
LEMMA ReceiveShutdownIInv ==
    ASSUME IInv, NEW from, ReceiveShutdown(from)
    PROVE  IInv'
<1> DEFINE cmd == Head(channel)
<1>1. /\ channel # <<>> /\ channel' = Tail(channel)
      /\ cmd.kind = Shutdown /\ worker' = "drain"
      /\ UNCHANGED <<accepted, batch, waiters, settled, flushVars, owner>>
  BY DEF ReceiveShutdown, Received, Goto
<1>2. /\ cmd = channel[1] /\ 1 \in 1..Len(channel)
      /\ cmd.n = Taken + Step(cmd)
      /\ channel' \in Seq(Command) /\ Len(channel') <= QueueSize
      /\ Len(channel') = Len(channel) - 1
      /\ Chain(channel', cmd.n, accepted)
      /\ \A i \in 1..Len(channel') : channel'[i].kind \in FlushCalls =>
           /\ channel'[i].n = mark[channel'[i].kind]
           /\ flush[channel'[i].kind] \in Sent
      /\ owner # "returned"
  BY <1>1, Receives
<1> HIDE DEF cmd
<1>3. cmd.n = Taken
  BY <1>1, <1>2, Counts, NativeWriterAssumption DEF Step
<1>4. /\ UNCHANGED <<accepted, batch, waiters, settled, flush, mark, owner>>
      /\ Taken' = Taken
  BY <1>1 DEF flushVars, Taken
<1>5. TypeOK'
  BY <1>1, <1>2, <1>4 DEF IInv, TypeOK
<1>6. Chain(channel, Taken, accepted)' /\ InOrder' /\ BatchOK'
  BY <1>1, <1>2, <1>3, <1>4 DEF IInv, InOrder, BatchOK
<1>7. FlushesOK'
  BY <1>2, <1>4 DEF IInv, FlushesOK
<1>8. OwnerOK'
  <2>1. 1 = Len(channel) /\ owner \notin {"open", "sending"}
    BY <1>1, <1>2 DEF IInv, OwnerOK
  <2>2. channel' = <<>> /\ Len(channel') = 0
    BY <2>1, <1>2, EmptySeq
  <2> QED
    BY <2>1, <2>2, <1>1, <1>2, <1>4 DEF IInv, OwnerOK, Borrowed
<1> QED
  BY <1>5, <1>6, <1>7, <1>8 DEF IInv

\* drain_remaining finds nothing: the loop over the channel has no round.
LEMMA DrainsNothing ==
    ASSUME channel = <<>>, Drain
    PROVE  batch' = batch /\ waiters' = waiters /\ channel' = channel
<1> DEFINE F(d) == [i \in 0..0 |->
                      IF i = 0 THEN batch
                      ELSE IF channel[i].kind = Message
                           THEN Append(d[i - 1], channel[i].n)
                           ELSE d[i - 1]]
<1>1. Len(channel) = 0
  BY EmptySeq
<1>2. [i \in 0..0 |-> batch] = F([i \in 0..0 |-> batch])
  OBVIOUS
<1>3. batch' = (CHOOSE d : d = F(d))[0]
  BY <1>1 DEF Drain
<1>4. PICK d : d = F(d) /\ batch' = d[0]
  <2> HIDE DEF F
  <2> QED
    BY <1>2, <1>3
<1>5. waiters' = waiters
  BY <1>1 DEF Drain
<1> QED
  BY <1>4, <1>5 DEF Drain

\* The task moves on with what it has: the channel is closed, the batch is
\* full or nothing is waiting, or drain_remaining found nothing.
LEMMA WorkerMovesIInv == IInv /\ (ChannelClosed \/ FillDone \/ Drain) => IInv'
<1> SUFFICES ASSUME IInv, ChannelClosed \/ FillDone \/ Drain
             PROVE  IInv'
  OBVIOUS
<1>1. Drain => channel = <<>>
  BY DEF Drain, Goto, IInv, OwnerOK
<1>2. UNCHANGED <<channel, accepted, batch, waiters, settled, flush, mark, owner>>
  BY <1>1, DrainsNothing DEF ChannelClosed, FillDone, Drain, flushVars
<1>3. Taken' = Taken
  BY <1>2 DEF Taken
<1>4. TypeOK'
  BY <1>2 DEF IInv, TypeOK, ChannelClosed, FillDone, Drain, Goto
<1>5. Chain(channel, Taken, accepted)' /\ InOrder' /\ FlushesOK'
  BY <1>2, <1>3 DEF IInv, InOrder, FlushesOK
<1>6. BatchOK'
  BY <1>2 DEF IInv, BatchOK, ChannelClosed, FillDone, Drain, Goto
<1>7. OwnerOK'
  BY <1>2 DEF IInv, OwnerOK, Borrowed, ChannelClosed, FillDone, Drain, Goto
<1> QED
  BY <1>4, <1>5, <1>6, <1>7 DEF IInv

\* One INSERT settles the batch, stored or lost.
LEMMA Settles ==
    ASSUME IInv, NEW stored \in BOOLEAN, Settle(stored)
    PROVE  /\ batch' = <<>> /\ batch' \in Seq(Nat) /\ Len(batch') = 0
           /\ settled' \in Seq(Outcome)
           /\ Len(settled') = Len(settled) + Len(batch)
<1> DEFINE new == [i \in 1..Len(batch) |-> [n |-> batch[i], stored |-> stored]]
<1>1. new \in Seq(Outcome) /\ Len(new) = Len(batch)
  <2>1. \A i \in 1..Len(batch) : batch[i] \in Nat
    BY ElementOfSeq, Counts
  <2>2. new \in [1..Len(batch) -> Outcome]
    BY <2>1 DEF Outcome
  <2> QED
    BY <2>2, Counts
<1>2. settled' = settled \o new /\ batch' = <<>>
  BY DEF Settle
<1> HIDE DEF new
<1> QED
  BY <1>1, <1>2, ConcatProperties, EmptySeq, Counts

\* A batch that was written, or an empty one that needs no INSERT, leaves
\* nothing in hand.
LEMMA WriteIInv == IInv /\ Write => IInv'
<1> SUFFICES ASSUME IInv, Write
             PROVE  IInv'
  OBVIOUS
<1>1. /\ \/ worker = "write" /\ worker' = "signal"
         \/ worker = "lastWrite" /\ worker' = "lastSignal"
      /\ UNCHANGED <<channel, accepted, waiters, flush, mark, owner>>
  BY DEF Write, Goto, flushVars
<1>2. /\ batch' = <<>> /\ batch' \in Seq(Nat) /\ Len(batch') = 0
      /\ settled' \in Seq(Outcome)
      /\ Len(settled') = Len(settled) + Len(batch)
  <2>1. CASE batch = <<>>
    BY <2>1, Counts DEF Write
  <2>2. CASE batch # <<>>
    BY <2>2, Settles DEF Write
  <2> QED
    BY <2>1, <2>2
<1>3. Taken' = Taken
  BY <1>2, Counts DEF Taken
<1>4. TypeOK'
  BY <1>1, <1>2, NativeWriterAssumption DEF IInv, TypeOK
<1>5. Chain(channel, Taken, accepted)' /\ InOrder' /\ BatchOK'
  BY <1>1, <1>2, <1>3 DEF IInv, InOrder, BatchOK
<1>6. FlushesOK'
  <2>1. \A f \in FlushCalls : flush[f] = "ok" => mark[f] <= Len(settled')
    <3>1. \A f \in FlushCalls : flush[f] = "ok" => mark[f] <= Len(settled)
      BY DEF IInv, FlushesOK
    <3>2. \A f \in FlushCalls : mark[f] \in Nat
      BY DEF IInv, TypeOK
    <3> QED
      BY <3>1, <3>2, <1>2, Counts
  <2> QED
    BY <2>1, <1>1, <1>3 DEF IInv, FlushesOK
<1>7. OwnerOK'
  BY <1>1 DEF IInv, OwnerOK, Borrowed
<1> QED
  BY <1>4, <1>5, <1>6, <1>7 DEF IInv

\* The task answers its waiters with nothing in hand: all it received before
\* their commands is written.
LEMMA SignalIInv == IInv /\ Signal => IInv'
<1> SUFFICES ASSUME IInv, Signal
             PROVE  IInv'
  OBVIOUS
<1>1. /\ \/ worker = "signal" /\ worker' = "recv"
         \/ worker = "lastSignal" /\ worker' = "done"
      /\ waiters' = {}
      /\ UNCHANGED <<channel, accepted, batch, settled, mark, owner>>
  BY DEF Signal, Goto
<1>2. Taken' = Taken
  BY <1>1 DEF Taken
<1>3. \A f \in FlushCalls :
        flush'[f] = IF f \in waiters /\ flush[f] = "waiting" THEN "ok" ELSE flush[f]
  BY DEF Signal
<1>4. batch = <<>> /\ Taken = Len(settled)
  <2>1. batch = <<>>
    BY <1>1 DEF IInv, BatchOK
  <2> QED
    BY <2>1, Counts
<1>5. TypeOK'
  <2>1. flush' \in [FlushCalls -> {"idle", "sending", "waiting", "ok", "cancelled"}]
    BY DEF Signal, IInv, TypeOK
  <2> QED
    BY <2>1, <1>1 DEF IInv, TypeOK
<1>6. Chain(channel, Taken, accepted)' /\ InOrder' /\ BatchOK'
  BY <1>1, <1>2, <1>4 DEF IInv, InOrder, BatchOK
<1>7. FlushesOK'
  <2>1. \A f \in FlushCalls : flush[f] \in Sent => flush'[f] \in Sent
    BY <1>3 DEF Sent
  <2>2. \A f \in FlushCalls : flush'[f] = "ok" => flush[f] = "ok" \/ f \in waiters
    BY <1>3
  <2> QED
    BY <2>1, <2>2, <1>1, <1>2, <1>4 DEF IInv, FlushesOK
<1>8. OwnerOK'
  <2>1. Borrowed' => Borrowed
    BY <1>3 DEF Borrowed
  <2> QED
    BY <2>1, <1>1 DEF IInv, OwnerOK
<1> QED
  BY <1>5, <1>6, <1>7, <1>8 DEF IInv

\* A flush call that begins, or is cancelled, sends nothing.
LEMMA FlushMovesIInv ==
    ASSUME NEW f \in FlushCalls, IInv, FlushBegins(f) \/ FlushCancelled(f)
    PROVE  IInv'
<1>1. /\ UNCHANGED <<channel, accepted, worker, batch, waiters, settled, mark, owner>>
      /\ Taken' = Taken
  BY DEF FlushBegins, FlushCancelled, workerVars, Taken
<1>2. \A g \in FlushCalls :
        /\ flush[g] \in Sent => flush'[g] \in Sent
        /\ flush'[g] = "ok" => flush[g] = "ok"
  BY DEF FlushBegins, FlushCancelled, IInv, TypeOK, Sent
<1>3. TypeOK'
  BY <1>1 DEF IInv, TypeOK, FlushBegins, FlushCancelled
<1>4. FlushesOK'
  BY <1>1, <1>2 DEF IInv, TypeOK, FlushesOK
<1>5. OwnerOK'
  <2>1. CASE FlushBegins(f)
    BY <2>1, <1>1 DEF IInv, OwnerOK, FlushBegins
  <2>2. CASE FlushCancelled(f)
    <3>1. Borrowed
      BY <2>2 DEF FlushCancelled, Borrowed
    <3> QED
      BY <3>1, <1>1 DEF IInv, OwnerOK
  <2> QED
    BY <2>1, <2>2
<1>6. Chain(channel, Taken, accepted)' /\ InOrder' /\ BatchOK'
  BY <1>1 DEF IInv, InOrder, BatchOK
<1> QED
  BY <1>3, <1>4, <1>5, <1>6 DEF IInv

\* The owner moves on, sending nothing: with no call in progress.
LEMMA OwnerMovesIInv ==
    IInv /\ (ShutdownBegins \/ ShutdownReturns \/ ShutdownCancelled \/ Drop) => IInv'
<1> SUFFICES ASSUME IInv,
                    ShutdownBegins \/ ShutdownReturns \/ ShutdownCancelled \/ Drop
             PROVE  IInv'
  OBVIOUS
<1> USE DEF ShutdownBegins, ShutdownReturns, ShutdownCancelled, Drop
<1>1. /\ UNCHANGED <<channel, accepted, worker, batch, waiters, settled, flush, mark>>
      /\ Taken' = Taken /\ Borrowed' = Borrowed
  BY DEF workerVars, flushVars, Taken, Borrowed
<1>2. TypeOK'
  BY <1>1 DEF IInv, TypeOK
<1>3. OwnerOK'
  <2>1. \/ owner = "open" /\ owner' = "sending" /\ ~Borrowed
        \/ owner = "joining" /\ owner' = "returned" /\ worker = "done"
        \/ owner \in {"sending", "joining"} /\ owner' = "dropped"
        \/ owner = "open" /\ owner' = "dropped" /\ ~Borrowed
    OBVIOUS
  <2> QED
    BY <2>1, <1>1 DEF IInv, OwnerOK
<1>4. Chain(channel, Taken, accepted)' /\ InOrder' /\ FlushesOK' /\ BatchOK'
  BY <1>1 DEF IInv, InOrder, FlushesOK, BatchOK
<1> QED
  BY <1>2, <1>3, <1>4 DEF IInv

\* Every step of the writer, its callers and its owner preserves the
\* invariant.
LEMMA NextIInv == IInv /\ [Next]_vars => IInv'
<1> SUFFICES ASSUME IInv, [Next]_vars
             PROVE  IInv'
  OBVIOUS
<1>1. CASE Enqueue
  BY <1>1, EnqueueIInv
<1>2. ASSUME NEW f \in FlushCalls, Flusher(f)
      PROVE  IInv'
  BY <1>2, FlushSendsIInv, FlushMovesIInv DEF Flusher
<1>3. CASE Owner
  BY <1>3, ShutdownSendsIInv, OwnerMovesIInv DEF Owner
<1>4. CASE Receive
  <2>1. CASE ReceiveMessage("recv", "fill")
    <3>1. batch = <<>>
      BY <2>1 DEF ReceiveMessage, Goto, IInv, BatchOK
    <3>2. Len(batch) < BatchSize
      BY <3>1, Counts, NativeWriterAssumption
    <3> QED
      BY <2>1, <3>2, ReceiveMessageIInv
  <2> QED
    BY <2>1, <1>4, ReceiveFlushIInv, ReceiveShutdownIInv DEF Receive
<1>5. CASE Fill
  BY <1>5, ReceiveMessageIInv, ReceiveFlushIInv, ReceiveShutdownIInv DEF Fill
<1>6. CASE ChannelClosed \/ FillDone \/ Drain
  BY <1>6, WorkerMovesIInv
<1>7. CASE Write
  BY <1>7, WriteIInv
<1>8. CASE Signal
  BY <1>8, SignalIInv
<1>9. CASE UNCHANGED vars
  BY <1>9 DEF IInv, TypeOK, InOrder, FlushesOK, BatchOK, OwnerOK, Borrowed, Taken,
              vars, workerVars, flushVars
<1> QED
  BY <1>1, <1>2, <1>3, <1>4, <1>5, <1>6, <1>7, <1>8, <1>9 DEF Next, Worker

\* The inductive invariant holds in every state of the writer.
THEOREM Invariance == Spec => []IInv
<1> QED
  BY InitIInv, NextIInv, PTL DEF Spec

-----------------------------------------------------------------------------
(* What follows from the invariant.                                        *)

\* The writer's state has its types, and neither the channel nor a batch
\* grows beyond its configured size, drain_remaining included.
THEOREM TypeCorrect == Spec => []TypeOK
<1>1. IInv => TypeOK
  BY DEF IInv
<1> QED
  BY <1>1, Invariance, PTL

\* flush answers Ok only when every message accepted before its command was
\* sent has had its INSERT.
THEOREM FlushCorrect == Spec => []FlushWaitsForWrite
<1>1. IInv => FlushWaitsForWrite
  BY DEF IInv, FlushesOK, FlushWaitsForWrite
<1> QED
  BY <1>1, Invariance, PTL

\* A shutdown that returned has settled everything that was ever accepted,
\* and left nothing in the channel.
THEOREM ShutdownCorrect == Spec => []ShutdownSettles
<1>1. IInv => ShutdownSettles
  <2> SUFFICES ASSUME IInv, owner = "returned"
               PROVE  Len(settled) = accepted /\ channel = <<>>
    BY DEF ShutdownSettles
  <2>1. channel = <<>> /\ batch = <<>>
    BY DEF IInv, OwnerOK, BatchOK
  <2> QED
    BY <2>1, Counts
<1> QED
  BY <1>1, Invariance, PTL

-----------------------------------------------------------------------------
(* The writer implements WriterPromise.                                    *)

\* Every step of the writer is a step of the promise or leaves it unchanged.
LEMMA StepKeepsPromise == IInv /\ [Next]_vars => [Promise!Next]_(Promise!vars)
<1> SUFFICES ASSUME IInv, [Next]_vars
             PROVE  [Promise!Next]_(Promise!vars)
  OBVIOUS
<1>1. CASE Enqueue
  <2>1. accepted' = accepted + 1 /\ settled' = settled
    BY <1>1 DEF Enqueue, workerVars
  <2>2. accepted - Len(settled) < QueueSize + BatchSize
    <3>1. Len(channel) < QueueSize
      BY <1>1, Counts, NativeWriterAssumption DEF Enqueue, Full
    <3>2. accepted <= Len(settled) + Len(batch) + Len(channel)
      BY DEF IInv, Chain, Taken
    <3>3. Len(batch) <= BatchSize
      BY DEF IInv, TypeOK
    <3> QED
      BY <3>1, <3>2, <3>3, Counts, NativeWriterAssumption
  <2> QED
    BY <2>1, <2>2 DEF Promise!Next, Promise!Accept, Promise!Pending
<1>2. CASE Write /\ batch # <<>>
  <2>1. PICK stored \in BOOLEAN : Settle(stored)
    BY <1>2 DEF Write
  <2>2. accepted' = accepted
    BY <1>2 DEF Write
  <2>3. [i \in 1..Len(batch) |-> [n |-> batch[i], stored |-> stored]]
          = [i \in 1..Len(batch) |-> [n |-> Len(settled) + i, stored |-> stored]]
    BY DEF IInv, InOrder
  <2>4. Len(batch) \in 1..(accepted - Len(settled))
    <3>1. Len(batch) >= 1
      BY <1>2, EmptySeq, Counts
    <3> QED
      BY <3>1, Counts
  <2>5. Promise!Settle(Len(batch), stored)
    BY <2>1, <2>2, <2>3 DEF Settle, Promise!Settle
  <2> QED
    BY <2>4, <2>5 DEF Promise!Next, Promise!Pending
<1>3. CASE ~Enqueue /\ ~(Write /\ batch # <<>>)
  <2>1. UNCHANGED <<accepted, settled>>
    BY <1>3 DEF Next, Flusher, Owner, Worker, FlushBegins, FlushSends,
         FlushCancelled, ShutdownBegins, ShutdownSends, ShutdownReturns,
         ShutdownCancelled, Drop, Receive, ReceiveMessage, ReceiveFlush,
         ReceiveShutdown, ChannelClosed, Fill, FillDone, Drain, Write, Signal,
         vars, workerVars
  <2> QED
    BY <2>1 DEF Promise!vars
<1> QED
  BY <1>1, <1>2, <1>3

\* The Rust writer is the bounded, ordered, settle-once channel that
\* WriterPromise describes.
THEOREM Refinement == Spec => ImplementsPromise
<1>1. Init => Promise!Init
  BY DEF Init, Promise!Init
<1> QED
  BY <1>1, Invariance, StepKeepsPromise, PTL DEF Spec, ImplementsPromise, Promise!Spec

=============================================================================
