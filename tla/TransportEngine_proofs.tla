----------------------- MODULE TransportEngine_proofs -----------------------
(***************************************************************************)
(* For any number of workers, dispatchers, clients, messages and reads     *)
(* ahead: whatever order the reads complete and the workers run in, the    *)
(* engine dispatches the messages in the order they were written, one      *)
(* worker at a time, and leaves out only those it may refuse, of which the *)
(* first one brings the connection down (it implements RefusingDelivery).  *)
(*                                                                         *)
(* Why: reads are numbered when they are posted and the pipe serves them   *)
(* in that order, so the number of a successful read is that of its        *)
(* message.  A number moves from posted to iocp to a worker and the sorted *)
(* queue, and nNextReadOrderToProcess is below all of them, so that a      *)
(* buffer taken because its number is the one a worker fetched, however    *)
(* long ago, is the one to process now.                                    *)
(*                                                                         *)
(* From there on the order is that of the streams: what a dispatcher has   *)
(* handled, then what is left of its round, then its queue, is increasing  *)
(* (StreamInv).  The reference count is the sum of what each thread, read  *)
(* and message in dispatch holds (Exact); that the initial reference is    *)
(* returned once is FirstInv, and that it keeps the connection in          *)
(* cConnList is LifeInv.                                                   *)
(***************************************************************************)
EXTENDS TransportEngine, SequenceTheorems, FiniteSetTheorems, TLAPS

\* The worker has put nothing aside yet, or took a buffer out of the queue.
Holding(w) == worker[w].pc = "readed"
Draining(w) == worker[w].pc \in {"dispatch", "increment", "refused"}
Carrying(w) == Holding(w) \/ Draining(w)

\* No read can bring anything any more.
Dead == nState = "destroying" \/ (broken /\ pipe = <<>>)

OrderTypes ==
  /\ sent \in 0..NMsgs /\ pipe \in Seq(Nat) /\ posted \in Seq(Nat) /\ iocp \in Seq(Packet)
  /\ broken \in BOOLEAN /\ nState \in {"connected", "destroying"}
  /\ nNextReadOrder \in Nat /\ nNextReadOrderToProcess \in Nat
  /\ readedQueue \subseteq [order : Nat, msg : Nat] /\ discarded \subseteq Nat
  /\ worker \in [Workers -> [pc : WorkerStates, order : Nat, msg : Nat, arg : Nat]]
  /\ discPc \in [Threads -> DiscStates]
  /\ taken \in Nat /\ dispatched \in Seq(Nat)

\* As long as reads succeed, the pending ones are the last ones numbered, and
\* the pipe holds the messages that they will read.
PendingInv ==
  /\ nState = "destroying" => pipe = <<>> /\ posted = <<>>
  /\ ~Dead => /\ \A i \in 1..Len(posted) : posted[i] = nNextReadOrder - Len(posted) + i
              /\ \A i \in 1..Len(pipe) : pipe[i] = nNextReadOrder - Len(posted) + i
              /\ sent = nNextReadOrder - Len(posted) + Len(pipe)

\* Numbers go up along iocp and then posted, from nNextReadOrderToProcess on.
InPlay(o) == nNextReadOrderToProcess <= o /\ o <= nNextReadOrder

AscendInv ==
  /\ \A i \in 1..Len(posted) : InPlay(posted[i])
  /\ \A i \in 1..Len(iocp) : InPlay(iocp[i].order)
  /\ \A i, j \in 1..Len(posted) : i < j => posted[i] < posted[j]
  /\ \A i, j \in 1..Len(iocp) : i < j => iocp[i].order < iocp[j].order
  /\ \A i \in 1..Len(iocp), j \in 1..Len(posted) : iocp[i].order < posted[j]
  /\ 1 <= nNextReadOrderToProcess /\ nNextReadOrderToProcess <= nNextReadOrder + 1

\* A number that left iocp is below those still there.
Before(o) ==
  /\ InPlay(o)
  /\ \A i \in 1..Len(iocp) : o < iocp[i].order
  /\ \A i \in 1..Len(posted) : o < posted[i]

\* The buffers that workers and the sorted queue hold have different numbers;
\* that of a worker that drains is the one to process.
QueueInv ==
  /\ \A b \in readedQueue : Before(b.order)
  /\ \A w \in Workers : Carrying(w) => Before(worker[w].order)
  /\ \A w \in Workers : Draining(w) => worker[w].order = nNextReadOrderToProcess
  /\ \A b, c \in readedQueue : b.order = c.order => b = c
  /\ \A b \in readedQueue : \A w \in Workers : Carrying(w) => b.order # worker[w].order
  /\ \A v, w \in Workers : Carrying(v) /\ Carrying(w) /\ v # w => worker[v].order # worker[w].order
  /\ \A w \in Workers : worker[w].pc = "get" => worker[w].arg <= nNextReadOrderToProcess

\* The number of a successful read is that of its message.
IsMessage(o, m) == m = o /\ o >= 1 /\ o <= sent

MessageInv ==
  /\ \A i \in 1..Len(iocp) : iocp[i].ok => IsMessage(iocp[i].order, iocp[i].msg)
  /\ \A b \in readedQueue : IsMessage(b.order, b.msg)
  /\ \A w \in Workers : Carrying(w) => IsMessage(worker[w].order, worker[w].msg)

\* DiscardAllBuffers comes after the pipe was closed, so it finds every buffer
\* that could still be dispatched, but the one a worker has taken already.
DiscardInv ==
  /\ \A t \in Threads : discPc[t] = "discard" => nState = "destroying"
  /\ discarded # {} =>
       /\ nState = "destroying"
       /\ \A i \in 1..Len(iocp) : iocp[i].order \in discarded
       /\ \A b \in readedQueue : b.order \in discarded
       /\ \A w \in Workers : Holding(w) => worker[w].order \in discarded

\* How many turns are over is what the numbers say.
CountInv ==
  /\ discarded = {} =>
       /\ (\E w \in Workers : worker[w].pc \in {"increment", "refused"}) => taken = nNextReadOrderToProcess
       /\ (\A w \in Workers : worker[w].pc \notin {"increment", "refused"}) => taken = nNextReadOrderToProcess - 1
  /\ \A w \in Workers : worker[w].pc = "dispatch" /\ worker[w].order \notin discarded
                          => taken = worker[w].order - 1

IInv == OrderTypes /\ PendingInv /\ AscendInv /\ QueueInv /\ MessageInv /\ DiscardInv /\ CountInv

----------------------------------------------------------------------------
LEMMA InitIInv == Init => IInv
<1> SUFFICES ASSUME Init PROVE IInv
  OBVIOUS
<1> USE ConstantsAssumption DEF Init
<1>1. posted \in Seq(Nat) /\ Len(posted) = ReadAhead /\ DOMAIN posted = 1..ReadAhead
  <2>1. \A i \in 1..ReadAhead : i \in Nat
    OBVIOUS
  <2>2. QED
    BY <2>1, IsASeq
<1>2. OrderTypes
  <2>1. Idle \in [pc : WorkerStates, order : Nat, msg : Nat, arg : Nat]
    BY DEF Idle, WorkerStates
  <2>2. worker \in [Workers -> [pc : WorkerStates, order : Nat, msg : Nat, arg : Nat]]
    BY <2>1
  <2>3. <<>> \in Seq(Nat) /\ <<>> \in Seq(Packet)
    BY EmptySeq
  <2>4. discPc \in [Threads -> DiscStates] /\ 0 \in 0..NMsgs
    BY DEF DiscStates
  <2>5. QED
    BY <1>1, <2>2, <2>3, <2>4 DEF OrderTypes
<1>3. PendingInv
  BY <1>1 DEF PendingInv, Dead
<1>4. AscendInv
  BY <1>1 DEF AscendInv, InPlay
<1>5. QueueInv /\ MessageInv
  BY DEF QueueInv, MessageInv, Carrying, Holding, Draining, Idle
<1>6. DiscardInv /\ CountInv
  BY DEF DiscardInv, CountInv, Idle
<1>7. QED
  BY <1>2, <1>3, <1>4, <1>5, <1>6 DEF IInv

\* Steps that leave the reads, the workers and what was dispatched alone.
orderAndWorkers == <<kernelVars, orderVars, nState, worker, taken, dispatched>>

LEMMA OtherStep ==
  ASSUME IInv, UNCHANGED orderAndWorkers,
         discPc' \in [Threads -> DiscStates],
         \A t \in Threads : discPc'[t] = "discard" => discPc[t] = "discard"
  PROVE  IInv'
<1> USE DEF IInv, orderAndWorkers, kernelVars, orderVars
<1>1. OrderTypes' /\ PendingInv' /\ AscendInv'
  BY DEF OrderTypes, PendingInv, Dead, AscendInv, InPlay
<1>2. QueueInv'
  BY DEF QueueInv, Before, InPlay, Carrying, Holding, Draining
<1>3. MessageInv' /\ CountInv'
  BY DEF MessageInv, IsMessage, CountInv, Carrying, Holding, Draining
<1>4. DiscardInv'
  BY DEF DiscardInv, Holding, OrderTypes
<1>5. QED
  BY <1>1, <1>2, <1>3, <1>4

\* What the invariant says of the sequences, element by element.
LEMMA Elements ==
  ASSUME OrderTypes
  PROVE  /\ Len(posted) \in Nat /\ Len(iocp) \in Nat /\ Len(pipe) \in Nat
         /\ \A i \in 1..Len(posted) : posted[i] \in Nat
         /\ \A i \in 1..Len(iocp) : iocp[i] \in Packet
         /\ \A i \in 1..Len(iocp) : iocp[i].order \in Nat /\ iocp[i].msg \in Nat /\ iocp[i].ok \in BOOLEAN
<1>1. posted \in Seq(Nat) /\ pipe \in Seq(Nat) /\ iocp \in Seq(Packet)
  BY DEF OrderTypes
<1>2. Len(posted) \in Nat /\ Len(iocp) \in Nat /\ Len(pipe) \in Nat
  BY <1>1, LenProperties
<1>3. \A i \in 1..Len(posted) : posted[i] \in Nat
  BY <1>1, ElementOfSeq
<1>4. \A i \in 1..Len(iocp) : iocp[i] \in Packet
  BY <1>1, ElementOfSeq
<1>5. QED
  BY <1>2, <1>3, <1>4 DEF Packet

----------------------------------------------------------------------------
(* The agent and the kernel *)

LEMMA AgentWriteStep ==
  ASSUME IInv, AgentWrite
  PROVE  IInv'
<1>1. /\ sent < NMsgs /\ ~broken /\ nState = "connected"
      /\ sent' = sent + 1 /\ pipe' = Append(pipe, sent + 1)
      /\ broken' = broken /\ posted' = posted /\ iocp' = iocp /\ nState' = nState
      /\ nNextReadOrder' = nNextReadOrder /\ nNextReadOrderToProcess' = nNextReadOrderToProcess
      /\ readedQueue' = readedQueue /\ discarded' = discarded /\ worker' = worker
      /\ discPc' = discPc /\ taken' = taken /\ dispatched' = dispatched
  BY DEF AgentWrite, orderVars, discVars
<1>2. OrderTypes /\ pipe \in Seq(Nat) /\ sent \in Nat /\ NMsgs \in Nat
  BY ConstantsAssumption DEF IInv, OrderTypes
<1>3. /\ Len(pipe') = Len(pipe) + 1
      /\ \A i \in 1..Len(pipe) : pipe'[i] = pipe[i]
      /\ pipe'[Len(pipe) + 1] = sent + 1
      /\ pipe' \in Seq(Nat)
  BY <1>1, <1>2, AppendProperties
<1>4. OrderTypes'
  BY <1>1, <1>2, <1>3 DEF OrderTypes
<1>5. PendingInv'
  <2>1. /\ \A i \in 1..Len(posted) : posted[i] = nNextReadOrder - Len(posted) + i
        /\ \A i \in 1..Len(pipe) : pipe[i] = nNextReadOrder - Len(posted) + i
        /\ sent = nNextReadOrder - Len(posted) + Len(pipe)
    BY <1>1 DEF IInv, PendingInv, Dead
  <2>2. Len(pipe) \in Nat /\ Len(posted) \in Nat /\ nNextReadOrder \in Nat
    BY <1>2, Elements DEF OrderTypes
  <2>3. ASSUME NEW i \in 1..Len(pipe') PROVE pipe'[i] = nNextReadOrder - Len(posted) + i
    <3>1. CASE i \in 1..Len(pipe)
      BY <1>3, <2>1, <3>1
    <3>2. CASE i = Len(pipe) + 1
      BY <1>2, <1>3, <2>1, <2>2, <3>2
    <3>3. QED
      BY <1>3, <2>2, <3>1, <3>2
  <2>4. QED
    BY <1>1, <1>2, <1>3, <2>1, <2>2, <2>3 DEF PendingInv
<1>6. AscendInv'
  BY <1>1 DEF IInv, AscendInv, InPlay
<1>7. QueueInv'
  <2>1. \A o : Before(o) => Before(o)'
    BY <1>1 DEF Before, InPlay
  <2>2. QED
    BY <1>1, <2>1 DEF IInv, QueueInv, Carrying, Holding, Draining
<1>8. MessageInv'
  <2>1. \A o \in Nat : \A m : IsMessage(o, m) => IsMessage(o, m)'
    BY <1>1, <1>2 DEF IsMessage
  <2>2. /\ \A i \in 1..Len(iocp) : iocp[i].order \in Nat
        /\ \A b \in readedQueue : b.order \in Nat
        /\ \A w \in Workers : worker[w].order \in Nat
    BY <1>2, Elements DEF OrderTypes
  <2>3. QED
    BY <1>1, <2>1, <2>2 DEF IInv, MessageInv, Carrying, Holding, Draining
<1>9. DiscardInv' /\ CountInv'
  BY <1>1 DEF IInv, DiscardInv, CountInv, Holding
<1>10. QED
  BY <1>4, <1>5, <1>6, <1>7, <1>8, <1>9 DEF IInv

LEMMA AgentBreakStep ==
  ASSUME IInv, AgentBreak
  PROVE  IInv'
<1>1. /\ pipe' = pipe \/ pipe' = <<>>
      /\ broken' = TRUE /\ broken = FALSE
      /\ sent' = sent /\ posted' = posted /\ iocp' = iocp /\ nState' = nState
      /\ nNextReadOrder' = nNextReadOrder /\ nNextReadOrderToProcess' = nNextReadOrderToProcess
      /\ readedQueue' = readedQueue /\ discarded' = discarded /\ worker' = worker
      /\ discPc' = discPc /\ taken' = taken /\ dispatched' = dispatched
  BY DEF AgentBreak, orderVars, discVars
<1>2. OrderTypes'
  BY <1>1, EmptySeq DEF IInv, OrderTypes
<1>3. PendingInv'
  BY <1>1 DEF IInv, PendingInv, Dead
<1>4. AscendInv'
  BY <1>1 DEF IInv, AscendInv, InPlay
<1>5. QueueInv'
  <2>1. \A o : Before(o) => Before(o)'
    BY <1>1 DEF Before, InPlay
  <2>2. QED
    BY <1>1, <2>1 DEF IInv, QueueInv, Carrying, Holding, Draining
<1>6. MessageInv'
  BY <1>1 DEF IInv, MessageInv, IsMessage, Carrying, Holding, Draining
<1>7. DiscardInv' /\ CountInv'
  BY <1>1 DEF IInv, DiscardInv, CountInv, Holding
<1>8. QED
  BY <1>2, <1>3, <1>4, <1>5, <1>6, <1>7 DEF IInv

LEMMA ReadCompletesStep ==
  ASSUME IInv, ReadCompletes
  PROVE  IInv'
<1> DEFINE p == [ok |-> TRUE, order |-> Head(posted), msg |-> Head(pipe)]
           np == Len(posted)
           ni == Len(iocp)
           nn == Len(pipe)
<1>1. /\ posted # <<>> /\ pipe # <<>>
      /\ iocp' = Append(iocp, p) /\ posted' = Tail(posted) /\ pipe' = Tail(pipe)
      /\ sent' = sent /\ broken' = broken /\ nState' = nState
      /\ nNextReadOrder' = nNextReadOrder /\ nNextReadOrderToProcess' = nNextReadOrderToProcess
      /\ readedQueue' = readedQueue /\ discarded' = discarded /\ worker' = worker
      /\ discPc' = discPc /\ taken' = taken /\ dispatched' = dispatched
  BY DEF ReadCompletes, orderVars, discVars
<1>2. OrderTypes /\ nNextReadOrder \in Nat /\ nNextReadOrderToProcess \in Nat /\ sent \in Nat
  BY ConstantsAssumption DEF IInv, OrderTypes
<1>3. posted \in Seq(Nat) /\ pipe \in Seq(Nat) /\ iocp \in Seq(Packet)
  BY <1>2 DEF OrderTypes
<1>4. /\ posted' \in Seq(Nat) /\ Len(posted') = np - 1 /\ p.order = posted[1]
      /\ \A i \in 1..np - 1 : posted'[i] = posted[i + 1]
  BY <1>1, <1>3, HeadTailProperties
<1>5. /\ pipe' \in Seq(Nat) /\ Len(pipe') = nn - 1 /\ p.msg = pipe[1]
      /\ \A i \in 1..nn - 1 : pipe'[i] = pipe[i + 1]
  BY <1>1, <1>3, HeadTailProperties
<1>6. np \in Nat /\ ni \in Nat /\ nn \in Nat /\ np > 0 /\ nn > 0
  BY <1>1, <1>3, LenProperties, EmptySeq
<1>7. p \in Packet
  BY <1>1, <1>3, HeadTailProperties DEF Packet
<1>8. /\ iocp' \in Seq(Packet) /\ Len(iocp') = ni + 1
      /\ \A i \in 1..ni : iocp'[i] = iocp[i]
      /\ iocp'[ni + 1] = p
  BY <1>1, <1>3, <1>7, AppendProperties
<1>10. /\ \A i \in 1..np : posted[i] \in Nat
       /\ \A i \in 1..ni : iocp[i].order \in Nat
  BY <1>2, Elements
<1>11. ~Dead
  BY <1>1 DEF IInv, PendingInv, Dead
<1>12. OrderTypes'
  BY <1>1, <1>2, <1>4, <1>5, <1>8 DEF OrderTypes
<1>9. /\ \A i \in 1..np : posted[i] = nNextReadOrder - np + i
      /\ \A i \in 1..nn : pipe[i] = nNextReadOrder - np + i
      /\ sent = nNextReadOrder - np + nn
  BY <1>11 DEF IInv, PendingInv
<1>13. p.order = p.msg /\ IsMessage(p.order, p.msg)
  <2>1. posted[1] = nNextReadOrder - np + 1 /\ pipe[1] = nNextReadOrder - np + 1
    BY <1>6, <1>9
  <2>2. posted[1] <= sent /\ posted[1] >= 1
    BY <1>2, <1>6, <1>9, <2>1, <1>10 DEF IInv, AscendInv, InPlay
  <2>3. QED
    BY <1>4, <1>5, <2>1, <2>2 DEF IsMessage
<1>14. PendingInv'
  <2>1. nState' # "destroying"
    BY <1>1, <1>11 DEF Dead
  <2>2. \A i \in 1..np - 1 : posted'[i] = nNextReadOrder - (np - 1) + i
    BY <1>2, <1>4, <1>6, <1>9
  <2>3. \A i \in 1..nn - 1 : pipe'[i] = nNextReadOrder - (np - 1) + i
    BY <1>2, <1>5, <1>6, <1>9
  <2>4. sent = nNextReadOrder - (np - 1) + (nn - 1)
    BY <1>2, <1>6, <1>9
  <2>5. QED
    BY <1>1, <1>4, <1>5, <2>1, <2>2, <2>3, <2>4 DEF PendingInv
<1>15. AscendInv'
  <2>1. AscendInv
    BY DEF IInv
  <2>2. \A i \in 1..ni + 1 : iocp'[i].order = IF i <= ni THEN iocp[i].order ELSE posted[1]
    BY <1>4, <1>6, <1>8
  <2>a. \A i \in 1..np - 1 : i + 1 \in 1..np
    BY <1>6
  <2>3. \A i \in 1..np - 1 : InPlay(posted'[i])
    BY <1>4, <2>1, <2>a DEF AscendInv
  <2>4. ASSUME NEW i \in 1..ni + 1 PROVE InPlay(iocp'[i].order)
    <3>1. CASE i <= ni
      BY <1>6, <2>1, <2>2, <3>1 DEF AscendInv
    <3>2. CASE i = ni + 1
      BY <1>6, <2>1, <2>2, <3>2 DEF AscendInv
    <3>3. QED
      BY <1>6, <3>1, <3>2
  <2>5. ASSUME NEW i \in 1..np - 1, NEW j \in 1..np - 1, i < j
        PROVE  posted'[i] < posted'[j]
    <3>1. i + 1 \in 1..np /\ j + 1 \in 1..np /\ i + 1 < j + 1
      BY <1>6, <2>5
    <3>2. posted[i + 1] < posted[j + 1]
      BY <2>1, <3>1 DEF AscendInv
    <3>3. QED
      BY <1>4, <3>2
  <2>6. ASSUME NEW i \in 1..ni + 1, NEW j \in 1..ni + 1, i < j
        PROVE  iocp'[i].order < iocp'[j].order
    <3>1. CASE j <= ni
      BY <1>6, <2>1, <2>2, <2>6, <3>1 DEF AscendInv
    <3>2. CASE j = ni + 1
      BY <1>6, <2>1, <2>2, <2>6, <3>2 DEF AscendInv
    <3>3. QED
      BY <1>6, <3>1, <3>2
  <2>7. \A i \in 1..ni + 1, j \in 1..np - 1 : iocp'[i].order < posted'[j]
    BY <1>4, <1>6, <2>1, <2>2 DEF AscendInv
  <2>8. \A o : InPlay(o)' <=> InPlay(o)
    BY <1>1 DEF InPlay
  <2>9. QED
    BY <1>1, <1>4, <1>8, <2>1, <2>3, <2>4, <2>5, <2>6, <2>7 DEF AscendInv, InPlay
<1>16. QueueInv'
  <2>1. ASSUME NEW o, Before(o) PROVE Before(o)'
    BY <2>1, <1>1, <1>4, <1>6, <1>8 DEF Before, InPlay
  <2>2. QED
    BY <1>1, <2>1 DEF IInv, QueueInv, Carrying, Holding, Draining
<1>17. MessageInv'
  BY <1>1, <1>8, <1>13 DEF IInv, MessageInv, IsMessage, Carrying, Holding, Draining
<1>18. DiscardInv' /\ CountInv'
  BY <1>1, <1>11 DEF IInv, DiscardInv, CountInv, Holding, Dead
<1>19. QED
  BY <1>12, <1>14, <1>15, <1>16, <1>17, <1>18 DEF IInv

\* Packets of failed reads keep the numbers of the reads.
LEMMA FailedReads ==
  ASSUME OrderTypes
  PROVE  /\ iocp \o FailedPackets(posted) \in Seq(Packet)
         /\ Len(iocp \o FailedPackets(posted)) = Len(iocp) + Len(posted)
         /\ \A i \in 1..Len(iocp) : (iocp \o FailedPackets(posted))[i] = iocp[i]
         /\ \A i \in Len(iocp) + 1..Len(iocp) + Len(posted) :
               (iocp \o FailedPackets(posted))[i] =
                  [ok |-> FALSE, order |-> posted[i - Len(iocp)], msg |-> 0]
<1> DEFINE fp == FailedPackets(posted)
<1>1. posted \in Seq(Nat) /\ iocp \in Seq(Packet)
  BY DEF OrderTypes
<1>2. DOMAIN posted = 1..Len(posted) /\ Len(posted) \in Nat /\ Len(iocp) \in Nat
  BY <1>1, LenProperties
<1>3. \A i \in 1..Len(posted) : [ok |-> FALSE, order |-> posted[i], msg |-> 0] \in Packet
  BY <1>1, <1>2, ElementOfSeq DEF Packet
<1>4. fp = [i \in 1..Len(posted) |-> [ok |-> FALSE, order |-> posted[i], msg |-> 0]]
  BY <1>2 DEF FailedPackets
<1>5. fp \in Seq(Packet) /\ Len(fp) = Len(posted)
  BY <1>2, <1>3, <1>4, IsASeq
<1>6. /\ iocp \o fp \in Seq(Packet)
      /\ Len(iocp \o fp) = Len(iocp) + Len(posted)
      /\ \A i \in 1..Len(iocp) + Len(posted) :
           (iocp \o fp)[i] = IF i <= Len(iocp) THEN iocp[i] ELSE fp[i - Len(iocp)]
  <2>1. \A p, q \in Seq(Packet) :
          /\ p \o q \in Seq(Packet)
          /\ Len(p \o q) = Len(p) + Len(q)
          /\ \A i \in 1..Len(p) + Len(q) : (p \o q)[i] = IF i <= Len(p) THEN p[i] ELSE q[i - Len(p)]
    BY ConcatProperties, Zenon
  <2> HIDE DEF fp
  <2>2. QED
    BY ZenonT(40), <1>1, <1>5, <2>1
<1>7. \A i \in 1..Len(iocp) : (iocp \o fp)[i] = iocp[i]
  BY <1>2, <1>6
<1>8. ASSUME NEW i \in Len(iocp) + 1..Len(iocp) + Len(posted)
      PROVE  (iocp \o fp)[i] = [ok |-> FALSE, order |-> posted[i - Len(iocp)], msg |-> 0]
  <2>1. i \in 1..Len(iocp) + Len(posted) /\ ~(i <= Len(iocp)) /\ i - Len(iocp) \in 1..Len(posted)
    BY <1>2
  <2>2. (iocp \o fp)[i] = fp[i - Len(iocp)]
    BY <1>6, <2>1
  <2>3. QED
    BY <1>4, <2>1, <2>2
<1>9. QED
  BY <1>6, <1>7, <1>8

\* The pending reads fail: their numbers move to the end of iocp.
LEMMA ReadsFailKeep ==
  ASSUME IInv,
         iocp' = iocp \o FailedPackets(posted), posted' = <<>>, pipe' = <<>>,
         nState' \in {nState, "destroying"}, broken' = broken,
         nState' = "destroying" \/ broken,
         UNCHANGED <<sent, orderVars, worker, taken, dispatched>>,
         discPc' \in [Threads -> DiscStates],
         \A t \in Threads : discPc'[t] = "discard" => nState' = "destroying"
  PROVE  IInv'
<1> DEFINE np == Len(posted)
           ni == Len(iocp)
<1>1. /\ sent' = sent /\ nNextReadOrder' = nNextReadOrder
      /\ nNextReadOrderToProcess' = nNextReadOrderToProcess
      /\ readedQueue' = readedQueue /\ discarded' = discarded /\ worker' = worker
      /\ taken' = taken /\ dispatched' = dispatched
  BY DEF orderVars
<1>2. OrderTypes /\ np \in Nat /\ ni \in Nat
  BY Elements DEF IInv
<1>3. /\ iocp' \in Seq(Packet)
      /\ Len(iocp') = ni + np
      /\ \A i \in 1..ni : iocp'[i] = iocp[i]
      /\ \A i \in ni + 1..ni + np : iocp'[i] = [ok |-> FALSE, order |-> posted[i - ni], msg |-> 0]
  BY <1>2, FailedReads
<1>4. /\ \A i \in 1..ni : iocp'[i].order = iocp[i].order
      /\ \A i \in ni + 1..ni + np : iocp'[i].order = posted[i - ni]
      /\ \A i \in ni + 1..ni + np : iocp'[i].ok = FALSE
  <2>1. \A i \in 1..ni : iocp'[i].order = iocp[i].order
    BY <1>3
  <2>2. ASSUME NEW i \in ni + 1..ni + np
        PROVE  iocp'[i].order = posted[i - ni] /\ iocp'[i].ok = FALSE
    <3>1. iocp'[i] = [ok |-> FALSE, order |-> posted[i - ni], msg |-> 0]
      BY <1>3
    <3>2. QED
      BY <3>1
  <2>3. QED
    BY <2>1, <2>2
<1>5a. /\ \A i \in ni + 1..ni + np : i - ni \in 1..np
       /\ 1..ni + np = (1..ni) \cup (ni + 1..ni + np)
  BY <1>2
<1>5. Len(posted') = 0 /\ Len(pipe') = 0 /\ posted' \in Seq(Nat) /\ pipe' \in Seq(Nat)
  BY EmptySeq
<1>6. OrderTypes'
  BY <1>1, <1>2, <1>3, <1>5 DEF OrderTypes
<1>7. PendingInv'
  BY <1>1 DEF PendingInv, Dead
<1>8. AscendInv'
  <2>1. AscendInv
    BY DEF IInv
  <2>2. \A o : InPlay(o)' <=> InPlay(o)
    BY <1>1 DEF InPlay
  <2>3. ASSUME NEW i \in 1..ni + np PROVE InPlay(iocp'[i].order)
    <3>1. CASE i \in 1..ni
      BY <1>4, <2>1, <3>1 DEF AscendInv
    <3>2. CASE i \in ni + 1..ni + np
      BY <1>4, <1>5a, <2>1, <3>2 DEF AscendInv
    <3>3. QED
      BY <1>5a, <3>1, <3>2
  <2>4. ASSUME NEW i \in 1..ni + np, NEW j \in 1..ni + np, i < j
        PROVE  iocp'[i].order < iocp'[j].order
    <3>1. CASE i \in 1..ni /\ j \in 1..ni
      BY <1>4, <2>1, <2>4, <3>1 DEF AscendInv
    <3>2. CASE i \in 1..ni /\ j \in ni + 1..ni + np
      BY <1>4, <1>5a, <2>1, <3>2 DEF AscendInv
    <3>3. CASE i \in ni + 1..ni + np /\ j \in ni + 1..ni + np
      <4>1. i - ni \in 1..np /\ j - ni \in 1..np /\ i - ni < j - ni
        BY <1>2, <2>4, <3>3
      <4>2. posted[i - ni] < posted[j - ni]
        BY <2>1, <4>1 DEF AscendInv
      <4>3. QED
        BY <1>4, <3>3, <4>2
    <3>4. ~(i \in ni + 1..ni + np /\ j \in 1..ni)
      BY <1>2, <2>4
    <3>5. QED
      BY <1>5a, <3>1, <3>2, <3>3, <3>4
  <2>5. 1..Len(posted') = {}
    BY <1>5
  <2>6. 1 <= nNextReadOrderToProcess /\ nNextReadOrderToProcess <= nNextReadOrder + 1
    BY <2>1 DEF AscendInv
  <2>7. QED
    BY <1>1, <1>3, <2>2, <2>3, <2>4, <2>5, <2>6 DEF AscendInv
<1>9. QueueInv'
  <2>1. ASSUME NEW o, Before(o) PROVE Before(o)'
    <3>1. \A i \in 1..ni + np : o < iocp'[i].order
      <4>1. ASSUME NEW i \in 1..ni + np PROVE o < iocp'[i].order
        <5>1. CASE i \in 1..ni
          BY <1>4, <2>1, <5>1 DEF Before
        <5>2. CASE i \in ni + 1..ni + np
          BY <1>4, <1>5a, <2>1, <5>2 DEF Before
        <5>3. QED
          BY <1>5a, <5>1, <5>2
      <4>2. QED
        BY <4>1
    <3>2. QED
      BY <1>1, <1>3, <1>5, <2>1, <3>1 DEF Before, InPlay
  <2>2. QED
    BY <1>1, <2>1 DEF IInv, QueueInv, Carrying, Holding, Draining
<1>10. MessageInv'
  <2>1. \A i \in 1..ni + np : iocp'[i].ok => i \in 1..ni /\ iocp'[i] = iocp[i]
    BY <1>3, <1>4, <1>5a
  <2>2. \A o, m : IsMessage(o, m)' <=> IsMessage(o, m)
    BY <1>1 DEF IsMessage
  <2>3. \A i \in 1..Len(iocp') : iocp'[i].ok => IsMessage(iocp'[i].order, iocp'[i].msg)
    BY <1>3, <2>1 DEF IInv, MessageInv
  <2>4. QED
    BY <1>1, <2>2, <2>3 DEF IInv, MessageInv, Carrying, Holding, Draining
<1>11. DiscardInv'
  <2>1. CASE discarded = {}
    BY <1>1, <2>1 DEF DiscardInv
  <2>2. CASE discarded # {}
    <3>1. nState = "destroying" /\ np = 0
      BY <2>2, EmptySeq DEF IInv, DiscardInv, PendingInv
    <3>2. \A i \in 1..Len(iocp') : iocp'[i].order \in discarded
      BY <1>2, <1>3, <2>2, <3>1 DEF IInv, DiscardInv
    <3>3. QED
      BY <1>1, <2>2, <3>1, <3>2 DEF IInv, DiscardInv, Holding
  <2>3. QED
    BY <2>1, <2>2
<1>12. CountInv'
  BY <1>1 DEF IInv, CountInv
<1>13. QED
  BY <1>6, <1>7, <1>8, <1>9, <1>10, <1>11, <1>12 DEF IInv

LEMMA ReadsFailStep ==
  ASSUME IInv, ReadsFail
  PROVE  IInv'
<1>1. /\ iocp' = iocp \o FailedPackets(posted) /\ posted' = <<>> /\ pipe' = <<>>
      /\ broken /\ broken' = broken /\ nState' = nState /\ discPc' = discPc
      /\ UNCHANGED <<sent, orderVars, worker, taken, dispatched>>
  BY DEF ReadsFail, discVars
<1>2. /\ discPc \in [Threads -> DiscStates]
      /\ \A t \in Threads : discPc[t] = "discard" => nState = "destroying"
  BY DEF IInv, OrderTypes, DiscardInv
<1>3. QED
  BY <1>1, <1>2, ReadsFailKeep

LEMMA ShutdownConnectionStep ==
  ASSUME IInv, NEW t \in Threads, ShutdownConnection(t)
  PROVE  IInv'
<1>1. CASE nState = "destroying"
  <2>1. UNCHANGED orderAndWorkers /\ discPc' = [discPc EXCEPT ![t] = "unref"]
    BY <1>1 DEF ShutdownConnection, DiscGoTo, orderAndWorkers, kernelVars, orderVars
  <2>2. /\ discPc' \in [Threads -> DiscStates]
        /\ \A u \in Threads : discPc'[u] = "discard" => discPc[u] = "discard"
    BY <2>1 DEF IInv, OrderTypes, DiscStates
  <2>3. QED
    BY <2>1, <2>2, OtherStep
<1>2. CASE nState # "destroying"
  <2>1. /\ iocp' = iocp \o FailedPackets(posted) /\ posted' = <<>> /\ pipe' = <<>>
        /\ nState' = "destroying" /\ broken' = broken
        /\ discPc' = [discPc EXCEPT ![t] = "discard"]
        /\ UNCHANGED <<sent, orderVars, worker, taken, dispatched>>
    BY <1>2 DEF ShutdownConnection, DiscGoTo
  <2>2. discPc' \in [Threads -> DiscStates]
    BY <2>1 DEF IInv, OrderTypes, DiscStates
  <2>3. QED
    BY <2>1, <2>2, ReadsFailKeep
<1>3. QED
  BY <1>1, <1>2

LEMMA DiscardAllBuffersStep ==
  ASSUME IInv, NEW t \in Threads, DiscardAllBuffers(t)
  PROVE  IInv'
<1>1. /\ discPc[t] = "discard" /\ discarded' = discarded \cup ListedOrders
      /\ sent' = sent /\ pipe' = pipe /\ broken' = broken /\ posted' = posted /\ iocp' = iocp
      /\ nState' = nState /\ nNextReadOrder' = nNextReadOrder
      /\ nNextReadOrderToProcess' = nNextReadOrderToProcess
      /\ readedQueue' = readedQueue /\ worker' = worker /\ taken' = taken /\ dispatched' = dispatched
      /\ discPc' = [discPc EXCEPT ![t] = IF t \in Finalizers THEN "release" ELSE "callback"]
  BY DEF DiscardAllBuffers, DiscAt, DiscGoTo, kernelVars
<1>2. OrderTypes /\ nState = "destroying"
  BY <1>1 DEF IInv, DiscardInv
<1>3. /\ discPc' \in [Threads -> DiscStates]
      /\ \A u \in Threads : discPc'[u] = "discard" => discPc[u] = "discard"
  BY <1>1, <1>2 DEF OrderTypes, DiscStates
<1>4. /\ \A i \in 1..Len(iocp) : iocp[i].order \in ListedOrders
      /\ \A b \in readedQueue : b.order \in ListedOrders
      /\ \A w \in Workers : Holding(w) => worker[w].order \in ListedOrders
  BY <1>2, LenProperties DEF ListedOrders, Holding, OrderTypes
<1>5. ListedOrders \subseteq Nat
  <2>1. /\ \A i \in DOMAIN posted : posted[i] \in Nat
        /\ \A i \in DOMAIN iocp : iocp[i].order \in Nat
    BY <1>2, LenProperties, Elements DEF OrderTypes
  <2>2. /\ \A w \in Workers : worker[w].order \in Nat
        /\ \A b \in readedQueue : b.order \in Nat
    BY <1>2 DEF OrderTypes
  <2>3. QED
    BY <2>1, <2>2 DEF ListedOrders
<1>6. OrderTypes'
  BY <1>1, <1>2, <1>3, <1>5 DEF OrderTypes
<1>7. PendingInv'
  BY <1>1 DEF IInv, PendingInv, Dead
<1>8. AscendInv'
  BY <1>1 DEF IInv, AscendInv, InPlay
<1>9. QueueInv'
  <2>1. \A o : Before(o) => Before(o)'
    BY <1>1 DEF Before, InPlay
  <2>2. QED
    BY <1>1, <2>1 DEF IInv, QueueInv, Carrying, Holding, Draining
<1>10. MessageInv'
  BY <1>1 DEF IInv, MessageInv, IsMessage, Carrying, Holding, Draining
<1>11. DiscardInv'
  BY <1>1, <1>2, <1>3, <1>4 DEF DiscardInv, Holding
<1>12. CountInv'
  <2>1. CountInv
    BY DEF IInv
  <2>2. discarded \subseteq discarded'
    BY <1>1
  <2>3. discarded' = {} => discarded = {}
    BY <1>1
  <2>4. QED
    BY <1>1, <2>1, <2>2, <2>3 DEF CountInv
<1>13. QED
  BY <1>6, <1>7, <1>8, <1>9, <1>10, <1>11, <1>12 DEF IInv

----------------------------------------------------------------------------
(* The workers *)

WorkerRecord == [pc : WorkerStates, order : Nat, msg : Nat, arg : Nat]

\* A worker that carries no buffer goes on without taking one.
LEMMA EmptyHandedStep ==
  ASSUME IInv, NEW w \in Workers, NEW r \in WorkerRecord,
         ~Carrying(w), r.pc \notin {"readed", "dispatch", "increment", "refused"},
         r.pc = "get" => r.arg <= nNextReadOrderToProcess,
         worker' = [worker EXCEPT ![w] = r],
         UNCHANGED <<kernelVars, orderVars, nState, taken, dispatched>>,
         discPc' \in [Threads -> DiscStates],
         \A t \in Threads : discPc'[t] = "discard" => discPc[t] = "discard"
  PROVE  IInv'
<1>1. /\ sent' = sent /\ pipe' = pipe /\ broken' = broken /\ posted' = posted /\ iocp' = iocp
      /\ nState' = nState /\ nNextReadOrder' = nNextReadOrder
      /\ nNextReadOrderToProcess' = nNextReadOrderToProcess
      /\ readedQueue' = readedQueue /\ discarded' = discarded /\ taken' = taken /\ dispatched' = dispatched
  BY DEF kernelVars, orderVars
<1>2. OrderTypes
  BY DEF IInv
<1>3. worker'[w] = r /\ \A v \in Workers \ {w} : worker'[v] = worker[v]
  BY <1>2 DEF OrderTypes
<1>4. ~Carrying(w)' /\ \A v \in Workers \ {w} : Carrying(v)' <=> Carrying(v)
  BY <1>3 DEF Carrying, Holding, Draining
<1>5. OrderTypes'
  BY <1>1, <1>2 DEF OrderTypes, WorkerRecord
<1>6. PendingInv' /\ AscendInv'
  BY <1>1 DEF IInv, PendingInv, Dead, AscendInv, InPlay
<1>7. QueueInv'
  <2>1. QueueInv
    BY DEF IInv
  <2>2. \A o : Before(o) => Before(o)'
    BY <1>1 DEF Before, InPlay
  <2>3. \A v \in Workers : Carrying(v)' => v # w /\ Carrying(v) /\ worker'[v] = worker[v]
    BY <1>3, <1>4
  <2>4. \A v \in Workers : Draining(v)' => Draining(v) /\ worker'[v] = worker[v]
    BY <1>3 DEF Draining
  <2>5. \A v \in Workers : worker'[v].pc = "get" => worker'[v].arg <= nNextReadOrderToProcess
    BY <1>3, <2>1 DEF QueueInv
  <2>6. QED
    BY <1>1, <2>1, <2>2, <2>3, <2>4, <2>5 DEF QueueInv
<1>8. MessageInv'
  <2>1. \A o, m : IsMessage(o, m) => IsMessage(o, m)'
    BY <1>1 DEF IsMessage
  <2>2. \A v \in Workers : Carrying(v)' => Carrying(v) /\ worker'[v] = worker[v]
    BY <1>3, <1>4
  <2>3. QED
    BY <1>1, <2>1, <2>2 DEF IInv, MessageInv
<1>9. DiscardInv'
  <2>1. \A v \in Workers : Holding(v)' => Holding(v) /\ worker'[v] = worker[v]
    BY <1>3 DEF Holding
  <2>2. QED
    BY <1>1, <2>1 DEF IInv, DiscardInv
<1>10. CountInv'
  <2>1. worker[w].pc \notin {"dispatch", "increment", "refused"} /\ worker'[w].pc \notin {"dispatch", "increment", "refused"}
    BY <1>3 DEF Carrying, Draining
  <2>2. \A v \in Workers : \/ worker'[v] = worker[v]
                            \/ v = w
    BY <1>3
  <2>3. \A v \in Workers : worker'[v].pc \in {"increment", "refused"} <=> worker[v].pc \in {"increment", "refused"}
    BY <2>1, <2>2
  <2>4. \A v \in Workers : worker'[v].pc = "dispatch" => worker[v].pc = "dispatch" /\ worker'[v] = worker[v]
    BY <2>1, <2>2
  <2>5. CountInv
    BY DEF IInv
  <2>6. QED
    BY <1>1, <2>3, <2>4, <2>5 DEF CountInv
<1>11. QED
  BY <1>5, <1>6, <1>7, <1>8, <1>9, <1>10 DEF IInv

LEMMA EmptyHandedSteps ==
  ASSUME IInv, NEW w \in Workers,
         AddRefForRead(w) \/ FetchNextOrder(w) \/ WorkerError(w) \/ WorkerEnd(w)
  PROVE  IInv'
<1>1. OrderTypes /\ worker[w] \in WorkerRecord /\ w \in Threads
  BY DEF IInv, OrderTypes, WorkerRecord, Threads
<1>2. /\ discPc \in [Threads -> DiscStates]
      /\ nNextReadOrderToProcess \in Nat
      /\ worker \in [Workers -> WorkerRecord]
  BY <1>1 DEF OrderTypes, WorkerRecord
<1>3. CASE AddRefForRead(w)
  <2> DEFINE r == [worker[w] EXCEPT !.pc = "fetch"]
  <2>1. r \in WorkerRecord /\ r.pc = "fetch"
    BY <1>1 DEF WorkerRecord, WorkerStates
  <2>2. /\ worker' = [worker EXCEPT ![w] = r] /\ ~Carrying(w)
        /\ UNCHANGED <<kernelVars, orderVars, nState, taken, dispatched>> /\ discPc' = discPc
    BY <1>2, <1>3 DEF AddRefForRead, At, GoTo, Carrying, Holding, Draining, discVars
  <2>3. QED
    BY <1>2, <2>1, <2>2, EmptyHandedStep
<1>4. CASE FetchNextOrder(w)
  <2> DEFINE s == IF shuttingDown THEN "end" ELSE "get"
             r == [worker[w] EXCEPT !.pc = s, !.arg = nNextReadOrderToProcess]
  <2>a. s \in {"end", "get"}
    OBVIOUS
  <2> HIDE DEF s
  <2>b. r.pc = s
    BY <1>1 DEF WorkerRecord
  <2>c. r.arg = nNextReadOrderToProcess
    BY <1>1 DEF WorkerRecord
  <2>d. r \in WorkerRecord
    BY <1>1, <1>2, <2>a DEF WorkerRecord, WorkerStates
  <2>1. r \in WorkerRecord /\ r.pc \in {"end", "get"} /\ r.arg <= nNextReadOrderToProcess
    BY <1>2, <2>a, <2>b, <2>c, <2>d
  <2> USE DEF s
  <2>2. /\ worker' = [worker EXCEPT ![w] = r] /\ ~Carrying(w)
        /\ UNCHANGED <<kernelVars, orderVars, nState, taken, dispatched>> /\ discPc' = discPc
    BY <1>2, <1>4 DEF FetchNextOrder, At, Carrying, Holding, Draining, discVars
  <2>3. QED
    BY <1>2, <2>1, <2>2, EmptyHandedStep
<1>5. CASE WorkerError(w)
  <2> DEFINE r == [worker[w] EXCEPT !.pc = "end"]
  <2>1. r \in WorkerRecord /\ r.pc = "end"
    BY <1>1 DEF WorkerRecord, WorkerStates
  <2>2. /\ worker' = [worker EXCEPT ![w] = r] /\ ~Carrying(w)
        /\ UNCHANGED <<kernelVars, orderVars, nState, taken, dispatched>>
        /\ discPc' = [discPc EXCEPT ![w] = "enter"]
    BY <1>2, <1>5 DEF WorkerError, At, GoTo, Carrying, Holding, Draining
  <2>3. /\ discPc' \in [Threads -> DiscStates]
        /\ \A t \in Threads : discPc'[t] = "discard" => discPc[t] = "discard"
    BY <1>1, <1>2, <2>2 DEF DiscStates
  <2>4. QED
    BY <2>1, <2>2, <2>3, EmptyHandedStep
<1>6. CASE WorkerEnd(w)
  <2>1. Idle \in WorkerRecord /\ Idle.pc = "idle"
    BY DEF Idle, WorkerRecord, WorkerStates
  <2>2. /\ worker' = [worker EXCEPT ![w] = Idle] /\ ~Carrying(w)
        /\ UNCHANGED <<kernelVars, orderVars, nState, taken, dispatched>> /\ discPc' = discPc
    BY <1>6 DEF WorkerEnd, At, Carrying, Holding, Draining, discVars
  <2>3. QED
    BY <1>2, <2>1, <2>2, EmptyHandedStep
<1>7. QED
  BY <1>3, <1>4, <1>5, <1>6

\* A packet leaves iocp; with a message it goes to the worker.
LEMMA DequeueStep ==
  ASSUME IInv, NEW w \in Workers, Dequeue(w)
  PROVE  IInv'
<1> DEFINE p == Head(iocp)
           ni == Len(iocp)
           s == IF ~p.ok THEN "error" ELSE IF p.order \in discarded THEN "end" ELSE "readed"
           r == [pc |-> s, order |-> p.order, msg |-> p.msg, arg |-> 0]
<1>1. /\ worker[w].pc = "idle" /\ iocp # <<>>
      /\ worker' = [worker EXCEPT ![w] = r] /\ iocp' = Tail(iocp)
      /\ sent' = sent /\ pipe' = pipe /\ broken' = broken /\ posted' = posted
      /\ nState' = nState /\ nNextReadOrder' = nNextReadOrder
      /\ nNextReadOrderToProcess' = nNextReadOrderToProcess
      /\ readedQueue' = readedQueue /\ discarded' = discarded /\ taken' = taken /\ dispatched' = dispatched
      /\ discPc' = discPc
  BY DEF Dequeue, At, orderVars, discVars
<1>2. OrderTypes /\ ni \in Nat /\ iocp \in Seq(Packet)
  BY Elements DEF IInv, OrderTypes
<1>3. /\ iocp' \in Seq(Packet) /\ Len(iocp') = ni - 1 /\ p = iocp[1] /\ p \in Packet
      /\ \A i \in 1..ni - 1 : iocp'[i] = iocp[i + 1]
  BY <1>1, <1>2, HeadTailProperties
<1>4. ni > 0 /\ 1 \in 1..ni /\ \A i \in 1..ni - 1 : i + 1 \in 1..ni /\ 1 < i + 1
  BY <1>1, <1>2, LenProperties, EmptySeq
<1>5. p.order \in Nat /\ p.msg \in Nat /\ p.ok \in BOOLEAN /\ s \in WorkerStates
  BY <1>3 DEF Packet, WorkerStates
<1> HIDE DEF p
<1>6. r \in WorkerRecord
  BY <1>5 DEF WorkerRecord
<1>7. worker'[w] = r /\ \A v \in Workers \ {w} : worker'[v] = worker[v]
  BY <1>1, <1>2 DEF OrderTypes
<1>8. ~Carrying(w) /\ s \in {"error", "end", "readed"}
  BY <1>1 DEF Carrying, Holding, Draining
<1>9. /\ \A v \in Workers \ {w} : Carrying(v)' <=> Carrying(v)
      /\ Carrying(w)' => s = "readed"
      /\ worker'[w].order = p.order /\ worker'[w].msg = p.msg /\ worker'[w].pc = s
  BY <1>7, <1>8 DEF Carrying, Holding, Draining
<1>10. s = "readed" => p.ok /\ p.order \notin discarded
  OBVIOUS
<1> HIDE DEF s
<1>11. OrderTypes'
  BY <1>1, <1>2, <1>3, <1>6 DEF OrderTypes, WorkerRecord
<1>12. PendingInv'
  BY <1>1 DEF IInv, PendingInv, Dead
<1>13. AscendInv'
  <2>1. AscendInv
    BY DEF IInv
  <2>2. ASSUME NEW i \in 1..ni - 1, NEW j \in 1..ni - 1, i < j
        PROVE  iocp'[i].order < iocp'[j].order
    <3>1. i + 1 \in 1..ni /\ j + 1 \in 1..ni /\ i + 1 < j + 1
      BY <1>2, <2>2
    <3>2. iocp[i + 1].order < iocp[j + 1].order
      BY <2>1, <3>1 DEF AscendInv
    <3>3. QED
      BY <1>3, <3>2
  <2>3. \A i \in 1..ni - 1 : InPlay(iocp'[i].order)
    BY <1>3, <1>4, <2>1 DEF AscendInv
  <2>4. \A i \in 1..ni - 1, j \in 1..Len(posted) : iocp'[i].order < posted[j]
    BY <1>3, <1>4, <2>1 DEF AscendInv
  <2>5. QED
    BY <1>1, <1>3, <2>1, <2>2, <2>3, <2>4 DEF AscendInv, InPlay
<1>14. QueueInv'
  <2>1. QueueInv /\ AscendInv
    BY DEF IInv
  <2>2. ASSUME NEW o, Before(o) PROVE Before(o)' /\ o < p.order
    BY <1>1, <1>3, <1>4, <2>2 DEF Before, InPlay
  <2>3. ASSUME NEW o, o = p.order PROVE Before(o)'
    <3>1. \A i \in 1..ni - 1 : iocp[1].order < iocp[i + 1].order
      BY <1>4, <2>1 DEF AscendInv
    <3>2. \A i \in 1..Len(posted) : iocp[1].order < posted[i]
      BY <1>4, <2>1 DEF AscendInv
    <3>3. InPlay(p.order)
      BY <1>3, <1>4, <2>1 DEF AscendInv
    <3>4. QED
      BY <1>1, <1>3, <2>3, <3>1, <3>2, <3>3 DEF Before, InPlay
  <2>4. \A v \in Workers : Carrying(v)' => \/ v # w /\ Carrying(v) /\ worker'[v] = worker[v]
                                           \/ v = w /\ worker'[v].order = p.order
    BY <1>7, <1>9
  <2>5. \A v \in Workers : Draining(v)' => Draining(v) /\ worker'[v] = worker[v]
    BY <1>7, <1>8, <1>9 DEF Draining
  <2>6. \A v \in Workers : worker'[v].pc = "get" => worker[v].pc = "get" /\ worker'[v] = worker[v]
    BY <1>7, <1>8, <1>9
  <2>7. /\ \A b \in readedQueue : b.order \in Nat /\ b.order < p.order
        /\ \A v \in Workers : worker[v].order \in Nat
        /\ \A v \in Workers : Carrying(v) => worker[v].order < p.order
    BY <1>2, <2>1, <2>2 DEF OrderTypes, QueueInv
  <2>8. \A b \in readedQueue' : Before(b.order)'
    BY <1>1, <2>1, <2>2 DEF QueueInv
  <2>9. ASSUME NEW v \in Workers, Carrying(v)', NEW o, o = worker'[v].order
        PROVE  Before(o)'
    BY <2>1, <2>2, <2>3, <2>4, <2>9 DEF QueueInv
  <2>10. \A v \in Workers : Draining(v)' => worker'[v].order = nNextReadOrderToProcess'
    BY <1>1, <2>1, <2>5 DEF QueueInv
  <2>11. \A b \in readedQueue' : \A v \in Workers : Carrying(v)' => b.order # worker'[v].order
    BY <1>1, <1>5, <2>1, <2>4, <2>7 DEF QueueInv
  <2>12. \A u, v \in Workers : Carrying(u)' /\ Carrying(v)' /\ u # v => worker'[u].order # worker'[v].order
    BY <1>5, <2>1, <2>4, <2>7 DEF QueueInv
  <2>13. QED
    BY <1>1, <2>1, <2>6, <2>8, <2>9, <2>10, <2>11, <2>12 DEF QueueInv
<1>15. MessageInv'
  <2>1. MessageInv
    BY DEF IInv
  <2>2. \A o, m : IsMessage(o, m) => IsMessage(o, m)'
    BY <1>1 DEF IsMessage
  <2>3. \A i \in 1..ni - 1 : iocp'[i].ok => IsMessage(iocp'[i].order, iocp'[i].msg)
    BY <1>3, <1>4, <2>1 DEF MessageInv
  <2>4. p.ok => IsMessage(p.order, p.msg)
    BY <1>3, <1>4, <2>1 DEF MessageInv
  <2>5. \A v \in Workers : Carrying(v)' => IsMessage(worker'[v].order, worker'[v].msg)
    <3>1. ASSUME NEW v \in Workers, Carrying(v)' PROVE IsMessage(worker'[v].order, worker'[v].msg)
      <4>1. CASE v = w
        BY <1>9, <1>10, <2>4, <3>1, <4>1
      <4>2. CASE v # w
        BY <1>7, <1>9, <2>1, <3>1, <4>2 DEF MessageInv
      <4>3. QED
        BY <4>1, <4>2
    <3>2. QED
      BY <3>1
  <2>6. QED
    BY <1>1, <1>3, <2>1, <2>2, <2>3, <2>5 DEF MessageInv
<1>16. DiscardInv'
  <2>1. DiscardInv
    BY DEF IInv
  <2>2. \A i \in 1..ni - 1 : discarded # {} => iocp'[i].order \in discarded
    BY <1>3, <1>4, <2>1 DEF DiscardInv
  <2>3. discarded # {} => s # "readed"
    BY <1>3, <1>4, <1>10, <2>1 DEF DiscardInv
  <2>4. \A v \in Workers : Holding(v)' => \/ v = w /\ s = "readed"
                                          \/ Holding(v) /\ worker'[v] = worker[v]
    BY <1>7, <1>9 DEF Holding
  <2>5. QED
    BY <1>1, <1>3, <2>1, <2>2, <2>3, <2>4 DEF DiscardInv
<1>17. CountInv'
  <2>1. \A v \in Workers : worker'[v].pc \in {"increment", "refused"} <=> worker[v].pc \in {"increment", "refused"}
    BY <1>1, <1>7, <1>8, <1>9
  <2>2. \A v \in Workers : worker'[v].pc = "dispatch" => worker[v].pc = "dispatch" /\ worker'[v] = worker[v]
    BY <1>1, <1>7, <1>8, <1>9
  <2>3. CountInv
    BY DEF IInv
  <2>4. QED
    BY <1>1, <2>1, <2>2, <2>3 DEF CountInv
<1>18. QED
  BY <1>11, <1>12, <1>13, <1>14, <1>15, <1>16, <1>17 DEF IInv

\* The worker's buffer goes to the sorted queue.
LEMMA AddBufferStep ==
  ASSUME IInv, NEW w \in Workers, AddBufferInSortedReadedQueue(w)
  PROVE  IInv'
<1> DEFINE r == [worker[w] EXCEPT !.pc = "ahead"]
           new == [order |-> worker[w].order, msg |-> worker[w].msg]
<1>1. /\ worker[w].pc = "readed"
      /\ worker' = [worker EXCEPT ![w].pc = "ahead"] /\ readedQueue' = readedQueue \cup {new}
      /\ sent' = sent /\ pipe' = pipe /\ broken' = broken /\ posted' = posted /\ iocp' = iocp
      /\ nState' = nState /\ nNextReadOrder' = nNextReadOrder
      /\ nNextReadOrderToProcess' = nNextReadOrderToProcess
      /\ discarded' = discarded /\ taken' = taken /\ dispatched' = dispatched
      /\ discPc' = discPc
  BY DEF AddBufferInSortedReadedQueue, At, GoTo, kernelVars, discVars
<1>2. OrderTypes /\ worker \in [Workers -> WorkerRecord]
  BY DEF IInv, OrderTypes, WorkerRecord
<1>3. /\ worker'[w].pc = "ahead" /\ worker' \in [Workers -> WorkerRecord]
      /\ \A v \in Workers \ {w} : worker'[v] = worker[v]
  BY <1>1, <1>2 DEF WorkerRecord, WorkerStates
<1>4. new \in [order : Nat, msg : Nat] /\ new.order = worker[w].order /\ new.msg = worker[w].msg
  BY <1>2 DEF WorkerRecord
<1> HIDE DEF new
<1>5. /\ Carrying(w) /\ ~Carrying(w)' /\ Holding(w)
      /\ \A v \in Workers \ {w} : (Carrying(v)' <=> Carrying(v)) /\ (Holding(v)' <=> Holding(v))
  BY <1>1, <1>3 DEF Carrying, Holding, Draining
<1>6. OrderTypes'
  BY <1>1, <1>2, <1>3, <1>4 DEF OrderTypes, WorkerRecord
<1>7. PendingInv' /\ AscendInv'
  BY <1>1 DEF IInv, PendingInv, Dead, AscendInv, InPlay
<1>8. QueueInv'
  <2>1. QueueInv
    BY DEF IInv
  <2>2. \A o : Before(o) => Before(o)'
    BY <1>1 DEF Before, InPlay
  <2>3. \A v \in Workers : Carrying(v)' => v # w /\ Carrying(v) /\ worker'[v] = worker[v]
    BY <1>3, <1>5
  <2>4. \A v \in Workers : Draining(v)' => Draining(v) /\ worker'[v] = worker[v]
    BY <1>3 DEF Draining
  <2>5. \A v \in Workers : worker'[v].pc = "get" => worker[v].pc = "get" /\ worker'[v] = worker[v]
    BY <1>3
  <2>6. \A b \in readedQueue' : Before(b.order)
    BY <1>1, <1>4, <1>5, <2>1 DEF QueueInv
  <2>7. \A b, c \in readedQueue' : b.order = c.order => b = c
    BY <1>1, <1>4, <1>5, <2>1 DEF QueueInv
  <2>8. \A b \in readedQueue' : \A v \in Workers : Carrying(v)' => b.order # worker'[v].order
    BY <1>1, <1>4, <1>5, <2>1, <2>3 DEF QueueInv
  <2>9. QED
    BY <1>1, <2>1, <2>2, <2>3, <2>4, <2>5, <2>6, <2>7, <2>8 DEF QueueInv
<1>9. MessageInv'
  <2>1. MessageInv
    BY DEF IInv
  <2>2. \A o, m : IsMessage(o, m) => IsMessage(o, m)'
    BY <1>1 DEF IsMessage
  <2>3. \A b \in readedQueue' : IsMessage(b.order, b.msg)
    BY <1>1, <1>4, <1>5, <2>1 DEF MessageInv
  <2>4. \A v \in Workers : Carrying(v)' => Carrying(v) /\ worker'[v] = worker[v]
    BY <1>3, <1>5
  <2>5. QED
    BY <1>1, <2>1, <2>2, <2>3, <2>4 DEF MessageInv
<1>10. DiscardInv'
  <2>1. \A v \in Workers : Holding(v)' => Holding(v) /\ worker'[v] = worker[v]
    BY <1>3 DEF Holding
  <2>2. \A b \in readedQueue' : discarded # {} => b.order \in discarded
    BY <1>1, <1>4, <1>5 DEF IInv, DiscardInv
  <2>3. QED
    BY <1>1, <2>1, <2>2 DEF IInv, DiscardInv
<1>11. CountInv'
  <2>1. \A v \in Workers : worker'[v].pc \in {"increment", "refused"} <=> worker[v].pc \in {"increment", "refused"}
    BY <1>1, <1>3
  <2>2. \A v \in Workers : worker'[v].pc = "dispatch" => worker[v].pc = "dispatch" /\ worker'[v] = worker[v]
    BY <1>1, <1>3
  <2>3. CountInv
    BY DEF IInv
  <2>4. QED
    BY <1>1, <2>1, <2>2, <2>3 DEF CountInv
<1>12. QED
  BY <1>6, <1>7, <1>8, <1>9, <1>10, <1>11 DEF IInv

\* A new read has the next number, even if it cannot be posted.
LEMMA SendReadPacketStep ==
  ASSUME IInv, NEW w \in Workers, SendReadPacket(w)
  PROVE  IInv'
<1> DEFINE np == Len(posted)
           n == nNextReadOrder + 1
           s == IF nState = "connected" /\ ~(broken /\ pipe = <<>>) THEN "addref" ELSE "error"
<1>1. /\ worker[w].pc = "ahead" /\ worker' = [worker EXCEPT ![w].pc = s]
      /\ nNextReadOrder' = n /\ posted' = IF s = "addref" THEN Append(posted, n) ELSE posted
      /\ sent' = sent /\ pipe' = pipe /\ broken' = broken /\ iocp' = iocp /\ nState' = nState
      /\ nNextReadOrderToProcess' = nNextReadOrderToProcess
      /\ readedQueue' = readedQueue /\ discarded' = discarded /\ taken' = taken /\ dispatched' = dispatched
      /\ discPc' = discPc
  BY DEF SendReadPacket, At, GoTo, discVars
<1>2. /\ OrderTypes /\ worker \in [Workers -> WorkerRecord] /\ posted \in Seq(Nat)
      /\ np \in Nat /\ n \in Nat /\ nNextReadOrder \in Nat
  BY SMTT(20), Elements DEF IInv, OrderTypes, WorkerRecord
<1>3. s \in {"addref", "error"} /\ (s = "addref" <=> ~Dead)
  BY <1>2 DEF Dead, OrderTypes
<1> HIDE DEF s
<1>4. /\ worker'[w].pc = s /\ worker' \in [Workers -> WorkerRecord]
      /\ \A v \in Workers \ {w} : worker'[v] = worker[v]
  BY <1>1, <1>2, <1>3 DEF WorkerRecord, WorkerStates
<1>5. /\ ~Carrying(w) /\ ~Carrying(w)'
      /\ \A v \in Workers \ {w} : Carrying(v)' <=> Carrying(v)
  BY <1>1, <1>3, <1>4 DEF Carrying, Holding, Draining
<1>6. /\ posted' \in Seq(Nat) /\ Len(posted') \in {np, np + 1}
      /\ s = "addref" => Len(posted') = np + 1
      /\ \A i \in 1..Len(posted') :
           (i \in 1..np /\ posted'[i] = posted[i]) \/ (i = np + 1 /\ posted'[i] = n)
  <2>1. CASE s = "addref"
    <3>1. posted' = Append(posted, n)
      BY <1>1, <2>1
    <3>2. /\ posted' \in Seq(Nat) /\ Len(posted') = np + 1 /\ posted'[np + 1] = n
          /\ \A i \in 1..np : posted'[i] = posted[i]
      BY <1>2, <3>1, AppendProperties
    <3>3. np \in Nat /\ Len(posted') = np + 1
      BY <1>2, <3>2
    <3> HIDE DEF np
    <3>4. \A i \in 1..Len(posted') : i \in 1..np \/ i = np + 1
      BY <3>3
    <3>5. \A i \in 1..np : posted'[i] = posted[i]
      BY <3>2
    <3>6. QED
      BY <3>2, <3>3, <3>4, <3>5
  <2>2. CASE s = "error"
    <3>1. posted' = posted
      BY <1>1, <2>2
    <3>2. QED
      BY <1>2, <2>2, <3>1
  <2>3. QED
    BY <1>3, <2>1, <2>2
<1>7. OrderTypes'
  BY <1>1, <1>2, <1>4, <1>6 DEF OrderTypes, WorkerRecord
<1>8. PendingInv'
  <2>1. CASE Dead
    BY <1>1, <1>3, <2>1 DEF IInv, PendingInv, Dead
  <2>2. CASE ~Dead
    <3>1. /\ \A i \in 1..np : posted[i] = nNextReadOrder - np + i
          /\ \A i \in 1..Len(pipe) : pipe[i] = nNextReadOrder - np + i
          /\ sent = nNextReadOrder - np + Len(pipe)
      BY <2>2 DEF IInv, PendingInv
    <3>2. Len(posted') = np + 1 /\ n - (np + 1) = nNextReadOrder - np
      BY <1>2, <1>3, <1>6, <2>2
    <3>3. ASSUME NEW i \in 1..Len(posted') PROVE posted'[i] = nNextReadOrder - np + i
      <4>1. CASE i \in 1..np /\ posted'[i] = posted[i]
        BY <3>1, <4>1
      <4>2. CASE i = np + 1 /\ posted'[i] = n
        <5>1. n = nNextReadOrder - np + (np + 1)
          BY <1>2
        <5>2. QED
          BY <4>2, <5>1
      <4>3. QED
        BY <1>6, <4>1, <4>2
    <3>4. nState' # "destroying"
      BY <1>1, <2>2 DEF Dead
    <3>5. nNextReadOrder' - Len(posted') = nNextReadOrder - np
      BY <1>1, <3>2
    <3>6. \A i \in 1..Len(posted') : posted'[i] = nNextReadOrder' - Len(posted') + i
      BY <3>3, <3>5
    <3>7. \A i \in 1..Len(pipe') : pipe'[i] = nNextReadOrder' - Len(posted') + i
      BY <1>1, <3>1, <3>5
    <3>8. sent' = nNextReadOrder' - Len(posted') + Len(pipe')
      BY <1>1, <3>1, <3>5
    <3>9. QED
      BY <3>4, <3>6, <3>7, <3>8 DEF PendingInv
  <2>3. QED
    BY <2>1, <2>2
<1>9. AscendInv /\ nNextReadOrderToProcess \in Nat
  BY <1>2 DEF IInv, OrderTypes
<1>10. \A o \in Nat : InPlay(o) => InPlay(o)'
  BY <1>1, <1>2 DEF InPlay
<1>11. /\ \A i \in 1..np : posted[i] \in Nat /\ InPlay(posted[i]) /\ posted[i] < n
       /\ \A i \in 1..Len(iocp) : iocp[i].order \in Nat /\ InPlay(iocp[i].order) /\ iocp[i].order < n
  <2>1. /\ \A i \in 1..np : posted[i] \in Nat /\ InPlay(posted[i])
        /\ \A i \in 1..Len(iocp) : iocp[i].order \in Nat /\ InPlay(iocp[i].order)
    BY <1>2, <1>9, Elements DEF AscendInv
  <2>2. \A o \in Nat : InPlay(o) => o < n
    BY <1>2 DEF InPlay
  <2>3. QED
    BY <2>1, <2>2
<1>12. AscendInv'
  <2>1. nNextReadOrderToProcess <= n
    BY <1>9 DEF AscendInv
  <2>2. \A o : o = n => InPlay(o)'
    BY <1>1, <1>2, <2>1 DEF InPlay
  <2>3. ASSUME NEW i \in 1..Len(posted'), NEW o, o = posted'[i] PROVE InPlay(o)'
    BY <1>6, <1>10, <1>11, <2>2, <2>3
  <2>4. ASSUME NEW i \in 1..Len(posted'), NEW j \in 1..Len(posted'), i < j
        PROVE  posted'[i] < posted'[j]
    <3>1. i \in 1..np /\ posted'[i] = posted[i]
      <4>1. i # np + 1
        <5>1. j \in 1..np \/ j = np + 1
          BY <1>6
        <5>2. i < j /\ i \in Nat /\ j \in Nat
          BY <1>6, <2>4
        <5> HIDE DEF np
        <5>3. QED
          BY <1>2, <5>1, <5>2
      <4>2. QED
        BY <1>6, <4>1
    <3>2. CASE j \in 1..np /\ posted'[j] = posted[j]
      BY <1>9, <2>4, <3>1, <3>2 DEF AscendInv
    <3>3. CASE j = np + 1 /\ posted'[j] = n
      BY <1>11, <3>1, <3>3
    <3>4. QED
      BY <1>6, <3>2, <3>3
  <2>5. ASSUME NEW i \in 1..Len(iocp), NEW j \in 1..Len(posted')
        PROVE  iocp[i].order < posted'[j]
    BY <1>6, <1>9, <1>11 DEF AscendInv
  <2>6. \A i \in 1..Len(iocp) : InPlay(iocp[i].order)'
    BY <1>1, <1>10, <1>11
  <2>7. 1 <= nNextReadOrderToProcess /\ nNextReadOrderToProcess <= n + 1
    BY <1>2, <1>9, <2>1 DEF AscendInv
  <2>8. QED
    BY <1>1, <1>9, <2>3, <2>4, <2>5, <2>6, <2>7 DEF AscendInv
<1>13. QueueInv'
  <2>1. QueueInv
    BY DEF IInv
  <2>2. ASSUME NEW o \in Nat, Before(o) PROVE Before(o)'
    <3>1. InPlay(o) /\ o < n
      BY <1>2, <2>2 DEF Before, InPlay
    <3>2. \A i \in 1..Len(posted') : o < posted'[i]
      BY <1>6, <2>2, <3>1 DEF Before
    <3>3. QED
      BY <1>1, <1>10, <2>2, <3>1, <3>2 DEF Before
  <2>3. \A v \in Workers : Carrying(v)' => Carrying(v) /\ worker'[v] = worker[v]
    BY <1>4, <1>5
  <2>4. \A v \in Workers : Draining(v)' => Draining(v) /\ worker'[v] = worker[v]
    BY <1>3, <1>4 DEF Draining
  <2>5. \A v \in Workers : worker'[v].pc = "get" => worker[v].pc = "get" /\ worker'[v] = worker[v]
    BY <1>3, <1>4
  <2>6. /\ \A b \in readedQueue : b.order \in Nat
        /\ \A v \in Workers : worker[v].order \in Nat
    BY <1>2 DEF OrderTypes
  <2>7. QED
    BY <1>1, <2>1, <2>2, <2>3, <2>4, <2>5, <2>6 DEF QueueInv
<1>14. MessageInv'
  <2>1. \A o, m : IsMessage(o, m) => IsMessage(o, m)'
    BY <1>1 DEF IsMessage
  <2>2. \A v \in Workers : Carrying(v)' => Carrying(v) /\ worker'[v] = worker[v]
    BY <1>4, <1>5
  <2>3. QED
    BY <1>1, <2>1, <2>2 DEF IInv, MessageInv
<1>15. DiscardInv'
  <2>1. \A v \in Workers : Holding(v)' => Holding(v) /\ worker'[v] = worker[v]
    BY <1>3, <1>4 DEF Holding
  <2>2. QED
    BY <1>1, <2>1 DEF IInv, DiscardInv
<1>16. CountInv'
  <2>1. \A v \in Workers : worker'[v].pc \in {"increment", "refused"} <=> worker[v].pc \in {"increment", "refused"}
    BY <1>1, <1>3, <1>4
  <2>2. \A v \in Workers : worker'[v].pc = "dispatch" => worker[v].pc = "dispatch" /\ worker'[v] = worker[v]
    BY <1>1, <1>3, <1>4
  <2>3. CountInv
    BY DEF IInv
  <2>4. QED
    BY <1>1, <2>1, <2>2, <2>3 DEF CountInv
<1>17. QED
  BY <1>7, <1>8, <1>12, <1>13, <1>14, <1>15, <1>16 DEF IInv
\* The head of the sorted queue, whose number was fetched some time ago, is
\* still the one to process, and nobody else drains.
LEMMA TakeHeadStep ==
  ASSUME IInv, NEW w \in Workers, NEW b \in readedQueue, At(w, "get"),
         b.order = worker[w].arg, readedQueue' = readedQueue \ {b},
         worker' = [worker EXCEPT ![w].pc = "dispatch", ![w].order = b.order, ![w].msg = b.msg],
         UNCHANGED <<kernelVars, nNextReadOrder, nNextReadOrderToProcess, discarded, discPc, nState,
                     taken, dispatched>>
  PROVE  IInv'
<1>1. /\ worker[w].pc = "get"
      /\ sent' = sent /\ pipe' = pipe /\ broken' = broken /\ posted' = posted /\ iocp' = iocp
      /\ nState' = nState /\ nNextReadOrder' = nNextReadOrder
      /\ nNextReadOrderToProcess' = nNextReadOrderToProcess
      /\ discarded' = discarded /\ taken' = taken /\ dispatched' = dispatched
      /\ discPc' = discPc
  BY DEF At, kernelVars
<1>2. /\ OrderTypes /\ worker \in [Workers -> WorkerRecord]
      /\ b.order \in Nat /\ b.msg \in Nat /\ nNextReadOrderToProcess \in Nat
      /\ \A v \in Workers : worker[v].arg \in Nat
  BY DEF IInv, OrderTypes, WorkerRecord
<1>3. /\ worker'[w].pc = "dispatch" /\ worker'[w].order = b.order /\ worker'[w].msg = b.msg
      /\ worker' \in [Workers -> WorkerRecord]
      /\ \A v \in Workers \ {w} : worker'[v] = worker[v]
  BY <1>2 DEF WorkerRecord, WorkerStates
<1>4. QueueInv
  BY DEF IInv
<1>5. b.order = nNextReadOrderToProcess
  <2>1. worker[w].arg <= nNextReadOrderToProcess
    BY <1>1, <1>4 DEF QueueInv
  <2>2. nNextReadOrderToProcess <= b.order
    BY <1>4 DEF QueueInv, Before, InPlay
  <2>3. QED
    BY <1>2, <2>1, <2>2
<1>6. \A v \in Workers : ~Draining(v)
  BY <1>4, <1>5 DEF QueueInv, Carrying
<1>7. /\ ~Carrying(w)
      /\ \A v \in Workers : Carrying(v)' => (v = w \/ (v # w /\ Carrying(v) /\ worker'[v] = worker[v]))
      /\ \A v \in Workers : Draining(v)' => v = w
      /\ \A v \in Workers : Holding(v)' => Holding(v) /\ worker'[v] = worker[v]
  BY <1>1, <1>3, <1>6 DEF Carrying, Holding, Draining
<1>8. OrderTypes'
  BY <1>1, <1>2, <1>3 DEF OrderTypes, WorkerRecord
<1>9. PendingInv' /\ AscendInv'
  BY <1>1 DEF IInv, PendingInv, Dead, AscendInv, InPlay
<1>10. QueueInv'
  <2>1. \A o : Before(o) => Before(o)'
    BY <1>1 DEF Before, InPlay
  <2>2. \A c \in readedQueue' : c \in readedQueue /\ c # b
    OBVIOUS
  <2>3. ASSUME NEW v \in Workers, Carrying(v)', NEW o, o = worker'[v].order PROVE Before(o)'
    BY <1>3, <1>4, <1>7, <2>1, <2>3 DEF QueueInv
  <2>4. \A c \in readedQueue' : \A v \in Workers : Carrying(v)' => c.order # worker'[v].order
    BY <1>3, <1>4, <1>7, <2>2 DEF QueueInv
  <2>5. \A u, v \in Workers : Carrying(u)' /\ Carrying(v)' /\ u # v => worker'[u].order # worker'[v].order
    BY <1>3, <1>4, <1>7 DEF QueueInv
  <2>6. \A v \in Workers : worker'[v].pc = "get" => worker[v].pc = "get" /\ worker'[v] = worker[v]
    BY <1>3
  <2>7. \A v \in Workers : Draining(v)' => worker'[v].order = nNextReadOrderToProcess'
    BY <1>1, <1>3, <1>5, <1>7
  <2>8. QED
    BY ZenonT(40), <1>1, <1>4, <2>1, <2>2, <2>3, <2>4, <2>5, <2>6, <2>7 DEF QueueInv
<1>11. MessageInv'
  <2>1. \A o, m : IsMessage(o, m) => IsMessage(o, m)'
    BY <1>1 DEF IsMessage
  <2>2. MessageInv /\ IsMessage(b.order, b.msg)
    BY DEF IInv, MessageInv
  <2>3. \A v \in Workers : Carrying(v)' => IsMessage(worker'[v].order, worker'[v].msg)
    BY <1>3, <1>7, <2>2 DEF MessageInv
  <2>4. \A c \in readedQueue' : c \in readedQueue
    OBVIOUS
  <2>5. QED
    BY <1>1, <2>1, <2>2, <2>3, <2>4 DEF MessageInv
<1>12. DiscardInv'
  BY <1>1, <1>7 DEF IInv, DiscardInv
<1>13. CountInv'
  <2>1. \A v \in Workers : worker[v].pc \notin {"increment", "refused"} /\ worker'[v].pc \notin {"increment", "refused"}
    BY <1>3, <1>6 DEF Draining
  <2>2. b.order \notin discarded => taken = b.order - 1
    BY <1>5, <2>1 DEF IInv, DiscardInv, CountInv
  <2>3. \A v \in Workers : worker'[v].pc = "dispatch" => v = w
    BY <1>7 DEF Draining
  <2>4. discarded = {} => taken = nNextReadOrderToProcess - 1
    BY <2>1 DEF IInv, CountInv
  <2>5. QED
    BY <1>1, <1>3, <2>1, <2>2, <2>3, <2>4 DEF CountInv
<1>14. QED
  BY <1>8, <1>9, <1>10, <1>11, <1>12, <1>13 DEF IInv

LEMMA GetBufferStep ==
  ASSUME IInv, NEW w \in Workers, GetBufferFromSortedReadedQueue(w)
  PROVE  IInv'
<1>1. /\ At(w, "get")
      /\ UNCHANGED <<kernelVars, nNextReadOrder, nNextReadOrderToProcess, discarded, discPc, nState,
                     taken, dispatched>>
  BY DEF GetBufferFromSortedReadedQueue, discVars
<1>2. CASE \E b \in readedQueue :
             /\ IsHead(b) /\ b.order = worker[w].arg
             /\ readedQueue' = readedQueue \ {b}
             /\ worker' = [worker EXCEPT ![w].pc = "dispatch", ![w].order = b.order, ![w].msg = b.msg]
  BY <1>1, <1>2, TakeHeadStep
<1>3. CASE readedQueue' = readedQueue /\ GoTo(w, "end")
  <2> DEFINE r == [worker[w] EXCEPT !.pc = "end"]
  <2>1. /\ discPc \in [Threads -> DiscStates] /\ worker[w] \in WorkerRecord
        /\ worker \in [Workers -> WorkerRecord]
    BY DEF IInv, OrderTypes, WorkerRecord
  <2>2. r \in WorkerRecord /\ r.pc = "end"
    BY <2>1 DEF WorkerRecord, WorkerStates
  <2>3. /\ worker' = [worker EXCEPT ![w] = r] /\ ~Carrying(w)
        /\ UNCHANGED <<kernelVars, orderVars, nState, taken, dispatched>> /\ discPc' = discPc
    BY <1>1, <1>3 DEF At, GoTo, Carrying, Holding, Draining, orderVars
  <2>4. QED
    BY <2>1, <2>2, <2>3, EmptyHandedStep
<1>4. QED
  BY <1>2, <1>3 DEF GetBufferFromSortedReadedQueue
\* One worker drains at a time.
LEMMA OnlyDrainer ==
  ASSUME QueueInv, NEW v \in Workers, NEW w \in Workers, Draining(v), Draining(w)
  PROVE  v = w
BY DEF QueueInv, Carrying

LEMMA DispatchStep ==
  ASSUME IInv, NEW w \in Workers, DispatchReadMessage(w)
  PROVE  /\ IInv'
         /\ \/ taken' = taken /\ dispatched' = dispatched
            \/ /\ taken < sent /\ taken' = taken + 1
               /\ \/ dispatched' = Append(dispatched, taken + 1) /\ worker'[w].pc = "increment"
                  \/ /\ taken + 1 \in RefusedMsgs /\ dispatched' = dispatched
                     /\ worker'[w].pc = "refused"
<1> DEFINE o == worker[w].order
           m == worker[w].msg
<1>0. PICK p \in {"increment", "refused"} :
        /\ worker' = [worker EXCEPT ![w].pc = p]
        /\ dispatched' \in {dispatched, Append(dispatched, m)}
        /\ o \in discarded => dispatched' = dispatched
        /\ o \notin discarded /\ p = "increment" => dispatched' = Append(dispatched, m)
        /\ p = "refused" => m \in RefusedMsgs /\ dispatched' = dispatched
  BY DEF DispatchReadMessage, GoTo
<1>1. /\ worker[w].pc = "dispatch" /\ worker' = [worker EXCEPT ![w].pc = p]
      /\ sent' = sent /\ pipe' = pipe /\ broken' = broken /\ posted' = posted /\ iocp' = iocp
      /\ nState' = nState /\ nNextReadOrder' = nNextReadOrder
      /\ nNextReadOrderToProcess' = nNextReadOrderToProcess
      /\ readedQueue' = readedQueue /\ discarded' = discarded
      /\ discPc' = discPc
      /\ taken' = IF o \in discarded THEN taken ELSE taken + 1
  BY <1>0 DEF DispatchReadMessage, At, GoTo, kernelVars, orderVars, discVars
<1>2. /\ OrderTypes /\ worker \in [Workers -> WorkerRecord] /\ o \in Nat /\ m \in Nat
      /\ nNextReadOrderToProcess \in Nat /\ taken \in Nat /\ dispatched \in Seq(Nat) /\ sent \in Nat
  BY DEF IInv, OrderTypes, WorkerRecord
<1>3. /\ worker'[w].pc = p /\ worker'[w].order = o /\ worker'[w].msg = m
      /\ worker' \in [Workers -> WorkerRecord]
      /\ \A v \in Workers \ {w} : worker'[v] = worker[v]
  BY <1>1, <1>2 DEF WorkerRecord, WorkerStates
<1>4. /\ QueueInv /\ MessageInv /\ CountInv
  BY DEF IInv
<1>5. Carrying(w) /\ Draining(w)
  BY <1>1 DEF Carrying, Draining
<1>6. o = nNextReadOrderToProcess /\ m = o /\ o >= 1 /\ o <= sent
  BY <1>4, <1>5 DEF QueueInv, MessageInv, IsMessage
<1>7. \A v \in Workers \ {w} : ~Draining(v)
  BY <1>4, <1>5, OnlyDrainer
<1>8. /\ \A v \in Workers : Carrying(v)' <=> Carrying(v)
      /\ \A v \in Workers : worker'[v].order = worker[v].order /\ worker'[v].msg = worker[v].msg
      /\ \A v \in Workers : Draining(v)' <=> Draining(v)
      /\ \A v \in Workers : Holding(v)' <=> Holding(v)
      /\ \A v \in Workers : worker'[v].pc = "get" => worker[v].pc = "get" /\ worker'[v] = worker[v]
  BY <1>1, <1>3 DEF Carrying, Holding, Draining
<1> HIDE DEF o, m
<1>9. /\ dispatched' \in Seq(Nat) /\ taken' \in Nat
      /\ o \notin discarded => taken = o - 1 /\ taken' = o
  <2>1. Append(dispatched, m) \in Seq(Nat)
    BY <1>2, AppendProperties
  <2>2. dispatched' \in Seq(Nat)
    BY <1>0, <1>2, <2>1, Zenon
  <2>3. o \notin discarded => taken = o - 1
    BY <1>1, <1>4 DEF CountInv, o
  <2>4. taken' \in Nat /\ (o \notin discarded => taken' = o)
    <3>1. CASE o \in discarded
      BY <1>1, <1>2, <3>1
    <3>2. CASE o \notin discarded
      BY <1>1, <1>2, <2>3, <3>2
    <3>3. QED
      BY <3>1, <3>2
  <2>5. QED
    BY <2>2, <2>3, <2>4
<1>10. OrderTypes'
  BY <1>1, <1>2, <1>3, <1>9 DEF OrderTypes, WorkerRecord
<1>11. PendingInv' /\ AscendInv'
  BY <1>1 DEF IInv, PendingInv, Dead, AscendInv, InPlay
<1>12. QueueInv'
  <2>1. \A x : Before(x) => Before(x)'
    BY <1>1 DEF Before, InPlay
  <2>2. ASSUME NEW v \in Workers, Carrying(v)', NEW x, x = worker'[v].order PROVE Before(x)'
    BY <1>4, <1>8, <2>1, <2>2 DEF QueueInv
  <2>3. QED
    BY <1>1, <1>4, <1>8, <2>1, <2>2 DEF QueueInv
<1>13. MessageInv'
  <2>1. \A x, y : IsMessage(x, y) => IsMessage(x, y)'
    BY <1>1 DEF IsMessage
  <2>2. ASSUME NEW v \in Workers, Carrying(v)', NEW x, x = worker'[v].order, NEW y, y = worker'[v].msg
        PROVE  IsMessage(x, y)'
    BY <1>4, <1>8, <2>1, <2>2 DEF MessageInv
  <2>3. QED
    BY <1>1, <1>4, <2>1, <2>2 DEF MessageInv
<1>14. DiscardInv'
  BY <1>1, <1>8 DEF IInv, DiscardInv
<1>15. CountInv'
  <2>1. \A v \in Workers : worker'[v].pc # "dispatch"
    BY <1>3, <1>7 DEF Draining
  <2>2. discarded = {} => taken' = nNextReadOrderToProcess
    BY <1>6, <1>9
  <2>3. QED
    BY <1>1, <1>3, <2>1, <2>2 DEF CountInv
<1>16. \/ taken' = taken /\ dispatched' = dispatched
       \/ /\ taken < sent /\ taken' = taken + 1
          /\ \/ dispatched' = Append(dispatched, taken + 1) /\ worker'[w].pc = "increment"
             \/ taken + 1 \in RefusedMsgs /\ dispatched' = dispatched /\ worker'[w].pc = "refused"
  <2>1. CASE o \in discarded
    BY <1>0, <1>1, <2>1
  <2>2. CASE o \notin discarded
    <3>1. m = taken + 1 /\ taken < sent /\ taken' = taken + 1
      BY <1>1, <1>2, <1>6, <1>9, <2>2
    <3>2. CASE p = "increment"
      BY <1>0, <1>3, <2>2, <3>1, <3>2
    <3>3. CASE p = "refused"
      BY <1>0, <1>3, <3>1, <3>3
    <3>4. QED
      BY <1>0, <3>2, <3>3
  <2>3. QED
    BY <2>1, <2>2
<1>17. QED
  BY <1>10, <1>11, <1>12, <1>13, <1>14, <1>15, <1>16 DEF IInv

\* Everybody else's number is above the one that was processed.
LEMMA IncrementStep ==
  ASSUME IInv, NEW w \in Workers, IncrementOrder(w)
  PROVE  IInv'
<1> DEFINE n == nNextReadOrderToProcess
<1>0. PICK p \in {"fetch", "error"} : worker' = [worker EXCEPT ![w].pc = p]
  BY DEF IncrementOrder, GoTo
<1>1. /\ worker[w].pc \in {"increment", "refused"} /\ worker' = [worker EXCEPT ![w].pc = p]
      /\ sent' = sent /\ pipe' = pipe /\ broken' = broken /\ posted' = posted /\ iocp' = iocp
      /\ nState' = nState /\ nNextReadOrder' = nNextReadOrder
      /\ nNextReadOrderToProcess' = n + 1
      /\ readedQueue' = readedQueue /\ discarded' = discarded /\ taken' = taken /\ dispatched' = dispatched
      /\ discPc' = discPc
  BY <1>0 DEF IncrementOrder, At, kernelVars, discVars
<1>2. /\ OrderTypes /\ worker \in [Workers -> WorkerRecord]
      /\ n \in Nat /\ nNextReadOrder \in Nat
      /\ \A b \in readedQueue : b.order \in Nat
      /\ \A v \in Workers : worker[v].order \in Nat /\ worker[v].arg \in Nat
      /\ \A i \in 1..Len(iocp) : iocp[i].order \in Nat
      /\ \A i \in 1..Len(posted) : posted[i] \in Nat
  BY Elements DEF IInv, OrderTypes, WorkerRecord
<1>3. /\ worker'[w].pc = p /\ worker' \in [Workers -> WorkerRecord]
      /\ \A v \in Workers \ {w} : worker'[v] = worker[v]
  BY <1>1, <1>2 DEF WorkerRecord, WorkerStates
<1>4. /\ QueueInv /\ AscendInv /\ CountInv
  BY DEF IInv
<1>5. Carrying(w) /\ Draining(w)
  BY <1>1 DEF Carrying, Draining
<1>6. worker[w].order = n
  BY <1>4, <1>5 DEF QueueInv
<1>7. \A v \in Workers \ {w} : ~Draining(v)
  BY <1>4, <1>5, OnlyDrainer
<1>8. /\ \A v \in Workers : ~Draining(v)'
      /\ \A v \in Workers : Carrying(v)' => v # w /\ Carrying(v) /\ worker'[v] = worker[v]
      /\ \A v \in Workers : Holding(v)' => Holding(v) /\ worker'[v] = worker[v]
      /\ \A v \in Workers : worker'[v].pc = "get" => worker[v].pc = "get" /\ worker'[v] = worker[v]
  BY <1>1, <1>3, <1>7 DEF Carrying, Holding, Draining
<1>9. \A x \in Nat : InPlay(x) /\ x # n => InPlay(x)'
  BY <1>1, <1>2 DEF InPlay
<1>10. OrderTypes'
  <2>1. nNextReadOrderToProcess' \in Nat
    BY <1>1, <1>2
  <2>2. QED
    BY <1>1, <1>2, <1>3, <2>1 DEF OrderTypes, WorkerRecord
<1>11. PendingInv'
  BY <1>1 DEF IInv, PendingInv, Dead
<1>12. Before(n)
  BY <1>4, <1>5, <1>6 DEF QueueInv
<1>13. AscendInv'
  <2>1. ASSUME NEW i \in 1..Len(posted), NEW x, x = posted[i] PROVE InPlay(x)'
    <3>1. x \in Nat /\ InPlay(x) /\ n < x
      BY <1>2, <1>4, <1>12, <2>1 DEF AscendInv, Before
    <3>2. QED
      BY <1>2, <1>9, <3>1
  <2>2. ASSUME NEW i \in 1..Len(iocp), NEW x, x = iocp[i].order PROVE InPlay(x)'
    <3>1. x \in Nat /\ InPlay(x) /\ n < x
      BY <1>2, <1>4, <1>12, <2>2 DEF AscendInv, Before
    <3>2. QED
      BY <1>2, <1>9, <3>1
  <2>3. 1 <= n + 1 /\ n + 1 <= nNextReadOrder + 1
    BY <1>2, <1>12 DEF Before, InPlay
  <2>4. QED
    BY <1>1, <1>4, <2>1, <2>2, <2>3 DEF AscendInv
<1>14. QueueInv'
  <2>1. ASSUME NEW x \in Nat, Before(x), x # n PROVE Before(x)'
    <3>1. InPlay(x)'
      BY <1>9, <2>1 DEF Before
    <3>2. QED
      BY <1>1, <2>1, <3>1 DEF Before
  <2>2. \A b \in readedQueue : b.order # n
    BY <1>4, <1>5, <1>6 DEF QueueInv
  <2>3. ASSUME NEW b \in readedQueue', NEW x, x = b.order PROVE Before(x)'
    BY <1>1, <1>2, <1>4, <2>1, <2>2, <2>3 DEF QueueInv
  <2>4. ASSUME NEW v \in Workers, Carrying(v)', NEW x, x = worker'[v].order PROVE Before(x)'
    <3>1. v # w /\ Carrying(v) /\ x = worker[v].order
      BY <1>8, <2>4
    <3>2. x # n /\ x \in Nat /\ Before(x)
      BY <1>2, <1>4, <1>5, <1>6, <3>1 DEF QueueInv
    <3>3. QED
      BY <2>1, <3>2
  <2>5. \A v \in Workers : worker'[v].pc = "get" => worker'[v].arg <= n + 1
    BY <1>2, <1>4, <1>8 DEF QueueInv
  <2>6. QED
    BY <1>1, <1>4, <1>8, <2>3, <2>4, <2>5 DEF QueueInv
<1>15. MessageInv'
  <2>1. \A x, y : IsMessage(x, y) => IsMessage(x, y)'
    BY <1>1 DEF IsMessage
  <2>2. QED
    BY <1>1, <1>8, <2>1 DEF IInv, MessageInv
<1>16. DiscardInv'
  BY <1>1, <1>8 DEF IInv, DiscardInv
<1>17. CountInv'
  <2>1. \A v \in Workers : worker'[v].pc \notin {"dispatch", "increment", "refused"}
    BY <1>8 DEF Draining
  <2>2. discarded = {} => taken = n
    BY <1>1, <1>4 DEF CountInv
  <2>3. QED
    BY <1>1, <1>2, <2>1, <2>2 DEF CountInv
<1>18. QED
  BY <1>10, <1>11, <1>13, <1>14, <1>15, <1>16, <1>17 DEF IInv
----------------------------------------------------------------------------
(* All the steps *)

\* A step that changes discPc at one thread only, and not to "discard".
LEMMA OneThreadStep ==
  ASSUME IInv, UNCHANGED orderAndWorkers, NEW t \in Threads, NEW s \in DiscStates \ {"discard"},
         discPc' = [discPc EXCEPT ![t] = s]
  PROVE  IInv'
<1>1. discPc \in [Threads -> DiscStates]
  BY DEF IInv, OrderTypes
<1>2. /\ discPc' \in [Threads -> DiscStates]
      /\ \A u \in Threads : discPc'[u] = "discard" => discPc[u] = "discard"
  BY <1>1
<1>3. QED
  BY <1>2, OtherStep

LEMMA SameDiscStep ==
  ASSUME IInv, UNCHANGED orderAndWorkers, discPc' = discPc
  PROVE  IInv'
BY OtherStep DEF IInv, OrderTypes

LEMMA DispatcherSteps ==
  ASSUME IInv, NEW d \in Dispatchers, DispatcherStep(d)
  PROVE  IInv' /\ UNCHANGED orderAndWorkers
<1> USE DEF orderAndWorkers, discVars
<1>1. CASE Wake(d) \/ TakeRound(d) \/ ProcessMessage(d) \/ EndRound(d)
  <2>1. UNCHANGED orderAndWorkers /\ discPc' = discPc
    BY <1>1 DEF Wake, TakeRound, ProcessMessage, EndRound
  <2>2. QED
    BY <2>1, SameDiscStep
<1>2. CASE ReleaseRound(d)
  <2>1. UNCHANGED orderAndWorkers
        /\ discPc' = [discPc EXCEPT ![d] = IF disp[d].failed THEN "enter" ELSE "none"]
    BY <1>2 DEF ReleaseRound
  <2>2. d \in Threads /\ {"enter", "none"} \subseteq DiscStates \ {"discard"}
    BY DEF Threads, DiscStates
  <2>3. QED
    BY <2>1, <2>2, OneThreadStep
<1>3. QED
  BY <1>1, <1>2 DEF DispatcherStep

LEMMA DisconnectSteps ==
  ASSUME IInv, NEW t \in Threads, DisconnectStep(t)
  PROVE  IInv'
<1>1. {"none", "done", "remove", "relock", "release", "unref", "leave"} \subseteq DiscStates \ {"discard"}
  BY DEF DiscStates
<1>2. Returned(t) \in {"none", "done"}
  BY DEF Returned
<1> USE DEF orderAndWorkers, DiscGoTo
<1>3. CASE DiscEnter(t)
  <2>1. UNCHANGED orderAndWorkers
    BY <1>3 DEF DiscEnter
  <2>2. CASE DiscGoTo(t, Returned(t))
    BY <1>1, <1>2, <2>1, <2>2, OneThreadStep
  <2>3. CASE DiscGoTo(t, "remove")
    BY <1>1, <2>1, <2>3, OneThreadStep
  <2>4. QED
    BY <1>3, <2>2, <2>3 DEF DiscEnter
<1>4. CASE RemoveConnection(t)
  BY <1>4, SameDiscStep DEF RemoveConnection
<1>5. CASE ShutdownConnection(t)
  BY <1>5, ShutdownConnectionStep
<1>6. CASE DiscardAllBuffers(t)
  BY <1>6, DiscardAllBuffersStep
<1>7. CASE ConnectionClosed(t)
  BY <1>1, <1>7, OneThreadStep DEF ConnectionClosed
<1>8. CASE DiscRelock(t)
  BY <1>1, <1>8, OneThreadStep DEF DiscRelock
<1>9. CASE ReleaseInitial(t)
  BY <1>1, <1>9, OneThreadStep DEF ReleaseInitial
<1>10. CASE DiscLeave(t)
  BY <1>1, <1>10, OneThreadStep DEF DiscLeave
<1>11. CASE DiscUnlock(t)
  BY <1>1, <1>2, <1>11, OneThreadStep DEF DiscUnlock
<1>12. QED
  BY <1>3, <1>4, <1>5, <1>6, <1>7, <1>8, <1>9, <1>10, <1>11 DEF DisconnectStep

\* Clients, Finalize and the destructor.
ClientStep ==
  \/ Destroy
  \/ \E t \in Disconnectors : CallDisconnectAgent(t)
  \/ \E s \in Senders : FindConnection(s) \/ ReleaseConnection(s)
  \/ \E t \in Finalizers : BeginFinalize(t) \/ PendingDrained(t) \/ ListEmpty(t)

LEMMA ClientSteps ==
  ASSUME IInv, ClientStep
  PROVE  IInv' /\ UNCHANGED <<sent, taken, dispatched>>
<1> USE DEF orderAndWorkers, discVars, kernelVars
<1>1. CASE Destroy
  BY <1>1, SameDiscStep DEF Destroy
<1>2. ASSUME NEW t \in Disconnectors, CallDisconnectAgent(t) PROVE IInv' /\ UNCHANGED <<sent, taken, dispatched>>
  <2>1. UNCHANGED orderAndWorkers
        /\ discPc' = [discPc EXCEPT ![t] = IF shuttingDown THEN "done" ELSE "enter"]
    BY <1>2 DEF CallDisconnectAgent, DiscGoTo
  <2>2. t \in Threads /\ {"done", "enter"} \subseteq DiscStates \ {"discard"}
    BY DEF Threads, DiscStates
  <2>3. QED
    BY <2>1, <2>2, OneThreadStep
<1>3. ASSUME NEW s \in Senders, FindConnection(s) \/ ReleaseConnection(s)
      PROVE  IInv' /\ UNCHANGED <<sent, taken, dispatched>>
  <2>1. UNCHANGED orderAndWorkers /\ discPc' = discPc
    BY <1>3 DEF FindConnection, ReleaseConnection
  <2>2. QED
    BY <2>1, SameDiscStep
<1>4. ASSUME NEW t \in Finalizers, BeginFinalize(t) \/ PendingDrained(t) \/ ListEmpty(t)
      PROVE  IInv' /\ UNCHANGED <<sent, taken, dispatched>>
  <2>1. UNCHANGED orderAndWorkers
    BY <1>4 DEF BeginFinalize, PendingDrained, ListEmpty
  <2>2. t \in Threads /\ "remove" \in DiscStates \ {"discard"}
    BY DEF Threads, DiscStates
  <2>3. discPc' = discPc \/ discPc' = [discPc EXCEPT ![t] = "remove"]
    BY <1>4 DEF BeginFinalize, PendingDrained, ListEmpty, DiscGoTo
  <2>4. QED
    BY <2>1, <2>2, <2>3, SameDiscStep, OneThreadStep
<1>5. QED
  BY <1>1, <1>2, <1>3, <1>4 DEF ClientStep

\* What a step does to the turns of the messages.
Turn(w) == /\ DispatchReadMessage(w)
           /\ taken < sent /\ taken' = taken + 1 /\ sent' = sent
           /\ \/ dispatched' = Append(dispatched, taken + 1) /\ worker'[w].pc = "increment"
              \/ taken + 1 \in RefusedMsgs /\ dispatched' = dispatched /\ worker'[w].pc = "refused"

ChannelStep == \/ UNCHANGED <<sent, taken, dispatched>>
               \/ AgentWrite
               \/ \E w \in Workers : Turn(w)

LEMMA NextStep ==
  ASSUME IInv, Next
  PROVE  IInv' /\ ChannelStep
<1> USE DEF ChannelStep, kernelVars
<1>1. CASE AgentWrite
  BY <1>1, AgentWriteStep DEF AgentWrite
<1>2. CASE AgentBreak
  BY <1>2, AgentBreakStep DEF AgentBreak
<1>3. CASE ReadCompletes
  BY <1>3, ReadCompletesStep DEF ReadCompletes
<1>4. CASE ReadsFail
  BY <1>4, ReadsFailStep DEF ReadsFail
<1>5. ASSUME NEW w \in Workers, WorkerStep(w) PROVE IInv' /\ ChannelStep
  <2>1. CASE Dequeue(w)
    BY <2>1, DequeueStep DEF Dequeue
  <2>2. CASE AddBufferInSortedReadedQueue(w)
    BY <2>2, AddBufferStep DEF AddBufferInSortedReadedQueue
  <2>3. CASE SendReadPacket(w)
    BY <2>3, SendReadPacketStep DEF SendReadPacket
  <2>4. CASE AddRefForRead(w) \/ FetchNextOrder(w) \/ WorkerError(w) \/ WorkerEnd(w)
    BY <2>4, EmptyHandedSteps DEF AddRefForRead, FetchNextOrder, WorkerError, WorkerEnd
  <2>5. CASE GetBufferFromSortedReadedQueue(w)
    BY <2>5, GetBufferStep DEF GetBufferFromSortedReadedQueue
  <2>6. CASE DispatchReadMessage(w)
    <3>1. sent' = sent
      BY <2>6 DEF DispatchReadMessage
    <3>2. QED
      BY <2>6, <3>1, DispatchStep DEF Turn
  <2>7. CASE IncrementOrder(w)
    BY <2>7, IncrementStep DEF IncrementOrder
  <2>8. QED
    BY <1>5, <2>1, <2>2, <2>3, <2>4, <2>5, <2>6, <2>7 DEF WorkerStep
<1>6. ASSUME NEW d \in Dispatchers, DispatcherStep(d) PROVE IInv' /\ ChannelStep
  BY <1>6, DispatcherSteps DEF orderAndWorkers
<1>7. ASSUME NEW t \in Threads, DisconnectStep(t) PROVE IInv' /\ ChannelStep
  <2>1. UNCHANGED <<sent, taken, dispatched>>
    BY <1>7 DEF DisconnectStep, DiscEnter, RemoveConnection, ShutdownConnection, DiscardAllBuffers,
                ConnectionClosed, DiscRelock, ReleaseInitial, DiscLeave, DiscUnlock
  <2>2. QED
    BY <1>7, <2>1, DisconnectSteps
<1>8. CASE ClientStep
  BY <1>8, ClientSteps
<1>9. QED
  BY <1>1, <1>2, <1>3, <1>4, <1>5, <1>6, <1>7, <1>8 DEF Next, ClientStep
----------------------------------------------------------------------------
(* The theorems *)

LEMMA StutterStep ==
  ASSUME IInv, UNCHANGED vars
  PROVE  IInv'
BY SameDiscStep DEF vars, orderAndWorkers, kernelVars, orderVars, discVars

LEMMA Invariant == Spec => []IInv
<1>1. IInv /\ [Next]_vars => IInv'
  BY NextStep, StutterStep
<1>2. QED
  BY InitIInv, <1>1, PTL DEF Spec

\* Only one worker is ever past the sorted queue: nNextReadOrderToProcess,
\* which is incremented without a lock, has one writer at a time.
THEOREM DispatchOneAtATime == Spec => []OneDrainer
<1>1. IInv => OneDrainer
  BY OnlyDrainer DEF IInv, OneDrainer, Draining
<1>2. QED
  BY Invariant, <1>1, PTL

----------------------------------------------------------------------------
(* One callback for each connection *)

Closing(t) == discPc[t] \in {"discard", "callback"}

\* The thread that found nState "connected" is the one that calls back.
ClosingInv ==
  /\ discPc \in [Threads -> DiscStates] /\ closedCalls \in Nat
  /\ nState \in {"connected", "destroying"}
  /\ nState = "connected" => closedCalls = 0
  /\ closedCalls <= 1
  /\ \A t \in Threads : Closing(t) => nState = "destroying" /\ closedCalls = 0
  /\ \A t, u \in Threads : Closing(t) /\ Closing(u) => t = u

\* A step by which no thread gets closer to the callback.
LEMMA ClosingKept ==
  ASSUME ClosingInv, discPc' \in [Threads -> DiscStates], closedCalls' = closedCalls,
         nState' = nState, \A t \in Threads : Closing(t)' => Closing(t)
  PROVE  ClosingInv'
BY DEF ClosingInv

LEMMA ClosingOneThread ==
  ASSUME ClosingInv, NEW t \in Threads, NEW s \in DiscStates,
         s \notin {"discard", "callback"} \/ Closing(t),
         discPc' = [discPc EXCEPT ![t] = s], closedCalls' = closedCalls, nState' = nState
  PROVE  ClosingInv'
<1>1. discPc' \in [Threads -> DiscStates] /\ \A u \in Threads : Closing(u)' => Closing(u)
  BY DEF ClosingInv, Closing
<1>2. QED
  BY <1>1, ClosingKept

LEMMA ClosingDisconnect ==
  ASSUME ClosingInv, NEW t \in Threads, DisconnectStep(t)
  PROVE  ClosingInv'
<1> USE DEF DiscGoTo
<1>1. {"none", "done", "remove", "callback", "relock", "release", "unref", "leave"} \subseteq DiscStates
  BY DEF DiscStates
<1>2. Returned(t) \in {"none", "done"}
  BY DEF Returned
<1>3. CASE DiscEnter(t)
  <2>1. nState' = nState /\ closedCalls' = closedCalls
        /\ (discPc' = [discPc EXCEPT ![t] = Returned(t)] \/ discPc' = [discPc EXCEPT ![t] = "remove"])
    BY <1>3 DEF DiscEnter
  <2>2. QED
    BY <1>1, <1>2, <2>1, ClosingOneThread
<1>4. CASE RemoveConnection(t)
  BY <1>4, ClosingKept DEF RemoveConnection, ClosingInv, Closing
<1>5. CASE ShutdownConnection(t)
  <2>1. CASE nState = "destroying"
    BY <1>1, <1>5, <2>1, ClosingOneThread DEF ShutdownConnection
  <2>2. CASE nState # "destroying"
    <3>1. nState' = "destroying" /\ discPc' = [discPc EXCEPT ![t] = "discard"] /\ closedCalls' = closedCalls
      BY <1>5, <2>2 DEF ShutdownConnection
    <3>2. closedCalls = 0 /\ \A u \in Threads : ~Closing(u)
      BY <2>2 DEF ClosingInv
    <3>3. \A u \in Threads : Closing(u)' => u = t
      BY <3>1, <3>2 DEF ClosingInv, Closing
    <3>4. discPc' \in [Threads -> DiscStates]
      BY <3>1 DEF ClosingInv, DiscStates
    <3>5. QED
      BY <3>1, <3>2, <3>3, <3>4 DEF ClosingInv
  <2>3. QED
    BY <2>1, <2>2
<1>6. CASE DiscardAllBuffers(t)
  <2>1. Closing(t) /\ nState' = nState /\ closedCalls' = closedCalls
        /\ (discPc' = [discPc EXCEPT ![t] = "release"] \/ discPc' = [discPc EXCEPT ![t] = "callback"])
    BY <1>6 DEF DiscardAllBuffers, DiscAt, Closing
  <2>2. QED
    BY <1>1, <2>1, ClosingOneThread
<1>7. CASE ConnectionClosed(t)
  <2>1. Closing(t) /\ closedCalls' = closedCalls + 1 /\ nState' = nState
        /\ discPc' = [discPc EXCEPT ![t] = "relock"]
    BY <1>7 DEF ConnectionClosed, DiscAt, Closing
  <2>2. /\ closedCalls' = 1 /\ nState = "destroying"
    BY <2>1 DEF ClosingInv
  <2>3. \A u \in Threads : ~Closing(u)'
    BY <2>1 DEF ClosingInv, Closing
  <2>4. discPc' \in [Threads -> DiscStates]
    BY <1>1, <2>1 DEF ClosingInv
  <2>5. QED
    BY <2>1, <2>2, <2>3, <2>4 DEF ClosingInv
<1>8. CASE DiscRelock(t)
  BY <1>1, <1>8, ClosingOneThread DEF DiscRelock
<1>9. CASE ReleaseInitial(t)
  BY <1>1, <1>9, ClosingOneThread DEF ReleaseInitial
<1>10. CASE DiscLeave(t)
  BY <1>1, <1>10, ClosingOneThread DEF DiscLeave
<1>11. CASE DiscUnlock(t)
  BY <1>1, <1>2, <1>11, ClosingOneThread DEF DiscUnlock
<1>12. QED
  BY <1>3, <1>4, <1>5, <1>6, <1>7, <1>8, <1>9, <1>10, <1>11 DEF DisconnectStep

\* Every other step leaves nState and closedCalls alone, and no thread enters
\* DisconnectAgent past its beginning but the one that finalizes.
LEMMA ClosingOthers ==
  ASSUME ClosingInv, Next \/ UNCHANGED vars, ~\E t \in Threads : DisconnectStep(t)
  PROVE  ClosingInv'
<1>1. nState' = nState /\ closedCalls' = closedCalls
  BY DEF Next, vars, discVars, AgentWrite, AgentBreak, ReadCompletes, ReadsFail, Destroy,
         WorkerStep, Dequeue, AddBufferInSortedReadedQueue, SendReadPacket, AddRefForRead, FetchNextOrder,
         GetBufferFromSortedReadedQueue, DispatchReadMessage, IncrementOrder, WorkerError, WorkerEnd,
         DispatcherStep, Wake, TakeRound, ProcessMessage, EndRound, ReleaseRound,
         CallDisconnectAgent, FindConnection, ReleaseConnection, BeginFinalize, PendingDrained, ListEmpty
<1>2. \/ discPc' = discPc
      \/ \E t \in Threads, s \in {"none", "enter", "done", "remove"} : discPc' = [discPc EXCEPT ![t] = s]
  <2>1. ASSUME NEW w \in Workers, WorkerStep(w)
        PROVE  discPc' = discPc \/ discPc' = [discPc EXCEPT ![w] = "enter"]
    BY <2>1 DEF discVars,
         WorkerStep, Dequeue, AddBufferInSortedReadedQueue, SendReadPacket, AddRefForRead, FetchNextOrder,
         GetBufferFromSortedReadedQueue, DispatchReadMessage, IncrementOrder, WorkerError, WorkerEnd
  <2>2. ASSUME NEW d \in Dispatchers, DispatcherStep(d)
        PROVE  \/ discPc' = discPc
               \/ discPc' = [discPc EXCEPT ![d] = "enter"] \/ discPc' = [discPc EXCEPT ![d] = "none"]
    BY <2>2 DEF discVars, DispatcherStep, Wake, TakeRound, ProcessMessage, EndRound, ReleaseRound
  <2>3. ASSUME NEW t \in Disconnectors, CallDisconnectAgent(t)
        PROVE  discPc' = [discPc EXCEPT ![t] = "enter"] \/ discPc' = [discPc EXCEPT ![t] = "done"]
    BY <2>3 DEF CallDisconnectAgent, DiscGoTo
  <2>4. ASSUME NEW t \in Finalizers, BeginFinalize(t) \/ PendingDrained(t) \/ ListEmpty(t)
        PROVE  discPc' = discPc \/ discPc' = [discPc EXCEPT ![t] = "remove"]
    BY <2>4 DEF discVars, BeginFinalize, PendingDrained, ListEmpty, DiscGoTo
  <2>5. ASSUME AgentWrite \/ AgentBreak \/ ReadCompletes \/ ReadsFail \/ Destroy \/ UNCHANGED vars
               \/ (\E s \in Senders : FindConnection(s) \/ ReleaseConnection(s))
        PROVE  discPc' = discPc
    BY <2>5 DEF vars, discVars, AgentWrite, AgentBreak, ReadCompletes, ReadsFail, Destroy,
                FindConnection, ReleaseConnection
  <2>6. Workers \subseteq Threads /\ Dispatchers \subseteq Threads /\ Disconnectors \subseteq Threads
        /\ Finalizers \subseteq Threads
    BY DEF Threads
  <2>7. QED
    BY <2>1, <2>2, <2>3, <2>4, <2>5, <2>6 DEF Next
<1>3. {"none", "enter", "done", "remove"} \subseteq DiscStates \ {"discard", "callback"}
  BY DEF DiscStates
<1>4. QED
  BY <1>1, <1>2, <1>3, ClosingOneThread, ClosingKept DEF ClosingInv, Closing

\* However many threads meet an error or disconnect at the same time, the spy
\* manager hears of it at most once (TEC_OnConnectionClosed).
THEOREM ConnectionClosedOnce == Spec => []ClosedOnce
<1>1. Init => ClosingInv
  BY DEF Init, ClosingInv, Closing, DiscStates
<1>2. ClosingInv /\ [Next]_vars => ClosingInv'
  BY ClosingDisconnect, ClosingOthers
<1>3. ClosingInv => ClosedOnce
  BY DEF ClosingInv, ClosedOnce
<1>4. QED
  BY <1>1, <1>2, <1>3, PTL DEF Spec
----------------------------------------------------------------------------
(* Wake-ups *)

DispatcherShapes ==
  /\ queue = [d \in Dispatchers |-> queue[d]]
  /\ hEvent = [d \in Dispatchers |-> hEvent[d]]
  /\ disp = [d \in Dispatchers |-> disp[d]]
  /\ \A d \in Dispatchers : "pc" \in DOMAIN disp[d] /\ disp[d].pc \in {"wait", "take", "process", "release"}

WakeInv == DispatcherShapes /\ NoLostWakeup

LEMMA WakeDispatcher ==
  ASSUME WakeInv, NEW d \in Dispatchers, DispatcherStep(d)
  PROVE  WakeInv'
<1> USE DEF WakeInv, DispatcherShapes
<1>1. \A e \in Dispatchers \ {d} : disp'[e] = disp[e] /\ queue'[e] = queue[e] /\ hEvent'[e] = hEvent[e]
  BY DEF DispatcherStep, Wake, TakeRound, ProcessMessage, EndRound, ReleaseRound
<1>2. CASE Wake(d)
  BY <1>1, <1>2 DEF Wake, NoLostWakeup
<1>3. CASE TakeRound(d)
  <2>1. CASE queue[d] = <<>>
    BY <1>1, <1>3, <2>1 DEF TakeRound, NoLostWakeup
  <2>2. CASE queue[d] # <<>>
    BY <1>1, <1>3, <2>2 DEF TakeRound, NoLostWakeup
  <2>3. QED
    BY <2>1, <2>2
<1>4. CASE ProcessMessage(d)
  <2>1. PICK failed : disp' = [disp EXCEPT ![d].done = @ + 1, ![d].failed = failed]
    BY <1>4 DEF ProcessMessage
  <2>2. disp'[d].pc = "process" /\ "pc" \in DOMAIN disp'[d] /\ queue' = queue /\ hEvent' = hEvent
    BY <1>4, <2>1 DEF ProcessMessage, DispAt
  <2>3. QED
    BY <1>1, <2>1, <2>2 DEF NoLostWakeup
<1>5. CASE EndRound(d)
  <2>1. disp'[d].pc = "release" /\ "pc" \in DOMAIN disp'[d] /\ hEvent' = hEvent
    BY <1>5 DEF EndRound
  <2>2. QED
    BY <1>1, <1>5, <2>1 DEF EndRound, NoLostWakeup
<1>6. CASE ReleaseRound(d)
  BY <1>1, <1>6 DEF ReleaseRound, NoLostWakeup
<1>7. QED
  BY <1>2, <1>3, <1>4, <1>5, <1>6 DEF DispatcherStep

\* A dispatcher that went to wait before a message was queued for it finds its
\* event set: the queue is filled before SetEvent, emptied after ResetEvent.
THEOREM DispatchersWoken == Spec => []NoLostWakeup
<1>1. Init => WakeInv
  BY DEF Init, WakeInv, DispatcherShapes, NoLostWakeup
<1>2. ASSUME WakeInv, [Next]_vars PROVE WakeInv'
  <2> USE DEF WakeInv, DispatcherShapes
  <2>1. ASSUME UNCHANGED dispVars PROVE WakeInv'
    BY <1>2, <2>1 DEF dispVars, NoLostWakeup
  <2>2. ASSUME NEW w \in Workers, DispatchReadMessage(w) PROVE WakeInv'
    <3> DEFINE d == DispatcherOf[Tid[worker[w].msg]]
    <3>1. CASE UNCHANGED dispVars
      BY <2>1, <3>1
    <3>2. CASE /\ queue' = [queue EXCEPT ![d] = Append(@, worker[w].msg)]
               /\ hEvent' = [hEvent EXCEPT ![d] = TRUE]
               /\ disp' = disp
      <4> HIDE DEF d
      <4>1. \A e \in Dispatchers : hEvent'[e] \/ (hEvent'[e] = hEvent[e] /\ queue'[e] = queue[e])
        BY <1>2, <3>2
      <4>2. QED
        BY <1>2, <3>2, <4>1 DEF NoLostWakeup
    <3>3. QED
      BY <2>2, <3>1, <3>2 DEF DispatchReadMessage, dispVars
  <2>3. ASSUME NEW t \in Threads, RemoveConnection(t) PROVE WakeInv'
    <3>1. PICK d \in toClear[t] : queue' = [queue EXCEPT ![d] = <<>>]
      BY <2>3 DEF RemoveConnection
    <3>2. hEvent' = hEvent /\ disp' = disp
      BY <2>3 DEF RemoveConnection
    <3>3. \A e \in Dispatchers : queue'[e] = <<>> \/ queue'[e] = queue[e]
      BY <1>2, <3>1
    <3>4. QED
      BY <1>2, <3>1, <3>2, <3>3 DEF NoLostWakeup
  <2>4. ASSUME NEW w \in Workers, WorkerStep(w), ~DispatchReadMessage(w) PROVE WakeInv'
    BY <2>1, <2>4 DEF dispVars, WorkerStep, Dequeue, AddBufferInSortedReadedQueue, SendReadPacket,
         AddRefForRead, FetchNextOrder, GetBufferFromSortedReadedQueue, IncrementOrder, WorkerError, WorkerEnd
  <2>5. ASSUME NEW t \in Threads, DisconnectStep(t), ~RemoveConnection(t) PROVE WakeInv'
    BY <2>1, <2>5 DEF dispVars, DisconnectStep, DiscEnter, ShutdownConnection, DiscardAllBuffers,
         ConnectionClosed, DiscRelock, ReleaseInitial, DiscLeave, DiscUnlock
  <2>6. ASSUME ClientStep \/ AgentWrite \/ AgentBreak \/ ReadCompletes \/ ReadsFail \/ UNCHANGED vars
        PROVE  WakeInv'
    BY <2>1, <2>6 DEF dispVars, vars, ClientStep, AgentWrite, AgentBreak, ReadCompletes, ReadsFail, Destroy,
         CallDisconnectAgent, FindConnection, ReleaseConnection, BeginFinalize, PendingDrained, ListEmpty
  <2>7. QED
    BY <1>2, <2>2, <2>3, <2>4, <2>5, <2>6, WakeDispatcher DEF Next, ClientStep
<1>3. QED
  BY <1>1, <1>2, PTL DEF Spec, WakeInv
----------------------------------------------------------------------------
(* Sequences *)

\* Taking a sequence apart and putting it together again.
LEMMA SplitSeq ==
  ASSUME NEW S, NEW q \in Seq(S), NEW n \in 0..Len(q)
  PROVE  /\ SubSeq(q, 1, n) \in Seq(S) /\ Len(SubSeq(q, 1, n)) = n
         /\ SubSeq(q, n + 1, Len(q)) \in Seq(S) /\ Len(SubSeq(q, n + 1, Len(q))) = Len(q) - n
         /\ SubSeq(q, 1, n) \o SubSeq(q, n + 1, Len(q)) = q
<1>1. Len(q) \in Nat /\ \A i \in 1..Len(q) : q[i] \in S
  BY LenProperties, ElementOfSeq
<1>2. SubSeq(q, 1, n) \in Seq(S) /\ Len(SubSeq(q, 1, n)) = n
  <2>1. \A i \in 1..n : q[i] \in S
    BY <1>1
  <2>2. /\ SubSeq(q, 1, n) \in Seq(S)
        /\ Len(SubSeq(q, 1, n)) = IF 1 <= n THEN n - 1 + 1 ELSE 0
    BY <1>1, <2>1, SubSeqProperties
  <2>3. QED
    BY <1>1, <2>2
<1>3. /\ SubSeq(q, n + 1, Len(q)) \in Seq(S)
      /\ Len(SubSeq(q, n + 1, Len(q))) = Len(q) - n
  <2>1. \A i \in n + 1..Len(q) : q[i] \in S
    BY <1>1
  <2>2. /\ SubSeq(q, n + 1, Len(q)) \in Seq(S)
        /\ Len(SubSeq(q, n + 1, Len(q))) = IF n + 1 <= Len(q) THEN Len(q) - (n + 1) + 1 ELSE 0
    BY <1>1, <2>1, SubSeqProperties
  <2>3. QED
    BY <1>1, <2>2
<1>4. SubSeq(q, 1, n) \o SubSeq(q, n + 1, Len(q)) = SubSeq(q, 1, Len(q))
  <2>1. 1 \in 1..Len(q) + 1 /\ n \in 1 - 1..Len(q) /\ Len(q) \in n..Len(q)
    BY <1>1
  <2>2. QED
    BY <2>1, ConcatAdjacentSubSeq
<1>5. QED
  BY <1>2, <1>3, <1>4, SubSeqFull

\* Concatenations can be bracketed either way.
LEMMA Associative ==
  ASSUME NEW S, NEW s \in Seq(S), NEW t \in Seq(S), NEW u \in Seq(S)
  PROVE  (s \o t) \o u = s \o (t \o u)
BY ConcatAssociative

\* The next element moves from the rest of one sequence to the end of another.
LEMMA MoveNext ==
  ASSUME NEW S, NEW h \in Seq(S), NEW b \in Seq(S), NEW k \in Nat, k < Len(b)
  PROVE  /\ b[k + 1] \in S
         /\ Append(h, b[k + 1]) \o SubSeq(b, k + 2, Len(b)) = h \o SubSeq(b, k + 1, Len(b))
<1>1. Len(b) \in Nat /\ k + 1 \in 1..Len(b) /\ k + 1 \in 0..Len(b) /\ Len(b) \in k + 1..Len(b)
  BY LenProperties
<1>2. b[k + 1] \in S
  BY <1>1, ElementOfSeq
<1>3. SubSeq(b, k + 2, Len(b)) \in Seq(S)
  <2>1. SubSeq(b, (k + 1) + 1, Len(b)) \in Seq(S)
    BY <1>1, SplitSeq
  <2>2. (k + 1) + 1 = k + 2
    OBVIOUS
  <2>3. QED
    BY <2>1, <2>2
<1>4. SubSeq(b, k + 1, Len(b)) = <<b[k + 1]>> \o SubSeq(b, k + 2, Len(b))
  <2>1. SubSeq(b, k + 1, Len(b)) = <<b[k + 1]>> \o SubSeq(b, (k + 1) + 1, Len(b))
    BY <1>1, SubSeqRecursiveFirst
  <2>2. (k + 1) + 1 = k + 2
    OBVIOUS
  <2>3. QED
    BY <2>1, <2>2
<1>5. <<b[k + 1]>> \in Seq(S)
  BY <1>2
<1>6. (h \o <<b[k + 1]>>) \o SubSeq(b, k + 2, Len(b)) = h \o (<<b[k + 1]>> \o SubSeq(b, k + 2, Len(b)))
  <2>1. PICK t \in Seq(S), u \in Seq(S) : t = <<b[k + 1]>> /\ u = SubSeq(b, k + 2, Len(b))
    BY <1>3, <1>5, Zenon
  <2>2. (h \o t) \o u = h \o (t \o u)
    BY Associative, SMTT(30)
  <2>3. QED
    BY <2>1, <2>2, Zenon
<1>7. Append(h, b[k + 1]) = h \o <<b[k + 1]>>
  BY <1>2, AppendIsConcat
<1>8. QED
  BY <1>2, <1>4, <1>6, <1>7

\* Nothing comes after the last element.
LEMMA NoRest ==
  ASSUME NEW S, NEW b \in Seq(S)
  PROVE  SubSeq(b, Len(b) + 1, Len(b)) = <<>>
<1>1. Len(b) \in Nat
  BY LenProperties
<1>2. Len(b) + 1 \in Int /\ Len(b) \in Int /\ Len(b) < Len(b) + 1
  BY <1>1
<1>3. QED
  BY <1>2, SubSeqEmpty

\* A sequence that grows at its end by something greater still increases ...
LEMMA IncreasingAppend ==
  ASSUME NEW q \in Seq(Nat), NEW m \in Nat, Increasing(q), \A i \in 1..Len(q) : q[i] < m
  PROVE  Increasing(Append(q, m))
<1>1. /\ Append(q, m) \in Seq(Nat) /\ Len(q) \in Nat
      /\ Len(Append(q, m)) = Len(q) + 1
      /\ \A i \in 1..Len(q) : Append(q, m)[i] = q[i]
      /\ Append(q, m)[Len(q) + 1] = m
  BY AppendProperties, LenProperties
<1>2. DOMAIN q = 1..Len(q) /\ DOMAIN Append(q, m) = 1..Len(q) + 1
  BY <1>1, LenProperties
<1>3. ASSUME NEW i \in 1..Len(q) + 1, NEW j \in 1..Len(q) + 1, i < j
      PROVE  Append(q, m)[i] < Append(q, m)[j]
  <2>1. i \in 1..Len(q)
    BY <1>1, <1>3
  <2>2. CASE j \in 1..Len(q)
    BY <1>1, <1>2, <1>3, <2>1, <2>2 DEF Increasing
  <2>3. CASE j = Len(q) + 1
    BY <1>1, <2>1, <2>3
  <2>4. QED
    BY <1>1, <2>2, <2>3
<1>4. QED
  BY <1>2, <1>3 DEF Increasing

\* ... and so does one that loses its end.
LEMMA IncreasingPrefix ==
  ASSUME NEW q \in Seq(Nat), NEW r \in Seq(Nat), Increasing(q \o r)
  PROVE  Increasing(q)
<1>1. /\ Len(q) \in Nat /\ Len(r) \in Nat
      /\ DOMAIN q = 1..Len(q)
      /\ q \o r \in Seq(Nat) /\ Len(q \o r) = Len(q) + Len(r)
      /\ \A i \in 1..Len(q) + Len(r) : (q \o r)[i] = IF i <= Len(q) THEN q[i] ELSE r[i - Len(q)]
  BY ConcatProperties, LenProperties
<1>2. DOMAIN (q \o r) = 1..Len(q) + Len(r)
  BY <1>1, LenProperties
<1>3. \A i \in 1..Len(q) : i \in 1..Len(q) + Len(r) /\ (q \o r)[i] = q[i]
  BY <1>1
<1>4. QED
  BY <1>1, <1>2, <1>3 DEF Increasing

----------------------------------------------------------------------------
(* The dispatchers *)

\* A set of natural numbers that is not empty has a least one.
LEMMA LeastNumber ==
  ASSUME NEW T \in SUBSET Nat, T # {}
  PROVE  \E n \in T : \A k \in T : n <= k
<1>1. \E n \in T : \A k \in T : ~(<<k, n>> \in OpToRel(<, Nat))
  BY NatLessThanWellFounded, WFMin
<1>2. PICK n \in T : \A k \in T : ~(<<k, n>> \in OpToRel(<, Nat))
  BY <1>1
<1>3. ASSUME NEW k \in T PROVE n <= k
  <2>1. n \in Nat /\ k \in Nat
    OBVIOUS
  <2>2. CASE k < n
    <3>1. <<k, n>> \in Nat \X Nat /\ <<k, n>>[1] < <<k, n>>[2]
      BY <2>1, <2>2
    <3>2. <<k, n>> \in {ss \in Nat \X Nat : ss[1] < ss[2]}
      BY <3>1
    <3>3. QED
      BY <1>2, <3>2 DEF OpToRel
  <2>3. QED
    BY <2>1, <2>2
<1>4. QED
  BY <1>3

\* A round takes at least one message of a queue that is not empty, and no
\* more than there are.
LEMMA RoundExists ==
  ASSUME NEW S, NEW q \in Seq(S), q # <<>>
  PROVE  RoundSize(q) \in 1..Len(q)
<1> DEFINE T == {n \in 1..Len(q) : n = Len(q) \/ n = MessagesPerRound \/ ~SameRound(q[1], q[n + 1])}
<1>1. Len(q) \in Nat \ {0} /\ MessagesPerRound \in Nat \ {0}
  BY EmptySeq, ConstantsAssumption
<1>2. T \in SUBSET Nat /\ T # {}
  BY <1>1
<1>3. PICK n \in T : \A k \in T : n <= k
  BY <1>2, LeastNumber
<1>4. n \in 1..Len(q) /\ \A k \in 1..n - 1 : k \notin T
  BY <1>1, <1>3
<1>5. ASSUME NEW i \in 1..n PROVE SameRound(q[1], q[i])
  <2>1. CASE i = 1
    BY <2>1 DEF SameRound
  <2>2. CASE i # 1
    <3>1. i - 1 \in 1..n - 1 /\ (i - 1) + 1 = i /\ i - 1 \in 1..Len(q)
      BY <1>1, <1>4, <2>2
    <3>2. QED
      BY <1>4, <3>1
  <2>3. QED
    BY <2>1, <2>2
<1>6. n <= MessagesPerRound
  <2>1. ASSUME MessagesPerRound < n PROVE FALSE
    <3>1. MessagesPerRound \in 1..n - 1 /\ MessagesPerRound \in 1..Len(q)
      BY <1>1, <1>4, <2>1
    <3>2. QED
      BY <1>4, <3>1
  <2>2. QED
    BY <1>1, <1>4, <2>1
<1>7. n < Len(q) /\ n < MessagesPerRound => ~SameRound(q[1], q[n + 1])
  BY <1>1, <1>3
<1>8. \E x \in 1..Len(q) : /\ x <= MessagesPerRound
                           /\ \A i \in 1..x : SameRound(q[1], q[i])
                           /\ x < Len(q) /\ x < MessagesPerRound => ~SameRound(q[1], q[x + 1])
  BY <1>4, <1>5, <1>6, <1>7
<1>9. QED
  BY <1>8 DEF RoundSize

DispRecord == [pc : {"wait", "take", "process", "release"}, batch : Seq(Msgs), done : Nat, failed : BOOLEAN]

DispTypes ==
  /\ queue \in [Dispatchers -> Seq(Msgs)] /\ hEvent \in [Dispatchers -> BOOLEAN]
  /\ disp \in [Dispatchers -> DispRecord] /\ handled \in [Dispatchers -> Seq(Msgs)]

\* What a dispatcher holds of a round, by where it is in its loop.
RoundInv(d) ==
  /\ disp[d].pc \in {"wait", "take"} => disp[d].batch = <<>> /\ disp[d].done = 0
  /\ disp[d].done <= Len(disp[d].batch)
  /\ disp[d].pc = "release" => disp[d].done = Len(disp[d].batch)

DispInv == DispTypes /\ \A d \in Dispatchers : RoundInv(d)

\* What TEC_OnAgentMessage got and what it will get from a dispatcher, if
\* nothing more comes.
Stream(d) == handled[d] \o SubSeq(disp[d].batch, disp[d].done + 1, Len(disp[d].batch)) \o queue[d]

OnlyAt(d) == \A e \in Dispatchers \ {d} : queue'[e] = queue[e] /\ disp'[e] = disp[e] /\ handled'[e] = handled[e]

\* Streams can be bracketed either way.
LEMMA MsgsAssociative ==
  \A s, t, u \in Seq(Msgs) : (s \o t) \o u = s \o (t \o u)
BY ConcatAssociative

\* The parts of a dispatcher's state, one by one.
LEMMA DispatcherParts ==
  ASSUME DispInv, NEW d \in Dispatchers
  PROVE  /\ queue[d] \in Seq(Msgs) /\ Len(queue[d]) \in Nat
         /\ handled[d] \in Seq(Msgs) /\ Len(handled[d]) \in Nat
         /\ disp[d].batch \in Seq(Msgs) /\ Len(disp[d].batch) \in Nat
         /\ disp[d] \in DispRecord
         /\ disp[d].done \in 0..Len(disp[d].batch)
         /\ SubSeq(disp[d].batch, disp[d].done + 1, Len(disp[d].batch)) \in Seq(Msgs)
         /\ Stream(d) \in Seq(Msgs) /\ Held(d) \in Nat
<1>1. /\ queue[d] \in Seq(Msgs) /\ handled[d] \in Seq(Msgs) /\ disp[d] \in DispRecord
      /\ disp[d].batch \in Seq(Msgs) /\ disp[d].done \in Nat
  BY DEF DispInv, DispTypes, DispRecord
<1>2. Len(queue[d]) \in Nat /\ Len(handled[d]) \in Nat /\ Len(disp[d].batch) \in Nat
  BY <1>1, LenProperties
<1>3. disp[d].done \in 0..Len(disp[d].batch)
  BY <1>1, <1>2 DEF DispInv, RoundInv
<1>4. SubSeq(disp[d].batch, disp[d].done + 1, Len(disp[d].batch)) \in Seq(Msgs)
  BY <1>1, <1>3, SplitSeq
<1>5. Stream(d) \in Seq(Msgs)
  BY <1>1, <1>4, ConcatProperties DEF Stream
<1>6. Held(d) \in Nat
  <2>1. \A m, n \in Nat : m + n \in Nat
    OBVIOUS
  <2>2. QED
    BY <1>2, <2>1, Zenon DEF Held
<1>7. QED
  BY <1>1, <1>2, <1>3, <1>4, <1>5, <1>6

\* The invariant of a dispatcher after a step that changes only this one.
LEMMA DispInvAt ==
  ASSUME DispInv, NEW d \in Dispatchers, OnlyAt(d),
         hEvent' \in [Dispatchers -> BOOLEAN],
         NEW q \in Seq(Msgs), queue' = [queue EXCEPT ![d] = q],
         NEW r \in DispRecord, disp' = [disp EXCEPT ![d] = r],
         NEW h \in Seq(Msgs), handled' = [handled EXCEPT ![d] = h],
         r.pc \in {"wait", "take"} => r.batch = <<>> /\ r.done = 0,
         r.done <= Len(r.batch),
         r.pc = "release" => r.done = Len(r.batch)
  PROVE  DispInv'
<1>1. DispTypes'
  BY DEF DispInv, DispTypes
<1>2. disp'[d] = r
  BY DEF DispInv, DispTypes
<1>3. \A e \in Dispatchers : RoundInv(e)'
  BY <1>2 DEF DispInv, RoundInv, OnlyAt
<1>4. QED
  BY <1>1, <1>3 DEF DispInv

\* A step that leaves what a dispatcher holds, and in which order, as it was.
Rearranged(d) == DispInv' /\ OnlyAt(d) /\ Stream(d)' = Stream(d) /\ Held(d)' = Held(d)

\* CheckForAbort returns, ResetEvent.
LEMMA WakeDoes ==
  ASSUME DispInv, NEW d \in Dispatchers, Wake(d)
  PROVE  Rearranged(d)
<1>1. /\ disp[d].pc = "wait" /\ queue' = queue /\ handled' = handled
      /\ hEvent' = [hEvent EXCEPT ![d] = FALSE] /\ disp' = [disp EXCEPT ![d].pc = "take"]
  BY DEF Wake, DispAt
<1>2. /\ disp \in [Dispatchers -> DispRecord] /\ queue \in [Dispatchers -> Seq(Msgs)]
      /\ handled \in [Dispatchers -> Seq(Msgs)] /\ hEvent \in [Dispatchers -> BOOLEAN]
  BY DEF DispInv, DispTypes
<1> DEFINE r == [disp[d] EXCEPT !.pc = "take"]
<1>3. r \in DispRecord /\ r.pc = "take" /\ r.batch = disp[d].batch /\ r.done = disp[d].done
  BY <1>2 DEF DispRecord
<1>4. disp' = [disp EXCEPT ![d] = r] /\ disp'[d] = r /\ OnlyAt(d)
  BY <1>1, <1>2 DEF OnlyAt
<1> HIDE DEF r
<1>5. /\ queue[d] \in Seq(Msgs) /\ queue' = [queue EXCEPT ![d] = queue[d]]
      /\ handled[d] \in Seq(Msgs) /\ handled' = [handled EXCEPT ![d] = handled[d]]
      /\ hEvent' \in [Dispatchers -> BOOLEAN]
  BY <1>1, <1>2
<1>6. r.batch = <<>> /\ r.done = 0 /\ r.done <= Len(r.batch)
  BY <1>1, <1>3 DEF DispInv, RoundInv
<1>7. DispInv'
  BY <1>3, <1>4, <1>5, <1>6, DispInvAt
<1>8. QED
  BY <1>1, <1>3, <1>4, <1>7 DEF Rearranged, Stream, Held

\* The messages of a round come off the front of the queue.
LEMMA TakeRoundDoes ==
  ASSUME DispInv, NEW d \in Dispatchers, TakeRound(d)
  PROVE  Rearranged(d)
<1>1. /\ disp[d].pc = "take" /\ handled' = handled /\ hEvent' = hEvent
  BY DEF TakeRound, DispAt
<1>2. /\ disp \in [Dispatchers -> DispRecord] /\ queue \in [Dispatchers -> Seq(Msgs)]
      /\ handled \in [Dispatchers -> Seq(Msgs)] /\ hEvent \in [Dispatchers -> BOOLEAN]
  BY DEF DispInv, DispTypes
<1>3. disp[d].batch = <<>> /\ disp[d].done = 0 /\ Len(<<>>) = 0 /\ <<>> \in Seq(Msgs)
  BY <1>1, EmptySeq DEF DispInv, RoundInv
<1>4. queue[d] \in Seq(Msgs) /\ handled[d] \in Seq(Msgs) /\ Len(queue[d]) \in Nat
  BY DispatcherParts
<1>5. handled' = [handled EXCEPT ![d] = handled[d]] /\ handled'[d] = handled[d]
  BY <1>1, <1>2
<1>6. Stream(d) = handled[d] \o queue[d]
  <2>1. SubSeq(<<>>, Len(<<>>) + 1, Len(<<>>)) = <<>>
    BY <1>3, NoRest
  <2>2. SubSeq(disp[d].batch, disp[d].done + 1, Len(disp[d].batch)) = <<>>
    BY <1>3, <2>1
  <2>3. handled[d] \o <<>> = handled[d]
    BY <1>4, ConcatEmptySeq
  <2>4. QED
    BY <2>2, <2>3 DEF Stream
<1>7. CASE queue[d] = <<>>
  <2> DEFINE r == [disp[d] EXCEPT !.pc = "wait"]
  <2>1. r \in DispRecord /\ r.pc = "wait" /\ r.batch = disp[d].batch /\ r.done = disp[d].done
    BY <1>2 DEF DispRecord
  <2>2. disp' = [disp EXCEPT ![d].pc = "wait"] /\ queue' = queue
    BY <1>7 DEF TakeRound
  <2>3. /\ disp' = [disp EXCEPT ![d] = r] /\ disp'[d] = r /\ OnlyAt(d)
        /\ queue' = [queue EXCEPT ![d] = queue[d]]
    BY <1>1, <1>2, <2>2 DEF OnlyAt
  <2> HIDE DEF r
  <2>a. r.done <= Len(r.batch) /\ r.batch = <<>> /\ r.done = 0 /\ hEvent' \in [Dispatchers -> BOOLEAN]
    BY <1>1, <1>2, <1>3, <2>1
  <2>4. DispInv'
    BY <1>4, <1>5, <2>1, <2>a, <2>3, DispInvAt
  <2>5. QED
    BY <1>5, <2>1, <2>2, <2>3, <2>4 DEF Rearranged, Stream, Held
<1>8. CASE queue[d] # <<>>
  <2>1. PICK n \in 1..Len(queue[d]) :
          /\ disp' = [disp EXCEPT ![d] = [pc |-> "process", batch |-> SubSeq(queue[d], 1, n),
                                          done |-> 0, failed |-> FALSE]]
          /\ queue' = [queue EXCEPT ![d] = SubSeq(queue[d], n + 1, Len(queue[d]))]
    <3>1. RoundSize(queue[d]) \in 1..Len(queue[d])
      BY <1>4, <1>8, RoundExists
    <3>2. /\ disp' = [disp EXCEPT ![d] = [pc |-> "process", batch |-> SubSeq(queue[d], 1, RoundSize(queue[d])),
                                          done |-> 0, failed |-> FALSE]]
          /\ queue' = [queue EXCEPT ![d] = SubSeq(queue[d], RoundSize(queue[d]) + 1, Len(queue[d]))]
      BY <1>8 DEF TakeRound
    <3>3. QED
      BY <3>1, <3>2
  <2> DEFINE b == SubSeq(queue[d], 1, n)
             q == SubSeq(queue[d], n + 1, Len(queue[d]))
             r == [pc |-> "process", batch |-> b, done |-> 0, failed |-> FALSE]
  <2>2. /\ b \in Seq(Msgs) /\ Len(b) = n /\ q \in Seq(Msgs) /\ Len(q) = Len(queue[d]) - n
        /\ b \o q = queue[d]
    <3>1. n \in 0..Len(queue[d])
      BY <1>4
    <3>2. QED
      BY <1>4, <3>1, SplitSeq
  <2> HIDE DEF b, q
  <2>3. r \in DispRecord /\ r.pc = "process" /\ r.batch = b /\ r.done = 0
    BY <2>2 DEF DispRecord
  <2>4. disp' = [disp EXCEPT ![d] = r] /\ queue' = [queue EXCEPT ![d] = q]
    BY <2>1 DEF b, q
  <2> HIDE DEF r
  <2>5. disp'[d] = r /\ queue'[d] = q /\ OnlyAt(d)
    BY <1>1, <1>2, <2>4 DEF OnlyAt
  <2>6. 0 <= Len(b)
    BY <2>2
  <2>7. DispInv'
    BY <1>1, <1>2, <1>4, <1>5, <2>2, <2>3, <2>4, <2>5, <2>6, DispInvAt
  <2>8. SubSeq(b, 0 + 1, Len(b)) = b
    <3>1. SubSeq(b, 1, Len(b)) = b /\ 0 + 1 = 1
      BY <2>2, SubSeqFull
    <3>2. QED
      BY <3>1
  <2>9. Stream(d)' = (handled[d] \o b) \o q
    BY <1>5, <2>3, <2>5, <2>8, Zenon DEF Stream
  <2>10. (handled[d] \o b) \o q = handled[d] \o (b \o q)
    BY <1>4, <2>2, MsgsAssociative, Zenon
  <2>11. Held(d)' = Len(q) + Len(b)
    BY <2>3, <2>5 DEF Held
  <2>12. Held(d) = Len(queue[d]) + 0
    BY <1>3 DEF Held
  <2>13. QED
    BY <1>4, <1>6, <2>2, <2>5, <2>7, <2>9, <2>10, <2>11, <2>12 DEF Rearranged
<1>9. QED
  BY <1>7, <1>8

\* The next message of the round goes to TEC_OnAgentMessage.
LEMMA ProcessMessageDoes ==
  ASSUME DispInv, NEW d \in Dispatchers, ProcessMessage(d)
  PROVE  Rearranged(d)
<1> DEFINE b == disp[d].batch
           k == disp[d].done
           m == b[k + 1]
<1>1. PICK failed \in BOOLEAN :
        /\ disp[d].pc = "process" /\ k < Len(b)
        /\ queue' = queue /\ hEvent' = hEvent
        /\ handled' = [handled EXCEPT ![d] = Append(@, m)]
        /\ disp' = [disp EXCEPT ![d].done = @ + 1, ![d].failed = failed]
  BY DEF ProcessMessage, DispAt
<1>2. /\ disp \in [Dispatchers -> DispRecord] /\ queue \in [Dispatchers -> Seq(Msgs)]
      /\ handled \in [Dispatchers -> Seq(Msgs)] /\ hEvent \in [Dispatchers -> BOOLEAN]
  BY DEF DispInv, DispTypes
<1>3. /\ b \in Seq(Msgs) /\ Len(b) \in Nat /\ k \in Nat /\ handled[d] \in Seq(Msgs)
      /\ queue[d] \in Seq(Msgs)
  BY DispatcherParts
<1> DEFINE r == [disp[d] EXCEPT !.done = k + 1, !.failed = failed]
           h == Append(handled[d], m)
<1>4. r \in DispRecord /\ r.pc = "process" /\ r.batch = b /\ r.done = k + 1
  <2>1. disp[d] \in DispRecord /\ disp[d].pc = "process" /\ k + 1 \in Nat
    BY <1>1, <1>2, <1>3
  <2>2. \A n \in Nat : [disp[d] EXCEPT !.done = n, !.failed = failed] \in DispRecord
    BY <2>1 DEF DispRecord
  <2>3. \A n : LET s == [disp[d] EXCEPT !.done = n, !.failed = failed]
               IN  s.pc = disp[d].pc /\ s.batch = disp[d].batch /\ s.done = n
    BY <2>1 DEF DispRecord
  <2>4. QED
    BY <2>1, <2>2, <2>3
<1>5. /\ m \in Msgs
      /\ h \o SubSeq(b, k + 2, Len(b)) = handled[d] \o SubSeq(b, k + 1, Len(b))
  BY <1>1, <1>3, MoveNext
<1>6. h \in Seq(Msgs)
  BY <1>3, <1>5, AppendProperties
<1>7. disp' = [disp EXCEPT ![d] = r] /\ handled' = [handled EXCEPT ![d] = h]
  BY <1>1, <1>2
<1> HIDE DEF r, h
<1>8. disp'[d] = r /\ handled'[d] = h /\ OnlyAt(d) /\ queue' = [queue EXCEPT ![d] = queue[d]]
  BY <1>1, <1>2, <1>7 DEF OnlyAt
<1>9. r.done <= Len(r.batch) /\ hEvent' \in [Dispatchers -> BOOLEAN]
  BY <1>1, <1>2, <1>3, <1>4
<1>10. DispInv'
  BY <1>3, <1>4, <1>6, <1>7, <1>8, <1>9, DispInvAt
<1>11. SubSeq(r.batch, r.done + 1, Len(r.batch)) = SubSeq(b, k + 2, Len(b))
  <2>1. (k + 1) + 1 = k + 2
    BY <1>3
  <2>2. QED
    BY <1>4, <2>1, Zenon
<1>12. Stream(d)' = (h \o SubSeq(b, k + 2, Len(b))) \o queue[d]
  BY <1>1, <1>8, <1>11 DEF Stream
<1>13. Held(d)' = Held(d)
  BY <1>1, <1>4, <1>8 DEF Held
<1>14. QED
  BY <1>5, <1>8, <1>10, <1>12, <1>13 DEF Rearranged, Stream

\* The rest of the round goes back in front of the queue.
LEMMA EndRoundDoes ==
  ASSUME DispInv, NEW d \in Dispatchers, EndRound(d)
  PROVE  Rearranged(d)
<1> DEFINE b == disp[d].batch
           k == disp[d].done
           done == SubSeq(b, 1, k)
           rest == SubSeq(b, k + 1, Len(b))
           q == rest \o queue[d]
           r == [disp[d] EXCEPT !.pc = "release", !.batch = done]
<1>1. /\ queue' = [queue EXCEPT ![d] = rest \o @]
      /\ disp' = [disp EXCEPT ![d].pc = "release", ![d].batch = SubSeq(@, 1, k)]
      /\ hEvent' = hEvent /\ handled' = handled
  BY DEF EndRound
<1>2. /\ disp \in [Dispatchers -> DispRecord] /\ queue \in [Dispatchers -> Seq(Msgs)]
      /\ handled \in [Dispatchers -> Seq(Msgs)] /\ hEvent \in [Dispatchers -> BOOLEAN]
  BY DEF DispInv, DispTypes
<1>3. /\ b \in Seq(Msgs) /\ Len(b) \in Nat /\ k \in 0..Len(b) /\ handled[d] \in Seq(Msgs)
      /\ queue[d] \in Seq(Msgs) /\ Len(queue[d]) \in Nat
  BY DispatcherParts
<1>4. /\ done \in Seq(Msgs) /\ Len(done) = k
      /\ rest \in Seq(Msgs) /\ Len(rest) = Len(b) - k
  BY <1>3, SplitSeq
<1>5. q \in Seq(Msgs) /\ Len(q) = Len(rest) + Len(queue[d])
  BY <1>3, <1>4, ConcatProperties
<1>6. r \in DispRecord /\ r.pc = "release" /\ r.batch = done /\ r.done = k
  BY <1>2, <1>4 DEF DispRecord
<1>7. disp' = [disp EXCEPT ![d] = r] /\ queue' = [queue EXCEPT ![d] = q]
  BY <1>1, <1>2
<1> HIDE DEF r, q, done
<1>8. disp'[d] = r /\ queue'[d] = q /\ OnlyAt(d) /\ handled' = [handled EXCEPT ![d] = handled[d]]
  BY <1>1, <1>2, <1>7 DEF OnlyAt
<1>9. r.done = Len(r.batch) /\ r.done <= Len(r.batch) /\ hEvent' \in [Dispatchers -> BOOLEAN]
  BY <1>1, <1>2, <1>3, <1>4, <1>6
<1>10. DispInv'
  BY <1>3, <1>5, <1>6, <1>7, <1>8, <1>9, DispInvAt
<1>11. SubSeq(r.batch, r.done + 1, Len(r.batch)) = <<>>
  BY <1>4, <1>6, <1>9, NoRest
<1>12. handled[d] \o <<>> = handled[d]
  BY <1>3, ConcatEmptySeq
<1>13. Stream(d)' = handled[d] \o q
  BY <1>1, <1>8, <1>11, <1>12 DEF Stream
<1>14. Stream(d) = (handled[d] \o rest) \o queue[d]
  BY DEF Stream
<1>15. (handled[d] \o rest) \o queue[d] = handled[d] \o (rest \o queue[d])
  BY <1>3, <1>4, MsgsAssociative, Zenon
<1>16. Held(d)' = Len(q) + Len(done)
  BY <1>6, <1>8 DEF Held
<1>17. Held(d) = Len(queue[d]) + Len(b)
  BY DEF Held
<1>18. Held(d)' = Held(d)
  <2> HIDE DEF rest, b, k
  <2>1. QED
    BY <1>3, <1>4, <1>5, <1>16, <1>17
<1>19. QED
  BY <1>8, <1>10, <1>13, <1>14, <1>15, <1>18 DEF Rearranged, q

\* The dispatcher gives up what it processed, one reference for each.
LEMMA ReleaseRoundDoes ==
  ASSUME DispInv, NEW d \in Dispatchers, ReleaseRound(d)
  PROVE  /\ DispInv' /\ OnlyAt(d) /\ Stream(d)' = Stream(d)
         /\ Held(d)' = Held(d) - disp[d].done
<1> DEFINE r == [pc |-> "take", batch |-> <<>>, done |-> 0, failed |-> FALSE]
           b == disp[d].batch
<1>1. /\ disp[d].pc = "release" /\ queue' = queue /\ hEvent' = hEvent /\ handled' = handled
      /\ disp' = [disp EXCEPT ![d] = r]
  BY DEF ReleaseRound, DispAt
<1>2. /\ disp \in [Dispatchers -> DispRecord] /\ queue \in [Dispatchers -> Seq(Msgs)]
      /\ handled \in [Dispatchers -> Seq(Msgs)] /\ hEvent \in [Dispatchers -> BOOLEAN]
  BY DEF DispInv, DispTypes
<1>3. /\ b \in Seq(Msgs) /\ Len(b) \in Nat /\ handled[d] \in Seq(Msgs)
      /\ queue[d] \in Seq(Msgs) /\ Len(queue[d]) \in Nat
      /\ <<>> \in Seq(Msgs) /\ Len(<<>>) = 0
  BY DispatcherParts, EmptySeq
<1>4. disp[d].done = Len(b)
  BY <1>1 DEF DispInv, RoundInv
<1>5. r \in DispRecord /\ r.pc = "take" /\ r.batch = <<>> /\ r.done = 0 /\ r.done <= Len(r.batch)
  BY <1>3 DEF DispRecord
<1> HIDE DEF r
<1>6. /\ disp'[d] = r /\ OnlyAt(d)
      /\ handled' = [handled EXCEPT ![d] = handled[d]] /\ queue' = [queue EXCEPT ![d] = queue[d]]
      /\ hEvent' \in [Dispatchers -> BOOLEAN]
  BY <1>1, <1>2 DEF OnlyAt
<1>7. DispInv'
  BY <1>1, <1>3, <1>5, <1>6, DispInvAt
<1>8. SubSeq(b, Len(b) + 1, Len(b)) = <<>> /\ SubSeq(<<>>, Len(<<>>) + 1, Len(<<>>)) = <<>>
  BY <1>3, NoRest
<1>9. SubSeq(r.batch, r.done + 1, Len(r.batch)) = <<>>
  BY <1>3, <1>5, <1>8
<1>10. SubSeq(disp[d].batch, disp[d].done + 1, Len(disp[d].batch)) = <<>>
  BY <1>4, <1>8
<1>11. Stream(d)' = Stream(d)
  BY <1>1, <1>6, <1>9, <1>10 DEF Stream
<1>12. Held(d)' = Len(queue[d]) + 0
  BY <1>1, <1>3, <1>5, <1>6 DEF Held
<1>13. Held(d) = Len(queue[d]) + Len(b)
  BY DEF Held
<1>14. QED
  BY <1>3, <1>4, <1>6, <1>7, <1>11, <1>12, <1>13

\* A step that touches no dispatcher.
LEMMA DispatchersKept ==
  ASSUME DispInv, UNCHANGED dispVars
  PROVE  DispInv' /\ InDispatch' = InDispatch /\ \A d \in Dispatchers : Stream(d)' = Stream(d)
<1> USE DEF dispVars
<1>1. DispInv'
  BY DEF DispInv, DispTypes, RoundInv
<1>2. InDispatch' = InDispatch
  BY DEF InDispatch, Held
<1>3. \A d \in Dispatchers : Stream(d)' = Stream(d)
  BY DEF Stream
<1>4. QED
  BY <1>1, <1>2, <1>3

\* The message a worker dispatches is the one after the last one whose turn came.
LEMMA DispatchDoes ==
  ASSUME IInv, DispInv, NEW w \in Workers, DispatchReadMessage(w)
  PROVE  \/ UNCHANGED <<dispVars, dispatched, refVars>> /\ taken' \in {taken, taken + 1}
         \/ \E d \in Dispatchers :
              LET m == worker[w].msg
              IN  /\ DispInv' /\ OnlyAt(d) /\ AddRef
                  /\ m \in Msgs /\ m = taken + 1 /\ taken' = taken + 1 /\ dispatched' = Append(dispatched, m)
                  /\ Stream(d)' = Append(Stream(d), m) /\ Held(d)' = Held(d) + 1
<1>1. CASE UNCHANGED <<dispVars, dispatched, refVars>>
  BY <1>1 DEF DispatchReadMessage
<1>2. CASE ~UNCHANGED <<dispVars, dispatched, refVars>>
  <2>a. PICK m : m = worker[w].msg
    OBVIOUS
  <2>b. PICK d : d = DispatcherOf[Tid[m]]
    OBVIOUS
  <2>1. /\ worker[w].pc = "dispatch" /\ worker[w].order \notin discarded /\ AddRef
        /\ queue' = [queue EXCEPT ![d] = Append(@, m)] /\ hEvent' = [hEvent EXCEPT ![d] = TRUE]
        /\ dispatched' = Append(dispatched, m) /\ disp' = disp /\ handled' = handled
        /\ taken' = taken + 1
    BY <1>2, <2>a, <2>b DEF DispatchReadMessage, At, dispVars
  <2>2. /\ IsMessage(worker[w].order, m) /\ taken = worker[w].order - 1
        /\ worker[w].order \in Nat /\ taken \in Nat /\ sent \in 0..NMsgs
    BY <2>a, <2>1 DEF IInv, MessageInv, CountInv, OrderTypes, Carrying, Draining
  <2>3. m \in Msgs /\ m = taken + 1
    BY <2>2, ConstantsAssumption DEF IsMessage, Msgs
  <2>4. d \in Dispatchers
    BY <2>3, <2>b, ConstantsAssumption
  <2>c. PICK q : q = Append(queue[d], m)
    OBVIOUS
  <2>5. /\ disp \in [Dispatchers -> DispRecord] /\ queue \in [Dispatchers -> Seq(Msgs)]
        /\ handled \in [Dispatchers -> Seq(Msgs)] /\ hEvent \in [Dispatchers -> BOOLEAN]
    BY DEF DispInv, DispTypes
  <2>6. q \in Seq(Msgs) /\ Len(q) = Len(queue[d]) + 1
    BY <2>3, <2>4, <2>5, <2>c, AppendProperties
  <2>7. /\ queue'[d] = q /\ queue' = [queue EXCEPT ![d] = q]
        /\ OnlyAt(d) /\ hEvent' \in [Dispatchers -> BOOLEAN]
    BY <2>1, <2>4, <2>5, <2>c DEF OnlyAt
  <2>8. /\ disp[d] \in DispRecord /\ disp' = [disp EXCEPT ![d] = disp[d]]
        /\ handled[d] \in Seq(Msgs) /\ handled' = [handled EXCEPT ![d] = handled[d]]
    BY <2>1, <2>4, <2>5
  <2>9. DispInv'
    BY <2>4, <2>6, <2>7, <2>8, DispInvAt DEF DispInv, RoundInv
  <2> DEFINE r == SubSeq(disp[d].batch, disp[d].done + 1, Len(disp[d].batch))
             h == handled[d] \o r
  <2>10. r \in Seq(Msgs) /\ queue[d] \in Seq(Msgs) /\ Len(queue[d]) \in Nat /\ Len(disp[d].batch) \in Nat
    BY <2>4, DispatcherParts
  <2>11. h \in Seq(Msgs)
    BY <2>8, <2>10, ConcatProperties
  <2>12. Stream(d)' = h \o q
    BY <2>1, <2>7 DEF Stream
  <2>13. Stream(d) = h \o queue[d] /\ Stream(d) \in Seq(Msgs)
    BY <2>4, DispatcherParts DEF Stream
  <2> HIDE DEF r, h
  <2>14. q = queue[d] \o <<m>> /\ <<m>> \in Seq(Msgs)
    BY <2>3, <2>10, <2>c, AppendIsConcat
  <2>15. Append(Stream(d), m) = Stream(d) \o <<m>>
    BY <2>3, <2>13, AppendIsConcat
  <2>16. (h \o queue[d]) \o <<m>> = h \o (queue[d] \o <<m>>)
    BY <2>10, <2>11, <2>14, MsgsAssociative, Zenon
  <2>17. Stream(d)' = Append(Stream(d), m)
    BY <2>12, <2>13, <2>14, <2>15, <2>16
  <2>18. Held(d)' = Held(d) + 1
    <3>1. Held(d)' = Len(q) + Len(disp[d].batch) /\ Held(d) = Len(queue[d]) + Len(disp[d].batch)
      BY <2>1, <2>7 DEF Held
    <3>2. \A x, y \in Nat : (x + 1) + y = (x + y) + 1
      OBVIOUS
    <3>3. (Len(queue[d]) + 1) + Len(disp[d].batch) = (Len(queue[d]) + Len(disp[d].batch)) + 1
      BY <2>10, <3>2, Zenon
    <3>4. QED
      BY <2>6, <3>1, <3>3, Zenon
  <2>19. \E e \in Dispatchers :
              /\ DispInv' /\ OnlyAt(e) /\ AddRef
              /\ m \in Msgs /\ m = taken + 1 /\ taken' = taken + 1 /\ dispatched' = Append(dispatched, m)
              /\ Stream(e)' = Append(Stream(e), m) /\ Held(e)' = Held(e) + 1
    BY <2>1, <2>3, <2>4, <2>7, <2>9, <2>17, <2>18
  <2>20. QED
    BY <2>a, <2>19
<1>3. QED
  BY <1>1, <1>2

\* Removing the connection's messages from a dispatcher's queue.
LEMMA ClearDoes ==
  ASSUME DispInv, NEW d \in Dispatchers, queue' = [queue EXCEPT ![d] = <<>>],
         UNCHANGED <<hEvent, disp, handled>>
  PROVE  /\ DispInv' /\ OnlyAt(d)
         /\ Held(d)' = Held(d) - Len(queue[d])
         /\ Stream(d)' \in Seq(Msgs) /\ Stream(d) = Stream(d)' \o queue[d]
<1>1. /\ disp \in [Dispatchers -> DispRecord] /\ queue \in [Dispatchers -> Seq(Msgs)]
      /\ handled \in [Dispatchers -> Seq(Msgs)] /\ hEvent' \in [Dispatchers -> BOOLEAN]
  BY DEF DispInv, DispTypes
<1>2. <<>> \in Seq(Msgs) /\ Len(<<>>) = 0
  BY EmptySeq
<1>3. queue'[d] = <<>> /\ OnlyAt(d)
  BY <1>1 DEF OnlyAt
<1>4. /\ disp[d] \in DispRecord /\ disp' = [disp EXCEPT ![d] = disp[d]]
      /\ handled[d] \in Seq(Msgs) /\ handled' = [handled EXCEPT ![d] = handled[d]]
  BY <1>1
<1>5. DispInv'
  BY <1>1, <1>2, <1>3, <1>4, DispInvAt DEF DispInv, RoundInv
<1> DEFINE r == SubSeq(disp[d].batch, disp[d].done + 1, Len(disp[d].batch))
           h == handled[d] \o r
<1>6. /\ r \in Seq(Msgs) /\ queue[d] \in Seq(Msgs) /\ Len(queue[d]) \in Nat
      /\ Len(disp[d].batch) \in Nat
  BY DispatcherParts
<1>7. h \in Seq(Msgs)
  BY <1>4, <1>6, ConcatProperties
<1>8. h \o <<>> = h
  BY <1>7, ConcatEmptySeq
<1>9. Stream(d)' = h
  BY <1>3, <1>8 DEF Stream
<1>10. Stream(d) = h \o queue[d]
  BY DEF Stream
<1>11. Held(d)' = Held(d) - Len(queue[d])
  <2>1. Held(d)' = 0 + Len(disp[d].batch) /\ Held(d) = Len(queue[d]) + Len(disp[d].batch)
    BY <1>2, <1>3 DEF Held
  <2>2. QED
    BY <1>6, <2>1
<1>12. QED
  BY <1>3, <1>5, <1>7, <1>9, <1>10, <1>11

----------------------------------------------------------------------------
(* Messages are handled in order *)

StreamInv ==
  \A d \in Dispatchers : /\ Increasing(Stream(d))
                         /\ \A i \in 1..Len(Stream(d)) : Stream(d)[i] <= taken

\* A dispatcher that only moves its messages keeps their order.
LEMMA StreamSame ==
  ASSUME IInv, DispInv, StreamInv, taken' \in {taken, taken + 1}, \A d \in Dispatchers : Stream(d)' = Stream(d)
  PROVE  StreamInv'
<1>1. ASSUME NEW d \in Dispatchers, NEW i \in 1..Len(Stream(d)) PROVE Stream(d)[i] <= taken'
  <2>1. Stream(d) \in Seq(Msgs) /\ Stream(d)[i] \in Msgs /\ taken \in Nat
    BY DispatcherParts, ElementOfSeq DEF IInv, OrderTypes
  <2>2. Stream(d)[i] \in Nat /\ Stream(d)[i] <= taken
    BY <2>1 DEF Msgs, StreamInv
  <2>3. QED
    BY <2>1, <2>2
<1>2. QED
  BY <1>1 DEF StreamInv, Increasing

\* The message dispatched is greater than all that came before.
LEMMA StreamDispatch ==
  ASSUME IInv, DispInv, StreamInv, NEW w \in Workers, DispatchReadMessage(w)
  PROVE  DispInv' /\ StreamInv'
<1> DEFINE m == worker[w].msg
<1>1. CASE UNCHANGED <<dispVars, dispatched, refVars>> /\ taken' \in {taken, taken + 1}
  BY <1>1, DispatchersKept, StreamSame
<1>2. ASSUME NEW d \in Dispatchers,
             DispInv' /\ OnlyAt(d),
             m \in Msgs /\ m = taken + 1 /\ taken' = taken + 1,
             Stream(d)' = Append(Stream(d), m)
      PROVE  DispInv' /\ StreamInv'
  <2> HIDE DEF m
  <2>1. Msgs \subseteq Nat /\ m \in Nat
    BY <1>2 DEF Msgs
  <2>2. Stream(d) \in Seq(Nat) /\ Len(Stream(d)) \in Nat
    <3>1. Stream(d) \in Seq(Msgs)
      BY DispatcherParts
    <3>2. QED
      BY <2>1, <3>1, SeqMonotonic, LenProperties
  <2>3. taken \in Nat /\ taken' = taken + 1
    BY <1>2 DEF IInv, OrderTypes
  <2>4. \A i \in 1..Len(Stream(d)) : Stream(d)[i] \in Nat /\ Stream(d)[i] < m
    BY <1>2, <2>2, <2>3, ElementOfSeq DEF StreamInv
  <2>5. Increasing(Stream(d)')
    <3>1. Increasing(Append(Stream(d), m))
      BY <2>1, <2>2, <2>4, IncreasingAppend DEF StreamInv
    <3>2. QED
      BY <1>2, <3>1
  <2>6. ASSUME NEW i \in 1..Len(Stream(d)') PROVE Stream(d)'[i] <= taken'
    <3>1. /\ Len(Append(Stream(d), m)) = Len(Stream(d)) + 1
          /\ \A j \in 1..Len(Stream(d)) : Append(Stream(d), m)[j] = Stream(d)[j]
          /\ Append(Stream(d), m)[Len(Stream(d)) + 1] = m
      BY <2>1, <2>2, AppendProperties
    <3>2. i \in 1..Len(Stream(d)) + 1
      BY <1>2, <2>6, <3>1
    <3>3. CASE i \in 1..Len(Stream(d))
      BY <1>2, <2>1, <2>3, <2>4, <3>1, <3>3
    <3>4. CASE i = Len(Stream(d)) + 1
      BY <1>2, <2>1, <2>3, <3>1, <3>4
    <3>5. QED
      BY <2>2, <3>2, <3>3, <3>4
  <2>7. ASSUME NEW e \in Dispatchers \ {d}
        PROVE  Increasing(Stream(e)') /\ \A i \in 1..Len(Stream(e)') : Stream(e)'[i] <= taken'
    <3>1. Stream(e)' = Stream(e)
      BY <1>2 DEF OnlyAt, Stream
    <3>2. Stream(e) \in Seq(Msgs)
      BY DispatcherParts
    <3>3. ASSUME NEW i \in 1..Len(Stream(e)) PROVE Stream(e)[i] <= taken'
      <4>1. Stream(e)[i] \in Nat
        BY <2>1, <3>2, ElementOfSeq
      <4>2. Stream(e)[i] <= taken
        BY DEF StreamInv
      <4>3. QED
        BY <2>3, <4>1, <4>2
    <3>4. QED
      BY <3>1, <3>3 DEF StreamInv
  <2>8. StreamInv'
    <3>1. ASSUME NEW e \in Dispatchers
          PROVE  Increasing(Stream(e)') /\ \A i \in 1..Len(Stream(e)') : Stream(e)'[i] <= taken'
      BY <2>5, <2>6, <2>7
    <3>2. QED
      BY <3>1 DEF StreamInv, Increasing
  <2>9. QED
    BY <1>2, <2>8
<1>3. QED
  BY <1>1, <1>2, DispatchDoes

\* Removing messages from a queue takes away the end.
LEMMA StreamClear ==
  ASSUME DispInv, StreamInv, taken' = taken,
         NEW d \in Dispatchers, queue' = [queue EXCEPT ![d] = <<>>], UNCHANGED <<hEvent, disp, handled>>
  PROVE  DispInv' /\ StreamInv'
<1>1. /\ DispInv' /\ OnlyAt(d) /\ Stream(d)' \in Seq(Msgs) /\ queue[d] \in Seq(Msgs)
      /\ Stream(d) = Stream(d)' \o queue[d]
  BY ClearDoes, DispatcherParts
<1>2. Stream(d)' \in Seq(Nat) /\ queue[d] \in Seq(Nat)
  <2>1. ASSUME NEW s \in Seq(Msgs) PROVE s \in Seq(Nat)
    <3>1. Msgs \subseteq Nat
      BY DEF Msgs
    <3>2. QED
      BY <3>1, SeqMonotonic
  <2>2. QED
    BY <1>1, <2>1
<1>3. Increasing(Stream(d) ')
  BY <1>1, <1>2, IncreasingPrefix DEF StreamInv
<1>4. /\ Len(Stream(d)') \in Nat /\ Len(queue[d]) \in Nat
      /\ Len(Stream(d)' \o queue[d]) = Len(Stream(d)') + Len(queue[d])
      /\ \A i \in 1..Len(Stream(d)') + Len(queue[d]) :
           (Stream(d)' \o queue[d])[i] =
              IF i <= Len(Stream(d)') THEN Stream(d)'[i] ELSE queue[d][i - Len(Stream(d)')]
  BY <1>2, ConcatProperties, LenProperties
<1>5. \A i \in 1..Len(Stream(d)') : i \in 1..Len(Stream(d)) /\ Stream(d)[i] = Stream(d)'[i]
  BY <1>1, <1>4
<1>6. \A i \in 1..Len(Stream(d)') : Stream(d)'[i] <= taken'
  BY <1>5 DEF StreamInv
<1>7. \A e \in Dispatchers \ {d} : Stream(e)' = Stream(e)
  BY <1>1 DEF OnlyAt, Stream
<1>8. StreamInv'
  BY <1>3, <1>6, <1>7 DEF StreamInv, Increasing
<1>9. QED
  BY <1>1, <1>8

----------------------------------------------------------------------------
(* Types of the rest *)

SeqTypes == pipe \in Seq(Msgs) /\ dispatched \in Seq(Msgs)
LifeTypes == life \in {"alive", "destructing", "destroyed"} /\ destroyer \in Threads \cup {NoThread}
DiscTypes == /\ toClear \in [Threads -> SUBSET Dispatchers] /\ lock \in Threads \cup {NoThread}
             /\ initialRef \in BOOLEAN /\ inList \in BOOLEAN /\ closedCalls \in Nat
ClientTypes == /\ senderPc \in [Senders -> {"start", "using", "done"}]
               /\ finPc \in {"start", "waitPending", "waitList", "done"} /\ shuttingDown \in BOOLEAN

RestTypes == SeqTypes /\ LifeTypes /\ DiscTypes /\ ClientTypes

\* AddRef and Release leave the life cycle where it was or go on in it.
LEMMA LifeRelease ==
  ASSUME LifeTypes, NEW t \in Threads, NEW n, Release(t, n)
  PROVE  LifeTypes'
BY DEF LifeTypes, Release

\* Every step goes on in the life cycle or leaves it.
LEMMA LifeStep ==
  ASSUME LifeTypes, Next
  PROVE  LifeTypes'
<1>1. ASSUME UNCHANGED refVars PROVE LifeTypes'
  BY <1>1 DEF refVars, LifeTypes
<1>2. ASSUME AddRef PROVE LifeTypes'
  BY <1>2 DEF AddRef, LifeTypes
<1>3. Workers \subseteq Threads /\ Dispatchers \subseteq Threads /\ Senders \subseteq Threads
  BY DEF Threads
<1>4. CASE Destroy
  BY <1>4 DEF Destroy, LifeTypes
<1>5. ASSUME NEW w \in Workers, WorkerStep(w) PROVE LifeTypes'
  <2>1. UNCHANGED refVars \/ AddRef \/ Release(w, 2)
    BY <1>5 DEF WorkerStep, Dequeue, AddBufferInSortedReadedQueue, SendReadPacket, AddRefForRead, FetchNextOrder,
         GetBufferFromSortedReadedQueue, DispatchReadMessage, IncrementOrder, WorkerError, WorkerEnd
  <2>2. QED
    BY <1>1, <1>2, <1>3, <2>1, LifeRelease
<1>6. ASSUME NEW d \in Dispatchers, DispatcherStep(d) PROVE LifeTypes'
  <2>1. UNCHANGED refVars \/ Release(d, disp[d].done)
    BY <1>6 DEF DispatcherStep, Wake, TakeRound, ProcessMessage, EndRound, ReleaseRound
  <2>2. QED
    BY <1>1, <1>3, <2>1, LifeRelease
<1>7. ASSUME NEW t \in Threads, DisconnectStep(t) PROVE LifeTypes'
  <2>1. UNCHANGED refVars \/ AddRef \/ \E n : Release(t, n)
    BY <1>7 DEF DisconnectStep, DiscEnter, RemoveConnection, ShutdownConnection, DiscardAllBuffers,
                ConnectionClosed, DiscRelock, ReleaseInitial, DiscLeave, DiscUnlock
  <2>2. QED
    BY <1>1, <1>2, <2>1, LifeRelease
<1>8. ASSUME NEW s \in Senders, FindConnection(s) \/ ReleaseConnection(s) PROVE LifeTypes'
  BY <1>1, <1>2, <1>3, <1>8, LifeRelease DEF FindConnection, ReleaseConnection
<1>9. ASSUME AgentWrite \/ AgentBreak \/ ReadCompletes \/ ReadsFail
             \/ (\E t \in Disconnectors : CallDisconnectAgent(t))
             \/ (\E t \in Finalizers : BeginFinalize(t) \/ PendingDrained(t) \/ ListEmpty(t))
      PROVE  LifeTypes'
  BY <1>1, <1>9 DEF AgentWrite, AgentBreak, ReadCompletes, ReadsFail, CallDisconnectAgent,
                    BeginFinalize, PendingDrained, ListEmpty
<1>10. QED
  BY <1>4, <1>5, <1>6, <1>7, <1>8, <1>9 DEF Next

\* The pipe and the dispatched messages are messages of the agent.
LEMMA SeqStep ==
  ASSUME IInv, DispInv, SeqTypes, Next
  PROVE  SeqTypes'
<1> USE DEF SeqTypes
<1>1. <<>> \in Seq(Msgs)
  BY EmptySeq
<1>2. CASE AgentWrite
  <2>1. sent + 1 \in Msgs
    BY <1>2, ConstantsAssumption DEF AgentWrite, Msgs, IInv, OrderTypes
  <2>2. QED
    BY <1>2, <2>1, AppendProperties DEF AgentWrite
<1>3. CASE AgentBreak
  BY <1>1, <1>3 DEF AgentBreak
<1>4. CASE ReadCompletes
  BY <1>4, HeadTailProperties DEF ReadCompletes
<1>5. ASSUME NEW w \in Workers, DispatchReadMessage(w) PROVE SeqTypes'
  <2>1. dispatched' = dispatched \/ \E m \in Msgs : dispatched' = Append(dispatched, m)
    BY <1>5, DispatchDoes
  <2>2. pipe' = pipe
    BY <1>5 DEF DispatchReadMessage, kernelVars
  <2>3. QED
    BY <2>1, <2>2, AppendProperties
<1>6. ASSUME NEW w \in Workers, WorkerStep(w), ~DispatchReadMessage(w) PROVE SeqTypes'
  BY <1>6 DEF kernelVars, WorkerStep, Dequeue, AddBufferInSortedReadedQueue, SendReadPacket, AddRefForRead,
       FetchNextOrder, GetBufferFromSortedReadedQueue, IncrementOrder, WorkerError, WorkerEnd
<1>7. ASSUME NEW d \in Dispatchers, DispatcherStep(d) PROVE SeqTypes'
  BY <1>7 DEF kernelVars, DispatcherStep, Wake, TakeRound, ProcessMessage, EndRound, ReleaseRound
<1>8. ASSUME NEW t \in Threads, DisconnectStep(t) PROVE SeqTypes'
  <2>1. dispatched' = dispatched /\ (pipe' = pipe \/ pipe' = <<>>)
    BY <1>8 DEF kernelVars, DisconnectStep, DiscEnter, RemoveConnection, ShutdownConnection, DiscardAllBuffers,
                ConnectionClosed, DiscRelock, ReleaseInitial, DiscLeave, DiscUnlock
  <2>2. QED
    BY <1>1, <2>1
<1>9. ASSUME ReadsFail \/ ClientStep PROVE SeqTypes'
  BY <1>9 DEF kernelVars, ReadsFail, ClientStep, Destroy, CallDisconnectAgent, FindConnection, ReleaseConnection,
              BeginFinalize, PendingDrained, ListEmpty
<1>10. QED
  BY <1>2, <1>3, <1>4, <1>5, <1>6, <1>7, <1>8, <1>9 DEF Next, ClientStep

\* The state of the disconnects keeps its type.
LEMMA DiscStep ==
  ASSUME DiscTypes, Next
  PROVE  DiscTypes'
<1> USE DEF DiscTypes
<1>1. ASSUME UNCHANGED <<toClear, lock, initialRef, inList, closedCalls>> PROVE DiscTypes'
  BY <1>1
<1>2. CASE Destroy
  BY <1>2 DEF Destroy
<1>3. ASSUME NEW t \in Threads, DisconnectStep(t) PROVE DiscTypes'
  <2>1. CASE DiscEnter(t)
    BY <2>1 DEF DiscEnter
  <2>2. CASE RemoveConnection(t)
    <3>1. PICK d \in toClear[t] : toClear' = [toClear EXCEPT ![t] = @ \ {d}]
      BY <2>2 DEF RemoveConnection
    <3>2. UNCHANGED <<lock, initialRef, inList, closedCalls>>
      BY <2>2 DEF RemoveConnection
    <3>3. QED
      BY <3>1, <3>2
  <2>3. CASE ShutdownConnection(t) \/ DiscardAllBuffers(t) \/ DiscLeave(t)
    BY <1>1, <2>3 DEF ShutdownConnection, DiscardAllBuffers, DiscLeave
  <2>4. CASE ConnectionClosed(t)
    BY <2>4 DEF ConnectionClosed
  <2>5. CASE DiscRelock(t) \/ ReleaseInitial(t) \/ DiscUnlock(t)
    BY <2>5 DEF DiscRelock, ReleaseInitial, DiscUnlock
  <2>6. QED
    BY <1>3, <2>1, <2>2, <2>3, <2>4, <2>5 DEF DisconnectStep
<1>4. ASSUME NEW t \in Finalizers, PendingDrained(t) PROVE DiscTypes'
  <2>1. t \in Threads
    BY DEF Threads
  <2>2. QED
    BY <1>4, <2>1 DEF PendingDrained
<1>5. ASSUME NEW w \in Workers, WorkerStep(w) PROVE DiscTypes'
  BY <1>1, <1>5 DEF discVars, WorkerStep, Dequeue, AddBufferInSortedReadedQueue, SendReadPacket, AddRefForRead,
       FetchNextOrder, GetBufferFromSortedReadedQueue, DispatchReadMessage, IncrementOrder, WorkerError, WorkerEnd
<1>6. ASSUME NEW d \in Dispatchers, DispatcherStep(d) PROVE DiscTypes'
  BY <1>1, <1>6 DEF discVars, DispatcherStep, Wake, TakeRound, ProcessMessage, EndRound, ReleaseRound
<1>7. ASSUME AgentWrite \/ AgentBreak \/ ReadCompletes \/ ReadsFail
             \/ (\E t \in Disconnectors : CallDisconnectAgent(t))
             \/ (\E s \in Senders : FindConnection(s) \/ ReleaseConnection(s))
             \/ (\E t \in Finalizers : BeginFinalize(t) \/ ListEmpty(t))
      PROVE  DiscTypes'
  BY <1>1, <1>7 DEF discVars, AgentWrite, AgentBreak, ReadCompletes, ReadsFail, CallDisconnectAgent,
                    FindConnection, ReleaseConnection, BeginFinalize, ListEmpty
<1>8. QED
  BY <1>2, <1>3, <1>4, <1>5, <1>6, <1>7 DEF Next

\* The state of the clients and of Finalize keeps its type.
LEMMA ClientTypesStep ==
  ASSUME ClientTypes, Next
  PROVE  ClientTypes'
<1> USE DEF ClientTypes
<1>1. ASSUME UNCHANGED clientVars PROVE ClientTypes'
  BY <1>1 DEF clientVars
<1>2. ASSUME NEW s \in Senders, FindConnection(s) \/ ReleaseConnection(s) PROVE ClientTypes'
  BY <1>2 DEF FindConnection, ReleaseConnection
<1>3. ASSUME NEW t \in Finalizers, BeginFinalize(t) \/ PendingDrained(t) \/ ListEmpty(t) PROVE ClientTypes'
  BY <1>3 DEF BeginFinalize, PendingDrained, ListEmpty
<1>4. ASSUME NEW w \in Workers, WorkerStep(w) PROVE ClientTypes'
  BY <1>1, <1>4 DEF WorkerStep, Dequeue, AddBufferInSortedReadedQueue, SendReadPacket, AddRefForRead,
       FetchNextOrder, GetBufferFromSortedReadedQueue, DispatchReadMessage, IncrementOrder, WorkerError, WorkerEnd
<1>5. ASSUME NEW d \in Dispatchers, DispatcherStep(d) PROVE ClientTypes'
  BY <1>1, <1>5 DEF DispatcherStep, Wake, TakeRound, ProcessMessage, EndRound, ReleaseRound
<1>6. ASSUME NEW t \in Threads, DisconnectStep(t) PROVE ClientTypes'
  BY <1>1, <1>6 DEF DisconnectStep, DiscEnter, RemoveConnection, ShutdownConnection, DiscardAllBuffers,
                ConnectionClosed, DiscRelock, ReleaseInitial, DiscLeave, DiscUnlock
<1>7. ASSUME AgentWrite \/ AgentBreak \/ ReadCompletes \/ ReadsFail \/ Destroy
             \/ (\E t \in Disconnectors : CallDisconnectAgent(t))
      PROVE  ClientTypes'
  BY <1>1, <1>7 DEF AgentWrite, AgentBreak, ReadCompletes, ReadsFail, Destroy, CallDisconnectAgent
<1>8. QED
  BY <1>2, <1>3, <1>4, <1>5, <1>6, <1>7 DEF Next

----------------------------------------------------------------------------
(* The dispatchers, all steps *)

\* Steps of other threads that touch no dispatcher.
LEMMA DispatchersUntouched ==
  ASSUME Next,
         ~\E w \in Workers : DispatchReadMessage(w),
         ~\E d \in Dispatchers : DispatcherStep(d),
         ~\E t \in Threads : RemoveConnection(t)
  PROVE  UNCHANGED <<dispVars, taken, dispatched>>
<1>1. ASSUME NEW w \in Workers, WorkerStep(w) PROVE UNCHANGED <<dispVars, taken, dispatched>>
  BY <1>1 DEF WorkerStep, Dequeue, AddBufferInSortedReadedQueue, SendReadPacket, AddRefForRead,
       FetchNextOrder, GetBufferFromSortedReadedQueue, IncrementOrder, WorkerError, WorkerEnd
<1>2. ASSUME NEW t \in Threads, DisconnectStep(t) PROVE UNCHANGED <<dispVars, taken, dispatched>>
  BY <1>2 DEF DisconnectStep, DiscEnter, ShutdownConnection, DiscardAllBuffers,
              ConnectionClosed, DiscRelock, ReleaseInitial, DiscLeave, DiscUnlock
<1>3. ASSUME AgentWrite \/ AgentBreak \/ ReadCompletes \/ ReadsFail \/ ClientStep
      PROVE  UNCHANGED <<dispVars, taken, dispatched>>
  BY <1>3 DEF AgentWrite, AgentBreak, ReadCompletes, ReadsFail, ClientStep, Destroy, CallDisconnectAgent,
              FindConnection, ReleaseConnection, BeginFinalize, PendingDrained, ListEmpty
<1>4. QED
  BY <1>1, <1>2, <1>3 DEF Next, ClientStep

\* A dispatcher's step only moves its messages, in the order they are.
LEMMA DispatcherMoves ==
  ASSUME DispInv, NEW d \in Dispatchers, DispatcherStep(d)
  PROVE  /\ DispInv' /\ OnlyAt(d) /\ Stream(d)' = Stream(d)
         /\ Held(d)' = Held(d) \/ (ReleaseRound(d) /\ Held(d)' = Held(d) - disp[d].done)
BY WakeDoes, TakeRoundDoes, ProcessMessageDoes, EndRoundDoes, ReleaseRoundDoes
   DEF DispatcherStep, Rearranged

\* Every step keeps the streams of the dispatchers in order.
LEMMA StreamStep ==
  ASSUME IInv, RestTypes, DispInv, StreamInv, Next
  PROVE  DispInv' /\ StreamInv'
<1>1. ASSUME NEW d \in Dispatchers, DispatcherStep(d) PROVE DispInv' /\ StreamInv'
  <2>1. DispInv' /\ OnlyAt(d) /\ Stream(d)' = Stream(d)
    BY <1>1, DispatcherMoves
  <2>2. \A e \in Dispatchers : Stream(e)' = Stream(e)
    BY <2>1 DEF OnlyAt, Stream
  <2>3. taken' = taken /\ dispatched' = dispatched
    BY <1>1 DEF DispatcherStep, Wake, TakeRound, ProcessMessage, EndRound, ReleaseRound
  <2>4. QED
    BY <2>1, <2>2, <2>3, StreamSame
<1>2. ASSUME NEW w \in Workers, DispatchReadMessage(w) PROVE DispInv' /\ StreamInv'
  BY <1>2, StreamDispatch
<1>3. ASSUME NEW t \in Threads, RemoveConnection(t) PROVE DispInv' /\ StreamInv'
  <2>1. PICK d \in toClear[t] : queue' = [queue EXCEPT ![d] = <<>>]
    BY <1>3 DEF RemoveConnection
  <2>2. d \in Dispatchers
    BY DEF RestTypes, DiscTypes
  <2>3. UNCHANGED <<hEvent, disp, handled, taken, dispatched>>
    BY <1>3 DEF RemoveConnection
  <2>4. QED
    BY <2>1, <2>2, <2>3, StreamClear
<1>4. ASSUME UNCHANGED <<dispVars, taken, dispatched>> PROVE DispInv' /\ StreamInv'
  BY <1>4, DispatchersKept, StreamSame
<1>5. QED
  BY <1>1, <1>2, <1>3, <1>4, DispatchersUntouched

----------------------------------------------------------------------------
(* The first thread that shuts the connection down *)

\* It alone returns the reference that the connection was created with.
First(t) == discPc[t] \in {"discard", "callback", "relock", "release"}

FirstInv ==
  /\ \A t \in Threads : First(t) \/ discPc[t] \in {"unref", "leave"} => nState = "destroying"
  /\ \A t \in Threads : First(t) => initialRef
  /\ \A t, u \in Threads : First(t) /\ First(u) => t = u
  /\ nState = "connected" => initialRef
  /\ \A t \in Finalizers : discPc[t] # "enter"

\* A step by which no thread moves on in a disconnect.
LEMMA FirstKept ==
  ASSUME FirstInv, nState' = nState, initialRef' = initialRef,
         \A t \in Threads : \/ discPc'[t] = discPc[t]
                            \/ discPc'[t] \in {"none", "done", "remove"}
                            \/ discPc'[t] = "enter" /\ t \notin Finalizers
  PROVE  FirstInv'
<1>1. Finalizers \subseteq Threads
  BY DEF Threads
<1>2. QED
  BY <1>1 DEF FirstInv, First

\* A thread goes on to another place, and stays the first one if it was.
LEMMA FirstMoves ==
  ASSUME FirstInv, IInv, NEW t \in Threads, NEW s, discPc' = [discPc EXCEPT ![t] = s],
         nState' = nState, initialRef' = initialRef,
         s # "enter",
         s \in {"discard", "callback", "relock", "release"} => First(t),
         s \in {"unref", "leave"} => nState = "destroying"
  PROVE  FirstInv'
<1>1. discPc'[t] = s /\ \A u \in Threads \ {t} : discPc'[u] = discPc[u]
  BY DEF IInv, OrderTypes
<1>2. \A u \in Threads : First(u)' => First(u)
  BY <1>1 DEF First
<1>3. Finalizers \subseteq Threads
  BY DEF Threads
<1>4. QED
  BY <1>1, <1>2, <1>3 DEF FirstInv, First

\* A thread moves on in DisconnectAgent or Finalize.
LEMMA FirstDisconnect ==
  ASSUME FirstInv, IInv, RestTypes, NEW t \in Threads, DisconnectStep(t)
  PROVE  FirstInv'
<1> USE DEF DiscGoTo, DiscAt
<1>1. discPc \in [Threads -> DiscStates]
  BY DEF IInv, OrderTypes
<1>2. Returned(t) \in {"none", "done"}
  BY DEF Returned
<1>3. CASE DiscEnter(t)
  <2>1. \/ discPc' = [discPc EXCEPT ![t] = Returned(t)]
        \/ discPc' = [discPc EXCEPT ![t] = "remove"]
    BY <1>3 DEF DiscEnter
  <2>2. nState' = nState /\ initialRef' = initialRef
    BY <1>3 DEF DiscEnter
  <2>3. QED
    BY <1>1, <1>2, <2>1, <2>2, FirstKept
<1>4. CASE RemoveConnection(t)
  BY <1>4, FirstKept DEF RemoveConnection
<1>5. CASE ShutdownConnection(t)
  <2>1. CASE nState = "destroying"
    BY <1>5, <2>1, FirstMoves DEF ShutdownConnection
  <2>2. CASE nState # "destroying"
    <3>1. /\ nState' = "destroying" /\ discPc' = [discPc EXCEPT ![t] = "discard"]
          /\ initialRef' = initialRef
      BY <1>5, <2>2 DEF ShutdownConnection
    <3>2. nState = "connected"
      BY <2>2 DEF IInv, OrderTypes
    <3>3. initialRef /\ \A u \in Threads : ~First(u)
      BY <2>2, <3>2 DEF FirstInv
    <3>4. \A u \in Threads : First(u)' => u = t
      BY <1>1, <3>1, <3>3 DEF First
    <3>5. \A u \in Threads : discPc'[u] = "enter" => discPc[u] = "enter"
      BY <1>1, <3>1
    <3>6. Finalizers \subseteq Threads
      BY DEF Threads
    <3>7. QED
      BY <3>1, <3>3, <3>4, <3>5, <3>6 DEF FirstInv
  <2>3. QED
    BY <2>1, <2>2
<1>6. CASE DiscardAllBuffers(t)
  <2>1. First(t)
    BY <1>6 DEF DiscardAllBuffers, First
  <2>2. QED
    BY <1>6, <2>1, FirstMoves DEF DiscardAllBuffers
<1>7. CASE ConnectionClosed(t)
  <2>1. First(t)
    BY <1>7 DEF ConnectionClosed, First
  <2>2. QED
    BY <1>7, <2>1, FirstMoves DEF ConnectionClosed
<1>8. CASE DiscRelock(t)
  <2>1. First(t)
    BY <1>8 DEF DiscRelock, First
  <2>2. QED
    BY <1>8, <2>1, FirstMoves DEF DiscRelock
<1>9. CASE ReleaseInitial(t)
  <2>1. First(t) /\ nState' = nState /\ discPc' = [discPc EXCEPT ![t] = "unref"]
    BY <1>9 DEF ReleaseInitial, First
  <2>2. nState = "destroying" /\ \A u \in Threads : First(u) => u = t
    BY <2>1 DEF FirstInv
  <2>3. \A u \in Threads : ~First(u)'
    BY <1>1, <2>1, <2>2 DEF First
  <2>4. \A u \in Threads : discPc'[u] = "enter" => discPc[u] = "enter"
    BY <1>1, <2>1
  <2>5. Finalizers \subseteq Threads
    BY DEF Threads
  <2>6. QED
    BY <2>1, <2>2, <2>3, <2>4, <2>5 DEF FirstInv
<1>10. CASE DiscLeave(t)
  <2>1. nState = "destroying"
    BY <1>10 DEF DiscLeave, FirstInv
  <2>2. QED
    BY <1>10, <2>1, FirstMoves DEF DiscLeave
<1>11. CASE DiscUnlock(t)
  BY <1>2, <1>11, FirstMoves DEF DiscUnlock
<1>12. QED
  BY <1>3, <1>4, <1>5, <1>6, <1>7, <1>8, <1>9, <1>10, <1>11 DEF DisconnectStep

\* At most one thread is ever the first.
LEMMA FirstStep ==
  ASSUME FirstInv, IInv, RestTypes, Next
  PROVE  FirstInv'
<1>1. discPc \in [Threads -> DiscStates]
  BY DEF IInv, OrderTypes
<1>2. Workers \cap Finalizers = {} /\ Dispatchers \cap Finalizers = {} /\ Disconnectors \cap Finalizers = {}
  BY ConstantsAssumption
<1>3. ASSUME UNCHANGED discVars PROVE FirstInv'
  BY <1>3, FirstKept DEF discVars
<1>4. ASSUME NEW t \in Threads, DisconnectStep(t) PROVE FirstInv'
  BY <1>4, FirstDisconnect
<1>5. ASSUME NEW w \in Workers, WorkerStep(w) PROVE FirstInv'
  <2>1. CASE WorkerError(w)
    <3>1. /\ discPc' = [discPc EXCEPT ![w] = "enter"] /\ nState' = nState /\ initialRef' = initialRef
      BY <2>1 DEF WorkerError
    <3>2. \A t \in Threads : discPc'[t] = discPc[t] \/ (discPc'[t] = "enter" /\ t \notin Finalizers)
      BY <1>1, <1>2, <3>1
    <3>3. QED
      BY <3>1, <3>2, FirstKept
  <2>2. CASE ~WorkerError(w)
    BY <1>3, <1>5, <2>2 DEF WorkerStep, Dequeue, AddBufferInSortedReadedQueue, SendReadPacket, AddRefForRead,
       FetchNextOrder, GetBufferFromSortedReadedQueue, DispatchReadMessage, IncrementOrder, WorkerEnd
  <2>3. QED
    BY <2>1, <2>2
<1>6. ASSUME NEW d \in Dispatchers, DispatcherStep(d) PROVE FirstInv'
  <2>1. CASE ReleaseRound(d)
    <3>1. /\ discPc' = [discPc EXCEPT ![d] = IF disp[d].failed THEN "enter" ELSE "none"]
          /\ nState' = nState /\ initialRef' = initialRef
      BY <2>1 DEF ReleaseRound
    <3>2. \A t \in Threads : \/ discPc'[t] = discPc[t] \/ discPc'[t] = "none"
                             \/ (discPc'[t] = "enter" /\ t \notin Finalizers)
      BY <1>1, <1>2, <3>1
    <3>3. QED
      BY <3>1, <3>2, FirstKept
  <2>2. CASE ~ReleaseRound(d)
    BY <1>3, <1>6, <2>2 DEF DispatcherStep, Wake, TakeRound, ProcessMessage, EndRound
  <2>3. QED
    BY <2>1, <2>2
<1>7. ASSUME NEW t \in Disconnectors, CallDisconnectAgent(t) PROVE FirstInv'
  <2>1. /\ discPc' = [discPc EXCEPT ![t] = IF shuttingDown THEN "done" ELSE "enter"]
        /\ nState' = nState /\ initialRef' = initialRef
    BY <1>7 DEF CallDisconnectAgent, DiscGoTo
  <2>2. \A u \in Threads : \/ discPc'[u] = discPc[u] \/ discPc'[u] = "done"
                           \/ (discPc'[u] = "enter" /\ u \notin Finalizers)
    BY <1>1, <1>2, <2>1
  <2>3. QED
    BY <2>1, <2>2, FirstKept
<1>8. ASSUME NEW t \in Finalizers, PendingDrained(t) PROVE FirstInv'
  <2>1. /\ (discPc' = discPc \/ discPc' = [discPc EXCEPT ![t] = "remove"])
        /\ nState' = nState /\ initialRef' = initialRef
    BY <1>8 DEF PendingDrained, DiscGoTo
  <2>2. QED
    BY <1>1, <2>1, FirstKept
<1>9. ASSUME AgentWrite \/ AgentBreak \/ ReadCompletes \/ ReadsFail
             \/ (\E s \in Senders : FindConnection(s) \/ ReleaseConnection(s))
             \/ (\E t \in Finalizers : BeginFinalize(t) \/ ListEmpty(t))
      PROVE  FirstInv'
  BY <1>3, <1>9 DEF AgentWrite, AgentBreak, ReadCompletes, ReadsFail,
                    FindConnection, ReleaseConnection, BeginFinalize, ListEmpty
<1>10. CASE Destroy
  BY <1>10, FirstKept DEF Destroy
<1>11. QED
  BY <1>4, <1>5, <1>6, <1>7, <1>8, <1>9, <1>10 DEF Next

----------------------------------------------------------------------------
(* Counting references *)

Busy == {w \in Workers : worker[w].pc # "idle"}
Adding == {w \in Workers : worker[w].pc = "addref"}
Inside == {t \in Threads \ Finalizers :
             discPc[t] \in {"remove", "discard", "callback", "relock", "release", "unref"}}
Using == {s \in Senders : senderPc[s] = "using"}

\* What a thread counts for, by where it is.
First1 == IF initialRef THEN 1 ELSE 0
WorkerRefs(p) == IF p = "idle" THEN 0 ELSE IF p = "addref" THEN 1 ELSE 2
InsideRefs(t, p) ==
  IF t \notin Finalizers /\ p \in {"remove", "discard", "callback", "relock", "release", "unref"} THEN 1 ELSE 0
UsingRefs(p) == IF p = "using" THEN 1 ELSE 0

\* What one thread does changes a count by at most one.
LEMMA Recount ==
  ASSUME NEW S, IsFiniteSet(S), NEW A \in SUBSET S, NEW B \in SUBSET S, NEW x \in S,
         \A y \in S \ {x} : y \in A <=> y \in B
  PROVE  /\ Cardinality(A) \in Nat /\ Cardinality(B) \in Nat
         /\ Cardinality(B) = Cardinality(A) + (IF x \in B THEN 1 ELSE 0) - (IF x \in A THEN 1 ELSE 0)
<1>1. /\ IsFiniteSet(A) /\ Cardinality(A) \in Nat
      /\ IsFiniteSet(B) /\ Cardinality(B) \in Nat
  BY FS_Subset, FS_CardinalityType
<1>2. CASE x \in B /\ x \notin A
  <2>1. B = A \cup {x}
    BY <1>2
  <2>2. QED
    BY <1>1, <1>2, <2>1, FS_AddElement
<1>3. CASE x \in A /\ x \notin B
  <2>1. B = A \ {x}
    BY <1>3
  <2>2. QED
    BY <1>1, <1>3, <2>1, FS_RemoveElement
<1>4. CASE x \in A <=> x \in B
  <2>1. A = B
    BY <1>4
  <2>2. QED
    BY <1>1, <2>1
<1>5. QED
  BY <1>2, <1>3, <1>4

\* Each kind of thread is a finite set.
LEMMA ThreadsFinite ==
  /\ IsFiniteSet(Threads) /\ IsFiniteSet(Workers) /\ IsFiniteSet(Senders)
  /\ IsFiniteSet(Threads \ Finalizers)
<1>1. /\ Workers \in SUBSET Threads /\ Senders \in SUBSET Threads
      /\ Threads \ Finalizers \in SUBSET Threads
  BY DEF Threads
<1>2. QED
  BY <1>1, FS_Subset, ConstantsAssumption

\* The counts are numbers, before a step and after it.
LEMMA CountsTyped ==
  /\ Cardinality(Busy) \in Nat /\ Cardinality(Adding) \in Nat
  /\ Cardinality(Inside) \in Nat /\ Cardinality(Using) \in Nat
  /\ Cardinality(Busy') \in Nat /\ Cardinality(Adding') \in Nat
  /\ Cardinality(Inside') \in Nat /\ Cardinality(Using') \in Nat
<1>1. /\ Busy \in SUBSET Workers /\ Adding \in SUBSET Workers
      /\ Busy' \in SUBSET Workers /\ Adding' \in SUBSET Workers
  BY DEF Busy, Adding
<1>2. Inside \in SUBSET (Threads \ Finalizers) /\ Inside' \in SUBSET (Threads \ Finalizers)
  BY DEF Inside
<1>3. Using \in SUBSET Senders /\ Using' \in SUBSET Senders
  BY DEF Using
<1>4. QED
  BY <1>1, <1>2, <1>3, ThreadsFinite, FS_Subset, FS_CardinalityType

\* The counts after a worker's step.
LEMMA WorkerCounts ==
  ASSUME NEW w \in Workers, \A v \in Workers \ {w} : worker'[v] = worker[v]
  PROVE  2 * Cardinality(Busy') - Cardinality(Adding')
           = 2 * Cardinality(Busy) - Cardinality(Adding)
             + WorkerRefs(worker'[w].pc) - WorkerRefs(worker[w].pc)
<1>1. /\ Busy \in SUBSET Workers /\ Adding \in SUBSET Workers
      /\ Busy' \in SUBSET Workers /\ Adding' \in SUBSET Workers
      /\ \A v \in Workers \ {w} : v \in Busy <=> v \in Busy'
      /\ \A v \in Workers \ {w} : v \in Adding <=> v \in Adding'
  BY DEF Busy, Adding
<1>2. /\ Cardinality(Busy) \in Nat /\ Cardinality(Busy') \in Nat
      /\ Cardinality(Busy') = Cardinality(Busy) + (IF w \in Busy' THEN 1 ELSE 0) - (IF w \in Busy THEN 1 ELSE 0)
  BY <1>1, Recount, ThreadsFinite
<1>3. /\ Cardinality(Adding) \in Nat /\ Cardinality(Adding') \in Nat
      /\ Cardinality(Adding') = Cardinality(Adding) + (IF w \in Adding' THEN 1 ELSE 0)
                                - (IF w \in Adding THEN 1 ELSE 0)
  BY <1>1, Recount, ThreadsFinite
<1>4. /\ WorkerRefs(worker'[w].pc) = 2 * (IF w \in Busy' THEN 1 ELSE 0) - (IF w \in Adding' THEN 1 ELSE 0)
      /\ WorkerRefs(worker[w].pc) = 2 * (IF w \in Busy THEN 1 ELSE 0) - (IF w \in Adding THEN 1 ELSE 0)
  BY DEF WorkerRefs, Busy, Adding
<1>5. PICK b, c, a, e \in Nat : /\ b = Cardinality(Busy) /\ c = Cardinality(Busy')
                                /\ a = Cardinality(Adding) /\ e = Cardinality(Adding')
  BY <1>2, <1>3
<1>6. PICK i, j, k, l \in Int : /\ i = (IF w \in Busy' THEN 1 ELSE 0) /\ j = (IF w \in Busy THEN 1 ELSE 0)
                                /\ k = (IF w \in Adding' THEN 1 ELSE 0) /\ l = (IF w \in Adding THEN 1 ELSE 0)
  OBVIOUS
<1>7. c = b + i - j /\ e = a + k - l
  BY <1>2, <1>3, <1>5, <1>6
<1>8. 2 * c - e = 2 * b - a + (2 * i - k) - (2 * j - l)
  BY <1>7
<1>9. QED
  BY <1>4, <1>5, <1>6, <1>8

\* The counts after a step of a thread that disconnects.
LEMMA InsideCounts ==
  ASSUME NEW t \in Threads, \A u \in Threads \ {t} : discPc'[u] = discPc[u]
  PROVE  Cardinality(Inside') = Cardinality(Inside) + InsideRefs(t, discPc'[t]) - InsideRefs(t, discPc[t])
<1>1. Inside \in SUBSET Threads /\ Inside' \in SUBSET Threads
  BY DEF Inside
<1>2. \A u \in Threads \ {t} : u \in Inside <=> u \in Inside'
  BY DEF Inside
<1>3. Cardinality(Inside') = Cardinality(Inside) + (IF t \in Inside' THEN 1 ELSE 0) - (IF t \in Inside THEN 1 ELSE 0)
  BY <1>1, <1>2, Recount, ThreadsFinite
<1>4. /\ (IF t \in Inside' THEN 1 ELSE 0) = InsideRefs(t, discPc'[t])
      /\ (IF t \in Inside THEN 1 ELSE 0) = InsideRefs(t, discPc[t])
  BY DEF Inside, InsideRefs
<1>5. QED
  BY <1>3, <1>4

\* The counts after a step of a client that sends.
LEMMA UsingCounts ==
  ASSUME NEW s \in Senders, \A r \in Senders \ {s} : senderPc'[r] = senderPc[r]
  PROVE  Cardinality(Using') = Cardinality(Using) + UsingRefs(senderPc'[s]) - UsingRefs(senderPc[s])
<1>1. /\ Using \in SUBSET Senders /\ Using' \in SUBSET Senders
      /\ \A r \in Senders \ {s} : r \in Using <=> r \in Using'
  BY DEF Using
<1>2. Cardinality(Using') = Cardinality(Using) + (IF s \in Using' THEN 1 ELSE 0) - (IF s \in Using THEN 1 ELSE 0)
  BY <1>1, Recount, ThreadsFinite
<1>3. /\ (IF s \in Using' THEN 1 ELSE 0) = UsingRefs(senderPc'[s])
      /\ (IF s \in Using THEN 1 ELSE 0) = UsingRefs(senderPc[s])
  BY DEF Using, UsingRefs
<1>4. QED
  BY <1>2, <1>3

\* The messages in the dispatchers' hands after a step of one of them.
LEMMA HeldCounts ==
  ASSUME IsFiniteSet(InDispatch), NEW d \in Dispatchers, OnlyAt(d), Held(d) \in Nat, Held(d)' \in Nat
  PROVE  /\ IsFiniteSet(InDispatch')
         /\ Cardinality(InDispatch') = Cardinality(InDispatch) + Held(d)' - Held(d)
<1>1. PICK m \in Nat, n \in Nat : m = Held(d) /\ n = Held(d)'
  OBVIOUS
<1> DEFINE Others == {e \in InDispatch : e[1] # d}
           Part(k) == {d} \X (1..k)
<1>2. InDispatch = Others \cup Part(m)
  <2>1. ASSUME NEW x \in InDispatch PROVE x \in Others \cup Part(m)
    <3>1. PICK e \in Dispatchers : x \in {e} \X (1..Held(e))
      BY DEF InDispatch
    <3>2. QED
      BY <1>1, <3>1
  <2>2. \A x \in Part(m) : x \in InDispatch
    BY <1>1 DEF InDispatch
  <2>3. QED
    BY <2>1, <2>2
<1>3. InDispatch' = Others \cup Part(n)
  <2>0. \A e \in Dispatchers \ {d} : Held(e)' = Held(e)
    BY DEF OnlyAt, Held
  <2>1. ASSUME NEW x \in InDispatch' PROVE x \in Others \cup Part(n)
    <3>1. PICK e \in Dispatchers : x \in {e} \X (1..Held(e)')
      BY DEF InDispatch
    <3>2. CASE e = d
      BY <1>1, <3>1, <3>2
    <3>3. CASE e # d
      <4>1. x \in {e} \X (1..Held(e)) /\ x[1] = e
        BY <2>0, <3>1, <3>3
      <4>2. x \in InDispatch
        BY <4>1 DEF InDispatch
      <4>3. QED
        BY <3>3, <4>1, <4>2
    <3>4. QED
      BY <3>2, <3>3
  <2>2. \A x \in Part(n) : x \in InDispatch'
    BY <1>1 DEF InDispatch
  <2>3. ASSUME NEW x \in Others PROVE x \in InDispatch'
    <3>1. PICK e \in Dispatchers : x \in {e} \X (1..Held(e))
      BY DEF InDispatch
    <3>2. e # d
      BY <3>1
    <3>3. x \in {e} \X (1..Held(e)')
      BY <2>0, <3>1, <3>2
    <3>4. QED
      BY <3>3 DEF InDispatch
  <2>4. QED
    BY <2>1, <2>2, <2>3
<1>4. \A k \in Nat : Others \cap Part(k) = {}
  OBVIOUS
<1>5. ASSUME NEW k \in Nat PROVE IsFiniteSet(Part(k)) /\ Cardinality(Part(k)) = k
  <2>1. IsFiniteSet({d}) /\ Cardinality({d}) = 1
    BY FS_Singleton
  <2>2. IsFiniteSet(1..k) /\ Cardinality(1..k) = k
    <3>a. \A a, b \in Int : IsFiniteSet(a..b) /\ Cardinality(a..b) = IF a > b THEN 0 ELSE b - a + 1
      BY FS_Interval
    <3>b. 1 \in Int /\ k \in Int
      OBVIOUS
    <3>1. IsFiniteSet(1..k) /\ Cardinality(1..k) = IF 1 > k THEN 0 ELSE k - 1 + 1
      BY <3>a, <3>b, Zenon
    <3>2. (IF 1 > k THEN 0 ELSE k - 1 + 1) = k
      OBVIOUS
    <3>3. QED
      BY <3>1, <3>2
  <2>3. \A S, T : IsFiniteSet(S) /\ IsFiniteSet(T)
                  => IsFiniteSet(S \X T) /\ Cardinality(S \X T) = Cardinality(S) * Cardinality(T)
    BY FS_Product
  <2>4. IsFiniteSet({d} \X (1..k)) /\ Cardinality({d} \X (1..k)) = 1 * k
    <3>1. PICK S, T : S = {d} /\ T = 1..k
      OBVIOUS
    <3>2. IsFiniteSet(S \X T) /\ Cardinality(S \X T) = Cardinality(S) * Cardinality(T)
      BY <2>1, <2>2, <2>3, <3>1
    <3>3. Cardinality(S) = 1 /\ Cardinality(T) = k
      BY <2>1, <2>2, <3>1
    <3>4. QED
      BY <3>1, <3>2, <3>3
  <2>5. QED
    BY <2>4
<1>6. IsFiniteSet(Others) /\ Cardinality(Others) \in Nat
  <2>1. Others \in SUBSET InDispatch
    OBVIOUS
  <2>2. QED
    BY <2>1, FS_Subset, FS_CardinalityType
<1>7. ASSUME NEW k \in Nat
      PROVE  IsFiniteSet(Others \cup Part(k)) /\ Cardinality(Others \cup Part(k)) = Cardinality(Others) + k
  <2> HIDE DEF Others, Part
  <2>1. /\ IsFiniteSet(Others \cup Part(k))
        /\ Cardinality(Others \cup Part(k)) = Cardinality(Others) + Cardinality(Part(k)) - Cardinality(Others \cap Part(k))
    BY <1>5, <1>6, FS_Union
  <2>2. Cardinality(Others \cap Part(k)) = 0
    BY <1>4, FS_EmptySet
  <2>3. QED
    BY <1>5, <1>6, <2>1, <2>2
<1> HIDE DEF Others, Part
<1>8. /\ IsFiniteSet(InDispatch')
      /\ Cardinality(InDispatch) = Cardinality(Others) + m
      /\ Cardinality(InDispatch') = Cardinality(Others) + n
  BY <1>2, <1>3, <1>7
<1>9. QED
  BY <1>1, <1>6, <1>8

\* RefCountExact in terms of the named sets.
LEMMA RefCountIs ==
  /\ RefCountExact <=>
       nRefCount = First1 + Len(posted) + Len(iocp) + 2 * Cardinality(Busy) - Cardinality(Adding)
                   + Cardinality(InDispatch) + Cardinality(Inside) + Cardinality(Using)
  /\ RefCountExact' <=>
       nRefCount' = First1' + Len(posted') + Len(iocp') + 2 * Cardinality(Busy') - Cardinality(Adding')
                    + Cardinality(InDispatch') + Cardinality(Inside') + Cardinality(Using')
BY DEF RefCountExact, Holders, First1, Busy, Adding, Inside, Using

\* So are the lengths of the two queues of reads.
LEMMA LensTyped ==
  ASSUME IInv, IInv'
  PROVE  Len(posted) \in Nat /\ Len(iocp) \in Nat /\ Len(posted') \in Nat /\ Len(iocp') \in Nat
<1>1. /\ posted \in Seq(Nat) /\ iocp \in Seq(Packet)
      /\ posted' \in Seq(Nat) /\ iocp' \in Seq(Packet)
  BY DEF IInv, OrderTypes
<1>2. QED
  BY <1>1, LenProperties

\* By how much the references of a step change: the initial one, those of the
\* reads, the workers, the messages in dispatch, the disconnects, the clients.
Changes(df, dr, dw, dq, dc, du) ==
  /\ First1' = First1 + df
  /\ Len(posted') + Len(iocp') = Len(posted) + Len(iocp) + dr
  /\ 2 * Cardinality(Busy') - Cardinality(Adding') = 2 * Cardinality(Busy) - Cardinality(Adding) + dw
  /\ Cardinality(InDispatch') = Cardinality(InDispatch) + dq
  /\ Cardinality(Inside') = Cardinality(Inside) + dc
  /\ Cardinality(Using') = Cardinality(Using) + du
  /\ nRefCount' = nRefCount + (df + dr + dw + dq + dc + du)

\* The count stays exact when it goes up by as much as the references do.
LEMMA Balanced ==
  ASSUME IInv, IInv', RefCountExact,
         IsFiniteSet(InDispatch), IsFiniteSet(InDispatch'),
         NEW df \in Int, NEW dr \in Int, NEW dw \in Int, NEW dq \in Int, NEW dc \in Int, NEW du \in Int,
         Changes(df, dr, dw, dq, dc, du)
  PROVE  RefCountExact'
<1> USE DEF Changes
<1>1. Cardinality(InDispatch) \in Nat /\ Cardinality(InDispatch') \in Nat
  BY FS_CardinalityType
<1>2. First1 \in Int /\ First1' \in Int
  BY DEF First1
<1>a. /\ Len(posted) \in Int /\ Len(iocp) \in Int /\ Cardinality(Busy) \in Int /\ Cardinality(Adding) \in Int
      /\ Cardinality(InDispatch) \in Int /\ Cardinality(Inside) \in Int /\ Cardinality(Using) \in Int
      /\ Len(posted') \in Int /\ Len(iocp') \in Int /\ Cardinality(Busy') \in Int
      /\ Cardinality(Adding') \in Int /\ Cardinality(InDispatch') \in Int /\ Cardinality(Inside') \in Int
      /\ Cardinality(Using') \in Int
  BY <1>1, LensTyped, CountsTyped
<1>3. PICK f \in Int, p \in Int, i \in Int, b \in Int, a \in Int, q \in Int, c \in Int, u \in Int :
        /\ f = First1 /\ p = Len(posted) /\ i = Len(iocp) /\ b = Cardinality(Busy) /\ a = Cardinality(Adding)
        /\ q = Cardinality(InDispatch) /\ c = Cardinality(Inside) /\ u = Cardinality(Using)
  BY <1>2, <1>a, Zenon
<1>4. PICK g \in Int, o \in Int, j \in Int, d \in Int, e \in Int, r \in Int, h \in Int, v \in Int :
        /\ g = First1' /\ o = Len(posted') /\ j = Len(iocp') /\ d = Cardinality(Busy') /\ e = Cardinality(Adding')
        /\ r = Cardinality(InDispatch') /\ h = Cardinality(Inside') /\ v = Cardinality(Using')
  BY <1>2, <1>a, Zenon
<1>5. nRefCount = f + p + i + 2 * b - a + q + c + u
  BY <1>3, RefCountIs
<1>6. /\ g = f + df /\ o + j = p + i + dr /\ 2 * d - e = 2 * b - a + dw
      /\ r = q + dq /\ h = c + dc /\ v = u + du
  BY <1>3, <1>4
<1>7. nRefCount' = g + o + j + 2 * d - e + r + h + v
  BY <1>5, <1>6
<1>8. QED
  BY <1>4, <1>7, RefCountIs

\* What does not change counts as before.
LEMMA SameCounts ==
  /\ initialRef' = initialRef => First1' = First1 + 0
  /\ posted' = posted /\ iocp' = iocp /\ Len(posted) \in Nat /\ Len(iocp) \in Nat
       => Len(posted') + Len(iocp') = Len(posted) + Len(iocp) + 0
  /\ worker' = worker
       => 2 * Cardinality(Busy') - Cardinality(Adding') = 2 * Cardinality(Busy) - Cardinality(Adding) + 0
  /\ discPc' = discPc => Cardinality(Inside') = Cardinality(Inside) + 0
  /\ senderPc' = senderPc => Cardinality(Using') = Cardinality(Using) + 0
  /\ queue' = queue /\ disp' = disp /\ IsFiniteSet(InDispatch)
       => IsFiniteSet(InDispatch') /\ Cardinality(InDispatch') = Cardinality(InDispatch) + 0
<1>1. initialRef' = initialRef => First1' = First1 + 0
  BY DEF First1
<1>2. posted' = posted /\ iocp' = iocp /\ Len(posted) \in Nat /\ Len(iocp) \in Nat
        => Len(posted') + Len(iocp') = Len(posted) + Len(iocp) + 0
  OBVIOUS
<1>3. worker' = worker
       => 2 * Cardinality(Busy') - Cardinality(Adding') = 2 * Cardinality(Busy) - Cardinality(Adding) + 0
  <2>1. worker' = worker => Busy' = Busy /\ Adding' = Adding
    BY DEF Busy, Adding
  <2>2. QED
    BY <2>1, CountsTyped
<1>4. discPc' = discPc => Cardinality(Inside') = Cardinality(Inside) + 0
  <2>1. discPc' = discPc => Inside' = Inside
    BY DEF Inside
  <2>2. QED
    BY <2>1, CountsTyped
<1>5. senderPc' = senderPc => Cardinality(Using') = Cardinality(Using) + 0
  <2>1. senderPc' = senderPc => Using' = Using
    BY DEF Using
  <2>2. QED
    BY <2>1, CountsTyped
<1>6. queue' = queue /\ disp' = disp /\ IsFiniteSet(InDispatch)
       => IsFiniteSet(InDispatch') /\ Cardinality(InDispatch') = Cardinality(InDispatch) + 0
  <2>1. queue' = queue /\ disp' = disp => InDispatch' = InDispatch
    BY DEF InDispatch, Held
  <2>2. QED
    BY <2>1, FS_CardinalityType
<1>7. QED
  BY <1>1, <1>2, <1>3, <1>4, <1>5, <1>6

----------------------------------------------------------------------------
(* The count, step by step *)

Exact == IsFiniteSet(InDispatch) /\ RefCountExact

\* A worker's step: the pending and completed reads and what it dispatches
\* change with it.
LEMMA WorkerBalanced ==
  ASSUME IInv, IInv', Exact, NEW w \in Workers, \A v \in Workers \ {w} : worker'[v] = worker[v],
         initialRef' = initialRef, senderPc' = senderPc, Cardinality(Inside') = Cardinality(Inside),
         NEW dr \in Int, Len(posted') + Len(iocp') = Len(posted) + Len(iocp) + dr,
         NEW dq \in Int, IsFiniteSet(InDispatch'), Cardinality(InDispatch') = Cardinality(InDispatch) + dq,
         NEW dn \in Int, nRefCount' = nRefCount + dn,
         dn = dr + dq + WorkerRefs(worker'[w].pc) - WorkerRefs(worker[w].pc)
  PROVE  Exact'
<1>1. WorkerRefs(worker'[w].pc) \in Int /\ WorkerRefs(worker[w].pc) \in Int
  BY DEF WorkerRefs
<1>2. PICK dw \in Int : dw = WorkerRefs(worker'[w].pc) - WorkerRefs(worker[w].pc)
  BY <1>1
<1>3. 2 * Cardinality(Busy') - Cardinality(Adding') = 2 * Cardinality(Busy) - Cardinality(Adding) + dw
  <2>1. 2 * Cardinality(Busy') - Cardinality(Adding') = 2 * Cardinality(Busy) - Cardinality(Adding)
             + WorkerRefs(worker'[w].pc) - WorkerRefs(worker[w].pc)
    BY WorkerCounts
  <2>2. QED
    BY <1>1, <1>2, <2>1, CountsTyped
<1>4. First1' = First1 + 0 /\ Cardinality(Using') = Cardinality(Using) + 0
  BY SameCounts
<1>5. Cardinality(Inside') = Cardinality(Inside) + 0
  BY CountsTyped
<1>6. nRefCount' = nRefCount + (0 + dr + dw + dq + 0 + 0)
  BY <1>1, <1>2
<1>7. IsFiniteSet(InDispatch) /\ RefCountExact
  BY DEF Exact
<1>8. 0 \in Int
  OBVIOUS
<1>9. Changes(0, dr, dw, dq, 0, 0)
  BY <1>3, <1>4, <1>5, <1>6, Zenon DEF Changes
<1>10. RefCountExact'
  BY <1>7, <1>8, <1>9, Balanced
<1>11. QED
  BY <1>10 DEF Exact

\* A step of a thread that disconnects, with the initial reference, the reads
\* and the messages it frees.
LEMMA InsideBalanced ==
  ASSUME IInv, IInv', Exact, NEW t \in Threads, \A u \in Threads \ {t} : discPc'[u] = discPc[u],
         worker' = worker, senderPc' = senderPc,
         NEW df \in Int, First1' = First1 + df,
         Len(posted') + Len(iocp') = Len(posted) + Len(iocp) + 0,
         NEW dq \in Int, IsFiniteSet(InDispatch'), Cardinality(InDispatch') = Cardinality(InDispatch) + dq,
         NEW dn \in Int, nRefCount' = nRefCount + dn,
         dn = df + dq + InsideRefs(t, discPc'[t]) - InsideRefs(t, discPc[t])
  PROVE  Exact'
<1>1. InsideRefs(t, discPc'[t]) \in Int /\ InsideRefs(t, discPc[t]) \in Int
  BY DEF InsideRefs
<1>2. PICK dc \in Int : dc = InsideRefs(t, discPc'[t]) - InsideRefs(t, discPc[t])
  BY <1>1
<1>3. Cardinality(Inside') = Cardinality(Inside) + dc
  <2>1. Cardinality(Inside') = Cardinality(Inside) + InsideRefs(t, discPc'[t]) - InsideRefs(t, discPc[t])
    BY InsideCounts
  <2>2. QED
    BY <1>1, <1>2, <2>1, CountsTyped
<1>4. /\ Cardinality(Using') = Cardinality(Using) + 0
      /\ 2 * Cardinality(Busy') - Cardinality(Adding') = 2 * Cardinality(Busy) - Cardinality(Adding) + 0
  BY SameCounts
<1>5. nRefCount' = nRefCount + (df + 0 + 0 + dq + dc + 0)
  BY <1>1, <1>2
<1>6. IsFiniteSet(InDispatch) /\ RefCountExact
  BY DEF Exact
<1>7. 0 \in Int
  OBVIOUS
<1>8. Changes(df, 0, 0, dq, dc, 0)
  BY <1>3, <1>4, <1>5, Zenon DEF Changes
<1>9. RefCountExact'
  BY <1>6, <1>7, <1>8, Balanced
<1>10. QED
  BY <1>9 DEF Exact

\* The reference count is an integer, being a sum of counts.
LEMMA RefCountTyped ==
  ASSUME IInv, Exact
  PROVE  nRefCount \in Int
<1>1. /\ Len(posted) \in Int /\ Len(iocp) \in Int /\ Cardinality(Busy) \in Int /\ Cardinality(Adding) \in Int
      /\ Cardinality(InDispatch) \in Int /\ Cardinality(Inside) \in Int /\ Cardinality(Using) \in Int
      /\ First1 \in Int
  <2>1. posted \in Seq(Nat) /\ iocp \in Seq(Packet)
    BY DEF IInv, OrderTypes
  <2>2. Len(posted) \in Nat /\ Len(iocp) \in Nat
    BY <2>1, LenProperties
  <2>3. Cardinality(InDispatch) \in Nat
    BY FS_CardinalityType DEF Exact
  <2>4. First1 \in Int
    BY DEF First1
  <2>5. QED
    BY <2>2, <2>3, <2>4, CountsTyped
<1>2. PICK f \in Int, p \in Int, i \in Int, b \in Int, a \in Int, q \in Int, c \in Int, u \in Int :
        /\ f = First1 /\ p = Len(posted) /\ i = Len(iocp) /\ b = Cardinality(Busy) /\ a = Cardinality(Adding)
        /\ q = Cardinality(InDispatch) /\ c = Cardinality(Inside) /\ u = Cardinality(Using)
  BY <1>1, Zenon
<1>3. nRefCount = f + p + i + 2 * b - a + q + c + u
  BY <1>2, RefCountIs DEF Exact
<1>4. QED
  BY <1>3

\* Nothing that counts changes.
LEMMA ExactKept ==
  ASSUME IInv, IInv', Exact, nRefCount' = nRefCount,
         Len(posted') + Len(iocp') = Len(posted) + Len(iocp),
         worker' = worker, discPc' = discPc, initialRef' = initialRef, senderPc' = senderPc,
         queue' = queue, disp' = disp
  PROVE  Exact'
<1>1. IsFiniteSet(InDispatch) /\ RefCountExact
  BY DEF Exact
<1>2. /\ First1' = First1 + 0 /\ Cardinality(Inside') = Cardinality(Inside) + 0
      /\ Cardinality(Using') = Cardinality(Using) + 0
      /\ 2 * Cardinality(Busy') - Cardinality(Adding') = 2 * Cardinality(Busy) - Cardinality(Adding) + 0
      /\ IsFiniteSet(InDispatch') /\ Cardinality(InDispatch') = Cardinality(InDispatch) + 0
  BY <1>1, SameCounts
<1>3. Len(posted') + Len(iocp') = Len(posted) + Len(iocp) + 0
  BY LensTyped
<1>4. 0 \in Int /\ 0 + 0 + 0 + 0 + 0 + 0 = 0
  OBVIOUS
<1>5. nRefCount' = nRefCount + (0 + 0 + 0 + 0 + 0 + 0)
  <2>1. nRefCount \in Int
    BY RefCountTyped
  <2>2. QED
    BY <2>1
<1>6. Changes(0, 0, 0, 0, 0, 0)
  BY <1>2, <1>3, <1>5, Zenon DEF Changes
<1>7. RefCountExact'
  BY <1>1, <1>2, <1>4, <1>6, Balanced
<1>8. QED
  BY <1>2, <1>7 DEF Exact

\* The reads that the kernel completes are the same in number.
LEMMA ReadsMove ==
  ASSUME IInv
  PROVE  /\ posted # <<>> => /\ Len(Append(iocp, [ok |-> TRUE, order |-> Head(posted), msg |-> Head(pipe)]))
                                  = Len(iocp) + 1
                             /\ Len(Tail(posted)) = Len(posted) - 1
         /\ iocp # <<>> => Len(Tail(iocp)) = Len(iocp) - 1
         /\ \A o \in Nat : Len(Append(posted, o)) = Len(posted) + 1
         /\ Len(iocp \o FailedPackets(posted)) + Len(<<>>) = Len(posted) + Len(iocp)
         /\ Len(posted) \in Nat /\ Len(iocp) \in Nat
<1>1. posted \in Seq(Nat) /\ iocp \in Seq(Packet) /\ Len(posted) \in Nat /\ Len(iocp) \in Nat
  BY LenProperties DEF IInv, OrderTypes
<1>2. \A x : Len(Append(iocp, x)) = Len(iocp) + 1
  BY <1>1
<1>3. iocp # <<>> => Len(Tail(iocp)) = Len(iocp) - 1
  BY <1>1, HeadTailProperties
<1>4. posted # <<>> => Len(Tail(posted)) = Len(posted) - 1
  BY <1>1, HeadTailProperties
<1>5. \A o \in Nat : Len(Append(posted, o)) = Len(posted) + 1
  BY <1>1, AppendProperties
<1>6. Len(iocp \o FailedPackets(posted)) = Len(iocp) + Len(posted) /\ Len(<<>>) = 0
  BY FailedReads, EmptySeq DEF IInv
<1>7. QED
  BY <1>1, <1>2, <1>3, <1>4, <1>5, <1>6

\* A completed read moves its reference from posted to iocp.
LEMMA ExactKernel ==
  ASSUME IInv, IInv', Exact, AgentWrite \/ AgentBreak \/ ReadCompletes \/ ReadsFail
  PROVE  Exact'
<1> USE DEF refVars, dispVars, discVars, clientVars
<1>1. CASE AgentWrite \/ AgentBreak
  BY <1>1, ExactKept DEF AgentWrite, AgentBreak
<1>2. CASE ReadCompletes
  <2>1. Len(posted') + Len(iocp') = Len(posted) + Len(iocp)
    <3>1. /\ Len(iocp') = Len(iocp) + 1 /\ Len(posted') = Len(posted) - 1
          /\ Len(posted) \in Nat /\ Len(iocp) \in Nat
      BY <1>2, ReadsMove DEF ReadCompletes
    <3>2. QED
      BY <3>1
  <2>2. QED
    BY <1>2, <2>1, ExactKept DEF ReadCompletes
<1>3. CASE ReadsFail
  <2>1. Len(posted') + Len(iocp') = Len(posted) + Len(iocp)
    <3>1. /\ iocp' = iocp \o FailedPackets(posted) /\ posted' = <<>>
          /\ Len(iocp \o FailedPackets(posted)) + Len(<<>>) = Len(posted) + Len(iocp)
      BY <1>3, ReadsMove DEF ReadsFail
    <3>2. Len(posted') \in Nat /\ Len(iocp') \in Nat
      BY LensTyped
    <3>3. QED
      BY <3>1, <3>2
  <2>2. QED
    BY <1>3, <2>1, ExactKept DEF ReadsFail
<1>4. QED
  BY <1>1, <1>2, <1>3

\* A worker takes and returns the references of a read and of the packet.
LEMMA ExactWorker ==
  ASSUME IInv, IInv', DispInv, Exact, NEW w \in Workers, WorkerStep(w)
  PROVE  Exact'
<1> USE DEF dispVars, discVars, clientVars, refVars, kernelVars, AddRef, Release, GoTo, At
<1>1. /\ worker \in [Workers -> WorkerRecord] /\ IsFiniteSet(InDispatch)
      /\ Cardinality(InDispatch) \in Nat /\ Cardinality(Inside) \in Nat
      /\ Len(posted) \in Nat /\ Len(iocp) \in Nat
  BY CountsTyped, FS_CardinalityType, LensTyped DEF Exact, IInv, OrderTypes, WorkerRecord
<1>2. 0 \in Int /\ 1 \in Int /\ -1 \in Int /\ -2 \in Int
  OBVIOUS
<1>3. ASSUME queue' = queue, disp' = disp
      PROVE  IsFiniteSet(InDispatch') /\ Cardinality(InDispatch') = Cardinality(InDispatch) + 0
  BY <1>1, <1>3, SameCounts
<1>4. ASSUME discPc' = discPc PROVE Cardinality(Inside') = Cardinality(Inside)
  BY <1>4 DEF Inside
<1>5. nRefCount \in Int
  BY RefCountTyped
<1>6. CASE Dequeue(w)
  <2>1. /\ iocp # <<>> /\ iocp' = Tail(iocp) /\ posted' = posted /\ nRefCount' = nRefCount + 1
        /\ worker[w].pc = "idle" /\ initialRef' = initialRef /\ senderPc' = senderPc /\ discPc' = discPc
        /\ queue' = queue /\ disp' = disp
    BY <1>6 DEF Dequeue
  <2>2. worker'[w].pc \in {"error", "end", "readed"} /\ \A v \in Workers \ {w} : worker'[v] = worker[v]
    BY <1>1, <1>6 DEF Dequeue
  <2>3. Len(posted') + Len(iocp') = Len(posted) + Len(iocp) + (-1)
    <3>1. Len(Tail(iocp)) = Len(iocp) - 1
      BY <2>1, ReadsMove
    <3>2. QED
      BY <1>1, <2>1, <3>1
  <2>4. WorkerRefs(worker'[w].pc) = 2 /\ WorkerRefs(worker[w].pc) = 0
    BY <2>1, <2>2 DEF WorkerRefs
  <2>5. 1 = (-1) + 0 + WorkerRefs(worker'[w].pc) - WorkerRefs(worker[w].pc)
    BY <2>4
  <2>6. QED
    BY <1>2, <1>3, <1>4, <2>1, <2>2, <2>3, <2>5, WorkerBalanced
<1>7. CASE AddBufferInSortedReadedQueue(w) \/ FetchNextOrder(w) \/ GetBufferFromSortedReadedQueue(w)
           \/ IncrementOrder(w)
  <2>1. /\ iocp' = iocp /\ posted' = posted /\ nRefCount' = nRefCount
        /\ worker[w].pc \in {"readed", "fetch", "get", "increment", "refused"}
        /\ initialRef' = initialRef /\ senderPc' = senderPc /\ discPc' = discPc
        /\ queue' = queue /\ disp' = disp
    BY <1>7 DEF AddBufferInSortedReadedQueue, FetchNextOrder, GetBufferFromSortedReadedQueue, IncrementOrder
  <2>2. /\ worker'[w].pc \in {"ahead", "get", "end", "dispatch", "fetch", "error"}
        /\ \A v \in Workers \ {w} : worker'[v] = worker[v]
    <3>1. CASE AddBufferInSortedReadedQueue(w) \/ FetchNextOrder(w) \/ IncrementOrder(w)
      BY <1>1, <3>1 DEF AddBufferInSortedReadedQueue, FetchNextOrder, IncrementOrder, WorkerRecord
    <3>2. CASE GetBufferFromSortedReadedQueue(w)
      <4>1. CASE GoTo(w, "end")
        BY <1>1, <4>1 DEF WorkerRecord
      <4>2. CASE \E b \in readedQueue :
                   worker' = [worker EXCEPT ![w].pc = "dispatch", ![w].order = b.order, ![w].msg = b.msg]
        BY <1>1, <4>2 DEF WorkerRecord
      <4>3. QED
        BY <3>2, <4>1, <4>2 DEF GetBufferFromSortedReadedQueue
    <3>3. QED
      BY <1>7, <3>1, <3>2
  <2>3. Len(posted') + Len(iocp') = Len(posted) + Len(iocp) + 0 /\ nRefCount' = nRefCount + 0
    BY <1>1, <1>5, <2>1
  <2>4. WorkerRefs(worker'[w].pc) = 2 /\ WorkerRefs(worker[w].pc) = 2
    BY <2>1, <2>2 DEF WorkerRefs
  <2>5. 0 = 0 + 0 + WorkerRefs(worker'[w].pc) - WorkerRefs(worker[w].pc)
    BY <2>4
  <2>6. QED
    BY <1>2, <1>3, <1>4, <2>1, <2>2, <2>3, <2>5, WorkerBalanced
<1>8. CASE SendReadPacket(w)
  <2>1. /\ iocp' = iocp /\ nRefCount' = nRefCount /\ worker[w].pc = "ahead"
        /\ initialRef' = initialRef /\ senderPc' = senderPc /\ discPc' = discPc
        /\ queue' = queue /\ disp' = disp /\ \A v \in Workers \ {w} : worker'[v] = worker[v]
    BY <1>1, <1>8 DEF SendReadPacket
  <2>2. WorkerRefs(worker[w].pc) = 2 /\ nRefCount' = nRefCount + 0
    BY <1>5, <2>1 DEF WorkerRefs
  <2>3. CASE posted' = Append(posted, nNextReadOrder + 1) /\ worker' = [worker EXCEPT ![w].pc = "addref"]
    <3>1. worker'[w].pc = "addref" /\ WorkerRefs(worker'[w].pc) = 1
      BY <1>1, <2>3 DEF WorkerRefs, WorkerRecord
    <3>2. Len(posted') = Len(posted) + 1
      BY <2>3, ReadsMove DEF IInv, OrderTypes
    <3>3. Len(posted') + Len(iocp') = Len(posted) + Len(iocp) + 1
      BY <1>1, <2>1, <3>2
    <3>4. 0 = 1 + 0 + WorkerRefs(worker'[w].pc) - WorkerRefs(worker[w].pc)
      BY <2>2, <3>1
    <3>5. QED
      BY <1>2, <1>3, <1>4, <2>1, <2>2, <3>3, <3>4, WorkerBalanced
  <2>4. CASE posted' = posted /\ worker' = [worker EXCEPT ![w].pc = "error"]
    <3>1. worker'[w].pc = "error" /\ WorkerRefs(worker'[w].pc) = 2
      BY <1>1, <2>4 DEF WorkerRefs, WorkerRecord
    <3>2. Len(posted') + Len(iocp') = Len(posted) + Len(iocp) + 0
      BY <1>1, <2>1, <2>4
    <3>3. 0 = 0 + 0 + WorkerRefs(worker'[w].pc) - WorkerRefs(worker[w].pc)
      BY <2>2, <3>1
    <3>4. QED
      BY <1>2, <1>3, <1>4, <2>1, <2>2, <3>2, <3>3, WorkerBalanced
  <2>5. QED
    BY <1>8, <2>3, <2>4 DEF SendReadPacket
<1>9. CASE AddRefForRead(w)
  <2>1. /\ iocp' = iocp /\ posted' = posted /\ nRefCount' = nRefCount + 1 /\ worker[w].pc = "addref"
        /\ initialRef' = initialRef /\ senderPc' = senderPc /\ discPc' = discPc
        /\ queue' = queue /\ disp' = disp /\ \A v \in Workers \ {w} : worker'[v] = worker[v]
    BY <1>1, <1>9 DEF AddRefForRead
  <2>2. worker'[w].pc = "fetch"
    BY <1>1, <1>9 DEF AddRefForRead, WorkerRecord
  <2>3. WorkerRefs(worker'[w].pc) = 2 /\ WorkerRefs(worker[w].pc) = 1
    BY <2>1, <2>2 DEF WorkerRefs
  <2>4. 1 = 0 + 0 + WorkerRefs(worker'[w].pc) - WorkerRefs(worker[w].pc)
    BY <2>3
  <2>5. Len(posted') + Len(iocp') = Len(posted) + Len(iocp) + 0
    BY <1>1, <2>1
  <2>6. QED
    BY <1>2, <1>3, <1>4, <2>1, <2>4, <2>5, WorkerBalanced
<1>10. CASE DispatchReadMessage(w)
  <2>1. /\ iocp' = iocp /\ posted' = posted /\ worker[w].pc = "dispatch"
        /\ initialRef' = initialRef /\ senderPc' = senderPc /\ discPc' = discPc
        /\ \E p \in {"increment", "refused"} : worker' = [worker EXCEPT ![w].pc = p]
    BY <1>10 DEF DispatchReadMessage
  <2>2. worker'[w].pc \in {"increment", "refused"} /\ \A v \in Workers \ {w} : worker'[v] = worker[v]
    BY <1>1, <2>1 DEF WorkerRecord
  <2>3. WorkerRefs(worker'[w].pc) = 2 /\ WorkerRefs(worker[w].pc) = 2
    BY <2>1, <2>2 DEF WorkerRefs
  <2>4. Len(posted') + Len(iocp') = Len(posted) + Len(iocp) + 0
    BY <1>1, <2>1
  <2>5. CASE UNCHANGED <<dispVars, dispatched, refVars>>
    <3>1. queue' = queue /\ disp' = disp /\ nRefCount' = nRefCount + 0
      BY <1>5, <2>5
    <3>2. 0 = 0 + 0 + WorkerRefs(worker'[w].pc) - WorkerRefs(worker[w].pc)
      BY <2>3
    <3>3. QED
      BY <1>2, <1>3, <1>4, <2>1, <2>2, <2>4, <3>1, <3>2, WorkerBalanced
  <2>6. ASSUME NEW d \in Dispatchers, DispInv', OnlyAt(d), AddRef, Held(d)' = Held(d) + 1
        PROVE  Exact'
    <3>1. Held(d) \in Nat /\ Held(d)' \in Nat
      BY <2>6, DispatcherParts
    <3>2. /\ IsFiniteSet(InDispatch')
          /\ Cardinality(InDispatch') = Cardinality(InDispatch) + Held(d)' - Held(d)
      BY <1>1, <2>6, <3>1, HeldCounts
    <3>3. Cardinality(InDispatch') = Cardinality(InDispatch) + 1
      BY <1>1, <2>6, <3>1, <3>2
    <3>4. 1 = 0 + 1 + WorkerRefs(worker'[w].pc) - WorkerRefs(worker[w].pc)
      BY <2>3
    <3>5. nRefCount' = nRefCount + 1
      BY <2>6
    <3>6. QED
      BY <1>2, <1>4, <2>1, <2>2, <2>4, <3>2, <3>3, <3>4, <3>5, WorkerBalanced
  <2>7. QED
    BY <1>10, <2>5, <2>6, DispatchDoes
<1>11. CASE WorkerError(w)
  <2>1. /\ iocp' = iocp /\ posted' = posted /\ nRefCount' = nRefCount /\ worker[w].pc = "error"
        /\ initialRef' = initialRef /\ senderPc' = senderPc
        /\ discPc[w] = "none" /\ discPc' = [discPc EXCEPT ![w] = "enter"]
        /\ worker' = [worker EXCEPT ![w].pc = "end"]
        /\ queue' = queue /\ disp' = disp
    BY <1>11 DEF WorkerError
  <2>2. worker'[w].pc = "end" /\ \A v \in Workers \ {w} : worker'[v] = worker[v]
    BY <1>1, <2>1 DEF WorkerRecord
  <2>3. WorkerRefs(worker'[w].pc) = 2 /\ WorkerRefs(worker[w].pc) = 2
    BY <2>1, <2>2 DEF WorkerRefs
  <2>4. 0 = 0 + 0 + WorkerRefs(worker'[w].pc) - WorkerRefs(worker[w].pc)
    BY <2>3
  <2>5. Len(posted') + Len(iocp') = Len(posted) + Len(iocp) + 0 /\ nRefCount' = nRefCount + 0
    BY <1>1, <1>5, <2>1
  <2>6. Inside' = Inside
    <3>1. discPc \in [Threads -> DiscStates] /\ w \in Threads
      BY DEF IInv, OrderTypes, Threads
    <3>2. discPc'[w] = "enter" /\ \A u \in Threads \ {w} : discPc'[u] = discPc[u]
      BY <2>1, <3>1
    <3>3. QED
      BY <2>1, <3>2 DEF Inside
  <2>7. Cardinality(Inside') = Cardinality(Inside)
    BY <2>6
  <2>8. QED
    BY <1>2, <1>3, <2>1, <2>2, <2>4, <2>5, <2>7, WorkerBalanced
<1>12. CASE WorkerEnd(w)
  <2>1. /\ iocp' = iocp /\ posted' = posted /\ nRefCount' = nRefCount - 2 /\ worker[w].pc = "end"
        /\ initialRef' = initialRef /\ senderPc' = senderPc /\ discPc' = discPc
        /\ worker' = [worker EXCEPT ![w] = Idle]
        /\ queue' = queue /\ disp' = disp
    BY <1>12 DEF WorkerEnd
  <2>2. worker'[w].pc = "idle" /\ \A v \in Workers \ {w} : worker'[v] = worker[v]
    BY <1>1, <2>1 DEF Idle
  <2>3. WorkerRefs(worker'[w].pc) = 0 /\ WorkerRefs(worker[w].pc) = 2
    BY <2>1, <2>2 DEF WorkerRefs
  <2>4. -2 = 0 + 0 + WorkerRefs(worker'[w].pc) - WorkerRefs(worker[w].pc)
    BY <2>3
  <2>5. Len(posted') + Len(iocp') = Len(posted) + Len(iocp) + 0 /\ nRefCount' = nRefCount + (-2)
    BY <1>1, <1>5, <2>1
  <2>6. QED
    BY <1>2, <1>3, <1>4, <2>1, <2>2, <2>4, <2>5, WorkerBalanced
<1>13. QED
  BY <1>6, <1>7, <1>8, <1>9, <1>10, <1>11, <1>12 DEF WorkerStep

\* What a dispatcher holds is a number, before a step and after it.
LEMMA HeldTyped ==
  ASSUME DispInv, DispInv', NEW d \in Dispatchers
  PROVE  Held(d) \in Nat /\ Held(d)' \in Nat /\ Len(queue[d]) \in Nat /\ disp[d].done \in Nat
<1>1. Held(d) \in Nat /\ Len(queue[d]) \in Nat /\ disp[d].done \in Nat
  BY DispatcherParts
<1>2. queue'[d] \in Seq(Msgs) /\ disp'[d].batch \in Seq(Msgs)
  BY DEF DispInv, DispTypes, DispRecord
<1>3. Len(queue'[d]) \in Nat /\ Len(disp'[d].batch) \in Nat
  BY <1>2, LenProperties
<1>4. \A m, n \in Nat : m + n \in Nat
  OBVIOUS
<1>5. Held(d)' \in Nat
  BY <1>3, <1>4, Zenon DEF Held
<1>6. QED
  BY <1>1, <1>5

\* A dispatcher returns the references of the messages it processed.
LEMMA ExactDispatcher ==
  ASSUME IInv, IInv', DispInv, Exact, NEW d \in Dispatchers, DispatcherStep(d)
  PROVE  Exact'
<1>1. /\ DispInv' /\ OnlyAt(d)
      /\ Held(d)' = Held(d) \/ (ReleaseRound(d) /\ Held(d)' = Held(d) - disp[d].done)
  BY DispatcherMoves
<1>2. Held(d) \in Nat /\ Held(d)' \in Nat /\ disp[d].done \in Nat
  BY <1>1, HeldTyped
<1>3. IsFiniteSet(InDispatch) /\ Cardinality(InDispatch) \in Nat /\ RefCountExact /\ nRefCount \in Int
  BY RefCountTyped, FS_CardinalityType DEF Exact
<1>4. IsFiniteSet(InDispatch') /\ Cardinality(InDispatch') = Cardinality(InDispatch) + Held(d)' - Held(d)
  BY <1>1, <1>2, <1>3, HeldCounts
<1>5. /\ posted' = posted /\ iocp' = iocp /\ worker' = worker /\ initialRef' = initialRef /\ senderPc' = senderPc
  BY DEF kernelVars, discVars, clientVars, DispatcherStep, Wake, TakeRound, ProcessMessage, EndRound, ReleaseRound
<1>6. Inside' = Inside
  <2>1. CASE ReleaseRound(d)
    <3>1. d \in Threads /\ discPc \in [Threads -> DiscStates]
      BY DEF IInv, OrderTypes, Threads
    <3>2. /\ discPc[d] = "none" /\ discPc'[d] \in {"enter", "none"}
          /\ \A u \in Threads \ {d} : discPc'[u] = discPc[u]
      BY <2>1, <3>1 DEF ReleaseRound, DispAt
    <3>3. QED
      BY <3>2 DEF Inside
  <2>2. CASE ~ReleaseRound(d)
    BY <2>2 DEF discVars, DispatcherStep, Wake, TakeRound, ProcessMessage, EndRound, Inside
  <2>3. QED
    BY <2>1, <2>2
<1>7. /\ First1' = First1 + 0 /\ Cardinality(Using') = Cardinality(Using) + 0
      /\ Len(posted') + Len(iocp') = Len(posted) + Len(iocp) + 0
      /\ 2 * Cardinality(Busy') - Cardinality(Adding') = 2 * Cardinality(Busy) - Cardinality(Adding) + 0
  BY <1>5, SameCounts, LensTyped
<1>8. Cardinality(Inside') = Cardinality(Inside) + 0
  BY <1>6, CountsTyped
<1>9. PICK dq \in Int : /\ dq = Held(d)' - Held(d)
                        /\ Cardinality(InDispatch') = Cardinality(InDispatch) + dq
                        /\ nRefCount' = nRefCount + dq
  <2>1. CASE ReleaseRound(d)
    <3>1. nRefCount' = nRefCount - disp[d].done
      BY <2>1 DEF ReleaseRound, Release
    <3>2. Held(d)' = Held(d) - disp[d].done
      BY <2>1, ReleaseRoundDoes
    <3>3. QED
      BY <1>2, <1>3, <1>4, <3>1, <3>2
  <2>2. CASE ~ReleaseRound(d)
    <3>1. nRefCount' = nRefCount
      BY <2>2 DEF refVars, DispatcherStep, Wake, TakeRound, ProcessMessage, EndRound
    <3>2. QED
      BY <1>1, <1>2, <1>3, <1>4, <2>2, <3>1
  <2>3. QED
    BY <2>1, <2>2
<1>10. 0 \in Int /\ dq \in Int
  OBVIOUS
<1>11. nRefCount' = nRefCount + (0 + 0 + 0 + dq + 0 + 0)
  BY <1>3, <1>9
<1>12. IsFiniteSet(InDispatch) /\ IsFiniteSet(InDispatch') /\ RefCountExact
  BY <1>3, <1>4
<1>13. Cardinality(InDispatch') = Cardinality(InDispatch) + dq
  BY <1>9
<1>14. Changes(0, 0, 0, dq, 0, 0)
  BY <1>7, <1>8, <1>11, <1>13, Zenon DEF Changes
<1>15. RefCountExact'
  BY <1>10, <1>12, <1>14, Balanced
<1>16. QED
  BY <1>12, <1>15 DEF Exact

\* A disconnect returns the references of the messages it frees, the initial
\* one once, and its own.
LEMMA ExactDisconnect ==
  ASSUME IInv, IInv', RestTypes, DispInv, FirstInv, Exact, NEW t \in Threads, DisconnectStep(t)
  PROVE  Exact'
<1> USE DEF dispVars, clientVars, refVars, kernelVars, AddRef, Release, DiscGoTo, DiscAt
<1>1. /\ discPc \in [Threads -> DiscStates] /\ IsFiniteSet(InDispatch) /\ Cardinality(InDispatch) \in Nat
      /\ Len(posted) \in Nat /\ Len(iocp) \in Nat /\ Len(posted') \in Nat /\ Len(iocp') \in Nat
      /\ nRefCount \in Int
  BY RefCountTyped, FS_CardinalityType, LensTyped DEF Exact, IInv, OrderTypes
<1>2. 0 \in Int /\ 1 \in Int /\ -1 \in Int
  OBVIOUS
<1>3. ASSUME queue' = queue, disp' = disp
      PROVE  IsFiniteSet(InDispatch') /\ Cardinality(InDispatch') = Cardinality(InDispatch) + 0
  BY <1>1, <1>3, SameCounts
<1>4. ASSUME initialRef' = initialRef PROVE First1' = First1 + 0
  BY <1>4, SameCounts
<1>5. ASSUME posted' = posted, iocp' = iocp PROVE Len(posted') + Len(iocp') = Len(posted) + Len(iocp) + 0
  BY <1>1, <1>5
<1>6. worker' = worker /\ senderPc' = senderPc
  BY DEF DisconnectStep, DiscEnter, RemoveConnection, ShutdownConnection, DiscardAllBuffers, ConnectionClosed,
         DiscRelock, ReleaseInitial, DiscLeave, DiscUnlock
<1>7. Returned(t) \in {"none", "done"}
  BY DEF Returned
<1>8. CASE DiscEnter(t)
  <2>1. /\ discPc[t] = "enter" /\ t \notin Finalizers
        /\ queue' = queue /\ disp' = disp /\ initialRef' = initialRef /\ posted' = posted /\ iocp' = iocp
    BY <1>8 DEF DiscEnter, FirstInv
  <2>2. CASE discPc' = [discPc EXCEPT ![t] = Returned(t)] /\ nRefCount' = nRefCount
    <3>1. discPc'[t] \in {"none", "done"} /\ \A u \in Threads \ {t} : discPc'[u] = discPc[u]
      BY <1>1, <1>7, <2>2
    <3>2. 0 = 0 + 0 + InsideRefs(t, discPc'[t]) - InsideRefs(t, discPc[t]) /\ nRefCount' = nRefCount + 0
      BY <1>1, <2>1, <2>2, <3>1 DEF InsideRefs
    <3>3. QED
      BY <1>2, <1>3, <1>4, <1>5, <1>6, <2>1, <3>1, <3>2, InsideBalanced
  <2>3. CASE discPc' = [discPc EXCEPT ![t] = "remove"] /\ nRefCount' = nRefCount + 1
    <3>1. discPc'[t] = "remove" /\ \A u \in Threads \ {t} : discPc'[u] = discPc[u]
      BY <1>1, <2>3
    <3>2. 1 = 0 + 0 + InsideRefs(t, discPc'[t]) - InsideRefs(t, discPc[t])
      BY <2>1, <3>1 DEF InsideRefs
    <3>3. QED
      BY <1>2, <1>3, <1>4, <1>5, <1>6, <2>1, <2>3, <3>1, <3>2, InsideBalanced
  <2>4. QED
    BY <1>8, <2>2, <2>3 DEF DiscEnter
<1>9. CASE RemoveConnection(t)
  <2>1. PICK d \in toClear[t] : /\ queue' = [queue EXCEPT ![d] = <<>>]
                                /\ nRefCount' = nRefCount - Len(queue[d])
    BY <1>9 DEF RemoveConnection
  <2>2. /\ d \in Dispatchers /\ hEvent' = hEvent /\ disp' = disp /\ handled' = handled
        /\ initialRef' = initialRef /\ posted' = posted /\ iocp' = iocp /\ discPc' = discPc
    BY <1>9 DEF RemoveConnection, RestTypes, DiscTypes
  <2>3. DispInv' /\ OnlyAt(d) /\ Held(d)' = Held(d) - Len(queue[d])
    BY <2>1, <2>2, ClearDoes
  <2>4. Held(d) \in Nat /\ Held(d)' \in Nat /\ Len(queue[d]) \in Nat
    BY <2>2, <2>3, HeldTyped
  <2>5. PICK n \in Nat : n = Len(queue[d])
    BY <2>4
  <2>6. IsFiniteSet(InDispatch') /\ Cardinality(InDispatch') = Cardinality(InDispatch) + Held(d)' - Held(d)
    BY <1>1, <2>2, <2>3, <2>4, HeldCounts
  <2>7. Cardinality(InDispatch') = Cardinality(InDispatch) + (-n)
    BY <1>1, <2>3, <2>4, <2>5, <2>6
  <2>8. nRefCount' = nRefCount + (-n) /\ -n \in Int
    BY <1>1, <2>1, <2>5
  <2>9. InsideRefs(t, discPc'[t]) = InsideRefs(t, discPc[t]) /\ InsideRefs(t, discPc[t]) \in Int
    BY <2>2 DEF InsideRefs
  <2>10. -n = 0 + (-n) + InsideRefs(t, discPc'[t]) - InsideRefs(t, discPc[t])
    BY <2>9
  <2>11. QED
    BY <1>2, <1>4, <1>5, <1>6, <2>2, <2>6, <2>7, <2>8, <2>10, InsideBalanced
<1>10. CASE ShutdownConnection(t)
  <2>1. /\ discPc[t] = "remove" /\ queue' = queue /\ disp' = disp /\ initialRef' = initialRef
        /\ nRefCount' = nRefCount + 0
    BY <1>1, <1>10 DEF ShutdownConnection
  <2>2. discPc'[t] \in {"unref", "discard"} /\ \A u \in Threads \ {t} : discPc'[u] = discPc[u]
    BY <1>1, <1>10 DEF ShutdownConnection
  <2>3. 0 = 0 + 0 + InsideRefs(t, discPc'[t]) - InsideRefs(t, discPc[t])
    BY <2>1, <2>2 DEF InsideRefs
  <2>4. Len(posted') + Len(iocp') = Len(posted) + Len(iocp) + 0
    <3>1. CASE posted' = posted /\ iocp' = iocp
      BY <1>5, <3>1
    <3>2. CASE posted' = <<>> /\ iocp' = iocp \o FailedPackets(posted)
      <4>1. Len(iocp \o FailedPackets(posted)) + Len(<<>>) = Len(posted) + Len(iocp)
        BY ReadsMove
      <4>2. QED
        BY <1>1, <3>2, <4>1
    <3>3. QED
      BY <1>10, <3>1, <3>2 DEF ShutdownConnection
  <2>5. QED
    BY <1>2, <1>3, <1>4, <1>6, <2>1, <2>2, <2>3, <2>4, InsideBalanced
<1>11. CASE DiscardAllBuffers(t) \/ ConnectionClosed(t) \/ DiscRelock(t) \/ DiscUnlock(t)
  <2>1. /\ queue' = queue /\ disp' = disp /\ initialRef' = initialRef /\ posted' = posted /\ iocp' = iocp
        /\ nRefCount' = nRefCount + 0
    BY <1>1, <1>11 DEF DiscardAllBuffers, ConnectionClosed, DiscRelock, DiscUnlock
  <2>2. /\ \A u \in Threads \ {t} : discPc'[u] = discPc[u]
        /\ \/ discPc[t] \in {"discard", "callback", "relock"} /\ discPc'[t] \in {"callback", "relock", "release"}
           \/ discPc[t] = "leave" /\ discPc'[t] \in {"none", "done"}
    BY <1>1, <1>7, <1>11 DEF DiscardAllBuffers, ConnectionClosed, DiscRelock, DiscUnlock
  <2>3. 0 = 0 + 0 + InsideRefs(t, discPc'[t]) - InsideRefs(t, discPc[t])
    BY <2>2 DEF InsideRefs
  <2>4. QED
    BY <1>2, <1>3, <1>4, <1>5, <1>6, <2>1, <2>2, <2>3, InsideBalanced
<1>12. CASE ReleaseInitial(t)
  <2>1. /\ queue' = queue /\ disp' = disp /\ posted' = posted /\ iocp' = iocp /\ nRefCount' = nRefCount - 1
        /\ discPc[t] = "release" /\ initialRef' = FALSE
    BY <1>12 DEF ReleaseInitial
  <2>2. discPc'[t] = "unref" /\ \A u \in Threads \ {t} : discPc'[u] = discPc[u]
    BY <1>1, <1>12 DEF ReleaseInitial
  <2>3. initialRef
    BY <2>1 DEF FirstInv, First
  <2>4. First1' = First1 + (-1)
    BY <2>1, <2>3 DEF First1
  <2>5. -1 = (-1) + 0 + InsideRefs(t, discPc'[t]) - InsideRefs(t, discPc[t])
    BY <2>1, <2>2 DEF InsideRefs
  <2>6. nRefCount' = nRefCount + (-1)
    BY <1>1, <2>1
  <2>7. QED
    BY <1>2, <1>3, <1>5, <1>6, <2>1, <2>2, <2>4, <2>5, <2>6, InsideBalanced
<1>13. CASE DiscLeave(t)
  <2>1. /\ queue' = queue /\ disp' = disp /\ initialRef' = initialRef /\ posted' = posted /\ iocp' = iocp
        /\ discPc[t] = "unref" /\ nRefCount' = nRefCount - (IF t \in Finalizers THEN 0 ELSE 1)
    BY <1>13 DEF DiscLeave
  <2>2. discPc'[t] = "leave" /\ \A u \in Threads \ {t} : discPc'[u] = discPc[u]
    BY <1>1, <1>13 DEF DiscLeave
  <2>3. PICK n \in Int : n = (IF t \in Finalizers THEN 0 ELSE -1)
    OBVIOUS
  <2>4. n = 0 + 0 + InsideRefs(t, discPc'[t]) - InsideRefs(t, discPc[t])
    BY <2>1, <2>2, <2>3 DEF InsideRefs
  <2>5. nRefCount' = nRefCount + n
    BY <1>1, <2>1, <2>3
  <2>6. QED
    BY <1>2, <1>3, <1>4, <1>5, <1>6, <2>1, <2>2, <2>4, <2>5, InsideBalanced
<1>14. QED
  BY <1>8, <1>9, <1>10, <1>11, <1>12, <1>13 DEF DisconnectStep

\* A client returns the reference it took.
LEMMA ExactClient ==
  ASSUME IInv, IInv', RestTypes, Exact, ClientStep
  PROVE  Exact'
<1> USE DEF dispVars, discVars, refVars, kernelVars, AddRef, Release, DiscGoTo
<1>1. /\ discPc \in [Threads -> DiscStates] /\ IsFiniteSet(InDispatch) /\ RefCountExact
      /\ Len(posted) \in Nat /\ Len(iocp) \in Nat /\ nRefCount \in Int
  BY RefCountTyped, LensTyped DEF Exact, IInv, OrderTypes
<1>2. 0 \in Int /\ 1 \in Int /\ -1 \in Int
  OBVIOUS
<1>3. CASE Destroy
  BY <1>1, <1>3, ExactKept DEF Destroy, clientVars
<1>4. ASSUME NEW t \in Threads,
             worker' = worker, senderPc' = senderPc, initialRef' = initialRef, posted' = posted, iocp' = iocp,
             queue' = queue, disp' = disp, nRefCount' = nRefCount,
             \A u \in Threads \ {t} : discPc'[u] = discPc[u],
             InsideRefs(t, discPc'[t]) = InsideRefs(t, discPc[t])
      PROVE  Exact'
  <2>1. 0 = 0 + 0 + InsideRefs(t, discPc'[t]) - InsideRefs(t, discPc[t])
    BY <1>4 DEF InsideRefs
  <2>2. /\ First1' = First1 + 0 /\ IsFiniteSet(InDispatch')
        /\ Cardinality(InDispatch') = Cardinality(InDispatch) + 0
        /\ Len(posted') + Len(iocp') = Len(posted) + Len(iocp) + 0
        /\ nRefCount' = nRefCount + 0
    BY <1>1, <1>4, SameCounts
  <2>3. QED
    BY <1>2, <1>4, <2>1, <2>2, InsideBalanced
<1>5. ASSUME NEW t \in Disconnectors, CallDisconnectAgent(t) PROVE Exact'
  <2>1. /\ t \in Threads /\ discPc[t] = "none" /\ discPc'[t] \in {"done", "enter"}
        /\ \A u \in Threads \ {t} : discPc'[u] = discPc[u]
    BY <1>1, <1>5 DEF CallDisconnectAgent, Threads
  <2>2. InsideRefs(t, discPc'[t]) = InsideRefs(t, discPc[t])
    BY <2>1 DEF InsideRefs
  <2>3. QED
    BY <1>4, <1>5, <2>1, <2>2 DEF CallDisconnectAgent, clientVars
<1>6. ASSUME NEW t \in Finalizers, BeginFinalize(t) \/ PendingDrained(t) \/ ListEmpty(t) PROVE Exact'
  <2>1. t \in Threads /\ \A u \in Threads \ {t} : discPc'[u] = discPc[u]
    BY <1>1, <1>6 DEF BeginFinalize, PendingDrained, ListEmpty, Threads
  <2>2. InsideRefs(t, discPc'[t]) = InsideRefs(t, discPc[t])
    BY DEF InsideRefs
  <2>3. QED
    BY <1>4, <1>6, <2>1, <2>2 DEF BeginFinalize, PendingDrained, ListEmpty
<1>7. ASSUME NEW s \in Senders, FindConnection(s) \/ ReleaseConnection(s) PROVE Exact'
  <2>1. /\ First1' = First1 + 0 /\ IsFiniteSet(InDispatch')
        /\ Cardinality(InDispatch') = Cardinality(InDispatch) + 0
        /\ Len(posted') + Len(iocp') = Len(posted) + Len(iocp) + 0
        /\ Cardinality(Inside') = Cardinality(Inside) + 0
        /\ 2 * Cardinality(Busy') - Cardinality(Adding') = 2 * Cardinality(Busy) - Cardinality(Adding) + 0
    BY <1>1, <1>7, SameCounts DEF FindConnection, ReleaseConnection
  <2>2. senderPc \in [Senders -> {"start", "using", "done"}]
    BY DEF RestTypes, ClientTypes
  <2>3. \A r \in Senders \ {s} : senderPc'[r] = senderPc[r]
    BY <1>7, <2>2 DEF FindConnection, ReleaseConnection
  <2>4. Cardinality(Using') = Cardinality(Using) + UsingRefs(senderPc'[s]) - UsingRefs(senderPc[s])
    BY <2>3, UsingCounts
  <2>5. PICK du \in Int : /\ du = UsingRefs(senderPc'[s]) - UsingRefs(senderPc[s])
                          /\ nRefCount' = nRefCount + du
    <3>1. \/ senderPc[s] = "start" /\ senderPc'[s] = "done" /\ nRefCount' = nRefCount
          \/ senderPc[s] = "start" /\ senderPc'[s] = "using" /\ nRefCount' = nRefCount + 1
          \/ senderPc[s] = "using" /\ senderPc'[s] = "done" /\ nRefCount' = nRefCount - 1
      BY <1>7, <2>2 DEF FindConnection, ReleaseConnection
    <3>2. QED
      BY <1>1, <3>1 DEF UsingRefs
  <2>6. Cardinality(Using') = Cardinality(Using) + du
    <3>1. UsingRefs(senderPc'[s]) \in Int /\ UsingRefs(senderPc[s]) \in Int
      BY DEF UsingRefs
    <3>2. QED
      BY <2>4, <2>5, <3>1, CountsTyped
  <2>7. nRefCount' = nRefCount + (0 + 0 + 0 + 0 + 0 + du)
    BY <2>5
  <2>8. Changes(0, 0, 0, 0, 0, du)
    BY <2>1, <2>6, <2>7, Zenon DEF Changes
  <2>9. RefCountExact'
    BY <1>1, <1>2, <2>1, <2>8, Balanced
  <2>10. QED
    BY <2>1, <2>9 DEF Exact
<1>8. QED
  BY <1>3, <1>5, <1>6, <1>7 DEF ClientStep

\* Every step keeps the count exact.
LEMMA ExactStep ==
  ASSUME IInv, IInv', RestTypes, DispInv, FirstInv, Exact, Next
  PROVE  Exact'
BY ExactKernel, ExactWorker, ExactDispatcher, ExactDisconnect, ExactClient DEF Next, ClientStep

----------------------------------------------------------------------------
(* The life of the connection *)

\* The connection leaves cConnList, and is destroyed, only after its initial
\* reference is gone.
LifeInv ==
  /\ life # "alive" => ~initialRef
  /\ ~inList => life # "alive"
  /\ destroyer # NoThread => life # "alive"

\* A worker that has yet to count its read is busy.
LEMMA AddingBusy == Cardinality(Adding) <= Cardinality(Busy)
<1>1. Busy \in SUBSET Workers /\ Adding \subseteq Busy
  BY DEF Busy, Adding
<1>2. IsFiniteSet(Busy)
  BY <1>1, ThreadsFinite, FS_Subset
<1>3. QED
  BY <1>1, <1>2, FS_Subset

\* The initial reference alone keeps the count above zero.
LEMMA InitialCounts == IInv /\ Exact /\ nRefCount = 0 => ~initialRef
<1> SUFFICES ASSUME IInv, Exact, nRefCount = 0, initialRef PROVE FALSE
  BY Zenon
<1>1. posted \in Seq(Nat) /\ iocp \in Seq(Packet)
  BY DEF IInv, OrderTypes
<1>2. Len(posted) \in Nat /\ Len(iocp) \in Nat
  BY <1>1, LenProperties
<1>3. Cardinality(InDispatch) \in Nat
  BY FS_CardinalityType DEF Exact
<1>4. Cardinality(Adding) <= Cardinality(Busy)
  BY AddingBusy
<1>5. First1 = 1
  BY DEF First1
<1>6. nRefCount = First1 + Len(posted) + Len(iocp) + 2 * Cardinality(Busy) - Cardinality(Adding)
                  + Cardinality(InDispatch) + Cardinality(Inside) + Cardinality(Using)
  BY RefCountIs DEF Exact
<1>7. PICK p \in Nat, i \in Nat, b \in Nat, a \in Nat, q \in Nat, n \in Nat, u \in Nat :
        /\ p = Len(posted) /\ i = Len(iocp) /\ b = Cardinality(Busy) /\ a = Cardinality(Adding)
        /\ q = Cardinality(InDispatch) /\ n = Cardinality(Inside) /\ u = Cardinality(Using)
  BY <1>2, <1>3, CountsTyped, Zenon
<1>8. a <= b
  BY <1>4, <1>7
<1>9. 0 = 1 + p + i + 2 * b - a + q + n + u
  BY <1>5, <1>6, <1>7
<1>10. QED
  BY <1>8, <1>9

\* What a release of the last reference needs.
LEMMA LifeReleased ==
  ASSUME LifeInv, IInv', Exact', NEW t, NEW n, Release(t, n), initialRef' = initialRef \/ initialRef' = FALSE,
         inList' = inList
  PROVE  LifeInv'
<1>1. nRefCount' = 0 => ~initialRef'
  <2>1. (IInv /\ Exact /\ nRefCount = 0 => ~initialRef)'
    BY InitialCounts, PTL
  <2>2. QED
    BY <2>1
<1>2. CASE life' = "destructing" /\ nRefCount' = 0
  BY <1>1, <1>2 DEF LifeInv
<1>3. CASE UNCHANGED <<life, destroyer>>
  BY <1>3 DEF LifeInv
<1>4. QED
  BY <1>2, <1>3 DEF Release

\* A step that releases nothing keeps the life of the connection.
LEMMA LifeUnreleased ==
  ASSUME LifeInv, UNCHANGED <<life, destroyer, initialRef, inList>>
  PROVE  LifeInv'
BY DEF LifeInv

\* Every step keeps the initial reference until the object dies.
LEMMA LifeInvStep ==
  ASSUME LifeInv, IInv', Exact', Next
  PROVE  LifeInv'
<1> USE DEF refVars, discVars
<1>1. CASE Destroy
  BY <1>1 DEF Destroy, LifeInv
<1>2. ASSUME NEW w \in Workers, WorkerStep(w) PROVE LifeInv'
  <2>1. UNCHANGED <<initialRef, inList>>
    BY <1>2 DEF WorkerStep, Dequeue, AddBufferInSortedReadedQueue, SendReadPacket, AddRefForRead, FetchNextOrder,
         GetBufferFromSortedReadedQueue, DispatchReadMessage, IncrementOrder, WorkerError, WorkerEnd
  <2>2. UNCHANGED <<life, destroyer>> \/ Release(w, 2)
    BY <1>2 DEF WorkerStep, Dequeue, AddBufferInSortedReadedQueue, SendReadPacket, AddRefForRead, FetchNextOrder,
         GetBufferFromSortedReadedQueue, DispatchReadMessage, IncrementOrder, WorkerError, WorkerEnd, AddRef
  <2>3. QED
    BY <2>1, <2>2, LifeReleased, LifeUnreleased
<1>3. ASSUME NEW d \in Dispatchers, DispatcherStep(d) PROVE LifeInv'
  <2>1. UNCHANGED <<initialRef, inList>>
    BY <1>3 DEF DispatcherStep, Wake, TakeRound, ProcessMessage, EndRound, ReleaseRound
  <2>2. UNCHANGED <<life, destroyer>> \/ Release(d, disp[d].done)
    BY <1>3 DEF DispatcherStep, Wake, TakeRound, ProcessMessage, EndRound, ReleaseRound
  <2>3. QED
    BY <2>1, <2>2, LifeReleased, LifeUnreleased
<1>4. ASSUME NEW t \in Threads, DisconnectStep(t) PROVE LifeInv'
  <2>1. CASE ReleaseInitial(t)
    BY <2>1, LifeReleased DEF ReleaseInitial
  <2>2. CASE ~ReleaseInitial(t)
    <3>1. UNCHANGED <<initialRef, inList>>
      BY <1>4, <2>2 DEF DisconnectStep, DiscEnter, RemoveConnection, ShutdownConnection, DiscardAllBuffers,
                        ConnectionClosed, DiscRelock, DiscLeave, DiscUnlock
    <3>2. UNCHANGED <<life, destroyer>> \/ \E n : Release(t, n)
      BY <1>4, <2>2 DEF DisconnectStep, DiscEnter, RemoveConnection, ShutdownConnection, DiscardAllBuffers,
                        ConnectionClosed, DiscRelock, DiscLeave, DiscUnlock, AddRef
    <3>3. QED
      BY <3>1, <3>2, LifeReleased, LifeUnreleased
  <2>3. QED
    BY <2>1, <2>2
<1>5. ASSUME NEW s \in Senders, FindConnection(s) \/ ReleaseConnection(s) PROVE LifeInv'
  <2>1. UNCHANGED <<initialRef, inList>> /\ (UNCHANGED <<life, destroyer>> \/ Release(s, 1))
    BY <1>5 DEF FindConnection, ReleaseConnection, AddRef
  <2>2. QED
    BY <2>1, LifeReleased, LifeUnreleased
<1>6. ASSUME AgentWrite \/ AgentBreak \/ ReadCompletes \/ ReadsFail
             \/ (\E t \in Disconnectors : CallDisconnectAgent(t))
             \/ (\E t \in Finalizers : BeginFinalize(t) \/ PendingDrained(t) \/ ListEmpty(t))
      PROVE  LifeInv'
  BY <1>6, LifeUnreleased DEF AgentWrite, AgentBreak, ReadCompletes, ReadsFail, CallDisconnectAgent,
                    BeginFinalize, PendingDrained, ListEmpty
<1>7. QED
  BY <1>1, <1>2, <1>3, <1>4, <1>5, <1>6 DEF Next

----------------------------------------------------------------------------
(* A worker on its way to a read whose turn has come *)

\* The read is in the queue, and the connection is not going down.
TurnHasCome ==
  (\E b \in readedQueue : b.order = nNextReadOrderToProcess) /\ ~shuttingDown /\ nState = "connected"

OnItsWay(w) == \/ worker[w].pc \in {"ahead", "addref", "fetch", "increment", "refused", "error"}
               \/ worker[w].pc = "get" /\ worker[w].arg = nNextReadOrderToProcess
               \/ discPc[w] # "none"

\* The property, by its parts.
LEMMA NoStrandedReadIs == NoStrandedRead <=> (TurnHasCome => \E w \in Workers : OnItsWay(w))
BY DEF NoStrandedRead, TurnHasCome, OnItsWay

\* A step after which every worker that was on its way still is.
LEMMA OnItsWayKept ==
  ASSUME NoStrandedRead, TurnHasCome' => TurnHasCome, \A w \in Workers : OnItsWay(w) => OnItsWay(w)'
  PROVE  NoStrandedRead'
<1>1. TurnHasCome' => \E w \in Workers : OnItsWay(w)'
  BY NoStrandedReadIs
<1>2. QED
  BY <1>1 DEF NoStrandedRead, TurnHasCome, OnItsWay

\* A step after which some worker is on its way.
LEMMA OnItsWayNow ==
  ASSUME NEW w \in Workers, OnItsWay(w)'
  PROVE  NoStrandedRead'
BY DEF NoStrandedRead, TurnHasCome, OnItsWay

\* A step after which no read is waiting, or the connection goes down.
LEMMA TurnOver ==
  ASSUME ~TurnHasCome'
  PROVE  NoStrandedRead'
BY DEF NoStrandedRead, TurnHasCome

\* A step of the threads outside the workers' code.
LEMMA OnItsWayOutside ==
  ASSUME NoStrandedRead, UNCHANGED <<orderVars, nState, worker>>, shuttingDown' = shuttingDown,
         \A t \in Threads : discPc'[t] = "none" => discPc[t] = "none"
  PROVE  NoStrandedRead'
<1>1. Workers \subseteq Threads
  BY DEF Threads
<1>2. TurnHasCome' => TurnHasCome
  BY DEF TurnHasCome, orderVars
<1>3. \A w \in Workers : OnItsWay(w) => OnItsWay(w)'
  BY <1>1 DEF OnItsWay, orderVars
<1>4. QED
  BY <1>2, <1>3, OnItsWayKept

\* Numbers that bound each other are the same.
LEMMA SameNumber == \A x, y \in Nat : x <= y /\ y <= x => x = y
OBVIOUS

\* The worker that looks for the next read takes it, or it is not there.
LEMMA StrandedGetBuffer ==
  ASSUME IInv, NoStrandedRead, NEW w \in Workers, GetBufferFromSortedReadedQueue(w)
  PROVE  NoStrandedRead'
<1> USE DEF GetBufferFromSortedReadedQueue, At, GoTo
<1>1. worker \in [Workers -> WorkerRecord] /\ nNextReadOrderToProcess \in Nat
      /\ readedQueue \subseteq [order : Nat, msg : Nat]
  BY DEF IInv, OrderTypes, WorkerRecord
<1>2. /\ worker[w].pc = "get" /\ discPc[w] = "none" /\ worker[w].arg \in Nat
      /\ worker[w].arg <= nNextReadOrderToProcess
  BY <1>1 DEF IInv, QueueInv, WorkerRecord
<1>3. \A b \in readedQueue : b.order \in Nat /\ nNextReadOrderToProcess <= b.order
  BY <1>1 DEF IInv, QueueInv, Before, InPlay
<1>4. UNCHANGED <<nNextReadOrderToProcess, shuttingDown, nState, discPc>>
  BY DEF discVars, clientVars
<1>5. \A v \in Workers \ {w} : worker'[v] = worker[v]
  BY <1>1
<1>6. CASE \E b \in readedQueue : /\ b.order = worker[w].arg
                                  /\ readedQueue' = readedQueue \ {b}
  <2>1. PICK b \in readedQueue : b.order = worker[w].arg /\ readedQueue' = readedQueue \ {b}
    BY <1>6
  <2>2. b.order = nNextReadOrderToProcess
    <3>1. b.order \in Nat /\ nNextReadOrderToProcess <= b.order /\ b.order <= nNextReadOrderToProcess
      BY <1>2, <1>3, <2>1, Zenon
    <3>2. nNextReadOrderToProcess \in Nat
      BY <1>1
    <3>3. QED
      BY <3>1, <3>2, SameNumber, Zenon
  <2>3. \A c \in readedQueue' : c.order # nNextReadOrderToProcess
    BY <2>1, <2>2 DEF IInv, QueueInv
  <2>4. ~TurnHasCome'
    BY <1>4, <2>3 DEF TurnHasCome
  <2>5. QED
    BY <2>4, TurnOver
<1>7. CASE readedQueue' = readedQueue /\ \A b \in readedQueue : IsHead(b) => b.order # worker[w].arg
  <2>1. TurnHasCome' => TurnHasCome
    BY <1>4, <1>7 DEF TurnHasCome
  <2>2. ASSUME TurnHasCome PROVE worker[w].arg # nNextReadOrderToProcess
    <3>1. PICK b \in readedQueue : b.order = nNextReadOrderToProcess
      BY <2>2 DEF TurnHasCome
    <3>2. IsHead(b)
      BY <1>3, <3>1 DEF IsHead
    <3>3. QED
      BY <1>7, <3>1, <3>2
  <2>3. ASSUME TurnHasCome, NEW v \in Workers, OnItsWay(v) PROVE OnItsWay(v)'
    <3>1. v # w
      BY <1>2, <2>2, <2>3 DEF OnItsWay
    <3>2. QED
      BY <1>4, <1>5, <2>3, <3>1 DEF OnItsWay
  <2>4. TurnHasCome' => \E v \in Workers : OnItsWay(v)'
    BY <2>1, <2>3, NoStrandedReadIs
  <2>5. QED
    BY <2>4 DEF NoStrandedRead, TurnHasCome, OnItsWay
<1>8. QED
  BY <1>6, <1>7

\* A worker passes on the duty to look for the read, or does its own.
LEMMA StrandedWorker ==
  ASSUME IInv, NoStrandedRead, NEW w \in Workers, WorkerStep(w)
  PROVE  NoStrandedRead'
<1> USE DEF At, GoTo, discVars, clientVars
<1>1. worker \in [Workers -> WorkerRecord] /\ discPc \in [Threads -> DiscStates] /\ w \in Threads
  BY DEF IInv, OrderTypes, WorkerRecord, Threads
<1>2. ASSUME worker[w].pc \in {"idle", "end"}, discPc[w] = "none", UNCHANGED <<orderVars, discVars, clientVars>>,
             \A v \in Workers \ {w} : worker'[v] = worker[v]
      PROVE  NoStrandedRead'
  <2>1. TurnHasCome' => TurnHasCome
    BY <1>2 DEF TurnHasCome, orderVars
  <2>2. \A v \in Workers : OnItsWay(v) => OnItsWay(v)'
    BY <1>2 DEF OnItsWay, orderVars
  <2>3. QED
    BY <2>1, <2>2, OnItsWayKept
<1>3. CASE Dequeue(w)
  <2>1. \A v \in Workers \ {w} : worker'[v] = worker[v]
    BY <1>1, <1>3 DEF Dequeue
  <2>2. QED
    BY <1>2, <1>3, <2>1 DEF Dequeue
<1>4. CASE WorkerEnd(w)
  <2>1. \A v \in Workers \ {w} : worker'[v] = worker[v]
    BY <1>1, <1>4 DEF WorkerEnd
  <2>2. QED
    BY <1>2, <1>4, <2>1 DEF WorkerEnd
<1>5. CASE AddBufferInSortedReadedQueue(w) \/ SendReadPacket(w) \/ AddRefForRead(w) \/ DispatchReadMessage(w)
           \/ IncrementOrder(w)
  <2>1. worker'[w].pc \in {"ahead", "addref", "fetch", "increment", "refused", "error"}
    <3>1. \E p \in {"ahead", "addref", "fetch", "increment", "refused", "error"} : worker' = [worker EXCEPT ![w].pc = p]
      BY <1>5 DEF AddBufferInSortedReadedQueue, SendReadPacket, AddRefForRead, DispatchReadMessage, IncrementOrder
    <3>2. QED
      BY <1>1, <3>1 DEF WorkerRecord
  <2>2. QED
    BY <2>1, OnItsWayNow DEF OnItsWay
<1>6. CASE FetchNextOrder(w)
  <2>1. CASE shuttingDown
    BY <1>6, <2>1, TurnOver DEF FetchNextOrder, TurnHasCome
  <2>2. CASE ~shuttingDown
    <3>1. worker'[w].pc = "get" /\ worker'[w].arg = nNextReadOrderToProcess
      BY <1>1, <1>6, <2>2 DEF FetchNextOrder, WorkerRecord
    <3>2. nNextReadOrderToProcess' = nNextReadOrderToProcess
      BY <1>6 DEF FetchNextOrder, orderVars
    <3>3. QED
      BY <3>1, <3>2, OnItsWayNow DEF OnItsWay
  <2>3. QED
    BY <2>1, <2>2
<1>7. CASE GetBufferFromSortedReadedQueue(w)
  BY <1>7, StrandedGetBuffer
<1>8. CASE WorkerError(w)
  <2>1. discPc'[w] # "none"
    BY <1>1, <1>8 DEF WorkerError
  <2>2. QED
    BY <2>1, OnItsWayNow DEF OnItsWay
<1>9. QED
  BY <1>3, <1>4, <1>5, <1>6, <1>7, <1>8 DEF WorkerStep

\* A worker that returns from a disconnect leaves a connection that goes down.
LEMMA StrandedDisconnect ==
  ASSUME IInv, NoStrandedRead, FirstInv, LifeInv, NEW t \in Threads, DisconnectStep(t)
  PROVE  NoStrandedRead'
<1> USE DEF DiscGoTo, DiscAt, clientVars
<1>1. discPc \in [Threads -> DiscStates] /\ nState \in {"connected", "destroying"}
  BY DEF IInv, OrderTypes
<1>2. ASSUME UNCHANGED <<orderVars, nState, worker>>, shuttingDown' = shuttingDown,
             discPc'[t] # "none", \A u \in Threads \ {t} : discPc'[u] = discPc[u]
      PROVE  NoStrandedRead'
  BY <1>2, OnItsWayOutside
<1>3. CASE DiscEnter(t)
  <2>1. CASE shuttingDown \/ ~inList
    <3>1. nState' = nState /\ shuttingDown' = shuttingDown
      BY <1>3 DEF DiscEnter
    <3>2. ~inList => nState # "connected"
      BY DEF LifeInv, FirstInv
    <3>3. QED
      BY <2>1, <3>1, <3>2, TurnOver DEF TurnHasCome
  <2>2. CASE ~(shuttingDown \/ ~inList)
    <3>1. discPc'[t] = "remove" /\ \A u \in Threads \ {t} : discPc'[u] = discPc[u]
      BY <1>1, <1>3, <2>2 DEF DiscEnter
    <3>2. QED
      BY <1>2, <1>3, <3>1 DEF DiscEnter
  <2>3. QED
    BY <2>1, <2>2
<1>4. CASE RemoveConnection(t)
  BY <1>4, OnItsWayOutside DEF RemoveConnection
<1>5. CASE ShutdownConnection(t)
  <2>1. nState' = "destroying"
    BY <1>5 DEF ShutdownConnection
  <2>2. QED
    BY <2>1, TurnOver DEF TurnHasCome
<1>6. CASE DiscardAllBuffers(t)
  <2>1. nState' = "destroying"
    BY <1>1, <1>6 DEF DiscardAllBuffers, IInv, DiscardInv
  <2>2. QED
    BY <2>1, TurnOver DEF TurnHasCome
<1>7. CASE ConnectionClosed(t) \/ DiscRelock(t) \/ ReleaseInitial(t) \/ DiscLeave(t)
  <2>1. discPc'[t] # "none" /\ \A u \in Threads \ {t} : discPc'[u] = discPc[u]
    BY <1>1, <1>7 DEF ConnectionClosed, DiscRelock, ReleaseInitial, DiscLeave
  <2>2. QED
    BY <1>2, <1>7, <2>1 DEF ConnectionClosed, DiscRelock, ReleaseInitial, DiscLeave
<1>8. CASE DiscUnlock(t)
  <2>1. nState' = "destroying"
    BY <1>8 DEF DiscUnlock, FirstInv
  <2>2. QED
    BY <2>1, TurnOver DEF TurnHasCome
<1>9. QED
  BY <1>3, <1>4, <1>5, <1>6, <1>7, <1>8 DEF DisconnectStep

\* Every step leaves some worker on its way.
LEMMA StrandedStep ==
  ASSUME IInv, NoStrandedRead, FirstInv, LifeInv, Next
  PROVE  NoStrandedRead'
<1> USE DEF discVars, clientVars, DiscGoTo
<1>1. discPc \in [Threads -> DiscStates]
  BY DEF IInv, OrderTypes
<1>2. ASSUME NEW d \in Dispatchers, DispatcherStep(d) PROVE NoStrandedRead'
  <2>1. UNCHANGED <<orderVars, nState, worker>> /\ shuttingDown' = shuttingDown
    BY <1>2 DEF DispatcherStep, Wake, TakeRound, ProcessMessage, EndRound, ReleaseRound
  <2>2. \A t \in Threads : discPc'[t] = "none" => discPc[t] = "none"
    <3>1. CASE ReleaseRound(d)
      BY <1>1, <3>1 DEF ReleaseRound, DispAt
    <3>2. CASE ~ReleaseRound(d)
      BY <1>2, <3>2 DEF DispatcherStep, Wake, TakeRound, ProcessMessage, EndRound
    <3>3. QED
      BY <3>1, <3>2
  <2>3. QED
    BY <2>1, <2>2, OnItsWayOutside
<1>3. ASSUME NEW t \in Finalizers, BeginFinalize(t) PROVE NoStrandedRead'
  BY <1>3, TurnOver DEF BeginFinalize, TurnHasCome
<1>4. ASSUME NEW t \in Finalizers, PendingDrained(t) PROVE NoStrandedRead'
  <2>1. \A u \in Threads : discPc'[u] = "none" => discPc[u] = "none"
    BY <1>1, <1>4 DEF PendingDrained
  <2>2. QED
    BY <1>4, <2>1, OnItsWayOutside DEF PendingDrained
<1>5. ASSUME NEW t \in Disconnectors, CallDisconnectAgent(t) PROVE NoStrandedRead'
  <2>1. \A u \in Threads : discPc'[u] = "none" => discPc[u] = "none"
    BY <1>1, <1>5 DEF CallDisconnectAgent
  <2>2. QED
    BY <1>5, <2>1, OnItsWayOutside DEF CallDisconnectAgent
<1>6. CASE AgentWrite \/ AgentBreak \/ ReadCompletes \/ ReadsFail \/ Destroy
           \/ (\E s \in Senders : FindConnection(s) \/ ReleaseConnection(s))
           \/ (\E t \in Finalizers : ListEmpty(t))
  BY <1>6, OnItsWayOutside DEF AgentWrite, AgentBreak, ReadCompletes, ReadsFail, Destroy, FindConnection,
                               ReleaseConnection, ListEmpty
<1>7. QED
  BY <1>2, <1>3, <1>4, <1>5, <1>6, StrandedWorker, StrandedDisconnect DEF Next

----------------------------------------------------------------------------
(* The whole invariant *)

EngineInv == RestTypes /\ DispInv /\ StreamInv /\ FirstInv /\ Exact /\ LifeInv /\ NoStrandedRead

\* The types of Init.
LEMMA InitRest == Init => RestTypes
<1> SUFFICES ASSUME Init PROVE RestTypes
  OBVIOUS
<1>1. <<>> \in Seq(Msgs)
  BY EmptySeq
<1>2. SeqTypes /\ LifeTypes
  BY <1>1 DEF Init, SeqTypes, LifeTypes
<1>3. toClear \in [Threads -> SUBSET Dispatchers]
  BY DEF Init
<1>4. DiscTypes
  BY <1>3 DEF Init, DiscTypes
<1>5. senderPc \in [Senders -> {"start", "using", "done"}]
  BY DEF Init
<1>6. ClientTypes
  BY <1>5 DEF Init, ClientTypes
<1>7. QED
  BY <1>2, <1>4, <1>6 DEF RestTypes

\* At first the dispatchers hold nothing.
LEMMA InitDispatchers ==
  ASSUME Init
  PROVE  DispInv /\ StreamInv /\ InDispatch = {}
<1>1. <<>> \in Seq(Msgs) /\ Len(<<>>) = 0
  BY EmptySeq
<1>2. \A d \in Dispatchers : /\ queue[d] = <<>> /\ hEvent[d] = FALSE /\ handled[d] = <<>>
                             /\ disp[d] = [pc |-> "wait", batch |-> <<>>, done |-> 0, failed |-> FALSE]
  BY DEF Init
<1>3. [pc |-> "wait", batch |-> <<>>, done |-> 0, failed |-> FALSE] \in DispRecord
  BY <1>1 DEF DispRecord
<1>4. DispTypes
  <2>1. queue \in [Dispatchers -> Seq(Msgs)] /\ handled \in [Dispatchers -> Seq(Msgs)]
    BY <1>1 DEF Init
  <2>2. hEvent \in [Dispatchers -> BOOLEAN]
    BY DEF Init
  <2>3. disp \in [Dispatchers -> DispRecord]
    BY <1>3 DEF Init
  <2>4. QED
    BY <2>1, <2>2, <2>3 DEF DispTypes
<1>5. DispInv
  BY <1>1, <1>2, <1>4 DEF DispInv, RoundInv
<1>6. ASSUME NEW d \in Dispatchers PROVE Stream(d) = <<>> /\ Held(d) = 0
  <2>1. /\ queue[d] = <<>> /\ handled[d] = <<>> /\ disp[d].batch = <<>> /\ disp[d].done = 0
    BY <1>2
  <2>2. SubSeq(<<>>, 0 + 1, 0) = <<>>
    <3>1. SubSeq(<<>>, 1, 0) = <<>>
      BY <1>1, SubSeqEmpty
    <3>2. 0 + 1 = 1
      OBVIOUS
    <3>3. QED
      BY <3>1, <3>2
  <2>3. Stream(d) = <<>> \o <<>> \o <<>>
    BY <1>1, <2>1, <2>2, Zenon DEF Stream
  <2>4. <<>> \o <<>> = <<>>
    BY <1>1, ConcatEmptySeq
  <2>5. Held(d) = 0 + 0
    BY <1>1, <2>1, Zenon DEF Held
  <2>6. QED
    BY <2>3, <2>4, <2>5
<1>7. StreamInv
  BY <1>1, <1>6 DEF StreamInv, Increasing
<1>8. InDispatch = {}
  BY <1>6 DEF InDispatch
<1>9. QED
  BY <1>5, <1>7, <1>8

\* Every reference of Init is one of the reads, or the initial one.
LEMMA InitExact ==
  ASSUME Init
  PROVE  Exact
<1>1. InDispatch = {}
  BY InitDispatchers
<1>2. IsFiniteSet(InDispatch) /\ Cardinality(InDispatch) = 0
  BY <1>1, FS_EmptySet
<1>3. Busy = {} /\ Adding = {} /\ Inside = {} /\ Using = {}
  BY DEF Init, Idle, Busy, Adding, Inside, Using
<1>4. Cardinality(Busy) = 0 /\ Cardinality(Adding) = 0 /\ Cardinality(Inside) = 0 /\ Cardinality(Using) = 0
  BY <1>3, FS_EmptySet
<1>5. Len(posted) = ReadAhead
  <2>1. posted \in Seq(Nat) /\ DOMAIN posted = 1..ReadAhead
    <3>1. posted \in Seq(Nat)
      BY InitIInv DEF IInv, OrderTypes
    <3>2. QED
      BY <3>1 DEF Init
  <2>2. QED
    BY <2>1, LenProperties, ConstantsAssumption
<1>6. Len(iocp) = 0 /\ First1 = 1 /\ nRefCount = 1 + ReadAhead
  BY EmptySeq DEF Init, First1
<1>7. nRefCount = First1 + Len(posted) + Len(iocp) + 2 * Cardinality(Busy) - Cardinality(Adding)
                  + Cardinality(InDispatch) + Cardinality(Inside) + Cardinality(Using)
  BY <1>2, <1>4, <1>5, <1>6, ConstantsAssumption
<1>8. QED
  BY <1>2, <1>7, RefCountIs DEF Exact

\* Init satisfies the whole invariant.
LEMMA InitEngine == Init => EngineInv
<1> SUFFICES ASSUME Init PROVE EngineInv
  OBVIOUS
<1>1. FirstInv
  <2>1. Finalizers \subseteq Threads
    BY DEF Threads
  <2>2. QED
    BY <2>1 DEF Init, FirstInv, First
<1>2. LifeInv /\ NoStrandedRead
  BY DEF Init, LifeInv, NoStrandedRead
<1>3. QED
  BY <1>1, <1>2, InitRest, InitDispatchers, InitExact DEF EngineInv

\* Every step keeps the whole invariant.
LEMMA EngineStep ==
  ASSUME IInv, IInv', EngineInv, Next
  PROVE  EngineInv'
<1>1. RestTypes /\ DispInv /\ StreamInv /\ FirstInv /\ Exact /\ LifeInv /\ NoStrandedRead
  BY DEF EngineInv
<1>2. RestTypes'
  BY <1>1, LifeStep, SeqStep, DiscStep, ClientTypesStep DEF RestTypes
<1>3. DispInv' /\ StreamInv'
  BY <1>1, StreamStep
<1>4. FirstInv'
  BY <1>1, FirstStep
<1>5. Exact'
  BY <1>1, ExactStep
<1>6. LifeInv'
  BY <1>1, <1>5, LifeInvStep
<1>7. NoStrandedRead'
  BY <1>1, StrandedStep
<1>8. QED
  BY <1>2, <1>3, <1>4, <1>5, <1>6, <1>7 DEF EngineInv

\* So does a step that changes nothing.
LEMMA EngineStutter ==
  ASSUME IInv, IInv', EngineInv, UNCHANGED vars
  PROVE  EngineInv'
<1> USE DEF vars, kernelVars, orderVars, refVars, dispVars, discVars, clientVars
<1>1. RestTypes /\ DispInv /\ StreamInv /\ FirstInv /\ Exact /\ LifeInv /\ NoStrandedRead
  BY DEF EngineInv
<1>2. RestTypes'
  BY <1>1 DEF RestTypes, SeqTypes, LifeTypes, DiscTypes, ClientTypes
<1>3. DispInv' /\ StreamInv'
  <2>1. UNCHANGED <<dispVars, taken, dispatched>>
    OBVIOUS
  <2>2. \A d \in Dispatchers : Stream(d)' = Stream(d)
    BY DEF Stream
  <2>3. QED
    BY <1>1, <2>1, DispatchersKept, StreamSame
<1>4. FirstInv'
  BY <1>1, FirstKept
<1>5. Exact'
  BY <1>1, ExactKept
<1>6. LifeInv'
  BY <1>1, LifeUnreleased
<1>7. NoStrandedRead'
  BY <1>1, OnItsWayOutside
<1>8. QED
  BY <1>2, <1>3, <1>4, <1>5, <1>6, <1>7 DEF EngineInv

\* The invariant the theorems below rest on.
LEMMA EngineInvariant == Spec => [](IInv /\ EngineInv)
<1>1. IInv /\ EngineInv /\ [Next]_vars => IInv' /\ EngineInv'
  BY NextStep, StutterStep, EngineStep, EngineStutter
<1>2. QED
  BY InitIInv, InitEngine, <1>1, PTL DEF Spec

----------------------------------------------------------------------------
(* A refused message and the end of the connection *)

\* A worker that refused a message, or met another error, goes on until the
\* connection is shut down; nothing takes that back.
LEMMA GoingDownStays ==
  ASSUME IInv, FirstInv, LifeInv, Next, GoingDown
  PROVE  GoingDown'
<1>1. Workers \subseteq Threads
  BY DEF Threads
<1>2. CASE nState = "destroying" \/ shuttingDown
  <2>1. nState' \in {nState, "destroying"} /\ (shuttingDown => shuttingDown')
    <3>1. ASSUME NEW w \in Workers, WorkerStep(w) PROVE UNCHANGED <<nState, shuttingDown>>
      BY <3>1 DEF WorkerStep, Dequeue, AddBufferInSortedReadedQueue, SendReadPacket, AddRefForRead, FetchNextOrder,
           GetBufferFromSortedReadedQueue, DispatchReadMessage, IncrementOrder, WorkerError, WorkerEnd,
           discVars, clientVars
    <3>2. ASSUME NEW d \in Dispatchers, DispatcherStep(d) PROVE UNCHANGED <<nState, shuttingDown>>
      BY <3>2 DEF DispatcherStep, Wake, TakeRound, ProcessMessage, EndRound, ReleaseRound, discVars, clientVars
    <3>3. ASSUME NEW t \in Threads, DisconnectStep(t)
          PROVE  nState' \in {nState, "destroying"} /\ shuttingDown' = shuttingDown
      BY <3>3 DEF DisconnectStep, DiscEnter, RemoveConnection, ShutdownConnection, DiscardAllBuffers,
                  ConnectionClosed, DiscRelock, ReleaseInitial, DiscLeave, DiscUnlock, clientVars
    <3>4. ASSUME AgentWrite \/ AgentBreak \/ ReadCompletes \/ ReadsFail \/ ClientStep
          PROVE  nState' = nState /\ (shuttingDown => shuttingDown')
      BY <3>4 DEF AgentWrite, AgentBreak, ReadCompletes, ReadsFail, ClientStep, Destroy, CallDisconnectAgent,
                  FindConnection, ReleaseConnection, BeginFinalize, PendingDrained, ListEmpty, discVars, clientVars
    <3>5. QED
      BY <3>1, <3>2, <3>3, <3>4 DEF Next, ClientStep
  <2>2. QED
    BY <1>2, <2>1 DEF GoingDown
<1>3. ASSUME nState # "destroying", ~shuttingDown,
             NEW w \in Workers, worker[w].pc \in {"refused", "error"} \/ discPc[w] # "none"
      PROVE  GoingDown'
  <2>1. nState = "connected" /\ inList
    BY <1>3 DEF IInv, OrderTypes, FirstInv, LifeInv
  <2>2. worker \in [Workers -> WorkerRecord] /\ discPc \in [Threads -> DiscStates]
    BY DEF IInv, OrderTypes, WorkerRecord
  <2>3. ASSUME worker'[w].pc \in {"refused", "error"} \/ discPc'[w] # "none" PROVE GoingDown'
    BY <2>3 DEF GoingDown
  <2>4. ASSUME NEW v \in Workers, WorkerStep(v) PROVE GoingDown'
    <3>1. CASE v # w
      <4>1. worker'[w] = worker[w]
        <5>1. CASE Dequeue(v) \/ WorkerEnd(v) \/ FetchNextOrder(v)
          BY <2>2, <3>1, <5>1 DEF Dequeue, WorkerEnd, FetchNextOrder
        <5>2. CASE GetBufferFromSortedReadedQueue(v)
          BY <2>2, <3>1, <5>2 DEF GetBufferFromSortedReadedQueue, GoTo
        <5>3. CASE ~(Dequeue(v) \/ WorkerEnd(v) \/ FetchNextOrder(v) \/ GetBufferFromSortedReadedQueue(v))
          <6>1. \E p : worker' = [worker EXCEPT ![v].pc = p]
            BY <2>4, <5>3 DEF WorkerStep, AddBufferInSortedReadedQueue, SendReadPacket, AddRefForRead,
               DispatchReadMessage, IncrementOrder, WorkerError, GoTo
          <6>2. QED
            BY <2>2, <3>1, <6>1
        <5>4. QED
          BY <5>1, <5>2, <5>3
      <4>2. discPc' = discPc \/ discPc' = [discPc EXCEPT ![v] = "enter"]
        BY <2>4 DEF WorkerStep, Dequeue, AddBufferInSortedReadedQueue, SendReadPacket, AddRefForRead, FetchNextOrder,
           GetBufferFromSortedReadedQueue, DispatchReadMessage, IncrementOrder, WorkerError, WorkerEnd, discVars
      <4>3. discPc'[w] = discPc[w]
        BY <1>1, <2>2, <3>1, <4>2
      <4>4. QED
        BY <1>3, <2>3, <4>1, <4>3
    <3>2. CASE v = w
      <4>1. worker[w].pc \in {"refused", "error"} /\ (IncrementOrder(w) \/ WorkerError(w))
        BY <1>3, <2>4, <3>2 DEF WorkerStep, Dequeue, AddBufferInSortedReadedQueue, SendReadPacket, AddRefForRead,
             FetchNextOrder, GetBufferFromSortedReadedQueue, DispatchReadMessage, IncrementOrder, WorkerError,
             WorkerEnd, At
      <4>2. CASE IncrementOrder(w)
        <5>1. worker' = [worker EXCEPT ![w].pc = "error"]
          BY <4>1, <4>2 DEF IncrementOrder, At, GoTo
        <5>2. QED
          BY <2>2, <2>3, <5>1 DEF WorkerRecord
      <4>3. CASE WorkerError(w)
        BY <1>1, <2>2, <2>3, <4>3 DEF WorkerError
      <4>4. QED
        BY <4>1, <4>2, <4>3
    <3>3. QED
      BY <3>1, <3>2
  <2>5. ASSUME NEW d \in Dispatchers, DispatcherStep(d) PROVE GoingDown'
    <3>1. worker' = worker
      BY <2>5 DEF DispatcherStep, Wake, TakeRound, ProcessMessage, EndRound, ReleaseRound
    <3>2. discPc[w] # "none" => discPc'[w] # "none"
      BY <1>1, <2>2, <2>5 DEF DispatcherStep, Wake, TakeRound, ProcessMessage, EndRound, ReleaseRound, DispAt, discVars
    <3>3. QED
      BY <1>3, <2>3, <3>1, <3>2
  <2>6. ASSUME NEW t \in Threads, DisconnectStep(t) PROVE GoingDown'
    <3>1. worker' = worker
      BY <2>6 DEF DisconnectStep, DiscEnter, RemoveConnection, ShutdownConnection, DiscardAllBuffers,
                  ConnectionClosed, DiscRelock, ReleaseInitial, DiscLeave, DiscUnlock
    <3>2. CASE ShutdownConnection(t)
      BY <2>1, <3>2 DEF ShutdownConnection, GoingDown
    <3>3. CASE DiscEnter(t)
      <4>1. discPc' = [discPc EXCEPT ![t] = "remove"]
        BY <1>3, <2>1, <3>3 DEF DiscEnter, DiscGoTo
      <4>2. discPc[w] # "none" => discPc'[w] # "none"
        BY <1>1, <2>2, <4>1
      <4>3. QED
        BY <1>3, <2>3, <3>1, <4>2
    <3>4. CASE RemoveConnection(t)
      BY <1>3, <2>3, <3>1, <3>4 DEF RemoveConnection
    <3>5. discPc[t] \notin {"discard", "callback", "relock", "release", "unref", "leave"}
      BY <2>1 DEF FirstInv, First
    <3>6. QED
      BY <2>6, <3>2, <3>3, <3>4, <3>5 DEF DisconnectStep, DiscardAllBuffers, ConnectionClosed, DiscRelock,
                                          ReleaseInitial, DiscLeave, DiscUnlock, DiscAt
  <2>7. ASSUME AgentWrite \/ AgentBreak \/ ReadCompletes \/ ReadsFail \/ ClientStep PROVE GoingDown'
    <3>1. worker' = worker
      BY <2>7 DEF AgentWrite, AgentBreak, ReadCompletes, ReadsFail, ClientStep, Destroy, CallDisconnectAgent,
                  FindConnection, ReleaseConnection, BeginFinalize, PendingDrained, ListEmpty
    <3>2. \/ discPc' = discPc
          \/ \E t \in Threads, x \in {"done", "enter", "remove"} : discPc' = [discPc EXCEPT ![t] = x]
      BY <2>7 DEF AgentWrite, AgentBreak, ReadCompletes, ReadsFail, ClientStep, Destroy, CallDisconnectAgent,
                  FindConnection, ReleaseConnection, BeginFinalize, PendingDrained, ListEmpty, DiscGoTo, discVars,
                  Threads
    <3>3. discPc[w] # "none" => discPc'[w] # "none"
      BY <1>1, <2>2, <3>2
    <3>4. QED
      BY <1>3, <2>3, <3>1, <3>3
  <2>8. QED
    BY <2>4, <2>5, <2>6, <2>7 DEF Next, ClientStep
<1>4. QED
  BY <1>2, <1>3 DEF GoingDown

\* A message that is dispatched, or written, does not end the connection.
LEMMA GoingDownSame ==
  ASSUME IInv, AgentWrite \/ \E w \in Workers : DispatchReadMessage(w) /\ worker'[w].pc = "increment"
  PROVE  GoingDown' <=> GoingDown
<1>1. CASE AgentWrite
  BY <1>1 DEF AgentWrite, GoingDown, discVars, clientVars
<1>2. ASSUME NEW w \in Workers, DispatchReadMessage(w), worker'[w].pc = "increment"
      PROVE  GoingDown' <=> GoingDown
  <2>1. worker \in [Workers -> WorkerRecord]
    BY DEF IInv, OrderTypes, WorkerRecord
  <2>2. /\ UNCHANGED <<nState, shuttingDown, discPc>> /\ worker[w].pc = "dispatch"
        /\ \E p : worker' = [worker EXCEPT ![w].pc = p]
    BY <1>2 DEF DispatchReadMessage, At, GoTo, discVars, clientVars
  <2>3. \A v \in Workers : worker'[v].pc \in {"refused", "error"} <=> worker[v].pc \in {"refused", "error"}
    BY <1>2, <2>1, <2>2 DEF WorkerRecord
  <2>4. QED
    BY <2>2, <2>3 DEF GoingDown
<1>3. QED
  BY <1>1, <1>2

\* GoingDown stands for a Boolean variable of the channel.
LEMMA GoingDownBoolean == GoingDown \in BOOLEAN
BY DEF GoingDown

\* Each step of the engine is one of the refusing channel, or invisible to it.
LEMMA ChannelMoves ==
  ASSUME IInv, EngineInv, [Next]_vars
  PROVE  [Channel!Write \/ Channel!Deliver \/ Channel!Refuse \/ Channel!End]_(Channel!vars)
<1>0. GoingDown \in BOOLEAN /\ GoingDown' \in BOOLEAN
  <2>1. (GoingDown \in BOOLEAN)'
    BY GoingDownBoolean, PTL
  <2>2. QED
    BY <2>1, GoingDownBoolean
<1>1. CASE UNCHANGED vars
  BY <1>1 DEF vars, kernelVars, discVars, clientVars, GoingDown, Channel!vars
<1>2. CASE Next
  <2>1. ChannelStep /\ (GoingDown => GoingDown')
    BY <1>2, NextStep, GoingDownStays DEF EngineInv
  <2>2. CASE UNCHANGED <<sent, taken, dispatched>>
    <3>1. (GoingDown' = GoingDown) \/ (GoingDown' = TRUE)
      BY <1>0, <2>1
    <3>2. QED
      BY <2>2, <3>1, Zenon DEF Channel!End, Channel!vars
  <2>3. CASE AgentWrite
    <3>1. GoingDown' = GoingDown
      BY <1>0, <2>3, GoingDownSame
    <3>2. sent < NMsgs /\ sent' = sent + 1 /\ UNCHANGED <<taken, dispatched>>
      BY <2>3 DEF AgentWrite
    <3>3. Channel!Write
      BY <3>1, <3>2, Zenon DEF Channel!Write
    <3>4. QED
      BY <3>3
  <2>4. ASSUME NEW w \in Workers, Turn(w) PROVE Channel!Deliver \/ Channel!Refuse
    <3>1. Channel!NextTurn /\ taken' = taken + 1 /\ sent' = sent
      BY <2>4 DEF Turn, Channel!NextTurn
    <3>2. CASE dispatched' = Append(dispatched, taken + 1) /\ worker'[w].pc = "increment"
      <4>1. GoingDown' = GoingDown
        BY <1>0, <2>4, <3>2, GoingDownSame DEF Turn
      <4>2. QED
        BY <3>1, <3>2, <4>1, Zenon DEF Channel!Deliver
    <3>3. CASE taken + 1 \in RefusedMsgs /\ dispatched' = dispatched /\ worker'[w].pc = "refused"
      <4>1. GoingDown'
        BY <3>3 DEF GoingDown
      <4>2. GoingDown' = TRUE
        BY <1>0, <4>1
      <4>3. QED
        BY <3>1, <3>3, <4>2, Zenon DEF Channel!Refuse
    <3>4. QED
      BY <2>4, <3>2, <3>3 DEF Turn
  <2>5. QED
    BY <2>1, <2>2, <2>3, <2>4 DEF ChannelStep
<1>3. QED
  BY <1>1, <1>2

\* The turns of the agent's messages come in the order in which they were
\* written, each once, whatever order reads complete and workers run in; a
\* message that is missing was refused, and the connection goes down for it.
THEOREM EngineImplementsChannel == Spec => ImplementsChannel
<1>1. Init => Channel!Init
  <2> SUFFICES ASSUME Init PROVE Channel!Init
    OBVIOUS
  <2>1. ~GoingDown
    BY DEF Init, Idle, GoingDown, Threads
  <2>2. GoingDown = FALSE
    BY <2>1, GoingDownBoolean
  <2>3. QED
    BY <2>2, Zenon DEF Init, Channel!Init
<1>2. IInv /\ EngineInv /\ [Next]_vars
        => [Channel!Write \/ Channel!Deliver \/ Channel!Refuse \/ Channel!End]_(Channel!vars)
  BY ChannelMoves
<1>3. QED
  BY EngineInvariant, <1>1, <1>2, PTL DEF Spec, ImplementsChannel, Channel!Spec

\* What was dispatched of the turns that are over.
DispatchedInv ==
  /\ dispatched \in Seq(Nat) /\ Increasing(dispatched)
  /\ \A i \in 1..Len(dispatched) : dispatched[i] <= taken
  /\ \A m \in (1..taken) \ RefusedMsgs : \E i \in 1..Len(dispatched) : dispatched[i] = m

\* A turn adds its message at the end, or the message is one that may be refused.
LEMMA DispatchedTurn ==
  ASSUME IInv, DispatchedInv, NEW w \in Workers, Turn(w)
  PROVE  DispatchedInv'
<1>1. taken \in Nat /\ taken' = taken + 1 /\ dispatched \in Seq(Nat) /\ Len(dispatched) \in Nat
  BY LenProperties DEF Turn, DispatchedInv, IInv, OrderTypes
<1>2. \A i \in 1..Len(dispatched) : dispatched[i] \in Nat /\ dispatched[i] <= taken
  BY <1>1, ElementOfSeq DEF DispatchedInv
<1>3. \A m \in 1..taken' : m \in 1..taken \/ m = taken + 1
  BY <1>1
<1>4. CASE dispatched' = Append(dispatched, taken + 1)
  <2>1. /\ dispatched' \in Seq(Nat) /\ Len(dispatched') = Len(dispatched) + 1
        /\ \A i \in 1..Len(dispatched) : dispatched'[i] = dispatched[i]
        /\ dispatched'[Len(dispatched) + 1] = taken + 1
    BY <1>1, <1>4, AppendProperties
  <2>2. \A i \in 1..Len(dispatched) : dispatched[i] < taken + 1
    BY <1>1, <1>2
  <2>3. taken + 1 \in Nat /\ Increasing(dispatched)
    BY <1>1 DEF DispatchedInv
  <2>4. Increasing(Append(dispatched, taken + 1))
    BY <1>1, <2>2, <2>3, IncreasingAppend
  <2>5. Increasing(dispatched')
    BY <1>4, <2>4
  <2>6. ASSUME NEW i \in 1..Len(dispatched') PROVE dispatched'[i] <= taken'
    <3>1. i \in 1..Len(dispatched) \/ i = Len(dispatched) + 1
      BY <1>1, <2>1
    <3>2. QED
      BY <1>1, <1>2, <2>1, <3>1
  <2>7. ASSUME NEW m \in (1..taken') \ RefusedMsgs PROVE \E i \in 1..Len(dispatched') : dispatched'[i] = m
    <3>1. CASE m \in 1..taken
      <4>1. PICK i \in 1..Len(dispatched) : dispatched[i] = m
        BY <2>7, <3>1 DEF DispatchedInv
      <4>2. i \in 1..Len(dispatched') /\ dispatched'[i] = m
        BY <1>1, <2>1, <4>1
      <4>3. QED
        BY <4>2
    <3>2. CASE m = taken + 1
      <4>1. Len(dispatched) + 1 \in 1..Len(dispatched')
        BY <1>1, <2>1
      <4>2. QED
        BY <2>1, <3>2, <4>1
    <3>3. QED
      BY <1>3, <3>1, <3>2
  <2>8. QED
    BY <2>1, <2>5, <2>6, <2>7 DEF DispatchedInv, Increasing
<1>5. CASE dispatched' = dispatched /\ taken + 1 \in RefusedMsgs
  <2>1. \A i \in 1..Len(dispatched) : dispatched[i] <= taken'
    BY <1>1, <1>2
  <2>2. \A m \in (1..taken') \ RefusedMsgs : m \in (1..taken) \ RefusedMsgs
    BY <1>3, <1>5
  <2>3. QED
    BY <1>5, <2>1, <2>2 DEF DispatchedInv, Increasing
<1>6. QED
  BY <1>4, <1>5 DEF Turn

\* Messages are dispatched in the order the agent wrote them, and only one that
\* DispatchReadMessage refused is left out.
THEOREM MessagesDispatchedInOrder == Spec => []DispatchedInOrder
<1>1. Init => DispatchedInv
  BY EmptySeq DEF Init, DispatchedInv, Increasing
<1>2. DispatchedInv /\ IInv /\ [Next]_vars => DispatchedInv'
  <2> SUFFICES ASSUME DispatchedInv, IInv, [Next]_vars PROVE DispatchedInv'
    OBVIOUS
  <2>1. ChannelStep
    BY NextStep DEF ChannelStep, vars, kernelVars
  <2>2. CASE UNCHANGED <<taken, dispatched>>
    BY <2>2 DEF DispatchedInv, Increasing
  <2>3. QED
    BY <2>1, <2>2, DispatchedTurn DEF ChannelStep, AgentWrite
<1>3. DispatchedInv => DispatchedInOrder
  BY LenProperties DEF DispatchedInv, DispatchedInOrder
<1>4. QED
  BY Invariant, <1>1, <1>2, <1>3, PTL DEF Spec

\* TEC_OnAgentMessage gets the messages of a thread of the agent in the order
\* they were written, however the workers interleave, and though a dispatcher
\* takes rounds apart and puts what it did not process back to the front.
THEOREM MessagesHandledInOrder == Spec => []HandledInOrder
<1>1. EngineInv => HandledInOrder
  BY DEF EngineInv, StreamInv, Stream, HandledInOrder
<1>2. QED
  BY EngineInvariant, <1>1, PTL

\* nRefCount is the number of references that exist, on every path through
\* errors and disconnects: every AddRef has its one Release.
THEOREM ReferencesExact == Spec => []RefCountExact
<1>1. EngineInv => RefCountExact
  BY DEF EngineInv, Exact
<1>2. QED
  BY EngineInvariant, <1>1, PTL

\* A read completed out of order is looked for when its turn comes: the worker
\* that makes it the next one, or found it was not, has yet to look.
THEOREM ReadsNotStranded == Spec => []NoStrandedRead
<1>1. EngineInv => NoStrandedRead
  BY DEF EngineInv
<1>2. QED
  BY EngineInvariant, <1>1, PTL

\* The reference count is never negative.
LEMMA RefCountNat == IInv /\ Exact => nRefCount \in Nat
<1> SUFFICES ASSUME IInv, Exact PROVE nRefCount \in Nat
  BY Zenon
<1>1. posted \in Seq(Nat) /\ iocp \in Seq(Packet)
  BY DEF IInv, OrderTypes
<1>2. Len(posted) \in Nat /\ Len(iocp) \in Nat
  BY <1>1, LenProperties
<1>3. Cardinality(InDispatch) \in Nat /\ First1 \in Nat
  BY FS_CardinalityType DEF Exact, First1
<1>4. nRefCount = First1 + Len(posted) + Len(iocp) + 2 * Cardinality(Busy) - Cardinality(Adding)
                  + Cardinality(InDispatch) + Cardinality(Inside) + Cardinality(Using)
  BY RefCountIs DEF Exact
<1>5. PICK f \in Nat, p \in Nat, i \in Nat, b \in Nat, a \in Nat, q \in Nat, n \in Nat, u \in Nat :
        /\ f = First1 /\ p = Len(posted) /\ i = Len(iocp) /\ b = Cardinality(Busy) /\ a = Cardinality(Adding)
        /\ q = Cardinality(InDispatch) /\ n = Cardinality(Inside) /\ u = Cardinality(Using)
  BY <1>2, <1>3, CountsTyped, Zenon
<1>6. a <= b
  BY <1>5, AddingBusy
<1>7. nRefCount = f + p + i + 2 * b - a + q + n + u
  BY <1>4, <1>5
<1>8. QED
  BY <1>6, <1>7

\* Every variable of the engine keeps its type; that a message is one of the
\* agent's, and the count no negative number, rest on the whole invariant.
THEOREM TypeCorrect == Spec => []TypeOK
<1>1. IInv /\ EngineInv => TypeOK
  <2> SUFFICES ASSUME IInv, EngineInv PROVE TypeOK
    OBVIOUS
  <2>1. OrderTypes /\ RestTypes /\ DispTypes /\ nRefCount \in Nat
    BY RefCountNat DEF IInv, EngineInv, DispInv
  <2>2. readedQueue \subseteq [order : Nat, msg : Msgs]
    <3>1. sent \in 0..NMsgs /\ NMsgs \in Nat
      BY <2>1, ConstantsAssumption DEF OrderTypes
    <3>2. ASSUME NEW b \in readedQueue PROVE b \in [order : Nat, msg : Msgs]
      <4>1. b \in [order : Nat, msg : Nat]
        BY <2>1 DEF OrderTypes
      <4>2. b.msg \in Nat /\ b.msg >= 1 /\ b.msg <= sent
        BY <4>1 DEF IInv, MessageInv, IsMessage
      <4>3. b.msg \in Msgs
        BY <3>1, <4>2 DEF Msgs
      <4>4. QED
        BY <4>1, <4>3
    <3>3. QED
      BY <3>2
  <2>3. QED
    BY <2>1, <2>2, Zenon DEF TypeOK, OrderTypes, RestTypes, SeqTypes, LifeTypes, DiscTypes, ClientTypes,
                             DispTypes, DispRecord
<1>2. QED
  BY EngineInvariant, <1>1, PTL
=============================================================================
