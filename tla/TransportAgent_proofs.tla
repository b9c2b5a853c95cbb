----------------------- MODULE TransportAgent_proofs -----------------------
(***************************************************************************)
(* For any number of workers, reads ahead and messages: the type invariant *)
(* of TransportAgent, that the wire is in order and a failed write ends    *)
(* the connection, and that the transport implements AgentChannel and      *)
(* OrderedDelivery.                                                        *)
(***************************************************************************)
EXTENDS TransportAgent, FiniteSetTheorems, SequenceTheorems, TLAPS

(* The reads and their orders *)

\* Where the order of a read that did not fail can be.
Arrived(i) == i \in DOMAIN iocp /\ iocp[i].type = "read" /\ iocp[i].res = "ok"
InHand(w) == w \in Workers /\ At(w, "queueRead")
Handling(w) == w \in Workers /\ At(w, "inMessage")

Pended(o) == \E io \in reading : io.order = o
Placed(o) ==
  \/ Pended(o)
  \/ \E i \in DOMAIN iocp : Arrived(i) /\ iocp[i].order = o
  \/ \E w \in Workers : InHand(w) /\ worker[w].pkt.order = o
  \/ \E b \in readedQueue : b.order = o

\* Orders that are still to be processed.
Due(o) == nNextReadOrderToProcess <= o /\ o <= nNextReadOrder

DueInv ==
  /\ nNextReadOrderToProcess <= nNextReadOrder + 1
  /\ \A io \in reading : Due(io.order)
  /\ \A i \in DOMAIN iocp : Arrived(i) => Due(iocp[i].order)
  /\ \A w \in Workers : InHand(w) => Due(worker[w].pkt.order)
  /\ \A b \in readedQueue : Due(b.order)

\* No order is in two places.
OnePlace ==
  /\ \A io, jo \in reading : io.order = jo.order => io = jo
  /\ \A i, j \in DOMAIN iocp : Arrived(i) /\ Arrived(j) /\ iocp[i].order = iocp[j].order => i = j
  /\ \A w, v \in Workers : InHand(w) /\ InHand(v) /\ worker[w].pkt.order = worker[v].pkt.order => w = v
  /\ \A b, c \in readedQueue : b.order = c.order => b = c
  /\ \A io \in reading :
       /\ \A i \in DOMAIN iocp : Arrived(i) => iocp[i].order # io.order
       /\ \A w \in Workers : InHand(w) => worker[w].pkt.order # io.order
       /\ \A b \in readedQueue : b.order # io.order
  /\ \A i \in DOMAIN iocp : Arrived(i) =>
       /\ \A w \in Workers : InHand(w) => worker[w].pkt.order # iocp[i].order
       /\ \A b \in readedQueue : b.order # iocp[i].order
  /\ \A w \in Workers : InHand(w) => \A b \in readedQueue : b.order # worker[w].pkt.order

\* The worker that calls the manager has the order to process, and it is alone.
HandlingInv ==
  /\ \A w \in Workers : At(w, "get") => worker[w].n <= nNextReadOrderToProcess
  /\ \A w \in Workers : Handling(w) =>
       /\ worker[w].n = nNextReadOrderToProcess
       /\ Due(nNextReadOrderToProcess) /\ ~Placed(nNextReadOrderToProcess)
       /\ \A v \in Workers : Handling(v) => v = w

(* The messages that were read *)

\* No order up to o has been lost with a read that failed.
Unbroken(o) ==
  \A h \in nNextReadOrderToProcess..o :
    Placed(h) \/ (h = nNextReadOrderToProcess /\ \E w \in Workers : Handling(w))

AllPended(o) == received <= o /\ \A k \in received + 1..o : Pended(k)

\* As long as no read failed before it, the k-th read has the k-th message.
MessageInv ==
  /\ \A io \in reading : Unbroken(io.order) => received < io.order /\ AllPended(io.order)
  /\ \A i \in DOMAIN iocp : Arrived(i) /\ Unbroken(iocp[i].order) =>
       iocp[i].msg = iocp[i].order /\ iocp[i].order <= received
  /\ \A w \in Workers : InHand(w) /\ Unbroken(worker[w].pkt.order) =>
       worker[w].pkt.msg = worker[w].pkt.order /\ worker[w].pkt.order <= received
  /\ \A b \in readedQueue : Unbroken(b.order) => b.msg = b.order /\ b.order <= received
  /\ Unbroken(nNextReadOrder) => AllPended(nNextReadOrder)

HandledInv ==
  Len(handled) = IF \E w \in Workers : Handling(w) THEN nNextReadOrderToProcess ELSE nNextReadOrderToProcess - 1

(* The writes and their orders *)

Requested(i) == i \in DOMAIN iocp /\ iocp[i].type = "request"
Bringing(w) == w \in Workers /\ At(w, "queueWrite")
Writing(w) == w \in Workers /\ worker[w].pc \in {"write", "written"}

Queued(o) ==
  \/ \E i \in DOMAIN iocp : Requested(i) /\ iocp[i].order = o
  \/ \E w \in Workers : Bringing(w) /\ worker[w].pkt.order = o
  \/ \E b \in toWriteQueue : b.order = o

ToWrite(o) == nNextWriteOrderToProcess <= o /\ o <= nNextWriteOrder

ToWriteInv ==
  /\ nNextWriteOrderToProcess <= nNextWriteOrder + 1
  /\ \A i \in DOMAIN iocp : Requested(i) => ToWrite(iocp[i].order)
  /\ \A w \in Workers : Bringing(w) => ToWrite(worker[w].pkt.order)
  /\ \A b \in toWriteQueue : ToWrite(b.order)

OneRequest ==
  /\ \A i, j \in DOMAIN iocp : Requested(i) /\ Requested(j) /\ iocp[i].order = iocp[j].order => i = j
  /\ \A w, v \in Workers : Bringing(w) /\ Bringing(v) /\ worker[w].pkt.order = worker[v].pkt.order => w = v
  /\ \A b, c \in toWriteQueue : b.order = c.order => b = c
  /\ \A i \in DOMAIN iocp : Requested(i) =>
       /\ \A w \in Workers : Bringing(w) => worker[w].pkt.order # iocp[i].order
       /\ \A b \in toWriteQueue : b.order # iocp[i].order
  /\ \A w \in Workers : Bringing(w) => \A b \in toWriteQueue : b.order # worker[w].pkt.order

\* The worker that writes has the order to process, and it is alone.
WritingInv ==
  /\ \A w \in Workers : At(w, "wget") => worker[w].n <= nNextWriteOrderToProcess
  /\ \A w \in Workers : Writing(w) =>
       /\ worker[w].pkt.order = nNextWriteOrderToProcess
       /\ ToWrite(nNextWriteOrderToProcess) /\ ~Queued(nNextWriteOrderToProcess)
       /\ \A v \in Workers : Writing(v) => v = w

\* What is on the wire was processed, or is just being.
WireInv ==
  \A k \in 1..Len(wire) :
    /\ wire[k] <= nNextWriteOrderToProcess
    /\ wire[k] = nNextWriteOrderToProcess => \E w \in Workers : At(w, "written")

\* Unless a message was lost, all that was processed is on the wire.
Lost ==
  \/ nThreadsEnding = 1
  \/ \E w \in Workers : worker[w].res # "ok" /\ worker[w].pc \in {"written", "ending"}
AllWritten ==
  /\ \A k \in 1..Len(wire) : wire[k] = k
  /\ Len(wire) = IF \E w \in Workers : At(w, "written") THEN nNextWriteOrderToProcess
                                                        ELSE nNextWriteOrderToProcess - 1
LostInv == Lost \/ AllWritten

(* How the workers begin and end *)

Working == {"inEstablished", "queueRead", "readAgain", "drain", "get", "inMessage",
            "queueWrite", "wdrain", "wget", "write", "ahead", "idle"}
Ending == {"error", "inError", "disconnect", "close", "inClosed"}

\* Who works has met no error; nothing happens before the connection.
ResultInv == \A w \in Workers : worker[w].pc \in Working \ {"idle"} => worker[w].res = "ok"

FreshInv ==
  hPipe \in {"fresh", "listening"} =>
    /\ iocp = <<>> /\ reading = {} /\ writing = {} /\ readedQueue = {} /\ toWriteQueue = {}
    /\ \A w \in Workers : At(w, "idle")
    /\ nThreadsEnding = 0 /\ fin = "no"
    /\ calls = [established |-> 0, error |-> 0, closed |-> 0]

\* A connect is tried again only until it succeeded or the pipe is closed.
Retried(i) == i \in DOMAIN iocp /\ (iocp[i].type = "retry" \/ (iocp[i].type = "connect" /\ iocp[i].res # "ok"))
RetryInv ==
  hPipe # "closed" => /\ \A i \in DOMAIN iocp : ~Retried(i)
                      /\ \A w \in Workers : ~At(w, "connect")

\* One packet says that the engine connected; it is on its way, or some worker has it.
Connected(i) == i \in DOMAIN iocp /\ iocp[i].type = "connect" /\ iocp[i].res = "ok"
ConnectInv ==
  /\ \A i, j \in DOMAIN iocp : Connected(i) /\ Connected(j) => i = j
  /\ \A w, v \in Workers : At(w, "ahead") /\ At(v, "ahead") => w = v
  /\ \A i \in DOMAIN iocp, w \in Workers : Connected(i) => ~At(w, "ahead")
  /\ \A i \in DOMAIN iocp : Connected(i) => calls.established = 0
  /\ \A w \in Workers : At(w, "ahead") => calls.established = 0
  /\ \A w \in Workers : At(w, "inEstablished") => calls.established = 1
  /\ \A w, v \in Workers : At(w, "inEstablished") /\ At(v, "inEstablished") => w = v

\* The first worker that ends tells the error and the end.
EndInv ==
  /\ \A w \in Workers : worker[w].pc \in Ending \cup {"ended"} => nThreadsEnding = 1
  /\ \A w, v \in Workers : worker[w].pc \in Ending /\ worker[v].pc \in Ending => w = v
  /\ nThreadsEnding = 0 => calls.error = 0 /\ calls.closed = 0
  /\ nThreadsEnding = 1 => calls.closed > 0 \/ \E w \in Workers : worker[w].pc \in Ending
  /\ \A w \in Workers :
       /\ At(w, "error") => calls.error = 0
       /\ At(w, "inError") => calls.error = 1
       /\ worker[w].pc \in {"error", "inError", "disconnect", "close"} => calls.closed = 0
       /\ At(w, "close") => hPipe \in {"disconnected", "closed"}
       /\ At(w, "inClosed") => calls.closed = 1

FinInv ==
  /\ fin # "no" => hPipe = "closed"
  /\ fin = "done" => \A w \in Workers : At(w, "ended")

ReadInv == DueInv /\ OnePlace /\ HandlingInv
WriteInv == ToWriteInv /\ OneRequest /\ WritingInv /\ WireInv /\ WireInOrder /\ LostInv
LifeInv == ResultInv /\ FreshInv /\ RetryInv /\ ConnectInv /\ EndInv /\ FinInv
DeliverInv == MessageInv /\ HandledInv
IInv == TypeOK /\ LifeInv /\ ReadInv /\ DeliverInv /\ WriteInv

----------------------------------------------------------------------------
(* What a step does to a worker and to the completion port *)

Rec == [pc : Pcs, pkt : Packet, n : Nat, res : Result]

Becomes(w, p, k, n, r) ==
  /\ worker' \in [Workers -> Rec]
  /\ worker'[w] = [pc |-> p, pkt |-> k, n |-> n, res |-> r]
  /\ \A v \in Workers \ {w} : worker'[v] = worker[v]

Goes(w, p) == Becomes(w, p, worker[w].pkt, worker[w].n, worker[w].res)

\* A worker takes a packet: all of its record is new.
LEMMA Whole ==
  ASSUME worker \in [Workers -> Rec], NEW w \in Workers,
         NEW p \in Pcs, NEW k \in Packet, NEW n \in Nat, NEW r \in Result,
         worker' = [worker EXCEPT ![w] = [pc |-> p, pkt |-> k, n |-> n, res |-> r]]
  PROVE  Becomes(w, p, k, n, r)
BY DEF Becomes, Rec

\* A worker only goes on.
LEMMA PcOnly ==
  ASSUME worker \in [Workers -> Rec], NEW w \in Workers, NEW p \in Pcs,
         worker' = [worker EXCEPT ![w].pc = p]
  PROVE  Goes(w, p)
BY DEF Goes, Becomes, Rec

\* A worker goes on with a new result.
LEMMA ResPc ==
  ASSUME worker \in [Workers -> Rec], NEW w \in Workers, NEW p \in Pcs, NEW r \in Result,
         \/ worker' = [worker EXCEPT ![w].res = r, ![w].pc = p]
         \/ worker' = [worker EXCEPT ![w].pc = p, ![w].res = r]
  PROVE  Becomes(w, p, worker[w].pkt, worker[w].n, r)
BY DEF Becomes, Rec

\* A worker goes on with a new count and a new result.
LEMMA NResPc ==
  ASSUME worker \in [Workers -> Rec], NEW w \in Workers,
         NEW p \in Pcs, NEW n \in Nat, NEW r \in Result,
         worker' = [worker EXCEPT ![w].n = n, ![w].res = r, ![w].pc = p]
  PROVE  Becomes(w, p, worker[w].pkt, n, r)
BY DEF Becomes, Rec

\* A worker goes on with a new count.
LEMMA NPc ==
  ASSUME worker \in [Workers -> Rec], NEW w \in Workers, NEW p \in Pcs, NEW n \in Nat,
         worker' = [worker EXCEPT ![w].n = n, ![w].pc = p]
  PROVE  Becomes(w, p, worker[w].pkt, n, worker[w].res)
BY DEF Becomes, Rec

\* A worker goes on with a new packet.
LEMMA PktPc ==
  ASSUME worker \in [Workers -> Rec], NEW w \in Workers, NEW p \in Pcs, NEW k \in Packet,
         worker' = [worker EXCEPT ![w].pkt = k, ![w].pc = p]
  PROVE  Becomes(w, p, k, worker[w].n, worker[w].res)
BY DEF Becomes, Rec

\* The packets at the port after a step.
Put(p) ==
  /\ iocp' \in Seq(Packet) /\ Len(iocp') = Len(iocp) + 1
  /\ iocp'[Len(iocp) + 1] = p
  /\ \A i \in 1..Len(iocp) : iocp'[i] = iocp[i]

Taken ==
  /\ iocp' \in Seq(Packet) /\ Len(iocp') = Len(iocp) - 1 /\ Len(iocp) >= 1
  /\ Head(iocp) = iocp[1] /\ Head(iocp) \in Packet
  /\ \A i \in 1..Len(iocp') : iocp'[i] = iocp[i + 1]

Added(T, R) ==
  /\ iocp' \in Seq(Packet) /\ Len(iocp) <= Len(iocp')
  /\ \A i \in 1..Len(iocp) : iocp'[i] = iocp[i]
  /\ \A i \in Len(iocp) + 1..Len(iocp') : iocp'[i].type \in T /\ iocp'[i].res \in R

\* One packet is put at the end of the port.
LEMMA Puts ==
  ASSUME iocp \in Seq(Packet), NEW p \in Packet, iocp' = Append(iocp, p)
  PROVE  Put(p)
BY AppendProperties DEF Put

\* The first packet of the port is taken.
LEMMA Takes ==
  ASSUME iocp \in Seq(Packet), iocp # <<>>, iocp' = Tail(iocp)
  PROVE  Taken
<1>1. Len(iocp) \in Nat /\ Len(iocp) >= 1
  BY EmptySeq, LenProperties
<1>2. QED
  BY <1>1, HeadTailProperties, ElementOfSeq DEF Taken

\* Several packets, whose types and results are known, are put at the end of the port.
LEMMA Adds ==
  ASSUME iocp \in Seq(Packet), NEW T, NEW R, NEW s \in Seq(Packet), iocp' = iocp \o s,
         \A i \in 1..Len(s) : s[i].type \in T /\ s[i].res \in R
  PROVE  Added(T, R)
<1>1. /\ iocp' \in Seq(Packet) /\ Len(iocp) \in Nat /\ Len(s) \in Nat
      /\ Len(iocp') = Len(iocp) + Len(s)
      /\ \A i \in 1..Len(iocp) + Len(s) : iocp'[i] = IF i <= Len(iocp) THEN iocp[i] ELSE s[i - Len(iocp)]
  BY ConcatProperties, LenProperties
<1>2. \A i \in Len(iocp) + 1..Len(iocp') : i - Len(iocp) \in 1..Len(s) /\ iocp'[i] = s[i - Len(iocp)]
  BY <1>1
<1>3. QED
  BY <1>1, <1>2 DEF Added

\* Two sequences of such packets are one.
LEMMA AddsMore ==
  ASSUME iocp \in Seq(Packet), NEW T, NEW R, NEW s \in Seq(Packet), NEW t \in Seq(Packet),
         \A i \in 1..Len(s) : s[i].type \in T /\ s[i].res \in R,
         \A i \in 1..Len(t) : t[i].type \in T /\ t[i].res \in R
  PROVE  /\ s \o t \in Seq(Packet)
         /\ \A i \in 1..Len(s \o t) : (s \o t)[i].type \in T /\ (s \o t)[i].res \in R
<1>1. /\ Len(s) \in Nat /\ Len(t) \in Nat /\ s \o t \in Seq(Packet) /\ Len(s \o t) = Len(s) + Len(t)
      /\ \A i \in 1..Len(s) + Len(t) : (s \o t)[i] = IF i <= Len(s) THEN s[i] ELSE t[i - Len(s)]
  BY ConcatProperties, LenProperties
<1>2. \A i \in 1..Len(s) + Len(t) : i <= Len(s) => i \in 1..Len(s)
  BY <1>1
<1>3. \A i \in 1..Len(s) + Len(t) : ~(i <= Len(s)) => i - Len(s) \in 1..Len(t)
  BY <1>1
<1>4. QED
  BY <1>1, <1>2, <1>3

\* The completions of calls that failed.
LEMMA FailuresAre ==
  ASSUME NEW ios, IsFiniteSet(ios), NEW t \in {"read", "write"}, NEW r \in {"gone", "error"}
  PROVE  /\ Failures(t, ios, r) \in Seq(Packet)
         /\ \A i \in 1..Len(Failures(t, ios, r)) :
              Failures(t, ios, r)[i].type = t /\ Failures(t, ios, r)[i].res = r
<1> DEFINE n == Cardinality(ios)
<1>1. n \in Nat
  BY FS_CardinalityType
<1> HIDE DEF n
<1>2. Completion(t, r) \in Packet /\ Completion(t, r).type = t /\ Completion(t, r).res = r
  BY DEF Completion, Packet, Result
<1>3. Failures(t, ios, r) = [i \in 1..n |-> Completion(t, r)]
  BY DEF Failures, n
<1>4. /\ Failures(t, ios, r) \in Seq(Packet) /\ Len(Failures(t, ios, r)) = n
      /\ \A i \in 1..n : Failures(t, ios, r)[i] = Completion(t, r)
  BY <1>1, <1>2, <1>3
<1>5. QED
  BY <1>2, <1>4

\* Closing the pipe, or cancelling some of its calls.
LEMMA Failing ==
  ASSUME TypeOK, NEW a, NEW b, IsFiniteSet(a), IsFiniteSet(b), NEW r \in {"gone", "error"},
         iocp' = iocp \o Failures("read", a, r) \o Failures("write", b, r)
  PROVE  Added({"read", "write"}, {"gone", "error"})
<1> DEFINE s == Failures("read", a, r)
           t == Failures("write", b, r)
           T == {"read", "write"}
           R == {"gone", "error"}
<1>1. /\ s \in Seq(Packet) /\ t \in Seq(Packet)
      /\ \A i \in 1..Len(s) : s[i].type \in T /\ s[i].res \in R
      /\ \A i \in 1..Len(t) : t[i].type \in T /\ t[i].res \in R
  <2>1. s \in Seq(Packet) /\ \A i \in 1..Len(s) : s[i].type = "read" /\ s[i].res = r
    BY FailuresAre
  <2>2. t \in Seq(Packet) /\ \A i \in 1..Len(t) : t[i].type = "write" /\ t[i].res = r
    BY FailuresAre
  <2> HIDE DEF s, t
  <2>3. QED
    BY <2>1, <2>2
<1> HIDE DEF s, t, T, R
<1>2. iocp \in Seq(Packet)
  BY DEF TypeOK
<1>3. iocp' = iocp \o (s \o t)
  <2>1. iocp' = (iocp \o s) \o t
    BY DEF s, t
  <2>2. (iocp \o s) \o t = iocp \o (s \o t)
    <3>1. s \in Seq(Packet) /\ t \in Seq(Packet)
      BY <1>1
    <3>2. QED
      BY <1>2, <3>1, ConcatAssociative
  <2>3. QED
    BY <2>1, <2>2
<1> DEFINE u == s \o t
<1>4. u \in Seq(Packet) /\ \A i \in 1..Len(u) : u[i].type \in T /\ u[i].res \in R
  BY <1>1, <1>2, AddsMore
<1>5. iocp' = iocp \o u
  BY <1>3
<1> HIDE DEF u
<1>6. Added(T, R)
  BY <1>2, <1>4, <1>5, Adds
<1>7. QED
  BY <1>6 DEF T, R

\* Where each action takes its worker.
LEMMA Moves ==
  ASSUME TypeOK, NEW w \in Workers
  PROVE  /\ GetQueuedCompletionStatus(w) =>
              Becomes(w, Branch(Head(iocp)), Head(iocp), ReadAhead,
                      IF Head(iocp).type = "connect" THEN "ok" ELSE Head(iocp).res)
         /\ ConnectAgain(w) => Goes(w, "idle")
         /\ SetupReadAhead(w) =>
              Becomes(w, IF ReadResult = "ok" THEN "ahead" ELSE "ending", worker[w].pkt, worker[w].n - 1,
              ReadResult)
         /\ CallConnectionEstablished(w) => Goes(w, "inEstablished")
         /\ ConnectionEstablishedReturns(w) => Goes(w, "idle")
         /\ AddBufferInSortedReadedQueue(w) => Goes(w, "readAgain")
         /\ ReadAgain(w) =>
              Becomes(w, IF ReadResult = "ok" THEN "drain" ELSE "ending", worker[w].pkt, worker[w].n,
              ReadResult)
         /\ DrainRead(w) =>
              Becomes(w, IF cShutdownEvent THEN "idle" ELSE "get", worker[w].pkt, nNextReadOrderToProcess,
              worker[w].res)
         /\ NothingToRead(w) => Goes(w, "idle")
         /\ CallEngineMessage(w) => Goes(w, "inMessage")
         /\ EngineMessageReturns(w) =>
              \E r \in Result : Becomes(w, IF r = "ok" THEN "drain" ELSE "ending", worker[w].pkt, worker[w].n, r)
         /\ AddBufferInSortedToWriteQueue(w) => Goes(w, "wdrain")
         /\ DrainWrite(w) =>
              Becomes(w, IF cShutdownEvent THEN "idle" ELSE "wget", worker[w].pkt, nNextWriteOrderToProcess,
              worker[w].res)
         /\ NextWriteOrder(w) =>
              Becomes(w, IF worker[w].res = "ok" THEN "wdrain" ELSE "ending", worker[w].pkt, worker[w].n,
              worker[w].res)
         /\ CallTransportError(w) => Goes(w, "inError")
         /\ TransportErrorReturns(w) => Goes(w, "disconnect")
         /\ DisconnectNamedPipe(w) => Goes(w, "close")
         /\ CallConnectionClosed(w) => Goes(w, "inClosed")
         /\ ConnectionClosedReturns(w) => Goes(w, "ended")
<1>0. worker \in [Workers -> Rec] /\ worker[w].res \in Result /\ worker[w].pkt \in Packet /\ worker[w].n \in Nat
  BY DEF TypeOK, Rec
<1>r. ReadResult \in Result
  BY DEF ReadResult, Result
<1>1. ASSUME GetQueuedCompletionStatus(w)
      PROVE  Becomes(w, Branch(Head(iocp)), Head(iocp), ReadAhead,
                     IF Head(iocp).type = "connect" THEN "ok" ELSE Head(iocp).res)
  <2>1. Head(iocp) \in Packet
    BY <1>1, Takes DEF TypeOK, GetQueuedCompletionStatus, Taken
  <2>2. Branch(Head(iocp)) \in Pcs /\ (IF Head(iocp).type = "connect" THEN "ok" ELSE Head(iocp).res) \in Result
    BY <2>1 DEF Branch, Pcs, Packet, Result
  <2>3. ReadAhead \in Nat
    BY ConstantsAssumption
  <2>4. QED
    BY <1>0, <1>1, <2>1, <2>2, <2>3, Whole DEF GetQueuedCompletionStatus
<1>2. ASSUME SetupReadAhead(w)
      PROVE  Becomes(w, IF ReadResult = "ok" THEN "ahead" ELSE "ending", worker[w].pkt, worker[w].n - 1,
      ReadResult)
  <2>1. worker[w].n - 1 \in Nat
    BY <1>0, <1>2 DEF SetupReadAhead
  <2>2. worker' = [worker EXCEPT ![w].n = worker[w].n - 1, ![w].res = ReadResult,
                                 ![w].pc = IF ReadResult = "ok" THEN "ahead" ELSE "ending"]
    BY <1>2 DEF SetupReadAhead
  <2>3. (IF ReadResult = "ok" THEN "ahead" ELSE "ending") \in Pcs
    BY DEF Pcs
  <2>4. QED
    BY <1>0, <1>r, <2>1, <2>2, <2>3, NResPc
<1>3. ASSUME ReadAgain(w)
      PROVE  Becomes(w, IF ReadResult = "ok" THEN "drain" ELSE "ending", worker[w].pkt, worker[w].n, ReadResult)
  <2>1. (IF ReadResult = "ok" THEN "drain" ELSE "ending") \in Pcs
    BY DEF Pcs
  <2>2. QED
    BY <1>0, <1>r, <1>3, <2>1, ResPc DEF ReadAgain, Leave
<1>4. ASSUME EngineMessageReturns(w)
      PROVE  \E r \in Result : Becomes(w, IF r = "ok" THEN "drain" ELSE "ending", worker[w].pkt, worker[w].n, r)
  <2>1. PICK r \in Result : Leave(w, r, "drain")
    BY <1>4 DEF EngineMessageReturns, Result
  <2>2. (IF r = "ok" THEN "drain" ELSE "ending") \in Pcs
    BY DEF Pcs
  <2>3. Becomes(w, IF r = "ok" THEN "drain" ELSE "ending", worker[w].pkt, worker[w].n, r)
    BY <1>0, <2>1, <2>2, ResPc DEF Leave
  <2>4. QED
    BY <2>3
<1>5. ASSUME NextWriteOrder(w)
      PROVE  Becomes(w, IF worker[w].res = "ok" THEN "wdrain" ELSE "ending", worker[w].pkt, worker[w].n,
      worker[w].res)
  <2>1. (IF worker[w].res = "ok" THEN "wdrain" ELSE "ending") \in Pcs
    BY DEF Pcs
  <2>2. QED
    BY <1>0, <1>5, <2>1, ResPc DEF NextWriteOrder, Leave
<1>6. DrainRead(w) => Becomes(w, IF cShutdownEvent THEN "idle" ELSE "get", worker[w].pkt,
                              nNextReadOrderToProcess, worker[w].res)
  <2>1. (IF cShutdownEvent THEN "idle" ELSE "get") \in Pcs /\ nNextReadOrderToProcess \in Nat
    BY DEF Pcs, TypeOK
  <2>2. QED
    BY <1>0, <2>1, NPc DEF DrainRead
<1>7. DrainWrite(w) => Becomes(w, IF cShutdownEvent THEN "idle" ELSE "wget", worker[w].pkt,
                               nNextWriteOrderToProcess, worker[w].res)
  <2>1. (IF cShutdownEvent THEN "idle" ELSE "wget") \in Pcs /\ nNextWriteOrderToProcess \in Nat
    BY DEF Pcs, TypeOK
  <2>2. QED
    BY <1>0, <2>1, NPc DEF DrainWrite
<1>8. {"idle", "inEstablished", "readAgain", "inMessage", "wdrain", "inError", "disconnect",
       "close", "inClosed", "ended"} \subseteq Pcs
  BY DEF Pcs
<1>9. /\ ConnectAgain(w) => Goes(w, "idle")
      /\ CallConnectionEstablished(w) => Goes(w, "inEstablished")
      /\ ConnectionEstablishedReturns(w) => Goes(w, "idle")
      /\ AddBufferInSortedReadedQueue(w) => Goes(w, "readAgain")
  BY <1>0, <1>8, PcOnly DEF ConnectAgain, CallConnectionEstablished, ConnectionEstablishedReturns,
     AddBufferInSortedReadedQueue, GoTo
<1>10. /\ NothingToRead(w) => Goes(w, "idle")
       /\ CallEngineMessage(w) => Goes(w, "inMessage")
       /\ AddBufferInSortedToWriteQueue(w) => Goes(w, "wdrain")
       /\ CallTransportError(w) => Goes(w, "inError")
  BY <1>0, <1>8, PcOnly DEF NothingToRead, CallEngineMessage, AddBufferInSortedToWriteQueue,
     CallTransportError, GoTo
<1>11. /\ TransportErrorReturns(w) => Goes(w, "disconnect")
       /\ DisconnectNamedPipe(w) => Goes(w, "close")
       /\ CallConnectionClosed(w) => Goes(w, "inClosed")
       /\ ConnectionClosedReturns(w) => Goes(w, "ended")
  BY <1>0, <1>8, PcOnly DEF TransportErrorReturns, DisconnectNamedPipe, CallConnectionClosed,
     ConnectionClosedReturns, GoTo
<1>12. QED
  BY <1>1, <1>2, <1>3, <1>4, <1>5, <1>6, <1>7, <1>9, <1>10, <1>11

\* The three that choose: a message to write, the result of a write, who closes.
LEMMA WriteMoves ==
  ASSUME TypeOK, NEW w \in Workers
  PROVE  /\ GetBufferFromSortedToWriteQueue(w) =>
              \/ Goes(w, "idle") /\ toWriteQueue' = toWriteQueue
              \/ \E b \in toWriteQueue : /\ b.order = worker[w].n
                                         /\ toWriteQueue' = toWriteQueue \ {b}
                                         /\ Becomes(w, "write", b, worker[w].n, worker[w].res)
         /\ WriteFile(w) =>
              \/ /\ hPipe = "connected" /\ wire' = Append(wire, worker[w].pkt.order)
                 /\ writing' = writing \cup {[order |-> worker[w].pkt.order, by |-> w]}
                 /\ Goes(w, "written")
              \/ /\ UNCHANGED <<writing, wire>>
                 /\ \E r \in {"gone", "error"} : Becomes(w, "written", worker[w].pkt, worker[w].n, r)
         /\ BeginEnding(w) =>
              \/ nThreadsEnding = 1 /\ Goes(w, "ended") /\ UNCHANGED ioVars
              \/ /\ nThreadsEnding = 0
                 /\ Goes(w, "disconnect") \/ (Goes(w, "error") /\ fin = "no")
                 /\ reading' \subseteq reading /\ writing' \subseteq writing
                 /\ Added({"read", "write"}, {"gone", "error"})
<1>0. worker \in [Workers -> Rec] /\ worker[w].res \in Result /\ worker[w].pkt \in Packet /\ worker[w].n \in Nat
  BY DEF TypeOK, Rec
<1>1. {"idle", "write", "written", "ended", "error", "disconnect"} \subseteq Pcs
  BY DEF Pcs
<1>2. ASSUME GetBufferFromSortedToWriteQueue(w)
      PROVE  \/ Goes(w, "idle") /\ toWriteQueue' = toWriteQueue
             \/ \E b \in toWriteQueue : /\ b.order = worker[w].n
                                        /\ toWriteQueue' = toWriteQueue \ {b}
                                        /\ Becomes(w, "write", b, worker[w].n, worker[w].res)
  <2>1. CASE GoTo(w, "idle") /\ UNCHANGED toWriteQueue
    BY <2>1, <1>0, <1>1, PcOnly DEF GoTo
  <2>2. ASSUME NEW b \in First(toWriteQueue), b.order = worker[w].n, toWriteQueue' = toWriteQueue \ {b},
               worker' = [worker EXCEPT ![w].pkt = b, ![w].pc = "write"]
        PROVE  \E c \in toWriteQueue : /\ c.order = worker[w].n
                                       /\ toWriteQueue' = toWriteQueue \ {c}
                                       /\ Becomes(w, "write", c, worker[w].n, worker[w].res)
    <3>1. b \in toWriteQueue /\ b \in Packet
      BY DEF First, TypeOK
    <3>2. Becomes(w, "write", b, worker[w].n, worker[w].res)
      BY <2>2, <3>1, <1>0, <1>1, PktPc
    <3>3. QED
      BY <2>2, <3>1, <3>2
  <2>3. QED
    BY <1>2, <2>1, <2>2 DEF GetBufferFromSortedToWriteQueue
<1>3. ASSUME WriteFile(w)
      PROVE  \/ /\ hPipe = "connected" /\ wire' = Append(wire, worker[w].pkt.order)
                /\ writing' = writing \cup {[order |-> worker[w].pkt.order, by |-> w]}
                /\ Goes(w, "written")
             \/ /\ UNCHANGED <<writing, wire>>
                /\ \E r \in {"gone", "error"} : Becomes(w, "written", worker[w].pkt, worker[w].n, r)
  <2> DEFINE r == IF hPipe = "disconnected" THEN "gone" ELSE "error"
  <2>1. CASE worker' = [worker EXCEPT ![w].pc = "written", ![w].res = r] /\ UNCHANGED <<writing, wire>>
    <3>1. r \in Result /\ r \in {"gone", "error"}
      BY DEF Result
    <3>2. Becomes(w, "written", worker[w].pkt, worker[w].n, r)
      BY <1>0, <1>1, <2>1, <3>1, ResPc
    <3>3. QED
      BY <2>1, <3>1, <3>2
  <2>2. CASE worker' = [worker EXCEPT ![w].pc = "written"]
    <3>1. Goes(w, "written")
      BY <1>0, <1>1, <2>2, PcOnly
    <3>2. worker'[w].res = worker[w].res
      BY <3>1 DEF Goes, Becomes
    <3>3. QED
      BY <1>3, <3>1, <2>1 DEF WriteFile
  <2>3. QED
    BY <1>3, <2>1, <2>2 DEF WriteFile
<1>4. ASSUME BeginEnding(w)
      PROVE  \/ nThreadsEnding = 1 /\ Goes(w, "ended") /\ UNCHANGED ioVars
             \/ /\ nThreadsEnding = 0
                /\ Goes(w, "disconnect") \/ (Goes(w, "error") /\ fin = "no")
                /\ reading' \subseteq reading /\ writing' \subseteq writing
                /\ Added({"read", "write"}, {"gone", "error"})
  <2>1. CASE nThreadsEnding = 1
    BY <1>0, <1>1, <1>4, <2>1, PcOnly DEF BeginEnding, GoTo
  <2>2. CASE nThreadsEnding # 1
    <3>1. nThreadsEnding = 0
      BY <2>2 DEF TypeOK
    <3>2. IsFiniteSet(By(w, reading)) /\ IsFiniteSet(By(w, writing))
      BY FS_Subset DEF By, TypeOK
    <3>3. Added({"read", "write"}, {"gone", "error"})
      BY <1>4, <2>2, <3>2, Failing DEF BeginEnding
    <3>4. Goes(w, "disconnect") \/ (Goes(w, "error") /\ fin = "no")
      BY <1>0, <1>1, <1>4, <2>2, PcOnly DEF BeginEnding, GoTo, cShutdownEvent
    <3>5. QED
      BY <1>4, <2>2, <3>1, <3>3, <3>4 DEF BeginEnding
  <2>3. QED
    BY <2>1, <2>2
<1>5. QED
  BY <1>2, <1>3, <1>4

----------------------------------------------------------------------------
(* Types *)

\* What a worker becomes is a worker.
LEMMA WorkersTyped ==
  ASSUME TypeOK, [Next]_vars
  PROVE  worker' \in [Workers -> Rec]
<1>1. worker' = worker => worker' \in [Workers -> Rec]
  BY DEF TypeOK, Rec
<1>2. ASSUME NEW w \in Workers, WorkerStep(w) \/ CallbackReturns(w)
      PROVE  worker' \in [Workers -> Rec]
  BY <1>2, Moves, WriteMoves DEF WorkerStep, CallbackReturns, Goes, Becomes, GetBufferFromSortedToWriteQueue,
     WriteFile,
     BeginEnding
<1>3. QED
  BY <1>1, <1>2 DEF Next, vars, StartServer, Environment, EngineConnects, EngineWrites, EngineLeaves,
     ReadCompletes,
     WriteCompletes, SendMsg, Finalize, FinalizeShutdown, FinalizeQuit, FinalizeJoin

\* The port stays a sequence of packets,
LEMMA Appended ==
  ASSUME iocp \in Seq(Packet), NEW p \in Packet
  PROVE  Append(iocp, p) \in Seq(Packet)
BY AppendProperties

\* and a completion is a packet.
LEMMA CompletionTyped ==
  ASSUME NEW t \in {"connect", "retry", "read", "request", "write", "quit"}, NEW r \in Result
  PROVE  Completion(t, r) \in Packet
BY DEF Completion, Packet

\* Packets may be put one after another or together.
LEMMA Joined ==
  ASSUME NEW a \in Seq(Packet), NEW b \in Seq(Packet), NEW c \in Seq(Packet)
  PROVE  (a \o b) \o c = a \o (b \o c)
BY ConcatAssociative

\* The calls on a pipe that is closed or disconnected.
LEMMA PendingFail ==
  ASSUME TypeOK, FailPending
  PROVE  /\ reading' = {} /\ writing' = {}
         /\ Added({"read", "write", "connect"}, {"gone"})
         /\ hPipe # "listening" => Added({"read", "write"}, {"gone"})
<1> DEFINE c == IF hPipe = "listening" THEN <<Completion("connect", "gone")>> ELSE <<>>
           s == Failures("read", reading, "gone")
           t == Failures("write", writing, "gone")
           u == s \o t
<1>1. reading' = {} /\ writing' = {} /\ iocp' = iocp \o c \o s \o t
  BY DEF FailPending
<1>2. iocp \in Seq(Packet) /\ IsFiniteSet(reading) /\ IsFiniteSet(writing)
  BY DEF TypeOK
<1>3. /\ s \in Seq(Packet) /\ t \in Seq(Packet)
      /\ \A i \in 1..Len(s) : s[i].type \in {"read", "write"} /\ s[i].res \in {"gone"}
      /\ \A i \in 1..Len(t) : t[i].type \in {"read", "write"} /\ t[i].res \in {"gone"}
  BY <1>2, FailuresAre
<1> HIDE DEF s, t
<1>4. /\ u \in Seq(Packet)
      /\ \A i \in 1..Len(u) : u[i].type \in {"read", "write"} /\ u[i].res \in {"gone"}
  BY <1>2, <1>3, AddsMore
<1>5. /\ c \in Seq(Packet)
      /\ \A i \in 1..Len(c) : c[i].type \in {"read", "write", "connect"} /\ c[i].res \in {"gone"}
  <2>1. Completion("connect", "gone") \in Packet
    BY CompletionTyped DEF Result
  <2>2. CASE hPipe = "listening"
    BY <2>1, <2>2 DEF Completion
  <2>3. CASE hPipe # "listening"
    BY <2>3
  <2>4. QED
    BY <2>2, <2>3
<1>6. hPipe # "listening" => c = <<>>
  OBVIOUS
<1> HIDE DEF c
<1>7. iocp' = iocp \o (c \o u)
  <2>1. iocp \o c \in Seq(Packet)
    BY <1>2, <1>5, ConcatProperties
  <2>2. (iocp \o c) \o s \o t = (iocp \o c) \o u
    <3>1. s \in Seq(Packet) /\ t \in Seq(Packet)
      BY <1>3
    <3>2. QED
      BY <2>1, <3>1, Joined DEF u
  <2>3. (iocp \o c) \o u = iocp \o (c \o u)
    <3>1. iocp \in Seq(Packet) /\ c \in Seq(Packet) /\ u \in Seq(Packet)
      BY <1>2, <1>4, <1>5
    <3>2. QED
      BY <3>1, Joined
  <2>4. iocp' = iocp \o c \o s \o t
    BY <1>1 DEF c, s, t
  <2>5. QED
    BY <2>2, <2>3, <2>4
<1> HIDE DEF u
<1>8. ASSUME hPipe # "listening"
      PROVE  Added({"read", "write"}, {"gone"})
  <2>1. iocp' = iocp \o u
    BY <1>4, <1>6, <1>7, <1>8, ConcatEmptySeq
  <2>2. QED
    BY <1>2, <1>4, <2>1, Adds
<1>9. Added({"read", "write", "connect"}, {"gone"})
  <2>1. \A i \in 1..Len(u) : u[i].type \in {"read", "write", "connect"} /\ u[i].res \in {"gone"}
    BY <1>4
  <2> DEFINE v == c \o u
  <2>2. v \in Seq(Packet) /\ \A i \in 1..Len(v) : v[i].type \in {"read", "write", "connect"} /\ v[i].res \in {"gone"}
    BY <1>2, <1>4, <1>5, <2>1, AddsMore
  <2> HIDE DEF v
  <2>3. iocp' = iocp \o v
    BY <1>7 DEF v
  <2>4. QED
    BY <1>2, <2>2, <2>3, Adds
<1>10. QED
  BY <1>1, <1>8, <1>9

\* Finalize puts only quit packets.
LEMMA QuitsAdded ==
  ASSUME TypeOK, FinalizeQuit
  PROVE  Added({"quit"}, {"ok"})
<1> DEFINE n == Cardinality(Workers)
           s == [i \in 1..n |-> Packet0]
<1>1. n \in Nat
  BY ConstantsAssumption, FS_CardinalityType
<1>2. iocp' = iocp \o s
  BY DEF FinalizeQuit
<1> HIDE DEF n
<1>3. Packet0 \in Packet
  BY CompletionTyped DEF Result, Packet0
<1>4. s \in Seq(Packet) /\ \A i \in 1..Len(s) : s[i] = Packet0
  BY <1>1, <1>3
<1>5. Packet0.type \in {"quit"} /\ Packet0.res \in {"ok"}
  BY DEF Packet0, Completion
<1> HIDE DEF s
<1>6. QED
  BY <1>2, <1>4, <1>5, Adds DEF TypeOK

\* The port after a step of each kind.
LEMMA PortTyped ==
  ASSUME TypeOK, [Next]_vars
  PROVE  iocp' \in Seq(Packet)
<1>0. iocp \in Seq(Packet)
  BY DEF TypeOK
<1>1. ASSUME NEW w \in Workers, BeginEnding(w)
      PROVE  iocp' \in Seq(Packet)
  BY <1>0, <1>1, WriteMoves DEF Added, ioVars
<1>2. FailPending => iocp' \in Seq(Packet)
  BY PendingFail DEF Added
<1>3. ASSUME ReadCompletes
      PROVE  iocp' \in Seq(Packet)
  <2>1. PICK io \in reading :
          \/ iocp' = Append(iocp, [type |-> "read", order |-> io.order, msg |-> received + 1, res |-> "ok"])
          \/ iocp' = Append(iocp, Completion("read", "gone"))
    BY <1>3 DEF ReadCompletes, First
  <2>2. [type |-> "read", order |-> io.order, msg |-> received + 1, res |-> "ok"] \in Packet
    BY <2>1 DEF TypeOK, Pending, Packet, Result
  <2>3. Completion("read", "gone") \in Packet
    BY CompletionTyped DEF Result
  <2>4. QED
    BY <1>0, <2>1, <2>2, <2>3, Appended
<1>4. ASSUME SendMsg
      PROVE  iocp' \in Seq(Packet)
  <2>1. [Completion("request", "ok") EXCEPT !.order = nNextWriteOrder + 1] \in Packet
    <3>1. [Completion("request", "ok") EXCEPT !.order = nNextWriteOrder + 1] =
            [type |-> "request", order |-> nNextWriteOrder + 1, msg |-> 0, res |-> "ok"]
      BY DEF Completion
    <3>2. QED
      BY <3>1 DEF Packet, Result, TypeOK
  <2>2. QED
    BY <1>0, <1>4, <2>1, Appended DEF SendMsg
<1>5. /\ Completion("connect", "ok") \in Packet /\ Completion("retry", "ok") \in Packet
      /\ Completion("write", "gone") \in Packet /\ Completion("write", "ok") \in Packet
      /\ Packet0 \in Packet
  BY CompletionTyped DEF Result, Packet0
<1>6. EngineConnects \/ SendConnectPacket \/ WriteCompletes => iocp' \in Seq(Packet)
  BY <1>0, <1>5, Appended DEF EngineConnects, SendConnectPacket, WriteCompletes
<1>7. FinalizeQuit => iocp' \in Seq(Packet)
  BY QuitsAdded DEF Added
<1>8. ASSUME NEW w \in Workers, WorkerStep(w) \/ CallbackReturns(w)
      PROVE  iocp' \in Seq(Packet)
  <2>1. GetQueuedCompletionStatus(w) => iocp' \in Seq(Packet)
    BY <1>0, Takes DEF GetQueuedCompletionStatus, Taken
  <2>2. ConnectAgain(w) => iocp' \in Seq(Packet)
    BY <1>6 DEF ConnectAgain
  <2>3. DisconnectNamedPipe(w) => iocp' \in Seq(Packet)
    BY <1>0, <1>2 DEF DisconnectNamedPipe, ioVars
  <2>4. QED
    BY <1>0, <1>1, <1>8, <2>1, <2>2, <2>3 DEF WorkerStep, CallbackReturns, SetupReadAhead,
       CallConnectionEstablished,
       ConnectionEstablishedReturns, AddBufferInSortedReadedQueue, ReadAgain, DrainRead, NothingToRead,
       CallEngineMessage, EngineMessageReturns, AddBufferInSortedToWriteQueue, DrainWrite,
       GetBufferFromSortedToWriteQueue, WriteFile, NextWriteOrder, CallTransportError, TransportErrorReturns,
       CallConnectionClosed, ConnectionClosedReturns, ioVars
<1>9. FinalizeJoin => iocp' \in Seq(Packet)
  BY DEF FinalizeJoin
<1>10. StartServer \/ Environment \/ Finalize => iocp' \in Seq(Packet)
  BY <1>0, <1>2, <1>3, <1>6, <1>7, <1>9 DEF StartServer, Environment, EngineWrites, EngineLeaves,
     Finalize, FinalizeShutdown, ioVars
<1>11. QED
  BY <1>0, <1>4, <1>8, <1>10 DEF Next, vars, ioVars

\* Pending calls stay finitely many, and of their type.
LEMMA PendingTyped ==
  ASSUME TypeOK, [Next]_vars
  PROVE  /\ reading' \subseteq Pending /\ IsFiniteSet(reading')
         /\ writing' \subseteq Pending /\ IsFiniteSet(writing')
<1>0. /\ reading \subseteq Pending /\ IsFiniteSet(reading)
      /\ writing \subseteq Pending /\ IsFiniteSet(writing)
  BY DEF TypeOK
<1>1. ASSUME NEW w \in Workers, SendReadPacket(w)
      PROVE  reading' \subseteq Pending /\ IsFiniteSet(reading')
  <2>1. [order |-> nNextReadOrder + 1, by |-> w] \in Pending
    BY DEF Pending, TypeOK
  <2>2. IsFiniteSet(reading \cup {[order |-> nNextReadOrder + 1, by |-> w]})
    BY <1>0, FS_AddElement
  <2>3. QED
    BY <1>0, <1>1, <2>1, <2>2 DEF SendReadPacket
<1>2. ASSUME NEW w \in Workers, WriteFile(w)
      PROVE  writing' \subseteq Pending /\ IsFiniteSet(writing')
  <2>1. [order |-> worker[w].pkt.order, by |-> w] \in Pending
    BY DEF Pending, TypeOK, Packet
  <2>2. IsFiniteSet(writing \cup {[order |-> worker[w].pkt.order, by |-> w]})
    BY <1>0, FS_AddElement
  <2>3. QED
    BY <1>0, <1>2, <2>1, <2>2 DEF WriteFile
<1>3. reading' \subseteq reading => reading' \subseteq Pending /\ IsFiniteSet(reading')
  BY <1>0, FS_Subset
<1>4. writing' \subseteq writing => writing' \subseteq Pending /\ IsFiniteSet(writing')
  BY <1>0, FS_Subset
<1>5. FailPending => reading' \subseteq reading /\ writing' \subseteq writing
  BY DEF FailPending
<1>6. ASSUME NEW w \in Workers, WorkerStep(w) \/ CallbackReturns(w)
      PROVE  /\ reading' \subseteq reading \/ SendReadPacket(w)
             /\ writing' \subseteq writing \/ WriteFile(w)
  BY <1>5, <1>6, WriteMoves DEF WorkerStep, CallbackReturns, GetQueuedCompletionStatus, ConnectAgain,
     SetupReadAhead,
     CallConnectionEstablished,
     ConnectionEstablishedReturns, AddBufferInSortedReadedQueue, ReadAgain, DrainRead, NothingToRead,
     CallEngineMessage, EngineMessageReturns, AddBufferInSortedToWriteQueue, DrainWrite,
     GetBufferFromSortedToWriteQueue, WriteFile, NextWriteOrder, CallTransportError, TransportErrorReturns,
     DisconnectNamedPipe, CallConnectionClosed, ConnectionClosedReturns, ioVars
<1>7. \/ reading' \subseteq reading /\ writing' \subseteq writing
      \/ \E w \in Workers : WorkerStep(w) \/ CallbackReturns(w)
  BY <1>5 DEF Next, vars, StartServer, Environment, EngineConnects, EngineWrites, EngineLeaves, ReadCompletes,
     WriteCompletes, SendMsg, Finalize, FinalizeShutdown, FinalizeQuit, FinalizeJoin, ioVars, First
<1>8. QED
  BY <1>1, <1>2, <1>3, <1>4, <1>6, <1>7

\* Every step keeps the types.
LEMMA TypeStep ==
  ASSUME TypeOK, [Next]_vars
  PROVE  TypeOK'
<1>1. worker' \in [Workers -> [pc : Pcs, pkt : Packet, n : Nat, res : Result]] /\ iocp' \in Seq(Packet)
  BY WorkersTyped, PortTyped DEF Rec
<1> DEFINE Moved ==
      /\ nNextReadOrder' \in {nNextReadOrder, nNextReadOrder + 1}
      /\ nNextReadOrderToProcess' \in {nNextReadOrderToProcess, nNextReadOrderToProcess + 1}
      /\ nNextWriteOrder' \in {nNextWriteOrder, nNextWriteOrder + 1}
      /\ nNextWriteOrderToProcess' \in {nNextWriteOrderToProcess, nNextWriteOrderToProcess + 1}
      /\ nThreadsEnding' \in {nThreadsEnding, 1}
      /\ fin' \in {fin, "signalled", "quit", "done"}
      /\ hPipe' \in {hPipe, "listening", "connected", "broken", "disconnected", "closed"}
      /\ UNCHANGED <<sent, received>> \/ EngineWrites \/ ReadCompletes
      /\ readedQueue' \subseteq readedQueue \cup {worker[w].pkt : w \in Workers}
      /\ toWriteQueue' \subseteq toWriteQueue \cup {worker[w].pkt : w \in Workers}
      /\ handled' = handled \/ \E b \in readedQueue : handled' = Append(handled, b.msg)
      /\ wire' = wire \/ \E w \in Workers : wire' = Append(wire, worker[w].pkt.order)
      /\ \/ calls' = calls
         \/ calls' = [calls EXCEPT !.established = calls.established + 1]
         \/ calls' = [calls EXCEPT !.error = calls.error + 1]
         \/ calls' = [calls EXCEPT !.closed = calls.closed + 1]
<1>2. Moved
  <2>1. ASSUME NEW w \in Workers,
               \/ GetQueuedCompletionStatus(w) \/ ConnectAgain(w) \/ SetupReadAhead(w) \/ CallConnectionEstablished(w)
               \/ ConnectionEstablishedReturns(w) \/ AddBufferInSortedReadedQueue(w) \/ ReadAgain(w) \/ DrainRead(w)
               \/ NothingToRead(w) \/ CallEngineMessage(w) \/ EngineMessageReturns(w)
        PROVE  Moved
    BY <2>1 DEF SendReadPacket, SendConnectPacket, GetQueuedCompletionStatus, ConnectAgain, SetupReadAhead,
       CallConnectionEstablished, ConnectionEstablishedReturns, AddBufferInSortedReadedQueue, ReadAgain,
       DrainRead,
       NothingToRead, First, CallEngineMessage, EngineMessageReturns, pipeVars, readVars, writeVars
  <2>2. ASSUME NEW w \in Workers,
               \/ AddBufferInSortedToWriteQueue(w) \/ DrainWrite(w) \/ GetBufferFromSortedToWriteQueue(w) \/ WriteFile(w)
               \/ NextWriteOrder(w) \/ BeginEnding(w) \/ CallTransportError(w) \/ TransportErrorReturns(w)
               \/ DisconnectNamedPipe(w) \/ CallConnectionClosed(w) \/ ConnectionClosedReturns(w)
        PROVE  Moved
    BY <2>2 DEF AddBufferInSortedToWriteQueue, DrainWrite, GetBufferFromSortedToWriteQueue, WriteFile,
       NextWriteOrder,
       BeginEnding, CallTransportError, TransportErrorReturns, DisconnectNamedPipe, CallConnectionClosed,
       ConnectionClosedReturns, pipeVars, readVars, writeVars
  <2>3. StartServer \/ Environment \/ SendMsg \/ Finalize \/ UNCHANGED vars => Moved
    BY DEF StartServer, SendConnectPacket, Environment, EngineConnects, EngineWrites, EngineLeaves,
       ReadCompletes,
       WriteCompletes, SendMsg, Finalize, FinalizeShutdown, FinalizeQuit, FinalizeJoin, vars, pipeVars,
       readVars, writeVars
  <2>4. QED
    BY <2>1, <2>2, <2>3 DEF Next, WorkerStep, CallbackReturns
<1>3. sent' \in Nat /\ received' \in 0..sent'
  <2>1. sent \in Nat /\ received \in Nat /\ received <= sent
    BY DEF TypeOK
  <2>2. UNCHANGED <<sent, received>> => sent' \in Nat /\ received' \in 0..sent'
    BY <2>1
  <2>3. EngineWrites => sent' \in Nat /\ received' \in 0..sent'
    BY <2>1 DEF EngineWrites
  <2>4. ReadCompletes => sent' \in Nat /\ received' \in 0..sent'
    BY <2>1 DEF ReadCompletes
  <2>5. QED
    BY <1>2, <2>2, <2>3, <2>4
<1>4. handled' \in Seq(Nat)
  <2>1. ASSUME NEW b \in readedQueue
        PROVE  b.msg \in Nat
    BY DEF TypeOK, Packet
  <2>2. handled \in Seq(Nat)
    BY DEF TypeOK
  <2>3. QED
    BY <1>2, <2>1, <2>2, AppendProperties
<1>5. wire' \in Seq(Nat)
  <2>1. ASSUME NEW w \in Workers
        PROVE  worker[w].pkt.order \in Nat
    BY DEF TypeOK, Packet
  <2>2. wire \in Seq(Nat)
    BY DEF TypeOK
  <2>3. QED
    BY <1>2, <2>1, <2>2, AppendProperties
<1>6. calls' \in [established : Nat, error : Nat, closed : Nat]
  <2>1. calls \in [established : Nat, error : Nat, closed : Nat]
    BY DEF TypeOK
  <2>2. QED
    BY <1>2, <2>1
<1>7. {worker[w].pkt : w \in Workers} \subseteq Packet
  BY DEF TypeOK
<1>8. /\ nNextReadOrder' \in Nat /\ nNextReadOrderToProcess' \in Nat \ {0}
       /\ nNextWriteOrder' \in Nat /\ nNextWriteOrderToProcess' \in Nat \ {0}
       /\ nThreadsEnding' \in 0..1
       /\ fin' \in {"no", "signalled", "quit", "done"}
  <2>1. /\ nNextReadOrder \in Nat /\ nNextReadOrderToProcess \in Nat \ {0}
        /\ nNextWriteOrder \in Nat /\ nNextWriteOrderToProcess \in Nat \ {0}
        /\ nThreadsEnding \in 0..1
        /\ fin \in {"no", "signalled", "quit", "done"}
    BY DEF TypeOK
  <2>2. QED
    BY <1>2, <2>1
<1>9. /\ hPipe' \in {"fresh", "listening", "connected", "broken", "disconnected", "closed"}
       /\ readedQueue' \subseteq Packet /\ toWriteQueue' \subseteq Packet
  BY <1>2, <1>7 DEF TypeOK
<1>10. QED
  BY <1>1, <1>3, <1>4, <1>5, <1>6, <1>8, <1>9, PendingTyped DEF TypeOK

----------------------------------------------------------------------------
(* Steps that only take reads away *)

\* No message that was read (t = "read"), none to write ("request"), and no
\* new connection ("connect").
Plain(t, p) == p.type # t \/ (t # "request" /\ p.res # "ok")

\* The port has the packets it had, without the first d, and plain ones.
PortKeeps(t, d) ==
  \A i \in DOMAIN iocp' : Plain(t, iocp'[i]) \/ (i + d \in DOMAIN iocp /\ iocp'[i] = iocp[i + d])

\* No worker goes to or comes from a place in S.
Stays(S) == \A v \in Workers : worker[v].pc \in S \/ worker'[v].pc \in S => worker'[v] = worker[v]

\* The places of a sequence are numbers.
LEMMA Indexes ==
  ASSUME NEW s \in Seq(Packet)
  PROVE  \A i \in DOMAIN s : i \in Nat \ {0}
BY LenProperties

\* The port keeps its packets when a plain one is put,
LEMMA PutKeeps ==
  ASSUME TypeOK, NEW t, NEW p, Plain(t, p), Put(p)
  PROVE  PortKeeps(t, 0)
<1>1. DOMAIN iocp = 1..Len(iocp) /\ Len(iocp) \in Nat /\ DOMAIN iocp' = 1..Len(iocp')
  BY LenProperties DEF TypeOK, Put
<1>2. ASSUME NEW i \in 1..Len(iocp'), i # Len(iocp) + 1
      PROVE  i \in 1..Len(iocp)
  BY <1>1, <1>2 DEF Put
<1>3. QED
  BY <1>1, <1>2 DEF Put, PortKeeps

\* when the first is taken,
LEMMA TakenKeeps ==
  ASSUME TypeOK, NEW t, Taken
  PROVE  PortKeeps(t, 1)
<1>1. DOMAIN iocp = 1..Len(iocp) /\ DOMAIN iocp' = 1..Len(iocp') /\ Len(iocp) \in Nat
  BY LenProperties DEF Taken, TypeOK
<1>2. QED
  BY <1>1 DEF Taken, PortKeeps

\* when several plain ones are added,
LEMMA AddedKeeps ==
  ASSUME TypeOK, NEW t, NEW T, NEW R, Added(T, R), t \notin T \/ (t # "request" /\ "ok" \notin R)
  PROVE  PortKeeps(t, 0)
<1>1. DOMAIN iocp = 1..Len(iocp) /\ Len(iocp) \in Nat /\ DOMAIN iocp' = 1..Len(iocp') /\ Len(iocp') \in Nat
  BY LenProperties DEF TypeOK, Added
<1>2. ASSUME NEW i \in 1..Len(iocp'), i \notin 1..Len(iocp)
      PROVE  Plain(t, iocp'[i])
  <2>1. i \in Len(iocp) + 1..Len(iocp')
    BY <1>1, <1>2
  <2>2. iocp'[i].type \in T /\ iocp'[i].res \in R
    BY <2>1 DEF Added
  <2>3. QED
    BY <2>2 DEF Plain
<1>3. QED
  BY <1>1, <1>2 DEF Added, PortKeeps

\* and when nothing happens to it.
LEMMA SameKeeps ==
  ASSUME TypeOK, NEW t, iocp' = iocp
  PROVE  PortKeeps(t, 0)
BY LenProperties DEF PortKeeps, TypeOK

\* A worker that moves elsewhere leaves the places in S alone.
LEMMA BecomesStays ==
  ASSUME NEW w \in Workers, NEW p, NEW k, NEW n, NEW r, Becomes(w, p, k, n, r),
         NEW S, worker[w].pc \notin S, p \notin S
  PROVE  Stays(S)
BY DEF Becomes, Stays

\* A packet that has a message, and is not handled yet.
Found(b) ==
  \/ \E i \in DOMAIN iocp : Arrived(i) /\ iocp[i] = b
  \/ \E w \in Workers : InHand(w) /\ worker[w].pkt = b
  \/ b \in readedQueue

\* The reads go on as they were, except that some failed or were not posted.
ReadStays ==
  /\ reading' \subseteq reading
  /\ \A b : Found(b)' => Found(b)
  /\ received' = received /\ handled' = handled
  /\ nNextReadOrderToProcess' = nNextReadOrderToProcess
  /\ nNextReadOrder' \in {nNextReadOrder, nNextReadOrder + 1}
  /\ Stays({"inMessage"})
  /\ \A v \in Workers : At(v, "get")' => worker'[v].n <= nNextReadOrderToProcess

\* Where an order is, and what a message that is found says.
FoundInv ==
  /\ \A o : Placed(o) <=> Pended(o) \/ \E b : Found(b) /\ b.order = o
  /\ DueInv => \A b : Found(b) => Due(b.order)
  /\ OnePlace => \A b : Found(b) => ~Pended(b.order)
  /\ \A b : Found(b) => b \in Packet
  /\ MessageInv <=>
       /\ \A io \in reading : Unbroken(io.order) => received < io.order /\ AllPended(io.order)
       /\ \A b : Found(b) /\ Unbroken(b.order) => b.msg = b.order /\ b.order <= received
       /\ Unbroken(nNextReadOrder) => AllPended(nNextReadOrder)

\* What the invariant says of the places, said of messages that are found.
LEMMA FoundAnywhere ==
  /\ TypeOK => FoundInv
  /\ TypeOK' => FoundInv'
<1>1. TypeOK => FoundInv
  <2>1. (\A o : Placed(o) <=> Pended(o) \/ \E b : Found(b) /\ b.order = o)
    BY DEF Placed, Found
  <2>2. (DueInv => \A b : Found(b) => Due(b.order))
    BY DEF DueInv, Found
  <2>3. (OnePlace => \A b : Found(b) => ~Pended(b.order))
    BY DEF OnePlace, Found, Pended
  <2>4. (TypeOK => \A b : Found(b) => b \in Packet)
    BY ElementOfSeq, LenProperties DEF TypeOK, Found, Arrived, InHand
  <2>5. (MessageInv <=>
           /\ \A io \in reading : Unbroken(io.order) => received < io.order /\ AllPended(io.order)
           /\ \A b : Found(b) /\ Unbroken(b.order) => b.msg = b.order /\ b.order <= received
           /\ Unbroken(nNextReadOrder) => AllPended(nNextReadOrder))
    BY DEF MessageInv, Found
  <2>6. QED
    BY <2>1, <2>2, <2>3, <2>4, <2>5 DEF FoundInv
<1>2. TypeOK' => FoundInv'
  <2>1. (\A o : Placed(o) <=> Pended(o) \/ \E b : Found(b) /\ b.order = o)'
    BY DEF Placed, Found
  <2>2. (DueInv => \A b : Found(b) => Due(b.order))'
    BY DEF DueInv, Found
  <2>3. (OnePlace => \A b : Found(b) => ~Pended(b.order))'
    BY DEF OnePlace, Found, Pended
  <2>4. (TypeOK => \A b : Found(b) => b \in Packet)'
    BY ElementOfSeq, LenProperties DEF TypeOK, Found, Arrived, InHand
  <2>5. (MessageInv <=>
           /\ \A io \in reading : Unbroken(io.order) => received < io.order /\ AllPended(io.order)
           /\ \A b : Found(b) /\ Unbroken(b.order) => b.msg = b.order /\ b.order <= received
           /\ Unbroken(nNextReadOrder) => AllPended(nNextReadOrder))'
    BY DEF MessageInv, Found
  <2>6. QED
    BY <2>1, <2>2, <2>3, <2>4, <2>5 DEF FoundInv
<1>3. QED
  BY <1>1, <1>2

\* When reads only fail or are given up, what is said of them stays true.
LEMMA ReadsStay ==
  ASSUME TypeOK, TypeOK', ReadInv, DeliverInv, ReadStays, OnePlace'
  PROVE  ReadInv' /\ DeliverInv'
<1>1. /\ nNextReadOrder \in Nat /\ nNextReadOrderToProcess \in Nat /\ received \in Nat
      /\ \A io \in reading : io.order \in Nat
      /\ nNextReadOrderToProcess' = nNextReadOrderToProcess
      /\ nNextReadOrder' = nNextReadOrder \/ nNextReadOrder' = nNextReadOrder + 1
  BY DEF TypeOK, Pending, ReadStays
<1>f. FoundInv /\ FoundInv'
  BY FoundAnywhere
<1>2. \A w \in Workers : /\ Handling(w)' <=> Handling(w)
                         /\ Handling(w) => worker'[w] = worker[w]
  BY DEF ReadStays, Stays, Handling, At
<1>3. \A o : Pended(o)' => Pended(o)
  BY DEF ReadStays, Pended
<1>4. \A o : Placed(o)' => Placed(o)
  BY <1>3, <1>f DEF FoundInv, ReadStays
<1>5. \A o : Unbroken(o)' => Unbroken(o)
  BY <1>2, <1>4 DEF Unbroken, ReadStays
<1>6. \A o : Placed(o) => Due(o)
  BY <1>f DEF FoundInv, ReadInv, DueInv, Pended
<1>7. DueInv'
  <2>1. \A o : Placed(o)' => Due(o)'
    <3>1. ASSUME NEW o, Placed(o)'
          PROVE  Due(o)'
      <4>1. o \in Nat /\ Due(o)
        BY <1>1, <1>4, <1>6, <1>f, <3>1 DEF FoundInv, Pended, Packet
      <4>2. QED
        BY <1>1, <4>1 DEF Due, ReadStays
    <3>2. QED
      BY <3>1
  <2>2. nNextReadOrderToProcess' <= nNextReadOrder' + 1
    <3>1. nNextReadOrderToProcess <= nNextReadOrder + 1
      BY DEF ReadInv, DueInv
    <3>2. QED
      BY <1>1, <3>1
  <2>3. QED
    BY <2>1, <2>2 DEF DueInv, Placed, Pended
<1>8. HandlingInv'
  <2>1. \A w \in Workers : Handling(w)' =>
          /\ worker'[w].n = nNextReadOrderToProcess'
          /\ Due(nNextReadOrderToProcess)' /\ ~Placed(nNextReadOrderToProcess)'
    BY <1>1, <1>2, <1>4 DEF ReadInv, HandlingInv, ReadStays, Due
  <2>2. QED
    BY <1>2, <2>1 DEF ReadInv, HandlingInv, ReadStays, At
<1>9. ASSUME NEW o \in Nat, Unbroken(o)', AllPended(o), o <= nNextReadOrder
      PROVE  AllPended(o)'
  <2>1. ASSUME NEW k \in received + 1..o
        PROVE  Pended(k)'
    <3>1. Pended(k) /\ nNextReadOrderToProcess <= k
      BY <1>6, <1>9, <2>1 DEF AllPended, Placed, Due
    <3>2. Placed(k)' \/ (k = nNextReadOrderToProcess /\ \E w \in Workers : Handling(w))
      BY <1>1, <1>2, <1>9, <2>1, <3>1 DEF Unbroken, ReadStays
    <3>3. Placed(k)'
      BY <3>1, <3>2 DEF ReadInv, HandlingInv, Placed
    <3>4. ASSUME NEW b, Found(b)', b.order = k
          PROVE  FALSE
      BY <1>f, <3>1, <3>4 DEF FoundInv, ReadStays, ReadInv
    <3>5. QED
      BY <1>f, <3>3, <3>4 DEF FoundInv
  <2>2. QED
    BY <1>9, <2>1 DEF AllPended, ReadStays
<1>10. MessageInv'
  <2>1. \A io \in reading' : Unbroken(io.order)' => received' < io.order /\ AllPended(io.order)'
    <3>1. ASSUME NEW io \in reading', Unbroken(io.order)'
          PROVE  received' < io.order /\ AllPended(io.order)'
      <4>1. io \in reading /\ Unbroken(io.order) /\ io.order \in Nat
        BY <1>1, <1>5, <3>1 DEF ReadStays
      <4>2. received < io.order /\ AllPended(io.order) /\ io.order <= nNextReadOrder
        BY <4>1 DEF DeliverInv, MessageInv, ReadInv, DueInv, Due
      <4>3. QED
        BY <1>9, <3>1, <4>1, <4>2 DEF ReadStays
    <3>2. QED
      BY <3>1
  <2>2. \A b : Found(b)' /\ Unbroken(b.order)' => b.msg = b.order /\ b.order <= received'
    BY <1>5, <1>f DEF FoundInv, DeliverInv, ReadStays
  <2>3. ASSUME Unbroken(nNextReadOrder)'
        PROVE  AllPended(nNextReadOrder)'
    <3>1. CASE nNextReadOrder' = nNextReadOrder
      <4>1. AllPended(nNextReadOrder)
        BY <1>5, <2>3, <3>1 DEF DeliverInv, MessageInv
      <4>2. QED
        BY <1>1, <1>9, <2>3, <3>1, <4>1 DEF AllPended
    <3>2. CASE nNextReadOrder' = nNextReadOrder + 1
      <4>1. nNextReadOrder + 1 \in nNextReadOrderToProcess..nNextReadOrder + 1
        BY <1>1 DEF ReadInv, DueInv
      <4>2. \/ Placed(nNextReadOrder + 1)
            \/ nNextReadOrder + 1 = nNextReadOrderToProcess /\ \E w \in Workers : Handling(w)
        BY <1>5, <2>3, <3>2, <4>1 DEF Unbroken
      <4>3. QED
        BY <1>1, <1>6, <4>2 DEF Due, ReadInv, HandlingInv
    <3>3. QED
      BY <3>1, <3>2 DEF ReadStays
  <2>4. QED
    BY <1>f, <2>1, <2>2, <2>3 DEF FoundInv
<1>11. HandledInv'
  BY <1>2 DEF DeliverInv, HandledInv, ReadStays
<1>12. QED
  BY <1>7, <1>8, <1>10, <1>11 DEF ReadInv, DeliverInv

\* The step takes no message, and puts none anywhere.
ReadShrinks ==
  /\ reading' \subseteq reading /\ readedQueue' \subseteq readedQueue
  /\ received' = received /\ handled' = handled
  /\ nNextReadOrderToProcess' = nNextReadOrderToProcess
  /\ nNextReadOrder' \in {nNextReadOrder, nNextReadOrder + 1}
  /\ Stays({"queueRead", "inMessage"})
  /\ \A v \in Workers : At(v, "get")' => worker'[v].n <= nNextReadOrderToProcess
  /\ \E d \in 0..1 : PortKeeps("read", d)

\* The same, from what the steps do.
LEMMA ReadsShrink ==
  ASSUME TypeOK, TypeOK', ReadInv, DeliverInv, ReadShrinks
  PROVE  ReadInv' /\ DeliverInv'
<1>1. PICK d \in 0..1 : PortKeeps("read", d)
  BY DEF ReadShrinks
<1>2. \A i : Arrived(i)' => Arrived(i + d) /\ iocp'[i] = iocp[i + d]
  BY <1>1 DEF PortKeeps, Plain, Arrived
<1>3. \A w : InHand(w)' => InHand(w) /\ worker'[w].pkt = worker[w].pkt
  BY DEF ReadShrinks, Stays, InHand, At
<1>4. /\ \A io \in reading' : io \in reading
      /\ \A b \in readedQueue' : b \in readedQueue
  BY DEF ReadShrinks
<1>5. OnePlace'
  <2>1. /\ \A io, jo \in reading' : io.order = jo.order => io = jo
        /\ \A w, v \in Workers : InHand(w)' /\ InHand(v)' /\ worker'[w].pkt.order = worker'[v].pkt.order => w = v
        /\ \A b, c \in readedQueue' : b.order = c.order => b = c
    BY <1>3, <1>4 DEF ReadInv, OnePlace
  <2>2. ASSUME NEW i \in DOMAIN iocp', NEW j \in DOMAIN iocp', Arrived(i)', Arrived(j)', iocp'[i].order = iocp'[j].order
        PROVE  i = j
    <3>1. i + d \in DOMAIN iocp /\ j + d \in DOMAIN iocp
      BY <1>2, <2>2 DEF Arrived
    <3>2. i + d = j + d
      BY <1>2, <2>2, <3>1 DEF ReadInv, OnePlace
    <3>3. i \in Int /\ j \in Int
      BY Indexes DEF TypeOK
    <3>4. \A m, n \in Int : m + d = n + d => m = n
      OBVIOUS
    <3>5. QED
      BY <3>2, <3>3, <3>4
  <2>3. \A io \in reading' :
          /\ \A i \in DOMAIN iocp' : Arrived(i)' => iocp'[i].order # io.order
          /\ \A w \in Workers : InHand(w)' => worker'[w].pkt.order # io.order
          /\ \A b \in readedQueue' : b.order # io.order
    <3>1. \A i : Arrived(i)' => i + d \in DOMAIN iocp
      BY <1>2 DEF Arrived
    <3>2. QED
      BY <1>2, <1>3, <1>4, <3>1 DEF ReadInv, OnePlace
  <2>4. /\ \A i \in DOMAIN iocp' : Arrived(i)' =>
             /\ \A w \in Workers : InHand(w)' => worker'[w].pkt.order # iocp'[i].order
             /\ \A b \in readedQueue' : b.order # iocp'[i].order
        /\ \A w \in Workers : InHand(w)' => \A b \in readedQueue' : b.order # worker'[w].pkt.order
    <3>1. \A i : Arrived(i)' => i + d \in DOMAIN iocp
      BY <1>2 DEF Arrived
    <3>2. QED
      BY <1>2, <1>3, <1>4, <3>1 DEF ReadInv, OnePlace
  <2>5. QED
    BY <2>1, <2>2, <2>3, <2>4 DEF OnePlace
<1>6. \A b : Found(b)' => Found(b)
  <2>1. ASSUME NEW i \in DOMAIN iocp', Arrived(i)'
        PROVE  Found(iocp'[i])
    BY <1>2, <2>1 DEF Found, Arrived
  <2>2. QED
    BY <1>3, <1>4, <2>1 DEF Found
<1>7. ReadStays
  BY <1>6 DEF ReadStays, ReadShrinks, Stays
<1>8. QED
  BY <1>5, <1>7, ReadsStay

----------------------------------------------------------------------------
(* Steps that bring a message further *)

\* A worker takes a completed read from the port.
LEMMA TakesRead ==
  ASSUME TypeOK, TypeOK', ReadInv, DeliverInv, NEW w \in Workers, GetQueuedCompletionStatus(w), Arrived(1)
  PROVE  ReadInv' /\ DeliverInv'
<1>1. Taken /\ PortKeeps("read", 1) /\ Head(iocp) = iocp[1]
  BY Takes, TakenKeeps DEF GetQueuedCompletionStatus, Taken, TypeOK
<1>2. Becomes(w, "queueRead", iocp[1], ReadAhead, "ok")
  <2>1. Becomes(w, Branch(iocp[1]), iocp[1], ReadAhead, IF iocp[1].type = "connect" THEN "ok" ELSE iocp[1].res)
    BY <1>1, Moves
  <2>2. Branch(iocp[1]) = "queueRead" /\ iocp[1].type = "read" /\ iocp[1].res = "ok"
    BY DEF Branch, Arrived
  <2>3. QED
    BY <2>1, <2>2
<1>3. At(w, "idle") /\ UNCHANGED <<reading, received, handled, readVars>>
  BY DEF GetQueuedCompletionStatus, pipeVars
<1>4. \A i : Arrived(i)' => Arrived(i + 1) /\ iocp'[i] = iocp[i + 1] /\ i + 1 # 1 /\ i \in Int
  <2>1. \A i \in DOMAIN iocp' : i \in Nat \ {0}
    BY Indexes DEF TypeOK
  <2>2. \A i \in DOMAIN iocp' : i + 1 # 1 /\ i \in Int
    BY <2>1
  <2>3. QED
    BY <1>1, <2>2 DEF PortKeeps, Plain, Arrived
<1>5. /\ InHand(w)' /\ worker'[w].pkt = iocp[1] /\ ~InHand(w)
      /\ \A v : v # w => (InHand(v)' <=> InHand(v)) /\ (InHand(v) => worker'[v].pkt = worker[v].pkt)
  BY <1>2, <1>3 DEF Becomes, InHand, At
<1>6. /\ Stays({"inMessage"})
      /\ \A v \in Workers : At(v, "get")' => worker'[v].n <= nNextReadOrderToProcess
  BY <1>2, <1>3 DEF Becomes, Stays, At, ReadInv, HandlingInv
<1>7. \A i : Arrived(i) => i \in DOMAIN iocp
  BY DEF Arrived
<1>8. \A b : Found(b)' => Found(b)
  <2>1. \A i : Arrived(i)' => Found(iocp'[i])
    BY <1>4, <1>7 DEF Found
  <2>2. Found(iocp[1])
    BY <1>7 DEF Found
  <2>3. QED
    BY <1>3, <1>5, <2>1, <2>2 DEF Found, readVars
<1>9. OnePlace'
  <2>0. OnePlace
    BY DEF ReadInv
  <2>1. /\ \A io, jo \in reading' : io.order = jo.order => io = jo
        /\ \A b, c \in readedQueue' : b.order = c.order => b = c
        /\ \A v, u \in Workers : InHand(v)' /\ InHand(u)' /\ worker'[v].pkt.order = worker'[u].pkt.order => v = u
    BY <1>3, <1>5, <1>7, <2>0 DEF OnePlace, readVars
  <2>2. \A i, j \in DOMAIN iocp' : Arrived(i)' /\ Arrived(j)' /\ iocp'[i].order = iocp'[j].order => i = j
    <3>1. ASSUME NEW i, NEW j, Arrived(i)', Arrived(j)', iocp'[i].order = iocp'[j].order
          PROVE  i = j
      <4>1. i + 1 = j + 1
        BY <1>4, <1>7, <2>0, <3>1 DEF OnePlace
      <4>2. QED
        BY <1>4, <3>1, <4>1
    <3>2. QED
      BY <3>1
  <2>3. \A io \in reading' :
          /\ \A i \in DOMAIN iocp' : Arrived(i)' => iocp'[i].order # io.order
          /\ \A v \in Workers : InHand(v)' => worker'[v].pkt.order # io.order
          /\ \A b \in readedQueue' : b.order # io.order
    BY <1>3, <1>4, <1>5, <1>7, <2>0 DEF OnePlace, readVars
  <2>4. \A i \in DOMAIN iocp' : Arrived(i)' =>
          /\ \A v \in Workers : InHand(v)' => worker'[v].pkt.order # iocp'[i].order
          /\ \A b \in readedQueue' : b.order # iocp'[i].order
    BY <1>3, <1>4, <1>5, <1>7, <2>0 DEF OnePlace, readVars
  <2>5. \A v \in Workers : InHand(v)' => \A b \in readedQueue' : b.order # worker'[v].pkt.order
    BY <1>3, <1>5, <1>7, <2>0 DEF OnePlace, readVars
  <2>6. QED
    BY <2>1, <2>2, <2>3, <2>4, <2>5 DEF OnePlace
<1>10. ReadStays
  BY <1>3, <1>6, <1>8 DEF ReadStays, readVars
<1>11. QED
  BY <1>9, <1>10, ReadsStay

\* A worker brings its message to the sorted queue.
LEMMA QueuesRead ==
  ASSUME TypeOK, TypeOK', ReadInv, DeliverInv, NEW w \in Workers, AddBufferInSortedReadedQueue(w)
  PROVE  ReadInv' /\ DeliverInv'
<1>1. InHand(w) /\ Goes(w, "readAgain")
  BY Moves DEF AddBufferInSortedReadedQueue, InHand
<1>2. /\ UNCHANGED <<reading, iocp, received, handled, nNextReadOrder, nNextReadOrderToProcess>>
      /\ readedQueue' = readedQueue \cup {worker[w].pkt}
  BY DEF AddBufferInSortedReadedQueue, pipeVars, ioVars
<1>3. \A i : Arrived(i)' <=> Arrived(i)
  BY <1>2 DEF Arrived
<1>4. /\ ~InHand(w)'
      /\ \A v : v # w => (InHand(v)' <=> InHand(v)) /\ (InHand(v) => worker'[v].pkt = worker[v].pkt)
  BY <1>1 DEF Goes, Becomes, InHand, At
<1>5. /\ Stays({"inMessage"})
      /\ \A v \in Workers : At(v, "get")' => worker'[v].n <= nNextReadOrderToProcess
  BY <1>1 DEF Goes, Becomes, Stays, At, ReadInv, HandlingInv, InHand
<1>6. \A b : Found(b)' => Found(b)
  BY <1>1, <1>2, <1>3, <1>4 DEF Found
<1>7. OnePlace'
  BY <1>1, <1>2, <1>3, <1>4 DEF ReadInv, OnePlace
<1>8. ReadStays
  BY <1>2, <1>5, <1>6 DEF ReadStays
<1>9. QED
  BY <1>7, <1>8, ReadsStay

\* A read completes with a message: the oldest, so it has the oldest message.
LEMMA Receives ==
  ASSUME TypeOK, TypeOK', ReadInv, DeliverInv, ReadCompletes, received' = received + 1
  PROVE  ReadInv' /\ DeliverInv'
<1>1. PICK io \in First(reading) :
        /\ reading' = reading \ {io}
        /\ iocp' = Append(iocp, [type |-> "read", order |-> io.order, msg |-> received + 1, res |-> "ok"])
  BY DEF ReadCompletes, TypeOK
<1>p. PICK p : p = [type |-> "read", order |-> io.order, msg |-> received + 1, res |-> "ok"]
  OBVIOUS
<1>n. PICK n : n = Len(iocp) + 1
  OBVIOUS
<1>2. /\ io \in reading /\ io.order \in Nat /\ received \in Nat
      /\ \A jo \in reading : io.order <= jo.order /\ jo.order \in Nat
      /\ UNCHANGED <<worker, readVars, handled>>
      /\ nNextReadOrder \in Nat /\ nNextReadOrderToProcess \in Nat
  BY <1>1 DEF First, TypeOK, Pending, ReadCompletes
<1>3. p \in Packet /\ Put(p)
  <2>1. p \in Packet
    BY <1>p, <1>2 DEF Packet, Result
  <2>2. QED
    BY <1>1, <1>p, <2>1, Puts DEF TypeOK
<1>4. /\ iocp'[n] = p /\ Arrived(n)' /\ n \notin DOMAIN iocp
      /\ \A i : i # n => (Arrived(i)' <=> Arrived(i)) /\ (Arrived(i) => iocp'[i] = iocp[i])
  <2>1. /\ Len(iocp) \in Nat /\ DOMAIN iocp = 1..Len(iocp) /\ Len(iocp') = n
        /\ DOMAIN iocp' = 1..Len(iocp')
    BY <1>3, <1>n, LenProperties DEF TypeOK, Put
  <2>2. n \in DOMAIN iocp' /\ n \notin DOMAIN iocp /\ \A i : i # n => (i \in DOMAIN iocp <=> i \in DOMAIN iocp')
    BY <1>n, <2>1
  <2>3. p.type = "read" /\ p.res = "ok"
    BY <1>p
  <2>4. iocp'[n] = p /\ \A i \in DOMAIN iocp : iocp'[i] = iocp[i]
    BY <1>3, <1>n, <2>1 DEF Put
  <2>5. Arrived(n)'
    BY <2>2, <2>3, <2>4 DEF Arrived
  <2>6. QED
    BY <2>2, <2>4, <2>5 DEF Arrived
<1>5. /\ \A w : InHand(w)' <=> InHand(w)
      /\ \A w : Handling(w)' <=> Handling(w)
      /\ worker' = worker /\ readedQueue' = readedQueue
  BY <1>2 DEF InHand, Handling, At, readVars
<1>6. p.order = io.order /\ p.msg = received + 1
  BY <1>p
<1>7. \A b : Found(b)' <=> Found(b) \/ b = p
  <2>1. \A i : Arrived(i)' => i \in DOMAIN iocp'
    BY DEF Arrived
  <2>2. \A i : Arrived(i) => i \in DOMAIN iocp
    BY DEF Arrived
  <2>3. Found(p)'
    BY <1>4, <2>1 DEF Found
  <2>4. \A b : Found(b) => Found(b)'
    BY <1>4, <1>5, <2>1, <2>2 DEF Found
  <2>5. \A b : Found(b)' => Found(b) \/ b = p
    BY <1>4, <1>5, <2>1, <2>2 DEF Found
  <2>6. QED
    BY <2>3, <2>4, <2>5
<1>8. /\ FoundInv /\ FoundInv'
      /\ DueInv /\ OnePlace /\ HandlingInv /\ MessageInv /\ HandledInv
  BY FoundAnywhere DEF ReadInv, DeliverInv
<1>9. \A o : Placed(o)' <=> Placed(o)
  <2>1. \A o : Pended(o)' => Pended(o)
    BY <1>1 DEF Pended
  <2>2. \A o : Pended(o) => Pended(o)' \/ o = io.order
    BY <1>1 DEF Pended
  <2>3. Pended(io.order)
    BY <1>2 DEF Pended
  <2>4. QED
    BY <1>6, <1>7, <1>8, <2>1, <2>2, <2>3 DEF FoundInv
<1>10. \A o : Unbroken(o)' <=> Unbroken(o)
  BY <1>2, <1>5, <1>9 DEF Unbroken, readVars
<1>11. DueInv'
  <2>1. \A o : Due(o)' <=> Due(o)
    BY <1>2 DEF Due, readVars
  <2>2. \A o : Placed(o) => Due(o)
    BY <1>8 DEF FoundInv, DueInv, Pended
  <2>3. QED
    BY <1>2, <1>8, <1>9, <2>1, <2>2 DEF DueInv, Placed, Pended, readVars
<1>12. OnePlace'
  <2>1. /\ \A i \in DOMAIN iocp : Arrived(i) => iocp[i].order # io.order
        /\ \A w \in Workers : InHand(w) => worker[w].pkt.order # io.order
        /\ \A b \in readedQueue : b.order # io.order
        /\ \A jo \in reading' : jo \in reading /\ jo.order # io.order
    BY <1>1, <1>2, <1>8 DEF OnePlace
  <2>2. \A i : Arrived(i) => i \in DOMAIN iocp
    BY DEF Arrived
  <2>3. QED
    BY <1>4, <1>5, <1>6, <1>8, <2>1, <2>2 DEF OnePlace
<1>13. HandlingInv'
  BY <1>2, <1>5, <1>8, <1>9 DEF HandlingInv, readVars, Due, At
<1>14. ASSUME NEW o \in Nat, Unbroken(o), io.order <= o, AllPended(o)
       PROVE  io.order = received + 1 /\ AllPended(o)'
  <2>1. Unbroken(io.order)
    BY <1>2, <1>14 DEF Unbroken
  <2>2. received < io.order
    BY <1>2, <1>8, <2>1 DEF MessageInv
  <2>3. received + 1 \in received + 1..o
    BY <1>2, <1>14, <2>2
  <2>4. Pended(received + 1)
    BY <1>14, <2>3 DEF AllPended
  <2>5. io.order = received + 1
    BY <1>2, <2>2, <2>4 DEF Pended
  <2>6. ASSUME NEW k \in received + 2..o
        PROVE  Pended(k)'
    <3>1. Pended(k) /\ k # io.order
      BY <1>2, <1>14, <2>5 DEF AllPended
    <3>2. QED
      BY <1>1, <3>1 DEF Pended
  <2>7. received' = received + 1 /\ received + 1 <= o
    BY <1>2, <1>14, <2>2
  <2>8. QED
    BY <1>2, <2>5, <2>6, <2>7 DEF AllPended
<1>15. MessageInv'
  <2>1. ASSUME NEW jo \in reading', Unbroken(jo.order)'
        PROVE  received' < jo.order /\ AllPended(jo.order)'
    <3>1. jo \in reading /\ jo # io /\ Unbroken(jo.order)
      BY <1>1, <1>10, <2>1
    <3>2. AllPended(jo.order) /\ io.order <= jo.order /\ io.order # jo.order /\ jo.order \in Nat
      BY <1>2, <1>8, <3>1 DEF MessageInv, OnePlace
    <3>3. QED
      BY <1>2, <1>14, <3>1, <3>2
  <2>2. ASSUME NEW b, Found(b)', Unbroken(b.order)'
        PROVE  b.msg = b.order /\ b.order <= received'
    <3>1. CASE Found(b)
      <4>1. b.msg = b.order /\ b.order <= received /\ b.order \in Nat
        BY <1>8, <1>10, <2>2, <3>1 DEF FoundInv, Packet
      <4>2. QED
        BY <1>2, <4>1
    <3>2. CASE b = p
      <4>1. Unbroken(io.order)
        BY <1>6, <1>10, <2>2, <3>2
      <4>2. AllPended(io.order)
        BY <1>2, <1>8, <4>1 DEF MessageInv
      <4>3. io.order = received + 1
        BY <1>2, <1>14, <4>1, <4>2
      <4>4. QED
        BY <1>2, <1>6, <3>2, <4>3
    <3>3. QED
      BY <1>7, <2>2, <3>1, <3>2
  <2>3. ASSUME Unbroken(nNextReadOrder)'
        PROVE  AllPended(nNextReadOrder)'
    <3>1. nNextReadOrder' = nNextReadOrder /\ io.order <= nNextReadOrder
      BY <1>2, <1>8 DEF readVars, DueInv, Due
    <3>2. Unbroken(nNextReadOrder) /\ AllPended(nNextReadOrder)
      BY <1>8, <1>10, <2>3, <3>1 DEF MessageInv
    <3>3. AllPended(nNextReadOrder)' <=> received' <= nNextReadOrder /\ \A k \in received' + 1..nNextReadOrder : Pended(k)'
      BY <3>1 DEF AllPended
    <3>4. QED
      BY <1>2, <1>14, <3>1, <3>2, <3>3 DEF AllPended
  <2>4. QED
    BY <1>8, <2>1, <2>2, <2>3 DEF FoundInv
<1>16. HandledInv'
  BY <1>2, <1>5, <1>8 DEF HandledInv, readVars
<1>17. QED
  BY <1>11, <1>12, <1>13, <1>15, <1>16 DEF ReadInv, DeliverInv

\* A read is posted: it gets the last order.
LEMMA Posts ==
  ASSUME TypeOK, TypeOK', ReadInv, DeliverInv, NEW w \in Workers, SendReadPacket(w), ReadResult = "ok",
         UNCHANGED <<received, iocp, nNextReadOrderToProcess, readedQueue, handled>>,
         Stays({"queueRead", "inMessage"}),
         \A v \in Workers : At(v, "get")' => worker'[v].n <= nNextReadOrderToProcess
  PROVE  ReadInv' /\ DeliverInv'
<1>0. PICK jo : jo = [order |-> nNextReadOrder + 1, by |-> w]
  OBVIOUS
<1>1. jo.order = nNextReadOrder + 1 /\ reading' = reading \cup {jo} /\ nNextReadOrder' = nNextReadOrder + 1
  BY <1>0 DEF SendReadPacket
<1>2. /\ nNextReadOrder \in Nat /\ nNextReadOrderToProcess \in Nat /\ received \in Nat
      /\ DueInv /\ OnePlace /\ HandlingInv /\ MessageInv /\ HandledInv /\ FoundInv /\ FoundInv'
  <2>1. nNextReadOrder \in Nat /\ nNextReadOrderToProcess \in Nat /\ received \in Nat
    BY DEF TypeOK
  <2>2. DueInv /\ OnePlace /\ HandlingInv /\ MessageInv /\ HandledInv /\ FoundInv /\ FoundInv'
    BY FoundAnywhere DEF ReadInv, DeliverInv
  <2>3. QED
    BY <2>1, <2>2
<1>3. /\ \A i : Arrived(i)' <=> Arrived(i)
      /\ \A v : (InHand(v)' <=> InHand(v)) /\ (InHand(v) => worker'[v] = worker[v])
      /\ \A v : (Handling(v)' <=> Handling(v)) /\ (Handling(v) => worker'[v] = worker[v])
  BY DEF Arrived, InHand, Handling, Stays, At
<1>4. \A b : Found(b)' <=> Found(b)
  BY <1>3 DEF Found
<1>5. \A o : Pended(o)' <=> Pended(o) \/ o = nNextReadOrder + 1
  BY <1>1 DEF Pended
<1>6. \A o : Placed(o)' <=> Placed(o) \/ o = nNextReadOrder + 1
  BY <1>2, <1>4, <1>5 DEF FoundInv
<1>7. \A o : Placed(o) => o \in Nat /\ Due(o)
  <2>1. \A io \in reading : io.order \in Nat /\ Due(io.order)
    BY <1>2 DEF TypeOK, Pending, DueInv
  <2>2. \A b : Found(b) => b.order \in Nat /\ Due(b.order)
    BY <1>2 DEF FoundInv, Packet
  <2>3. QED
    BY <1>2, <2>1, <2>2 DEF FoundInv, Pended
<1>8. ~Placed(nNextReadOrder + 1) /\ \A v : Handling(v) => nNextReadOrderToProcess # nNextReadOrder + 1
  BY <1>2, <1>7 DEF Due, HandlingInv, Handling
<1>9. \A o \in Nat : Unbroken(o)' /\ o <= nNextReadOrder => Unbroken(o)
  <2>1. \A h : Handling(h)' <=> Handling(h)
    BY <1>3
  <2>2. ASSUME NEW o \in Nat, o <= nNextReadOrder, NEW h \in nNextReadOrderToProcess..o, Placed(h)'
        PROVE  Placed(h)
    BY <1>2, <1>6, <2>2
  <2>3. QED
    BY <2>1, <2>2 DEF Unbroken
<1>10. DueInv'
  <2>1. \A o \in Nat : Due(o) => Due(o)'
    BY <1>1, <1>2 DEF Due
  <2>2. nNextReadOrderToProcess' <= nNextReadOrder' + 1 /\ \A o : o = nNextReadOrder + 1 => Due(o)'
    <3>1. nNextReadOrderToProcess <= nNextReadOrder + 1
      BY <1>2 DEF DueInv
    <3>2. QED
      BY <1>1, <1>2, <3>1 DEF Due
  <2>3. \A o : Placed(o)' => Due(o)'
    BY <1>6, <1>7, <2>1, <2>2
  <2>4. QED
    BY <2>2, <2>3 DEF DueInv, Placed, Pended
<1>11. OnePlace'
  <2>1. \A io \in reading : io.order # jo.order
    BY <1>1, <1>8 DEF Placed, Pended
  <2>2. /\ \A i \in DOMAIN iocp : Arrived(i) => iocp[i].order # jo.order
        /\ \A v \in Workers : InHand(v) => worker[v].pkt.order # jo.order
        /\ \A b \in readedQueue : b.order # jo.order
    BY <1>1, <1>8 DEF Placed
  <2>3. QED
    BY <1>1, <1>2, <1>3, <2>1, <2>2 DEF OnePlace
<1>12. HandlingInv'
  <2>1. \A v \in Workers : Handling(v)' =>
          /\ worker'[v].n = nNextReadOrderToProcess'
          /\ Due(nNextReadOrderToProcess)' /\ ~Placed(nNextReadOrderToProcess)'
    BY <1>1, <1>2, <1>3, <1>6, <1>8 DEF HandlingInv, Due
  <2>2. QED
    BY <1>2, <1>3, <2>1 DEF HandlingInv, At
<1>13. MessageInv'
  <2>1. ASSUME \A h \in nNextReadOrderToProcess..nNextReadOrder + 1 :
                 Placed(h)' \/ (h = nNextReadOrderToProcess /\ \E v \in Workers : Handling(v))
        PROVE  /\ received < nNextReadOrder + 1
               /\ \A k \in received + 1..nNextReadOrder + 1 : Pended(k)'
    <3>1. \A h \in nNextReadOrderToProcess..nNextReadOrder :
            Placed(h) \/ (h = nNextReadOrderToProcess /\ \E v \in Workers : Handling(v))
      <4>1. \A h \in nNextReadOrderToProcess..nNextReadOrder :
              h \in nNextReadOrderToProcess..nNextReadOrder + 1 /\ h # nNextReadOrder + 1
        BY <1>2
      <4>2. QED
        BY <1>6, <2>1, <4>1
    <3>2. AllPended(nNextReadOrder)
      BY <1>2, <3>1 DEF MessageInv, Unbroken
    <3>3. received <= nNextReadOrder /\ \A k \in received + 1..nNextReadOrder : Pended(k)
      BY <3>2 DEF AllPended
    <3>4. \A k \in received + 1..nNextReadOrder + 1 : k \in received + 1..nNextReadOrder \/ k = nNextReadOrder + 1
      BY <1>2
    <3>5. QED
      BY <1>2, <1>5, <3>3, <3>4
  <2>2. ASSUME NEW io \in reading', Unbroken(io.order)'
        PROVE  received' < io.order /\ AllPended(io.order)'
    <3>1. CASE io \in reading
      <4>1. io.order \in Nat /\ io.order <= nNextReadOrder
        BY <1>2, <3>1 DEF TypeOK, Pending, DueInv, Due
      <4>2. received < io.order /\ AllPended(io.order)
        BY <1>2, <1>9, <2>2, <3>1, <4>1 DEF MessageInv
      <4>3. QED
        BY <1>5, <4>2 DEF AllPended
    <3>2. CASE io = jo
      <4>1. io.order = nNextReadOrder + 1
        BY <1>1, <3>2
      <4>2. \A h \in nNextReadOrderToProcess..nNextReadOrder + 1 :
              Placed(h)' \/ (h = nNextReadOrderToProcess /\ \E v \in Workers : Handling(v))
        BY <1>3, <2>2, <4>1 DEF Unbroken
      <4>3. /\ received < nNextReadOrder + 1
            /\ \A k \in received + 1..nNextReadOrder + 1 : Pended(k)'
        BY <2>1, <4>2
      <4>4. QED
        BY <1>2, <4>1, <4>3 DEF AllPended
    <3>3. QED
      BY <1>1, <2>2, <3>1, <3>2
  <2>3. ASSUME NEW b, Found(b)', Unbroken(b.order)'
        PROVE  b.msg = b.order /\ b.order <= received'
    <3>1. Found(b) /\ b.order \in Nat /\ b.order <= nNextReadOrder
      BY <1>2, <1>4, <2>3 DEF FoundInv, Packet, Due
    <3>2. QED
      BY <1>2, <1>9, <2>3, <3>1 DEF FoundInv
  <2>4. ASSUME Unbroken(nNextReadOrder)'
        PROVE  AllPended(nNextReadOrder)'
    <3>1. \A h \in nNextReadOrderToProcess..nNextReadOrder + 1 :
            Placed(h)' \/ (h = nNextReadOrderToProcess /\ \E v \in Workers : Handling(v))
      BY <1>1, <1>3, <2>4 DEF Unbroken
    <3>2. /\ received < nNextReadOrder + 1
          /\ \A k \in received + 1..nNextReadOrder + 1 : Pended(k)'
      BY <2>1, <3>1
    <3>3. QED
      BY <1>1, <1>2, <3>2 DEF AllPended
  <2>5. QED
    BY <1>2, <2>2, <2>3, <2>4 DEF FoundInv
<1>14. HandledInv'
  BY <1>2, <1>3 DEF HandledInv
<1>15. QED
  BY <1>10, <1>11, <1>12, <1>13, <1>14 DEF ReadInv, DeliverInv

\* The message that is given to the manager is the next one.
LEMMA Handles ==
  ASSUME TypeOK, TypeOK', ReadInv, DeliverInv, NEW w \in Workers, CallEngineMessage(w)
  PROVE  /\ ReadInv' /\ DeliverInv'
         /\ handled' = Append(handled, Len(handled) + 1) /\ Len(handled) < sent
         /\ \A v \in Workers : ~Handling(v)
<1>1. PICK b \in readedQueue : /\ b.order = worker[w].n /\ readedQueue' = readedQueue \ {b}
                               /\ handled' = Append(handled, b.msg)
  BY DEF CallEngineMessage, First
<1>2. /\ At(w, "get") /\ Goes(w, "inMessage")
      /\ UNCHANGED <<reading, iocp, received, nNextReadOrder, nNextReadOrderToProcess>>
  BY Moves DEF CallEngineMessage, pipeVars, ioVars
<1>3. /\ nNextReadOrder \in Nat /\ nNextReadOrderToProcess \in Nat /\ received \in Nat /\ sent \in Nat /\ received <= sent
      /\ DueInv /\ OnePlace /\ HandlingInv /\ MessageInv /\ HandledInv /\ FoundInv /\ FoundInv'
  <2>1. nNextReadOrder \in Nat /\ nNextReadOrderToProcess \in Nat /\ received \in Nat /\ sent \in Nat /\ received <= sent
    BY DEF TypeOK
  <2>2. DueInv /\ OnePlace /\ HandlingInv /\ MessageInv /\ HandledInv /\ FoundInv /\ FoundInv'
    BY FoundAnywhere DEF ReadInv, DeliverInv
  <2>3. QED
    BY <2>1, <2>2
<1>4. b \in Packet /\ worker[w].n \in Nat
  BY DEF TypeOK
<1>5. b.order = nNextReadOrderToProcess /\ Due(b.order)
  <2>1. worker[w].n <= nNextReadOrderToProcess
    BY <1>2, <1>3 DEF HandlingInv
  <2>2. nNextReadOrderToProcess <= b.order /\ Due(b.order)
    BY <1>3 DEF DueInv, Due
  <2>3. QED
    BY <1>1, <1>3, <1>4, <2>1, <2>2
<1>6. Found(b) /\ Placed(b.order)
  BY DEF Found, Placed
<1>7. \A v \in Workers : ~Handling(v)
  BY <1>3, <1>5, <1>6 DEF HandlingInv
<1>8. b.msg = nNextReadOrderToProcess /\ nNextReadOrderToProcess <= received
  <2>1. Unbroken(b.order)
    BY <1>3, <1>5, <1>6 DEF Unbroken
  <2>2. QED
    BY <1>3, <1>5, <1>6, <2>1 DEF FoundInv
<1>9. Len(handled) = nNextReadOrderToProcess - 1
  BY <1>3, <1>7 DEF HandledInv
<1>10. handled' = Append(handled, Len(handled) + 1) /\ Len(handled) < sent
  BY <1>1, <1>3, <1>8, <1>9
<1>11. /\ \A i : Arrived(i)' <=> Arrived(i)
       /\ \A v : (InHand(v)' <=> InHand(v)) /\ (InHand(v) => worker'[v] = worker[v])
       /\ Handling(w)' /\ worker'[w].n = worker[w].n /\ \A v \in Workers : Handling(v)' => v = w
       /\ \A v \in Workers : At(v, "get")' => At(v, "get") /\ worker'[v] = worker[v]
  BY <1>2, <1>7 DEF Arrived, InHand, Handling, Goes, Becomes, At
<1>12. \A c : Found(c)' => Found(c)
  BY <1>1, <1>2, <1>11 DEF Found
<1>13. \A o : Pended(o)' <=> Pended(o)
  BY <1>2 DEF Pended
<1>14. \A o : Placed(o)' => Placed(o)
  BY <1>3, <1>12, <1>13 DEF FoundInv
<1>15. \A o : Unbroken(o)' => Unbroken(o)
  BY <1>2, <1>5, <1>6, <1>14 DEF Unbroken
<1>16. DueInv'
  BY <1>1, <1>2, <1>3, <1>11 DEF DueInv, Due
<1>17. OnePlace'
  BY <1>1, <1>2, <1>3, <1>11 DEF OnePlace
<1>18. HandlingInv'
  <2>1. ~Placed(nNextReadOrderToProcess)'
    <3>1. \A c : Found(c)' => c.order # nNextReadOrderToProcess
      <4>1. /\ \A i \in DOMAIN iocp : Arrived(i) => iocp[i].order # b.order
            /\ \A v \in Workers : InHand(v) => worker[v].pkt.order # b.order
            /\ \A c \in readedQueue' : c.order # b.order
        BY <1>1, <1>3 DEF OnePlace
      <4>2. QED
        BY <1>2, <1>5, <1>11, <4>1 DEF Found, Arrived
    <3>2. ~Pended(nNextReadOrderToProcess)
      BY <1>3, <1>5, <1>6 DEF FoundInv
    <3>3. QED
      BY <1>2, <1>3, <1>13, <3>1, <3>2 DEF FoundInv
  <2>2. Due(nNextReadOrderToProcess)'
    BY <1>2, <1>5 DEF Due
  <2>3. \A v \in Workers : At(v, "get")' => worker'[v].n <= nNextReadOrderToProcess'
    BY <1>2, <1>3, <1>11 DEF HandlingInv
  <2>4. QED
    BY <1>1, <1>2, <1>5, <1>11, <2>1, <2>2, <2>3 DEF HandlingInv
<1>19. MessageInv'
  <2>1. \A o : AllPended(o)' <=> AllPended(o)
    BY <1>2, <1>13 DEF AllPended
  <2>2. QED
    BY <1>2, <1>3, <1>12, <1>15, <2>1 DEF FoundInv
<1>20. HandledInv'
  <2>1. Len(handled') = Len(handled) + 1
    BY <1>10, AppendProperties DEF TypeOK
  <2>2. QED
    BY <1>2, <1>3, <1>9, <1>11, <2>1 DEF HandledInv
<1>21. QED
  BY <1>7, <1>10, <1>16, <1>17, <1>18, <1>19, <1>20 DEF ReadInv, DeliverInv

\* The manager has handled a message; the next order is due.
LEMMA HandledNext ==
  ASSUME TypeOK, TypeOK', ReadInv, DeliverInv, NEW w \in Workers, EngineMessageReturns(w)
  PROVE  /\ ReadInv' /\ DeliverInv'
         /\ \A v \in Workers : Handling(v) => v = w
<1>1. /\ UNCHANGED <<reading, iocp, received, nNextReadOrder, readedQueue, handled>>
      /\ nNextReadOrderToProcess' = nNextReadOrderToProcess + 1
  BY DEF EngineMessageReturns, pipeVars, ioVars
<1>2. PICK p, r : p \in {"drain", "ending"} /\ Becomes(w, p, worker[w].pkt, worker[w].n, r)
  BY Moves
<1>3. /\ nNextReadOrder \in Nat /\ nNextReadOrderToProcess \in Nat /\ received \in Nat
      /\ DueInv /\ OnePlace /\ HandlingInv /\ MessageInv /\ HandledInv /\ FoundInv /\ FoundInv'
  <2>1. nNextReadOrder \in Nat /\ nNextReadOrderToProcess \in Nat /\ received \in Nat
    BY DEF TypeOK
  <2>2. DueInv /\ OnePlace /\ HandlingInv /\ MessageInv /\ HandledInv /\ FoundInv /\ FoundInv'
    BY FoundAnywhere DEF ReadInv, DeliverInv
  <2>3. QED
    BY <2>1, <2>2
<1>4. /\ Handling(w) /\ \A v \in Workers : Handling(v) => v = w
      /\ Due(nNextReadOrderToProcess) /\ ~Placed(nNextReadOrderToProcess)
  BY <1>3 DEF EngineMessageReturns, Handling, HandlingInv
<1>5. /\ \A i : Arrived(i)' <=> Arrived(i)
      /\ \A v : (InHand(v)' <=> InHand(v)) /\ (InHand(v) => worker'[v] = worker[v])
      /\ \A v : ~Handling(v)'
      /\ \A v \in Workers : At(v, "get")' => At(v, "get") /\ worker'[v] = worker[v]
  BY <1>1, <1>2, <1>4 DEF Arrived, InHand, Handling, Becomes, At
<1>6. \A b : Found(b)' <=> Found(b)
  BY <1>1, <1>5 DEF Found
<1>7. \A o : (Pended(o)' <=> Pended(o)) /\ (Placed(o)' <=> Placed(o))
  BY <1>1, <1>3, <1>6 DEF FoundInv, Pended
<1>8. \A o : Placed(o) => o \in Nat /\ Due(o) /\ o # nNextReadOrderToProcess
  <2>1. \A io \in reading : io.order \in Nat /\ Due(io.order)
    BY <1>3 DEF TypeOK, Pending, DueInv
  <2>2. \A b : Found(b) => b.order \in Nat /\ Due(b.order)
    BY <1>3 DEF FoundInv, Packet
  <2>3. QED
    BY <1>3, <1>4, <2>1, <2>2 DEF FoundInv, Pended
<1>9. \A o : o \in Nat /\ Unbroken(o)' => Unbroken(o)
  <2>1. ASSUME NEW o \in Nat, NEW h \in nNextReadOrderToProcess..o, h # nNextReadOrderToProcess
        PROVE  h \in nNextReadOrderToProcess + 1..o
    BY <1>3, <2>1
  <2>2. QED
    BY <1>1, <1>4, <1>5, <1>7, <2>1 DEF Unbroken
<1>10. DueInv'
  <2>1. \A o : Placed(o)' => Due(o)'
    BY <1>1, <1>3, <1>7, <1>8 DEF Due
  <2>2. nNextReadOrderToProcess' <= nNextReadOrder' + 1
    BY <1>1, <1>3, <1>4 DEF Due
  <2>3. QED
    BY <2>1, <2>2 DEF DueInv, Placed, Pended
<1>11. OnePlace'
  BY <1>1, <1>3, <1>5 DEF OnePlace
<1>12. HandlingInv'
  <2>1. \A v \in Workers : At(v, "get") => worker[v].n \in Nat /\ worker[v].n <= nNextReadOrderToProcess
    BY <1>3 DEF HandlingInv, TypeOK
  <2>2. \A v \in Workers : At(v, "get")' => worker'[v].n <= nNextReadOrderToProcess'
    BY <1>1, <1>3, <1>5, <2>1
  <2>3. QED
    BY <1>5, <2>2 DEF HandlingInv
<1>13. MessageInv'
  <2>1. \A o : AllPended(o)' <=> AllPended(o)
    BY <1>1, <1>7 DEF AllPended
  <2>2. /\ \A io \in reading : io.order \in Nat
        /\ \A b : Found(b) => b.order \in Nat
    BY <1>3, <1>8 DEF Pended, FoundInv
  <2>3. QED
    BY <1>1, <1>3, <1>6, <1>9, <2>1, <2>2 DEF FoundInv
<1>14. HandledInv'
  BY <1>1, <1>3, <1>4, <1>5 DEF HandledInv, Handling
<1>15. QED
  BY <1>4, <1>10, <1>11, <1>12, <1>13, <1>14 DEF ReadInv, DeliverInv

----------------------------------------------------------------------------
(* The writes *)

\* A message that is to be written.
Asked(b) ==
  \/ \E i \in DOMAIN iocp : Requested(i) /\ iocp[i] = b
  \/ \E w \in Workers : Bringing(w) /\ worker[w].pkt = b
  \/ b \in toWriteQueue

AskedInv ==
  /\ \A o : Queued(o) <=> \E b : Asked(b) /\ b.order = o
  /\ ToWriteInv <=> /\ nNextWriteOrderToProcess <= nNextWriteOrder + 1
                    /\ \A b : Asked(b) => ToWrite(b.order)
  /\ \A b : Asked(b) => b \in Packet

\* What the invariant says of the requests, said of messages that are asked for.
LEMMA AskedAnywhere ==
  /\ TypeOK => AskedInv
  /\ TypeOK' => AskedInv'
<1>1. TypeOK => AskedInv
  <2>1. \A o : Queued(o) <=> \E b : Asked(b) /\ b.order = o
    BY DEF Queued, Asked
  <2>2. ToWriteInv <=> /\ nNextWriteOrderToProcess <= nNextWriteOrder + 1
                       /\ \A b : Asked(b) => ToWrite(b.order)
    BY DEF ToWriteInv, Asked
  <2>3. TypeOK => \A b : Asked(b) => b \in Packet
    BY ElementOfSeq, LenProperties DEF TypeOK, Asked, Requested, Bringing
  <2>4. QED
    BY <2>1, <2>2, <2>3 DEF AskedInv
<1>2. TypeOK' => AskedInv'
  <2>1. (\A o : Queued(o) <=> \E b : Asked(b) /\ b.order = o)'
    BY DEF Queued, Asked
  <2>2. (ToWriteInv <=> /\ nNextWriteOrderToProcess <= nNextWriteOrder + 1
                       /\ \A b : Asked(b) => ToWrite(b.order))'
    BY DEF ToWriteInv, Asked
  <2>3. (TypeOK => \A b : Asked(b) => b \in Packet)'
    BY ElementOfSeq, LenProperties DEF TypeOK, Asked, Requested, Bringing
  <2>4. QED
    BY <2>1, <2>2, <2>3 DEF AskedInv
<1>3. QED
  BY <1>1, <1>2

\* The writes go on as they were; the step may add the last order.
WriteStays ==
  /\ \A b : Asked(b)' => Asked(b) \/ (b.order = nNextWriteOrder + 1 /\ nNextWriteOrder' = nNextWriteOrder + 1)
  /\ nNextWriteOrder' \in {nNextWriteOrder, nNextWriteOrder + 1}
  /\ UNCHANGED <<nNextWriteOrderToProcess, wire>>
  /\ Stays({"write", "written"})
  /\ \A v \in Workers : At(v, "wget")' => worker'[v].n <= nNextWriteOrderToProcess
  /\ Lost => Lost'

\* When requests are only given up, what is said of them stays true.
LEMMA WritesStay ==
  ASSUME TypeOK, TypeOK', WriteInv, WriteStays, OneRequest'
  PROVE  WriteInv'
<1>1. /\ nNextWriteOrder \in Nat /\ nNextWriteOrderToProcess \in Nat
      /\ nNextWriteOrder' = nNextWriteOrder \/ nNextWriteOrder' = nNextWriteOrder + 1
      /\ nNextWriteOrderToProcess' = nNextWriteOrderToProcess /\ wire' = wire
  BY DEF TypeOK, WriteStays
<1>2. ToWriteInv /\ WritingInv /\ WireInv /\ WireInOrder /\ LostInv /\ AskedInv /\ AskedInv'
  BY AskedAnywhere DEF WriteInv
<1>3. /\ \A v : (Writing(v)' <=> Writing(v)) /\ (Writing(v) => worker'[v] = worker[v])
      /\ \A v \in Workers : At(v, "written")' <=> At(v, "written")
  BY DEF WriteStays, Stays, Writing, At
<1>4. \A o : ToWrite(o) /\ o \in Nat => ToWrite(o)' /\ o # nNextWriteOrder + 1
  BY <1>1 DEF ToWrite
<1>5. ToWriteInv'
  <2>1. ASSUME NEW b, Asked(b)'
        PROVE  ToWrite(b.order)'
    <3>1. CASE Asked(b)
      BY <1>2, <1>4, <3>1 DEF AskedInv, Packet
    <3>2. CASE b.order = nNextWriteOrder + 1 /\ nNextWriteOrder' = nNextWriteOrder + 1
      BY <1>1, <1>2, <3>2 DEF AskedInv, ToWrite
    <3>3. QED
      BY <2>1, <3>1, <3>2 DEF WriteStays
  <2>2. nNextWriteOrderToProcess' <= nNextWriteOrder' + 1
    BY <1>1, <1>2 DEF AskedInv
  <2>3. QED
    BY <1>2, <2>1, <2>2 DEF AskedInv
<1>6. WritingInv'
  <2>1. \A w \in Workers : At(w, "wget")' => worker'[w].n <= nNextWriteOrderToProcess'
    BY <1>1 DEF WriteStays
  <2>2. ASSUME NEW w \in Workers, Writing(w)
        PROVE  /\ worker'[w].pkt.order = nNextWriteOrderToProcess'
               /\ ToWrite(nNextWriteOrderToProcess)' /\ ~Queued(nNextWriteOrderToProcess)'
    <3>1. /\ worker[w].pkt.order = nNextWriteOrderToProcess
          /\ ToWrite(nNextWriteOrderToProcess) /\ ~Queued(nNextWriteOrderToProcess)
      BY <1>2, <2>2 DEF WritingInv
    <3>2. ToWrite(nNextWriteOrderToProcess)' /\ nNextWriteOrderToProcess # nNextWriteOrder + 1
      BY <1>1, <3>1 DEF ToWrite
    <3>3. ~Queued(nNextWriteOrderToProcess)'
      BY <1>1, <1>2, <3>1, <3>2 DEF AskedInv, WriteStays
    <3>4. QED
      BY <1>1, <1>3, <2>2, <3>1, <3>2, <3>3
  <2>3. QED
    BY <1>2, <1>3, <2>1, <2>2 DEF WritingInv
<1>7. WireInv' /\ WireInOrder'
  BY <1>1, <1>2, <1>3 DEF WireInv, WireInOrder
<1>8. LostInv'
  BY <1>1, <1>2, <1>3 DEF LostInv, AllWritten, WriteStays
<1>9. QED
  BY <1>5, <1>6, <1>7, <1>8 DEF WriteInv

\* The step takes no request, and puts none anywhere.
WriteShrinks ==
  /\ toWriteQueue' \subseteq toWriteQueue
  /\ nNextWriteOrder' \in {nNextWriteOrder, nNextWriteOrder + 1}
  /\ UNCHANGED <<nNextWriteOrderToProcess, wire>>
  /\ Stays({"queueWrite", "write", "written"})
  /\ \A v \in Workers : At(v, "wget")' => worker'[v].n <= nNextWriteOrderToProcess
  /\ Lost => Lost'
  /\ \E d \in 0..1 : PortKeeps("request", d)

\* The same, from what the steps do.
LEMMA WritesShrink ==
  ASSUME TypeOK, TypeOK', WriteInv, WriteShrinks
  PROVE  WriteInv'
<1>1. PICK d \in 0..1 : PortKeeps("request", d)
  BY DEF WriteShrinks
<1>2. \A i : Requested(i)' => Requested(i + d) /\ i + d \in DOMAIN iocp /\ iocp'[i] = iocp[i + d]
  BY <1>1 DEF PortKeeps, Plain, Requested
<1>3. \A w : Bringing(w)' => Bringing(w) /\ worker'[w].pkt = worker[w].pkt
  BY DEF WriteShrinks, Stays, Bringing, At
<1>4. \A b \in toWriteQueue' : b \in toWriteQueue
  BY DEF WriteShrinks
<1>5. OneRequest'
  <2>0. OneRequest
    BY DEF WriteInv
  <2>1. /\ \A w, v \in Workers : Bringing(w)' /\ Bringing(v)' /\ worker'[w].pkt.order = worker'[v].pkt.order => w = v
        /\ \A b, c \in toWriteQueue' : b.order = c.order => b = c
        /\ \A w \in Workers : Bringing(w)' => \A b \in toWriteQueue' : b.order # worker'[w].pkt.order
    BY <1>3, <1>4, <2>0 DEF OneRequest
  <2>2. ASSUME NEW i \in DOMAIN iocp', NEW j \in DOMAIN iocp', Requested(i)', Requested(j)',
               iocp'[i].order = iocp'[j].order
        PROVE  i = j
    <3>1. i + d = j + d
      BY <1>2, <2>0, <2>2 DEF OneRequest
    <3>2. i \in Int /\ j \in Int
      BY Indexes DEF TypeOK
    <3>3. \A m, n \in Int : m + d = n + d => m = n
      OBVIOUS
    <3>4. QED
      BY <3>1, <3>2, <3>3
  <2>3. \A i \in DOMAIN iocp' : Requested(i)' =>
          /\ \A w \in Workers : Bringing(w)' => worker'[w].pkt.order # iocp'[i].order
          /\ \A b \in toWriteQueue' : b.order # iocp'[i].order
    BY <1>2, <1>3, <1>4, <2>0 DEF OneRequest
  <2>4. QED
    BY <2>1, <2>2, <2>3 DEF OneRequest
<1>6. \A b : Asked(b)' => Asked(b)
  BY <1>2, <1>3, <1>4 DEF Asked
<1>7. WriteStays
  BY <1>6 DEF WriteStays, WriteShrinks, Stays
<1>8. QED
  BY <1>5, <1>7, WritesStay

\* SendMsg takes the last order, and posts its request.
LEMMA Requests ==
  ASSUME TypeOK, TypeOK', WriteInv, SendMsg, iocp' # iocp
  PROVE  WriteInv'
<1>1. PICK p : p = [type |-> "request", order |-> nNextWriteOrder + 1, msg |-> 0, res |-> "ok"]
  OBVIOUS
<1>2. /\ iocp' = Append(iocp, p) /\ nNextWriteOrder' = nNextWriteOrder + 1
      /\ UNCHANGED <<nNextWriteOrderToProcess, toWriteQueue, worker, wire, nThreadsEnding>>
  BY <1>1 DEF SendMsg, Completion
<1>3. nNextWriteOrder \in Nat /\ nNextWriteOrderToProcess \in Nat
  BY DEF TypeOK
<1>4. p \in Packet /\ Put(p) /\ p.order = nNextWriteOrder + 1
  <2>1. p \in Packet
    BY <1>1, <1>3 DEF Packet, Result
  <2>2. QED
    BY <1>1, <1>2, <2>1, Puts DEF TypeOK
<1>5. PICK n : n = Len(iocp) + 1
  OBVIOUS
<1>6. /\ iocp'[n] = p /\ n \notin DOMAIN iocp
      /\ \A i : Requested(i)' => i = n \/ (Requested(i) /\ iocp'[i] = iocp[i] /\ i \in DOMAIN iocp)
  <2>1. /\ Len(iocp) \in Nat /\ DOMAIN iocp = 1..Len(iocp) /\ Len(iocp') = n
        /\ DOMAIN iocp' = 1..Len(iocp')
    BY <1>4, <1>5, LenProperties DEF TypeOK, Put
  <2>2. n \notin DOMAIN iocp /\ \A i : i # n => (i \in DOMAIN iocp <=> i \in DOMAIN iocp')
    BY <1>5, <2>1
  <2>3. iocp'[n] = p /\ \A i \in DOMAIN iocp : iocp'[i] = iocp[i]
    BY <1>4, <1>5, <2>1 DEF Put
  <2>4. QED
    BY <2>2, <2>3 DEF Requested
<1>7. \A v : Bringing(v)' <=> Bringing(v)
  BY <1>2 DEF Bringing, At
<1>8. \A b : Asked(b)' => Asked(b) \/ b = p
  BY <1>2, <1>6, <1>7 DEF Asked
<1>9. \A b : Asked(b) => b.order # p.order
  BY <1>3, <1>4, AskedAnywhere DEF AskedInv, WriteInv, ToWrite, Packet
<1>10. OneRequest'
  <2>1. OneRequest
    BY DEF WriteInv
  <2>2. /\ \A i \in DOMAIN iocp : Requested(i) => iocp[i].order # p.order
        /\ \A v \in Workers : Bringing(v) => worker[v].pkt.order # p.order
        /\ \A b \in toWriteQueue : b.order # p.order
    BY <1>9 DEF Asked
  <2>3. QED
    BY <1>2, <1>6, <1>7, <2>1, <2>2 DEF OneRequest
<1>11. WriteStays
  <2>1. Stays({"write", "written"}) /\ (Lost => Lost')
    BY <1>2 DEF Stays, Lost
  <2>2. \A v \in Workers : At(v, "wget")' => worker'[v].n <= nNextWriteOrderToProcess
    BY <1>2 DEF At, WriteInv, WritingInv
  <2>3. QED
    BY <1>2, <1>4, <1>8, <2>1, <2>2 DEF WriteStays
<1>12. QED
  BY <1>10, <1>11, WritesStay

\* A worker takes a request from the port.
LEMMA TakesRequest ==
  ASSUME TypeOK, TypeOK', WriteInv, NEW w \in Workers, GetQueuedCompletionStatus(w), Requested(1),
  iocp[1].res = "ok"
  PROVE  WriteInv'
<1>1. Taken /\ PortKeeps("request", 1) /\ Head(iocp) = iocp[1]
  BY Takes, TakenKeeps DEF GetQueuedCompletionStatus, Taken, TypeOK
<1>2. Becomes(w, "queueWrite", iocp[1], ReadAhead, "ok")
  <2>1. Becomes(w, Branch(iocp[1]), iocp[1], ReadAhead, IF iocp[1].type = "connect" THEN "ok" ELSE iocp[1].res)
    BY <1>1, Moves
  <2>2. Branch(iocp[1]) = "queueWrite" /\ iocp[1].type = "request"
    BY DEF Branch, Requested
  <2>3. QED
    BY <2>1, <2>2
<1>3. At(w, "idle") /\ UNCHANGED <<writeVars, wire, nThreadsEnding>>
  BY DEF GetQueuedCompletionStatus
<1>4. \A i : Requested(i)' => Requested(i + 1) /\ i + 1 \in DOMAIN iocp /\ iocp'[i] = iocp[i + 1] /\ i + 1 # 1 /\ i \in Int
  <2>1. \A i \in DOMAIN iocp' : i \in Nat \ {0}
    BY Indexes DEF TypeOK
  <2>2. \A i \in DOMAIN iocp' : i + 1 # 1 /\ i \in Int
    BY <2>1
  <2>3. QED
    BY <1>1, <2>2 DEF PortKeeps, Plain, Requested
<1>5. /\ Bringing(w)' /\ worker'[w].pkt = iocp[1] /\ ~Bringing(w)
      /\ \A v : v # w => (Bringing(v)' <=> Bringing(v)) /\ (Bringing(v) => worker'[v].pkt = worker[v].pkt)
  BY <1>2, <1>3 DEF Becomes, Bringing, At
<1>6. /\ Stays({"write", "written"}) /\ (Lost => Lost')
      /\ \A v \in Workers : At(v, "wget")' => worker'[v].n <= nNextWriteOrderToProcess
  BY <1>2, <1>3 DEF Becomes, Stays, At, WriteInv, WritingInv, Lost
<1>7. 1 \in DOMAIN iocp /\ toWriteQueue' = toWriteQueue
  BY <1>3 DEF Requested, writeVars
<1>8. \A b : Asked(b)' => Asked(b)
  BY <1>4, <1>5, <1>7 DEF Asked
<1>9. OneRequest'
  <2>0. OneRequest
    BY DEF WriteInv
  <2>1. /\ \A b, c \in toWriteQueue' : b.order = c.order => b = c
        /\ \A v, u \in Workers : Bringing(v)' /\ Bringing(u)' /\ worker'[v].pkt.order = worker'[u].pkt.order => v = u
    BY <1>5, <1>7, <2>0 DEF OneRequest
  <2>2. ASSUME NEW i, NEW j, Requested(i)', Requested(j)', iocp'[i].order = iocp'[j].order
        PROVE  i = j
    <3>1. i + 1 = j + 1
      BY <1>4, <2>0, <2>2 DEF OneRequest
    <3>2. QED
      BY <1>4, <2>2, <3>1
  <2>3. \A i \in DOMAIN iocp' : Requested(i)' =>
          /\ \A v \in Workers : Bringing(v)' => worker'[v].pkt.order # iocp'[i].order
          /\ \A b \in toWriteQueue' : b.order # iocp'[i].order
    BY <1>4, <1>5, <1>7, <2>0 DEF OneRequest
  <2>4. \A v \in Workers : Bringing(v)' => \A b \in toWriteQueue' : b.order # worker'[v].pkt.order
    BY <1>5, <1>7, <2>0 DEF OneRequest
  <2>5. QED
    BY <2>1, <2>2, <2>3, <2>4 DEF OneRequest
<1>10. WriteStays
  BY <1>3, <1>6, <1>8 DEF WriteStays, writeVars
<1>11. QED
  BY <1>9, <1>10, WritesStay

\* A worker brings its message to the queue of the writes.
LEMMA QueuesRequest ==
  ASSUME TypeOK, TypeOK', WriteInv, NEW w \in Workers, AddBufferInSortedToWriteQueue(w)
  PROVE  WriteInv'
<1>1. Bringing(w) /\ Goes(w, "wdrain")
  BY Moves DEF AddBufferInSortedToWriteQueue, Bringing
<1>2. /\ UNCHANGED <<iocp, nNextWriteOrder, nNextWriteOrderToProcess, wire, nThreadsEnding>>
      /\ toWriteQueue' = toWriteQueue \cup {worker[w].pkt}
  BY DEF AddBufferInSortedToWriteQueue, ioVars
<1>3. /\ \A i : Requested(i)' <=> Requested(i)
      /\ ~Bringing(w)'
      /\ \A v : v # w => (Bringing(v)' <=> Bringing(v)) /\ (Bringing(v) => worker'[v].pkt = worker[v].pkt)
  BY <1>1, <1>2 DEF Goes, Becomes, Bringing, Requested, At
<1>4. /\ Stays({"write", "written"}) /\ (Lost => Lost')
      /\ \A v \in Workers : At(v, "wget")' => worker'[v].n <= nNextWriteOrderToProcess
  BY <1>1, <1>2 DEF Goes, Becomes, Stays, At, Bringing, WriteInv, WritingInv, Lost
<1>5. \A b : Asked(b)' => Asked(b)
  BY <1>1, <1>2, <1>3 DEF Asked
<1>6. OneRequest'
  BY <1>1, <1>2, <1>3 DEF WriteInv, OneRequest
<1>7. WriteStays
  BY <1>2, <1>4, <1>5 DEF WriteStays
<1>8. QED
  BY <1>6, <1>7, WritesStay

\* The worker gets the message whose turn it is, and is the only one that writes.
LEMMA TakesWrite ==
  ASSUME TypeOK, TypeOK', WriteInv, NEW w \in Workers, GetBufferFromSortedToWriteQueue(w),
  toWriteQueue' # toWriteQueue
  PROVE  WriteInv'
<1>1. PICK b \in toWriteQueue : /\ b.order = worker[w].n /\ toWriteQueue' = toWriteQueue \ {b}
                                /\ Becomes(w, "write", b, worker[w].n, worker[w].res)
  BY WriteMoves
<1>2. At(w, "wget") /\ UNCHANGED <<iocp, nNextWriteOrder, nNextWriteOrderToProcess, wire, nThreadsEnding>>
  BY DEF GetBufferFromSortedToWriteQueue, ioVars
<1>3. /\ ToWriteInv /\ OneRequest /\ WritingInv /\ WireInv /\ WireInOrder /\ LostInv
      /\ AskedInv /\ AskedInv'
  BY AskedAnywhere DEF WriteInv
<1>4. Asked(b) /\ Queued(b.order)
  BY DEF Asked, Queued
<1>5. b.order = nNextWriteOrderToProcess /\ ToWrite(nNextWriteOrderToProcess)
  <2>1. worker[w].n \in Nat /\ nNextWriteOrderToProcess \in Nat
    BY DEF TypeOK
  <2>2. worker[w].n <= nNextWriteOrderToProcess
    BY <1>2, <1>3 DEF WritingInv
  <2>3. ToWrite(b.order)
    BY <1>3, <1>4 DEF AskedInv
  <2>4. b.order = nNextWriteOrderToProcess
    BY <1>1, <2>1, <2>2, <2>3 DEF ToWrite
  <2>5. QED
    BY <2>3, <2>4
<1>6. \A v \in Workers : ~Writing(v)
  BY <1>3, <1>4, <1>5 DEF WritingInv
<1>7. /\ \A i : Requested(i)' <=> Requested(i)
      /\ \A v : (Bringing(v)' <=> Bringing(v)) /\ (Bringing(v) => worker'[v] = worker[v])
      /\ Writing(w)' /\ worker'[w].pkt = b /\ \A v \in Workers : Writing(v)' => v = w
      /\ \A v \in Workers : ~At(v, "written") /\ ~At(v, "written")'
      /\ \A v \in Workers : At(v, "wget")' => At(v, "wget") /\ worker'[v] = worker[v]
  BY <1>1, <1>2, <1>6 DEF Requested, Bringing, Writing, Becomes, At
<1>8. \A c : Asked(c)' => Asked(c) /\ c.order # b.order
  <2>1. /\ \A i \in DOMAIN iocp : Requested(i) => iocp[i].order # b.order
        /\ \A v \in Workers : Bringing(v) => worker[v].pkt.order # b.order
        /\ \A c \in toWriteQueue' : c.order # b.order /\ c \in toWriteQueue
    BY <1>1, <1>3 DEF OneRequest
  <2>2. QED
    BY <1>2, <1>7, <2>1 DEF Asked
<1>9. ToWriteInv'
  BY <1>2, <1>3, <1>8 DEF AskedInv, ToWrite
<1>10. OneRequest'
  BY <1>1, <1>2, <1>3, <1>7 DEF OneRequest
<1>11. WritingInv'
  <2>1. ~Queued(nNextWriteOrderToProcess)' /\ ToWrite(nNextWriteOrderToProcess)'
    BY <1>2, <1>3, <1>5, <1>8 DEF AskedInv, ToWrite
  <2>2. \A v \in Workers : At(v, "wget")' => worker'[v].n <= nNextWriteOrderToProcess'
    BY <1>2, <1>3, <1>7 DEF WritingInv
  <2>3. QED
    BY <1>2, <1>5, <1>7, <2>1, <2>2 DEF WritingInv
<1>12. WireInv' /\ WireInOrder'
  BY <1>2, <1>3, <1>7 DEF WireInv, WireInOrder
<1>13. LostInv'
  <2>1. Lost => Lost'
    BY <1>1, <1>2 DEF Lost, Becomes, At
  <2>2. AllWritten => AllWritten'
    BY <1>2, <1>7 DEF AllWritten
  <2>3. QED
    BY <1>3, <2>1, <2>2 DEF LostInv
<1>14. QED
  BY <1>9, <1>10, <1>11, <1>12, <1>13 DEF WriteInv

\* The message is on the wire, or it is lost and the worker has the error.
LEMMA Writes ==
  ASSUME TypeOK, TypeOK', WriteInv, NEW w \in Workers, WriteFile(w)
  PROVE  WriteInv'
<1>1. /\ At(w, "write") /\ Writing(w)
      /\ UNCHANGED <<iocp, nNextWriteOrder, nNextWriteOrderToProcess, toWriteQueue, nThreadsEnding>>
  BY DEF WriteFile, writeVars, Writing, At
<1>2. /\ \/ wire' = Append(wire, worker[w].pkt.order) /\ Goes(w, "written")
         \/ wire' = wire /\ \E r \in {"gone", "error"} : Becomes(w, "written", worker[w].pkt, worker[w].n, r)
      /\ \E r : Becomes(w, "written", worker[w].pkt, worker[w].n, r)
  BY WriteMoves DEF Goes
<1>3. /\ ToWriteInv /\ OneRequest /\ WritingInv /\ WireInv /\ WireInOrder /\ LostInv
      /\ AskedInv /\ AskedInv'
  BY AskedAnywhere DEF WriteInv
<1>4. /\ worker[w].pkt.order = nNextWriteOrderToProcess
      /\ \A v \in Workers : Writing(v) => v = w
  BY <1>1, <1>3 DEF WritingInv
<1>5. /\ \A i : Requested(i)' <=> Requested(i)
      /\ \A v : (Bringing(v)' <=> Bringing(v)) /\ (Bringing(v) => worker'[v] = worker[v])
      /\ \A v : (Writing(v)' <=> Writing(v)) /\ (Writing(v) => worker'[v].pkt = worker[v].pkt)
      /\ At(w, "written")' /\ \A v \in Workers : ~At(v, "written")
      /\ \A v \in Workers : At(v, "wget")' => At(v, "wget") /\ worker'[v] = worker[v]
  BY <1>1, <1>2, <1>4 DEF Requested, Bringing, Writing, Becomes, At
<1>6. \A b : Asked(b)' <=> Asked(b)
  BY <1>1, <1>5 DEF Asked
<1>7. ToWriteInv' /\ \A o : Queued(o)' <=> Queued(o)
  BY <1>1, <1>3, <1>6 DEF AskedInv, ToWrite
<1>8. OneRequest'
  BY <1>1, <1>3, <1>5 DEF OneRequest
<1>9. WritingInv'
  BY <1>1, <1>3, <1>5, <1>7 DEF WritingInv, ToWrite
<1>10. nNextWriteOrderToProcess \in Nat /\ wire \in Seq(Nat) /\ Len(wire) \in Nat
  BY LenProperties DEF TypeOK
<1>11. ASSUME wire' = Append(wire, nNextWriteOrderToProcess)
       PROVE  /\ Len(wire') = Len(wire) + 1 /\ wire'[Len(wire) + 1] = nNextWriteOrderToProcess
              /\ \A k \in 1..Len(wire) : wire'[k] = wire[k]
  BY <1>10, <1>11, AppendProperties
<1>12. \A k \in 1..Len(wire) : wire[k] \in Nat /\ wire[k] < nNextWriteOrderToProcess
  <2>1. \A k \in 1..Len(wire) : wire[k] \in Nat
    BY <1>10, ElementOfSeq
  <2>2. QED
    BY <1>3, <1>5, <1>10, <2>1 DEF WireInv
<1>13. WireInv' /\ WireInOrder'
  <2>1. CASE wire' = wire
    BY <1>1, <1>3, <1>5, <2>1 DEF WireInv, WireInOrder
  <2>2. CASE wire' = Append(wire, nNextWriteOrderToProcess)
    <3>1. \A k \in 1..Len(wire') : k \in 1..Len(wire) \/ k = Len(wire) + 1
      BY <1>10, <1>11, <2>2
    <3>2. WireInv'
      BY <1>1, <1>5, <1>10, <1>11, <1>12, <2>2, <3>1 DEF WireInv
    <3>3. DOMAIN wire = 1..Len(wire) /\ DOMAIN wire' = 1..Len(wire')
      BY LenProperties DEF TypeOK
    <3>4. WireInOrder'
      BY <1>3, <1>10, <1>11, <1>12, <2>2, <3>1, <3>3 DEF WireInOrder
    <3>5. QED
      BY <3>2, <3>4
  <2>3. QED
    BY <1>2, <1>4, <2>1, <2>2
<1>14. LostInv'
  <2>1. Lost => Lost'
    BY <1>1, <1>2 DEF Lost, Becomes, At
  <2>2. CASE \E r \in {"gone", "error"} : Becomes(w, "written", worker[w].pkt, worker[w].n, r)
    <3>1. Lost'
      BY <2>2 DEF Lost, Becomes
    <3>2. QED
      BY <3>1 DEF LostInv
  <2>3. CASE wire' = Append(wire, nNextWriteOrderToProcess)
    <3>1. ASSUME AllWritten
          PROVE  AllWritten'
      <4>1. Len(wire) = nNextWriteOrderToProcess - 1 /\ \A k \in 1..Len(wire) : wire[k] = k
        BY <1>5, <3>1 DEF AllWritten
      <4>2. \A k \in 1..Len(wire') : k \in 1..Len(wire) \/ k = Len(wire) + 1
        BY <1>10, <1>11, <2>3
      <4>3. /\ Len(wire') = nNextWriteOrderToProcess /\ \A k \in 1..Len(wire') : wire'[k] = k
        BY <1>10, <1>11, <2>3, <4>1, <4>2
      <4>4. QED
        BY <1>1, <1>5, <4>3 DEF AllWritten
    <3>2. QED
      BY <1>3, <2>1, <3>1 DEF LostInv
  <2>4. QED
    BY <1>2, <1>4, <2>2, <2>3
<1>15. QED
  BY <1>7, <1>8, <1>9, <1>13, <1>14 DEF WriteInv

\* A message was written or lost; the next order is due.
LEMMA WrittenNext ==
  ASSUME TypeOK, TypeOK', WriteInv, NEW w \in Workers, NextWriteOrder(w)
  PROVE  WriteInv'
<1>1. /\ At(w, "written") /\ Writing(w)
      /\ UNCHANGED <<iocp, nNextWriteOrder, toWriteQueue, nThreadsEnding, wire>>
      /\ nNextWriteOrderToProcess' = nNextWriteOrderToProcess + 1
  BY DEF NextWriteOrder, ioVars, Writing, At
<1>2. Becomes(w, IF worker[w].res = "ok" THEN "wdrain" ELSE "ending", worker[w].pkt, worker[w].n, worker[w].res)
  BY Moves
<1>3. /\ ToWriteInv /\ OneRequest /\ WritingInv /\ WireInv /\ WireInOrder /\ LostInv
      /\ AskedInv /\ AskedInv'
  BY AskedAnywhere DEF WriteInv
<1>4. /\ nNextWriteOrder \in Nat /\ nNextWriteOrderToProcess \in Nat
      /\ \A v \in Workers : worker[v].n \in Nat
      /\ \A k \in 1..Len(wire) : wire[k] \in Nat
  BY ElementOfSeq DEF TypeOK
<1>5. /\ ToWrite(nNextWriteOrderToProcess) /\ ~Queued(nNextWriteOrderToProcess)
      /\ \A v \in Workers : Writing(v) => v = w
  BY <1>1, <1>3 DEF WritingInv
<1>6. /\ \A i : Requested(i)' <=> Requested(i)
      /\ \A v : (Bringing(v)' <=> Bringing(v)) /\ (Bringing(v) => worker'[v] = worker[v])
      /\ \A v \in Workers : ~Writing(v)' /\ ~At(v, "written")'
      /\ \A v \in Workers : At(v, "wget")' => At(v, "wget") /\ worker'[v] = worker[v]
  BY <1>1, <1>2, <1>5 DEF Requested, Bringing, Writing, Becomes, At
<1>7. \A b : Asked(b)' <=> Asked(b)
  BY <1>1, <1>6 DEF Asked
<1>8. ToWriteInv'
  <2>1. \A b : Asked(b) => ToWrite(b.order) /\ b.order \in Nat /\ b.order # nNextWriteOrderToProcess
    BY <1>3, <1>5 DEF AskedInv, Packet
  <2>2. \A b : Asked(b)' => ToWrite(b.order)'
    BY <1>1, <1>4, <1>7, <2>1 DEF ToWrite
  <2>3. nNextWriteOrderToProcess' <= nNextWriteOrder' + 1
    BY <1>1, <1>4, <1>5 DEF ToWrite
  <2>4. QED
    BY <1>3, <2>2, <2>3 DEF AskedInv
<1>9. OneRequest'
  BY <1>1, <1>3, <1>6 DEF OneRequest
<1>10. WritingInv'
  <2>1. \A v \in Workers : At(v, "wget") => worker[v].n <= nNextWriteOrderToProcess
    BY <1>3 DEF WritingInv
  <2>2. \A v \in Workers : At(v, "wget")' => worker'[v].n <= nNextWriteOrderToProcess'
    BY <1>1, <1>4, <1>6, <2>1
  <2>3. QED
    BY <1>6, <2>2 DEF WritingInv
<1>11. WireInv' /\ WireInOrder'
  BY <1>1, <1>3, <1>4 DEF WireInv, WireInOrder
<1>12. LostInv'
  <2>1. Lost => Lost'
    BY <1>1, <1>2 DEF Lost, Becomes, At
  <2>2. AllWritten => AllWritten'
    BY <1>1, <1>4, <1>6 DEF AllWritten
  <2>3. QED
    BY <1>3, <2>1, <2>2 DEF LostInv
<1>13. QED
  BY <1>8, <1>9, <1>10, <1>11, <1>12 DEF WriteInv

----------------------------------------------------------------------------
(* Every step, for the reads and for the writes *)

\* Most steps put nothing but plain packets at the port.
LEMMA WorkerPort ==
  ASSUME TypeOK, TypeOK', NEW w \in Workers, WorkerStep(w) \/ CallbackReturns(w), NEW t \in {"read", "request",
  "connect"}
  PROVE  \E d \in 0..1 : PortKeeps(t, d)
<1>1. iocp' = iocp => \E d \in 0..1 : PortKeeps(t, d)
  BY SameKeeps
<1>2. DisconnectNamedPipe(w) => \E d \in 0..1 : PortKeeps(t, d)
  <2>1. Added({"read", "write", "connect"}, {"gone"}) => PortKeeps(t, 0)
    BY AddedKeeps
  <2>2. DisconnectNamedPipe(w) => iocp' = iocp \/ Added({"read", "write", "connect"}, {"gone"})
    BY PendingFail DEF DisconnectNamedPipe, ioVars
  <2>3. QED
    BY <1>1, <2>1, <2>2
<1>3. GetQueuedCompletionStatus(w) => PortKeeps(t, 1)
  BY Takes, TakenKeeps DEF GetQueuedCompletionStatus, TypeOK
<1>4. BeginEnding(w) => \E d \in 0..1 : PortKeeps(t, d)
  <2>1. Added({"read", "write"}, {"gone", "error"}) => PortKeeps(t, 0)
    BY AddedKeeps
  <2>2. BeginEnding(w) => iocp' = iocp \/ Added({"read", "write"}, {"gone", "error"})
    BY WriteMoves DEF ioVars
  <2>3. QED
    BY <1>1, <2>1, <2>2
<1>5. ConnectAgain(w) => \E d \in 0..1 : PortKeeps(t, d)
  <2>1. Completion("retry", "ok") \in Packet /\ Plain(t, Completion("retry", "ok"))
    BY DEF Completion, Packet, Result, Plain
  <2>2. Put(Completion("retry", "ok")) => PortKeeps(t, 0)
    BY <2>1, PutKeeps
  <2>3. ConnectAgain(w) => iocp' = iocp \/ Put(Completion("retry", "ok"))
    BY <2>1, Puts DEF ConnectAgain, SendConnectPacket, TypeOK
  <2>4. QED
    BY <1>1, <2>2, <2>3
<1>6. QED
  BY <1>1, <1>2, <1>3, <1>4, <1>5 DEF WorkerStep, CallbackReturns, SetupReadAhead, CallConnectionEstablished,
     ConnectionEstablishedReturns, AddBufferInSortedReadedQueue, ReadAgain, DrainRead, NothingToRead,
     CallEngineMessage, EngineMessageReturns, AddBufferInSortedToWriteQueue, DrainWrite,
     GetBufferFromSortedToWriteQueue, WriteFile, NextWriteOrder, CallTransportError, TransportErrorReturns,
     CallConnectionClosed, ConnectionClosedReturns, ioVars

\* What the engine, the callers of SendMsg and Finalize put at the port.
LEMMA OthersPort ==
  ASSUME TypeOK, TypeOK', StartServer \/ Environment \/ SendMsg \/ Finalize \/ UNCHANGED vars,
         NEW t \in {"read", "request", "connect"}
  PROVE  \/ \E d \in 0..1 : PortKeeps(t, d)
         \/ t = "read" /\ ReadCompletes /\ received' = received + 1
         \/ t = "request" /\ SendMsg /\ iocp' # iocp
         \/ t = "connect" /\ EngineConnects
<1>1. iocp' = iocp => \E d \in 0..1 : PortKeeps(t, d)
  BY SameKeeps
<1>2. ASSUME NEW p \in Packet, Plain(t, p), iocp' = Append(iocp, p)
      PROVE  \E d \in 0..1 : PortKeeps(t, d)
  <2>1. Put(p)
    BY <1>2, Puts DEF TypeOK
  <2>2. QED
    BY <1>2, <2>1, PutKeeps
<1>3. \A y \in {"connect", "retry", "write", "read"}, r \in {"ok", "gone"} :
        r = "gone" \/ y # t => Completion(y, r) \in Packet /\ Plain(t, Completion(y, r))
  BY DEF Completion, Packet, Result, Plain
<1>4. \/ EngineConnects /\ t # "connect"
      \/ WriteCompletes
      \/ StartServer
      => \E d \in 0..1 : PortKeeps(t, d)
  BY <1>1, <1>2, <1>3 DEF EngineConnects, WriteCompletes, StartServer, SendConnectPacket
<1>5. ASSUME ReadCompletes
      PROVE  (\E d \in 0..1 : PortKeeps(t, d)) \/ (t = "read" /\ received' = received + 1)
  <2>1. CASE iocp' = Append(iocp, Completion("read", "gone"))
    BY <1>2, <1>3, <2>1
  <2>2. CASE t = "read" /\ received' = received + 1
    BY <2>2
  <2>3. CASE t # "read"
    <3>1. PICK io \in reading :
            \/ iocp' = Append(iocp, [type |-> "read", order |-> io.order, msg |-> received + 1, res |-> "ok"])
            \/ iocp' = Append(iocp, Completion("read", "gone"))
      BY <1>5 DEF ReadCompletes, First
    <3>2. [type |-> "read", order |-> io.order, msg |-> received + 1, res |-> "ok"] \in Packet
      BY <3>1 DEF TypeOK, Pending, Packet, Result
    <3>3. Plain(t, [type |-> "read", order |-> io.order, msg |-> received + 1, res |-> "ok"])
      BY <2>3 DEF Plain
    <3>4. QED
      BY <1>2, <2>1, <3>1, <3>2, <3>3
  <2>4. QED
    BY <1>5, <2>1, <2>2, <2>3 DEF ReadCompletes
<1>6. ASSUME SendMsg, t # "request"
      PROVE  \E d \in 0..1 : PortKeeps(t, d)
  <2>1. [Completion("request", "ok") EXCEPT !.order = nNextWriteOrder + 1] =
          [type |-> "request", order |-> nNextWriteOrder + 1, msg |-> 0, res |-> "ok"]
    BY DEF Completion
  <2>2. /\ [type |-> "request", order |-> nNextWriteOrder + 1, msg |-> 0, res |-> "ok"] \in Packet
        /\ Plain(t, [type |-> "request", order |-> nNextWriteOrder + 1, msg |-> 0, res |-> "ok"])
    BY <1>6 DEF Packet, Result, TypeOK, Plain
  <2>3. QED
    BY <1>1, <1>2, <1>6, <2>1, <2>2 DEF SendMsg
<1>7. FinalizeShutdown => \E d \in 0..1 : PortKeeps(t, d)
  BY PendingFail, AddedKeeps DEF FinalizeShutdown
<1>8. FinalizeJoin => \E d \in 0..1 : PortKeeps(t, d)
  BY DEF FinalizeJoin, PortKeeps
<1>9. FinalizeQuit => \E d \in 0..1 : PortKeeps(t, d)
  BY QuitsAdded, AddedKeeps
<1>10. QED
  BY <1>1, <1>4, <1>5, <1>6, <1>7, <1>8, <1>9 DEF vars, Environment, EngineWrites, EngineLeaves, SendMsg,
     Finalize, ioVars

\* Where a worker goes, and which packet sent it there.
LEMMA Branches ==
  ASSUME NEW p \in Packet
  PROVE  /\ Branch(p) \in {"idle", "connect", "ahead", "queueRead", "queueWrite", "ending"}
         /\ Branch(p) = "queueRead" => p.type = "read" /\ p.res = "ok"
         /\ Branch(p) = "queueWrite" => p.type = "request" /\ p.res = "ok"
         /\ Branch(p) = "ahead" => p.type = "connect" /\ p.res = "ok"
         /\ Branch(p) = "connect" => p.type = "retry" \/ (p.type = "connect" /\ p.res # "ok")
<1>1. p.type \in {"connect", "retry", "read", "request", "write", "quit"}
  BY DEF Packet
<1>2. CASE p.type = "quit" \/ p.type = "retry"
  BY <1>2 DEF Branch
<1>3. CASE p.type = "connect" /\ p.res = "ok"
  BY <1>3 DEF Branch
<1>4. CASE p.res # "ok"
  <2>1. p.type # "quit" /\ p.type # "retry" /\ p.type # "connect" => Branch(p) = "ending"
    BY <1>4 DEF Branch
  <2>2. p.type = "connect" => Branch(p) = "connect"
    BY <1>4 DEF Branch
  <2>3. QED
    BY <1>2, <1>4, <2>1, <2>2
<1>5. CASE p.type = "read" /\ p.res = "ok"
  BY <1>5 DEF Branch
<1>6. CASE p.type = "request" /\ p.res = "ok"
  BY <1>6 DEF Branch
<1>7. CASE p.type = "write" /\ p.res = "ok"
  BY <1>7 DEF Branch
<1>8. QED
  BY <1>1, <1>2, <1>3, <1>4, <1>5, <1>6, <1>7

\* What a step of a worker leaves as it was.
LEMMA ReadFrame ==
  ASSUME TypeOK, ReadInv, NEW w \in Workers, WorkerStep(w) \/ CallbackReturns(w),
         ~AddBufferInSortedReadedQueue(w), ~CallEngineMessage(w), ~EngineMessageReturns(w),
         GetQueuedCompletionStatus(w) => ~Arrived(1)
  PROVE  /\ Stays({"queueRead", "inMessage"})
         /\ \A v \in Workers : At(v, "get")' => worker'[v].n <= nNextReadOrderToProcess
<1> DEFINE P == /\ Stays({"queueRead", "inMessage"})
                /\ \A v \in Workers : At(v, "get")' => worker'[v].n <= nNextReadOrderToProcess
<1>1. ASSUME NEW p, NEW k, NEW n, NEW r, Becomes(w, p, k, n, r),
             worker[w].pc \notin {"queueRead", "inMessage"}, p \notin {"queueRead", "inMessage"},
             p = "get" => n <= nNextReadOrderToProcess
      PROVE  P
  BY <1>1 DEF Becomes, Stays, At, ReadInv, HandlingInv
<1> HIDE DEF P
<1>2. ASSUME GetQueuedCompletionStatus(w)
      PROVE  P
  <2>1. iocp[1] = Head(iocp) /\ Head(iocp) \in Packet /\ 1 \in DOMAIN iocp
    BY <1>2, Takes, LenProperties DEF GetQueuedCompletionStatus, Taken, TypeOK
  <2>2. Branch(Head(iocp)) \notin {"queueRead", "inMessage", "get"}
    <3>1. ~(Head(iocp).type = "read" /\ Head(iocp).res = "ok")
      BY <1>2, <2>1 DEF Arrived
    <3>2. QED
      BY <2>1, <3>1, Branches
  <2>3. worker[w].pc = "idle"
    BY <1>2 DEF GetQueuedCompletionStatus, At
  <2>4. QED
    BY <1>1, <1>2, <2>2, <2>3, Moves
<1>3. ASSUME ConnectAgain(w) \/ SetupReadAhead(w) \/ CallConnectionEstablished(w) \/ ReadAgain(w)
      PROVE  P
  <2>1. worker[w].pc \notin {"queueRead", "inMessage"}
    BY <1>3 DEF ConnectAgain, SetupReadAhead, CallConnectionEstablished, ReadAgain, At
  <2>2. \E p, k, n, r : p \in {"idle", "ahead", "inEstablished", "drain", "ending"} /\ Becomes(w, p, k, n, r)
    BY <1>3, Moves DEF Goes
  <2>3. QED
    BY <1>1, <2>1, <2>2
<1>4. ASSUME ConnectionEstablishedReturns(w) \/ NothingToRead(w) \/ AddBufferInSortedToWriteQueue(w)
      PROVE  P
  BY <1>1, <1>4, Moves DEF ConnectionEstablishedReturns, NothingToRead, AddBufferInSortedToWriteQueue, At, Goes
<1>5. ASSUME DrainRead(w)
      PROVE  P
  <2>1. nNextReadOrderToProcess <= nNextReadOrderToProcess
    BY DEF TypeOK
  <2>2. worker[w].pc = "drain"
    BY <1>5 DEF DrainRead, At
  <2>3. QED
    BY <1>1, <1>5, <2>1, <2>2, Moves
<1>6. ASSUME DrainWrite(w) \/ NextWriteOrder(w)
      PROVE  P
  BY <1>1, <1>6, Moves DEF DrainWrite, NextWriteOrder, At
<1>7. ASSUME CallTransportError(w) \/ TransportErrorReturns(w) \/ DisconnectNamedPipe(w) \/ CallConnectionClosed(w)
             \/ ConnectionClosedReturns(w)
      PROVE  P
  BY <1>1, <1>7, Moves DEF CallTransportError, TransportErrorReturns, DisconnectNamedPipe, CallConnectionClosed,
     ConnectionClosedReturns, At, Goes
<1>8. ASSUME GetBufferFromSortedToWriteQueue(w) \/ WriteFile(w) \/ BeginEnding(w)
      PROVE  P
  <2>1. worker[w].pc \notin {"queueRead", "inMessage"}
    BY <1>8 DEF GetBufferFromSortedToWriteQueue, WriteFile, BeginEnding, At
  <2>2. \E p, k, n, r : p \in {"idle", "write", "written", "ended", "error", "disconnect"} /\ Becomes(w, p, k, n, r)
    BY <1>8, WriteMoves DEF Goes
  <2>3. QED
    BY <1>1, <2>1, <2>2
<1>9. QED
  BY <1>2, <1>3, <1>4, <1>5, <1>6, <1>7, <1>8 DEF WorkerStep, CallbackReturns, P

\* The steps that are not about the writes leave them as they were.
LEMMA WriteFrame ==
  ASSUME TypeOK, WriteInv, NEW w \in Workers, WorkerStep(w) \/ CallbackReturns(w),
         ~AddBufferInSortedToWriteQueue(w), ~WriteFile(w), ~NextWriteOrder(w),
         GetBufferFromSortedToWriteQueue(w) => toWriteQueue' = toWriteQueue,
         GetQueuedCompletionStatus(w) => ~(Requested(1) /\ iocp[1].res = "ok")
  PROVE  /\ Stays({"queueWrite", "write", "written"})
         /\ \A v \in Workers : At(v, "wget")' => worker'[v].n <= nNextWriteOrderToProcess
         /\ Lost => Lost'
<1> DEFINE S == {"queueWrite", "write", "written"}
           P == /\ Stays(S)
                /\ \A v \in Workers : At(v, "wget")' => worker'[v].n <= nNextWriteOrderToProcess
                /\ Lost => Lost'
<1>1. ASSUME NEW p, NEW k, NEW n, NEW r, Becomes(w, p, k, n, r),
             worker[w].pc \notin S \cup {"ending"}, p \notin S, p = "wget" => n <= nNextWriteOrderToProcess,
             nThreadsEnding' = nThreadsEnding
      PROVE  P
  BY <1>1 DEF Becomes, Stays, At, WriteInv, WritingInv, Lost
<1> HIDE DEF P, S
<1>2. ASSUME GetQueuedCompletionStatus(w)
      PROVE  P
  <2>1. iocp[1] = Head(iocp) /\ Head(iocp) \in Packet /\ 1 \in DOMAIN iocp
    BY <1>2, Takes, LenProperties DEF GetQueuedCompletionStatus, Taken, TypeOK
  <2>2. ~(Head(iocp).type = "request" /\ Head(iocp).res = "ok")
    BY <1>2, <2>1 DEF Requested
  <2>3. Branch(Head(iocp)) \notin S \cup {"wget"}
    BY <2>1, <2>2, Branches DEF S
  <2>4. worker[w].pc \notin S \cup {"ending"} /\ nThreadsEnding' = nThreadsEnding
    BY <1>2 DEF GetQueuedCompletionStatus, At, S
  <2>5. QED
    BY <1>1, <1>2, <2>3, <2>4, Moves
<1>3. ASSUME ConnectAgain(w) \/ SetupReadAhead(w) \/ CallConnectionEstablished(w) \/ ConnectionEstablishedReturns(w)
      PROVE  P
  <2>1. worker[w].pc \notin S \cup {"ending"} /\ nThreadsEnding' = nThreadsEnding
    BY <1>3 DEF ConnectAgain, SetupReadAhead, CallConnectionEstablished, ConnectionEstablishedReturns, At, S
  <2>2. \E p, k, n, r : p \in {"idle", "ahead", "inEstablished", "ending"} /\ Becomes(w, p, k, n, r)
    BY <1>3, Moves DEF Goes
  <2>3. QED
    BY <1>1, <2>1, <2>2 DEF S
<1>4. ASSUME AddBufferInSortedReadedQueue(w) \/ ReadAgain(w) \/ DrainRead(w) \/ NothingToRead(w)
      PROVE  P
  <2>1. worker[w].pc \notin S \cup {"ending"} /\ nThreadsEnding' = nThreadsEnding
    BY <1>4 DEF AddBufferInSortedReadedQueue, ReadAgain, DrainRead, NothingToRead, At, S
  <2>2. \E p, k, n, r : p \in {"readAgain", "idle", "get", "drain", "ending"} /\ Becomes(w, p, k, n, r)
    BY <1>4, Moves DEF Goes
  <2>3. QED
    BY <1>1, <2>1, <2>2 DEF S
<1>5. ASSUME CallEngineMessage(w) \/ EngineMessageReturns(w)
      PROVE  P
  <2>1. worker[w].pc \notin S \cup {"ending"} /\ nThreadsEnding' = nThreadsEnding
    BY <1>5 DEF CallEngineMessage, EngineMessageReturns, At, S
  <2>2. \E p, k, n, r : p \in {"inMessage", "drain", "ending"} /\ Becomes(w, p, k, n, r)
    BY <1>5, Moves DEF Goes
  <2>3. QED
    BY <1>1, <2>1, <2>2 DEF S
<1>6. ASSUME DrainWrite(w)
      PROVE  P
  <2>1. worker[w].pc \notin S \cup {"ending"} /\ nThreadsEnding' = nThreadsEnding
    BY <1>6 DEF DrainWrite, At, S
  <2>2. nNextWriteOrderToProcess <= nNextWriteOrderToProcess
    BY DEF TypeOK
  <2>3. (IF cShutdownEvent THEN "idle" ELSE "wget") \notin S
    BY DEF S
  <2>4. QED
    BY <1>1, <1>6, <2>1, <2>2, <2>3, Moves
<1>7. ASSUME GetBufferFromSortedToWriteQueue(w)
      PROVE  P
  <2>1. worker[w].pc \notin S \cup {"ending"} /\ nThreadsEnding' = nThreadsEnding
    BY <1>7 DEF GetBufferFromSortedToWriteQueue, At, S
  <2>2. Goes(w, "idle")
    BY <1>7, WriteMoves
  <2>3. QED
    BY <1>1, <2>1, <2>2 DEF S, Goes
<1>8. ASSUME CallTransportError(w) \/ TransportErrorReturns(w) \/ DisconnectNamedPipe(w) \/ CallConnectionClosed(w)
             \/ ConnectionClosedReturns(w)
      PROVE  P
  <2>1. worker[w].pc \notin S \cup {"ending"} /\ nThreadsEnding' = nThreadsEnding
    BY <1>8 DEF CallTransportError, TransportErrorReturns, DisconnectNamedPipe, CallConnectionClosed,
       ConnectionClosedReturns, At, S
  <2>2. \E p, k, n, r : p \in {"inError", "disconnect", "close", "inClosed", "ended"} /\ Becomes(w, p, k, n, r)
    BY <1>8, Moves DEF Goes
  <2>3. QED
    BY <1>1, <2>1, <2>2 DEF S
<1>9. ASSUME BeginEnding(w)
      PROVE  P
  <2>1. worker[w].pc = "ending" /\ nThreadsEnding' = 1
    BY <1>9 DEF BeginEnding, At
  <2>2. PICK p, k, n, r : p \in {"ended", "error", "disconnect"} /\ Becomes(w, p, k, n, r)
    BY <1>9, WriteMoves DEF Goes
  <2>3. QED
    BY <2>1, <2>2 DEF P, S, Becomes, Stays, At, WriteInv, WritingInv, Lost
<1>10. QED
  BY <1>2, <1>3, <1>4, <1>5, <1>6, <1>7, <1>8, <1>9 DEF WorkerStep, CallbackReturns, P, S

\* Every step keeps what is said of the reads and of the messages.
LEMMA ReadStep ==
  ASSUME TypeOK, TypeOK', ReadInv, DeliverInv, [Next]_vars
  PROVE  ReadInv' /\ DeliverInv'
<1>1. ASSUME NEW w \in Workers, WorkerStep(w) \/ CallbackReturns(w)
      PROVE  ReadInv' /\ DeliverInv'
  <2>1. CASE GetQueuedCompletionStatus(w) /\ Arrived(1)
    BY <2>1, TakesRead
  <2>2. CASE AddBufferInSortedReadedQueue(w)
    BY <2>2, QueuesRead
  <2>3. CASE CallEngineMessage(w)
    BY <2>3, Handles
  <2>4. CASE EngineMessageReturns(w)
    BY <2>4, HandledNext
  <2>5. CASE /\ GetQueuedCompletionStatus(w) => ~Arrived(1)
             /\ ~AddBufferInSortedReadedQueue(w) /\ ~CallEngineMessage(w) /\ ~EngineMessageReturns(w)
    <3>1. /\ Stays({"queueRead", "inMessage"})
          /\ \A v \in Workers : At(v, "get")' => worker'[v].n <= nNextReadOrderToProcess
      BY <1>1, <2>5, ReadFrame
    <3>2. CASE SendReadPacket(w) /\ ReadResult = "ok" /\ (SetupReadAhead(w) \/ ReadAgain(w))
      <4>1. UNCHANGED <<received, iocp, nNextReadOrderToProcess, readedQueue, handled>>
        BY <3>2 DEF SetupReadAhead, ReadAgain, pipeVars
      <4>2. QED
        BY <3>1, <3>2, <4>1, Posts
    <3>3. CASE ~(SendReadPacket(w) /\ ReadResult = "ok" /\ (SetupReadAhead(w) \/ ReadAgain(w)))
      <4>1. nNextReadOrder' \in {nNextReadOrder, nNextReadOrder + 1} /\ reading' \subseteq reading
        BY <1>1, <2>5, <3>3, WriteMoves DEF WorkerStep, CallbackReturns, GetQueuedCompletionStatus,
           ConnectAgain,
           SetupReadAhead, CallConnectionEstablished, ConnectionEstablishedReturns, ReadAgain, DrainRead,
           NothingToRead,
           AddBufferInSortedToWriteQueue, DrainWrite, GetBufferFromSortedToWriteQueue, WriteFile,
           NextWriteOrder,
           BeginEnding, CallTransportError, TransportErrorReturns, DisconnectNamedPipe, CallConnectionClosed,
           ConnectionClosedReturns, FailPending, SendReadPacket, ioVars, readVars
      <4>2. UNCHANGED <<received, handled, nNextReadOrderToProcess, readedQueue>>
        BY <1>1, <2>5 DEF WorkerStep, CallbackReturns, GetQueuedCompletionStatus, ConnectAgain,
           SetupReadAhead, CallConnectionEstablished, ConnectionEstablishedReturns, ReadAgain, DrainRead,
           NothingToRead,
           AddBufferInSortedToWriteQueue, DrainWrite, GetBufferFromSortedToWriteQueue, WriteFile,
           NextWriteOrder,
           BeginEnding, CallTransportError, TransportErrorReturns, DisconnectNamedPipe, CallConnectionClosed,
           ConnectionClosedReturns, pipeVars, readVars
      <4>3. \E d \in 0..1 : PortKeeps("read", d)
        BY <1>1, WorkerPort
      <4>4. ReadShrinks
        BY <3>1, <4>1, <4>2, <4>3 DEF ReadShrinks
      <4>5. QED
        BY <4>4, ReadsShrink
    <3>4. QED
      BY <3>2, <3>3
  <2>6. QED
    BY <2>1, <2>2, <2>3, <2>4, <2>5
<1>2. ASSUME StartServer \/ Environment \/ SendMsg \/ Finalize \/ UNCHANGED vars
      PROVE  ReadInv' /\ DeliverInv'
  <2>1. CASE ReadCompletes /\ received' = received + 1
    BY <2>1, Receives
  <2>2. CASE ~(ReadCompletes /\ received' = received + 1)
    <3>1. /\ UNCHANGED <<received, handled, readedQueue, nNextReadOrderToProcess, nNextReadOrder, worker>> \/ FinalizeJoin
          /\ reading' \subseteq reading
      <4>1. FinalizeShutdown => reading' = {}
        BY DEF FinalizeShutdown, FailPending
      <4>2. ReadCompletes => reading' \subseteq reading /\ received' = received
        BY <2>2 DEF ReadCompletes
      <4>3. QED
        BY <1>2, <4>1, <4>2 DEF StartServer, Environment, EngineConnects, EngineWrites, EngineLeaves,
           ReadCompletes,
           WriteCompletes, SendMsg, Finalize, FinalizeShutdown, FinalizeQuit, FinalizeJoin, vars, pipeVars,
           ioVars, readVars
    <3>2. /\ UNCHANGED <<received, handled, nNextReadOrderToProcess, nNextReadOrder, worker>>
          /\ readedQueue' \subseteq readedQueue
      BY <3>1 DEF FinalizeJoin, pipeVars
    <3>3. /\ Stays({"queueRead", "inMessage"})
          /\ \A v \in Workers : At(v, "get")' => worker'[v].n <= nNextReadOrderToProcess
      BY <3>2 DEF Stays, At, ReadInv, HandlingInv
    <3>4. \E d \in 0..1 : PortKeeps("read", d)
      BY <1>2, <2>2, OthersPort
    <3>5. ReadShrinks
      BY <3>1, <3>2, <3>3, <3>4 DEF ReadShrinks
    <3>6. QED
      BY <3>5, ReadsShrink
  <2>3. QED
    BY <2>1, <2>2
<1>3. QED
  BY <1>1, <1>2 DEF Next

\* Every step keeps what is said of the writes.
LEMMA WriteStep ==
  ASSUME TypeOK, TypeOK', WriteInv, [Next]_vars
  PROVE  WriteInv'
<1>1. ASSUME NEW w \in Workers, WorkerStep(w) \/ CallbackReturns(w)
      PROVE  WriteInv'
  <2>1. CASE GetQueuedCompletionStatus(w) /\ Requested(1) /\ iocp[1].res = "ok"
    BY <2>1, TakesRequest
  <2>2. CASE AddBufferInSortedToWriteQueue(w)
    BY <2>2, QueuesRequest
  <2>3. CASE GetBufferFromSortedToWriteQueue(w) /\ toWriteQueue' # toWriteQueue
    BY <2>3, TakesWrite
  <2>4. CASE WriteFile(w)
    BY <2>4, Writes
  <2>5. CASE NextWriteOrder(w)
    BY <2>5, WrittenNext
  <2>6. CASE /\ GetQueuedCompletionStatus(w) => ~(Requested(1) /\ iocp[1].res = "ok")
             /\ GetBufferFromSortedToWriteQueue(w) => toWriteQueue' = toWriteQueue
             /\ ~AddBufferInSortedToWriteQueue(w) /\ ~WriteFile(w) /\ ~NextWriteOrder(w)
    <3>1. /\ Stays({"queueWrite", "write", "written"})
          /\ \A v \in Workers : At(v, "wget")' => worker'[v].n <= nNextWriteOrderToProcess
          /\ Lost => Lost'
      BY <1>1, <2>6, WriteFrame
    <3>2. UNCHANGED <<nNextWriteOrder, nNextWriteOrderToProcess, toWriteQueue, wire>>
      BY <1>1, <2>6 DEF WorkerStep, CallbackReturns, GetQueuedCompletionStatus, ConnectAgain,
         SetupReadAhead, CallConnectionEstablished, ConnectionEstablishedReturns, ReadAgain, DrainRead,
         NothingToRead,
         AddBufferInSortedReadedQueue, CallEngineMessage, EngineMessageReturns, DrainWrite,
         GetBufferFromSortedToWriteQueue, BeginEnding, CallTransportError, TransportErrorReturns,
         DisconnectNamedPipe,
         CallConnectionClosed, ConnectionClosedReturns, writeVars
    <3>3. \E d \in 0..1 : PortKeeps("request", d)
      BY <1>1, WorkerPort
    <3>4. WriteShrinks
      BY <3>1, <3>2, <3>3 DEF WriteShrinks
    <3>5. QED
      BY <3>4, WritesShrink
  <2>7. QED
    BY <2>1, <2>2, <2>3, <2>4, <2>5, <2>6
<1>2. ASSUME StartServer \/ Environment \/ SendMsg \/ Finalize \/ UNCHANGED vars
      PROVE  WriteInv'
  <2>1. CASE SendMsg /\ iocp' # iocp
    BY <2>1, Requests
  <2>2. CASE ~(SendMsg /\ iocp' # iocp)
    <3>1. /\ UNCHANGED <<nNextWriteOrderToProcess, wire, worker, nThreadsEnding>>
          /\ nNextWriteOrder' \in {nNextWriteOrder, nNextWriteOrder + 1}
          /\ toWriteQueue' \subseteq toWriteQueue
      BY <1>2 DEF StartServer, Environment, EngineConnects, EngineWrites, EngineLeaves, ReadCompletes,
         WriteCompletes, SendMsg, Finalize, FinalizeShutdown, FinalizeQuit, FinalizeJoin, vars, writeVars
    <3>2. /\ Stays({"queueWrite", "write", "written"}) /\ (Lost => Lost')
          /\ \A v \in Workers : At(v, "wget")' => worker'[v].n <= nNextWriteOrderToProcess
      BY <3>1 DEF Stays, At, Lost, WriteInv, WritingInv
    <3>3. \E d \in 0..1 : PortKeeps("request", d)
      BY <1>2, <2>2, OthersPort
    <3>4. WriteShrinks
      BY <3>1, <3>2, <3>3 DEF WriteShrinks
    <3>5. QED
      BY <3>4, WritesShrink
  <2>3. QED
    BY <2>1, <2>2
<1>3. QED
  BY <1>1, <1>2 DEF Next

----------------------------------------------------------------------------
(* Every step, for the life of the connection *)

\* A worker that goes on with its work has met no error.
LEMMA ResultStep ==
  ASSUME TypeOK, ResultInv, [Next]_vars
  PROVE  ResultInv'
<1>1. ASSUME NEW w \in Workers, NEW p, NEW k, NEW n, NEW r, Becomes(w, p, k, n, r),
             p \in Working \ {"idle"} => r = "ok"
      PROVE  ResultInv'
  BY <1>1 DEF Becomes, ResultInv
<1>2. ASSUME NEW w \in Workers, worker[w].pc \in Working \ {"idle"}, NEW p, Goes(w, p)
      PROVE  ResultInv'
  BY <1>1, <1>2 DEF Goes, ResultInv
<1>3. ASSUME NEW w \in Workers, NEW p, p \notin Working \ {"idle"}, NEW k, NEW n, NEW r, Becomes(w, p, k, n, r)
      PROVE  ResultInv'
  BY <1>1, <1>3
<1>4. ASSUME NEW w \in Workers, WorkerStep(w) \/ CallbackReturns(w)
      PROVE  ResultInv'
  <2>1. CASE GetQueuedCompletionStatus(w)
    <3>1. Head(iocp) \in Packet
      BY <2>1, Takes DEF GetQueuedCompletionStatus, Taken, TypeOK
    <3>2. Branch(Head(iocp)) \in Working \ {"idle"} =>
            (IF Head(iocp).type = "connect" THEN "ok" ELSE Head(iocp).res) = "ok"
      BY <3>1, Branches DEF Working
    <3>3. QED
      BY <1>1, <2>1, <3>2, Moves
  <2>2. CASE SetupReadAhead(w) \/ ReadAgain(w) \/ EngineMessageReturns(w) \/ NextWriteOrder(w)
    BY <1>1, <2>2, Moves DEF Working
  <2>3. CASE DrainRead(w) \/ DrainWrite(w)
    <3>1. worker[w].res = "ok"
      BY <2>3 DEF ResultInv, Working, DrainRead, DrainWrite, At
    <3>2. QED
      BY <1>1, <2>3, <3>1, Moves
  <2>4. CASE CallConnectionEstablished(w) \/ AddBufferInSortedReadedQueue(w) \/ CallEngineMessage(w)
    BY <1>2, <2>4, Moves DEF Working, CallConnectionEstablished, AddBufferInSortedReadedQueue,
       CallEngineMessage, At
  <2>5. CASE AddBufferInSortedToWriteQueue(w)
    BY <1>2, <2>5, Moves DEF Working, AddBufferInSortedToWriteQueue, At
  <2>6. CASE GetBufferFromSortedToWriteQueue(w)
    <3>1. worker[w].res = "ok"
      BY <2>6 DEF ResultInv, Working, GetBufferFromSortedToWriteQueue, At
    <3>2. QED
      BY <1>1, <2>6, <3>1, WriteMoves DEF Goes
  <2>7. CASE WriteFile(w) \/ BeginEnding(w)
    <3>1. \E p, k, n, r : p \in {"written", "ended", "disconnect", "error"} /\ Becomes(w, p, k, n, r)
      BY <2>7, WriteMoves DEF Goes
    <3>2. QED
      BY <1>3, <3>1 DEF Working
  <2>8. CASE \/ ConnectAgain(w) \/ ConnectionEstablishedReturns(w) \/ NothingToRead(w) \/ CallTransportError(w)
             \/ TransportErrorReturns(w) \/ DisconnectNamedPipe(w) \/ CallConnectionClosed(w) \/ ConnectionClosedReturns(w)
    <3>1. \E p, k, n, r : p \in {"idle", "inError", "disconnect", "close", "inClosed", "ended"} /\ Becomes(w, p, k, n, r)
      BY <2>8, Moves DEF Goes
    <3>2. QED
      BY <1>3, <3>1 DEF Working
  <2>9. QED
    BY <1>4, <2>1, <2>2, <2>3, <2>4, <2>5, <2>6, <2>7, <2>8 DEF WorkerStep, CallbackReturns
<1>5. worker' = worker => ResultInv'
  BY DEF ResultInv
<1>6. QED
  BY <1>4, <1>5 DEF Next, vars, StartServer, Environment, EngineConnects, EngineWrites, EngineLeaves,
     ReadCompletes,
     WriteCompletes, SendMsg, Finalize, FinalizeShutdown, FinalizeQuit, FinalizeJoin

\* No worker does anything before the engine has connected.
LEMMA WorkersLater ==
  ASSUME TypeOK, FreshInv, NEW w \in Workers, WorkerStep(w) \/ CallbackReturns(w)
  PROVE  hPipe \notin {"fresh", "listening"}
BY DEF FreshInv, WorkerStep, CallbackReturns, GetQueuedCompletionStatus, ConnectAgain,
   SetupReadAhead, CallConnectionEstablished, ConnectionEstablishedReturns, ReadAgain, DrainRead, NothingToRead,
   AddBufferInSortedReadedQueue, CallEngineMessage, EngineMessageReturns, AddBufferInSortedToWriteQueue,
   DrainWrite,
   GetBufferFromSortedToWriteQueue, WriteFile, NextWriteOrder,
   BeginEnding, CallTransportError, TransportErrorReturns, DisconnectNamedPipe,
   CallConnectionClosed, ConnectionClosedReturns, At

\* What a worker does to the pipe.
LEMMA WorkerPipe ==
  ASSUME TypeOK, FreshInv, RetryInv, NEW w \in Workers, WorkerStep(w) \/ CallbackReturns(w)
  PROVE  hPipe' = hPipe \/ (hPipe \in {"connected", "broken", "disconnected"} /\ hPipe' = "disconnected")
<1>1. hPipe \in {"connected", "broken", "disconnected", "closed"}
  BY WorkersLater DEF TypeOK
<1>2. ConnectAgain(w) => hPipe' = hPipe
  BY <1>1 DEF ConnectAgain, SendConnectPacket, RetryInv
<1>3. DisconnectNamedPipe(w) => hPipe' = hPipe \/ (hPipe \in {"connected", "broken", "disconnected"} /\ hPipe' = "disconnected")
  BY <1>1 DEF DisconnectNamedPipe
<1>4. QED
  BY <1>2, <1>3 DEF WorkerStep, CallbackReturns, GetQueuedCompletionStatus,
     SetupReadAhead, CallConnectionEstablished, ConnectionEstablishedReturns, ReadAgain, DrainRead,
     NothingToRead,
     AddBufferInSortedReadedQueue, CallEngineMessage, EngineMessageReturns, AddBufferInSortedToWriteQueue,
     DrainWrite,
     GetBufferFromSortedToWriteQueue, WriteFile, NextWriteOrder, BeginEnding, CallTransportError,
     TransportErrorReturns,
     CallConnectionClosed, ConnectionClosedReturns, pipeVars

\* Before the engine connects there is nothing to do.
LEMMA FreshStep ==
  ASSUME TypeOK, FreshInv, RetryInv, FinInv, [Next]_vars
  PROVE  FreshInv'
<1>1. ASSUME NEW w \in Workers, WorkerStep(w) \/ CallbackReturns(w)
      PROVE  FreshInv'
  BY <1>1, WorkersLater, WorkerPipe DEF FreshInv
<1>2. ASSUME StartServer \/ Environment \/ SendMsg \/ Finalize \/ UNCHANGED vars
      PROVE  FreshInv'
  <2>1. CASE StartServer
    BY <2>1 DEF FreshInv, StartServer, SendConnectPacket, readVars, writeVars, At
  <2>2. CASE Environment
    BY <2>2 DEF FreshInv, Environment, EngineConnects, EngineWrites, EngineLeaves, ReadCompletes,
       WriteCompletes, pipeVars
  <2>3. CASE SendMsg
    BY <2>3 DEF FreshInv, SendMsg, pipeVars
  <2>4. CASE Finalize
    BY <2>4 DEF FreshInv, FinInv, Finalize, FinalizeShutdown, FinalizeQuit, FinalizeJoin, pipeVars
  <2>5. CASE UNCHANGED vars
    BY <2>5 DEF FreshInv, vars, pipeVars, ioVars, readVars, writeVars, At
  <2>6. QED
    BY <1>2, <2>1, <2>2, <2>3, <2>4, <2>5
<1>3. QED
  BY <1>1, <1>2 DEF Next

\* Nobody tries the connect again while the pipe is open.
LEMMA RetryStep ==
  ASSUME TypeOK, TypeOK', FreshInv, RetryInv, FinInv, [Next]_vars
  PROVE  RetryInv'
<1>1. ASSUME NEW p, ~(p.type = "retry" \/ (p.type = "connect" /\ p.res # "ok")), Put(p), RetryInv, hPipe # "closed"
      PROVE  \A i \in DOMAIN iocp' : ~Retried(i)'
  <2>1. DOMAIN iocp = 1..Len(iocp) /\ Len(iocp) \in Nat /\ DOMAIN iocp' = 1..Len(iocp')
    BY LenProperties DEF TypeOK
  <2>2. ASSUME NEW i \in 1..Len(iocp'), i # Len(iocp) + 1
        PROVE  i \in 1..Len(iocp)
    BY <1>1, <2>1, <2>2 DEF Put
  <2>3. QED
    BY <1>1, <2>1, <2>2 DEF Put, Retried, RetryInv
<1>2. ASSUME NEW T, NEW R, Added(T, R), "retry" \notin T, "connect" \notin T, RetryInv, hPipe # "closed"
      PROVE  \A i \in DOMAIN iocp' : ~Retried(i)'
  <2>1. DOMAIN iocp = 1..Len(iocp) /\ Len(iocp) \in Nat /\ DOMAIN iocp' = 1..Len(iocp') /\ Len(iocp') \in Nat
    BY LenProperties DEF TypeOK
  <2>2. ASSUME NEW i \in 1..Len(iocp'), i \notin 1..Len(iocp)
        PROVE  ~Retried(i)'
    <3>1. i \in Len(iocp) + 1..Len(iocp')
      BY <2>1, <2>2
    <3>2. QED
      BY <1>2, <3>1 DEF Added, Retried
  <2>3. QED
    BY <1>2, <2>1, <2>2 DEF Added, Retried, RetryInv
<1>3. iocp' = iocp /\ hPipe # "closed" => \A i \in DOMAIN iocp' : ~Retried(i)'
  BY DEF RetryInv, Retried
<1>4. ASSUME NEW w \in Workers, NEW p, NEW k, NEW n, NEW r, Becomes(w, p, k, n, r), p # "connect", hPipe # "closed"
      PROVE  \A v \in Workers : ~At(v, "connect")'
  BY <1>4 DEF Becomes, At, RetryInv
<1>5. ASSUME NEW w \in Workers, WorkerStep(w) \/ CallbackReturns(w), hPipe' # "closed"
      PROVE  RetryInv'
  <2>1. hPipe # "closed" /\ hPipe # "listening" /\ ~ConnectAgain(w)
    BY <1>5, WorkerPipe, WorkersLater DEF RetryInv, ConnectAgain
  <2>2. CASE GetQueuedCompletionStatus(w)
    <3>1. Taken /\ 1 \in DOMAIN iocp
      BY <2>2, Takes, LenProperties DEF GetQueuedCompletionStatus, TypeOK, Taken
    <3>2. \A i \in DOMAIN iocp' : i + 1 \in DOMAIN iocp /\ iocp'[i] = iocp[i + 1]
      <4>1. DOMAIN iocp = 1..Len(iocp) /\ DOMAIN iocp' = 1..Len(iocp') /\ Len(iocp) \in Nat
        BY <3>1, LenProperties DEF Taken, TypeOK
      <4>2. QED
        BY <3>1, <4>1 DEF Taken
    <3>3. \A i \in DOMAIN iocp' : ~Retried(i)'
      BY <2>1, <3>2 DEF RetryInv, Retried
    <3>4. Branch(Head(iocp)) # "connect"
      BY <2>1, <3>1, Branches DEF Taken, RetryInv, Retried
    <3>5. \A v \in Workers : ~At(v, "connect")'
      BY <1>4, <2>1, <2>2, <3>4, Moves
    <3>6. QED
      BY <3>3, <3>5 DEF RetryInv
  <2>3. CASE ~GetQueuedCompletionStatus(w)
    <3>1. BeginEnding(w) => \A i \in DOMAIN iocp' : ~Retried(i)'
      BY <1>2, <1>3, <2>1, WriteMoves DEF ioVars
    <3>2. DisconnectNamedPipe(w) => \A i \in DOMAIN iocp' : ~Retried(i)'
      BY <1>2, <2>1, PendingFail DEF DisconnectNamedPipe
    <3>3. \A i \in DOMAIN iocp' : ~Retried(i)'
      BY <1>3, <1>5, <2>1, <2>3, <3>1, <3>2 DEF WorkerStep, CallbackReturns, SetupReadAhead,
         CallConnectionEstablished,
         ConnectionEstablishedReturns, AddBufferInSortedReadedQueue, ReadAgain, DrainRead, NothingToRead,
         CallEngineMessage, EngineMessageReturns, AddBufferInSortedToWriteQueue, DrainWrite,
         GetBufferFromSortedToWriteQueue, WriteFile, NextWriteOrder, CallTransportError, TransportErrorReturns,
         CallConnectionClosed, ConnectionClosedReturns, ioVars
    <3>4. \E p, k, n, r : p \in Pcs \ {"connect"} /\ Becomes(w, p, k, n, r)
      <4>1. \/ SetupReadAhead(w) \/ CallConnectionEstablished(w) \/ AddBufferInSortedReadedQueue(w) \/ ReadAgain(w)
            \/ DrainRead(w) \/ NothingToRead(w) \/ CallEngineMessage(w)
            => \E p, k, n, r : p \in Pcs \ {"connect"} /\ Becomes(w, p, k, n, r)
        BY Moves DEF Goes, Pcs
      <4>2. \/ AddBufferInSortedToWriteQueue(w) \/ DrainWrite(w) \/ NextWriteOrder(w) \/ EngineMessageReturns(w)
            \/ ConnectionEstablishedReturns(w)
            => \E p, k, n, r : p \in Pcs \ {"connect"} /\ Becomes(w, p, k, n, r)
        BY Moves DEF Goes, Pcs
      <4>3. \/ CallTransportError(w) \/ DisconnectNamedPipe(w) \/ CallConnectionClosed(w)
            \/ TransportErrorReturns(w) \/ ConnectionClosedReturns(w)
            => \E p, k, n, r : p \in Pcs \ {"connect"} /\ Becomes(w, p, k, n, r)
        BY Moves DEF Goes, Pcs
      <4>4. GetBufferFromSortedToWriteQueue(w) \/ WriteFile(w) \/ BeginEnding(w)
            => \E p, k, n, r : p \in Pcs \ {"connect"} /\ Becomes(w, p, k, n, r)
        BY WriteMoves DEF Goes, Pcs
      <4>5. QED
        BY <1>5, <2>1, <2>3, <4>1, <4>2, <4>3, <4>4 DEF WorkerStep, CallbackReturns
    <3>5. \A v \in Workers : ~At(v, "connect")'
      BY <1>4, <2>1, <3>4
    <3>6. QED
      BY <3>3, <3>5 DEF RetryInv
  <2>4. QED
    BY <2>2, <2>3
<1>6. ASSUME StartServer \/ Environment \/ SendMsg \/ Finalize \/ UNCHANGED vars, hPipe' # "closed"
      PROVE  RetryInv'
  <2>1. hPipe # "closed" /\ UNCHANGED worker
    BY <1>6 DEF StartServer, SendConnectPacket, Environment, EngineConnects, EngineWrites, EngineLeaves,
       ReadCompletes,
       WriteCompletes, SendMsg, Finalize, FinalizeShutdown, FinalizeQuit, FinalizeJoin, FinInv, vars, pipeVars
  <2>2. \A v \in Workers : ~At(v, "connect")'
    BY <2>1 DEF RetryInv, At
  <2>3. ASSUME NEW p \in Packet, ~(p.type = "retry" \/ (p.type = "connect" /\ p.res # "ok")), iocp' = Append(iocp, p)
        PROVE  \A i \in DOMAIN iocp' : ~Retried(i)'
    <3>1. Put(p)
      BY <2>3, Puts DEF TypeOK
    <3>2. QED
      BY <1>1, <2>1, <2>3, <3>1
  <2>4. CASE iocp' = iocp \/ StartServer
    <3>1. StartServer => iocp' = iocp
      BY DEF StartServer, SendConnectPacket
    <3>2. QED
      BY <1>3, <2>1, <2>2, <2>4, <3>1 DEF RetryInv
  <2>5. CASE EngineConnects \/ WriteCompletes
    <3>1. \A y \in {<<"connect", "ok">>, <<"write", "ok">>, <<"write", "gone">>} :
            /\ Completion(y[1], y[2]) \in Packet
            /\ ~(\/ Completion(y[1], y[2]).type = "retry"
                 \/ Completion(y[1], y[2]).type = "connect" /\ Completion(y[1], y[2]).res # "ok")
      BY DEF Completion, Packet, Result
    <3>2. \E y \in {<<"connect", "ok">>, <<"write", "ok">>, <<"write", "gone">>} :
            iocp' = Append(iocp, Completion(y[1], y[2]))
      BY <2>5 DEF EngineConnects, WriteCompletes
    <3>3. QED
      BY <2>2, <2>3, <3>1, <3>2 DEF RetryInv
  <2>6. CASE ReadCompletes
    <3>1. PICK p \in Packet : p.type = "read" /\ iocp' = Append(iocp, p)
      <4>1. PICK io \in reading :
              \/ iocp' = Append(iocp, [type |-> "read", order |-> io.order, msg |-> received + 1, res |-> "ok"])
              \/ iocp' = Append(iocp, Completion("read", "gone"))
        BY <2>6 DEF ReadCompletes, First
      <4>2. [type |-> "read", order |-> io.order, msg |-> received + 1, res |-> "ok"] \in Packet
        BY DEF TypeOK, Pending, Packet, Result
      <4>3. Completion("read", "gone") \in Packet /\ Completion("read", "gone").type = "read"
        BY DEF Completion, Packet, Result
      <4>4. QED
        BY <4>1, <4>2, <4>3
    <3>2. QED
      BY <2>2, <2>3, <3>1 DEF RetryInv
  <2>7. CASE SendMsg /\ iocp' # iocp
    <3>1. [Completion("request", "ok") EXCEPT !.order = nNextWriteOrder + 1] =
            [type |-> "request", order |-> nNextWriteOrder + 1, msg |-> 0, res |-> "ok"]
      BY DEF Completion
    <3>2. [type |-> "request", order |-> nNextWriteOrder + 1, msg |-> 0, res |-> "ok"] \in Packet
      BY DEF Packet, Result, TypeOK
    <3>3. iocp' = Append(iocp, [type |-> "request", order |-> nNextWriteOrder + 1, msg |-> 0, res |-> "ok"])
      BY <2>7, <3>1 DEF SendMsg
    <3>4. QED
      BY <2>2, <2>3, <3>2, <3>3 DEF RetryInv
  <2>8. CASE Finalize
    BY <1>6, <2>1, <2>8 DEF FinInv, Finalize, FinalizeShutdown, FinalizeQuit, FinalizeJoin
  <2>9. QED
    BY <1>6, <2>4, <2>5, <2>6, <2>7, <2>8 DEF Environment, EngineWrites, EngineLeaves, vars, ioVars
<1>7. QED
  BY <1>5, <1>6 DEF Next, RetryInv

\* Finalize closes the pipe first, and is done when every worker has ended.
LEMMA FinStep ==
  ASSUME TypeOK, FreshInv, RetryInv, FinInv, [Next]_vars
  PROVE  FinInv'
<1>1. ASSUME NEW w \in Workers, WorkerStep(w) \/ CallbackReturns(w)
      PROVE  FinInv'
  <2>1. fin' = fin /\ (hPipe = "closed" => hPipe' = "closed")
    BY <1>1, WorkerPipe DEF WorkerStep, CallbackReturns, GetQueuedCompletionStatus, ConnectAgain,
       SetupReadAhead, CallConnectionEstablished, ConnectionEstablishedReturns, ReadAgain, DrainRead,
       NothingToRead,
       AddBufferInSortedReadedQueue, CallEngineMessage, EngineMessageReturns, AddBufferInSortedToWriteQueue,
       DrainWrite,
       GetBufferFromSortedToWriteQueue, WriteFile, NextWriteOrder,
       BeginEnding, CallTransportError, TransportErrorReturns, DisconnectNamedPipe,
       CallConnectionClosed, ConnectionClosedReturns
  <2>2. ~At(w, "ended")
    BY <1>1 DEF WorkerStep, CallbackReturns, GetQueuedCompletionStatus, ConnectAgain,
       SetupReadAhead, CallConnectionEstablished, ConnectionEstablishedReturns, ReadAgain, DrainRead,
       NothingToRead,
       AddBufferInSortedReadedQueue, CallEngineMessage, EngineMessageReturns, AddBufferInSortedToWriteQueue,
       DrainWrite,
       GetBufferFromSortedToWriteQueue, WriteFile, NextWriteOrder,
       BeginEnding, CallTransportError, TransportErrorReturns, DisconnectNamedPipe,
       CallConnectionClosed, ConnectionClosedReturns, At
  <2>3. QED
    BY <1>1, <2>1, <2>2 DEF FinInv
<1>2. ASSUME StartServer \/ Environment \/ SendMsg \/ Finalize \/ UNCHANGED vars
      PROVE  FinInv'
  BY <1>2 DEF FinInv, At, Finalize, FinalizeShutdown, FinalizeQuit, FinalizeJoin, StartServer,
     SendConnectPacket,
     cShutdownEvent, Environment, EngineConnects, EngineWrites, EngineLeaves, ReadCompletes, WriteCompletes,
     SendMsg,
     vars, pipeVars
<1>3. QED
  BY <1>1, <1>2 DEF Next

\* One worker has the new connection, and the callback is called once.
LEMMA ConnectStep ==
  ASSUME TypeOK, TypeOK', FreshInv, ConnectInv, [Next]_vars
  PROVE  ConnectInv'
<1> DEFINE S == {"ahead", "inEstablished"}
<1>0. DOMAIN iocp = 1..Len(iocp) /\ Len(iocp) \in Nat /\ DOMAIN iocp' = 1..Len(iocp') /\ Len(iocp') \in Nat
  BY LenProperties DEF TypeOK
<1>1. ASSUME NEW d \in 0..1, PortKeeps("connect", d)
      PROVE  /\ \A i \in DOMAIN iocp' : Connected(i)' => Connected(i + d)
             /\ \A i, j \in DOMAIN iocp' : Connected(i)' /\ Connected(j)' => i = j
  <2>1. \A i \in DOMAIN iocp' : Connected(i)' => Connected(i + d)
    BY <1>1 DEF PortKeeps, Connected, Plain
  <2>2. \A i, j \in DOMAIN iocp' : Connected(i)' /\ Connected(j)' => i + d = j + d
    BY <2>1 DEF ConnectInv, Connected
  <2>3. QED
    BY <1>0, <2>1, <2>2
<1>2. ASSUME NEW d \in 0..1, PortKeeps("connect", d), Stays(S), calls'.established = calls.established
      PROVE  ConnectInv'
  <2>1. \A i \in DOMAIN iocp' : Connected(i)' => \E j \in DOMAIN iocp : Connected(j)
    BY <1>1, <1>2 DEF Connected
  <2>2. \A v \in Workers : /\ At(v, "ahead")' => At(v, "ahead")
                           /\ At(v, "inEstablished")' => At(v, "inEstablished")
    BY <1>2 DEF Stays, At
  <2>3. QED
    BY <1>1, <1>2, <2>1, <2>2 DEF ConnectInv
<1>3. ASSUME NEW w \in Workers, WorkerStep(w) \/ CallbackReturns(w)
      PROVE  ConnectInv'
  <2>1. PICK d \in 0..1 : PortKeeps("connect", d)
    BY <1>3, WorkerPort
  <2>2. ASSUME NEW p, NEW k, NEW n, NEW r, Becomes(w, p, k, n, r), worker[w].pc \notin S, p \notin S,
               calls'.established = calls.established
        PROVE  ConnectInv'
    BY <1>2, <2>1, <2>2, BecomesStays
  <2>3. CASE GetQueuedCompletionStatus(w)
    <3>1. Taken /\ calls' = calls /\ At(w, "idle")
      BY <2>3, Takes DEF GetQueuedCompletionStatus, TypeOK
    <3>2. Becomes(w, Branch(Head(iocp)), Head(iocp), ReadAhead, IF Head(iocp).type = "connect" THEN "ok" ELSE Head(iocp).res)
      BY <2>3, Moves
    <3>3. CASE Connected(1)
      <4>1. \A i \in DOMAIN iocp' : ~Connected(i)'
        <5>1. \A i \in DOMAIN iocp' : Connected(i)' => Connected(i + 1) /\ i + 1 \in DOMAIN iocp /\ i + 1 # 1
          BY <1>0, <3>1, TakenKeeps, <1>1 DEF Connected
        <5>2. QED
          BY <3>3, <5>1 DEF ConnectInv, Connected
      <4>2. calls.established = 0 /\ \A v \in Workers : ~At(v, "ahead")
        BY <3>3 DEF ConnectInv, Connected
      <4>3. \A v \in Workers : /\ At(v, "ahead")' => v = w
                               /\ At(v, "inEstablished")' => At(v, "inEstablished")
        <5>1. Branch(Head(iocp)) # "inEstablished"
          BY <3>1, Branches DEF Taken
        <5>2. QED
          BY <3>2, <4>2, <5>1 DEF Becomes, At
      <4>4. QED
        BY <3>1, <4>1, <4>2, <4>3 DEF ConnectInv
    <3>4. CASE ~Connected(1)
      <4>1. Branch(Head(iocp)) \notin S
        BY <1>0, <3>1, <3>4, Branches DEF Taken, Connected
      <4>2. QED
        BY <2>2, <3>1, <3>2, <4>1 DEF At
    <3>5. QED
      BY <3>3, <3>4
  <2>4. CASE SetupReadAhead(w)
    <3>1. At(w, "ahead") /\ calls' = calls
      BY <2>4 DEF SetupReadAhead
    <3>2. \A v \in Workers : /\ At(v, "ahead")' => At(v, "ahead")
                             /\ At(v, "inEstablished")' => At(v, "inEstablished")
      <4>1. PICK p, k, n, r : p \in {"ahead", "ending"} /\ Becomes(w, p, k, n, r)
        BY <2>4, Moves
      <4>2. QED
        BY <3>1, <4>1 DEF Becomes, At
    <3>3. \A i \in DOMAIN iocp' : Connected(i)' => \E j \in DOMAIN iocp : Connected(j)
      BY <1>1, <2>1 DEF Connected
    <3>4. QED
      BY <1>1, <2>1, <3>1, <3>2, <3>3 DEF ConnectInv
  <2>5. CASE CallConnectionEstablished(w)
    <3>1. At(w, "ahead") /\ Goes(w, "inEstablished") /\ calls' = [calls EXCEPT !.established = @ + 1]
      BY <2>5, Moves DEF CallConnectionEstablished
    <3>2. calls.established = 0 /\ calls'.established = 1
      BY <3>1 DEF ConnectInv, TypeOK
    <3>3. \A i \in DOMAIN iocp' : ~Connected(i)'
      BY <1>1, <2>1, <3>1 DEF ConnectInv, Connected
    <3>4. \A v \in Workers : ~At(v, "ahead")' /\ (At(v, "inEstablished")' => v = w)
      BY <3>1, <3>2 DEF ConnectInv, Goes, Becomes, At
    <3>5. QED
      BY <3>2, <3>3, <3>4 DEF ConnectInv
  <2>6. CASE ConnectionEstablishedReturns(w)
    <3>1. At(w, "inEstablished") /\ Goes(w, "idle") /\ calls' = calls
      BY <2>6, Moves DEF ConnectionEstablishedReturns
    <3>2. \A v \in Workers : /\ At(v, "ahead")' => At(v, "ahead")
                             /\ At(v, "inEstablished")' => At(v, "inEstablished")
      BY <3>1 DEF Goes, Becomes, At
    <3>3. \A i \in DOMAIN iocp' : Connected(i)' => \E j \in DOMAIN iocp : Connected(j)
      BY <1>1, <2>1 DEF Connected
    <3>4. QED
      BY <1>1, <2>1, <3>1, <3>2, <3>3 DEF ConnectInv
  <2>7. CASE ~GetQueuedCompletionStatus(w) /\ ~SetupReadAhead(w) /\ ~CallConnectionEstablished(w)
             /\ ~ConnectionEstablishedReturns(w)
    <3>1. worker[w].pc \notin S
      BY <1>3, <2>7 DEF WorkerStep, CallbackReturns, ConnectAgain, ReadAgain, DrainRead, NothingToRead,
         AddBufferInSortedReadedQueue, CallEngineMessage, EngineMessageReturns, AddBufferInSortedToWriteQueue,
         DrainWrite,
         GetBufferFromSortedToWriteQueue, WriteFile, NextWriteOrder,
         BeginEnding, CallTransportError, TransportErrorReturns, DisconnectNamedPipe,
         CallConnectionClosed, ConnectionClosedReturns, At
    <3>2. calls'.established = calls.established
      BY <1>3, <2>7 DEF TypeOK, WorkerStep, CallbackReturns, ConnectAgain, ReadAgain, DrainRead, NothingToRead,
         AddBufferInSortedReadedQueue, CallEngineMessage, EngineMessageReturns, AddBufferInSortedToWriteQueue,
         DrainWrite,
         GetBufferFromSortedToWriteQueue, WriteFile, NextWriteOrder,
         BeginEnding, CallTransportError, TransportErrorReturns, DisconnectNamedPipe,
         CallConnectionClosed, ConnectionClosedReturns
    <3>3. \E p, k, n, r : p \in Pcs \ S /\ Becomes(w, p, k, n, r)
      <4>1. \/ AddBufferInSortedReadedQueue(w) \/ ReadAgain(w) \/ ConnectAgain(w)
            \/ DrainRead(w) \/ NothingToRead(w) \/ CallEngineMessage(w)
            => \E p, k, n, r : p \in Pcs \ S /\ Becomes(w, p, k, n, r)
        BY Moves DEF Goes, Pcs
      <4>2. AddBufferInSortedToWriteQueue(w) \/ DrainWrite(w) \/ NextWriteOrder(w) \/ EngineMessageReturns(w)
            => \E p, k, n, r : p \in Pcs \ S /\ Becomes(w, p, k, n, r)
        BY Moves DEF Goes, Pcs
      <4>3. \/ CallTransportError(w) \/ DisconnectNamedPipe(w) \/ CallConnectionClosed(w)
            \/ TransportErrorReturns(w) \/ ConnectionClosedReturns(w)
            => \E p, k, n, r : p \in Pcs \ S /\ Becomes(w, p, k, n, r)
        BY Moves DEF Goes, Pcs
      <4>4. GetBufferFromSortedToWriteQueue(w) \/ WriteFile(w) \/ BeginEnding(w)
            => \E p, k, n, r : p \in Pcs \ S /\ Becomes(w, p, k, n, r)
        BY WriteMoves DEF Goes, Pcs
      <4>5. QED
        BY <1>3, <2>7, <4>1, <4>2, <4>3, <4>4 DEF WorkerStep, CallbackReturns
    <3>4. QED
      BY <2>2, <3>1, <3>2, <3>3
  <2>8. QED
    BY <2>3, <2>4, <2>5, <2>6, <2>7
<1>4. ASSUME StartServer \/ Environment \/ SendMsg \/ Finalize \/ UNCHANGED vars
      PROVE  ConnectInv'
  <2>1. UNCHANGED <<worker, calls>>
    BY <1>4 DEF Finalize, FinalizeShutdown, FinalizeQuit, FinalizeJoin, StartServer,
       Environment, EngineConnects, EngineWrites, EngineLeaves, ReadCompletes, WriteCompletes, SendMsg, vars
  <2>2. CASE EngineConnects
    <3>1. /\ iocp = <<>> /\ iocp' = Append(iocp, Completion("connect", "ok")) /\ calls.established = 0
          /\ \A w \in Workers : At(w, "idle")
      BY <2>2 DEF EngineConnects, FreshInv
    <3>2. \A i \in DOMAIN iocp' : i = 1
      BY <3>1
    <3>3. QED
      BY <2>1, <3>1, <3>2 DEF ConnectInv, At
  <2>3. CASE ~EngineConnects
    <3>1. PICK d \in 0..1 : PortKeeps("connect", d)
      BY <1>4, <2>3, OthersPort
    <3>2. QED
      BY <1>2, <2>1, <3>1 DEF Stays
  <2>4. QED
    BY <2>2, <2>3
<1>5. QED
  BY <1>3, <1>4 DEF Next

\* The first worker that ends makes the last two calls, once each.
LEMMA EndStep ==
  ASSUME TypeOK, TypeOK', FreshInv, RetryInv, EndInv, [Next]_vars
  PROVE  EndInv'
<1> DEFINE S == Ending \cup {"ended"}
<1>0. calls \in [established : Nat, error : Nat, closed : Nat] /\ nThreadsEnding \in 0..1
  BY DEF TypeOK
<1>1. ASSUME Stays(S), nThreadsEnding' = nThreadsEnding, calls'.error = calls.error, calls'.closed = calls.closed,
             hPipe \in {"disconnected", "closed"} => hPipe' \in {"disconnected", "closed"}
      PROVE  EndInv'
  <2>1. \A v \in Workers : worker[v].pc \in S \/ worker'[v].pc \in S => worker'[v] = worker[v]
    BY <1>1 DEF Stays
  <2>2. QED
    BY <1>1, <2>1 DEF EndInv, At, Ending
<1>2. ASSUME NEW w \in Workers, WorkerStep(w) \/ CallbackReturns(w)
      PROVE  EndInv'
  <2>0. hPipe \in {"disconnected", "closed"} => hPipe' \in {"disconnected", "closed"}
    BY <1>2, WorkerPipe
  <2>1. ASSUME NEW p, NEW k, NEW n, NEW r, Becomes(w, p, k, n, r), worker[w].pc \notin S, p \notin S,
               nThreadsEnding' = nThreadsEnding, calls'.error = calls.error, calls'.closed = calls.closed
        PROVE  EndInv'
    BY <1>1, <2>0, <2>1, BecomesStays
  \* One of the places of an ending worker to the next one.
  <2>2. ASSUME NEW p \in Ending \cup {"ended"}, Goes(w, p), worker[w].pc \in Ending,
               nThreadsEnding' = nThreadsEnding,
               p = "ended" => calls'.closed > 0,
               calls'.error \in Nat /\ calls'.closed \in Nat,
               p = "error" => calls'.error = 0,
               p = "inError" => calls'.error = 1,
               p \in {"error", "inError", "disconnect", "close"} => calls'.closed = 0,
               p = "close" => hPipe' \in {"disconnected", "closed"},
               p = "inClosed" => calls'.closed = 1
        PROVE  EndInv'
    <3>1. nThreadsEnding = 1 /\ \A v \in Workers : worker[v].pc \in Ending => v = w
      BY <2>2 DEF EndInv
    <3>2. worker'[w].pc = p /\ \A v \in Workers : v # w => worker'[v] = worker[v]
      BY <2>2 DEF Goes, Becomes
    <3>3. \A v \in Workers : worker'[v].pc \in Ending => v = w
      BY <3>1, <3>2
    <3>4. p # "ended" => \E v \in Workers : worker'[v].pc \in Ending
      BY <3>2
    <3>5. QED
      BY <2>2, <3>1, <3>2, <3>3, <3>4 DEF EndInv, At, Ending
  <2>3. CASE BeginEnding(w)
    <3>1. worker[w].pc = "ending" /\ nThreadsEnding' = 1 /\ calls' = calls
      BY <2>3 DEF BeginEnding, At
    <3>2. CASE nThreadsEnding = 1
      <4>1. Goes(w, "ended")
        BY <2>3, <3>2, WriteMoves
      <4>2. \A v \in Workers : worker'[v].pc \in Ending <=> worker[v].pc \in Ending
        BY <3>1, <4>1 DEF Goes, Becomes, Ending
      <4>3. \A v \in Workers : v # w => worker'[v] = worker[v]
        BY <4>1 DEF Goes, Becomes
      <4>4. worker'[w].pc = "ended"
        BY <4>1 DEF Goes, Becomes
      <4>5. QED
        BY <2>0, <3>1, <3>2, <4>2, <4>3, <4>4 DEF EndInv, At, Ending
    <3>3. CASE nThreadsEnding = 0
      <4>1. PICK p \in {"error", "disconnect"} : Goes(w, p)
        BY <2>3, <3>3, WriteMoves
      <4>2. \A v \in Workers : worker[v].pc \notin S
        BY <3>3 DEF EndInv
      <4>3. worker'[w].pc = p /\ \A v \in Workers : v # w => worker'[v] = worker[v]
        BY <4>1 DEF Goes, Becomes
      <4>4. calls.error = 0 /\ calls.closed = 0
        BY <3>3 DEF EndInv
      <4>5. QED
        BY <3>1, <4>2, <4>3, <4>4 DEF EndInv, At, Ending
    <3>4. QED
      BY <1>0, <3>2, <3>3
  <2>4. CASE CallTransportError(w)
    <3>1. worker[w].pc = "error" /\ Goes(w, "inError") /\ nThreadsEnding' = nThreadsEnding
          /\ calls' = [calls EXCEPT !.error = @ + 1]
      BY <2>4, Moves DEF CallTransportError, At
    <3>2. calls.error = 0 /\ calls.closed = 0
      BY <3>1 DEF EndInv, At
    <3>3. QED
      BY <1>0, <2>2, <3>1, <3>2 DEF Ending
  <2>5. CASE TransportErrorReturns(w)
    <3>1. worker[w].pc = "inError" /\ Goes(w, "disconnect") /\ nThreadsEnding' = nThreadsEnding /\ calls' = calls
      BY <2>5, Moves DEF TransportErrorReturns, At
    <3>2. calls.closed = 0
      BY <3>1 DEF EndInv, At
    <3>3. QED
      BY <1>0, <2>2, <3>1, <3>2 DEF Ending
  <2>6. CASE DisconnectNamedPipe(w)
    <3>1. worker[w].pc = "disconnect" /\ Goes(w, "close") /\ nThreadsEnding' = nThreadsEnding /\ calls' = calls
          /\ hPipe' \in {"disconnected", "closed"}
      BY <2>6, Moves DEF DisconnectNamedPipe, At
    <3>2. calls.closed = 0
      BY <3>1 DEF EndInv, At
    <3>3. QED
      BY <1>0, <2>2, <3>1, <3>2 DEF Ending
  <2>7. CASE CallConnectionClosed(w)
    <3>1. worker[w].pc = "close" /\ Goes(w, "inClosed") /\ nThreadsEnding' = nThreadsEnding
          /\ calls' = [calls EXCEPT !.closed = @ + 1]
      BY <2>7, Moves DEF CallConnectionClosed, At
    <3>2. calls.closed = 0
      BY <3>1 DEF EndInv, At
    <3>3. QED
      BY <1>0, <2>2, <3>1, <3>2 DEF Ending
  <2>8. CASE ConnectionClosedReturns(w)
    <3>1. worker[w].pc = "inClosed" /\ Goes(w, "ended") /\ nThreadsEnding' = nThreadsEnding /\ calls' = calls
      BY <2>8, Moves DEF ConnectionClosedReturns, At
    <3>2. calls.closed = 1
      BY <3>1 DEF EndInv, At
    <3>3. QED
      BY <1>0, <2>2, <3>1, <3>2 DEF Ending
  <2>9. CASE ~BeginEnding(w) /\ ~CallTransportError(w) /\ ~TransportErrorReturns(w) /\ ~DisconnectNamedPipe(w)
             /\ ~CallConnectionClosed(w) /\ ~ConnectionClosedReturns(w)
    <3>1. worker[w].pc \notin S
      BY <1>2, <2>9 DEF WorkerStep, CallbackReturns, GetQueuedCompletionStatus, ConnectAgain, ReadAgain,
         DrainRead,
         NothingToRead, SetupReadAhead, CallConnectionEstablished, ConnectionEstablishedReturns,
         AddBufferInSortedReadedQueue, CallEngineMessage, EngineMessageReturns, AddBufferInSortedToWriteQueue,
         DrainWrite,
         GetBufferFromSortedToWriteQueue, WriteFile, NextWriteOrder, At, Ending
    <3>2. nThreadsEnding' = nThreadsEnding /\ calls'.error = calls.error /\ calls'.closed = calls.closed
      BY <1>0, <1>2, <2>9 DEF WorkerStep, CallbackReturns, GetQueuedCompletionStatus, ConnectAgain, ReadAgain,
         DrainRead,
         NothingToRead, SetupReadAhead, CallConnectionEstablished, ConnectionEstablishedReturns,
         AddBufferInSortedReadedQueue, CallEngineMessage, EngineMessageReturns, AddBufferInSortedToWriteQueue,
         DrainWrite,
         GetBufferFromSortedToWriteQueue, WriteFile, NextWriteOrder
    <3>3. \E p, k, n, r : p \in Pcs \ S /\ Becomes(w, p, k, n, r)
      <4>1. \/ AddBufferInSortedReadedQueue(w) \/ ReadAgain(w) \/ ConnectAgain(w) \/ SetupReadAhead(w)
            \/ CallConnectionEstablished(w) \/ ConnectionEstablishedReturns(w)
            => \E p, k, n, r : p \in Pcs \ S /\ Becomes(w, p, k, n, r)
        BY Moves DEF Goes, Pcs, Ending
      <4>2. DrainRead(w) \/ NothingToRead(w) \/ CallEngineMessage(w) \/ EngineMessageReturns(w)
            => \E p, k, n, r : p \in Pcs \ S /\ Becomes(w, p, k, n, r)
        BY Moves DEF Goes, Pcs, Ending
      <4>3. AddBufferInSortedToWriteQueue(w) \/ DrainWrite(w) \/ NextWriteOrder(w)
            => \E p, k, n, r : p \in Pcs \ S /\ Becomes(w, p, k, n, r)
        BY Moves DEF Goes, Pcs, Ending
      <4>4. GetBufferFromSortedToWriteQueue(w) \/ WriteFile(w)
            => \E p, k, n, r : p \in Pcs \ S /\ Becomes(w, p, k, n, r)
        BY WriteMoves DEF Goes, Pcs, Ending
      <4>5. GetQueuedCompletionStatus(w) => \E p, k, n, r : p \in Pcs \ S /\ Becomes(w, p, k, n, r)
        <5>1. GetQueuedCompletionStatus(w) => Head(iocp) \in Packet
          BY Takes DEF GetQueuedCompletionStatus, TypeOK, Taken
        <5>2. Head(iocp) \in Packet => Branch(Head(iocp)) \in Pcs \ S
          BY Branches DEF Pcs, Ending
        <5>3. QED
          BY <5>1, <5>2, Moves
      <4>6. QED
        BY <1>2, <2>9, <4>1, <4>2, <4>3, <4>4, <4>5 DEF WorkerStep, CallbackReturns
    <3>4. QED
      BY <2>1, <3>1, <3>2, <3>3
  <2>10. QED
    BY <2>3, <2>4, <2>5, <2>6, <2>7, <2>8, <2>9
<1>3. ASSUME StartServer \/ Environment \/ SendMsg \/ Finalize \/ UNCHANGED vars
      PROVE  EndInv'
  <2>1. UNCHANGED <<worker, calls, nThreadsEnding>>
    BY <1>3 DEF Finalize, FinalizeShutdown, FinalizeQuit, FinalizeJoin, StartServer,
       Environment, EngineConnects, EngineWrites, EngineLeaves, ReadCompletes, WriteCompletes, SendMsg, vars
  <2>2. ASSUME hPipe \in {"disconnected", "closed"}
        PROVE  hPipe' \in {"disconnected", "closed"}
    BY <1>3, <2>2 DEF Finalize, FinalizeShutdown, FinalizeQuit, FinalizeJoin, StartServer,
       Environment, EngineConnects, EngineWrites, EngineLeaves, ReadCompletes, WriteCompletes, SendMsg, vars,
       pipeVars
  <2>3. QED
    BY <1>1, <2>1, <2>2 DEF Stays
<1>4. QED
  BY <1>2, <1>3 DEF Next

\* Every step keeps what is said of the life of the connection.
LEMMA LifeStep ==
  ASSUME TypeOK, TypeOK', LifeInv, [Next]_vars
  PROVE  LifeInv'
BY ResultStep, FreshStep, RetryStep, ConnectStep, EndStep, FinStep DEF LifeInv

----------------------------------------------------------------------------
(* The invariant *)

\* The invariant holds after Initialize,
LEMMA InitIInv == Init => IInv
<1> SUFFICES ASSUME Init PROVE IInv
  OBVIOUS
<1>1. Packet0 \in Packet
  BY CompletionTyped DEF Result, Packet0
<1>2. TypeOK
  BY <1>1, FS_EmptySet DEF Init, TypeOK, Pcs, Result
<1>3. LifeInv
  BY DEF Init, LifeInv, ResultInv, FreshInv, RetryInv, ConnectInv, EndInv, FinInv, Working, Ending, At,
     Retried, Connected
<1>4. ReadInv
  BY DEF Init, ReadInv, DueInv, OnePlace, HandlingInv, Arrived, InHand, Handling, At
<1>5. DeliverInv
  <2>1. \A o \in {0} : AllPended(o)
    BY DEF Init, AllPended
  <2>2. QED
    BY <2>1 DEF Init, DeliverInv, MessageInv, HandledInv, Arrived, InHand, Handling, At
<1>6. WriteInv
  BY DEF Init, WriteInv, ToWriteInv, OneRequest, WritingInv, WireInv, WireInOrder, LostInv, AllWritten,
     Requested, Bringing, Writing, At
<1>7. QED
  BY <1>2, <1>3, <1>4, <1>5, <1>6 DEF IInv

\* and every step keeps it.
LEMMA NextIInv == IInv /\ [Next]_vars => IInv'
BY TypeStep, LifeStep, ReadStep, WriteStep DEF IInv

\* The strengthening is inductive.
THEOREM Inductive == Spec => []IInv
BY InitIInv, NextIInv, PTL DEF Spec

\* Every variable keeps its type: the numbers, the queues and the places of the workers.
THEOREM TypeCorrect == Spec => []TypeOK
<1>1. IInv => TypeOK
  BY DEF IInv
<1>2. QED
  BY Inductive, <1>1, PTL

\* Messages reach the wire in the order of SendMsg: WorkerThreadProc drains the
\* queue without a lock, and still one worker at a time writes the next order.
THEOREM WritesInOrder == Spec => []WireInOrder
<1>1. IInv => WireInOrder
  BY DEF IInv, WriteInv
<1>2. QED
  BY Inductive, <1>1, PTL

\* A message whose write failed ends the connection: none that follows it is
\* on the wire before a worker is on its way to close the pipe.
THEOREM LostMessageEnds == Spec => []LostWriteEnds
<1>1. IInv => LostWriteEnds
  <2>1. ASSUME AllWritten, TypeOK
        PROVE  \A i \in DOMAIN wire : wire[i] = i
    BY <2>1, LenProperties DEF AllWritten, TypeOK
  <2>2. QED
    BY <2>1 DEF IInv, WriteInv, LostInv, Lost, LostWriteEnds
<1>2. QED
  BY Inductive, <1>1, PTL

----------------------------------------------------------------------------
(* The transport is a channel, and delivers in order *)

Callbacks == {"inEstablished", "inMessage", "inError", "inClosed"}
channel == <<Link, Established, Error, Closed, InMessage, Finalizing>>

\* A worker that is in no callback before or after changes none.
LEMMA OthersCallback ==
  ASSUME NEW w \in Workers, NEW q, NEW k, NEW n, NEW r, Becomes(w, q, k, n, r), NEW p, worker[w].pc # p, q # p
  PROVE  (\E v \in Workers : worker'[v].pc = p) <=> (\E v \in Workers : worker[v].pc = p)
BY DEF Becomes

\* The channel changes only with the callbacks, the pipe and Finalize.
LEMMA ChannelStays ==
  ASSUME Stays(Callbacks), UNCHANGED <<calls, Link, Finalizing>>
  PROVE  UNCHANGED channel
<1>1. \A p \in Callbacks, v \in Workers : At(v, p)' <=> At(v, p)
  BY DEF Stays, At
<1>2. \A p \in Callbacks : InCallback(p)' <=> InCallback(p)
  BY <1>1 DEF InCallback
<1>3. UNCHANGED <<Established, Error, Closed>>
  BY <1>2 DEF Established, Error, Closed, Stage, Callbacks
<1>4. UNCHANGED InMessage
  BY <1>2 DEF InMessage, InCallback, Callbacks
<1>5. QED
  BY <1>3, <1>4 DEF channel

\* What the callbacks and the channel are for a worker at one of them.
LEMMA Stages ==
  ASSUME IInv
  PROVE  /\ \A w \in Workers :
              /\ At(w, "ahead") => Established = "no"
              /\ At(w, "inEstablished") => Established = "in"
              /\ At(w, "inMessage") => InMessage = TRUE
              /\ At(w, "error") => Error = "no" /\ Closed = "no"
              /\ At(w, "inError") => Error = "in"
              /\ At(w, "close") => Error # "in" /\ Closed = "no" /\ Link = "down"
              /\ At(w, "inClosed") => Closed = "in"
              /\ ~At(w, "ended") => Finalizing # "done"
         /\ (\A w \in Workers : At(w, "ended")) =>
              Closed = "done" /\ Established # "in" /\ Error # "in" /\ InMessage = FALSE
<1>1. ASSUME NEW w \in Workers
      PROVE  /\ At(w, "ahead") => Established = "no"
             /\ At(w, "inEstablished") => Established = "in"
             /\ At(w, "inMessage") => InMessage = TRUE
             /\ At(w, "inError") => Error = "in"
             /\ At(w, "inClosed") => Closed = "in"
             /\ ~At(w, "ended") => Finalizing # "done"
  <2>1. At(w, "ahead") => Established = "no"
    BY DEF IInv, LifeInv, ConnectInv, Established, Stage, InCallback
  <2>2. /\ At(w, "inEstablished") => Established = "in"
        /\ At(w, "inMessage") => InMessage = TRUE
        /\ At(w, "inError") => Error = "in"
        /\ At(w, "inClosed") => Closed = "in"
    BY DEF Established, InMessage, Error, Closed, Stage, InCallback
  <2>3. ~At(w, "ended") => Finalizing # "done"
    BY DEF IInv, LifeInv, FinInv, Finalizing
  <2>4. QED
    BY <2>1, <2>2, <2>3
<1>2. ASSUME NEW w \in Workers
      PROVE  /\ At(w, "error") => Error = "no" /\ Closed = "no"
             /\ At(w, "close") => Error # "in" /\ Closed = "no" /\ Link = "down"
  <2>1. At(w, "error") \/ At(w, "close") => \A v \in Workers : ~At(v, "inError") /\ ~At(v, "inClosed")
    BY DEF IInv, LifeInv, EndInv, Ending, At
  <2>2. /\ At(w, "error") => calls.error = 0 /\ calls.closed = 0
        /\ At(w, "close") => calls.closed = 0 /\ hPipe \in {"disconnected", "closed"}
    BY DEF IInv, LifeInv, EndInv, At
  <2>3. QED
    BY <2>1, <2>2 DEF Error, Closed, Stage, InCallback, Link
<1>3. ASSUME \A w \in Workers : At(w, "ended")
      PROVE  Closed = "done" /\ Established # "in" /\ Error # "in" /\ InMessage = FALSE
  <2>1. \A p \in Callbacks : ~InCallback(p)
    BY <1>3 DEF InCallback, At, Callbacks
  <2>2. PICK w \in Workers : TRUE
    BY ConstantsAssumption
  <2>3. calls.closed > 0
    BY <1>3, <2>2 DEF IInv, LifeInv, EndInv, Ending, At
  <2>4. QED
    BY <2>1, <2>3 DEF Closed, Established, Error, InMessage, Stage, Callbacks
<1>4. QED
  BY <1>1, <1>2, <1>3

\* The begin or the end of one callback leaves the others as they are.
LEMMA OneCallback ==
  ASSUME NEW w \in Workers, NEW q, Goes(w, q)
  PROVE  /\ worker[w].pc # "inEstablished" /\ q # "inEstablished" /\ calls'.established = calls.established
              => Established' = Established
         /\ worker[w].pc # "inError" /\ q # "inError" /\ calls'.error = calls.error => Error' = Error
         /\ worker[w].pc # "inClosed" /\ q # "inClosed" /\ calls'.closed = calls.closed => Closed' = Closed
         /\ worker[w].pc # "inMessage" /\ q # "inMessage" => InMessage' = InMessage
<1>1. \A p : worker[w].pc # p /\ q # p =>
        ((\E v \in Workers : worker'[v].pc = p) <=> (\E v \in Workers : worker[v].pc = p))
  BY OthersCallback DEF Goes
<1>2. /\ worker[w].pc # "inEstablished" /\ q # "inEstablished" /\ calls'.established = calls.established
           => Established' = Established
      /\ worker[w].pc # "inError" /\ q # "inError" /\ calls'.error = calls.error => Error' = Error
      /\ worker[w].pc # "inClosed" /\ q # "inClosed" /\ calls'.closed = calls.closed => Closed' = Closed
  BY <1>1 DEF Established, Error, Closed, Stage, InCallback, At
<1>3. worker[w].pc # "inMessage" /\ q # "inMessage" => InMessage' = InMessage
  BY <1>1 DEF InMessage, InCallback, At
<1>4. QED
  BY <1>2, <1>3

\* What the workers do between the callbacks, the channel does not see.
LEMMA BetweenCallbacks ==
  ASSUME IInv, NEW w \in Workers,
         \/ GetQueuedCompletionStatus(w) \/ ConnectAgain(w) \/ SetupReadAhead(w)
         \/ AddBufferInSortedReadedQueue(w) \/ ReadAgain(w) \/ DrainRead(w) \/ NothingToRead(w)
         \/ AddBufferInSortedToWriteQueue(w) \/ DrainWrite(w) \/ GetBufferFromSortedToWriteQueue(w)
         \/ WriteFile(w) \/ NextWriteOrder(w) \/ BeginEnding(w)
  PROVE  UNCHANGED channel
<1>0. TypeOK /\ FreshInv /\ RetryInv
  BY DEF IInv, LifeInv
<1>1. UNCHANGED <<calls, fin>> /\ worker[w].pc \notin Callbacks
  BY DEF GetQueuedCompletionStatus, ConnectAgain, SetupReadAhead, AddBufferInSortedReadedQueue, ReadAgain,
     DrainRead,
     NothingToRead, AddBufferInSortedToWriteQueue, DrainWrite, GetBufferFromSortedToWriteQueue, WriteFile,
     NextWriteOrder, BeginEnding, At, Callbacks
<1>2. hPipe' = hPipe
  <2>1. ConnectAgain(w) => hPipe' = hPipe
    BY <1>0 DEF ConnectAgain, SendConnectPacket, RetryInv
  <2>2. QED
    BY <2>1 DEF GetQueuedCompletionStatus, SetupReadAhead, AddBufferInSortedReadedQueue, ReadAgain, DrainRead,
       NothingToRead, AddBufferInSortedToWriteQueue, DrainWrite, GetBufferFromSortedToWriteQueue, WriteFile,
       NextWriteOrder, BeginEnding, pipeVars
<1>3. UNCHANGED <<Link, Finalizing>>
  BY <1>1, <1>2 DEF Link, Finalizing
<1>4. PICK p, k, n, r : p \in Pcs \ Callbacks /\ Becomes(w, p, k, n, r)
  <2>1. \/ AddBufferInSortedReadedQueue(w) \/ ReadAgain(w) \/ ConnectAgain(w) \/ SetupReadAhead(w)
        \/ DrainRead(w) \/ NothingToRead(w)
        => \E p, k, n, r : p \in Pcs \ Callbacks /\ Becomes(w, p, k, n, r)
    BY <1>0, Moves DEF Goes, Pcs, Callbacks
  <2>2. AddBufferInSortedToWriteQueue(w) \/ DrainWrite(w) \/ NextWriteOrder(w)
        => \E p, k, n, r : p \in Pcs \ Callbacks /\ Becomes(w, p, k, n, r)
    BY <1>0, Moves DEF Goes, Pcs, Callbacks
  <2>3. GetBufferFromSortedToWriteQueue(w) \/ WriteFile(w) \/ BeginEnding(w)
        => \E p, k, n, r : p \in Pcs \ Callbacks /\ Becomes(w, p, k, n, r)
    BY <1>0, WriteMoves DEF Goes, Pcs, Callbacks
  <2>4. GetQueuedCompletionStatus(w) => \E p, k, n, r : p \in Pcs \ Callbacks /\ Becomes(w, p, k, n, r)
    <3>1. GetQueuedCompletionStatus(w) => Head(iocp) \in Packet
      BY <1>0, Takes DEF GetQueuedCompletionStatus, TypeOK, Taken
    <3>2. Head(iocp) \in Packet => Branch(Head(iocp)) \in Pcs \ Callbacks
      BY Branches DEF Pcs, Callbacks
    <3>3. QED
      BY <1>0, <3>1, <3>2, Moves
  <2>5. QED
    BY <2>1, <2>2, <2>3, <2>4
<1>5. Stays(Callbacks)
  BY <1>1, <1>4, BecomesStays
<1>6. QED
  BY <1>1, <1>3, <1>5, ChannelStays

\* Every step of a worker is one of the channel, or none.
LEMMA WorkerChannel ==
  ASSUME IInv, IInv', NEW w \in Workers, WorkerStep(w) \/ CallbackReturns(w)
  PROVE  Channel!Next \/ UNCHANGED channel
<1>0. TypeOK /\ TypeOK' /\ FreshInv /\ RetryInv /\ ReadInv /\ DeliverInv
  BY DEF IInv, LifeInv
<1>1. Link # "none"
  BY <1>0, WorkersLater DEF Link
<1>c. calls \in [established : Nat, error : Nat, closed : Nat]
  BY <1>0 DEF TypeOK
<1>2. CASE CallConnectionEstablished(w)
  <2>1. /\ At(w, "ahead") /\ Goes(w, "inEstablished") /\ UNCHANGED <<Link, Finalizing>>
        /\ calls'.error = calls.error /\ calls'.closed = calls.closed
    BY <1>0, <1>c, <1>2, Moves DEF CallConnectionEstablished, pipeVars, Link, Finalizing
  <2>2. Established = "no" /\ Finalizing # "done" /\ Established' = "in"
    <3>1. At(w, "inEstablished")'
      BY <2>1 DEF Goes, Becomes, At
    <3>2. QED
      BY <2>1, <3>1, Stages DEF At, Established, Stage, InCallback
  <2>3. UNCHANGED <<Error, Closed, InMessage>>
    BY <2>1, OneCallback DEF At
  <2>4. QED
    BY <1>1, <2>1, <2>2, <2>3 DEF Channel!Next, Channel!CallEstablished
<1>3. CASE ConnectionEstablishedReturns(w)
  <2>1. At(w, "inEstablished") /\ Goes(w, "idle") /\ UNCHANGED <<Link, Finalizing, calls>>
    BY <1>0, <1>3, Moves DEF ConnectionEstablishedReturns, pipeVars, Link, Finalizing
  <2>2. Established = "in" /\ Established' = "done"
    <3>1. calls.established = 1 /\ \A v \in Workers : At(v, "inEstablished") => v = w
      BY <2>1 DEF IInv, LifeInv, ConnectInv
    <3>2. ~\E v \in Workers : worker'[v].pc = "inEstablished"
      BY <2>1, <3>1 DEF Goes, Becomes, At
    <3>3. QED
      BY <2>1, <3>1, <3>2, Stages DEF Established, Stage, InCallback, At
  <2>3. UNCHANGED <<Error, Closed, InMessage>>
    BY <2>1, OneCallback DEF At
  <2>4. QED
    BY <2>1, <2>2, <2>3 DEF Channel!Next, Channel!EstablishedReturns
<1>4. CASE CallEngineMessage(w)
  <2>1. At(w, "get") /\ Goes(w, "inMessage") /\ UNCHANGED <<Link, Finalizing, calls>>
    BY <1>0, <1>4, Moves DEF CallEngineMessage, pipeVars, Link, Finalizing
  <2>2. InMessage = FALSE /\ Finalizing # "done" /\ InMessage' = TRUE
    <3>1. \A v \in Workers : ~Handling(v)
      BY <1>0, <1>4, Handles
    <3>2. At(w, "inMessage")'
      BY <2>1 DEF Goes, Becomes, At
    <3>3. InMessage = FALSE /\ InMessage' = TRUE
      BY <3>1, <3>2 DEF Handling, InMessage, InCallback
    <3>4. QED
      BY <2>1, <3>3, Stages DEF At
  <2>3. UNCHANGED <<Established, Error, Closed>>
    BY <2>1, OneCallback DEF At
  <2>4. QED
    BY <1>1, <2>1, <2>2, <2>3 DEF Channel!Next, Channel!CallMessage
<1>5. CASE EngineMessageReturns(w)
  <2>1. PICK p, r : p \in {"drain", "ending"} /\ Becomes(w, p, worker[w].pkt, worker[w].n, r)
    BY <1>0, <1>5, Moves
  <2>2. At(w, "inMessage") /\ UNCHANGED <<Link, Finalizing, calls>>
    BY <1>5 DEF EngineMessageReturns, pipeVars, Link, Finalizing
  <2>3. InMessage = TRUE /\ InMessage' = FALSE
    <3>1. \A v \in Workers : Handling(v) => v = w
      BY <1>0, <1>5, HandledNext
    <3>2. \A v \in Workers : ~At(v, "inMessage")'
      BY <2>1, <3>1 DEF Becomes, At, Handling
    <3>3. QED
      BY <2>2, <3>2 DEF InMessage, InCallback
  <2>4. UNCHANGED <<Established, Error, Closed>>
    <3>1. \A q \in Callbacks \ {"inMessage"} :
            (\E v \in Workers : worker'[v].pc = q) <=> (\E v \in Workers : worker[v].pc = q)
      BY <2>1, <2>2, OthersCallback DEF At, Callbacks
    <3>2. QED
      BY <2>2, <3>1 DEF Established, Error, Closed, Stage, InCallback, At, Callbacks
  <2>5. QED
    BY <2>2, <2>3, <2>4 DEF Channel!Next, Channel!MessageReturns
<1>6. CASE CallTransportError(w)
  <2>1. /\ At(w, "error") /\ Goes(w, "inError") /\ UNCHANGED <<Link, Finalizing>>
        /\ calls'.established = calls.established /\ calls'.closed = calls.closed
    BY <1>0, <1>c, <1>6, Moves DEF CallTransportError, pipeVars, Link, Finalizing
  <2>2. Error = "no" /\ Closed = "no" /\ Finalizing # "done" /\ Error' = "in"
    <3>1. At(w, "inError")'
      BY <2>1 DEF Goes, Becomes, At
    <3>2. QED
      BY <2>1, <3>1, Stages DEF At, Error, Stage, InCallback
  <2>3. UNCHANGED <<Established, Closed, InMessage>>
    BY <2>1, OneCallback DEF At
  <2>4. QED
    BY <1>1, <2>1, <2>2, <2>3 DEF Channel!Next, Channel!CallError
<1>7. CASE TransportErrorReturns(w)
  <2>1. At(w, "inError") /\ Goes(w, "disconnect") /\ UNCHANGED <<Link, Finalizing, calls>>
    BY <1>0, <1>7, Moves DEF TransportErrorReturns, pipeVars, Link, Finalizing
  <2>2. Error = "in" /\ Error' = "done"
    <3>1. calls.error = 1 /\ \A v \in Workers : At(v, "inError") => v = w
      BY <2>1 DEF IInv, LifeInv, EndInv, Ending, At
    <3>2. ~\E v \in Workers : worker'[v].pc = "inError"
      BY <2>1, <3>1 DEF Goes, Becomes, At
    <3>3. QED
      BY <2>1, <3>1, <3>2, Stages DEF Error, Stage, InCallback, At
  <2>3. UNCHANGED <<Established, Closed, InMessage>>
    BY <2>1, OneCallback DEF At
  <2>4. QED
    BY <2>1, <2>2, <2>3 DEF Channel!Next, Channel!ErrorReturns
<1>8. CASE DisconnectNamedPipe(w)
  <2>1. At(w, "disconnect") /\ Goes(w, "close") /\ UNCHANGED <<Finalizing, calls>> /\ Link' = "down"
    BY <1>0, <1>8, Moves DEF DisconnectNamedPipe, Finalizing, Link
  <2>2. UNCHANGED <<Established, Error, Closed, InMessage>>
    BY <2>1, OneCallback DEF At
  <2>3. Link \in {"up", "down"}
    BY <1>1 DEF Link
  <2>4. QED
    BY <2>1, <2>2, <2>3 DEF Channel!Next, Channel!Break, channel
<1>9. CASE CallConnectionClosed(w)
  <2>1. /\ At(w, "close") /\ Goes(w, "inClosed") /\ UNCHANGED <<Link, Finalizing>>
        /\ calls'.established = calls.established /\ calls'.error = calls.error
    BY <1>0, <1>c, <1>9, Moves DEF CallConnectionClosed, pipeVars, Link, Finalizing
  <2>2. Link = "down" /\ Closed = "no" /\ Error # "in" /\ Finalizing # "done" /\ Closed' = "in"
    <3>1. At(w, "inClosed")'
      BY <2>1 DEF Goes, Becomes, At
    <3>2. QED
      BY <2>1, <3>1, Stages DEF At, Closed, Stage, InCallback
  <2>3. UNCHANGED <<Established, Error, InMessage>>
    BY <2>1, OneCallback DEF At
  <2>4. QED
    BY <2>1, <2>2, <2>3 DEF Channel!Next, Channel!CallClosed
<1>10. CASE ConnectionClosedReturns(w)
  <2>1. At(w, "inClosed") /\ Goes(w, "ended") /\ UNCHANGED <<Link, Finalizing, calls>>
    BY <1>0, <1>10, Moves DEF ConnectionClosedReturns, pipeVars, Link, Finalizing
  <2>2. Closed = "in" /\ Closed' = "done"
    <3>1. calls.closed = 1 /\ \A v \in Workers : At(v, "inClosed") => v = w
      BY <2>1 DEF IInv, LifeInv, EndInv, Ending, At
    <3>2. ~\E v \in Workers : worker'[v].pc = "inClosed"
      BY <2>1, <3>1 DEF Goes, Becomes, At
    <3>3. QED
      BY <2>1, <3>1, <3>2, Stages DEF Closed, Stage, InCallback, At
  <2>3. UNCHANGED <<Established, Error, InMessage>>
    BY <2>1, OneCallback DEF At
  <2>4. QED
    BY <2>1, <2>2, <2>3 DEF Channel!Next, Channel!ClosedReturns
<1>11. QED
  BY <1>2, <1>3, <1>4, <1>5, <1>6, <1>7, <1>8, <1>9, <1>10, BetweenCallbacks DEF WorkerStep, CallbackReturns

\* So is every step of the others.
LEMMA OthersChannel ==
  ASSUME IInv, StartServer \/ Environment \/ SendMsg \/ Finalize \/ UNCHANGED vars
  PROVE  Channel!Next \/ UNCHANGED channel
<1>1. UNCHANGED <<worker, calls>>
  BY DEF Finalize, FinalizeShutdown, FinalizeQuit, FinalizeJoin, StartServer,
     Environment, EngineConnects, EngineWrites, EngineLeaves, ReadCompletes, WriteCompletes, SendMsg, vars
<1>2. UNCHANGED <<Established, Error, Closed, InMessage>>
  BY <1>1 DEF Established, Error, Closed, InMessage, Stage, InCallback, At
<1>3. CASE EngineConnects
  <2>1. Link = "none" /\ Link' = "up" /\ UNCHANGED Finalizing /\ Finalizing = "no"
    BY <1>3 DEF EngineConnects, Link, Finalizing, IInv, LifeInv, FreshInv
  <2>2. QED
    BY <1>2, <2>1 DEF Channel!Next, Channel!Connect
<1>4. CASE EngineLeaves
  <2>1. Link = "up" /\ Link' = "down" /\ UNCHANGED Finalizing
    BY <1>4 DEF EngineLeaves, Link, Finalizing
  <2>2. QED
    BY <1>2, <2>1 DEF Channel!Next, Channel!Break
<1>5. CASE FinalizeShutdown
  <2>1. Finalizing = "no" /\ Finalizing' = "asked" /\ Link' = "down"
    BY <1>5 DEF FinalizeShutdown, Link, Finalizing
  <2>2. QED
    BY <1>2, <2>1 DEF Channel!Next, Channel!FinalizeBegins
<1>6. CASE FinalizeJoin
  <2>1. Finalizing = "asked" /\ Finalizing' = "done" /\ UNCHANGED Link
    BY <1>6 DEF FinalizeJoin, Link, Finalizing, pipeVars
  <2>2. Closed = "done" /\ Established # "in" /\ Error # "in" /\ InMessage = FALSE
    BY <1>6, Stages DEF FinalizeJoin
  <2>3. QED
    BY <1>2, <2>1, <2>2 DEF Channel!Next, Channel!FinalizeReturns
<1>7. CASE StartServer \/ EngineWrites \/ ReadCompletes \/ WriteCompletes \/ SendMsg \/ FinalizeQuit \/ UNCHANGED vars
  <2>1. UNCHANGED <<Link, Finalizing>>
    BY <1>7 DEF StartServer, SendConnectPacket, EngineWrites, ReadCompletes, WriteCompletes, SendMsg,
       FinalizeQuit, vars,
       pipeVars, Link, Finalizing
  <2>2. QED
    BY <1>2, <2>1 DEF channel
<1>8. QED
  BY <1>3, <1>4, <1>5, <1>6, <1>7 DEF Environment, Finalize

\* The history of the messages: the engine writes, and the manager gets the next one.
LEMMA DeliveryStep ==
  ASSUME IInv, IInv', [Next]_vars
  PROVE  Delivery!Write \/ Delivery!Deliver \/ UNCHANGED <<sent, handled>>
<1>1. ASSUME NEW w \in Workers, CallEngineMessage(w)
      PROVE  Delivery!Deliver
  <2>1. handled' = Append(handled, Len(handled) + 1) /\ Len(handled) < sent
    BY <1>1, Handles DEF IInv
  <2>2. sent' = sent
    BY <1>1 DEF CallEngineMessage, pipeVars
  <2>3. QED
    BY <2>1, <2>2 DEF Delivery!Deliver
<1>2. ASSUME NEW w \in Workers, WorkerStep(w) \/ CallbackReturns(w), ~CallEngineMessage(w)
      PROVE  UNCHANGED <<sent, handled>>
  BY <1>2 DEF WorkerStep, CallbackReturns, GetQueuedCompletionStatus, ConnectAgain,
     SetupReadAhead, CallConnectionEstablished, ConnectionEstablishedReturns, ReadAgain, DrainRead,
     NothingToRead,
     AddBufferInSortedReadedQueue, EngineMessageReturns, AddBufferInSortedToWriteQueue, DrainWrite,
     GetBufferFromSortedToWriteQueue, WriteFile, NextWriteOrder,
     BeginEnding, CallTransportError, TransportErrorReturns, DisconnectNamedPipe,
     CallConnectionClosed, ConnectionClosedReturns, pipeVars
<1>3. EngineWrites => Delivery!Write
  BY DEF EngineWrites, Delivery!Write
<1>4. StartServer \/ EngineConnects \/ EngineLeaves \/ ReadCompletes \/ WriteCompletes \/ SendMsg \/ Finalize
      \/ UNCHANGED vars => UNCHANGED <<sent, handled>>
  BY DEF StartServer, EngineConnects, EngineLeaves, ReadCompletes, WriteCompletes, SendMsg, Finalize,
     FinalizeShutdown,
     FinalizeQuit, FinalizeJoin, vars, pipeVars
<1>5. QED
  BY <1>1, <1>2, <1>3, <1>4 DEF Next, Environment

\* The manager is called as AgentChannel says, and gets the messages of the
\* engine in the order in which they were written: the contract AgentMgr is built on.
THEOREM AgentImplementsChannel == Spec => ImplementsChannel
<1>1. Init => Channel!Init /\ Delivery!Init
  <2>1. Init => Channel!Init
    BY DEF Init, Channel!Init, Link, Established, Error, Closed, InMessage, Finalizing, Stage, InCallback, At
  <2>2. Init => Delivery!Init
    BY DEF Init, Delivery!Init
  <2>3. QED
    BY <2>1, <2>2
<1>2. IInv /\ IInv' /\ [Next]_vars => [Channel!Next]_(Channel!channelVars)
  <2>1. IInv /\ IInv' /\ [Next]_vars => Channel!Next \/ UNCHANGED channel
    BY WorkerChannel, OthersChannel DEF Next
  <2>2. QED
    BY <2>1 DEF channel, Channel!channelVars
<1>3. IInv /\ IInv' /\ [Next]_vars => [Delivery!Write \/ Delivery!Deliver]_<<sent, handled>>
  BY DeliveryStep
<1>4. QED
  BY Inductive, <1>1, <1>2, <1>3, PTL DEF Spec, ImplementsChannel, Channel!Spec, Delivery!Spec
=============================================================================
