------------------------ MODULE TransportWrite_proofs ------------------------
(***************************************************************************)
(* For any finite sets of client threads and workers and any number of     *)
(* parts: every invariant that the runs check of TransportWrite.           *)
(***************************************************************************)
EXTENDS TransportWrite, FiniteSetTheorems, SequenceTheorems, TLAPS

(* Types, and where a sender stands in its calls *)

Packet == [kind : {"request", "written"}, ok : BOOLEAN, buf : Buffer]
SenderRec == [pc : {"start", "check", "order", "post", "addref", "send", "sendAddref", "done"},
              part : 1..Chunks + 2, order : Nat]
WorkerRec == [pc : {"idle", "request", "drain", "error", "end"}, buf : Buffer \cup {NoBuffer}]
Threads == Closers \cup Workers
CloserPcs == {"none", "shutdown", "discard", "release", "leave", "done"}

TypeInv ==
  /\ nState \in {"connected", "destroying"} /\ initialRef \in BOOLEAN
  /\ connLock \in Workers \cup {NoThread}
  /\ nNextWriteOrder \in Nat /\ nNextWriteOrderToProcess \in Nat
  /\ iocp \in Seq(Packet)
  /\ toWriteQueue \subseteq Buffer /\ IsFiniteSet(toWriteQueue)
  /\ writing \in Seq(Buffer) /\ discarded \subseteq Nat
  /\ nInUseMessageCount \in Int /\ nRefCount \in Int
  /\ shuttingDown \in BOOLEAN /\ lost \in BOOLEAN
  /\ sender \in [Senders -> SenderRec]
  /\ worker \in [Workers -> WorkerRec]
  /\ closer \in [Threads -> CloserPcs]
  /\ wire \in Seq(Buffer)

PlaceInv ==
  /\ \A s \in Senders :
       /\ sender[s].pc \in {"check", "order", "post", "addref"} => sender[s].part <= Chunks
       /\ sender[s].pc \in {"send", "sendAddref"} => sender[s].part = Chunks + 1
       /\ SAt(s, "start") => sender[s].part <= Chunks + 1
       /\ sender[s].pc = "post" => BufferOf(s) \in Buffer
  /\ \A w \in Workers : worker[w].pc = "request" => worker[w].buf \in Buffer

(* The counts *)

Requesting == {w \in Workers : worker[w].pc = "request"}
Posting == {s \in Senders : sender[s].pc = "post"}
Busy == {w \in Workers : worker[w].pc # "idle"}
Calling == {s \in Senders : sender[s].pc \notin {"start", "done", "addref", "sendAddref"}}
Leaving == {t \in Threads : closer[t] \notin {"none", "done"}}

\* Only the thread that shut the connection down gives its first reference up.
ReleaseInv ==
  /\ nState = "connected" => initialRef
  /\ \A t \in Threads : closer[t] \in {"discard", "release"} =>
       /\ initialRef /\ nState = "destroying"
       /\ \A u \in Threads : closer[u] \in {"discard", "release"} => u = t

CountInv == InUseExact /\ RefCountExact

(* The requests and their orders *)

InPost(s) == s \in Senders /\ SAt(s, "post")
InPort(i) == i \in DOMAIN iocp /\ iocp[i].kind = "request"
InHand(w) == w \in Workers /\ worker[w].pc = "request"

Due(o) == nNextWriteOrderToProcess <= o /\ o <= nNextWriteOrder

DueInv ==
  /\ nNextWriteOrderToProcess <= nNextWriteOrder + 1
  /\ \A s \in Senders : InPost(s) => Due(sender[s].order)
  /\ \A i \in DOMAIN iocp : InPort(i) => Due(iocp[i].buf.order)
  /\ \A w \in Workers : InHand(w) => Due(worker[w].buf.order)
  /\ \A b \in toWriteQueue : Due(b.order)

\* No order is in two places.
OnePlace ==
  /\ \A s, r \in Senders : InPost(s) /\ InPost(r) /\ sender[s].order = sender[r].order => s = r
  /\ \A i, j \in DOMAIN iocp : InPort(i) /\ InPort(j) /\ iocp[i].buf.order = iocp[j].buf.order => i = j
  /\ \A w, v \in Workers : InHand(w) /\ InHand(v) /\ worker[w].buf.order = worker[v].buf.order => w = v
  /\ \A b, c \in toWriteQueue : b.order = c.order => b = c
  /\ \A s \in Senders : InPost(s) =>
       /\ \A i \in DOMAIN iocp : InPort(i) => iocp[i].buf.order # sender[s].order
       /\ \A w \in Workers : InHand(w) => worker[w].buf.order # sender[s].order
       /\ \A b \in toWriteQueue : b.order # sender[s].order
  /\ \A i \in DOMAIN iocp : InPort(i) =>
       /\ \A w \in Workers : InHand(w) => worker[w].buf.order # iocp[i].buf.order
       /\ \A b \in toWriteQueue : b.order # iocp[i].buf.order
  /\ \A w \in Workers : InHand(w) => \A b \in toWriteQueue : b.order # worker[w].buf.order

\* What is on the wire has been processed.
WireInv == \A i \in DOMAIN wire : wire[i].order < nNextWriteOrderToProcess

(* Nothing is skipped as long as the connection lives *)

Posted(b) ==
  \/ \E i \in DOMAIN iocp : InPort(i) /\ iocp[i].buf = b
  \/ \E w \in Workers : InHand(w) /\ worker[w].buf = b
  \/ b \in toWriteQueue
Reached(b) == \E i \in DOMAIN wire : wire[i] = b
Accepted(b) == Posted(b) \/ Reached(b)

\* The part that the thread sent before it, with an earlier order.
Follows(from, part, order) ==
  part > 1 => \E c \in Buffer :
    c.from = from /\ c.part = part - 1 /\ c.order < order /\ Accepted(c)

\* Parts are accepted one after the other.
ChainInv ==
  ~Ending =>
    /\ \A b \in Buffer : Accepted(b) => Follows(b.from, b.part, b.order)
    /\ \A s \in Senders : Follows(s, sender[s].part, nNextWriteOrder + 1)
    /\ \A s \in Senders : InPost(s) => Follows(s, sender[s].part, sender[s].order)
    /\ \A s \in Senders : sender[s].pc \in {"addref", "sendAddref"} => Accepted(BufferOf(s))

Waiting(o) ==
  \/ \E s \in Senders : InPost(s) /\ sender[s].order = o
  \/ \E b \in Buffer : b.order = o /\ Posted(b)

\* Every order that is due waits somewhere, unless a post failed.
WholeInv == ~Ending /\ ~lost => \A o \in Nat : Due(o) => Waiting(o)

\* Whose turn it is has a worker that will write it.
TurnInv == ~Ending /\ Turn # {} => \E w \in Workers : WAt(w, "drain")

\* Nothing is discarded before the connection is closed.
DiscardInv == ~Ending => discarded = {}

IInv ==
  /\ TypeInv /\ PlaceInv /\ ReleaseInv /\ CountInv
  /\ DueInv /\ OnePlace /\ WireInv /\ WireInOrder
  /\ DiscardInv /\ ChainInv /\ WholeInv /\ TurnInv

----------------------------------------------------------------------------
(* What a step does to a thread and to the completion port *)

SBecomes(s, p, k, o) ==
  /\ sender' \in [Senders -> SenderRec]
  /\ sender'[s] = [pc |-> p, part |-> k, order |-> o]
  /\ \A r \in Senders \ {s} : sender'[r] = sender[r]

WBecomes(w, p, b) ==
  /\ worker' \in [Workers -> WorkerRec]
  /\ worker'[w] = [pc |-> p, buf |-> b]
  /\ \A v \in Workers \ {w} : worker'[v] = worker[v]

CBecomes(t, p) ==
  /\ closer' \in [Threads -> CloserPcs]
  /\ closer'[t] = p
  /\ \A u \in Threads \ {t} : closer'[u] = closer[u]

\* A sender only goes on.
LEMMA SenderGoes ==
  ASSUME sender \in [Senders -> SenderRec], NEW s \in Senders,
         NEW p \in {"start", "check", "order", "post", "addref", "send", "sendAddref", "done"}, SGoTo(s, p)
  PROVE  SBecomes(s, p, sender[s].part, sender[s].order)
BY DEF SGoTo, SBecomes, SenderRec

\* A worker only goes on.
LEMMA WorkerGoes ==
  ASSUME worker \in [Workers -> WorkerRec], NEW w \in Workers,
         NEW p \in {"idle", "request", "drain", "error", "end"}, WGoTo(w, p)
  PROVE  WBecomes(w, p, worker[w].buf)
BY DEF WGoTo, WBecomes, WorkerRec

\* A worker takes a buffer, or gives it up.
LEMMA WorkerTakes ==
  ASSUME worker \in [Workers -> WorkerRec], NEW w \in Workers,
         NEW p \in {"idle", "request", "drain", "error", "end"}, NEW b \in Buffer \cup {NoBuffer},
         worker' = [worker EXCEPT ![w] = [pc |-> p, buf |-> b]]
  PROVE  WBecomes(w, p, b)
BY DEF WBecomes, WorkerRec

\* A thread inside a disconnect goes on.
LEMMA CloserGoes ==
  ASSUME closer \in [Threads -> CloserPcs], NEW t \in Threads, NEW p \in CloserPcs,
         closer' = [closer EXCEPT ![t] = p]
  PROVE  CBecomes(t, p)
BY DEF CBecomes

Put(p) ==
  /\ iocp' \in Seq(Packet) /\ Len(iocp') = Len(iocp) + 1 /\ Len(iocp) \in Nat
  /\ iocp'[Len(iocp) + 1] = p
  /\ \A i \in 1..Len(iocp) : iocp'[i] = iocp[i]

Taken ==
  /\ iocp' \in Seq(Packet) /\ Len(iocp) \in Nat /\ Len(iocp') = Len(iocp) - 1 /\ Len(iocp) >= 1
  /\ Head(iocp) = iocp[1] /\ Head(iocp) \in Packet
  /\ \A i \in 1..Len(iocp') : iocp'[i] = iocp[i + 1]

\* Completed writes are put at the end of the port.
Completed ==
  /\ iocp' \in Seq(Packet) /\ Len(iocp) \in Nat /\ Len(iocp') \in Nat /\ Len(iocp) <= Len(iocp')
  /\ \A i \in 1..Len(iocp) : iocp'[i] = iocp[i]
  /\ \A i \in Len(iocp) + 1..Len(iocp') : iocp'[i].kind = "written"

\* A packet is put at the end of the port.
LEMMA Puts ==
  ASSUME iocp \in Seq(Packet), NEW p \in Packet, iocp' = Append(iocp, p)
  PROVE  Put(p)
BY AppendProperties, LenProperties DEF Put

\* The first packet of the port is taken.
LEMMA Takes ==
  ASSUME iocp \in Seq(Packet), iocp # <<>>, iocp' = Tail(iocp)
  PROVE  Taken
<1>1. Len(iocp) \in Nat /\ Len(iocp) >= 1
  BY EmptySeq, LenProperties
<1>2. QED
  BY <1>1, HeadTailProperties, ElementOfSeq DEF Taken

\* The oldest pending write completes.
LEMMA Completes ==
  ASSUME TypeInv, WriteCompletes
  PROVE  /\ Completed /\ Len(iocp') = Len(iocp) + 1
         /\ writing' \in Seq(Buffer) /\ Len(writing) \in Nat /\ Len(writing') = Len(writing) - 1
<1>1. /\ Len(writing) \in Nat /\ Len(writing) >= 1
  BY EmptySeq, LenProperties DEF TypeInv, WriteCompletes
<1>2. Head(writing) \in Buffer /\ writing' \in Seq(Buffer) /\ Len(writing') = Len(writing) - 1
  BY <1>1, HeadTailProperties, ElementOfSeq DEF TypeInv, WriteCompletes
<1>3. PICK ok \in BOOLEAN : iocp' = Append(iocp, [kind |-> "written", ok |-> ok, buf |-> Head(writing)])
  BY DEF WriteCompletes
<1>4. [kind |-> "written", ok |-> ok, buf |-> Head(writing)] \in Packet
  BY <1>2 DEF Packet
<1>5. Put([kind |-> "written", ok |-> ok, buf |-> Head(writing)])
  BY <1>3, <1>4, Puts DEF TypeInv
<1>6. QED
  BY <1>1, <1>2, <1>5 DEF Put, Completed

\* Closing the pipe completes all of them.
LEMMA ClosingCompletes ==
  ASSUME TypeInv,
         iocp' = iocp \o [i \in DOMAIN writing |-> [kind |-> "written", ok |-> FALSE, buf |-> writing[i]]]
  PROVE  Completed /\ Len(writing) \in Nat /\ Len(iocp') = Len(iocp) + Len(writing)
<1> DEFINE q == [i \in DOMAIN writing |-> [kind |-> "written", ok |-> FALSE, buf |-> writing[i]]]
<1>1. Len(writing) \in Nat /\ DOMAIN writing = 1..Len(writing)
  BY LenProperties DEF TypeInv
<1>2. \A i \in 1..Len(writing) : writing[i] \in Buffer
  BY ElementOfSeq DEF TypeInv
<1>3. \A i \in 1..Len(writing) : q[i] \in Packet /\ q[i].kind = "written"
  BY <1>1, <1>2 DEF Packet
<1>4. q = [i \in 1..Len(writing) |-> [kind |-> "written", ok |-> FALSE, buf |-> writing[i]]]
  BY <1>1
<1> HIDE DEF q
<1>5. q \in Seq(Packet) /\ Len(q) = Len(writing)
  <2>1. q \in [1..Len(writing) -> Packet]
    BY <1>3, <1>4
  <2>2. QED
    BY <1>1, <2>1
<1>6. iocp' = iocp \o q /\ iocp \in Seq(Packet)
  BY DEF q, TypeInv
<1>7. /\ iocp' \in Seq(Packet) /\ Len(iocp) \in Nat /\ Len(iocp') = Len(iocp) + Len(q)
      /\ \A i \in 1..Len(iocp) + Len(q) : iocp'[i] = IF i <= Len(iocp) THEN iocp[i] ELSE q[i - Len(iocp)]
  <2>1. /\ iocp \o q \in Seq(Packet) /\ Len(iocp \o q) = Len(iocp) + Len(q)
        /\ \A i \in 1..Len(iocp) + Len(q) : (iocp \o q)[i] = IF i <= Len(iocp) THEN iocp[i] ELSE q[i - Len(iocp)]
    BY <1>5, <1>6, ConcatProperties
  <2>2. QED
    BY <1>6, <2>1, LenProperties
<1>8. \A i \in Len(iocp) + 1..Len(iocp') : i - Len(iocp) \in 1..Len(q) /\ iocp'[i] = q[i - Len(iocp)]
  <2>0. Len(iocp) \in Nat /\ Len(q) \in Nat /\ Len(iocp') = Len(iocp) + Len(q)
    BY <1>1, <1>5, <1>7
  <2>1. PICK m \in Nat, n \in Nat : m = Len(iocp) /\ n = Len(q) /\ Len(iocp') = m + n
    BY <2>0
  <2>2. ASSUME NEW i \in m + 1..m + n PROVE i - m \in 1..n /\ i \in 1..m + n /\ ~(i <= m)
    BY <2>1, <2>2
  <2>3. QED
    BY <1>7, <2>1, <2>2
<1>9. QED
  BY <1>1, <1>3, <1>5, <1>7, <1>8 DEF Completed

\* Where each action takes its sender.
LEMMA SenderMoves ==
  ASSUME TypeInv, PlaceInv, NEW s \in Senders
  PROVE  LET k == sender[s].part
             o == sender[s].order
         IN /\ Find(s) => SBecomes(s, IF shuttingDown THEN "done" ELSE IF k <= Chunks THEN "check" ELSE "send", k, o)
            /\ CheckConnected(s) => SBecomes(s, IF nState = "connected" THEN "order" ELSE "done", k, o)
            /\ TakeOrder(s) => SBecomes(s, "post", k, nNextWriteOrder + 1)
            /\ Post(s) => \E p \in {"addref", "done"} : SBecomes(s, p, k, o)
            /\ AddRefForPart(s) => SBecomes(s, IF k < Chunks THEN "order" ELSE "start", k + 1, o)
            /\ SendMsg(s) =>
                 \/ SBecomes(s, "done", k, o)
                 \/ SBecomes(s, "sendAddref", k, nNextWriteOrder + 1)
            /\ AddRefForMsg(s) => SBecomes(s, "done", k + 1, o)
<1>0. sender \in [Senders -> SenderRec] /\ sender[s].part \in 1..Chunks + 2 /\ sender[s].order \in Nat
      /\ nNextWriteOrder + 1 \in Nat /\ Chunks \in Nat
  BY ConstantsAssumption DEF TypeInv, SenderRec
<1>1. ASSUME Find(s)
      PROVE  SBecomes(s, IF shuttingDown THEN "done" ELSE IF sender[s].part <= Chunks THEN "check" ELSE "send",
                      sender[s].part, sender[s].order)
  BY <1>0, <1>1, SenderGoes DEF Find
<1>2. ASSUME CheckConnected(s)
      PROVE  SBecomes(s, IF nState = "connected" THEN "order" ELSE "done", sender[s].part, sender[s].order)
  BY <1>0, <1>2, SenderGoes DEF CheckConnected, GiveUp
<1>3. ASSUME TakeOrder(s) PROVE SBecomes(s, "post", sender[s].part, nNextWriteOrder + 1)
  BY <1>0, <1>3 DEF TakeOrder, SBecomes, SenderRec
<1>4. ASSUME Post(s) PROVE \E p \in {"addref", "done"} : SBecomes(s, p, sender[s].part, sender[s].order)
  <2>1. SGoTo(s, "addref") \/ SGoTo(s, "done")
    BY <1>4 DEF Post, GiveUp
  <2>2. QED
    BY <1>0, <2>1, SenderGoes
<1>5. ASSUME AddRefForPart(s)
      PROVE  SBecomes(s, IF sender[s].part < Chunks THEN "order" ELSE "start", sender[s].part + 1, sender[s].order)
  <2>1. sender[s].part + 1 \in 1..Chunks + 2
    BY <1>0, <1>5 DEF AddRefForPart, SAt, PlaceInv
  <2>2. QED
    BY <1>0, <1>5, <2>1 DEF AddRefForPart, NextPart, SBecomes, SenderRec
<1>6. ASSUME SendMsg(s)
      PROVE  \/ SBecomes(s, "done", sender[s].part, sender[s].order)
             \/ SBecomes(s, "sendAddref", sender[s].part, nNextWriteOrder + 1)
  <2>1. \/ SGoTo(s, "done")
        \/ sender' = [sender EXCEPT ![s].order = nNextWriteOrder + 1, ![s].pc = "sendAddref"]
    BY <1>6 DEF SendMsg, GiveUp
  <2>2. CASE SGoTo(s, "done")
    BY <1>0, <2>2, SenderGoes
  <2>3. CASE sender' = [sender EXCEPT ![s].order = nNextWriteOrder + 1, ![s].pc = "sendAddref"]
    BY <1>0, <2>3 DEF SBecomes, SenderRec
  <2>4. QED
    BY <2>1, <2>2, <2>3
<1>7. ASSUME AddRefForMsg(s) PROVE SBecomes(s, "done", sender[s].part + 1, sender[s].order)
  <2>1. sender[s].part + 1 \in 1..Chunks + 2
    BY <1>0, <1>7 DEF AddRefForMsg, SAt, PlaceInv
  <2>2. QED
    BY <1>0, <1>7, <2>1 DEF AddRefForMsg, SBecomes, SenderRec
<1>8. QED
  BY <1>1, <1>2, <1>3, <1>4, <1>5, <1>6, <1>7

\* Where each action takes its worker.
LEMMA WorkerMoves ==
  ASSUME TypeInv, PlaceInv, NEW w \in Workers
  PROVE  /\ Dequeue(w) =>
              \/ worker' = worker
              \/ WBecomes(w, "request", Head(iocp).buf)
              \/ WBecomes(w, "error", worker[w].buf)
         /\ AddBufferInSortedToWriteQueue(w) => WBecomes(w, "drain", NoBuffer)
         /\ DrainEnd(w) => WBecomes(w, "idle", worker[w].buf)
         /\ DrainFail(w) => WBecomes(w, "error", worker[w].buf)
         /\ WorkerError(w) => WBecomes(w, "end", worker[w].buf)
         /\ WorkerEnd(w) => WBecomes(w, "idle", worker[w].buf)
<1>0. worker \in [Workers -> WorkerRec]
  BY DEF TypeInv
<1>1. ASSUME Dequeue(w)
      PROVE  \/ worker' = worker
             \/ WBecomes(w, "request", Head(iocp).buf)
             \/ WBecomes(w, "error", worker[w].buf)
  <2>1. Taken
    BY <1>1, Takes DEF TypeInv, Dequeue
  <2>2. Head(iocp).buf \in Buffer \cup {NoBuffer}
    BY <2>1 DEF Taken, Packet
  <2>3. \/ worker' = worker
        \/ worker' = [worker EXCEPT ![w] = [pc |-> "request", buf |-> Head(iocp).buf]]
        \/ WGoTo(w, "error")
    BY <1>1 DEF Dequeue
  <2>4. QED
    BY <1>0, <2>2, <2>3, WorkerGoes, WorkerTakes
<1>2. ASSUME AddBufferInSortedToWriteQueue(w) PROVE WBecomes(w, "drain", NoBuffer)
  BY <1>0, <1>2, WorkerTakes DEF AddBufferInSortedToWriteQueue
<1>3. DrainEnd(w) => WBecomes(w, "idle", worker[w].buf)
  BY <1>0, WorkerGoes DEF DrainEnd
<1>4. DrainFail(w) => WBecomes(w, "error", worker[w].buf)
  BY <1>0, WorkerGoes DEF DrainFail
<1>5. WorkerError(w) => WBecomes(w, "end", worker[w].buf)
  BY <1>0, WorkerGoes DEF WorkerError
<1>6. WorkerEnd(w) => WBecomes(w, "idle", worker[w].buf)
  BY <1>0, WorkerGoes DEF WorkerEnd
<1>7. QED
  BY <1>1, <1>2, <1>3, <1>4, <1>5, <1>6

\* Where each action takes a thread inside a disconnect.
LEMMA CloserMoves ==
  ASSUME TypeInv, NEW t \in Threads
  PROVE  /\ t \in Workers /\ WorkerError(t) => closer' = closer \/ CBecomes(t, "shutdown")
         /\ CallDisconnectAgent(t) => CBecomes(t, "shutdown")
         /\ ShutdownConnection(t) => CBecomes(t, IF nState = "connected" THEN "discard" ELSE "leave")
         /\ DiscardAllBuffers(t) => CBecomes(t, "release")
         /\ LeaveDisconnect(t) => CBecomes(t, IF t \in Workers THEN "none" ELSE "done")
<1>1. closer \in [Threads -> CloserPcs] /\ CloserPcs = {"none", "shutdown", "discard", "release", "leave", "done"}
  BY DEF TypeInv, CloserPcs
<1>2. t \in Workers /\ WorkerError(t) => closer' = closer \/ CBecomes(t, "shutdown")
  BY <1>1, CloserGoes DEF WorkerError
<1>3. CallDisconnectAgent(t) => CBecomes(t, "shutdown")
  BY <1>1, CloserGoes DEF CallDisconnectAgent
<1>4. ShutdownConnection(t) => CBecomes(t, IF nState = "connected" THEN "discard" ELSE "leave")
  BY <1>1, CloserGoes DEF ShutdownConnection
<1>5. DiscardAllBuffers(t) => CBecomes(t, "release")
  BY <1>1, CloserGoes DEF DiscardAllBuffers
<1>6. LeaveDisconnect(t) => CBecomes(t, IF t \in Workers THEN "none" ELSE "done")
  BY <1>1, CloserGoes DEF LeaveDisconnect
<1>7. QED
  BY <1>2, <1>3, <1>4, <1>5, <1>6

----------------------------------------------------------------------------
(* Types *)

\* The step of a sender that appends a request to the port.
PostsRequest(s, o) ==
  Put([kind |-> "request", ok |-> TRUE, buf |-> [order |-> o, from |-> s, part |-> sender[s].part]])

\* A post leaves the port as it was, or adds the thread's request.
LEMMA PostEffect ==
  ASSUME TypeInv, PlaceInv, NEW s \in Senders
  PROVE  /\ Post(s) =>
              \/ /\ PostsRequest(s, sender[s].order) /\ BufferOf(s) \in Buffer
                 /\ SBecomes(s, "addref", sender[s].part, sender[s].order)
                 /\ UNCHANGED <<countVars, lost>>
              \/ /\ iocp' = iocp /\ lost' = TRUE /\ FreeBuffer /\ Release(1)
                 /\ SBecomes(s, "done", sender[s].part, sender[s].order)
         /\ SendMsg(s) =>
              \/ /\ nState # "connected" /\ UNCHANGED <<nInUseMessageCount, nNextWriteOrder, iocp, lost>> /\ Release(1)
                 /\ SBecomes(s, "done", sender[s].part, sender[s].order)
              \/ /\ nNextWriteOrder' = nNextWriteOrder + 1
                 /\ PostsRequest(s, nNextWriteOrder + 1)
                 /\ [order |-> nNextWriteOrder + 1, from |-> s, part |-> sender[s].part] \in Buffer
                 /\ SBecomes(s, "sendAddref", sender[s].part, nNextWriteOrder + 1)
                 /\ GetBuffer /\ UNCHANGED <<nRefCount, lost>>
              \/ /\ nNextWriteOrder' = nNextWriteOrder + 1
                 /\ iocp' = iocp /\ lost' = TRUE /\ Release(1) /\ UNCHANGED nInUseMessageCount
                 /\ SBecomes(s, "done", sender[s].part, sender[s].order)
<1>0. /\ sender \in [Senders -> SenderRec] /\ sender[s].part \in Nat /\ sender[s].order \in Nat
      /\ nNextWriteOrder + 1 \in Nat /\ Chunks \in Nat /\ iocp \in Seq(Packet)
  BY ConstantsAssumption DEF TypeInv, SenderRec
<1>1. ASSUME Post(s)
      PROVE  \/ /\ PostsRequest(s, sender[s].order) /\ BufferOf(s) \in Buffer
                /\ SBecomes(s, "addref", sender[s].part, sender[s].order)
                /\ UNCHANGED <<countVars, lost>>
             \/ /\ iocp' = iocp /\ lost' = TRUE /\ FreeBuffer /\ Release(1)
                /\ SBecomes(s, "done", sender[s].part, sender[s].order)
  <2> DEFINE p == [kind |-> "request", ok |-> TRUE, buf |-> BufferOf(s)]
  <2>1. BufferOf(s) \in Buffer
    BY <1>1 DEF Post, SAt, PlaceInv
  <2>2. p \in Packet
    BY <2>1 DEF Packet
  <2>3. CASE iocp' = Append(iocp, p) /\ SGoTo(s, "addref") /\ UNCHANGED <<countVars, lost>>
    <3>1. Put(p)
      BY <1>0, <2>2, <2>3, Puts
    <3>2. QED
      BY <1>0, <2>1, <2>3, <3>1, SenderGoes DEF PostsRequest, BufferOf
  <2>4. CASE FreeBuffer /\ lost' = TRUE /\ GiveUp(s) /\ iocp' = iocp
    BY <1>0, <2>4, SenderGoes DEF GiveUp
  <2>5. QED
    BY <1>1, <2>3, <2>4 DEF Post
<1>2. ASSUME SendMsg(s)
      PROVE  \/ /\ nState # "connected" /\ UNCHANGED <<nInUseMessageCount, nNextWriteOrder, iocp, lost>> /\ Release(1)
                /\ SBecomes(s, "done", sender[s].part, sender[s].order)
             \/ /\ nNextWriteOrder' = nNextWriteOrder + 1
                /\ PostsRequest(s, nNextWriteOrder + 1)
                /\ [order |-> nNextWriteOrder + 1, from |-> s, part |-> sender[s].part] \in Buffer
                /\ SBecomes(s, "sendAddref", sender[s].part, nNextWriteOrder + 1)
                /\ GetBuffer /\ UNCHANGED <<nRefCount, lost>>
             \/ /\ nNextWriteOrder' = nNextWriteOrder + 1
                /\ iocp' = iocp /\ lost' = TRUE /\ Release(1) /\ UNCHANGED nInUseMessageCount
                /\ SBecomes(s, "done", sender[s].part, sender[s].order)
  <2> DEFINE b == [order |-> nNextWriteOrder + 1, from |-> s, part |-> sender[s].part]
             p == [kind |-> "request", ok |-> TRUE, buf |-> b]
  <2>1. b \in Buffer
    <3>1. sender[s].part = Chunks + 1
      BY <1>2 DEF SendMsg, SAt, PlaceInv
    <3>2. sender[s].part \in Parts
      BY <1>0, <3>1 DEF Parts
    <3>3. QED
      BY <1>0, <3>2 DEF Buffer
  <2>2. p \in Packet
    BY <2>1 DEF Packet
  <2>3. CASE nState # "connected" /\ GiveUp(s) /\ UNCHANGED <<nInUseMessageCount, nNextWriteOrder, iocp, lost>>
    BY <1>0, <2>3, SenderGoes DEF GiveUp
  <2>4. CASE /\ nNextWriteOrder' = nNextWriteOrder + 1
             /\ sender' = [sender EXCEPT ![s].order = nNextWriteOrder + 1, ![s].pc = "sendAddref"]
             /\ GetBuffer /\ iocp' = Append(iocp, p) /\ UNCHANGED <<nRefCount, lost>>
    <3>1. Put(p)
      BY <1>0, <2>2, <2>4, Puts
    <3>2. SBecomes(s, "sendAddref", sender[s].part, nNextWriteOrder + 1)
      BY <1>0, <2>4 DEF SBecomes, SenderRec
    <3>3. QED
      BY <2>1, <2>4, <3>1, <3>2 DEF PostsRequest
  <2>5. CASE /\ nNextWriteOrder' = nNextWriteOrder + 1
             /\ lost' = TRUE /\ GiveUp(s) /\ UNCHANGED <<nInUseMessageCount, iocp>>
    BY <1>0, <2>5, SenderGoes DEF GiveUp
  <2>6. QED
    BY <1>2, <2>3, <2>4, <2>5 DEF SendMsg
<1>3. QED
  BY <1>1, <1>2

\* The types of the senders' steps.
LEMMA SenderTypes ==
  ASSUME TypeInv, PlaceInv, NEW s \in Senders, SenderStep(s)
  PROVE  TypeInv' /\ PlaceInv'
<1>0. /\ sender \in [Senders -> SenderRec] /\ sender[s].part \in 1..Chunks + 2 /\ sender[s].order \in Nat
      /\ Chunks \in Nat
  BY ConstantsAssumption DEF TypeInv, SenderRec
<1>p. ASSUME NEW p, NEW k \in 1..Chunks + 2, NEW o \in Nat, SBecomes(s, p, k, o), worker' = worker,
             p \in {"check", "order", "post", "addref"} => k <= Chunks,
             p \in {"send", "sendAddref"} => k = Chunks + 1,
             p = "start" => k <= Chunks + 1
      PROVE  PlaceInv' /\ sender' \in [Senders -> SenderRec]
  <2>1. ASSUME NEW r \in Senders
        PROVE  (/\ sender[r].pc \in {"check", "order", "post", "addref"} => sender[r].part <= Chunks
                /\ sender[r].pc \in {"send", "sendAddref"} => sender[r].part = Chunks + 1
                /\ SAt(r, "start") => sender[r].part <= Chunks + 1
                /\ sender[r].pc = "post" => BufferOf(r) \in Buffer)'
    <3>1. CASE r = s
      BY <1>0, <1>p, <3>1 DEF SBecomes, SAt, BufferOf, Buffer, Parts
    <3>2. CASE r # s
      BY <1>p, <3>2 DEF SBecomes, SAt, BufferOf, PlaceInv
    <3>3. QED
      BY <3>1, <3>2
  <2>2. QED
    BY <1>p, <2>1 DEF PlaceInv, SBecomes
<1>1. CASE Find(s)
  <2>1. PlaceInv' /\ sender' \in [Senders -> SenderRec]
    <3>1. /\ SBecomes(s, IF shuttingDown THEN "done" ELSE IF sender[s].part <= Chunks THEN "check" ELSE "send",
                      sender[s].part, sender[s].order)
          /\ worker' = worker
      BY <1>1, SenderMoves DEF Find
    <3>2. sender[s].part <= Chunks \/ sender[s].part = Chunks + 1
      BY <1>0, <1>1 DEF Find, SAt, PlaceInv
    <3>3. QED
      BY <1>0, <1>p, <3>1, <3>2
  <2>2. QED
    BY <1>1, <2>1 DEF Find, TypeInv, AddRef, connVars, queueVars, orderVars
<1>2. CASE CheckConnected(s)
  <2>1. PlaceInv' /\ sender' \in [Senders -> SenderRec]
    BY <1>0, <1>2, <1>p, SenderMoves DEF CheckConnected, SAt, PlaceInv
  <2>2. QED
    BY <1>2, <2>1 DEF CheckConnected, TypeInv, GiveUp, Release, connVars, queueVars, orderVars
<1>3. CASE TakeOrder(s)
  <2>0. nNextWriteOrder + 1 \in Nat
    BY DEF TypeInv
  <2>1. PlaceInv' /\ sender' \in [Senders -> SenderRec]
    BY <1>0, <1>3, <1>p, <2>0, SenderMoves DEF TakeOrder, SAt, PlaceInv
  <2>2. QED
    BY <1>3, <2>1 DEF TakeOrder, TypeInv, GetBuffer, connVars, queueVars, orderVars
<1>4. CASE Post(s)
  <2>1. PlaceInv' /\ sender' \in [Senders -> SenderRec]
    <3>1. PICK p \in {"addref", "done"} : SBecomes(s, p, sender[s].part, sender[s].order)
      BY <1>4, SenderMoves
    <3>2. QED
      BY <1>0, <1>4, <1>p, <3>1 DEF Post, SAt, PlaceInv
  <2>t. /\ iocp \in Seq(Packet) /\ nInUseMessageCount \in Int /\ nRefCount \in Int
        /\ lost \in BOOLEAN /\ nNextWriteOrder \in Nat
    BY DEF TypeInv
  <2>2. iocp' \in Seq(Packet) /\ nInUseMessageCount' \in Int /\ nRefCount' \in Int /\ lost' \in BOOLEAN
    <3>1. \/ PostsRequest(s, sender[s].order) /\ UNCHANGED <<countVars, lost>>
          \/ iocp' = iocp /\ lost' = TRUE /\ FreeBuffer /\ Release(1)
      BY <1>4, PostEffect
    <3>2. PostsRequest(s, sender[s].order) => iocp' \in Seq(Packet)
      BY DEF PostsRequest, Put
    <3>3. iocp' \in Seq(Packet) /\ lost' \in BOOLEAN
      BY <2>t, <3>1, <3>2, Zenon
    <3>4. UNCHANGED countVars \/ (FreeBuffer /\ Release(1))
      BY <3>1
    <3>5. nInUseMessageCount' \in Int /\ nRefCount' \in Int
      BY <2>t, <3>4 DEF countVars, FreeBuffer, Release
    <3>6. QED
      BY <3>3, <3>5
  <2>3. QED
    BY <1>4, <2>1, <2>2 DEF Post, TypeInv, connVars, orderVars
<1>5. CASE AddRefForPart(s)
  <2>0. sender[s].part <= Chunks
    BY <1>5 DEF AddRefForPart, SAt, PlaceInv
  <2>1. PlaceInv' /\ sender' \in [Senders -> SenderRec]
    <3>1. sender[s].part + 1 \in 1..Chunks + 2
      BY <1>0, <2>0
    <3>2. /\ SBecomes(s, IF sender[s].part < Chunks THEN "order" ELSE "start", sender[s].part + 1, sender[s].order)
          /\ worker' = worker
      BY <1>5, SenderMoves DEF AddRefForPart
    <3>3. CASE sender[s].part < Chunks
      <4>1. SBecomes(s, "order", sender[s].part + 1, sender[s].order) /\ sender[s].part + 1 <= Chunks
        BY <1>0, <3>2, <3>3
      <4>2. QED
        BY <1>0, <1>p, <3>1, <3>2, <4>1
    <3>4. CASE ~(sender[s].part < Chunks)
      <4>1. SBecomes(s, "start", sender[s].part + 1, sender[s].order) /\ sender[s].part + 1 <= Chunks + 1
        BY <1>0, <2>0, <3>2, <3>4
      <4>2. QED
        BY <1>0, <1>p, <3>1, <3>2, <4>1
    <3>5. QED
      BY <3>3, <3>4
  <2>2. QED
    BY <1>5, <2>1 DEF AddRefForPart, TypeInv, AddRef, connVars, queueVars, orderVars
<1>6. CASE SendMsg(s)
  <2>0. nNextWriteOrder + 1 \in Nat
    BY DEF TypeInv
  <2>1. PlaceInv' /\ sender' \in [Senders -> SenderRec]
    BY <1>0, <1>6, <1>p, <2>0, SenderMoves DEF SendMsg, SAt, PlaceInv
  <2>t. /\ iocp \in Seq(Packet) /\ nInUseMessageCount \in Int /\ nRefCount \in Int
        /\ lost \in BOOLEAN /\ nNextWriteOrder \in Nat
    BY DEF TypeInv
  <2>2. /\ iocp' \in Seq(Packet) /\ nInUseMessageCount' \in Int /\ nRefCount' \in Int /\ lost' \in BOOLEAN
        /\ nNextWriteOrder' \in Nat
    <3>1. \/ UNCHANGED <<nInUseMessageCount, nNextWriteOrder, iocp, lost>> /\ Release(1)
          \/ /\ nNextWriteOrder' = nNextWriteOrder + 1
             /\ PostsRequest(s, nNextWriteOrder + 1) /\ GetBuffer /\ UNCHANGED <<nRefCount, lost>>
          \/ /\ nNextWriteOrder' = nNextWriteOrder + 1
             /\ iocp' = iocp /\ lost' = TRUE /\ Release(1) /\ UNCHANGED nInUseMessageCount
      BY <1>6, PostEffect
    <3>2. PostsRequest(s, nNextWriteOrder + 1) => iocp' \in Seq(Packet)
      BY DEF PostsRequest, Put
    <3>3. iocp' \in Seq(Packet) /\ lost' \in BOOLEAN
      BY <2>t, <3>1, <3>2, Zenon
    <3>4. /\ UNCHANGED nNextWriteOrder \/ nNextWriteOrder' = nNextWriteOrder + 1
          /\ UNCHANGED nInUseMessageCount \/ GetBuffer
          /\ UNCHANGED nRefCount \/ Release(1)
      BY <3>1
    <3>5. nInUseMessageCount' \in Int /\ nRefCount' \in Int /\ nNextWriteOrder' \in Nat
      BY <2>t, <3>4 DEF GetBuffer, Release
    <3>6. QED
      BY <3>3, <3>5
  <2>3. QED
    BY <1>6, <2>1, <2>2 DEF SendMsg, TypeInv, connVars
<1>7. CASE AddRefForMsg(s)
  <2>0. sender[s].part = Chunks + 1
    BY <1>7 DEF AddRefForMsg, SAt, PlaceInv
  <2>1. PlaceInv' /\ sender' \in [Senders -> SenderRec]
    <3>1. sender[s].part + 1 \in 1..Chunks + 2
      BY <1>0, <2>0
    <3>2. /\ SBecomes(s, "done", sender[s].part + 1, sender[s].order)
          /\ worker' = worker
      BY <1>7, SenderMoves DEF AddRefForMsg
    <3>3. QED
      BY <1>0, <1>p, <2>0, <3>1, <3>2
  <2>2. QED
    BY <1>7, <2>1 DEF AddRefForMsg, TypeInv, connVars, queueVars, orderVars, countVars
<1>8. QED
  BY <1>1, <1>2, <1>3, <1>4, <1>5, <1>6, <1>7 DEF SenderStep

\* The types of the workers' steps.
LEMMA WorkerTypes ==
  ASSUME TypeInv, PlaceInv, NEW w \in Workers, WorkerStep(w)
  PROVE  TypeInv' /\ PlaceInv'
<1>0. /\ worker \in [Workers -> WorkerRec] /\ worker[w].buf \in Buffer \cup {NoBuffer}
      /\ nInUseMessageCount \in Int /\ nRefCount \in Int /\ nNextWriteOrderToProcess + 1 \in Nat
      /\ iocp \in Seq(Packet) /\ toWriteQueue \subseteq Buffer /\ IsFiniteSet(toWriteQueue)
      /\ w \in Threads
  BY DEF TypeInv, WorkerRec, Threads
<1>p. ASSUME sender' = sender,
             worker' = worker \/ \E p, b : WBecomes(w, p, b) /\ (p = "request" => b \in Buffer)
      PROVE  PlaceInv' /\ worker' \in [Workers -> WorkerRec]
  <2>1. CASE worker' = worker
    BY <1>0, <1>p, <2>1 DEF PlaceInv, SAt, BufferOf
  <2>2. CASE \E p, b : WBecomes(w, p, b) /\ (p = "request" => b \in Buffer)
    <3>1. PICK p, b : WBecomes(w, p, b) /\ (p = "request" => b \in Buffer)
      BY <2>2
    <3>2. ASSUME NEW v \in Workers PROVE worker'[v].pc = "request" => worker'[v].buf \in Buffer
      BY <3>1 DEF WBecomes, PlaceInv
    <3>3. QED
      BY <1>p, <3>1, <3>2 DEF PlaceInv, SAt, BufferOf, WBecomes
  <2>3. QED
    BY <1>p, <2>1, <2>2
<1>q. ASSUME NEW b \in Buffer PROVE
        /\ toWriteQueue \cup {b} \subseteq Buffer /\ IsFiniteSet(toWriteQueue \cup {b})
        /\ toWriteQueue \ {b} \subseteq Buffer /\ IsFiniteSet(toWriteQueue \ {b})
  BY <1>0, FS_AddElement, FS_RemoveElement
<1>t. ASSUME NEW b \in Turn PROVE b \in Buffer /\ b \in toWriteQueue
  BY <1>0 DEF Turn
<1>1. CASE Dequeue(w)
  <2>1. Taken
    BY <1>1, Takes DEF TypeInv, Dequeue
  <2>2. worker' = worker \/ \E p, b : WBecomes(w, p, b) /\ (p = "request" => b \in Buffer)
    <3>1. Head(iocp).buf \in Buffer
      BY <2>1 DEF Taken, Packet
    <3>2. \/ worker' = worker \/ WBecomes(w, "request", Head(iocp).buf) \/ WBecomes(w, "error", worker[w].buf)
      BY <1>1, WorkerMoves
    <3>3. QED
      BY <3>1, <3>2
  <2>3. PlaceInv' /\ worker' \in [Workers -> WorkerRec]
    BY <1>1, <1>p, <2>2 DEF Dequeue
  <2>4. nInUseMessageCount' \in Int /\ nRefCount' \in Int
    BY <1>0, <1>1 DEF Dequeue, AddRef, Release, FreeBuffer
  <2>5. QED
    BY <1>1, <2>1, <2>3, <2>4 DEF Dequeue, Taken, TypeInv, connVars, orderVars
<1>2. CASE AddBufferInSortedToWriteQueue(w)
  <2>1. PlaceInv' /\ worker' \in [Workers -> WorkerRec]
    <3>1. WBecomes(w, "drain", NoBuffer) /\ sender' = sender
      BY <1>2, WorkerMoves DEF AddBufferInSortedToWriteQueue
    <3>2. "drain" # "request"
      OBVIOUS
    <3>3. QED
      BY <1>p, <3>1, <3>2
  <2>2. worker[w].buf \in Buffer
    BY <1>2 DEF AddBufferInSortedToWriteQueue, WAt, PlaceInv
  <2>3. toWriteQueue' \subseteq Buffer /\ IsFiniteSet(toWriteQueue')
    BY <1>2, <1>q, <2>2 DEF AddBufferInSortedToWriteQueue
  <2>4. QED
    BY <1>2, <2>1, <2>3 DEF AddBufferInSortedToWriteQueue, TypeInv, orderVars, countVars
<1>3. CASE DrainEnd(w)
  <2>1. PlaceInv' /\ worker' \in [Workers -> WorkerRec]
    BY <1>3, <1>p, WorkerMoves DEF DrainEnd
  <2>2. QED
    BY <1>0, <1>3, <2>1 DEF DrainEnd, TypeInv, Release, queueVars, orderVars
<1>4. CASE DrainDiscard(w)
  <2>1. PlaceInv' /\ worker' \in [Workers -> WorkerRec]
    BY <1>4, <1>p DEF DrainDiscard
  <2>2. toWriteQueue' \subseteq Buffer /\ IsFiniteSet(toWriteQueue')
    BY <1>4, <1>q, <1>t DEF DrainDiscard
  <2>3. nInUseMessageCount' \in Int /\ nNextWriteOrderToProcess' \in Nat
    BY <1>0, <1>4 DEF DrainDiscard, FreeBuffer
  <2>4. QED
    BY <1>4, <2>1, <2>2, <2>3 DEF DrainDiscard, TypeInv, connVars
<1>5. CASE DrainWrite(w)
  <2>1. PlaceInv' /\ worker' \in [Workers -> WorkerRec]
    BY <1>5, <1>p DEF DrainWrite
  <2>2. toWriteQueue' \subseteq Buffer /\ IsFiniteSet(toWriteQueue')
    BY <1>5, <1>q, <1>t DEF DrainWrite
  <2>3. writing' \in Seq(Buffer) /\ wire' \in Seq(Buffer)
    BY <1>5, <1>t, AppendProperties DEF DrainWrite, TypeInv
  <2>4. nRefCount' \in Int /\ nNextWriteOrderToProcess' \in Nat
    BY <1>0, <1>5 DEF DrainWrite, AddRef
  <2>5. QED
    BY <1>5, <2>1, <2>2, <2>3, <2>4 DEF DrainWrite, TypeInv, connVars
<1>6. CASE DrainFail(w)
  <2>1. PlaceInv' /\ worker' \in [Workers -> WorkerRec]
    BY <1>6, <1>p, WorkerMoves DEF DrainFail
  <2>2. toWriteQueue' \subseteq Buffer /\ IsFiniteSet(toWriteQueue')
    BY <1>6, <1>q, <1>t DEF DrainFail
  <2>3. nInUseMessageCount' \in Int /\ nNextWriteOrderToProcess' \in Nat
    BY <1>0, <1>6 DEF DrainFail, FreeBuffer
  <2>4. QED
    BY <1>6, <2>1, <2>2, <2>3 DEF DrainFail, TypeInv
<1>7. CASE WorkerError(w)
  <2>1. PlaceInv' /\ worker' \in [Workers -> WorkerRec]
    BY <1>7, <1>p, WorkerMoves DEF WorkerError
  <2>2. closer' \in [Threads -> CloserPcs]
    BY <1>0, <1>7, CloserMoves DEF CBecomes, TypeInv
  <2>3. nRefCount' \in Int
    BY <1>0, <1>7 DEF WorkerError, AddRef
  <2>4. QED
    BY <1>7, <2>1, <2>2, <2>3 DEF WorkerError, TypeInv, connVars, queueVars, orderVars
<1>8. CASE WorkerEnd(w)
  <2>1. PlaceInv' /\ worker' \in [Workers -> WorkerRec]
    BY <1>8, <1>p, WorkerMoves DEF WorkerEnd
  <2>2. QED
    BY <1>0, <1>8, <2>1 DEF WorkerEnd, TypeInv, Release, connVars, queueVars, orderVars
<1>9. QED
  BY <1>1, <1>2, <1>3, <1>4, <1>5, <1>6, <1>7, <1>8 DEF WorkerStep

\* The types of the other steps.
LEMMA OtherTypes ==
  ASSUME TypeInv, PlaceInv,
         \/ \E t \in Threads : CloserStep(t)
         \/ \E t \in Closers : CallDisconnectAgent(t)
         \/ WriteCompletes \/ SignalShutdown \/ UNCHANGED vars
  PROVE  TypeInv' /\ PlaceInv'
<1>0. nRefCount \in Int
  BY DEF TypeInv
<1>p. sender' = sender /\ worker' = worker => PlaceInv'
  BY DEF PlaceInv, SAt, BufferOf
<1>1. ASSUME NEW t \in Threads, ShutdownConnection(t) PROVE TypeInv' /\ PlaceInv'
  <2>1. iocp' \in Seq(Packet) /\ writing' \in Seq(Buffer)
    <3>1. CASE nState = "connected"
      <4>1. iocp' \in Seq(Packet)
        BY <1>1, <3>1, ClosingCompletes DEF ShutdownConnection, Completed
      <4>2. QED
        BY <1>1, <3>1, <4>1, EmptySeq DEF ShutdownConnection
    <3>2. CASE nState # "connected"
      BY <1>1, <3>2 DEF ShutdownConnection, TypeInv
    <3>3. QED
      BY <3>1, <3>2
  <2>2. closer' \in [Threads -> CloserPcs]
    BY <1>1, CloserMoves DEF CBecomes
  <2>3. nState' \in {"connected", "destroying"}
    BY <1>1 DEF ShutdownConnection, TypeInv
  <2>4. QED
    BY <1>1, <1>p, <2>1, <2>2, <2>3 DEF ShutdownConnection, TypeInv, orderVars, countVars
<1>2. ASSUME NEW t \in Threads, DiscardAllBuffers(t) PROVE TypeInv' /\ PlaceInv'
  <2>1. closer' \in [Threads -> CloserPcs]
    BY <1>2, CloserMoves DEF CBecomes
  <2>2. discarded' \subseteq Nat
    <3>1. {sender[s].order : s \in {r \in Senders : sender[r].pc = "post"}} \subseteq Nat
      BY DEF TypeInv, SenderRec
    <3>2. ListedOrders \subseteq Nat
      <4>1. {iocp[i].buf.order : i \in DOMAIN iocp} \subseteq Nat
        <5>1. ASSUME NEW i \in DOMAIN iocp PROVE iocp[i].buf.order \in Nat
          <6>1. iocp[i] \in Packet
            BY <5>1, ElementOfSeq, LenProperties DEF TypeInv
          <6>2. QED
            BY <6>1 DEF Packet, Buffer
        <5>2. QED
          BY <5>1
      <4>2. {b.order : b \in toWriteQueue} \subseteq Nat
        BY DEF TypeInv, Buffer
      <4>3. {worker[w].buf.order : w \in {v \in Workers : worker[v].pc = "request"}} \subseteq Nat
        BY DEF PlaceInv, Buffer
      <4>4. QED
        BY <4>1, <4>2, <4>3 DEF ListedOrders
    <3>3. discarded \subseteq Nat
      BY DEF TypeInv
    <3>4. QED
      BY <1>2, <3>1, <3>2, <3>3 DEF DiscardAllBuffers
  <2>3. QED
    BY <1>2, <1>p, <2>1, <2>2 DEF DiscardAllBuffers, TypeInv, connVars, orderVars, countVars
<1>3. ASSUME NEW t \in Threads, LeaveDisconnect(t) PROVE TypeInv' /\ PlaceInv'
  <2>1. closer' \in [Threads -> CloserPcs]
    BY <1>3, CloserMoves DEF CBecomes
  <2>2. initialRef' \in BOOLEAN
    BY <1>3, Zenon DEF LeaveDisconnect
  <2>3. nRefCount' \in Int
    BY <1>0, <1>3 DEF LeaveDisconnect, Release
  <2>4. QED
    BY <1>3, <1>p, <2>1, <2>2, <2>3 DEF LeaveDisconnect, TypeInv, queueVars, orderVars
<1>4. ASSUME NEW t \in Closers, CallDisconnectAgent(t) PROVE TypeInv' /\ PlaceInv'
  <2>1. closer' \in [Threads -> CloserPcs]
    BY <1>4, CloserMoves DEF CBecomes, Threads
  <2>2. nRefCount' \in Int
    BY <1>0, <1>4 DEF CallDisconnectAgent, AddRef
  <2>3. QED
    BY <1>4, <1>p, <2>1, <2>2 DEF CallDisconnectAgent, TypeInv, connVars, queueVars, orderVars
<1>5. ASSUME WriteCompletes PROVE TypeInv' /\ PlaceInv'
  <2>1. iocp' \in Seq(Packet) /\ writing' \in Seq(Buffer)
    BY <1>5, Completes DEF Completed
  <2>2. QED
    BY <1>5, <1>p, <2>1 DEF WriteCompletes, TypeInv, connVars, orderVars, countVars
<1>6. ASSUME SignalShutdown PROVE TypeInv' /\ PlaceInv'
  BY <1>6, <1>p DEF SignalShutdown, TypeInv, connVars, queueVars, orderVars, countVars
<1>7. ASSUME UNCHANGED vars PROVE TypeInv' /\ PlaceInv'
  BY <1>7, <1>p DEF vars, TypeInv, connVars, queueVars, orderVars, countVars
<1>8. QED
  BY <1>1, <1>2, <1>3, <1>4, <1>5, <1>6, <1>7 DEF CloserStep

\* What one thread does changes a count by at most one.
LEMMA Recount ==
  ASSUME NEW S, IsFiniteSet(S), NEW A \in SUBSET S, NEW B \in SUBSET S, NEW x \in S,
         \A y \in S \ {x} : y \in A <=> y \in B
  PROVE  /\ Cardinality(A) \in Nat /\ Cardinality(B) \in Nat
         /\ Cardinality(B) = Cardinality(A) + (IF x \in B THEN 1 ELSE 0) - (IF x \in A THEN 1 ELSE 0)
<1>1. /\ IsFiniteSet(A) /\ Cardinality(A) \in Nat
      /\ IsFiniteSet(B) /\ Cardinality(B) \in Nat
  BY FS_Subset, FS_CardinalityType
<1>2. CASE x \in B /\ x \notin A
  <2>1. B = A \cup {x}
    BY <1>2
  <2>2. QED
    BY <1>1, <1>2, <2>1, FS_AddElement
<1>3. CASE x \in A /\ x \notin B
  <2>1. B = A \ {x}
    BY <1>3
  <2>2. QED
    BY <1>1, <1>3, <2>1, FS_RemoveElement
<1>4. CASE x \in A <=> x \in B
  <2>1. A = B
    BY <1>4
  <2>2. QED
    BY <1>1, <2>1
<1>5. QED
  BY <1>2, <1>3, <1>4

\* What a thread counts for, by where it is.
Post1(p) == IF p = "post" THEN 1 ELSE 0
Call1(p) == IF p \notin {"start", "done", "addref", "sendAddref"} THEN 1 ELSE 0
Request1(p) == IF p = "request" THEN 1 ELSE 0
Busy1(p) == IF p # "idle" THEN 1 ELSE 0
Leave1(p) == IF p \notin {"none", "done"} THEN 1 ELSE 0
First1 == IF initialRef THEN 1 ELSE 0

\* The counts of the threads are numbers.
LEMMA CountsTyped ==
  /\ Cardinality(Requesting) \in Nat /\ Cardinality(Posting) \in Nat
  /\ Cardinality(Busy) \in Nat /\ Cardinality(Calling) \in Nat /\ Cardinality(Leaving) \in Nat
<1>1. /\ IsFiniteSet(Senders) /\ IsFiniteSet(Workers) /\ IsFiniteSet(Threads)
  BY ConstantsAssumption, FS_Union DEF Threads
<1>2. /\ Requesting \in SUBSET Workers /\ Busy \in SUBSET Workers
      /\ Posting \in SUBSET Senders /\ Calling \in SUBSET Senders /\ Leaving \in SUBSET Threads
  BY DEF Requesting, Busy, Posting, Calling, Leaving
<1>3. QED
  BY <1>1, <1>2, FS_Subset, FS_CardinalityType

\* The counts after a sender's step.
LEMMA SenderCounts ==
  ASSUME NEW s \in Senders, NEW p, NEW k, NEW o, SBecomes(s, p, k, o)
  PROVE  /\ Cardinality(Posting') = Cardinality(Posting) + Post1(p) - Post1(sender[s].pc)
         /\ Cardinality(Calling') = Cardinality(Calling) + Call1(p) - Call1(sender[s].pc)
<1>1. IsFiniteSet(Senders)
  BY ConstantsAssumption
<1>2. sender'[s].pc = p
  BY DEF SBecomes
<1>3. Cardinality(Posting') = Cardinality(Posting) + Post1(p) - Post1(sender[s].pc)
  <2>1. Posting \in SUBSET Senders /\ Posting' \in SUBSET Senders
    BY DEF Posting
  <2>2. \A r \in Senders \ {s} : r \in Posting <=> r \in Posting'
    BY DEF Posting, SBecomes
  <2>3. /\ (IF s \in Posting' THEN 1 ELSE 0) = Post1(p)
        /\ (IF s \in Posting THEN 1 ELSE 0) = Post1(sender[s].pc)
    BY <1>2 DEF Posting, Post1
  <2>4. Cardinality(Posting') = Cardinality(Posting) + (IF s \in Posting' THEN 1 ELSE 0)
                                - (IF s \in Posting THEN 1 ELSE 0)
    BY <1>1, <2>1, <2>2, Recount
  <2>5. QED
    BY <2>3, <2>4
<1>4. Cardinality(Calling') = Cardinality(Calling) + Call1(p) - Call1(sender[s].pc)
  <2>1. Calling \in SUBSET Senders /\ Calling' \in SUBSET Senders
    BY DEF Calling
  <2>2. \A r \in Senders \ {s} : r \in Calling <=> r \in Calling'
    BY DEF Calling, SBecomes
  <2>3. /\ (IF s \in Calling' THEN 1 ELSE 0) = Call1(p)
        /\ (IF s \in Calling THEN 1 ELSE 0) = Call1(sender[s].pc)
    BY <1>2 DEF Calling, Call1
  <2>4. Cardinality(Calling') = Cardinality(Calling) + (IF s \in Calling' THEN 1 ELSE 0)
                                - (IF s \in Calling THEN 1 ELSE 0)
    BY <1>1, <2>1, <2>2, Recount
  <2>5. QED
    BY <2>3, <2>4
<1>5. QED
  BY <1>3, <1>4

\* The counts after a worker's step.
LEMMA WorkerCounts ==
  ASSUME NEW w \in Workers, NEW p, NEW b, WBecomes(w, p, b)
  PROVE  /\ Cardinality(Requesting') =
              Cardinality(Requesting) + Request1(p) - Request1(worker[w].pc)
         /\ Cardinality(Busy') = Cardinality(Busy) + Busy1(p) - Busy1(worker[w].pc)
<1>1. IsFiniteSet(Workers)
  BY ConstantsAssumption
<1>2. worker'[w].pc = p
  BY DEF WBecomes
<1>3. Cardinality(Requesting') = Cardinality(Requesting) + Request1(p) - Request1(worker[w].pc)
  <2>1. Requesting \in SUBSET Workers /\ Requesting' \in SUBSET Workers
    BY DEF Requesting
  <2>2. \A v \in Workers \ {w} : v \in Requesting <=> v \in Requesting'
    BY DEF Requesting, WBecomes
  <2>3. /\ (IF w \in Requesting' THEN 1 ELSE 0) = Request1(p)
        /\ (IF w \in Requesting THEN 1 ELSE 0) = Request1(worker[w].pc)
    BY <1>2 DEF Requesting, Request1
  <2>4. Cardinality(Requesting') = Cardinality(Requesting) + (IF w \in Requesting' THEN 1 ELSE 0)
                                   - (IF w \in Requesting THEN 1 ELSE 0)
    BY <1>1, <2>1, <2>2, Recount
  <2>5. QED
    BY <2>3, <2>4
<1>4. Cardinality(Busy') = Cardinality(Busy) + Busy1(p) - Busy1(worker[w].pc)
  <2>1. Busy \in SUBSET Workers /\ Busy' \in SUBSET Workers
    BY DEF Busy
  <2>2. \A v \in Workers \ {w} : v \in Busy <=> v \in Busy'
    BY DEF Busy, WBecomes
  <2>3. /\ (IF w \in Busy' THEN 1 ELSE 0) = Busy1(p)
        /\ (IF w \in Busy THEN 1 ELSE 0) = Busy1(worker[w].pc)
    BY <1>2 DEF Busy, Busy1
  <2>4. Cardinality(Busy') = Cardinality(Busy) + (IF w \in Busy' THEN 1 ELSE 0)
                             - (IF w \in Busy THEN 1 ELSE 0)
    BY <1>1, <2>1, <2>2, Recount
  <2>5. QED
    BY <2>3, <2>4
<1>5. QED
  BY <1>3, <1>4

\* The counts after a step of a thread inside a disconnect.
LEMMA CloserCounts ==
  ASSUME NEW t \in Threads, NEW p, CBecomes(t, p)
  PROVE  Cardinality(Leaving') = Cardinality(Leaving) + Leave1(p) - Leave1(closer[t])
<1>1. IsFiniteSet(Threads)
  BY ConstantsAssumption, FS_Union DEF Threads
<1>2. Leaving \in SUBSET Threads /\ Leaving' \in SUBSET Threads
  BY DEF Leaving
<1>3. \A u \in Threads \ {t} : u \in Leaving <=> u \in Leaving'
  BY DEF Leaving, CBecomes
<1>4. /\ (IF t \in Leaving' THEN 1 ELSE 0) = Leave1(p)
      /\ (IF t \in Leaving THEN 1 ELSE 0) = Leave1(closer[t])
  BY DEF Leaving, Leave1, CBecomes
<1>5. Cardinality(Leaving') = Cardinality(Leaving) + (IF t \in Leaving' THEN 1 ELSE 0)
                              - (IF t \in Leaving THEN 1 ELSE 0)
  BY <1>1, <1>2, <1>3, Recount
<1>6. QED
  BY <1>4, <1>5

\* Threads that do nothing count as before.
LEMMA SameCounts ==
  /\ sender' = sender => Posting' = Posting /\ Calling' = Calling
  /\ worker' = worker => Requesting' = Requesting /\ Busy' = Busy
  /\ closer' = closer => Leaving' = Leaving
BY DEF Posting, Calling, Requesting, Busy, Leaving

\* The two counts in terms of the named sets.
LEMMA CountsAre ==
  /\ InUseExact <=>
       nInUseMessageCount = Len(iocp) + Cardinality(toWriteQueue) + Len(writing)
                            + Cardinality(Requesting) + Cardinality(Posting)
  /\ RefCountExact <=>
       nRefCount = First1 + Len(iocp) + Len(writing) + 2 * Cardinality(Busy)
                   + Cardinality(Calling) + Cardinality(Leaving)
  /\ InUseExact' <=>
       nInUseMessageCount' = Len(iocp') + Cardinality(toWriteQueue') + Len(writing')
                             + Cardinality(Requesting') + Cardinality(Posting')
  /\ RefCountExact' <=>
       nRefCount' = First1' + Len(iocp') + Len(writing') + 2 * Cardinality(Busy')
                    + Cardinality(Calling') + Cardinality(Leaving')
BY DEF InUseExact, Outstanding, RefCountExact, Holders, Requesting, Posting, Busy, Calling, Leaving, Threads, First1

----------------------------------------------------------------------------
(* The counts are exact *)

\* Everything that is counted is a number.
LEMMA Numbers ==
  /\ TypeInv => /\ Len(iocp) \in Int /\ Len(writing) \in Int /\ Cardinality(toWriteQueue) \in Int
                /\ nInUseMessageCount \in Int /\ nRefCount \in Int /\ First1 \in Int
  /\ TypeInv' => /\ Len(iocp') \in Int /\ Len(writing') \in Int /\ Cardinality(toWriteQueue') \in Int
                 /\ nInUseMessageCount' \in Int /\ nRefCount' \in Int /\ First1' \in Int
BY LenProperties, FS_CardinalityType DEF TypeInv, First1

\* The primed counts of the threads are numbers too.
LEMMA CountsTypedNext ==
  /\ Cardinality(Requesting') \in Nat /\ Cardinality(Posting') \in Nat
  /\ Cardinality(Busy') \in Nat /\ Cardinality(Calling') \in Nat /\ Cardinality(Leaving') \in Nat
<1>1. /\ IsFiniteSet(Senders) /\ IsFiniteSet(Workers) /\ IsFiniteSet(Threads)
  BY ConstantsAssumption, FS_Union DEF Threads
<1>2. /\ Requesting' \in SUBSET Workers /\ Busy' \in SUBSET Workers
      /\ Posting' \in SUBSET Senders /\ Calling' \in SUBSET Senders /\ Leaving' \in SUBSET Threads
  BY DEF Requesting, Busy, Posting, Calling, Leaving
<1>3. QED
  BY <1>1, <1>2, FS_Subset, FS_CardinalityType

\* How much a step adds to each of the sums' terms.
DPort == Len(iocp') - Len(iocp)
DQueue == Cardinality(toWriteQueue') - Cardinality(toWriteQueue)
DWriting == Len(writing') - Len(writing)
DRequesting == Cardinality(Requesting') - Cardinality(Requesting)
DPosting == Cardinality(Posting') - Cardinality(Posting)
DBusy == Cardinality(Busy') - Cardinality(Busy)
DCalling == Cardinality(Calling') - Cardinality(Calling)
DLeaving == Cardinality(Leaving') - Cardinality(Leaving)
DFirst == First1' - First1

\* A step that adds to a count what it adds to its sum keeps the count exact.
LEMMA Balances ==
  ASSUME TypeInv, TypeInv', CountInv,
         nInUseMessageCount' = nInUseMessageCount + DPort + DQueue + DWriting + DRequesting + DPosting,
         nRefCount' = nRefCount + DFirst + DPort + DWriting + 2 * DBusy + DCalling + DLeaving
  PROVE  CountInv'
<1>1. /\ Len(iocp) \in Int /\ Len(writing) \in Int /\ Cardinality(toWriteQueue) \in Int
      /\ nInUseMessageCount \in Int /\ nRefCount \in Int /\ First1 \in Int
      /\ Len(iocp') \in Int /\ Len(writing') \in Int /\ Cardinality(toWriteQueue') \in Int
      /\ nInUseMessageCount' \in Int /\ nRefCount' \in Int /\ First1' \in Int
  BY Numbers
<1>2. /\ Cardinality(Requesting) \in Int /\ Cardinality(Posting) \in Int
      /\ Cardinality(Busy) \in Int /\ Cardinality(Calling) \in Int /\ Cardinality(Leaving) \in Int
      /\ Cardinality(Requesting') \in Int /\ Cardinality(Posting') \in Int
      /\ Cardinality(Busy') \in Int /\ Cardinality(Calling') \in Int /\ Cardinality(Leaving') \in Int
  BY CountsTyped, CountsTypedNext
<1>3. InUseExact'
  <2>1. nInUseMessageCount = Len(iocp) + Cardinality(toWriteQueue) + Len(writing)
                             + Cardinality(Requesting) + Cardinality(Posting)
    BY CountsAre DEF CountInv
  <2>2. nInUseMessageCount' = nInUseMessageCount + (Len(iocp') - Len(iocp))
          + (Cardinality(toWriteQueue') - Cardinality(toWriteQueue)) + (Len(writing') - Len(writing))
          + (Cardinality(Requesting') - Cardinality(Requesting)) + (Cardinality(Posting') - Cardinality(Posting))
    BY DEF DPort, DQueue, DWriting, DRequesting, DPosting
  <2>3. nInUseMessageCount' = Len(iocp') + Cardinality(toWriteQueue') + Len(writing')
                              + Cardinality(Requesting') + Cardinality(Posting')
    <3>1. PICK p \in Int, q \in Int, w \in Int, r \in Int, s \in Int, n \in Int,
               p1 \in Int, q1 \in Int, w1 \in Int, r1 \in Int, s1 \in Int, n1 \in Int :
             /\ p = Len(iocp) /\ p1 = Len(iocp')
             /\ q = Cardinality(toWriteQueue) /\ q1 = Cardinality(toWriteQueue')
             /\ w = Len(writing) /\ w1 = Len(writing')
             /\ r = Cardinality(Requesting) /\ r1 = Cardinality(Requesting')
             /\ s = Cardinality(Posting) /\ s1 = Cardinality(Posting')
             /\ n = nInUseMessageCount /\ n1 = nInUseMessageCount'
      BY <1>1, <1>2
    <3>2. n = p + q + w + r + s
      BY <2>1, <3>1
    <3>3. n1 = n + (p1 - p) + (q1 - q) + (w1 - w) + (r1 - r) + (s1 - s)
      BY <2>2, <3>1
    <3>4. n1 = p1 + q1 + w1 + r1 + s1
      BY <3>2, <3>3
    <3>5. QED
      BY <3>1, <3>4
  <2>4. QED
    BY <2>3, CountsAre
<1>4. RefCountExact'
  <2>1. nRefCount = First1 + Len(iocp) + Len(writing) + 2 * Cardinality(Busy)
                    + Cardinality(Calling) + Cardinality(Leaving)
    BY CountsAre DEF CountInv
  <2>2. nRefCount' = nRefCount + (First1' - First1) + (Len(iocp') - Len(iocp)) + (Len(writing') - Len(writing))
          + 2 * (Cardinality(Busy') - Cardinality(Busy)) + (Cardinality(Calling') - Cardinality(Calling))
          + (Cardinality(Leaving') - Cardinality(Leaving))
    BY DEF DFirst, DPort, DWriting, DBusy, DCalling, DLeaving
  <2>3. nRefCount' = First1' + Len(iocp') + Len(writing') + 2 * Cardinality(Busy')
                     + Cardinality(Calling') + Cardinality(Leaving')
    <3>1. PICK f \in Int, p \in Int, w \in Int, b \in Int, c \in Int, l \in Int, n \in Int,
               f1 \in Int, p1 \in Int, w1 \in Int, b1 \in Int, c1 \in Int, l1 \in Int, n1 \in Int :
             /\ f = First1 /\ f1 = First1'
             /\ p = Len(iocp) /\ p1 = Len(iocp')
             /\ w = Len(writing) /\ w1 = Len(writing')
             /\ b = Cardinality(Busy) /\ b1 = Cardinality(Busy')
             /\ c = Cardinality(Calling) /\ c1 = Cardinality(Calling')
             /\ l = Cardinality(Leaving) /\ l1 = Cardinality(Leaving')
             /\ n = nRefCount /\ n1 = nRefCount'
      BY <1>1, <1>2
    <3>2. n = f + p + w + 2 * b + c + l
      BY <2>1, <3>1
    <3>3. n1 = n + (f1 - f) + (p1 - p) + (w1 - w) + 2 * (b1 - b) + (c1 - c) + (l1 - l)
      BY <2>2, <3>1
    <3>4. n1 = f1 + p1 + w1 + 2 * b1 + c1 + l1
      BY <3>2, <3>3
    <3>5. QED
      BY <3>1, <3>4
  <2>4. QED
    BY <2>3, CountsAre
<1>5. QED
  BY <1>3, <1>4 DEF CountInv

\* Every step of a sender changes the counts as it should.
LEMMA SenderCount ==
  ASSUME TypeInv, TypeInv', PlaceInv, CountInv, NEW s \in Senders, SenderStep(s)
  PROVE  CountInv'
<1> DEFINE k == sender[s].part
           o == sender[s].order
<1>0. /\ UNCHANGED <<toWriteQueue, writing, worker, closer, initialRef>>
      /\ Requesting' = Requesting /\ Busy' = Busy /\ Leaving' = Leaving
  BY SameCounts DEF SenderStep, Find, CheckConnected, TakeOrder, Post, AddRefForPart, SendMsg, AddRefForMsg,
                    connVars, queueVars
<1>n. /\ Len(iocp) \in Int /\ nInUseMessageCount \in Int /\ nRefCount \in Int
  BY Numbers
<1>z. /\ DQueue = 0 /\ DWriting = 0 /\ DRequesting = 0 /\ DBusy = 0 /\ DLeaving = 0 /\ DFirst = 0
  <2>1. First1' = First1
    BY <1>0 DEF First1
  <2>2. QED
    BY <1>0, <2>1, Numbers, CountsTyped DEF DQueue, DWriting, DRequesting, DBusy, DLeaving, DFirst
<1>p. ASSUME NEW p, NEW k1, NEW o1, SBecomes(s, p, k1, o1), NEW l \in {0, 1}, Len(iocp') = Len(iocp) + l,
             nInUseMessageCount' = nInUseMessageCount + l + Post1(p) - Post1(sender[s].pc),
             nRefCount' = nRefCount + l + Call1(p) - Call1(sender[s].pc)
      PROVE  CountInv'
  <2>1. PICK a \in Int, b \in Int :
          a = Post1(p) - Post1(sender[s].pc) /\ b = Call1(p) - Call1(sender[s].pc)
    BY DEF Post1, Call1
  <2>2. DPosting = a /\ DCalling = b
    BY <1>p, <2>1, SenderCounts, CountsTyped DEF DPosting, DCalling, Post1, Call1
  <2>3. DPort = l /\ l \in Int
    BY <1>n, <1>p DEF DPort
  <2>4. nInUseMessageCount' = nInUseMessageCount + l + a /\ nRefCount' = nRefCount + l + b
    BY <1>n, <1>p, <2>1 DEF Post1, Call1
  <2>5. nInUseMessageCount' = nInUseMessageCount + DPort + DQueue + DWriting + DRequesting + DPosting
    BY <1>n, <1>z, <2>2, <2>3, <2>4
  <2>6. nRefCount' = nRefCount + DFirst + DPort + DWriting + 2 * DBusy + DCalling + DLeaving
    BY <1>n, <1>z, <2>2, <2>3, <2>4
  <2>7. QED
    BY <2>5, <2>6, Balances
<1>1. CASE Find(s)
  <2>1. PICK p \in {"done", "check", "send"} :
          SBecomes(s, p, k, o) /\ (p = "done" <=> shuttingDown)
    BY <1>1, SenderMoves
  <2>2. /\ iocp' = iocp /\ nInUseMessageCount' = nInUseMessageCount /\ sender[s].pc = "start"
        /\ nRefCount' = nRefCount + Call1(p)
    BY <1>1, <1>n, <2>1 DEF Find, SAt, AddRef, queueVars, Post1, Call1
  <2>3. Call1(sender[s].pc) = 0 /\ Post1(p) = 0 /\ Post1(sender[s].pc) = 0
        /\ Call1(p) \in Nat
    BY <2>1, <2>2 DEF Post1, Call1
  <2>4. QED
    BY <1>n, <1>p, <2>1, <2>2, <2>3
<1>2. CASE CheckConnected(s)
  <2>1. PICK p \in {"order", "done"} :
          SBecomes(s, p, k, o) /\ (p = "order" <=> nState = "connected")
    BY <1>2, SenderMoves
  <2>2. /\ iocp' = iocp /\ nInUseMessageCount' = nInUseMessageCount /\ sender[s].pc = "check"
        /\ nRefCount' = nRefCount + Call1(p) - 1
    BY <1>2, <1>n, <2>1 DEF CheckConnected, SAt, GiveUp, Release, queueVars, Post1, Call1
  <2>3. Call1(sender[s].pc) = 1 /\ Post1(p) = 0 /\ Post1(sender[s].pc) = 0
        /\ Call1(p) \in Nat
    BY <2>1, <2>2 DEF Post1, Call1
  <2>4. QED
    BY <1>n, <1>p, <2>1, <2>2, <2>3
<1>3. CASE TakeOrder(s)
  <2>1. SBecomes(s, "post", k, nNextWriteOrder + 1)
    BY <1>3, SenderMoves
  <2>2. /\ iocp' = iocp /\ nInUseMessageCount' = nInUseMessageCount + 1 /\ sender[s].pc = "order"
        /\ nRefCount' = nRefCount
    BY <1>3 DEF TakeOrder, SAt, GetBuffer, queueVars
  <2>3. /\ Call1(sender[s].pc) = 1 /\ Call1("post") = 1
        /\ Post1("post") = 1 /\ Post1(sender[s].pc) = 0
    BY <2>2 DEF Post1, Call1
  <2>4. QED
    BY <1>n, <1>p, <2>1, <2>2, <2>3
<1>4. CASE Post(s)
  <2>0. sender[s].pc = "post"
    BY <1>4 DEF Post, SAt
  <2>a. /\ Call1(sender[s].pc) = 1 /\ Post1(sender[s].pc) = 1
        /\ Call1("addref") = 0 /\ Post1("addref") = 0
        /\ Call1("done") = 0 /\ Post1("done") = 0
    BY <2>0 DEF Post1, Call1
  <2>1. CASE PostsRequest(s, o) /\ SBecomes(s, "addref", k, o) /\ UNCHANGED <<countVars, lost>>
    <3>1. Len(iocp') = Len(iocp) + 1 /\ nInUseMessageCount' = nInUseMessageCount /\ nRefCount' = nRefCount
      BY <2>1 DEF PostsRequest, Put, countVars
    <3>2. QED
      BY <1>n, <1>p, <2>1, <2>a, <3>1
  <2>2. CASE iocp' = iocp /\ FreeBuffer /\ Release(1) /\ SBecomes(s, "done", k, o)
    <3>1. Len(iocp') = Len(iocp) /\ nInUseMessageCount' = nInUseMessageCount - 1 /\ nRefCount' = nRefCount - 1
      BY <2>2 DEF FreeBuffer, Release
    <3>2. QED
      BY <1>n, <1>p, <2>2, <2>a, <3>1
  <2>3. QED
    BY <1>4, <2>1, <2>2, PostEffect
<1>5. CASE AddRefForPart(s)
  <2>1. PICK p \in {"order", "start"} : SBecomes(s, p, k + 1, o) /\ (p = "order" <=> k < Chunks)
    BY <1>5, SenderMoves
  <2>2. /\ iocp' = iocp /\ nInUseMessageCount' = nInUseMessageCount /\ sender[s].pc = "addref"
        /\ nRefCount' = nRefCount + Call1(p)
    BY <1>5, <1>n, <2>1 DEF AddRefForPart, SAt, AddRef, queueVars, Post1, Call1
  <2>3. Call1(sender[s].pc) = 0 /\ Post1(p) = 0 /\ Post1(sender[s].pc) = 0
        /\ Call1(p) \in Nat
    BY <2>1, <2>2 DEF Post1, Call1
  <2>4. QED
    BY <1>n, <1>p, <2>1, <2>2, <2>3
<1>6. CASE SendMsg(s)
  <2>0. sender[s].pc = "send"
    BY <1>6 DEF SendMsg, SAt
  <2>a. /\ Call1(sender[s].pc) = 1 /\ Post1(sender[s].pc) = 0
        /\ Call1("sendAddref") = 0 /\ Post1("sendAddref") = 0
        /\ Call1("done") = 0 /\ Post1("done") = 0
    BY <2>0 DEF Post1, Call1
  <2>1. CASE /\ PostsRequest(s, nNextWriteOrder + 1)
             /\ SBecomes(s, "sendAddref", k, nNextWriteOrder + 1)
             /\ GetBuffer /\ UNCHANGED <<nRefCount, lost>>
    <3>1. Len(iocp') = Len(iocp) + 1 /\ nInUseMessageCount' = nInUseMessageCount + 1 /\ nRefCount' = nRefCount
      BY <2>1 DEF PostsRequest, Put, GetBuffer
    <3>2. QED
      BY <1>n, <1>p, <2>1, <2>a, <3>1
  <2>2. CASE iocp' = iocp /\ UNCHANGED nInUseMessageCount /\ Release(1) /\ SBecomes(s, "done", k, o)
    <3>1. Len(iocp') = Len(iocp) /\ nInUseMessageCount' = nInUseMessageCount /\ nRefCount' = nRefCount - 1
      BY <2>2 DEF Release
    <3>2. QED
      BY <1>n, <1>p, <2>2, <2>a, <3>1
  <2>3. QED
    BY <1>6, <2>1, <2>2, PostEffect
<1>7. CASE AddRefForMsg(s)
  <2>1. SBecomes(s, "done", k + 1, o)
    BY <1>7, SenderMoves
  <2>2. /\ iocp' = iocp /\ nInUseMessageCount' = nInUseMessageCount /\ sender[s].pc = "sendAddref"
        /\ nRefCount' = nRefCount
    BY <1>7 DEF AddRefForMsg, SAt, queueVars, countVars
  <2>3. /\ Call1(sender[s].pc) = 0 /\ Call1("done") = 0
        /\ Post1("done") = 0 /\ Post1(sender[s].pc) = 0
    BY <2>2 DEF Post1, Call1
  <2>4. QED
    BY <1>n, <1>p, <2>1, <2>2, <2>3
<1>8. QED
  BY <1>1, <1>2, <1>3, <1>4, <1>5, <1>6, <1>7 DEF SenderStep

\* Every step of a worker changes the counts as it should.
LEMMA WorkerCount ==
  ASSUME TypeInv, TypeInv', PlaceInv, CountInv, OnePlace, NEW w \in Workers, WorkerStep(w)
  PROVE  CountInv'
<1>0. /\ UNCHANGED <<sender, initialRef>>
      /\ Posting' = Posting /\ Calling' = Calling
  BY SameCounts DEF WorkerStep, Dequeue, AddBufferInSortedToWriteQueue, DrainEnd, DrainDiscard, DrainWrite, DrainFail,
                    WorkerError, WorkerEnd, connVars
<1>n. /\ Len(iocp) \in Int /\ Len(writing) \in Int /\ Cardinality(toWriteQueue) \in Int
      /\ nInUseMessageCount \in Int /\ nRefCount \in Int /\ IsFiniteSet(toWriteQueue) /\ w \in Threads
  BY Numbers DEF TypeInv, Threads
<1>z. DPosting = 0 /\ DCalling = 0 /\ DFirst = 0
  <2>1. First1' = First1
    BY <1>0 DEF First1
  <2>2. QED
    BY <1>0, <2>1, Numbers, CountsTyped DEF DPosting, DCalling, DFirst
<1>i. iocp' = iocp => DPort = 0
  BY <1>n DEF DPort
<1>q. toWriteQueue' = toWriteQueue => DQueue = 0
  BY <1>n DEF DQueue
<1>r. writing' = writing => DWriting = 0
  BY <1>n DEF DWriting
<1>c. closer' = closer => DLeaving = 0
  BY SameCounts, CountsTyped DEF DLeaving
<1>w. worker' = worker => DRequesting = 0 /\ DBusy = 0
  BY SameCounts, CountsTyped DEF DRequesting, DBusy
<1>b. ASSUME NEW p, NEW b, WBecomes(w, p, b), NEW x \in Int, NEW y \in Int,
             x = Request1(p) - Request1(worker[w].pc), y = Busy1(p) - Busy1(worker[w].pc)
      PROVE  DRequesting = x /\ DBusy = y
  BY <1>b, WorkerCounts, CountsTyped DEF DRequesting, DBusy, Request1, Busy1
<1>d. ASSUME NEW b \in Turn, toWriteQueue' = toWriteQueue \ {b} PROVE DQueue = -1
  <2>1. b \in toWriteQueue
    BY <1>d DEF Turn
  <2>2. QED
    <3>1. Cardinality(toWriteQueue \ {b}) = Cardinality(toWriteQueue) - 1
      BY <1>n, <2>1, FS_RemoveElement
    <3>2. QED
      BY <1>d, <1>n, <3>1 DEF DQueue
<1>t. ASSUME nInUseMessageCount' = nInUseMessageCount + DPort + DQueue + DWriting + DRequesting,
             nRefCount' = nRefCount + DPort + DWriting + 2 * DBusy + DLeaving,
             DPort \in Int, DQueue \in Int, DWriting \in Int, DRequesting \in Int, DBusy \in Int, DLeaving \in Int
      PROVE  CountInv'
  <2>1. nInUseMessageCount' = nInUseMessageCount + DPort + DQueue + DWriting + DRequesting + DPosting
    BY <1>n, <1>t, <1>z
  <2>2. nRefCount' = nRefCount + DFirst + DPort + DWriting + 2 * DBusy + DCalling + DLeaving
    BY <1>n, <1>t, <1>z
  <2>3. QED
    BY <2>1, <2>2, Balances
<1>1. CASE Dequeue(w)
  <2>1. Taken
    BY <1>1, Takes DEF TypeInv, Dequeue
  <2>2. DPort = -1
    BY <2>1 DEF Taken, DPort
  <2>3. DQueue = 0 /\ DWriting = 0 /\ DLeaving = 0 /\ worker[w].pc = "idle"
    BY <1>1, <1>q, <1>r, <1>c DEF Dequeue, WAt
  <2>4. CASE /\ worker' = [worker EXCEPT ![w] = [pc |-> "request", buf |-> Head(iocp).buf]]
             /\ AddRef /\ UNCHANGED nInUseMessageCount
    <3>1. WBecomes(w, "request", Head(iocp).buf)
      BY <2>1, <2>4, WorkerTakes DEF TypeInv, Taken, Packet
    <3>2. 1 = Request1("request") - Request1(worker[w].pc) /\ 1 = Busy1("request") - Busy1(worker[w].pc)
      BY <2>3 DEF Request1, Busy1
    <3>3. DRequesting = 1 /\ DBusy = 1
      BY <1>b, <3>1, <3>2
    <3>4. QED
      BY <1>n, <1>t, <2>2, <2>3, <2>4, <3>3 DEF AddRef
  <2>5. CASE Release(1) /\ worker' = worker /\ FreeBuffer
    BY <1>n, <1>t, <1>w, <2>2, <2>3, <2>5 DEF Release, FreeBuffer
  <2>6. CASE AddRef /\ WGoTo(w, "error") /\ FreeBuffer
    <3>1. WBecomes(w, "error", worker[w].buf)
      BY <2>6, WorkerGoes DEF TypeInv
    <3>2. 0 = Request1("error") - Request1(worker[w].pc) /\ 1 = Busy1("error") - Busy1(worker[w].pc)
      BY <2>3 DEF Request1, Busy1
    <3>3. DRequesting = 0 /\ DBusy = 1
      BY <1>b, <3>1, <3>2
    <3>4. QED
      BY <1>n, <1>t, <2>2, <2>3, <2>6, <3>3 DEF AddRef, FreeBuffer
  <2>7. QED
    BY <1>1, <2>4, <2>5, <2>6 DEF Dequeue
<1>2. CASE AddBufferInSortedToWriteQueue(w)
  <2>1. worker[w].pc = "request" /\ DPort = 0 /\ DWriting = 0 /\ DLeaving = 0
        /\ nInUseMessageCount' = nInUseMessageCount /\ nRefCount' = nRefCount
    BY <1>2, <1>i, <1>r, <1>c DEF AddBufferInSortedToWriteQueue, WAt, countVars
  <2>2. WBecomes(w, "drain", NoBuffer)
    BY <1>2, WorkerMoves
  <2>3. -1 = Request1("drain") - Request1(worker[w].pc) /\ 0 = Busy1("drain") - Busy1(worker[w].pc)
    BY <2>1 DEF Request1, Busy1
  <2>4. DRequesting = -1 /\ DBusy = 0
    BY <1>b, <2>2, <2>3
  <2>5. DQueue = 1
    <3>1. worker[w].buf \notin toWriteQueue
      BY <2>1 DEF OnePlace, InHand
    <3>2. QED
      <4>1. Cardinality(toWriteQueue \cup {worker[w].buf}) = Cardinality(toWriteQueue) + 1
        BY <1>n, <3>1, FS_AddElement
      <4>2. QED
        BY <1>2, <1>n, <4>1 DEF AddBufferInSortedToWriteQueue, DQueue
  <2>6. QED
    BY <1>n, <1>t, <2>1, <2>4, <2>5
<1>3. CASE DrainEnd(w)
  <2>1. worker[w].pc = "drain" /\ DPort = 0 /\ DWriting = 0 /\ DLeaving = 0 /\ DQueue = 0
        /\ nInUseMessageCount' = nInUseMessageCount /\ nRefCount' = nRefCount - 2
    BY <1>3, <1>i, <1>r, <1>c, <1>q DEF DrainEnd, WAt, queueVars, Release
  <2>2. WBecomes(w, "idle", worker[w].buf)
    BY <1>3, WorkerMoves
  <2>3. 0 = Request1("idle") - Request1(worker[w].pc) /\ -1 = Busy1("idle") - Busy1(worker[w].pc)
    BY <2>1 DEF Request1, Busy1
  <2>4. DRequesting = 0 /\ DBusy = -1
    BY <1>b, <2>2, <2>3
  <2>5. QED
    BY <1>n, <1>t, <2>1, <2>4
<1>4. CASE DrainDiscard(w)
  <2>1. DPort = 0 /\ DWriting = 0 /\ DLeaving = 0 /\ DRequesting = 0 /\ DBusy = 0
        /\ nInUseMessageCount' = nInUseMessageCount - 1 /\ nRefCount' = nRefCount
    BY <1>4, <1>i, <1>r, <1>c, <1>w DEF DrainDiscard, FreeBuffer
  <2>2. DQueue = -1
    BY <1>4, <1>d DEF DrainDiscard
  <2>3. QED
    BY <1>n, <1>t, <2>1, <2>2
<1>5. CASE DrainWrite(w)
  <2>1. DPort = 0 /\ DLeaving = 0 /\ DRequesting = 0 /\ DBusy = 0
        /\ nInUseMessageCount' = nInUseMessageCount /\ nRefCount' = nRefCount + 1
    BY <1>5, <1>i, <1>c, <1>w DEF DrainWrite, AddRef
  <2>2. PICK b \in Turn : toWriteQueue' = toWriteQueue \ {b} /\ writing' = Append(writing, b)
    BY <1>5 DEF DrainWrite
  <2>3. DQueue = -1
    BY <1>d, <2>2
  <2>4. DWriting = 1
    BY <1>n, <2>2, AppendProperties DEF DWriting, TypeInv, Turn
  <2>5. QED
    BY <1>n, <1>t, <2>1, <2>3, <2>4
<1>6. CASE DrainFail(w)
  <2>1. worker[w].pc = "drain" /\ DPort = 0 /\ DWriting = 0 /\ DLeaving = 0
        /\ nInUseMessageCount' = nInUseMessageCount - 1 /\ nRefCount' = nRefCount
    BY <1>6, <1>i, <1>r, <1>c DEF DrainFail, WAt, FreeBuffer
  <2>2. WBecomes(w, "error", worker[w].buf)
    BY <1>6, WorkerMoves
  <2>3. 0 = Request1("error") - Request1(worker[w].pc) /\ 0 = Busy1("error") - Busy1(worker[w].pc)
    BY <2>1 DEF Request1, Busy1
  <2>4. DRequesting = 0 /\ DBusy = 0
    BY <1>b, <2>2, <2>3
  <2>5. DQueue = -1
    BY <1>6, <1>d DEF DrainFail
  <2>6. QED
    BY <1>n, <1>t, <2>1, <2>4, <2>5
<1>7. CASE WorkerError(w)
  <2>1. worker[w].pc = "error" /\ DPort = 0 /\ DWriting = 0 /\ DQueue = 0
        /\ nInUseMessageCount' = nInUseMessageCount
    BY <1>7, <1>i, <1>r, <1>q DEF WorkerError, WAt, queueVars
  <2>2. WBecomes(w, "end", worker[w].buf)
    BY <1>7, WorkerMoves
  <2>3. 0 = Request1("end") - Request1(worker[w].pc) /\ 0 = Busy1("end") - Busy1(worker[w].pc)
    BY <2>1 DEF Request1, Busy1
  <2>4. DRequesting = 0 /\ DBusy = 0
    BY <1>b, <2>2, <2>3
  <2>5. CASE UNCHANGED <<closer, nRefCount>>
    BY <1>n, <1>t, <1>c, <2>1, <2>4, <2>5
  <2>6. CASE closer' = [closer EXCEPT ![w] = "shutdown"] /\ AddRef
    <3>1. CBecomes(w, "shutdown") /\ closer[w] = "none"
      BY <1>7, <1>n, <2>6, CloserGoes DEF TypeInv, CloserPcs, WorkerError, WAt
    <3>2. Leave1("shutdown") = 1 /\ Leave1(closer[w]) = 0
      BY <3>1 DEF Leave1
    <3>3. DLeaving = 1
      BY <1>n, <3>1, <3>2, CloserCounts, CountsTyped DEF DLeaving
    <3>4. QED
      BY <1>n, <1>t, <2>1, <2>4, <2>6, <3>3 DEF AddRef
  <2>7. QED
    BY <1>7, <2>5, <2>6 DEF WorkerError
<1>8. CASE WorkerEnd(w)
  <2>1. worker[w].pc = "end" /\ DPort = 0 /\ DWriting = 0 /\ DLeaving = 0 /\ DQueue = 0
        /\ nInUseMessageCount' = nInUseMessageCount /\ nRefCount' = nRefCount - 2
    BY <1>8, <1>i, <1>r, <1>c, <1>q DEF WorkerEnd, WAt, queueVars, Release
  <2>2. WBecomes(w, "idle", worker[w].buf)
    BY <1>8, WorkerMoves
  <2>3. 0 = Request1("idle") - Request1(worker[w].pc) /\ -1 = Busy1("idle") - Busy1(worker[w].pc)
    BY <2>1 DEF Request1, Busy1
  <2>4. DRequesting = 0 /\ DBusy = -1
    BY <1>b, <2>2, <2>3
  <2>5. QED
    BY <1>n, <1>t, <2>1, <2>4
<1>9. QED
  BY <1>1, <1>2, <1>3, <1>4, <1>5, <1>6, <1>7, <1>8 DEF WorkerStep

\* So does every other step.
LEMMA OtherCount ==
  ASSUME TypeInv, TypeInv', CountInv, ReleaseInv,
         \/ \E t \in Threads : CloserStep(t)
         \/ \E t \in Closers : CallDisconnectAgent(t)
         \/ WriteCompletes \/ SignalShutdown \/ UNCHANGED vars
  PROVE  CountInv'
<1>0. UNCHANGED <<sender, worker, toWriteQueue, nInUseMessageCount>>
  BY DEF CloserStep, ShutdownConnection, DiscardAllBuffers, LeaveDisconnect, CallDisconnectAgent, WriteCompletes,
         SignalShutdown, vars, queueVars, countVars
<1>n. /\ Len(iocp) \in Int /\ Len(writing) \in Int /\ Cardinality(toWriteQueue) \in Int
      /\ nInUseMessageCount \in Int /\ nRefCount \in Int /\ First1 \in Int
  BY Numbers
<1>z. DPosting = 0 /\ DCalling = 0 /\ DRequesting = 0 /\ DBusy = 0 /\ DQueue = 0
  BY <1>0, <1>n, SameCounts, CountsTyped DEF DPosting, DCalling, DRequesting, DBusy, DQueue
<1>i. iocp' = iocp /\ writing' = writing => DPort = 0 /\ DWriting = 0
  BY <1>n DEF DPort, DWriting
<1>f. initialRef' = initialRef => DFirst = 0
  BY <1>n DEF DFirst, First1
<1>c. closer' = closer => DLeaving = 0
  BY SameCounts, CountsTyped DEF DLeaving
<1>t. ASSUME DPort \in Int, DWriting \in Int, DFirst \in Int, DLeaving \in Int, DPort + DWriting = 0,
             nRefCount' = nRefCount + DFirst + DLeaving
      PROVE  CountInv'
  <2>1. nInUseMessageCount' = nInUseMessageCount + DPort + DQueue + DWriting + DRequesting + DPosting
    BY <1>0, <1>n, <1>t, <1>z
  <2>2. nRefCount' = nRefCount + DFirst + DPort + DWriting + 2 * DBusy + DCalling + DLeaving
    BY <1>n, <1>t, <1>z
  <2>3. QED
    BY <2>1, <2>2, Balances
<1>b. ASSUME NEW t \in Threads, NEW p, CBecomes(t, p), NEW x \in Int, x = Leave1(p) - Leave1(closer[t])
      PROVE  DLeaving = x
  BY <1>b, CloserCounts, CountsTyped DEF DLeaving, Leave1
<1>1. ASSUME NEW t \in Threads, ShutdownConnection(t) PROVE CountInv'
  <2>1. DFirst = 0 /\ nRefCount' = nRefCount /\ closer[t] = "shutdown"
    BY <1>1, <1>f DEF ShutdownConnection, countVars
  <2>2. DLeaving = 0
    <3>1. PICK p \in {"discard", "leave"} : CBecomes(t, p)
      BY <1>1, CloserMoves
    <3>2. 0 = Leave1(p) - Leave1(closer[t])
      BY <2>1 DEF Leave1
    <3>3. QED
      BY <1>b, <3>1, <3>2
  <2>3. DPort \in Int /\ DWriting \in Int /\ DPort + DWriting = 0
    <3>1. CASE nState = "connected"
      <4>1. Len(iocp') = Len(iocp) + Len(writing) /\ writing' = <<>>
        BY <1>1, <3>1, ClosingCompletes DEF ShutdownConnection
      <4>2. Len(writing') = 0
        BY <4>1
      <4>3. QED
        BY <1>n, <4>1, <4>2 DEF DPort, DWriting
    <3>2. CASE nState # "connected"
      BY <1>1, <1>i, <3>2 DEF ShutdownConnection
    <3>3. QED
      BY <3>1, <3>2
  <2>4. QED
    BY <1>n, <1>t, <2>1, <2>2, <2>3
<1>2. ASSUME NEW t \in Threads, DiscardAllBuffers(t) PROVE CountInv'
  <2>1. DFirst = 0 /\ nRefCount' = nRefCount /\ closer[t] = "discard" /\ DPort = 0 /\ DWriting = 0
    BY <1>2, <1>f, <1>i DEF DiscardAllBuffers, countVars, connVars
  <2>2. DLeaving = 0
    <3>1. CBecomes(t, "release")
      BY <1>2, CloserMoves
    <3>2. 0 = Leave1("release") - Leave1(closer[t])
      BY <2>1 DEF Leave1
    <3>3. QED
      BY <1>b, <3>1, <3>2
  <2>3. QED
    BY <1>n, <1>t, <2>1, <2>2
<1>3. ASSUME NEW t \in Threads, LeaveDisconnect(t) PROVE CountInv'
  <2>1. DPort = 0 /\ DWriting = 0 /\ closer[t] \in {"release", "leave"}
    BY <1>3, <1>i DEF LeaveDisconnect, queueVars
  <2>2. DLeaving = -1
    <3>1. PICK p \in {"none", "done"} : CBecomes(t, p)
      BY <1>3, CloserMoves
    <3>2. -1 = Leave1(p) - Leave1(closer[t])
      BY <2>1 DEF Leave1
    <3>3. QED
      BY <1>b, <3>1, <3>2
  <2>3. CASE closer[t] = "release"
    <3>1. initialRef /\ ~initialRef' /\ nRefCount' = nRefCount - 2
      BY <1>3, <2>3 DEF LeaveDisconnect, ReleaseInv, Release
    <3>2. DFirst = -1
      BY <3>1 DEF DFirst, First1
    <3>3. QED
      BY <1>n, <1>t, <2>1, <2>2, <3>1, <3>2
  <2>4. CASE closer[t] = "leave"
    <3>1. nRefCount' = nRefCount - 1
      BY <1>3, <2>4 DEF LeaveDisconnect, Release
    <3>2. initialRef' <=> initialRef
      BY <1>3, <2>4, Zenon DEF LeaveDisconnect
    <3>3. DFirst = 0
      BY <3>2 DEF DFirst, First1
    <3>4. QED
      BY <1>n, <1>t, <2>1, <2>2, <3>1, <3>3
  <2>5. QED
    BY <2>1, <2>3, <2>4
<1>4. ASSUME NEW t \in Closers, CallDisconnectAgent(t) PROVE CountInv'
  <2>1. DFirst = 0 /\ nRefCount' = nRefCount + 1 /\ closer[t] = "none" /\ DPort = 0 /\ DWriting = 0
    BY <1>4, <1>f, <1>i DEF CallDisconnectAgent, AddRef, connVars, queueVars
  <2>2. DLeaving = 1
    <3>1. t \in Threads /\ CBecomes(t, "shutdown")
      BY <1>4, CloserMoves DEF Threads
    <3>2. 1 = Leave1("shutdown") - Leave1(closer[t])
      BY <2>1 DEF Leave1
    <3>3. QED
      BY <1>b, <3>1, <3>2
  <2>3. QED
    BY <1>n, <1>t, <2>1, <2>2
<1>5. ASSUME WriteCompletes PROVE CountInv'
  <2>1. DFirst = 0 /\ nRefCount' = nRefCount /\ DLeaving = 0
    BY <1>5, <1>f, <1>c DEF WriteCompletes, countVars, connVars
  <2>2. DPort = 1 /\ DWriting = -1
    BY <1>5, <1>n, Completes DEF DPort, DWriting
  <2>3. QED
    BY <1>n, <1>t, <2>1, <2>2
<1>6. ASSUME SignalShutdown PROVE CountInv'
  <2>1. DFirst = 0 /\ nRefCount' = nRefCount /\ DLeaving = 0 /\ DPort = 0 /\ DWriting = 0
    BY <1>6, <1>f, <1>c, <1>i DEF SignalShutdown, countVars, connVars, queueVars
  <2>2. QED
    BY <1>n, <1>t, <2>1
<1>7. ASSUME UNCHANGED vars PROVE CountInv'
  <2>1. DFirst = 0 /\ nRefCount' = nRefCount /\ DLeaving = 0 /\ DPort = 0 /\ DWriting = 0
    BY <1>7, <1>f, <1>c, <1>i DEF vars, countVars, connVars, queueVars
  <2>2. QED
    BY <1>n, <1>t, <2>1
<1>8. QED
  BY <1>1, <1>2, <1>3, <1>4, <1>5, <1>6, <1>7 DEF CloserStep

----------------------------------------------------------------------------
(* The end of the connection *)

Other ==
  \/ \E t \in Threads : CloserStep(t)
  \/ \E t \in Closers : CallDisconnectAgent(t)
  \/ WriteCompletes \/ SignalShutdown \/ UNCHANGED vars

\* Every step is one of a sender, of a worker, or another one.
LEMMA Steps ==
  ASSUME [Next]_vars
  PROVE  \/ \E s \in Senders : SenderStep(s)
         \/ \E w \in Workers : WorkerStep(w)
         \/ Other
BY DEF Next, Other, Threads

\* What a sender's step leaves alone.
LEMMA SenderLeaves ==
  ASSUME NEW s \in Senders, SenderStep(s)
  PROVE  UNCHANGED <<connVars, toWriteQueue, writing, discarded, nNextWriteOrderToProcess, shuttingDown, worker,
                     closer, wire>>
BY DEF SenderStep, Find, CheckConnected, TakeOrder, Post, AddRefForPart, SendMsg, AddRefForMsg, queueVars, orderVars

\* What a worker's step leaves alone.
LEMMA WorkerLeaves ==
  ASSUME NEW w \in Workers, WorkerStep(w)
  PROVE  UNCHANGED <<nState, initialRef, discarded, nNextWriteOrder, shuttingDown, sender, lost>>
BY DEF WorkerStep, Dequeue, AddBufferInSortedToWriteQueue, DrainEnd, DrainDiscard, DrainWrite, DrainFail,
       WorkerError, WorkerEnd, connVars, queueVars, orderVars

\* What the other steps leave alone.
LEMMA OtherLeaves ==
  ASSUME Other
  PROVE  UNCHANGED <<toWriteQueue, orderVars, sender, worker, wire, lost>>
BY DEF Other, CloserStep, ShutdownConnection, DiscardAllBuffers, LeaveDisconnect, CallDisconnectAgent, WriteCompletes,
       SignalShutdown, vars, queueVars

\* Only one thread gives the connection's first reference up.
LEMMA ReleaseStep ==
  ASSUME TypeInv, ReleaseInv, [Next]_vars
  PROVE  ReleaseInv'
<1>1. ASSUME UNCHANGED <<nState, initialRef>>,
             \A t \in Threads : closer'[t] \in {"discard", "release"} => closer[t] \in {"discard", "release"}
      PROVE  ReleaseInv'
  BY <1>1 DEF ReleaseInv
<1>2. CASE \E s \in Senders : SenderStep(s)
  BY <1>1, <1>2, SenderLeaves DEF connVars
<1>3. ASSUME NEW w \in Workers, WorkerStep(w) PROVE ReleaseInv'
  <2>1. w \in Threads
    BY DEF Threads
  <2>2. closer' = closer \/ CBecomes(w, "shutdown")
    BY <1>3, <2>1, CloserMoves DEF WorkerStep, Dequeue, AddBufferInSortedToWriteQueue, DrainEnd, DrainDiscard,
                                   DrainWrite, DrainFail, WorkerEnd
  <2>3. \A t \in Threads : closer'[t] \in {"discard", "release"} => closer[t] \in {"discard", "release"}
    BY <2>2 DEF CBecomes
  <2>4. QED
    BY <1>1, <1>3, <2>3, WorkerLeaves
<1>4. ASSUME NEW t \in Threads, ShutdownConnection(t) PROVE ReleaseInv'
  <2>1. CBecomes(t, IF nState = "connected" THEN "discard" ELSE "leave") /\ initialRef' = initialRef
    BY <1>4, CloserMoves DEF ShutdownConnection
  <2>2. CASE nState = "connected"
    <3>1. \A u \in Threads : closer[u] \notin {"discard", "release"}
      BY <2>2 DEF ReleaseInv
    <3>2. \A u \in Threads : closer'[u] \in {"discard", "release"} => u = t
      BY <2>1, <3>1 DEF CBecomes
    <3>3. initialRef /\ nState' = "destroying"
      BY <1>4, <2>2 DEF ShutdownConnection, ReleaseInv
    <3>4. QED
      BY <2>1, <3>2, <3>3 DEF ReleaseInv
  <2>3. CASE nState # "connected"
    <3>1. CBecomes(t, "leave") /\ nState' = nState
      BY <1>4, <2>1, <2>3 DEF ShutdownConnection
    <3>2. \A u \in Threads : closer'[u] \in {"discard", "release"} => closer[u] \in {"discard", "release"}
      BY <3>1 DEF CBecomes
    <3>3. QED
      BY <1>1, <2>1, <3>1, <3>2
  <2>4. QED
    BY <2>2, <2>3
<1>5. ASSUME NEW t \in Threads, DiscardAllBuffers(t) PROVE ReleaseInv'
  <2>1. CBecomes(t, "release") /\ closer[t] = "discard"
    BY <1>5, CloserMoves DEF DiscardAllBuffers
  <2>2. \A u \in Threads : closer'[u] \in {"discard", "release"} => closer[u] \in {"discard", "release"}
    BY <2>1 DEF CBecomes
  <2>3. QED
    BY <1>1, <1>5, <2>2 DEF DiscardAllBuffers, connVars
<1>6. ASSUME NEW t \in Threads, LeaveDisconnect(t) PROVE ReleaseInv'
  <2>1. PICK p \in {"none", "done"} : CBecomes(t, p)
    BY <1>6, CloserMoves
  <2>2. closer'[t] \notin {"discard", "release"} /\ nState' = nState
    BY <1>6, <2>1 DEF CBecomes, LeaveDisconnect
  <2>3. \A u \in Threads : closer'[u] \in {"discard", "release"} => u # t /\ closer[u] \in {"discard", "release"}
    BY <2>1, <2>2 DEF CBecomes
  <2>4. CASE closer[t] = "leave"
    <3>1. initialRef' <=> initialRef
      BY <1>6, <2>4, Zenon DEF LeaveDisconnect
    <3>2. QED
      BY <2>2, <2>3, <3>1 DEF ReleaseInv
  <2>5. CASE closer[t] = "release"
    <3>1. nState # "connected" /\ \A u \in Threads : closer[u] \in {"discard", "release"} => u = t
      BY <2>5 DEF ReleaseInv
    <3>2. QED
      BY <2>2, <2>3, <3>1 DEF ReleaseInv
  <2>6. QED
    BY <1>6, <2>4, <2>5 DEF LeaveDisconnect
<1>7. ASSUME NEW t \in Closers, CallDisconnectAgent(t) PROVE ReleaseInv'
  <2>1. t \in Threads /\ CBecomes(t, "shutdown")
    BY <1>7, CloserMoves DEF Threads
  <2>2. \A u \in Threads : closer'[u] \in {"discard", "release"} => closer[u] \in {"discard", "release"}
    BY <2>1 DEF CBecomes
  <2>3. QED
    BY <1>1, <1>7, <2>2 DEF CallDisconnectAgent, connVars
<1>8. CASE WriteCompletes \/ SignalShutdown \/ UNCHANGED vars
  BY <1>1, <1>8 DEF WriteCompletes, SignalShutdown, vars, connVars
<1>9. QED
  BY <1>2, <1>3, <1>4, <1>5, <1>6, <1>7, <1>8, Steps DEF Other, CloserStep

\* A connection that is ending does not come back.
LEMMA EndingStays ==
  ASSUME TypeInv, PlaceInv, [Next]_vars, Ending
  PROVE  Ending'
<1>1. CASE \E s \in Senders : SenderStep(s)
  <2>1. UNCHANGED <<nState, shuttingDown, worker, closer>>
    BY <1>1, SenderLeaves DEF connVars
  <2>2. QED
    BY <2>1 DEF Ending, WAt
<1>2. ASSUME NEW w \in Workers, WorkerStep(w) PROVE Ending'
  <2>0. w \in Threads /\ worker \in [Workers -> WorkerRec] /\ closer \in [Threads -> CloserPcs]
    BY DEF Threads, TypeInv
  <2>1. CASE WorkerError(w)
    <3>1. CASE shuttingDown
      BY <1>2, <3>1, WorkerLeaves DEF Ending
    <3>2. CASE ~shuttingDown
      <4>1. closer'[w] = "shutdown"
        BY <2>0, <2>1, <3>2 DEF WorkerError
      <4>2. QED
        BY <4>1 DEF Ending
    <3>3. QED
      BY <3>1, <3>2
  <2>2. CASE ~WorkerError(w)
    <3>1. closer' = closer
      BY <1>2, <2>2 DEF WorkerStep, Dequeue, AddBufferInSortedToWriteQueue, DrainEnd, DrainDiscard,
                        DrainWrite, DrainFail, WorkerEnd
    <3>2. ~WAt(w, "error")
      BY <1>2, <2>2 DEF WorkerStep, Dequeue, AddBufferInSortedToWriteQueue, DrainEnd, DrainDiscard,
                        DrainWrite, DrainFail, WorkerEnd, WAt
    <3>3. \A v \in Workers \ {w} : worker'[v] = worker[v]
      <4>1. worker' = worker \/ \E p, b : WBecomes(w, p, b)
        <5>1. DrainDiscard(w) \/ DrainWrite(w) => worker' = worker
          BY DEF DrainDiscard, DrainWrite
        <5>2. QED
          BY <1>2, <2>2, <5>1, WorkerMoves DEF WorkerStep
      <4>2. QED
        BY <4>1 DEF WBecomes
    <3>4. QED
      BY <1>2, <3>1, <3>2, <3>3, WorkerLeaves DEF Ending, WAt
  <2>3. QED
    BY <2>1, <2>2
<1>3. ASSUME NEW t \in Threads, CloserStep(t) PROVE Ending'
  <2>1. CASE ShutdownConnection(t)
    BY <2>1 DEF ShutdownConnection, Ending, TypeInv
  <2>2. CASE DiscardAllBuffers(t) \/ LeaveDisconnect(t)
    <3>1. UNCHANGED <<nState, shuttingDown, worker>> /\ closer[t] \notin {"none", "shutdown"}
      BY <2>2 DEF DiscardAllBuffers, LeaveDisconnect, connVars
    <3>2. \A u \in Threads \ {t} : closer'[u] = closer[u]
      BY <2>2, CloserMoves DEF CBecomes
    <3>3. \A u \in Threads : closer[u] \in {"none", "shutdown"} => closer'[u] = closer[u]
      BY <3>1, <3>2
    <3>4. QED
      BY <3>1, <3>3 DEF Ending, WAt, Threads
  <2>3. QED
    BY <1>3, <2>1, <2>2 DEF CloserStep
<1>4. ASSUME NEW t \in Closers, CallDisconnectAgent(t) PROVE Ending'
  <2>1. t \in Threads /\ CBecomes(t, "shutdown")
    BY <1>4, CloserMoves DEF Threads
  <2>2. QED
    BY <2>1 DEF CBecomes, Ending, Threads
<1>5. CASE WriteCompletes \/ UNCHANGED vars
  <2>1. UNCHANGED <<nState, shuttingDown, worker, closer>>
    BY <1>5 DEF WriteCompletes, vars, connVars
  <2>2. QED
    BY <2>1 DEF Ending, WAt
<1>6. CASE SignalShutdown
  BY <1>6 DEF SignalShutdown, Ending
<1>7. QED
  BY <1>1, <1>2, <1>3, <1>4, <1>5, <1>6, Steps DEF Other

\* Buffers are discarded only when the connection is closed.
LEMMA DiscardStep ==
  ASSUME TypeInv, PlaceInv, ReleaseInv, DiscardInv, [Next]_vars
  PROVE  DiscardInv'
<1>1. ASSUME ~Ending' PROVE discarded' = {}
  <2>1. ~Ending /\ discarded = {}
    BY <1>1, EndingStays DEF DiscardInv
  <2>2. ASSUME NEW t \in Threads, DiscardAllBuffers(t) PROVE FALSE
    BY <2>1, <2>2 DEF DiscardAllBuffers, ReleaseInv, Ending
  <2>3. discarded' = discarded
    <3>1. \A s \in Senders : SenderStep(s) => discarded' = discarded
      BY SenderLeaves
    <3>2. \A w \in Workers : WorkerStep(w) => discarded' = discarded
      BY WorkerLeaves
    <3>3. Other => discarded' = discarded
      BY <2>2 DEF Other, CloserStep, ShutdownConnection, LeaveDisconnect, CallDisconnectAgent, WriteCompletes,
                  SignalShutdown, vars, queueVars
    <3>4. QED
      BY <3>1, <3>2, <3>3, Steps
  <2>4. QED
    BY <2>1, <2>3
<1>2. QED
  BY <1>1 DEF DiscardInv

----------------------------------------------------------------------------
(* What each step does to the requests *)

\* Packets keep their place, or move up by one.
PortShifts(d) ==
  \A i \in DOMAIN iocp' : iocp'[i].kind = "request" => i + d \in DOMAIN iocp /\ iocp[i + d] = iocp'[i]
PortKeeps ==
  \A i \in DOMAIN iocp : iocp[i].kind = "request" =>
    \E j \in DOMAIN iocp' : iocp'[j].kind = "request" /\ iocp'[j].buf = iocp[i].buf

PostsSame == \A s \in Senders :
  /\ sender'[s].pc = "post" <=> sender[s].pc = "post"
  /\ sender[s].pc = "post" => sender'[s].order = sender[s].order /\ sender'[s].part = sender[s].part
HandsSame == \A w \in Workers :
  /\ worker'[w].pc = "request" <=> worker[w].pc = "request"
  /\ worker[w].pc = "request" => worker'[w].buf = worker[w].buf

Untouched ==
  /\ UNCHANGED <<toWriteQueue, orderVars, wire, lost>>
  /\ \E d \in {0, 1} : PortShifts(d)
  /\ PortKeeps /\ PostsSame /\ HandsSame

TakesOrder(s) ==
  /\ UNCHANGED <<iocp, worker, toWriteQueue, nNextWriteOrderToProcess, wire, lost>>
  /\ nNextWriteOrder' = nNextWriteOrder + 1
  /\ sender[s].pc = "order" /\ SBecomes(s, "post", sender[s].part, nNextWriteOrder + 1)
Posts(s) ==
  /\ UNCHANGED <<worker, toWriteQueue, orderVars, wire, lost>>
  /\ sender[s].pc = "post" /\ SBecomes(s, "addref", sender[s].part, sender[s].order)
  /\ PostsRequest(s, sender[s].order) /\ BufferOf(s) \in Buffer
PostFails(s) ==
  /\ UNCHANGED <<iocp, worker, toWriteQueue, orderVars, wire>> /\ lost'
  /\ sender[s].pc = "post" /\ SBecomes(s, "done", sender[s].part, sender[s].order)
Sends(s) ==
  /\ UNCHANGED <<worker, toWriteQueue, nNextWriteOrderToProcess, wire, lost>>
  /\ nNextWriteOrder' = nNextWriteOrder + 1
  /\ sender[s].pc = "send" /\ SBecomes(s, "sendAddref", sender[s].part, nNextWriteOrder + 1)
  /\ PostsRequest(s, nNextWriteOrder + 1)
  /\ [order |-> nNextWriteOrder + 1, from |-> s, part |-> sender[s].part] \in Buffer
SendFails(s) ==
  /\ UNCHANGED <<iocp, worker, toWriteQueue, nNextWriteOrderToProcess, wire>> /\ lost'
  /\ nNextWriteOrder' = nNextWriteOrder + 1
  /\ sender[s].pc = "send" /\ SBecomes(s, "done", sender[s].part, sender[s].order)
TakesRequest(w) ==
  /\ UNCHANGED <<sender, toWriteQueue, orderVars, wire, lost>>
  /\ Taken /\ iocp[1].kind = "request"
  /\ worker[w].pc = "idle" /\ WBecomes(w, "request", iocp[1].buf)
DropsRequest ==
  /\ UNCHANGED <<sender, toWriteQueue, orderVars, wire, lost>>
  /\ Taken /\ iocp[1].kind = "request" /\ discarded # {}
  /\ HandsSame
Queues(w) ==
  /\ UNCHANGED <<sender, iocp, orderVars, wire, lost>>
  /\ worker[w].pc = "request" /\ WBecomes(w, "drain", NoBuffer)
  /\ toWriteQueue' = toWriteQueue \cup {worker[w].buf}
Drains(b) ==
  /\ UNCHANGED <<sender, iocp, nNextWriteOrder, lost>>
  /\ HandsSame
  /\ b \in Turn /\ toWriteQueue' = toWriteQueue \ {b}
  /\ nNextWriteOrderToProcess' = nNextWriteOrderToProcess + 1
  /\ wire' = Append(wire, b) \/ (wire' = wire /\ (discarded # {} \/ Ending'))

SenderEffect(s) == Untouched \/ TakesOrder(s) \/ Posts(s) \/ PostFails(s) \/ Sends(s) \/ SendFails(s)
WorkerEffect(w) == Untouched \/ TakesRequest(w) \/ DropsRequest \/ Queues(w) \/ \E b \in Turn : Drains(b)

\* A port that is left alone shifts by nothing.
LEMMA PortSame ==
  /\ TypeInv /\ iocp' = iocp => PortKeeps /\ \E d \in {0, 1} : PortShifts(d)
  /\ TypeInv /\ Completed => PortKeeps /\ \E d \in {0, 1} : PortShifts(d)
  /\ TypeInv /\ Taken /\ iocp[1].kind # "request" => PortKeeps /\ \E d \in {0, 1} : PortShifts(d)
<1>1. ASSUME TypeInv, iocp' = iocp PROVE PortKeeps /\ \E d \in {0, 1} : PortShifts(d)
  <2>0. DOMAIN iocp = 1..Len(iocp) /\ Len(iocp) \in Nat
    BY <1>1, LenProperties DEF TypeInv
  <2>1. PortShifts(0)
    BY <1>1, <2>0 DEF PortShifts
  <2>2. QED
    BY <1>1, <2>1 DEF PortKeeps
<1>2. ASSUME TypeInv, Completed PROVE PortKeeps /\ \E d \in {0, 1} : PortShifts(d)
  <2>0. DOMAIN iocp = 1..Len(iocp) /\ DOMAIN iocp' = 1..Len(iocp') /\ Len(iocp) \in Nat /\ Len(iocp') \in Nat
    BY <1>2, LenProperties DEF TypeInv, Completed
  <2>1. PortShifts(0)
    BY <1>2, <2>0 DEF PortShifts, Completed
  <2>2. PortKeeps
    BY <1>2, <2>0 DEF PortKeeps, Completed
  <2>3. QED
    BY <2>1, <2>2
<1>3. ASSUME TypeInv, Taken, iocp[1].kind # "request" PROVE PortKeeps /\ \E d \in {0, 1} : PortShifts(d)
  <2>0. DOMAIN iocp = 1..Len(iocp) /\ DOMAIN iocp' = 1..Len(iocp') /\ Len(iocp) \in Nat /\ Len(iocp') \in Nat
    BY <1>3, LenProperties DEF TypeInv, Taken
  <2>1. PortShifts(1)
    BY <1>3, <2>0 DEF PortShifts, Taken
  <2>2. PortKeeps
    <3>1. ASSUME NEW i \in DOMAIN iocp, iocp[i].kind = "request"
          PROVE  i - 1 \in DOMAIN iocp' /\ iocp'[i - 1] = iocp[i]
      <4>1. i # 1 /\ i \in 1..Len(iocp) /\ Len(iocp') = Len(iocp) - 1
        BY <1>3, <2>0, <3>1 DEF Taken
      <4>2. i - 1 \in 1..Len(iocp') /\ (i - 1) + 1 = i
        BY <2>0, <4>1
      <4>3. iocp'[i - 1] = iocp[(i - 1) + 1]
        BY <1>3, <4>2 DEF Taken
      <4>4. QED
        BY <2>0, <4>2, <4>3
    <3>2. QED
      BY <3>1 DEF PortKeeps
  <2>3. QED
    BY <2>1, <2>2
<1>4. QED
  BY <1>1, <1>2, <1>3

\* The effect of a sender's step.
LEMMA SenderEffects ==
  ASSUME TypeInv, PlaceInv, NEW s \in Senders, SenderStep(s)
  PROVE  SenderEffect(s)
<1>0. UNCHANGED <<toWriteQueue, nNextWriteOrderToProcess, worker, wire>>
  BY SenderLeaves
<1>u. ASSUME iocp' = iocp, nNextWriteOrder' = nNextWriteOrder, lost' = lost, NEW p, NEW k, NEW o, SBecomes(s, p, k, o),
             p # "post", sender[s].pc # "post"
      PROVE  Untouched
  <2>1. PortKeeps /\ \E d \in {0, 1} : PortShifts(d)
    BY <1>u, PortSame
  <2>2. PostsSame
    BY <1>u DEF PostsSame, SBecomes
  <2>3. QED
    BY <1>0, <1>u, <2>1, <2>2 DEF Untouched, HandsSame, orderVars
<1>1. CASE Find(s)
  <2>1. PICK p \in {"done", "check", "send"} : SBecomes(s, p, sender[s].part, sender[s].order)
    BY <1>1, SenderMoves
  <2>2. Untouched
    BY <1>1, <1>u, <2>1 DEF Find, SAt, queueVars, orderVars
  <2>3. QED
    BY <2>2 DEF SenderEffect
<1>2. CASE CheckConnected(s)
  <2>1. PICK p \in {"done", "order"} : SBecomes(s, p, sender[s].part, sender[s].order)
    BY <1>2, SenderMoves
  <2>2. Untouched
    BY <1>2, <1>u, <2>1 DEF CheckConnected, SAt, queueVars, orderVars
  <2>3. QED
    BY <2>2 DEF SenderEffect
<1>3. CASE TakeOrder(s)
  <2>1. TakesOrder(s)
    BY <1>0, <1>3, SenderMoves DEF TakesOrder, TakeOrder, SAt, queueVars
  <2>2. QED
    BY <2>1 DEF SenderEffect
<1>4. CASE Post(s)
  <2>1. sender[s].pc = "post" /\ UNCHANGED orderVars
    BY <1>4 DEF Post, SAt
  <2>2. CASE /\ PostsRequest(s, sender[s].order) /\ BufferOf(s) \in Buffer
             /\ SBecomes(s, "addref", sender[s].part, sender[s].order) /\ lost' = lost
    <3>1. Posts(s)
      BY <1>0, <2>1, <2>2 DEF Posts
    <3>2. QED
      BY <3>1 DEF SenderEffect
  <2>3. CASE iocp' = iocp /\ lost' = TRUE /\ SBecomes(s, "done", sender[s].part, sender[s].order)
    <3>1. PostFails(s)
      BY <1>0, <2>1, <2>3 DEF PostFails
    <3>2. QED
      BY <3>1 DEF SenderEffect
  <2>4. QED
    BY <1>4, <2>2, <2>3, PostEffect
<1>5. CASE AddRefForPart(s)
  <2>1. PICK p \in {"order", "start"} : SBecomes(s, p, sender[s].part + 1, sender[s].order)
    BY <1>5, SenderMoves
  <2>2. Untouched
    BY <1>5, <1>u, <2>1 DEF AddRefForPart, SAt, queueVars, orderVars
  <2>3. QED
    BY <2>2 DEF SenderEffect
<1>6. CASE SendMsg(s)
  <2>1. sender[s].pc = "send"
    BY <1>6 DEF SendMsg, SAt
  <2>2. CASE /\ UNCHANGED <<nNextWriteOrder, iocp, lost>>
             /\ SBecomes(s, "done", sender[s].part, sender[s].order)
    <3>1. Untouched
      BY <1>u, <2>1, <2>2
    <3>2. QED
      BY <3>1 DEF SenderEffect
  <2>3. CASE /\ nNextWriteOrder' = nNextWriteOrder + 1
             /\ PostsRequest(s, nNextWriteOrder + 1)
             /\ [order |-> nNextWriteOrder + 1, from |-> s, part |-> sender[s].part] \in Buffer
             /\ SBecomes(s, "sendAddref", sender[s].part, nNextWriteOrder + 1)
             /\ lost' = lost
    <3>1. Sends(s)
      BY <1>0, <2>1, <2>3 DEF Sends
    <3>2. QED
      BY <3>1 DEF SenderEffect
  <2>4. CASE /\ nNextWriteOrder' = nNextWriteOrder + 1
             /\ iocp' = iocp /\ lost' = TRUE
             /\ SBecomes(s, "done", sender[s].part, sender[s].order)
    <3>1. SendFails(s)
      BY <1>0, <2>1, <2>4 DEF SendFails
    <3>2. QED
      BY <3>1 DEF SenderEffect
  <2>5. QED
    BY <1>6, <2>2, <2>3, <2>4, PostEffect
<1>7. CASE AddRefForMsg(s)
  <2>1. SBecomes(s, "done", sender[s].part + 1, sender[s].order)
    BY <1>7, SenderMoves
  <2>2. Untouched
    BY <1>7, <1>u, <2>1 DEF AddRefForMsg, SAt, queueVars, orderVars
  <2>3. QED
    BY <2>2 DEF SenderEffect
<1>8. QED
  BY <1>1, <1>2, <1>3, <1>4, <1>5, <1>6, <1>7 DEF SenderStep

\* The effect of a worker's step.
LEMMA WorkerEffects ==
  ASSUME TypeInv, PlaceInv, NEW w \in Workers, WorkerStep(w)
  PROVE  WorkerEffect(w)
<1>0. UNCHANGED <<nNextWriteOrder, sender, lost>>
  BY WorkerLeaves
<1>h. ASSUME NEW p, NEW b, WBecomes(w, p, b) \/ worker' = worker, p # "request", worker[w].pc # "request"
      PROVE  HandsSame
  BY <1>h DEF HandsSame, WBecomes
<1>u. ASSUME UNCHANGED <<toWriteQueue, nNextWriteOrderToProcess, wire>>, PortKeeps, \E d \in {0, 1} : PortShifts(d),
             HandsSame
      PROVE  Untouched
  BY <1>0, <1>u DEF Untouched, PostsSame, orderVars
<1>1. CASE Dequeue(w)
  <2>1. Taken /\ worker[w].pc = "idle" /\ UNCHANGED <<toWriteQueue, nNextWriteOrderToProcess, wire, orderVars>>
    BY <1>1, Takes DEF TypeInv, Dequeue, WAt, orderVars
  <2>2. Head(iocp) = iocp[1]
    BY <2>1 DEF Taken
  <2>3. CASE Head(iocp).kind = "request" /\ Head(iocp).buf.order \notin discarded
    <3>1. worker' = [worker EXCEPT ![w] = [pc |-> "request", buf |-> Head(iocp).buf]]
      BY <1>1, <2>3 DEF Dequeue
    <3>2. WBecomes(w, "request", iocp[1].buf)
      BY <2>1, <2>2, <3>1, WorkerTakes DEF TypeInv, Taken, Packet
    <3>3. TakesRequest(w)
      BY <1>0, <2>1, <2>2, <2>3, <3>2 DEF TakesRequest
    <3>4. QED
      BY <3>3 DEF WorkerEffect
  <2>4. CASE ~(Head(iocp).kind = "request" /\ Head(iocp).buf.order \notin discarded)
    <3>1. worker' = worker \/ WGoTo(w, "error")
      BY <1>1, <2>4 DEF Dequeue
    <3>2. WBecomes(w, "error", worker[w].buf) \/ worker' = worker
      BY <3>1, WorkerGoes DEF TypeInv
    <3>3. HandsSame
      BY <1>h, <2>1, <3>2
    <3>4. CASE Head(iocp).kind = "request"
      <4>1. DropsRequest
        BY <1>0, <2>1, <2>2, <2>4, <3>3, <3>4 DEF DropsRequest
      <4>2. QED
        BY <4>1 DEF WorkerEffect
    <3>5. CASE Head(iocp).kind # "request"
      <4>1. Untouched
        BY <1>u, <2>1, <2>2, <3>3, <3>5, PortSame
      <4>2. QED
        BY <4>1 DEF WorkerEffect
    <3>6. QED
      BY <3>4, <3>5
  <2>5. QED
    BY <2>3, <2>4
<1>2. CASE AddBufferInSortedToWriteQueue(w)
  <2>1. Queues(w)
    BY <1>0, <1>2, WorkerMoves DEF AddBufferInSortedToWriteQueue, WAt, Queues
  <2>2. QED
    BY <2>1 DEF WorkerEffect
<1>3. CASE DrainEnd(w)
  <2>1. HandsSame
    BY <1>3, <1>h, WorkerMoves DEF DrainEnd, WAt
  <2>2. Untouched
    BY <1>3, <1>u, <2>1, PortSame DEF DrainEnd, queueVars, orderVars
  <2>3. QED
    BY <2>2 DEF WorkerEffect
<1>4. CASE DrainDiscard(w)
  <2>1. PICK b \in Turn : b.order \in discarded /\ toWriteQueue' = toWriteQueue \ {b}
    BY <1>4 DEF DrainDiscard
  <2>2. HandsSame
    BY <1>4 DEF DrainDiscard, HandsSame
  <2>3. Drains(b)
    BY <1>0, <1>4, <2>1, <2>2 DEF Drains, DrainDiscard
  <2>4. QED
    BY <2>3 DEF WorkerEffect
<1>5. CASE DrainWrite(w)
  <2>1. PICK b \in Turn : toWriteQueue' = toWriteQueue \ {b} /\ wire' = Append(wire, b)
    BY <1>5 DEF DrainWrite
  <2>2. HandsSame
    BY <1>5 DEF DrainWrite, HandsSame
  <2>3. Drains(b)
    BY <1>0, <1>5, <2>1, <2>2 DEF Drains, DrainWrite
  <2>4. QED
    BY <2>3 DEF WorkerEffect
<1>6. CASE DrainFail(w)
  <2>1. PICK b \in Turn : toWriteQueue' = toWriteQueue \ {b}
    BY <1>6 DEF DrainFail
  <2>2. worker[w].pc = "drain" /\ WBecomes(w, "error", worker[w].buf) /\ closer' = closer /\ closer[w] = "none"
    BY <1>6, WorkerMoves DEF DrainFail, WAt
  <2>3. HandsSame
    BY <1>h, <2>2
  <2>4. Ending'
    BY <2>2 DEF Ending, WAt, WBecomes
  <2>5. Drains(b)
    BY <1>0, <1>6, <2>1, <2>3, <2>4 DEF Drains, DrainFail
  <2>6. QED
    BY <2>5 DEF WorkerEffect
<1>7. CASE WorkerError(w)
  <2>1. HandsSame
    BY <1>7, <1>h, WorkerMoves DEF WorkerError, WAt
  <2>2. Untouched
    BY <1>7, <1>u, <2>1, PortSame DEF WorkerError, queueVars, orderVars
  <2>3. QED
    BY <2>2 DEF WorkerEffect
<1>8. CASE WorkerEnd(w)
  <2>1. HandsSame
    BY <1>8, <1>h, WorkerMoves DEF WorkerEnd, WAt
  <2>2. Untouched
    BY <1>8, <1>u, <2>1, PortSame DEF WorkerEnd, queueVars, orderVars
  <2>3. QED
    BY <2>2 DEF WorkerEffect
<1>9. QED
  BY <1>1, <1>2, <1>3, <1>4, <1>5, <1>6, <1>7, <1>8 DEF WorkerStep

\* Other steps leave the requests alone.
LEMMA OtherEffects ==
  ASSUME TypeInv, Other
  PROVE  Untouched
<1>1. UNCHANGED <<toWriteQueue, orderVars, sender, worker, wire, lost>>
  BY OtherLeaves
<1>2. PortKeeps /\ \E d \in {0, 1} : PortShifts(d)
  <2>1. iocp' = iocp \/ Completed
    BY Completes, ClosingCompletes DEF Other, CloserStep, ShutdownConnection, DiscardAllBuffers, LeaveDisconnect,
       CallDisconnectAgent, SignalShutdown, vars, queueVars
  <2>2. QED
    BY <2>1, PortSame
<1>3. QED
  BY <1>1, <1>2 DEF Untouched, PostsSame, HandsSame

----------------------------------------------------------------------------
(* The orders of the requests *)

OrderInv == DueInv /\ OnePlace

\* The types of the orders and of the packets in the port.
LEMMA PortDomain ==
  ASSUME TypeInv
  PROVE  /\ DOMAIN iocp = 1..Len(iocp) /\ Len(iocp) \in Nat
         /\ \A i \in DOMAIN iocp : iocp[i] \in Packet /\ iocp[i].buf \in Buffer /\ iocp[i].buf.order \in Nat
         /\ \A b \in toWriteQueue : b \in Buffer /\ b.order \in Nat
         /\ nNextWriteOrder \in Nat /\ nNextWriteOrderToProcess \in Nat
         /\ \A s \in Senders : sender[s].order \in Nat
<1>1. DOMAIN iocp = 1..Len(iocp) /\ Len(iocp) \in Nat
  BY LenProperties DEF TypeInv
<1>2. \A i \in DOMAIN iocp : iocp[i] \in Packet
  BY <1>1, ElementOfSeq DEF TypeInv
<1>3. \A i \in DOMAIN iocp : iocp[i].buf \in Buffer /\ iocp[i].buf.order \in Nat
  BY <1>2 DEF Packet, Buffer
<1>4. \A b \in toWriteQueue : b \in Buffer /\ b.order \in Nat
  BY DEF TypeInv, Buffer
<1>5. \A s \in Senders : sender[s].order \in Nat
  BY DEF TypeInv, SenderRec
<1>6. QED
  BY <1>1, <1>2, <1>3, <1>4, <1>5 DEF TypeInv

\* The same after the step.
LEMMA PortDomainNext ==
  ASSUME TypeInv'
  PROVE  /\ DOMAIN iocp' = 1..Len(iocp') /\ Len(iocp') \in Nat
         /\ nNextWriteOrder' \in Nat /\ nNextWriteOrderToProcess' \in Nat
BY LenProperties DEF TypeInv

\* Due after the step.
DueNext(o) == nNextWriteOrderToProcess' <= o /\ o <= nNextWriteOrder'

\* Requests that stay where they are, or go, keep the invariant.
LEMMA OrdersShrink ==
  ASSUME TypeInv, TypeInv', OrderInv, nNextWriteOrderToProcess' = nNextWriteOrderToProcess,
         nNextWriteOrder <= nNextWriteOrder', NEW d \in {0, 1}, PortShifts(d),
         \A s \in Senders : sender'[s].pc = "post" => sender[s].pc = "post" /\ sender'[s].order = sender[s].order,
         HandsSame, toWriteQueue' = toWriteQueue
  PROVE  OrderInv'
<1>1. \A i \in DOMAIN iocp' : InPort(i)' => InPort(i + d) /\ iocp[i + d] = iocp'[i]
  BY DEF InPort, PortShifts
<1>2. \A s \in Senders : InPost(s)' => InPost(s) /\ sender'[s].order = sender[s].order
  BY DEF InPost, SAt
<1>3. \A w \in Workers : InHand(w)' => InHand(w) /\ worker'[w].buf = worker[w].buf
  BY DEF InHand, HandsSame
<1>4. \A o \in Nat : Due(o) => DueNext(o)
  BY PortDomain, PortDomainNext DEF Due, DueNext
<1>5. DOMAIN iocp' \subseteq Nat
  BY PortDomainNext
<1>7. DueInv'
  <2>1. nNextWriteOrderToProcess' <= nNextWriteOrder' + 1
    BY PortDomain, PortDomainNext DEF OrderInv, DueInv
  <2>3. \A s \in Senders : InPost(s)' => DueNext(sender'[s].order)
    BY <1>2, <1>4, PortDomain DEF OrderInv, DueInv
  <2>4. \A i \in DOMAIN iocp' : InPort(i)' => DueNext(iocp'[i].buf.order)
    <3>1. ASSUME NEW i \in DOMAIN iocp', InPort(i)' PROVE DueNext(iocp'[i].buf.order)
      <4>1. i + d \in DOMAIN iocp /\ InPort(i + d) /\ iocp[i + d] = iocp'[i]
        BY <1>1, <3>1 DEF InPort
      <4>2. Due(iocp[i + d].buf.order) /\ iocp[i + d].buf.order \in Nat
        BY <4>1, PortDomain DEF OrderInv, DueInv
      <4>3. QED
        BY <1>4, <4>1, <4>2
    <3>2. QED
      BY <3>1
  <2>5. \A w \in Workers : InHand(w)' => DueNext(worker'[w].buf.order)
    <3>1. ASSUME NEW w \in Workers, InHand(w)' PROVE DueNext(worker'[w].buf.order)
      <4>1. InHand(w) /\ worker'[w].buf = worker[w].buf
        BY <1>3, <3>1
      <4>2. Due(worker[w].buf.order) /\ worker[w].buf.order \in Nat
        BY <4>1 DEF OrderInv, DueInv, TypeInv, WorkerRec, Buffer, NoBuffer
      <4>3. QED
        BY <1>4, <4>1, <4>2
    <3>2. QED
      BY <3>1
  <2>6. \A b \in toWriteQueue' : DueNext(b.order)
    BY <1>4, PortDomain DEF OrderInv, DueInv
  <2>7. QED
    BY <2>1, <2>3, <2>4, <2>5, <2>6 DEF DueInv, Due, DueNext
<1>8. OnePlace'
  <2>1. \A s, r \in Senders : InPost(s)' /\ InPost(r)' /\ sender'[s].order = sender'[r].order => s = r
    BY <1>2 DEF OrderInv, OnePlace
  <2>2. \A i, j \in DOMAIN iocp' : InPort(i)' /\ InPort(j)' /\ iocp'[i].buf.order = iocp'[j].buf.order => i = j
    <3>1. ASSUME NEW i \in DOMAIN iocp', NEW j \in DOMAIN iocp', InPort(i)', InPort(j)',
                 iocp'[i].buf.order = iocp'[j].buf.order
          PROVE  i = j
      <4>1. i + d = j + d
        BY <1>1, <3>1 DEF OrderInv, OnePlace, InPort
      <4>2. QED
        BY <1>5, <4>1
    <3>2. QED
      BY <3>1
  <2>3. \A w, v \in Workers : InHand(w)' /\ InHand(v)' /\ worker'[w].buf.order = worker'[v].buf.order => w = v
    BY <1>3 DEF OrderInv, OnePlace
  <2>4. \A b, c \in toWriteQueue' : b.order = c.order => b = c
    BY DEF OrderInv, OnePlace
  <2>5. \A s \in Senders : InPost(s)' =>
          /\ \A i \in DOMAIN iocp' : InPort(i)' => iocp'[i].buf.order # sender'[s].order
          /\ \A w \in Workers : InHand(w)' => worker'[w].buf.order # sender'[s].order
          /\ \A b \in toWriteQueue' : b.order # sender'[s].order
    BY <1>1, <1>2, <1>3 DEF OrderInv, OnePlace, InPort
  <2>6. \A i \in DOMAIN iocp' : InPort(i)' =>
          /\ \A w \in Workers : InHand(w)' => worker'[w].buf.order # iocp'[i].buf.order
          /\ \A b \in toWriteQueue' : b.order # iocp'[i].buf.order
    BY <1>1, <1>3 DEF OrderInv, OnePlace, InPort
  <2>7. \A w \in Workers : InHand(w)' => \A b \in toWriteQueue' : b.order # worker'[w].buf.order
    BY <1>3 DEF OrderInv, OnePlace
  <2>8. QED
    BY <2>1, <2>2, <2>3, <2>4, <2>5, <2>6, <2>7 DEF OnePlace
<1>9. QED
  BY <1>7, <1>8 DEF OrderInv

\* Where a request with the order o is put: at one place, and it is nowhere else.
PostsPut(pl, x, o) == \A s \in Senders : sender'[s].pc = "post" =>
  \/ pl = "post" /\ s = x /\ sender'[s].order = o
  \/ sender[s].pc = "post" /\ sender'[s].order = sender[s].order /\ sender[s].order # o
PortPut(pl, x, o, d) == \A i \in DOMAIN iocp' : iocp'[i].kind = "request" =>
  \/ pl = "port" /\ i = x /\ iocp'[i].buf.order = o
  \/ i + d \in DOMAIN iocp /\ iocp[i + d] = iocp'[i] /\ iocp'[i].buf.order # o
HandsPut(pl, x, o) == \A w \in Workers : worker'[w].pc = "request" =>
  \/ pl = "hand" /\ w = x /\ worker'[w].buf.order = o
  \/ worker[w].pc = "request" /\ worker'[w].buf = worker[w].buf /\ worker[w].buf.order # o
QueuePut(pl, x, o) == \A b \in toWriteQueue' :
  \/ pl = "queue" /\ b = x /\ b.order = o
  \/ b \in toWriteQueue /\ b.order # o

\* A request that is put at one place, and is nowhere else, keeps the invariant.
LEMMA OrdersMove ==
  ASSUME TypeInv, TypeInv', OrderInv, nNextWriteOrderToProcess' = nNextWriteOrderToProcess,
         nNextWriteOrder <= nNextWriteOrder', NEW d \in {0, 1},
         NEW pl \in {"post", "port", "hand", "queue"}, NEW x, NEW o \in Nat, DueNext(o),
         PostsPut(pl, x, o), PortPut(pl, x, o, d), HandsPut(pl, x, o), QueuePut(pl, x, o)
  PROVE  OrderInv'
<1>1. \A i \in DOMAIN iocp' : InPort(i)' =>
        \/ pl = "port" /\ i = x /\ iocp'[i].buf.order = o
        \/ InPort(i + d) /\ i + d \in DOMAIN iocp /\ iocp[i + d] = iocp'[i] /\ iocp'[i].buf.order # o
  BY DEF InPort, PortPut
<1>2. \A s \in Senders : InPost(s)' =>
        \/ pl = "post" /\ s = x /\ sender'[s].order = o
        \/ InPost(s) /\ sender'[s].order = sender[s].order /\ sender[s].order # o
  BY DEF InPost, SAt, PostsPut
<1>3. \A w \in Workers : InHand(w)' =>
        \/ pl = "hand" /\ w = x /\ worker'[w].buf.order = o
        \/ InHand(w) /\ worker'[w].buf = worker[w].buf /\ worker[w].buf.order # o
  BY DEF InHand, HandsPut
<1>4. \A b \in toWriteQueue' :
        \/ pl = "queue" /\ b = x /\ b.order = o
        \/ b \in toWriteQueue /\ b.order # o
  BY DEF QueuePut
<1>5. DOMAIN iocp' \subseteq Nat
  BY PortDomainNext
<1>6. \A q \in Nat : Due(q) => DueNext(q)
  BY PortDomain, PortDomainNext DEF Due, DueNext
<1>7. DueInv'
  <2>1. nNextWriteOrderToProcess' <= nNextWriteOrder' + 1
    BY PortDomain, PortDomainNext DEF OrderInv, DueInv
  <2>2. \A s \in Senders : InPost(s)' => DueNext(sender'[s].order)
    BY <1>2, <1>6, PortDomain DEF OrderInv, DueInv
  <2>3. \A i \in DOMAIN iocp' : InPort(i)' => DueNext(iocp'[i].buf.order)
    <3>1. ASSUME NEW i \in DOMAIN iocp', InPort(i)', InPort(i + d), i + d \in DOMAIN iocp, iocp[i + d] = iocp'[i]
          PROVE  DueNext(iocp'[i].buf.order)
      <4>1. Due(iocp[i + d].buf.order) /\ iocp[i + d].buf.order \in Nat
        BY <3>1, PortDomain DEF OrderInv, DueInv
      <4>2. QED
        BY <1>6, <3>1, <4>1
    <3>2. QED
      BY <1>1, <3>1
  <2>4. \A w \in Workers : InHand(w)' => DueNext(worker'[w].buf.order)
    <3>1. ASSUME NEW w \in Workers, InHand(w)', InHand(w), worker'[w].buf = worker[w].buf
          PROVE  DueNext(worker'[w].buf.order)
      <4>1. Due(worker[w].buf.order) /\ worker[w].buf.order \in Nat
        BY <3>1 DEF OrderInv, DueInv, TypeInv, WorkerRec, Buffer, NoBuffer
      <4>2. QED
        BY <1>6, <3>1, <4>1
    <3>2. QED
      BY <1>3, <3>1
  <2>5. \A b \in toWriteQueue' : DueNext(b.order)
    BY <1>4, <1>6, PortDomain DEF OrderInv, DueInv
  <2>6. QED
    BY <2>1, <2>2, <2>3, <2>4, <2>5 DEF DueInv, Due, DueNext
<1>8. OnePlace'
  <2>1. \A s, r \in Senders : InPost(s)' /\ InPost(r)' /\ sender'[s].order = sender'[r].order => s = r
    BY <1>2 DEF OrderInv, OnePlace
  <2>2. \A i, j \in DOMAIN iocp' : InPort(i)' /\ InPort(j)' /\ iocp'[i].buf.order = iocp'[j].buf.order => i = j
    <3>1. ASSUME NEW i \in DOMAIN iocp', NEW j \in DOMAIN iocp', InPort(i)', InPort(j)',
                 iocp'[i].buf.order = iocp'[j].buf.order
          PROVE  i = j
      <4>1. CASE iocp'[i].buf.order = o
        BY <1>1, <3>1, <4>1
      <4>2. CASE iocp'[i].buf.order # o
        <5>1. /\ InPort(i + d) /\ i + d \in DOMAIN iocp /\ iocp[i + d] = iocp'[i]
              /\ InPort(j + d) /\ j + d \in DOMAIN iocp /\ iocp[j + d] = iocp'[j]
          BY <1>1, <3>1, <4>2
        <5>2. i + d = j + d
          BY <3>1, <5>1 DEF OrderInv, OnePlace
        <5>3. QED
          BY <1>5, <5>2
      <4>3. QED
        BY <4>1, <4>2
    <3>2. QED
      BY <3>1
  <2>3. \A w, v \in Workers : InHand(w)' /\ InHand(v)' /\ worker'[w].buf.order = worker'[v].buf.order => w = v
    BY <1>3 DEF OrderInv, OnePlace
  <2>4. \A b, c \in toWriteQueue' : b.order = c.order => b = c
    BY <1>4 DEF OrderInv, OnePlace
  <2>5. ASSUME NEW s \in Senders, InPost(s)'
        PROVE  /\ \A i \in DOMAIN iocp' : InPort(i)' => iocp'[i].buf.order # sender'[s].order
               /\ \A w \in Workers : InHand(w)' => worker'[w].buf.order # sender'[s].order
               /\ \A b \in toWriteQueue' : b.order # sender'[s].order
    <3>1. \A i \in DOMAIN iocp' : InPort(i)' => iocp'[i].buf.order # sender'[s].order
      BY <1>1, <1>2, <2>5 DEF OrderInv, OnePlace
    <3>2. \A w \in Workers : InHand(w)' => worker'[w].buf.order # sender'[s].order
      BY <1>2, <1>3, <2>5 DEF OrderInv, OnePlace
    <3>3. \A b \in toWriteQueue' : b.order # sender'[s].order
      BY <1>2, <1>4, <2>5 DEF OrderInv, OnePlace
    <3>4. QED
      BY <3>1, <3>2, <3>3
  <2>6. ASSUME NEW i \in DOMAIN iocp', InPort(i)'
        PROVE  /\ \A w \in Workers : InHand(w)' => worker'[w].buf.order # iocp'[i].buf.order
               /\ \A b \in toWriteQueue' : b.order # iocp'[i].buf.order
    <3>1. \A w \in Workers : InHand(w)' => worker'[w].buf.order # iocp'[i].buf.order
      BY <1>1, <1>3, <2>6 DEF OrderInv, OnePlace
    <3>2. \A b \in toWriteQueue' : b.order # iocp'[i].buf.order
      BY <1>1, <1>4, <2>6 DEF OrderInv, OnePlace
    <3>3. QED
      BY <3>1, <3>2
  <2>7. \A w \in Workers : InHand(w)' => \A b \in toWriteQueue' : b.order # worker'[w].buf.order
    BY <1>3, <1>4 DEF OrderInv, OnePlace
  <2>8. QED
    BY <2>1, <2>2, <2>3, <2>4, <2>5, <2>6, <2>7 DEF OnePlace
<1>9. QED
  BY <1>7, <1>8 DEF OrderInv

\* The request whose turn it is goes.
LEMMA OrdersDrain ==
  ASSUME TypeInv, TypeInv', OrderInv, NEW b \in Turn, Drains(b)
  PROVE  OrderInv'
<1>0. b \in toWriteQueue /\ b.order = nNextWriteOrderToProcess
  BY DEF Turn
<1>1. /\ iocp' = iocp /\ sender' = sender /\ toWriteQueue' = toWriteQueue \ {b}
      /\ nNextWriteOrder' = nNextWriteOrder /\ nNextWriteOrderToProcess' = nNextWriteOrderToProcess + 1
  BY DEF Drains
<1>2. \A s \in Senders : InPost(s)' => InPost(s)
  BY <1>1 DEF InPost, SAt
<1>3. \A i \in DOMAIN iocp : InPort(i)' => InPort(i)
  BY <1>1 DEF InPort
<1>4. \A w \in Workers : InHand(w)' => InHand(w) /\ worker'[w].buf = worker[w].buf
  BY DEF Drains, InHand, HandsSame
<1>5. \A q \in Nat : Due(q) /\ q # b.order => DueNext(q)
  BY <1>0, <1>1, PortDomain DEF Due, DueNext
<1>6. DueInv'
  <2>1. nNextWriteOrderToProcess' <= nNextWriteOrder' + 1
    <3>1. Due(b.order)
      BY <1>0 DEF OrderInv, DueInv
    <3>2. QED
      BY <1>0, <1>1, <3>1, PortDomain DEF Due
  <2>2. \A s \in Senders : InPost(s)' => DueNext(sender'[s].order)
    BY <1>0, <1>1, <1>2, <1>5, PortDomain DEF OrderInv, DueInv, OnePlace
  <2>3. \A i \in DOMAIN iocp' : InPort(i)' => DueNext(iocp'[i].buf.order)
    BY <1>0, <1>1, <1>3, <1>5, PortDomain DEF OrderInv, DueInv, OnePlace
  <2>4. \A w \in Workers : InHand(w)' => DueNext(worker'[w].buf.order)
    <3>1. ASSUME NEW w \in Workers, InHand(w)' PROVE DueNext(worker'[w].buf.order)
      <4>1. InHand(w) /\ worker'[w].buf = worker[w].buf
        BY <1>4, <3>1
      <4>2. Due(worker[w].buf.order) /\ worker[w].buf.order # b.order /\ worker[w].buf.order \in Nat
        BY <1>0, <4>1 DEF OrderInv, DueInv, OnePlace, TypeInv, WorkerRec, Buffer, NoBuffer
      <4>3. QED
        BY <1>5, <4>1, <4>2
    <3>2. QED
      BY <3>1
  <2>5. \A c \in toWriteQueue' : DueNext(c.order)
    BY <1>0, <1>1, <1>5, PortDomain DEF OrderInv, DueInv, OnePlace
  <2>6. QED
    BY <2>1, <2>2, <2>3, <2>4, <2>5 DEF DueInv, Due, DueNext
<1>7. OnePlace'
  BY <1>1, <1>2, <1>3, <1>4 DEF OrderInv, OnePlace
<1>8. QED
  BY <1>6, <1>7 DEF OrderInv

\* The orders, after a sender's step.
LEMMA OrdersSender ==
  ASSUME TypeInv, TypeInv', PlaceInv, OrderInv, NEW s \in Senders, SenderStep(s)
  PROVE  OrderInv'
<1>0. SenderEffect(s) /\ worker' = worker /\ toWriteQueue' = toWriteQueue
  BY SenderEffects, SenderLeaves
<1>h. HandsSame
  BY <1>0 DEF HandsSame
<1>d. /\ DOMAIN iocp = 1..Len(iocp) /\ Len(iocp) \in Nat /\ DOMAIN iocp' = 1..Len(iocp') /\ Len(iocp') \in Nat
      /\ nNextWriteOrder \in Nat /\ nNextWriteOrderToProcess \in Nat /\ sender[s].order \in Nat
  BY PortDomain, PortDomainNext
<1>1. CASE Untouched
  <2>1. PICK d \in {0, 1} : PortShifts(d)
    BY <1>1 DEF Untouched
  <2>2. \A r \in Senders : sender'[r].pc = "post" => sender[r].pc = "post" /\ sender'[r].order = sender[r].order
    BY <1>1 DEF Untouched, PostsSame
  <2>3. UNCHANGED <<nNextWriteOrder, nNextWriteOrderToProcess>>
    BY <1>1 DEF Untouched, orderVars
  <2>4. QED
    BY <1>0, <1>d, <1>h, <2>1, <2>2, <2>3, OrdersShrink
<1>2. CASE TakesOrder(s)
  <2> DEFINE o == nNextWriteOrder + 1
  <2>1. o \in Nat /\ nNextWriteOrder' = o /\ nNextWriteOrderToProcess' = nNextWriteOrderToProcess /\ iocp' = iocp
    BY <1>2, <1>d DEF TakesOrder
  <2>2. DueNext(o) /\ \A q \in Nat : Due(q) => q # o
    BY <1>d, <2>1 DEF DueNext, Due, OrderInv, DueInv
  <2> HIDE DEF o
  <2>3. SBecomes(s, "post", sender[s].part, o)
    BY <1>2 DEF TakesOrder, o
  <2>4. PostsPut("post", s, o)
    BY <2>2, <2>3, PortDomain DEF PostsPut, SBecomes, OrderInv, DueInv, InPost, SAt
  <2>5. PortPut("post", s, o, 0)
    BY <1>d, <2>1, <2>2, PortDomain DEF PortPut, OrderInv, DueInv, InPort
  <2>6. HandsPut("post", s, o)
    BY <1>0, <2>2 DEF HandsPut, OrderInv, DueInv, InHand, PlaceInv, Buffer
  <2>7. QueuePut("post", s, o)
    BY <1>0, <2>2, PortDomain DEF QueuePut, OrderInv, DueInv
  <2>8. nNextWriteOrder <= nNextWriteOrder'
    BY <1>d, <2>1 DEF o
  <2>9. QED
    BY <2>1, <2>2, <2>4, <2>5, <2>6, <2>7, <2>8, OrdersMove
<1>3. CASE Posts(s)
  <2> DEFINE o == sender[s].order
             x == Len(iocp) + 1
  <2>1. UNCHANGED <<nNextWriteOrder, nNextWriteOrderToProcess>> /\ InPost(s) /\ SBecomes(s, "addref", sender[s].part, o)
    BY <1>3 DEF Posts, InPost, SAt, orderVars
  <2>2. DueNext(o)
    BY <2>1 DEF DueNext, Due, OrderInv, DueInv
  <2>3. PostsPut("port", x, o)
    BY <2>1 DEF PostsPut, SBecomes, OrderInv, OnePlace, InPost, SAt
  <2>4. PortPut("port", x, o, 0)
    <3>1. ASSUME NEW i \in DOMAIN iocp', iocp'[i].kind = "request", i # x
          PROVE  i + 0 \in DOMAIN iocp /\ iocp[i + 0] = iocp'[i] /\ iocp'[i].buf.order # o
      <4>1. i \in DOMAIN iocp /\ i + 0 = i /\ iocp[i] = iocp'[i]
        BY <1>3, <1>d, <3>1 DEF Posts, PostsRequest, Put
      <4>2. iocp[i].buf.order # o
        BY <2>1, <3>1, <4>1 DEF OrderInv, OnePlace, InPort
      <4>3. QED
        BY <4>1, <4>2
    <3>2. iocp'[x].buf.order = o
      BY <1>3 DEF Posts, PostsRequest, Put, BufferOf
    <3>3. QED
      BY <3>1, <3>2 DEF PortPut
  <2>5. HandsPut("port", x, o)
    BY <1>0, <2>1 DEF HandsPut, OrderInv, OnePlace, InHand
  <2>6. QueuePut("port", x, o)
    BY <1>0, <2>1 DEF QueuePut, OrderInv, OnePlace
  <2>7. nNextWriteOrder <= nNextWriteOrder'
    BY <1>d, <2>1
  <2> HIDE DEF o, x
  <2>8. o \in Nat
    BY <1>d DEF o
  <2>9. QED
    BY <2>1, <2>2, <2>3, <2>4, <2>5, <2>6, <2>7, <2>8, OrdersMove
<1>4. CASE PostFails(s)
  <2>1. UNCHANGED <<iocp, nNextWriteOrder, nNextWriteOrderToProcess>>
        /\ SBecomes(s, "done", sender[s].part, sender[s].order)
    BY <1>4 DEF PostFails, orderVars
  <2>2. PortShifts(0)
    BY <1>d, <2>1 DEF PortShifts
  <2>3. \A r \in Senders : sender'[r].pc = "post" => sender[r].pc = "post" /\ sender'[r].order = sender[r].order
    BY <2>1 DEF SBecomes
  <2>4. QED
    BY <1>0, <1>d, <1>h, <2>1, <2>2, <2>3, OrdersShrink
<1>5. CASE Sends(s)
  <2> DEFINE o == nNextWriteOrder + 1
             x == Len(iocp) + 1
  <2>1. /\ o \in Nat /\ nNextWriteOrder' = o /\ nNextWriteOrderToProcess' = nNextWriteOrderToProcess
        /\ SBecomes(s, "sendAddref", sender[s].part, o)
    BY <1>5, <1>d DEF Sends
  <2>2. DueNext(o) /\ \A q \in Nat : Due(q) => q # o
    BY <1>d, <2>1 DEF DueNext, Due, OrderInv, DueInv
  <2>3. iocp'[x].buf.order = o /\ \A i \in DOMAIN iocp' \ {x} : i \in DOMAIN iocp /\ i + 0 = i /\ iocp[i] = iocp'[i]
    BY <1>5, <1>d DEF Sends, PostsRequest, Put
  <2>4. nNextWriteOrder <= nNextWriteOrder'
    BY <1>d, <2>1
  <2> HIDE DEF o, x
  <2>5. PostsPut("port", x, o)
    BY <2>1, <2>2, PortDomain DEF PostsPut, SBecomes, OrderInv, DueInv, InPost, SAt
  <2>6. PortPut("port", x, o, 0)
    BY <1>d, <2>2, <2>3, PortDomain DEF PortPut, OrderInv, DueInv, InPort
  <2>7. HandsPut("port", x, o)
    BY <1>0, <2>2 DEF HandsPut, OrderInv, DueInv, InHand, PlaceInv, Buffer
  <2>8. QueuePut("port", x, o)
    BY <1>0, <2>2, PortDomain DEF QueuePut, OrderInv, DueInv
  <2>9. QED
    BY <2>1, <2>2, <2>4, <2>5, <2>6, <2>7, <2>8, OrdersMove
<1>6. CASE SendFails(s)
  <2>1. /\ iocp' = iocp /\ nNextWriteOrder' = nNextWriteOrder + 1
        /\ nNextWriteOrderToProcess' = nNextWriteOrderToProcess
        /\ SBecomes(s, "done", sender[s].part, sender[s].order)
    BY <1>6 DEF SendFails
  <2>2. PortShifts(0) /\ nNextWriteOrder <= nNextWriteOrder'
    BY <1>d, <2>1 DEF PortShifts
  <2>3. \A r \in Senders : sender'[r].pc = "post" => sender[r].pc = "post" /\ sender'[r].order = sender[r].order
    BY <2>1 DEF SBecomes
  <2>4. QED
    BY <1>0, <1>d, <1>h, <2>1, <2>2, <2>3, OrdersShrink
<1>7. QED
  BY <1>0, <1>1, <1>2, <1>3, <1>4, <1>5, <1>6 DEF SenderEffect

\* The orders, after a worker's step.
LEMMA OrdersWorker ==
  ASSUME TypeInv, TypeInv', PlaceInv, OrderInv, NEW w \in Workers, WorkerStep(w)
  PROVE  OrderInv'
<1>0. WorkerEffect(w) /\ sender' = sender /\ nNextWriteOrder' = nNextWriteOrder
  BY WorkerEffects, WorkerLeaves
<1>d. /\ DOMAIN iocp = 1..Len(iocp) /\ Len(iocp) \in Nat /\ DOMAIN iocp' = 1..Len(iocp') /\ Len(iocp') \in Nat
      /\ nNextWriteOrder \in Nat /\ nNextWriteOrder <= nNextWriteOrder'
  BY <1>0, PortDomain, PortDomainNext
<1>p. \A r \in Senders : sender'[r].pc = "post" => sender[r].pc = "post" /\ sender'[r].order = sender[r].order
  BY <1>0
<1>1. CASE Untouched
  <2>1. PICK d \in {0, 1} : PortShifts(d)
    BY <1>1 DEF Untouched
  <2>2. nNextWriteOrderToProcess' = nNextWriteOrderToProcess /\ HandsSame /\ toWriteQueue' = toWriteQueue
    BY <1>1 DEF Untouched, orderVars
  <2>3. QED
    BY <1>d, <1>p, <2>1, <2>2, OrdersShrink
<1>2. CASE TakesRequest(w)
  <2> DEFINE o == iocp[1].buf.order
  <2>1. /\ 1 \in DOMAIN iocp /\ InPort(1) /\ o \in Nat /\ Due(o)
        /\ nNextWriteOrderToProcess' = nNextWriteOrderToProcess /\ toWriteQueue' = toWriteQueue
        /\ WBecomes(w, "request", iocp[1].buf)
    <3>1. 1 \in DOMAIN iocp
      BY <1>2, <1>d DEF TakesRequest, Taken
    <3>2. InPort(1)
      BY <1>2, <3>1 DEF TakesRequest, InPort
    <3>3. QED
      BY <1>2, <3>1, <3>2, PortDomain DEF TakesRequest, orderVars, OrderInv, DueInv
  <2>2. DueNext(o)
    BY <1>0, <2>1 DEF DueNext, Due
  <2>3. PostsPut("hand", w, o)
    BY <1>0, <2>1 DEF PostsPut, OrderInv, OnePlace, InPost, SAt
  <2>4. PortPut("hand", w, o, 1)
    <3>1. ASSUME NEW i \in DOMAIN iocp', iocp'[i].kind = "request"
          PROVE  i + 1 \in DOMAIN iocp /\ iocp[i + 1] = iocp'[i] /\ iocp'[i].buf.order # o
      <4>1. i + 1 \in DOMAIN iocp /\ iocp[i + 1] = iocp'[i] /\ i + 1 # 1
        BY <1>2, <1>d DEF TakesRequest, Taken
      <4>2. iocp[i + 1].buf.order # o
        BY <2>1, <3>1, <4>1 DEF OrderInv, OnePlace, InPort
      <4>3. QED
        BY <4>1, <4>2
    <3>2. QED
      BY <3>1 DEF PortPut
  <2>5. HandsPut("hand", w, o)
    BY <2>1 DEF HandsPut, WBecomes, OrderInv, OnePlace, InHand
  <2>6. QueuePut("hand", w, o)
    BY <2>1 DEF QueuePut, OrderInv, OnePlace
  <2> HIDE DEF o
  <2>7. QED
    BY <1>d, <2>1, <2>2, <2>3, <2>4, <2>5, <2>6, OrdersMove
<1>3. CASE DropsRequest
  <2>1. nNextWriteOrderToProcess' = nNextWriteOrderToProcess /\ HandsSame /\ toWriteQueue' = toWriteQueue
    BY <1>3 DEF DropsRequest, orderVars
  <2>2. PortShifts(1)
    BY <1>3, <1>d DEF DropsRequest, Taken, PortShifts
  <2>3. QED
    BY <1>d, <1>p, <2>1, <2>2, OrdersShrink
<1>4. CASE Queues(w)
  <2> DEFINE x == worker[w].buf
             o == x.order
  <2>1. /\ InHand(w) /\ x \in Buffer /\ o \in Nat /\ Due(o)
        /\ nNextWriteOrderToProcess' = nNextWriteOrderToProcess /\ iocp' = iocp /\ toWriteQueue' = toWriteQueue \cup {x}
        /\ WBecomes(w, "drain", NoBuffer)
    <3>1. InHand(w)
      BY <1>4 DEF Queues, InHand
    <3>2. x \in Buffer /\ o \in Nat
      BY <3>1 DEF InHand, PlaceInv, Buffer
    <3>3. QED
      BY <1>4, <3>1, <3>2 DEF Queues, orderVars, OrderInv, DueInv
  <2>2. DueNext(o)
    BY <1>0, <2>1 DEF DueNext, Due
  <2>3. PostsPut("queue", x, o)
    BY <1>0, <2>1 DEF PostsPut, OrderInv, OnePlace, InPost, SAt
  <2>4. PortPut("queue", x, o, 0)
    BY <1>d, <2>1 DEF PortPut, OrderInv, OnePlace, InPort
  <2>5. HandsPut("queue", x, o)
    BY <2>1 DEF HandsPut, WBecomes, OrderInv, OnePlace, InHand
  <2>6. QueuePut("queue", x, o)
    BY <2>1 DEF QueuePut, OrderInv, OnePlace
  <2> HIDE DEF x, o
  <2>7. QED
    BY <1>d, <2>1, <2>2, <2>3, <2>4, <2>5, <2>6, OrdersMove
<1>5. CASE \E b \in Turn : Drains(b)
  BY <1>5, OrdersDrain
<1>6. QED
  BY <1>0, <1>1, <1>2, <1>3, <1>4, <1>5 DEF WorkerEffect

\* No step puts a request in two places, or leaves one that is not due.
LEMMA OrderStep ==
  ASSUME TypeInv, TypeInv', PlaceInv, OrderInv, [Next]_vars
  PROVE  OrderInv'
<1>1. CASE Other
  <2>1. Untouched /\ UNCHANGED <<toWriteQueue, orderVars, sender, worker>>
    BY <1>1, OtherEffects, OtherLeaves
  <2>2. PICK d \in {0, 1} : PortShifts(d)
    BY <2>1 DEF Untouched
  <2>3. nNextWriteOrder <= nNextWriteOrder' /\ nNextWriteOrderToProcess' = nNextWriteOrderToProcess
    BY <2>1, PortDomain DEF orderVars
  <2>4. HandsSame
    BY <2>1 DEF HandsSame
  <2>5. QED
    BY <2>1, <2>2, <2>3, <2>4, OrdersShrink
<1>2. QED
  BY <1>1, Steps, OrdersSender, OrdersWorker

----------------------------------------------------------------------------
(* The wire *)

\* Only a buffer whose turn it is goes onto the wire.
LEMMA WireEffect ==
  ASSUME TypeInv, PlaceInv, [Next]_vars
  PROVE  \/ /\ wire' = wire /\ nNextWriteOrderToProcess' = nNextWriteOrderToProcess
         \/ \E b \in Turn : Drains(b)
<1>1. CASE \E s \in Senders : SenderStep(s)
  BY <1>1, SenderLeaves
<1>2. ASSUME NEW w \in Workers, WorkerStep(w), ~\E b \in Turn : Drains(b)
      PROVE  wire' = wire /\ nNextWriteOrderToProcess' = nNextWriteOrderToProcess
  BY <1>2, WorkerEffects DEF WorkerEffect, Untouched, TakesRequest, DropsRequest, Queues, orderVars
<1>3. CASE Other
  BY <1>3, OtherLeaves DEF orderVars
<1>4. QED
  BY <1>1, <1>2, <1>3, Steps

\* The types of what is on the wire.
LEMMA WireDomain ==
  ASSUME TypeInv
  PROVE  /\ DOMAIN wire = 1..Len(wire) /\ Len(wire) \in Nat
         /\ \A i \in DOMAIN wire : wire[i] \in Buffer /\ wire[i].order \in Nat
<1>1. DOMAIN wire = 1..Len(wire) /\ Len(wire) \in Nat
  BY LenProperties DEF TypeInv
<1>2. \A i \in DOMAIN wire : wire[i] \in Buffer
  BY <1>1, ElementOfSeq DEF TypeInv
<1>3. QED
  BY <1>1, <1>2 DEF Buffer

\* A write adds the buffer at the end of the wire.
LEMMA WireGrows ==
  ASSUME TypeInv, NEW b \in Buffer, wire' = Append(wire, b)
  PROVE  /\ DOMAIN wire' = 1..Len(wire) + 1 /\ Len(wire) \in Nat /\ DOMAIN wire = 1..Len(wire)
         /\ wire'[Len(wire) + 1] = b
         /\ \A i \in DOMAIN wire : i \in DOMAIN wire' /\ wire'[i] = wire[i]
<1>1. Len(wire) \in Nat /\ DOMAIN wire = 1..Len(wire) /\ wire \in Seq(Buffer)
  BY WireDomain DEF TypeInv
<1>2. /\ Append(wire, b) \in Seq(Buffer) /\ Len(Append(wire, b)) = Len(wire) + 1
      /\ \A i \in 1..Len(wire) : Append(wire, b)[i] = wire[i]
      /\ Append(wire, b)[Len(wire) + 1] = b
  BY <1>1, AppendProperties
<1>3. DOMAIN wire' = 1..Len(wire) + 1
  BY <1>2, LenProperties
<1>4. QED
  BY <1>1, <1>2, <1>3

\* What is written has a greater order than what was written before.
LEMMA WireStep ==
  ASSUME TypeInv, PlaceInv, WireInv, WireInOrder, [Next]_vars
  PROVE  WireInv' /\ WireInOrder'
<1>1. CASE wire' = wire /\ nNextWriteOrderToProcess' = nNextWriteOrderToProcess
  BY <1>1 DEF WireInv, WireInOrder
<1>2. ASSUME NEW b \in Turn, Drains(b) PROVE WireInv' /\ WireInOrder'
  <2>1. b \in Buffer /\ b.order = nNextWriteOrderToProcess /\ nNextWriteOrderToProcess' = nNextWriteOrderToProcess + 1
        /\ nNextWriteOrderToProcess \in Nat
    BY <1>2, PortDomain DEF Turn, Drains
  <2>2. CASE wire' = wire
    BY <2>1, <2>2, WireDomain DEF WireInv, WireInOrder
  <2>3. CASE wire' = Append(wire, b)
    <3> DEFINE n == Len(wire)
    <3>1. /\ DOMAIN wire' = 1..n + 1 /\ n \in Nat /\ DOMAIN wire = 1..n /\ wire'[n + 1] = b
          /\ \A i \in DOMAIN wire : i \in DOMAIN wire' /\ wire'[i] = wire[i]
      BY <2>1, <2>3, WireGrows
    <3> HIDE DEF n
    <3>2. \A i \in 1..n : wire[i].order \in Nat /\ wire[i].order < b.order /\ wire'[i] = wire[i]
      BY <2>1, <3>1, WireDomain DEF WireInv
    <3>3. WireInv'
      <4>1. ASSUME NEW i \in DOMAIN wire' PROVE wire'[i].order < nNextWriteOrderToProcess'
        <5>1. CASE i = n + 1
          BY <2>1, <3>1, <5>1
        <5>2. CASE i # n + 1
          <6>1. i \in 1..n
            BY <3>1, <4>1, <5>2
          <6>2. QED
            BY <2>1, <3>2, <6>1
        <5>3. QED
          BY <5>1, <5>2
      <4>2. QED
        BY <4>1 DEF WireInv
    <3>4. WireInOrder'
      <4>1. ASSUME NEW i \in DOMAIN wire', NEW j \in DOMAIN wire', i < j PROVE wire'[i].order < wire'[j].order
        <5>1. i \in 1..n
          BY <3>1, <4>1
        <5>2. CASE j = n + 1
          BY <3>1, <3>2, <5>1, <5>2
        <5>3. CASE j # n + 1
          <6>1. j \in 1..n
            BY <3>1, <4>1, <5>3
          <6>2. wire[i].order < wire[j].order
            BY <3>1, <4>1, <5>1, <6>1 DEF WireInOrder
          <6>3. QED
            BY <3>2, <5>1, <6>1, <6>2
        <5>4. QED
          BY <5>2, <5>3
      <4>2. QED
        BY <4>1 DEF WireInOrder
    <3>5. QED
      BY <3>3, <3>4
  <2>4. QED
    BY <1>2, <2>2, <2>3 DEF Drains
<1>3. QED
  BY <1>1, <1>2, WireEffect

----------------------------------------------------------------------------
(* What is accepted stays accepted *)

\* The part of a thread is accepted, and the thread goes on to its next one.
Advances(s) ==
  /\ sender[s].pc \in {"addref", "sendAddref"}
  /\ \E p \in {"order", "start", "done"} : SBecomes(s, p, sender[s].part + 1, sender[s].order)
Rests(s) == \E p \in {"check", "send", "order", "done"} : SBecomes(s, p, sender[s].part, sender[s].order)

\* Where the steps of a sender take it.
LEMMA SenderGoesOn ==
  ASSUME TypeInv, PlaceInv, NEW s \in Senders, SenderStep(s)
  PROVE  /\ TakesOrder(s) \/ Posts(s) \/ Sends(s) \/ Advances(s) \/ Rests(s)
         /\ nNextWriteOrder' \in {nNextWriteOrder, nNextWriteOrder + 1}
<1>1. nNextWriteOrder' \in {nNextWriteOrder, nNextWriteOrder + 1}
  BY SenderEffects DEF SenderEffect, Untouched, TakesOrder, Posts, PostFails, Sends, SendFails, orderVars
<1>2. CASE Find(s)
  <2>1. PICK p \in {"done", "check", "send"} : SBecomes(s, p, sender[s].part, sender[s].order)
    BY <1>2, SenderMoves
  <2>2. QED
    BY <1>1, <2>1 DEF Rests
<1>3. CASE CheckConnected(s)
  <2>1. PICK p \in {"done", "order"} : SBecomes(s, p, sender[s].part, sender[s].order)
    BY <1>3, SenderMoves
  <2>2. QED
    BY <1>1, <2>1 DEF Rests
<1>4. CASE AddRefForPart(s)
  <2>1. PICK p \in {"order", "start"} : SBecomes(s, p, sender[s].part + 1, sender[s].order)
    BY <1>4, SenderMoves
  <2>2. QED
    BY <1>1, <1>4, <2>1 DEF Advances, AddRefForPart, SAt
<1>5. CASE AddRefForMsg(s)
  <2>1. SBecomes(s, "done", sender[s].part + 1, sender[s].order)
    BY <1>5, SenderMoves
  <2>2. QED
    BY <1>1, <1>5, <2>1 DEF Advances, AddRefForMsg, SAt
<1>6. CASE TakeOrder(s) \/ Post(s) \/ SendMsg(s)
  <2>1. SenderEffect(s)
    BY SenderEffects
  <2>2. CASE PostFails(s) \/ SendFails(s)
    BY <1>1, <2>2 DEF PostFails, SendFails, Rests
  <2>3. CASE Untouched
    <3>1. ~TakeOrder(s) /\ ~Post(s)
      <4>1. ASSUME TakeOrder(s) PROVE sender'[s].pc = "post" /\ sender[s].pc # "post"
        <5>1. SBecomes(s, "post", sender[s].part, nNextWriteOrder + 1)
          BY <4>1, SenderMoves
        <5>2. QED
          BY <4>1, <5>1 DEF SBecomes, TakeOrder, SAt
      <4>2. ASSUME Post(s) PROVE sender'[s].pc # "post" /\ sender[s].pc = "post"
        <5>1. PICK p \in {"addref", "done"} : SBecomes(s, p, sender[s].part, sender[s].order)
          BY <4>2, SenderMoves
        <5>2. QED
          BY <4>2, <5>1 DEF SBecomes, Post, SAt
      <4>3. QED
        BY <2>3, <4>1, <4>2 DEF Untouched, PostsSame
    <3>2. SendMsg(s)
      BY <1>6, <3>1
    <3>3. SBecomes(s, "done", sender[s].part, sender[s].order) \/ nNextWriteOrder' = nNextWriteOrder + 1
      BY <3>2, PostEffect
    <3>4. nNextWriteOrder' = nNextWriteOrder /\ nNextWriteOrder \in Nat
      BY <2>3 DEF Untouched, orderVars, TypeInv
    <3>5. QED
      BY <1>1, <3>3, <3>4 DEF Rests
  <2>4. QED
    BY <1>1, <2>1, <2>2, <2>3 DEF SenderEffect
<1>7. QED
  BY <1>2, <1>3, <1>4, <1>5, <1>6 DEF SenderStep

\* A posted request stays so, unless it is its turn.
LEMMA PostedStays ==
  ASSUME TypeInv, PlaceInv, DiscardInv, ~Ending', [Next]_vars, NEW b, Posted(b)
  PROVE  Posted(b)' \/ (b \in Turn /\ Drains(b))
<1>d. DOMAIN iocp = 1..Len(iocp) /\ Len(iocp) \in Nat
  BY PortDomain
<1>0. ~Ending /\ discarded = {}
  BY EndingStays DEF DiscardInv
<1>1. ASSUME PortKeeps, HandsSame, toWriteQueue \subseteq toWriteQueue' PROVE Posted(b)'
  BY <1>1 DEF Posted, InPort, InHand, PortKeeps, HandsSame
<1>2. ASSUME NEW p, Put(p) PROVE PortKeeps
  <2>1. DOMAIN iocp' = 1..Len(iocp) + 1
    BY <1>2, LenProperties DEF Put
  <2>2. QED
    BY <1>2, <1>d, <2>1 DEF Put, PortKeeps
<1>3. iocp' = iocp => PortKeeps
  BY DEF PortKeeps
<1>4. worker' = worker => HandsSame
  BY DEF HandsSame
<1>5. ASSUME Untouched PROVE Posted(b)'
  BY <1>1, <1>5 DEF Untouched
<1>6. ASSUME NEW s \in Senders, SenderStep(s) PROVE Posted(b)'
  <2>1. worker' = worker /\ toWriteQueue' = toWriteQueue
    BY <1>6, SenderLeaves
  <2>2. CASE iocp' = iocp
    BY <1>1, <1>3, <1>4, <2>1, <2>2
  <2>3. CASE \E p : Put(p)
    BY <1>1, <1>2, <1>4, <2>1, <2>3
  <2>4. CASE ~Untouched
    <3>1. TakesOrder(s) \/ PostFails(s) \/ SendFails(s) => iocp' = iocp
      BY DEF TakesOrder, PostFails, SendFails
    <3>2. Posts(s) \/ Sends(s) => \E p : Put(p)
      BY DEF Posts, Sends, PostsRequest
    <3>3. QED
      BY <1>6, <2>2, <2>3, <2>4, <3>1, <3>2, SenderEffects DEF SenderEffect
  <2>5. QED
    BY <1>5, <2>4
<1>7. ASSUME NEW w \in Workers, WorkerStep(w) PROVE Posted(b)' \/ (b \in Turn /\ Drains(b))
  <2>1. CASE TakesRequest(w)
    <3>1. /\ DOMAIN iocp' = 1..Len(iocp') /\ Len(iocp') = Len(iocp) - 1
          /\ \A i \in 1..Len(iocp') : iocp'[i] = iocp[i + 1]
          /\ worker[w].pc = "idle" /\ WBecomes(w, "request", iocp[1].buf) /\ toWriteQueue' = toWriteQueue
      BY <2>1, LenProperties DEF TakesRequest, Taken
    <3>2. ASSUME NEW i \in DOMAIN iocp, InPort(i), iocp[i].buf = b PROVE Posted(b)'
      <4>1. CASE i = 1
        BY <3>1, <3>2, <4>1 DEF Posted, InHand, WBecomes
      <4>2. CASE i # 1
        <5>1. i - 1 \in 1..Len(iocp') /\ (i - 1) + 1 = i
          BY <1>d, <3>1, <4>2
        <5>2. iocp'[i - 1] = iocp[i]
          BY <3>1, <5>1
        <5>3. QED
          BY <3>1, <3>2, <5>1, <5>2 DEF Posted, InPort
      <4>3. QED
        BY <4>1, <4>2
    <3>3. ASSUME NEW v \in Workers, InHand(v), worker[v].buf = b PROVE Posted(b)'
      BY <3>1, <3>3 DEF InHand, Posted, WBecomes
    <3>4. QED
      BY <3>1, <3>2, <3>3 DEF Posted
  <2>2. CASE Queues(w)
    <3>1. iocp' = iocp /\ WBecomes(w, "drain", NoBuffer) /\ toWriteQueue' = toWriteQueue \cup {worker[w].buf}
      BY <2>2 DEF Queues
    <3>2. ASSUME NEW v \in Workers, InHand(v), worker[v].buf = b PROVE Posted(b)'
      BY <3>1, <3>2 DEF InHand, Posted, WBecomes
    <3>3. QED
      BY <3>1, <3>2 DEF Posted, InPort
  <2>3. ASSUME NEW c \in Turn, Drains(c) PROVE Posted(b)' \/ (b \in Turn /\ Drains(b))
    <3>1. CASE c = b
      BY <2>3, <3>1
    <3>2. CASE c # b
      BY <2>3, <3>2 DEF Posted, InPort, InHand, Drains, HandsSame
    <3>3. QED
      BY <3>1, <3>2
  <2>4. QED
    BY <1>0, <1>5, <1>7, <2>1, <2>2, <2>3, WorkerEffects DEF WorkerEffect, DropsRequest
<1>8. QED
  BY <1>5, <1>6, <1>7, Steps, OtherEffects

\* An accepted buffer stays accepted.
LEMMA AcceptedStays ==
  ASSUME TypeInv, PlaceInv, DiscardInv, ~Ending', [Next]_vars, NEW b, Accepted(b)
  PROVE  Accepted(b)'
<1>0. discarded = {}
  BY EndingStays DEF DiscardInv
<1>1. ASSUME NEW c \in Turn, Drains(c) PROVE Reached(c)' /\ (Reached(b) => Reached(b)')
  <2>1. c \in Buffer /\ wire' = Append(wire, c)
    BY <1>0, <1>1, PortDomain DEF Drains, Turn
  <2>2. /\ DOMAIN wire' = 1..Len(wire) + 1 /\ Len(wire) \in Nat /\ wire'[Len(wire) + 1] = c
        /\ \A i \in DOMAIN wire : i \in DOMAIN wire' /\ wire'[i] = wire[i]
    BY <2>1, WireGrows
  <2>3. QED
    BY <2>2 DEF Reached
<1>2. Reached(b) => Reached(b)'
  <2>1. wire' = wire => (Reached(b) => Reached(b)')
    BY DEF Reached
  <2>2. QED
    BY <1>1, <2>1, WireEffect
<1>3. Posted(b) => Posted(b)' \/ Reached(b)'
  BY <1>1, PostedStays
<1>4. QED
  BY <1>2, <1>3 DEF Accepted

\* What is newly accepted has just been posted.
LEMMA AcceptedNew ==
  ASSUME TypeInv, PlaceInv, [Next]_vars, NEW b, Accepted(b)'
  PROVE  \/ Accepted(b)
         \/ \E s \in Senders : Posts(s) /\ b = BufferOf(s)
         \/ \E s \in Senders : Sends(s) /\ b = [order |-> nNextWriteOrder + 1, from |-> s, part |-> sender[s].part]
<1>d. DOMAIN iocp = 1..Len(iocp) /\ Len(iocp) \in Nat
  BY PortDomain
<1>1. Reached(b)' => Accepted(b)
  <2>1. wire' = wire => (Reached(b)' => Reached(b))
    BY DEF Reached
  <2>2. ASSUME NEW c \in Turn, Drains(c), Reached(b)' PROVE Accepted(b)
    <3>1. CASE wire' = wire
      BY <2>1, <2>2, <3>1 DEF Accepted
    <3>2. CASE wire' = Append(wire, c)
      <4>1. c \in Buffer /\ c \in toWriteQueue
        BY PortDomain DEF Turn
      <4>2. /\ DOMAIN wire' = 1..Len(wire) + 1 /\ Len(wire) \in Nat /\ DOMAIN wire = 1..Len(wire)
            /\ wire'[Len(wire) + 1] = c /\ \A i \in DOMAIN wire : wire'[i] = wire[i]
        BY <3>2, <4>1, WireGrows
      <4>3. PICK i \in DOMAIN wire' : wire'[i] = b
        BY <2>2 DEF Reached
      <4>4. CASE i = Len(wire) + 1
        BY <4>1, <4>2, <4>3, <4>4 DEF Accepted, Posted
      <4>5. CASE i # Len(wire) + 1
        <5>1. i \in DOMAIN wire /\ wire[i] = b
          BY <4>2, <4>3, <4>5
        <5>2. QED
          BY <5>1 DEF Accepted, Reached
      <4>6. QED
        BY <4>4, <4>5
    <3>3. QED
      BY <2>2, <3>1, <3>2 DEF Drains
  <2>3. QED
    BY <2>1, <2>2, WireEffect DEF Accepted
<1>2. ASSUME NEW d \in {0, 1}, PortShifts(d), HandsSame, toWriteQueue' \subseteq toWriteQueue, Posted(b)'
      PROVE  Accepted(b)
  BY <1>2 DEF Posted, InPort, InHand, PortShifts, HandsSame, Accepted
<1>3. iocp' = iocp => PortShifts(0)
  BY <1>d DEF PortShifts
<1>4. ASSUME Untouched, Posted(b)' PROVE Accepted(b)
  BY <1>2, <1>4 DEF Untouched
<1>5. ASSUME NEW s \in Senders, NEW o, worker' = worker, toWriteQueue' = toWriteQueue, PostsRequest(s, o), Posted(b)'
      PROVE  Accepted(b) \/ b = [order |-> o, from |-> s, part |-> sender[s].part]
  <2>1. DOMAIN iocp' = 1..Len(iocp) + 1
    BY <1>5, LenProperties DEF PostsRequest, Put
  <2>2. ASSUME NEW i \in DOMAIN iocp', iocp'[i].kind = "request", iocp'[i].buf = b
        PROVE  Accepted(b) \/ b = [order |-> o, from |-> s, part |-> sender[s].part]
    <3>1. CASE i = Len(iocp) + 1
      BY <1>5, <2>2, <3>1 DEF PostsRequest, Put
    <3>2. CASE i # Len(iocp) + 1
      <4>1. i \in DOMAIN iocp /\ iocp'[i] = iocp[i]
        BY <1>5, <1>d, <2>1, <3>2 DEF PostsRequest, Put
      <4>2. QED
        BY <2>2, <4>1 DEF Accepted, Posted, InPort
    <3>3. QED
      BY <3>1, <3>2
  <2>3. QED
    BY <1>5, <2>2 DEF Posted, InPort, InHand, Accepted
<1>6. ASSUME NEW s \in Senders, SenderStep(s), Posted(b)'
      PROVE  \/ Accepted(b)
             \/ Posts(s) /\ b = BufferOf(s)
             \/ Sends(s) /\ b = [order |-> nNextWriteOrder + 1, from |-> s, part |-> sender[s].part]
  <2>1. worker' = worker /\ toWriteQueue' = toWriteQueue
    BY <1>6, SenderLeaves
  <2>2. CASE iocp' = iocp
    BY <1>6, <2>1, <2>2 DEF Posted, InPort, InHand, Accepted
  <2>3. CASE Posts(s)
    BY <1>5, <1>6, <2>1, <2>3 DEF Posts, BufferOf
  <2>4. CASE Sends(s)
    BY <1>5, <1>6, <2>1, <2>4 DEF Sends
  <2>5. QED
    BY <1>4, <1>6, <2>2, <2>3, <2>4, SenderEffects DEF SenderEffect, TakesOrder, PostFails, SendFails
<1>7. ASSUME NEW w \in Workers, WorkerStep(w), Posted(b)' PROVE Accepted(b)
  <2>1. CASE TakesRequest(w)
    <3>1. /\ 1 \in DOMAIN iocp /\ InPort(1) /\ WBecomes(w, "request", iocp[1].buf) /\ toWriteQueue' = toWriteQueue
          /\ PortShifts(1)
      <4>1. 1 \in DOMAIN iocp /\ DOMAIN iocp' = 1..Len(iocp')
        BY <2>1, <1>d, LenProperties DEF TakesRequest, Taken
      <4>2. PortShifts(1)
        BY <2>1, <1>d, <4>1 DEF TakesRequest, Taken, PortShifts
      <4>3. QED
        BY <2>1, <4>1, <4>2 DEF TakesRequest, InPort
    <3>2. QED
      BY <1>7, <3>1 DEF Posted, InPort, InHand, WBecomes, PortShifts, Accepted
  <2>2. CASE DropsRequest
    <3>1. DOMAIN iocp' = 1..Len(iocp')
      BY <2>2, LenProperties DEF DropsRequest, Taken
    <3>2. PortShifts(1)
      BY <2>2, <1>d, <3>1 DEF DropsRequest, Taken, PortShifts
    <3>3. QED
      BY <1>2, <1>7, <2>2, <3>2 DEF DropsRequest
  <2>3. CASE Queues(w)
    BY <1>7, <2>3 DEF Queues, Posted, InPort, InHand, WBecomes, Accepted
  <2>4. ASSUME NEW c \in Turn, Drains(c) PROVE Accepted(b)
    BY <1>2, <1>3, <1>7, <2>4 DEF Drains
  <2>5. QED
    BY <1>4, <1>7, <2>1, <2>2, <2>3, <2>4, WorkerEffects DEF WorkerEffect
<1>8. Posted(b)' \/ Reached(b)'
  BY DEF Accepted
<1>9. QED
  BY <1>1, <1>4, <1>6, <1>7, <1>8, Steps, OtherEffects

\* The accepted orders have been taken.
LEMMA AcceptedOrders ==
  ASSUME TypeInv, PlaceInv, DueInv, WireInv, NEW b, Accepted(b)
  PROVE  b \in Buffer /\ b.order \in Nat /\ b.order <= nNextWriteOrder
<1>1. ASSUME NEW i \in DOMAIN iocp, InPort(i), iocp[i].buf = b PROVE b \in Buffer /\ b.order <= nNextWriteOrder
  BY <1>1, PortDomain DEF DueInv, Due
<1>2. ASSUME NEW w \in Workers, InHand(w), worker[w].buf = b PROVE b \in Buffer /\ b.order <= nNextWriteOrder
  BY <1>2 DEF DueInv, Due, InHand, PlaceInv
<1>3. b \in toWriteQueue => b \in Buffer /\ b.order <= nNextWriteOrder
  BY PortDomain DEF DueInv, Due
<1>4. ASSUME NEW i \in DOMAIN wire, wire[i] = b PROVE b \in Buffer /\ b.order <= nNextWriteOrder
  <2>1. b \in Buffer /\ b.order \in Nat /\ b.order < nNextWriteOrderToProcess
    BY <1>4, WireDomain DEF WireInv
  <2>2. QED
    BY <2>1, PortDomain DEF DueInv
<1>5. QED
  BY <1>1, <1>2, <1>3, <1>4 DEF Accepted, Posted, Reached, Buffer

\* The same as Follows, after the step.
FollowsNext(from, part, order) ==
  part > 1 => \E c \in Buffer :
    c.from = from /\ c.part = part - 1 /\ c.order < order /\ Accepted(c)'

\* The part before it stays accepted.
LEMMA FollowsStays ==
  ASSUME TypeInv, PlaceInv, DiscardInv, ~Ending', [Next]_vars,
         NEW from, NEW part, NEW o \in Nat, NEW p \in Nat, o <= p, Follows(from, part, o)
  PROVE  FollowsNext(from, part, p)
<1>1. ASSUME part > 1
      PROVE  \E c \in Buffer : c.from = from /\ c.part = part - 1 /\ c.order < p /\ Accepted(c)'
  <2>1. PICK c \in Buffer : c.from = from /\ c.part = part - 1 /\ c.order < o /\ Accepted(c)
    BY <1>1 DEF Follows
  <2>2. Accepted(c)' /\ c.order < p
    BY <2>1, AcceptedStays DEF Buffer
  <2>3. QED
    BY <2>1, <2>2
<1>2. QED
  BY <1>1 DEF FollowsNext

----------------------------------------------------------------------------
(* Nothing is skipped *)

\* A part is accepted after the one before it.
LEMMA ChainStep ==
  ASSUME TypeInv, PlaceInv, DueInv, WireInv, DiscardInv, ChainInv, [Next]_vars
  PROVE  ChainInv'
<1> SUFFICES ASSUME ~Ending'
             PROVE  /\ \A b \in Buffer : Accepted(b)' => FollowsNext(b.from, b.part, b.order)
                    /\ \A r \in Senders : FollowsNext(r, sender'[r].part, nNextWriteOrder' + 1)
                    /\ \A r \in Senders : InPost(r)' => FollowsNext(r, sender'[r].part, sender'[r].order)
                    /\ \A r \in Senders : sender'[r].pc \in {"addref", "sendAddref"} => Accepted(BufferOf(r))'
  BY DEF ChainInv, Follows, FollowsNext
<1>0. ~Ending
  BY EndingStays
<1>n. nNextWriteOrder \in Nat /\ nNextWriteOrder' \in {nNextWriteOrder, nNextWriteOrder + 1}
  <2>1. \A s \in Senders : SenderStep(s) => nNextWriteOrder' \in {nNextWriteOrder, nNextWriteOrder + 1}
    BY SenderGoesOn
  <2>2. QED
    BY <2>1, Steps, WorkerLeaves, OtherLeaves DEF orderVars, TypeInv
<1>k. \A s \in Senders : sender[s].order \in Nat
  BY PortDomain
<1>c. /\ \A b \in Buffer : Accepted(b) => Follows(b.from, b.part, b.order)
      /\ \A s \in Senders : Follows(s, sender[s].part, nNextWriteOrder + 1)
      /\ \A s \in Senders : InPost(s) => Follows(s, sender[s].part, sender[s].order)
      /\ \A s \in Senders : sender[s].pc \in {"addref", "sendAddref"} => Accepted(BufferOf(s))
  BY <1>0 DEF ChainInv
<1>1. ASSUME NEW b \in Buffer, Accepted(b)' PROVE FollowsNext(b.from, b.part, b.order)
  <2>1. b.order \in Nat /\ Follows(b.from, b.part, b.order)
    <3>1. CASE Accepted(b)
      BY <1>c, <3>1 DEF Buffer
    <3>2. ASSUME NEW s \in Senders, Posts(s), b = BufferOf(s) PROVE b.order \in Nat /\ Follows(b.from, b.part, b.order)
      BY <1>c, <1>k, <3>2 DEF Posts, InPost, SAt, BufferOf
    <3>3. ASSUME NEW s \in Senders, b = [order |-> nNextWriteOrder + 1, from |-> s, part |-> sender[s].part]
          PROVE  b.order \in Nat /\ Follows(b.from, b.part, b.order)
      BY <1>c, <1>n, <3>3
    <3>4. QED
      BY <1>1, <3>1, <3>2, <3>3, AcceptedNew
  <2>2. QED
    BY <2>1, FollowsStays
\* A thread that stays at its part.
<1>2. ASSUME NEW r \in Senders, sender'[r].part = sender[r].part
      PROVE  FollowsNext(r, sender'[r].part, nNextWriteOrder' + 1)
  <2>1. nNextWriteOrder + 1 \in Nat /\ nNextWriteOrder' + 1 \in Nat /\ nNextWriteOrder + 1 <= nNextWriteOrder' + 1
    <3>1. CASE nNextWriteOrder' = nNextWriteOrder
      BY <1>n, <3>1
    <3>2. CASE nNextWriteOrder' = nNextWriteOrder + 1
      BY <1>n, <3>2
    <3>3. QED
      BY <1>n, <3>1, <3>2
  <2> DEFINE o == nNextWriteOrder + 1
             p == nNextWriteOrder' + 1
  <2>2. FollowsNext(r, sender[r].part, nNextWriteOrder' + 1)
    <3>1. Follows(r, sender[r].part, o) /\ o \in Nat /\ p \in Nat /\ o <= p
      BY <1>c, <2>1
    <3> HIDE DEF o, p
    <3>2. FollowsNext(r, sender[r].part, p)
      BY <3>1, FollowsStays
    <3>3. QED
      BY <3>2 DEF p
  <2>3. QED
    BY <1>2, <2>2
<1>3. ASSUME NEW r \in Senders, InPost(r), sender'[r].part = sender[r].part, sender'[r].order = sender[r].order
      PROVE  FollowsNext(r, sender'[r].part, sender'[r].order)
  <2>1. FollowsNext(r, sender[r].part, sender[r].order)
    <3>1. Follows(r, sender[r].part, sender[r].order)
      BY <1>3, <1>c
    <3> DEFINE k == sender[r].part
               o == sender[r].order
    <3>2. QED
      <4>1. ASSUME k > 1 PROVE \E c \in Buffer : c.from = r /\ c.part = k - 1 /\ c.order < o /\ Accepted(c)'
        <5>1. PICK c \in Buffer : c.from = r /\ c.part = k - 1 /\ c.order < o /\ Accepted(c)
          BY <3>1, <4>1 DEF Follows
        <5>2. QED
          BY <5>1, AcceptedStays
      <4>2. QED
        BY <4>1 DEF FollowsNext
  <2>2. QED
    BY <1>3, <2>1
<1>4. ASSUME NEW r \in Senders, sender[r].pc \in {"addref", "sendAddref"}, BufferOf(r)' = BufferOf(r)
      PROVE  Accepted(BufferOf(r))'
  <2>1. Accepted(BufferOf(r))
    BY <1>4, <1>c
  <2> DEFINE b == BufferOf(r)
  <2>2. PICK c : c = b
    OBVIOUS
  <2>3. Accepted(c)'
    BY <2>1, <2>2, AcceptedStays
  <2>4. QED
    BY <1>4, <2>2, <2>3
<1>5. ASSUME NEW r \in Senders, sender'[r] = sender[r]
      PROVE  /\ FollowsNext(r, sender'[r].part, nNextWriteOrder' + 1)
             /\ InPost(r)' => FollowsNext(r, sender'[r].part, sender'[r].order)
             /\ sender'[r].pc \in {"addref", "sendAddref"} => Accepted(BufferOf(r))'
  BY <1>2, <1>3, <1>4, <1>5 DEF InPost, SAt, BufferOf
<1>6. ASSUME NEW s \in Senders, SenderStep(s)
      PROVE  /\ FollowsNext(s, sender'[s].part, nNextWriteOrder' + 1)
             /\ InPost(s)' => FollowsNext(s, sender'[s].part, sender'[s].order)
             /\ sender'[s].pc \in {"addref", "sendAddref"} => Accepted(BufferOf(s))'
             /\ \A r \in Senders \ {s} : sender'[r] = sender[r]
  <2>0. TakesOrder(s) \/ Posts(s) \/ Sends(s) \/ Advances(s) \/ Rests(s)
    BY <1>6, SenderGoesOn
  <2>1. \A p, k, o : SBecomes(s, p, k, o) => sender'[s].pc = p /\ sender'[s].part = k /\ sender'[s].order = o
    BY DEF SBecomes
  <2>2. \A r \in Senders \ {s} : sender'[r] = sender[r]
    BY <2>0 DEF TakesOrder, Posts, Sends, Advances, Rests, SBecomes
  <2>3. CASE TakesOrder(s)
    <3>1. sender'[s].pc = "post" /\ sender'[s].part = sender[s].part /\ sender'[s].order = nNextWriteOrder + 1
      BY <2>1, <2>3 DEF TakesOrder
    <3>2. FollowsNext(s, sender'[s].part, nNextWriteOrder + 1)
      BY <1>c, <1>n, <3>1, FollowsStays
    <3>3. QED
      BY <1>2, <2>2, <3>1, <3>2
  <2>4. CASE Posts(s)
    <3>1. sender'[s].pc = "addref" /\ sender'[s].part = sender[s].part /\ sender'[s].order = sender[s].order
      BY <2>1, <2>4 DEF Posts
    <3>2. ~InPost(s)'
      BY <3>1 DEF InPost, SAt
    <3>3. Accepted(BufferOf(s))'
      <4>1. /\ Len(iocp) + 1 \in DOMAIN iocp' /\ iocp'[Len(iocp) + 1].kind = "request"
            /\ iocp'[Len(iocp) + 1].buf = BufferOf(s)
        BY <2>4, LenProperties DEF Posts, PostsRequest, Put, BufferOf
      <4>2. BufferOf(s)' = BufferOf(s)
        BY <3>1 DEF BufferOf
      <4>3. QED
        BY <4>1, <4>2 DEF Accepted, Posted, InPort
    <3>4. QED
      BY <1>2, <2>2, <3>1, <3>2, <3>3
  <2>5. CASE Sends(s)
    <3>1. sender'[s].pc = "sendAddref" /\ sender'[s].part = sender[s].part /\ sender'[s].order = nNextWriteOrder + 1
      BY <2>1, <2>5 DEF Sends
    <3>2. ~InPost(s)'
      BY <3>1 DEF InPost, SAt
    <3>3. Accepted(BufferOf(s))'
      <4>1. /\ Len(iocp) + 1 \in DOMAIN iocp' /\ iocp'[Len(iocp) + 1].kind = "request"
            /\ iocp'[Len(iocp) + 1].buf = [order |-> nNextWriteOrder + 1, from |-> s, part |-> sender[s].part]
        BY <2>5, LenProperties DEF Sends, PostsRequest, Put
      <4>2. BufferOf(s)' = [order |-> nNextWriteOrder + 1, from |-> s, part |-> sender[s].part]
        BY <3>1 DEF BufferOf
      <4>3. QED
        BY <4>1, <4>2 DEF Accepted, Posted, InPort
    <3>4. QED
      BY <1>2, <2>2, <3>1, <3>2, <3>3
  <2>6. CASE Advances(s)
    <3>1. PICK p \in {"order", "start", "done"} : SBecomes(s, p, sender[s].part + 1, sender[s].order)
      BY <2>6 DEF Advances
    <3>2. sender'[s].pc = p /\ sender'[s].part = sender[s].part + 1
      BY <2>1, <3>1
    <3>3. ~InPost(s)' /\ sender'[s].pc \notin {"addref", "sendAddref"}
      BY <3>2 DEF InPost, SAt
    <3> DEFINE c == BufferOf(s)
    <3>4. Accepted(c)
      BY <1>c, <2>6 DEF Advances
    <3>5. c \in Buffer /\ c.order \in Nat /\ c.order <= nNextWriteOrder
      BY <3>4, AcceptedOrders
    <3>6. c.from = s /\ c.part = sender[s].part
      BY DEF BufferOf
    <3>7. PICK d \in Buffer : d = c
      BY <3>5
    <3>8. Accepted(d)'
      BY <3>4, <3>7, AcceptedStays
    <3>9. d.order < nNextWriteOrder' + 1
      BY <1>n, <3>5, <3>7
    <3>10. sender[s].part \in Int
      BY DEF TypeInv, SenderRec
    <3>11. d.from = s /\ d.part = sender'[s].part - 1
      BY <3>2, <3>6, <3>7, <3>10
    <3>12. FollowsNext(s, sender'[s].part, nNextWriteOrder' + 1)
      BY <3>8, <3>9, <3>11 DEF FollowsNext
    <3>13. QED
      BY <2>2, <3>3, <3>12
  <2>7. CASE Rests(s)
    <3>1. sender'[s].pc \in {"check", "send", "order", "done"} /\ sender'[s].part = sender[s].part
      BY <2>1, <2>7 DEF Rests
    <3>2. ~InPost(s)' /\ sender'[s].pc \notin {"addref", "sendAddref"}
      BY <3>1 DEF InPost, SAt
    <3>3. QED
      BY <1>2, <2>2, <3>1, <3>2
  <2>8. QED
    BY <2>0, <2>3, <2>4, <2>5, <2>6, <2>7
<1>7. QED
  <2>1. ASSUME NEW r \in Senders
        PROVE  /\ FollowsNext(r, sender'[r].part, nNextWriteOrder' + 1)
               /\ InPost(r)' => FollowsNext(r, sender'[r].part, sender'[r].order)
               /\ sender'[r].pc \in {"addref", "sendAddref"} => Accepted(BufferOf(r))'
    <3>1. CASE sender' = sender
      BY <1>5, <3>1
    <3>2. CASE \E s \in Senders : SenderStep(s)
      BY <1>5, <1>6, <3>2
    <3>3. QED
      BY <3>1, <3>2, Steps, WorkerLeaves, OtherLeaves
  <2>2. QED
    BY <1>1, <2>1

\* Every due order waits somewhere.
LEMMA WholeStep ==
  ASSUME TypeInv, PlaceInv, DueInv, DiscardInv, WholeInv, [Next]_vars
  PROVE  WholeInv'
<1> SUFFICES ASSUME ~Ending', ~lost', NEW o \in Nat, DueNext(o)
             PROVE  \/ \E s \in Senders : InPost(s)' /\ sender'[s].order = o
                    \/ \E b \in Buffer : b.order = o /\ Posted(b)'
  BY DEF WholeInv, Due, DueNext, Waiting
<1>0. ~Ending /\ nNextWriteOrder \in Nat /\ nNextWriteOrderToProcess \in Nat
  BY EndingStays, PortDomain
\* The order waited before the step.
<1>1. ASSUME ~lost, Due(o),
             \A s \in Senders : InPost(s) =>
               \/ InPost(s)' /\ sender'[s].order = sender[s].order
               \/ \E b \in Buffer : b.order = sender[s].order /\ Posted(b)'
      PROVE  \/ \E s \in Senders : InPost(s)' /\ sender'[s].order = o
             \/ \E b \in Buffer : b.order = o /\ Posted(b)'
  <2>1. Waiting(o)
    BY <1>0, <1>1 DEF WholeInv
  <2>2. ASSUME NEW b \in Buffer, b.order = o, Posted(b) PROVE Posted(b)'
    <3>1. ASSUME b \in Turn, Drains(b) PROVE FALSE
      BY <1>0, <2>2, <3>1 DEF Turn, Drains, DueNext
    <3>2. QED
      BY <2>2, <3>1, PostedStays
  <2>3. QED
    BY <1>1, <2>1, <2>2 DEF Waiting
<1>2. ASSUME NEW s \in Senders, SenderStep(s)
      PROVE  \/ \E r \in Senders : InPost(r)' /\ sender'[r].order = o
             \/ \E b \in Buffer : b.order = o /\ Posted(b)'
  <2>0. SenderEffect(s) /\ nNextWriteOrderToProcess' = nNextWriteOrderToProcess
    BY <1>2, SenderEffects, SenderLeaves
  <2>1. CASE Untouched
    BY <1>1, <2>1 DEF Untouched, PostsSame, InPost, SAt, orderVars, Due, DueNext
  <2>2. CASE TakesOrder(s)
    <3>1. /\ ~lost /\ SBecomes(s, "post", sender[s].part, nNextWriteOrder + 1) /\ sender[s].pc # "post"
          /\ nNextWriteOrder' = nNextWriteOrder + 1
      BY <2>2 DEF TakesOrder
    <3>2. CASE o = nNextWriteOrder + 1
      BY <3>1, <3>2 DEF SBecomes, InPost, SAt
    <3>3. CASE o # nNextWriteOrder + 1
      <4>1. Due(o)
        BY <1>0, <2>0, <3>1, <3>3 DEF Due, DueNext
      <4>2. \A r \in Senders : InPost(r) => InPost(r)' /\ sender'[r].order = sender[r].order
        BY <3>1 DEF InPost, SAt, SBecomes
      <4>3. QED
        BY <1>1, <3>1, <4>1, <4>2
    <3>4. QED
      BY <3>2, <3>3
  <2>3. ASSUME NEW k, PostsRequest(s, k), NEW b \in Buffer, b = [order |-> k, from |-> s, part |-> sender[s].part]
        PROVE  Posted(b)'
    <3>1. /\ Len(iocp) + 1 \in DOMAIN iocp' /\ iocp'[Len(iocp) + 1].kind = "request"
          /\ iocp'[Len(iocp) + 1].buf = b
      BY <2>3, LenProperties DEF PostsRequest, Put
    <3>2. QED
      BY <3>1 DEF Posted, InPort
  <2>4. CASE Posts(s)
    <3>1. /\ ~lost /\ SBecomes(s, "addref", sender[s].part, sender[s].order)
          /\ BufferOf(s) \in Buffer /\ BufferOf(s).order = sender[s].order /\ nNextWriteOrder' = nNextWriteOrder
      BY <2>4 DEF Posts, BufferOf, orderVars, SBecomes
    <3>2. PICK b \in Buffer : b = BufferOf(s)
      BY <3>1
    <3>3. Posted(b)' /\ b.order = sender[s].order
      <4>1. b = [order |-> sender[s].order, from |-> s, part |-> sender[s].part]
        BY <3>2 DEF BufferOf
      <4>2. Posted(b)'
        BY <2>3, <2>4, <4>1 DEF Posts
      <4>3. QED
        BY <4>1, <4>2
    <3>4. \A r \in Senders : InPost(r) => \/ InPost(r)' /\ sender'[r].order = sender[r].order
                                          \/ r = s
      BY <3>1 DEF InPost, SAt, SBecomes
    <3>5. QED
      BY <1>1, <2>0, <3>1, <3>3, <3>4 DEF Due, DueNext
  <2>5. CASE PostFails(s) \/ SendFails(s)
    BY <2>5 DEF PostFails, SendFails
  <2>6. CASE Sends(s)
    <3>1. /\ ~lost /\ SBecomes(s, "sendAddref", sender[s].part, nNextWriteOrder + 1) /\ sender[s].pc # "post"
          /\ nNextWriteOrder' = nNextWriteOrder + 1
          /\ [order |-> nNextWriteOrder + 1, from |-> s, part |-> sender[s].part] \in Buffer
      BY <2>6 DEF Sends
    <3>2. CASE o = nNextWriteOrder + 1
      <4>1. PICK b \in Buffer : b = [order |-> nNextWriteOrder + 1, from |-> s, part |-> sender[s].part]
        BY <3>1
      <4>2. Posted(b)'
        BY <2>3, <2>6, <4>1 DEF Sends
      <4>3. b.order = o
        BY <3>2, <4>1
      <4>4. QED
        BY <4>2, <4>3
    <3>3. CASE o # nNextWriteOrder + 1
      <4>1. Due(o)
        BY <1>0, <2>0, <3>1, <3>3 DEF Due, DueNext
      <4>2. \A r \in Senders : InPost(r) => InPost(r)' /\ sender'[r].order = sender[r].order
        BY <3>1 DEF InPost, SAt, SBecomes
      <4>3. QED
        BY <1>1, <3>1, <4>1, <4>2
    <3>4. QED
      BY <3>2, <3>3
  <2>7. QED
    BY <2>0, <2>1, <2>2, <2>4, <2>5, <2>6 DEF SenderEffect
<1>3. CASE Other \/ \E w \in Workers : WorkerStep(w)
  <2>1. sender' = sender /\ lost' = lost /\ nNextWriteOrder' = nNextWriteOrder
    BY <1>3, WorkerLeaves, OtherLeaves DEF orderVars
  <2>2. Due(o)
    <3>1. nNextWriteOrderToProcess' \in {nNextWriteOrderToProcess, nNextWriteOrderToProcess + 1}
      BY WireEffect DEF Drains
    <3>2. QED
      BY <1>0, <2>1, <3>1 DEF Due, DueNext
  <2>3. QED
    BY <1>1, <2>1, <2>2 DEF InPost, SAt
<1>4. QED
  BY <1>2, <1>3, Steps

\* Whose turn it is has a worker.
LEMMA TurnStep ==
  ASSUME TypeInv, PlaceInv, TurnInv, [Next]_vars
  PROVE  TurnInv'
<1> SUFFICES ASSUME ~Ending', Turn' # {}
             PROVE  \E v \in Workers : WAt(v, "drain")'
  BY DEF TurnInv
<1>0. ~Ending
  BY EndingStays
<1>1. ASSUME UNCHANGED <<toWriteQueue, nNextWriteOrderToProcess>>,
             \A v \in Workers : WAt(v, "drain") => WAt(v, "drain")'
      PROVE  \E v \in Workers : WAt(v, "drain")'
  <2>1. Turn' = Turn
    BY <1>1 DEF Turn
  <2>2. QED
    BY <1>0, <1>1, <2>1 DEF TurnInv
<1>2. CASE \E s \in Senders : SenderStep(s)
  <2>1. UNCHANGED <<toWriteQueue, nNextWriteOrderToProcess, worker, closer>>
    BY <1>2, SenderLeaves
  <2>2. QED
    BY <1>1, <2>1 DEF WAt
<1>3. CASE Other
  <2>1. UNCHANGED <<toWriteQueue, nNextWriteOrderToProcess, worker>>
    BY <1>3, OtherLeaves DEF orderVars
  <2>2. \A v \in Workers : closer[v] = "none" => closer'[v] = "none"
    <3>1. ASSUME NEW t \in Threads, CloserStep(t) PROVE \A v \in Workers : closer[v] = "none" => closer'[v] = "none"
      <4>1. closer[t] # "none"
        BY <3>1 DEF CloserStep, ShutdownConnection, DiscardAllBuffers, LeaveDisconnect
      <4>2. \E p : CBecomes(t, p)
        BY <3>1, CloserMoves DEF CloserStep
      <4>3. QED
        BY <4>1, <4>2 DEF CBecomes, Threads
    <3>2. ASSUME NEW t \in Closers, CallDisconnectAgent(t) PROVE FALSE
      <4>1. t \in Threads /\ closer'[t] = "shutdown"
        BY <3>2, CloserMoves DEF Threads, CBecomes
      <4>2. QED
        BY <4>1 DEF Ending, Threads
    <3>3. CASE WriteCompletes \/ SignalShutdown \/ UNCHANGED vars
      BY <3>3 DEF WriteCompletes, SignalShutdown, vars
    <3>4. QED
      BY <1>3, <3>1, <3>2, <3>3 DEF Other
  <2>3. QED
    BY <1>1, <2>1, <2>2 DEF WAt
<1>4. ASSUME NEW w \in Workers, WorkerStep(w) PROVE \E v \in Workers : WAt(v, "drain")'
  <2>1. ~WorkerError(w)
    <3>1. ASSUME WorkerError(w) PROVE FALSE
      <4>1. w \in Threads /\ closer \in [Threads -> CloserPcs] /\ ~shuttingDown
        BY <1>0 DEF Threads, TypeInv, Ending
      <4>2. closer'[w] = "shutdown"
        BY <3>1, <4>1 DEF WorkerError
      <4>3. QED
        BY <4>1, <4>2 DEF Ending, Threads
    <3>2. QED
      BY <3>1
  <2>2. closer' = closer
    BY <1>4, <2>1 DEF WorkerStep, Dequeue, AddBufferInSortedToWriteQueue, DrainEnd, DrainDiscard, DrainWrite, DrainFail,
                      WorkerEnd
  <2>3. CASE Dequeue(w) \/ WorkerEnd(w)
    <3>1. ~WAt(w, "drain") /\ UNCHANGED <<toWriteQueue, nNextWriteOrderToProcess>>
      BY <2>3 DEF Dequeue, WorkerEnd, WAt, queueVars, orderVars
    <3>2. \A v \in Workers \ {w} : worker'[v] = worker[v]
      BY <2>3, WorkerMoves DEF WBecomes
    <3>3. QED
      BY <1>1, <2>2, <3>1, <3>2 DEF WAt
  <2>4. CASE AddBufferInSortedToWriteQueue(w)
    <3>1. WBecomes(w, "drain", NoBuffer) /\ closer[w] = "none"
      BY <2>4, WorkerMoves DEF AddBufferInSortedToWriteQueue, WAt
    <3>2. QED
      BY <2>2, <3>1 DEF WBecomes, WAt
  <2>5. CASE DrainEnd(w)
    <3>1. Turn = {} /\ Turn' = Turn
      BY <1>0, <2>5 DEF DrainEnd, Ending, Turn, queueVars, orderVars
    <3>2. QED
      BY <3>1
  <2>6. CASE DrainDiscard(w) \/ DrainWrite(w)
    <3>1. WAt(w, "drain") /\ worker' = worker
      BY <2>6 DEF DrainDiscard, DrainWrite
    <3>2. QED
      BY <2>2, <3>1 DEF WAt
  <2>7. CASE DrainFail(w)
    <3>1. WBecomes(w, "error", worker[w].buf) /\ closer[w] = "none"
      BY <2>7, WorkerMoves DEF DrainFail, WAt
    <3>2. QED
      BY <2>2, <3>1 DEF WBecomes, WAt, Ending
  <2>8. QED
    BY <1>4, <2>1, <2>3, <2>4, <2>5, <2>6, <2>7 DEF WorkerStep
<1>5. QED
  BY <1>2, <1>3, <1>4, Steps

----------------------------------------------------------------------------
(* The invariant *)

\* At the start nothing has been sent.
LEMMA InitIInv ==
  ASSUME Init
  PROVE  IInv
<1>1. /\ sender = [s \in Senders |-> [pc |-> "start", part |-> 1, order |-> 0]]
      /\ worker = [w \in Workers |-> [pc |-> "idle", buf |-> NoBuffer]]
      /\ closer = [t \in Threads |-> "none"]
      /\ iocp = <<>> /\ toWriteQueue = {} /\ writing = <<>> /\ wire = <<>> /\ discarded = {}
      /\ nNextWriteOrder = 0 /\ nNextWriteOrderToProcess = 1 /\ nInUseMessageCount = 0 /\ nRefCount = 1
      /\ nState = "connected" /\ connLock = NoThread /\ initialRef = TRUE /\ shuttingDown = FALSE /\ lost = FALSE
  BY DEF Init, Threads
<1>2. TypeInv
  <2>1. sender \in [Senders -> SenderRec]
    BY <1>1, ConstantsAssumption DEF SenderRec
  <2>2. worker \in [Workers -> WorkerRec]
    BY <1>1 DEF WorkerRec
  <2>3. closer \in [Threads -> CloserPcs]
    BY <1>1 DEF CloserPcs
  <2>4. /\ iocp \in Seq(Packet) /\ writing \in Seq(Buffer) /\ wire \in Seq(Buffer)
        /\ toWriteQueue \subseteq Buffer /\ IsFiniteSet(toWriteQueue)
    BY <1>1, FS_EmptySet
  <2>5. initialRef \in BOOLEAN /\ shuttingDown \in BOOLEAN /\ lost \in BOOLEAN
    BY <1>1, Zenon
  <2>6. /\ nState \in {"connected", "destroying"} /\ connLock \in Workers \cup {NoThread}
        /\ nNextWriteOrder \in Nat /\ nNextWriteOrderToProcess \in Nat /\ discarded \subseteq Nat
        /\ nInUseMessageCount \in Int /\ nRefCount \in Int
    BY <1>1
  <2>7. QED
    BY <2>1, <2>2, <2>3, <2>4, <2>5, <2>6 DEF TypeInv
<1>3. PlaceInv
  BY <1>1, ConstantsAssumption DEF PlaceInv, SAt
<1>4. ReleaseInv
  BY <1>1 DEF ReleaseInv
<1>5. Len(iocp) = 0 /\ Len(writing) = 0 /\ Cardinality(toWriteQueue) = 0
  BY <1>1, FS_EmptySet
<1>6. CountInv
  <2>1. Requesting = {} /\ Posting = {} /\ Busy = {} /\ Calling = {} /\ Leaving = {}
    BY <1>1 DEF Requesting, Posting, Busy, Calling, Leaving
  <2>2. Cardinality({}) = 0 /\ First1 = 1
    BY <1>1, FS_EmptySet DEF First1
  <2>3. InUseExact
    BY <1>1, <1>5, <2>1, <2>2, CountsAre
  <2>4. RefCountExact
    BY <1>1, <1>5, <2>1, <2>2, CountsAre
  <2>5. QED
    BY <2>3, <2>4 DEF CountInv
<1>7. DOMAIN iocp = {} /\ DOMAIN wire = {}
  BY <1>1
<1>8. (\A s \in Senders : sender[s].pc = "start" /\ sender[s].part = 1) /\ \A w \in Workers : worker[w].pc = "idle"
  BY <1>1
<1>9. DueInv /\ OnePlace /\ WireInv /\ WireInOrder /\ DiscardInv
  BY <1>1, <1>7, <1>8 DEF DueInv, OnePlace, InPost, SAt, InPort, InHand, WireInv, WireInOrder, DiscardInv
<1>10. ChainInv
  BY <1>1, <1>7, <1>8 DEF ChainInv, Accepted, Posted, Reached, InHand, Follows, InPost, SAt
<1>11. WholeInv
  BY <1>1 DEF WholeInv, Due
<1>12. TurnInv
  BY <1>1 DEF TurnInv, Turn
<1>13. QED
  BY <1>2, <1>3, <1>4, <1>6, <1>9, <1>10, <1>11, <1>12 DEF IInv

\* Every step keeps it.
LEMMA NextIInv ==
  ASSUME IInv, [Next]_vars
  PROVE  IInv'
<1>0. /\ TypeInv /\ PlaceInv /\ ReleaseInv /\ CountInv /\ DueInv /\ OnePlace /\ WireInv /\ WireInOrder
      /\ DiscardInv /\ ChainInv /\ WholeInv /\ TurnInv
  BY DEF IInv
<1>1. TypeInv' /\ PlaceInv'
  BY <1>0, Steps, SenderTypes, WorkerTypes, OtherTypes DEF Other
<1>2. ReleaseInv'
  BY <1>0, ReleaseStep
<1>3. CountInv'
  BY <1>0, <1>1, Steps, SenderCount, WorkerCount, OtherCount DEF Other
<1>4. DueInv' /\ OnePlace'
  <2>1. OrderInv
    BY <1>0 DEF OrderInv
  <2>2. OrderInv'
    BY <1>0, <1>1, <2>1, OrderStep
  <2>3. QED
    BY <2>2 DEF OrderInv
<1>5. WireInv' /\ WireInOrder'
  BY <1>0, WireStep
<1>6. DiscardInv'
  BY <1>0, DiscardStep
<1>7. ChainInv'
  BY <1>0, ChainStep
<1>8. WholeInv'
  BY <1>0, WholeStep
<1>9. TurnInv'
  BY <1>0, TurnStep
<1>10. QED
  BY <1>1, <1>2, <1>3, <1>4, <1>5, <1>6, <1>7, <1>8, <1>9 DEF IInv

\* The inductive invariant: where every request is, what it counts for, and
\* that as long as the connection lives nothing is skipped and whose turn it
\* is has a worker.
THEOREM Inductive == Spec => []IInv
<1>1. Init => IInv
  BY InitIInv
<1>2. IInv /\ [Next]_vars => IInv'
  BY NextIInv
<1>3. QED
  BY <1>1, <1>2, PTL DEF Spec

----------------------------------------------------------------------------
(* What the sending half promises *)

\* Every variable keeps its type; no count of the engine ever drops below zero,
\* however the calls, the completions and the disconnects interleave.
THEOREM TypeCorrect == Spec => []TypeOK
<1>1. IInv => TypeOK
  <2> SUFFICES ASSUME IInv PROVE TypeOK
    OBVIOUS
  <2>1. TypeInv /\ InUseExact /\ RefCountExact
    BY DEF IInv, CountInv
  <2>2. Len(iocp) \in Nat /\ Len(writing) \in Nat /\ Cardinality(toWriteQueue) \in Nat
    BY <2>1, LenProperties, FS_CardinalityType DEF TypeInv
  <2>3. nInUseMessageCount \in Nat
    BY <2>1, <2>2, CountsTyped, CountsAre
  <2>4. nRefCount \in Nat
    <3>1. First1 \in Nat
      BY DEF First1
    <3>2. Cardinality(Busy) \in Nat /\ Cardinality(Calling) \in Nat /\ Cardinality(Leaving) \in Nat
      BY CountsTyped
    <3>3. nRefCount = First1 + Len(iocp) + Len(writing) + 2 * Cardinality(Busy)
                      + Cardinality(Calling) + Cardinality(Leaving)
      BY <2>1, CountsAre
    <3>4. QED
      BY <2>2, <3>1, <3>2, <3>3
  <2>5. /\ \A s \in Senders : sender[s].part \in 1..Chunks + 2 /\ sender[s].order \in Nat
        /\ \A w \in Workers : worker[w].buf \in Buffer \cup {NoBuffer}
    BY <2>1 DEF TypeInv, SenderRec, WorkerRec
  <2>6. iocp \in Seq([kind : {"request", "written"}, ok : BOOLEAN, buf : Buffer])
    BY <2>1 DEF TypeInv, Packet
  <2>7. QED
    BY <2>1, <2>3, <2>4, <2>5, <2>6 DEF TypeOK, TypeInv
<1>2. QED
  BY <1>1, Inductive, PTL

\* The messages reach the pipe in the order in which SendMsg and
\* SendBigPacketMsg numbered them, whichever workers write them.
THEOREM WireOrder == Spec => []WireInOrder
<1>1. IInv => WireInOrder
  BY DEF IInv
<1>2. QED
  BY <1>1, Inductive, PTL

\* A message never overtakes a part of its big packet while the connection
\* lives, although SendBigPacketMsg posts without the connection's lock.
THEOREM PacketFirst == Spec => []PacketBeforeMessage
<1>1. IInv => PacketBeforeMessage
  <2> SUFFICES ASSUME IInv, ~Ending, NEW j \in DOMAIN wire, wire[j].part > 1
               PROVE  \E i \in 1..j - 1 : wire[i].from = wire[j].from /\ wire[i].part = wire[j].part - 1
    BY DEF PacketBeforeMessage
  <2>0. TypeInv /\ DueInv /\ WireInv /\ WireInOrder /\ ChainInv /\ PlaceInv
    BY DEF IInv
  <2>1. DOMAIN wire = 1..Len(wire) /\ Len(wire) \in Nat /\ wire[j] \in Buffer /\ wire[j].order \in Nat
    BY <2>0, WireDomain
  <2>2. Accepted(wire[j])
    BY DEF Accepted, Reached
  <2>3. Follows(wire[j].from, wire[j].part, wire[j].order)
    BY <2>0, <2>1, <2>2 DEF ChainInv
  <2>4. PICK c \in Buffer :
          c.from = wire[j].from /\ c.part = wire[j].part - 1 /\ c.order < wire[j].order /\ Accepted(c)
    BY <2>3 DEF Follows
  <2>5. ~Posted(c)
    <3>1. Posted(c) => nNextWriteOrderToProcess <= c.order
      BY <2>0 DEF Posted, DueInv, Due
    <3>2. wire[j].order < nNextWriteOrderToProcess
      BY <2>0 DEF WireInv
    <3>3. c.order \in Nat /\ nNextWriteOrderToProcess \in Nat
      BY <2>0, PortDomain DEF Buffer
    <3>4. QED
      BY <2>1, <2>4, <3>1, <3>2, <3>3
  <2>6. PICK i \in DOMAIN wire : wire[i] = c
    BY <2>4, <2>5 DEF Accepted, Reached
  <2>7. i < j
    <3>1. j < i => wire[j].order < wire[i].order
      BY <2>0 DEF WireInOrder
    <3>2. c.order \in Nat /\ i \in Nat /\ j \in Nat
      BY <2>1 DEF Buffer
    <3>3. QED
      BY <2>1, <2>4, <2>6, <3>1, <3>2
  <2>8. i \in 1..j - 1
    BY <2>1, <2>7
  <2>9. QED
    BY <2>4, <2>6, <2>8
<1>2. QED
  BY <1>1, Inductive, PTL

\* No accepted message stays behind in the queue of writes: the worker that
\* found it out of turn left it to one that came back for it.
THEOREM NothingStays == Spec => []AcceptedIsWritten
<1>1. IInv => AcceptedIsWritten
  <2> SUFFICES ASSUME IInv, Quiet, ~Ending
               PROVE  /\ Turn = {}
                      /\ lost \/ \A s \in Senders : sender[s].pc = "done" /\ sender[s].part = Chunks + 2 =>
                           \E i \in DOMAIN wire : wire[i].from = s /\ wire[i].part = Chunks + 1
    BY DEF AcceptedIsWritten
  <2>0. TypeInv /\ PlaceInv /\ DueInv /\ WireInv /\ ChainInv /\ WholeInv /\ TurnInv
    BY DEF IInv
  <2>1. /\ DOMAIN iocp = {} /\ \A w \in Workers : worker[w].pc = "idle"
        /\ \A s \in Senders : ~InPost(s)
    BY DEF Quiet, WAt, InPost
  <2>2. Turn = {}
    BY <2>0, <2>1 DEF TurnInv, WAt
  <2>3. ASSUME ~lost, NEW s \in Senders, sender[s].part = Chunks + 2
        PROVE  \E i \in DOMAIN wire : wire[i].from = s /\ wire[i].part = Chunks + 1
    <3>0. Chunks \in Nat /\ nNextWriteOrder \in Nat /\ nNextWriteOrderToProcess \in Nat
      BY <2>0, ConstantsAssumption, PortDomain
    <3>1. Follows(s, sender[s].part, nNextWriteOrder + 1)
      BY <2>0 DEF ChainInv
    <3>2. PICK c \in Buffer : c.from = s /\ c.part = (Chunks + 2) - 1 /\ Accepted(c)
      BY <2>3, <3>0, <3>1 DEF Follows
    <3>3. \A b : Posted(b) => b \in toWriteQueue
      BY <2>1 DEF Posted, InPort, InHand
    <3>4. toWriteQueue = {}
      <4>1. ASSUME NEW b \in toWriteQueue PROVE FALSE
        <5>1. Due(b.order) /\ b.order \in Nat
          BY <2>0, <4>1, PortDomain DEF DueInv
        <5>2. Due(nNextWriteOrderToProcess)
          BY <3>0, <5>1 DEF Due
        <5>3. Waiting(nNextWriteOrderToProcess)
          BY <2>0, <2>3, <3>0, <5>2 DEF WholeInv
        <5>4. PICK d \in toWriteQueue : d.order = nNextWriteOrderToProcess
          BY <2>1, <3>3, <5>3 DEF Waiting
        <5>5. \A e \in toWriteQueue : d.order <= e.order
          BY <2>0, <5>4 DEF DueInv, Due
        <5>6. d \in Turn
          BY <5>4, <5>5 DEF Turn
        <5>7. QED
          BY <2>2, <5>6
      <4>2. QED
        BY <4>1
    <3>5. Reached(c)
      BY <3>2, <3>3, <3>4 DEF Accepted
    <3>6. QED
      BY <3>0, <3>2, <3>5 DEF Reached
  <2>4. QED
    BY <2>2, <2>3
<1>2. QED
  BY <1>1, Inductive, PTL

\* nInUseMessageCount counts exactly the buffers that are somewhere, on every
\* path, also those on which a post, a duplication or a write fails.
THEOREM BuffersExact == Spec => []InUseExact
<1>1. IInv => InUseExact
  BY DEF IInv, CountInv
<1>2. QED
  BY <1>1, Inductive, PTL

\* The connection's reference count is exactly what its holders add up to, so
\* the connection is released neither too early nor never.
THEOREM ReferencesExact == Spec => []RefCountExact
<1>1. IInv => RefCountExact
  BY DEF IInv, CountInv
<1>2. QED
  BY <1>1, Inductive, PTL

=============================================================================
