--------------------------- MODULE TransportWrite ---------------------------
(***************************************************************************)
(* The sending half of CNktDvTransportEngine                               *)
(* (Source/Engine/SpyMgr/TransportEngine.cpp) for one agent connection:    *)
(* SendMsg takes an order number and posts its request under the           *)
(* connection's lock, SendBigPacketMsg does so without it; the workers     *)
(* sort the requests and write them in order under the lock.  Every client *)
(* thread sends one big packet of Chunks parts and then the message that   *)
(* refers to it, as the NOTE in SendBigPacketMsg asks.                     *)
(***************************************************************************)
EXTENDS Integers, Sequences, FiniteSets

CONSTANTS Senders,       \* client threads
          Workers,       \* IOCP worker threads
          Closers,       \* client threads that disconnect the agent once
          NoThread,
          Chunks,        \* BigData parts sent before the message
          PostMayFail,   \* PostQueuedCompletionStatus may fail, once
          WriteMayFail,  \* DuplicateHandle, WriteFile or its completion may fail
          MayShutdown    \* Finalize may signal shutdown

ASSUME ConstantsAssumption ==
  /\ Chunks \in Nat
  /\ {PostMayFail, WriteMayFail, MayShutdown} \subseteq BOOLEAN
  /\ NoThread \notin Senders \cup Workers \cup Closers
  /\ IsFiniteSet(Senders) /\ IsFiniteSet(Workers) /\ IsFiniteSet(Closers)

VARIABLES nState, connLock, nNextWriteOrder, nNextWriteOrderToProcess,
          iocp,         \* posted requests and completed writes
          toWriteQueue, \* cToWriteQueueBufferList, sorted by order, so a set
          writing,      \* pending WriteFile calls, oldest first
          discarded,    \* orders of the buffers marked XTYPE_Discard
          nInUseMessageCount, nRefCount, initialRef, shuttingDown,
          sender, worker, closer,
          wire,         \* history: what WriteFile accepted, in order
          lost          \* history: some post failed and left a hole in the orders

connVars == <<nState, connLock, initialRef>>
queueVars == <<iocp, toWriteQueue, writing, discarded>>
orderVars == <<nNextWriteOrder, nNextWriteOrderToProcess>>
countVars == <<nInUseMessageCount, nRefCount>>
vars == <<connVars, queueVars, orderVars, countVars, shuttingDown, sender, worker, closer, wire, lost>>

Parts == 1..Chunks + 1   \* the last one is the message itself
Buffer == [order : Nat, from : Senders, part : Parts]
NoBuffer == [order |-> 0, from |-> NoThread, part |-> 0]

Init ==
  /\ nState = "connected" /\ connLock = NoThread /\ initialRef = TRUE
  /\ nNextWriteOrder = 0 /\ nNextWriteOrderToProcess = 1
  /\ iocp = <<>> /\ toWriteQueue = {} /\ writing = <<>> /\ discarded = {}
  /\ nInUseMessageCount = 0 /\ nRefCount = 1
  /\ shuttingDown = FALSE
  /\ sender = [s \in Senders |-> [pc |-> "start", part |-> 1, order |-> 0]]
  /\ worker = [w \in Workers |-> [pc |-> "idle", buf |-> NoBuffer]]
  /\ closer = [t \in Closers \cup Workers |-> "none"]
  /\ wire = <<>> /\ lost = FALSE

AddRef == nRefCount' = nRefCount + 1
Release(n) == nRefCount' = nRefCount - n
GetBuffer == nInUseMessageCount' = nInUseMessageCount + 1
FreeBuffer == nInUseMessageCount' = nInUseMessageCount - 1

----------------------------------------------------------------------------
(* SendBigPacketMsg, then SendMsg *)

SAt(s, p) == sender[s].pc = p
SGoTo(s, p) == sender' = [sender EXCEPT ![s].pc = p]
BufferOf(s) == [order |-> sender[s].order, from |-> s, part |-> sender[s].part]

\* ~CConnectionAutoRef of a call that failed: the caller does not go on.
GiveUp(s) == SGoTo(s, "done") /\ Release(1)

\* FindConnectionAndAddRef, in either call.
Find(s) ==
  /\ SAt(s, "start")
  /\ IF shuttingDown THEN SGoTo(s, "done") /\ UNCHANGED nRefCount
                     ELSE SGoTo(s, IF sender[s].part <= Chunks THEN "check" ELSE "send") /\ AddRef
  /\ UNCHANGED <<connVars, queueVars, orderVars, nInUseMessageCount, shuttingDown, worker, closer, wire, lost>>

\* SendBigPacketMsg looks at nState once, under the connection's lock.
CheckConnected(s) ==
  /\ SAt(s, "check") /\ connLock = NoThread
  /\ IF nState = "connected" THEN SGoTo(s, "order") /\ UNCHANGED nRefCount
                             ELSE GiveUp(s)
  /\ UNCHANGED <<connVars, queueVars, orderVars, nInUseMessageCount, shuttingDown, worker, closer, wire, lost>>

\* GetBuffer and the order number of the next part, without the lock ...
TakeOrder(s) ==
  /\ SAt(s, "order")
  /\ GetBuffer
  /\ nNextWriteOrder' = nNextWriteOrder + 1
  /\ sender' = [sender EXCEPT ![s].pc = "post", ![s].order = nNextWriteOrder + 1]
  /\ UNCHANGED <<connVars, queueVars, nNextWriteOrderToProcess, nRefCount, shuttingDown, worker, closer, wire, lost>>

\* ... and the post of its request.
Post(s) ==
  /\ SAt(s, "post")
  /\ \/ /\ iocp' = Append(iocp, [kind |-> "request", ok |-> TRUE, buf |-> BufferOf(s)])
        /\ SGoTo(s, "addref")
        /\ UNCHANGED <<countVars, lost>>
     \/ /\ PostMayFail /\ ~lost
        /\ FreeBuffer
        /\ lost' = TRUE
        /\ GiveUp(s)
        /\ iocp' = iocp
  /\ UNCHANGED <<connVars, toWriteQueue, writing, discarded, orderVars, shuttingDown, worker, closer, wire>>

\* After its last part the call returns, and its own reference goes.
NextPart(s) ==
  sender' = [sender EXCEPT ![s].part = @ + 1,
                           ![s].pc = IF sender[s].part < Chunks THEN "order" ELSE "start"]

\* Wrong variant: the posted request holds no reference.
AddRefForPart_forgotten(s) ==
  /\ SAt(s, "addref")
  /\ IF sender[s].part < Chunks THEN UNCHANGED nRefCount ELSE Release(1)
  /\ NextPart(s)
  /\ UNCHANGED <<connVars, queueVars, orderVars, nInUseMessageCount, shuttingDown, worker, closer, wire, lost>>

AddRefForPart(s) ==
  /\ SAt(s, "addref")
  /\ IF sender[s].part < Chunks THEN AddRef ELSE UNCHANGED nRefCount
  /\ NextPart(s)
  /\ UNCHANGED <<connVars, queueVars, orderVars, nInUseMessageCount, shuttingDown, worker, closer, wire, lost>>

\* SendMsg does all of it under the lock; on failure the buffer is freed, and
\* its order number is never written.
SendMsg(s) ==
  /\ SAt(s, "send") /\ connLock = NoThread
  /\ IF nState # "connected"
       THEN GiveUp(s) /\ UNCHANGED <<nInUseMessageCount, nNextWriteOrder, iocp, lost>>
       ELSE /\ nNextWriteOrder' = nNextWriteOrder + 1
            /\ \/ /\ sender' = [sender EXCEPT ![s].order = nNextWriteOrder + 1, ![s].pc = "sendAddref"]
                  /\ GetBuffer
                  /\ iocp' = Append(iocp, [kind |-> "request", ok |-> TRUE,
                                           buf |-> [order |-> nNextWriteOrder + 1, from |-> s,
                                                    part |-> sender[s].part]])
                  /\ UNCHANGED <<nRefCount, lost>>
               \/ /\ PostMayFail /\ ~lost
                  /\ lost' = TRUE
                  /\ GiveUp(s)
                  /\ UNCHANGED <<nInUseMessageCount, iocp>>
  /\ UNCHANGED <<connVars, toWriteQueue, writing, discarded, nNextWriteOrderToProcess,
                 shuttingDown, worker, closer, wire>>

\* The packet's reference comes, the call's own goes.
AddRefForMsg(s) ==
  /\ SAt(s, "sendAddref")
  /\ sender' = [sender EXCEPT ![s].part = @ + 1, ![s].pc = "done"]
  /\ UNCHANGED <<connVars, queueVars, orderVars, countVars, shuttingDown, worker, closer, wire, lost>>

SenderStep(s) ==
  \/ Find(s) \/ CheckConnected(s) \/ TakeOrder(s) \/ Post(s) \/ AddRefForPart(s)
  \/ SendMsg(s) \/ AddRefForMsg(s)

----------------------------------------------------------------------------
(* WorkerThreadProc, write requests and completed writes *)

WAt(w, p) == worker[w].pc = p /\ closer[w] = "none"
WGoTo(w, p) == worker' = [worker EXCEPT ![w].pc = p]

\* A worker takes its reference.  A completed write, or a request marked
\* XTYPE_Discard, only frees its buffer; if it succeeded the worker is back
\* without its reference and without that of the packet.
Dequeue(w) ==
  /\ WAt(w, "idle") /\ iocp # <<>>
  /\ iocp' = Tail(iocp)
  /\ LET p == Head(iocp)
     IN IF p.kind = "request" /\ p.buf.order \notin discarded
          THEN /\ worker' = [worker EXCEPT ![w] = [pc |-> "request", buf |-> p.buf]]
               /\ AddRef
               /\ UNCHANGED nInUseMessageCount
          ELSE /\ IF p.ok THEN Release(1) /\ worker' = worker
                          ELSE AddRef /\ WGoTo(w, "error")
               /\ FreeBuffer
  /\ UNCHANGED <<connVars, toWriteQueue, writing, discarded, orderVars, shuttingDown, sender, closer, wire, lost>>

\* The connection's lock, held for the whole drain.
AddBufferInSortedToWriteQueue(w) ==
  /\ WAt(w, "request") /\ connLock = NoThread
  /\ connLock' = w
  /\ toWriteQueue' = toWriteQueue \cup {worker[w].buf}
  /\ worker' = [worker EXCEPT ![w] = [pc |-> "drain", buf |-> NoBuffer]]
  /\ UNCHANGED <<nState, initialRef, iocp, writing, discarded, orderVars, countVars, shuttingDown, sender,
                 closer, wire, lost>>

\* GetBufferFromSortedToWriteQueue(nNextWriteOrderToProcess) looks at the head.
Turn == {b \in toWriteQueue : b.order = nNextWriteOrderToProcess /\ \A c \in toWriteQueue : b.order <= c.order}

\* The loop ends: nothing to write, or shutdown was signalled.  The worker leaves
\* the lock, its reference and that of the packet it came for.
DrainEnd(w) ==
  /\ WAt(w, "drain")
  /\ Turn = {} \/ shuttingDown
  /\ connLock' = NoThread
  /\ Release(2)
  /\ WGoTo(w, "idle")
  /\ UNCHANGED <<nState, initialRef, queueVars, orderVars, nInUseMessageCount, shuttingDown, sender, closer, wire, lost>>

DrainDiscard(w) ==
  /\ WAt(w, "drain") /\ ~shuttingDown
  /\ \E b \in Turn :
       /\ b.order \in discarded
       /\ toWriteQueue' = toWriteQueue \ {b}
  /\ FreeBuffer
  /\ nNextWriteOrderToProcess' = nNextWriteOrderToProcess + 1
  /\ UNCHANGED <<connVars, iocp, writing, discarded, nNextWriteOrder, nRefCount, shuttingDown, sender, worker,
                 closer, wire, lost>>

\* Wrong variant: any buffer of the queue is written.
DrainWrite_anyHead(w) ==
  /\ WAt(w, "drain") /\ ~shuttingDown /\ nState = "connected"
  /\ \E b \in toWriteQueue \ Turn :
       /\ b.order \notin discarded
       /\ toWriteQueue' = toWriteQueue \ {b}
       /\ writing' = Append(writing, b)
       /\ wire' = Append(wire, b)
  /\ AddRef
  /\ nNextWriteOrderToProcess' = nNextWriteOrderToProcess + 1
  /\ UNCHANGED <<connVars, iocp, discarded, nNextWriteOrder, nInUseMessageCount, shuttingDown, sender, worker,
                 closer, lost>>

\* Wrong variant: the pending write has no reference of its own.
DrainWrite_noref(w) ==
  /\ WAt(w, "drain") /\ ~shuttingDown /\ nState = "connected"
  /\ \E b \in Turn :
       /\ b.order \notin discarded
       /\ toWriteQueue' = toWriteQueue \ {b}
       /\ writing' = Append(writing, b)
       /\ wire' = Append(wire, b)
  /\ nNextWriteOrderToProcess' = nNextWriteOrderToProcess + 1
  /\ UNCHANGED <<connVars, iocp, discarded, nNextWriteOrder, countVars, shuttingDown, sender, worker,
                 closer, lost>>

\* Wrong variant: a worker writes one message and leaves.
DrainWrite_once(w) ==
  /\ WAt(w, "drain") /\ ~shuttingDown /\ nState = "connected"
  /\ \E b \in Turn :
       /\ b.order \notin discarded
       /\ toWriteQueue' = toWriteQueue \ {b}
       /\ writing' = Append(writing, b)
       /\ wire' = Append(wire, b)
  /\ Release(1)
  /\ nNextWriteOrderToProcess' = nNextWriteOrderToProcess + 1
  /\ connLock' = NoThread
  /\ WGoTo(w, "idle")
  /\ UNCHANGED <<nState, initialRef, iocp, discarded, nNextWriteOrder, nInUseMessageCount, shuttingDown, sender,
                 closer, lost>>

\* WriteFile is accepted.
DrainWrite(w) ==
  /\ WAt(w, "drain") /\ ~shuttingDown /\ nState = "connected"
  /\ \E b \in Turn :
       /\ b.order \notin discarded
       /\ toWriteQueue' = toWriteQueue \ {b}
       /\ writing' = Append(writing, b)
       /\ wire' = Append(wire, b)
  /\ AddRef
  /\ nNextWriteOrderToProcess' = nNextWriteOrderToProcess + 1
  /\ UNCHANGED <<connVars, iocp, discarded, nNextWriteOrder, nInUseMessageCount, shuttingDown, sender, worker,
                 closer, lost>>

\* Wrong variant: the buffer of the refused write is forgotten.
DrainFail_leak(w) ==
  /\ WAt(w, "drain") /\ ~shuttingDown
  /\ WriteMayFail \/ nState # "connected"
  /\ \E b \in Turn :
       /\ b.order \notin discarded
       /\ toWriteQueue' = toWriteQueue \ {b}
  /\ nNextWriteOrderToProcess' = nNextWriteOrderToProcess + 1
  /\ connLock' = NoThread
  /\ WGoTo(w, "error")
  /\ UNCHANGED <<nState, initialRef, iocp, writing, discarded, nNextWriteOrder, countVars, shuttingDown,
                 sender, closer, wire, lost>>

\* DuplicateHandle or WriteFile fails: the order still advances, and the loop ends.
DrainFail(w) ==
  /\ WAt(w, "drain") /\ ~shuttingDown
  /\ WriteMayFail \/ nState # "connected"
  /\ \E b \in Turn :
       /\ b.order \notin discarded
       /\ toWriteQueue' = toWriteQueue \ {b}
  /\ FreeBuffer
  /\ nNextWriteOrderToProcess' = nNextWriteOrderToProcess + 1
  /\ connLock' = NoThread
  /\ WGoTo(w, "error")
  /\ UNCHANGED <<nState, initialRef, iocp, writing, discarded, nNextWriteOrder, nRefCount, shuttingDown,
                 sender, closer, wire, lost>>

\* FAILED(hRes): DisconnectAgent, unless shutting down.
WorkerError(w) ==
  /\ WAt(w, "error")
  /\ WGoTo(w, "end")
  /\ IF shuttingDown THEN UNCHANGED <<closer, nRefCount>>
                     ELSE closer' = [closer EXCEPT ![w] = "shutdown"] /\ AddRef
  /\ UNCHANGED <<connVars, queueVars, orderVars, nInUseMessageCount, shuttingDown, sender, wire, lost>>

WorkerEnd(w) ==
  /\ WAt(w, "end")
  /\ Release(2)
  /\ WGoTo(w, "idle")
  /\ UNCHANGED <<connVars, queueVars, orderVars, nInUseMessageCount, shuttingDown, sender, closer, wire, lost>>

WorkerStep(w) ==
  \/ Dequeue(w) \/ AddBufferInSortedToWriteQueue(w) \/ DrainEnd(w) \/ DrainDiscard(w)
  \/ DrainWrite(w) \/ DrainFail(w) \/ WorkerError(w) \/ WorkerEnd(w)

\* The kernel completes the oldest pending write.
WriteCompletes ==
  /\ writing # <<>>
  /\ \E ok \in IF WriteMayFail THEN BOOLEAN ELSE {TRUE} :
       iocp' = Append(iocp, [kind |-> "written", ok |-> ok, buf |-> Head(writing)])
  /\ writing' = Tail(writing)
  /\ UNCHANGED <<connVars, toWriteQueue, discarded, orderVars, countVars, shuttingDown, sender, worker, closer,
                 wire, lost>>

----------------------------------------------------------------------------
(* InternalDisconnectAgent2, as far as it touches the write path *)

CallDisconnectAgent(t) ==
  /\ closer[t] = "none" /\ ~shuttingDown
  /\ closer' = [closer EXCEPT ![t] = "shutdown"]
  /\ AddRef
  /\ UNCHANGED <<connVars, queueVars, orderVars, nInUseMessageCount, shuttingDown, sender, worker, wire, lost>>

\* CConnection::Shutdown, under the connection's lock: closing the pipe fails
\* the pending writes.
ShutdownConnection(t) ==
  /\ closer[t] = "shutdown" /\ connLock = NoThread
  /\ IF nState = "connected"
       THEN /\ nState' = "destroying"
            /\ iocp' = iocp \o [i \in DOMAIN writing |-> [kind |-> "written", ok |-> FALSE, buf |-> writing[i]]]
            /\ writing' = <<>>
            /\ closer' = [closer EXCEPT ![t] = "discard"]
       ELSE /\ closer' = [closer EXCEPT ![t] = "leave"]
            /\ UNCHANGED <<nState, iocp, writing>>
  /\ UNCHANGED <<connLock, initialRef, toWriteQueue, discarded, orderVars, countVars, shuttingDown, sender,
                 worker, wire, lost>>

\* Buffers in cActiveRwBufferList and cToWriteQueueBufferList.  One that is
\* about to be posted may be in the first already.
ListedOrders ==
  {iocp[i].buf.order : i \in DOMAIN iocp} \cup {b.order : b \in toWriteQueue}
  \cup {worker[w].buf.order : w \in {v \in Workers : worker[v].pc = "request"}}

DiscardAllBuffers(t) ==
  /\ closer[t] = "discard"
  /\ \E early \in SUBSET {sender[s].order : s \in {r \in Senders : sender[r].pc = "post"}} :
       discarded' = discarded \cup ListedOrders \cup early
  /\ closer' = [closer EXCEPT ![t] = "release"]
  /\ UNCHANGED <<connVars, iocp, toWriteQueue, writing, orderVars, countVars, shuttingDown, sender, worker,
                 wire, lost>>

\* The connection's first reference goes, after a shutdown, and the caller's own.
LeaveDisconnect(t) ==
  /\ closer[t] \in {"release", "leave"}
  /\ initialRef' = (initialRef /\ closer[t] = "leave")
  /\ Release(IF closer[t] = "release" THEN 2 ELSE 1)
  /\ closer' = [closer EXCEPT ![t] = IF t \in Workers THEN "none" ELSE "done"]
  /\ UNCHANGED <<nState, connLock, queueVars, orderVars, nInUseMessageCount, shuttingDown, sender, worker, wire, lost>>

CloserStep(t) == ShutdownConnection(t) \/ DiscardAllBuffers(t) \/ LeaveDisconnect(t)

\* Finalize calls SignalShutdown: the workers stop draining.
SignalShutdown ==
  /\ MayShutdown /\ ~shuttingDown
  /\ shuttingDown' = TRUE
  /\ UNCHANGED <<connVars, queueVars, orderVars, countVars, sender, worker, closer, wire, lost>>

----------------------------------------------------------------------------

Next ==
  \/ \E s \in Senders : SenderStep(s)
  \/ \E w \in Workers : WorkerStep(w)
  \/ \E t \in Closers \cup Workers : CloserStep(t)
  \/ \E t \in Closers : CallDisconnectAgent(t)
  \/ WriteCompletes \/ SignalShutdown

Spec == Init /\ [][Next]_vars

----------------------------------------------------------------------------
(* Properties *)

TypeOK ==
  /\ nState \in {"connected", "destroying"} /\ initialRef \in BOOLEAN
  /\ connLock \in Workers \cup {NoThread}
  /\ nNextWriteOrder \in Nat /\ nNextWriteOrderToProcess \in Nat
  /\ iocp \in Seq([kind : {"request", "written"}, ok : BOOLEAN, buf : Buffer])
  /\ toWriteQueue \subseteq Buffer /\ writing \in Seq(Buffer) /\ discarded \subseteq Nat
  /\ nInUseMessageCount \in Nat /\ nRefCount \in Nat
  /\ shuttingDown \in BOOLEAN /\ lost \in BOOLEAN
  /\ \A s \in Senders : sender[s].part \in 1..Chunks + 2 /\ sender[s].order \in Nat
  /\ \A w \in Workers : worker[w].buf \in Buffer \cup {NoBuffer}
  /\ wire \in Seq(Buffer)

\* Messages go onto the wire in the order of their numbers, so in the order in
\* which the senders took them, whichever worker writes them.
WireInOrder == \A i, j \in DOMAIN wire : i < j => wire[i].order < wire[j].order

\* The connection is closed or about to be: a worker whose write failed is on its way.
Ending ==
  \/ shuttingDown \/ nState = "destroying"
  \/ \E w \in Workers : WAt(w, "error")
  \/ \E t \in Closers \cup Workers : closer[t] = "shutdown"

\* The parts a thread sends reach the agent complete and in order, the message
\* last: the agent reads no message before the big packet it refers to, except
\* when the part could not be written and the connection ends.
PacketBeforeMessage ==
  ~Ending =>
    \A j \in DOMAIN wire : wire[j].part > 1 =>
      \E i \in 1..j - 1 : wire[i].from = wire[j].from /\ wire[i].part = wire[j].part - 1

\* Every buffer is accounted for, on every failure path.
Outstanding ==
  Len(iocp) + Cardinality(toWriteQueue) + Len(writing)
  + Cardinality({w \in Workers : worker[w].pc = "request"})
  + Cardinality({s \in Senders : sender[s].pc = "post"})
InUseExact == nInUseMessageCount = Outstanding

\* So is every reference: the creator's, one for each packet in flight, two for
\* a busy worker, one for each client inside a call; a part whose AddRef is
\* still to come counts one less.
Holders ==
  (IF initialRef THEN 1 ELSE 0) + Len(iocp) + Len(writing)
  + 2 * Cardinality({w \in Workers : worker[w].pc # "idle"})
  + Cardinality({s \in Senders : sender[s].pc \notin {"start", "done", "addref", "sendAddref"}})
  + Cardinality({t \in Closers \cup Workers : closer[t] \notin {"none", "done"}})
RefCountExact == nRefCount = Holders

\* When nothing is left to do, every accepted message is on the wire: a worker
\* that found that it was not its turn left its message to one that wrote it.
\* After a post that failed, those whose turn has come are.
Quiet ==
  /\ iocp = <<>> /\ \A w \in Workers : WAt(w, "idle")
  /\ \A s \in Senders : ~SAt(s, "post")
AcceptedIsWritten ==
  Quiet /\ ~Ending =>
    /\ Turn = {}
    /\ lost \/ \A s \in Senders : sender[s].pc = "done" /\ sender[s].part = Chunks + 2 =>
         \E i \in DOMAIN wire : wire[i].from = s /\ wire[i].part = Chunks + 1
=============================================================================
