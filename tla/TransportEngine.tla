-------------------------- MODULE TransportEngine --------------------------
(***************************************************************************)
(* The receiving half of CNktDvTransportEngine                             *)
(* (Source/Engine/SpyMgr/TransportEngine.cpp) for one agent connection:    *)
(* overlapped reads on the agent's pipe, the I/O completion port and its   *)
(* worker threads, the sorted queue that puts the messages back in order,  *)
(* the fixed dispatcher threads that call TEC_OnAgentMessage, the          *)
(* reference count of CConnection, and the three ways a connection ends:   *)
(* DisconnectAgent by a client, by a thread that met an error, and         *)
(* Finalize.                                                               *)
(*                                                                         *)
(* Message i is the i-th one the agent writes.  Every step is one locked   *)
(* region or one access to shared state of the code.                       *)
(***************************************************************************)
EXTENDS Integers, Sequences, FiniteSets

CONSTANTS Workers,        \* IOCP worker threads
          Dispatchers,    \* fixed dispatcher threads
          Disconnectors,  \* client threads that call DisconnectAgent once
          Senders,        \* client threads that look the connection up once
          Finalizers,     \* {} or the one thread that calls Finalize
          NoThread,
          NMsgs,          \* bound: messages the agent writes
          ReadAhead,      \* READ_AHEAD
          MessagesPerRound, \* MESSAGES_PER_ROUND
          Tid, IsBig,     \* dwThreadId, and whether it is a BigData packet, of each message
          DispatcherOf,   \* the dispatcher that each thread id hashes to
          BadMsgs,        \* messages that TEC_OnAgentMessage may refuse
          RefusedMsgs     \* messages that DispatchReadMessage itself may refuse

Threads == Workers \cup Dispatchers \cup Disconnectors \cup Senders \cup Finalizers
Msgs == 1..NMsgs

ASSUME ConstantsAssumption ==
  /\ NMsgs \in Nat /\ ReadAhead \in Nat \ {0} /\ MessagesPerRound \in Nat \ {0}
  /\ NoThread \notin Threads
  /\ IsFiniteSet(Threads)
  /\ Finalizers \cap (Workers \cup Dispatchers \cup Disconnectors) = {}
  /\ \A m \in Msgs : IsBig[m] \in BOOLEAN
  /\ \A m \in Msgs : DispatcherOf[Tid[m]] \in Dispatchers
  /\ BadMsgs \subseteq Msgs /\ RefusedMsgs \subseteq Msgs

VARIABLES
  \* the agent and the kernel
  sent,        \* messages the agent has written so far
  pipe,        \* those the pipe still buffers
  broken,      \* the agent closed its end
  posted,      \* orders of the pending ReadFile calls, oldest first
  iocp,        \* queued completion packets
  \* CConnection
  nState, nNextReadOrder, nNextReadOrderToProcess,
  readedQueue, \* cReadedQueueBufferList; sorted by order, so a set
  discarded,   \* orders of the buffers marked XTYPE_Discard
  nRefCount, life, inList, initialRef,
  \* threads
  worker, queue, hEvent, disp,
  discPc, toClear, lock, destroyer, senderPc, finPc, shuttingDown,
  \* histories
  taken,       \* messages whose turn came, but for those already discarded
  dispatched,  \* those of them that DispatchReadMessage queued, in that order
  handled,     \* per dispatcher, messages given to TEC_OnAgentMessage
  closedCalls  \* calls of TEC_OnConnectionClosed

kernelVars == <<sent, pipe, broken, posted, iocp>>
orderVars == <<nNextReadOrder, nNextReadOrderToProcess, readedQueue, discarded>>
refVars == <<nRefCount, life, destroyer>>
dispVars == <<queue, hEvent, disp, handled>>
discVars == <<discPc, toClear, lock, initialRef, inList, nState, closedCalls>>
clientVars == <<senderPc, finPc, shuttingDown>>
vars == <<kernelVars, orderVars, refVars, dispVars, discVars, clientVars, worker, taken, dispatched>>

Packet == [ok : BOOLEAN, order : Nat, msg : Nat]
Idle == [pc |-> "idle", order |-> 0, msg |-> 0, arg |-> 0]

Init ==
  /\ sent = 0 /\ pipe = <<>> /\ broken = FALSE
  /\ posted = [i \in 1..ReadAhead |-> i]
  /\ iocp = <<>>
  /\ nState = "connected"
  /\ nNextReadOrder = ReadAhead /\ nNextReadOrderToProcess = 1
  /\ readedQueue = {} /\ discarded = {}
  /\ nRefCount = 1 + ReadAhead /\ initialRef = TRUE
  /\ life = "alive" /\ inList = TRUE /\ destroyer = NoThread
  /\ worker = [w \in Workers |-> Idle]
  /\ queue = [d \in Dispatchers |-> <<>>]
  /\ hEvent = [d \in Dispatchers |-> FALSE]
  /\ disp = [d \in Dispatchers |-> [pc |-> "wait", batch |-> <<>>, done |-> 0, failed |-> FALSE]]
  /\ discPc = [t \in Threads |-> "none"]
  /\ toClear = [t \in Threads |-> {}]
  /\ lock = NoThread
  /\ senderPc = [s \in Senders |-> "start"]
  /\ finPc = "start" /\ shuttingDown = FALSE
  /\ taken = 0 /\ dispatched = <<>>
  /\ handled = [d \in Dispatchers |-> <<>>]
  /\ closedCalls = 0

----------------------------------------------------------------------------
(* CNktDvObject: the thread that drops the last reference runs the          *)
(* destructor, which takes the engine's lock to leave cConnList.            *)

AddRef == nRefCount' = nRefCount + 1 /\ UNCHANGED <<life, destroyer>>

Release(t, n) ==
  /\ nRefCount' = nRefCount - n
  /\ IF nRefCount' = 0 /\ n > 0 /\ life = "alive"
       THEN life' = "destructing" /\ destroyer' = t
       ELSE UNCHANGED <<life, destroyer>>

\* ~CConnection reaches RemoveNode, under the engine's (reentrant) lock.
Destroy ==
  /\ destroyer # NoThread
  /\ lock \in {NoThread, destroyer}
  /\ life' = "destroyed" /\ inList' = FALSE /\ destroyer' = NoThread
  /\ UNCHANGED <<kernelVars, orderVars, nRefCount, dispVars, discPc, toClear, lock, initialRef,
                 nState, closedCalls, clientVars, worker, taken, dispatched>>

----------------------------------------------------------------------------
(* The agent and the kernel *)

AgentWrite ==
  /\ sent < NMsgs /\ ~broken /\ nState = "connected"
  /\ sent' = sent + 1
  /\ pipe' = Append(pipe, sent + 1)
  /\ UNCHANGED <<broken, posted, iocp, orderVars, refVars, dispVars, discVars, clientVars, worker, taken, dispatched>>

\* The agent's end goes away; what it wrote last may go with it.
AgentBreak ==
  /\ ~broken
  /\ broken' = TRUE
  /\ pipe' \in {pipe, <<>>}
  /\ UNCHANGED <<sent, posted, iocp, orderVars, refVars, dispVars, discVars, clientVars, worker, taken, dispatched>>

\* The oldest pending read takes the next message, and its packet is queued.
ReadCompletes ==
  /\ posted # <<>> /\ pipe # <<>>
  /\ iocp' = Append(iocp, [ok |-> TRUE, order |-> Head(posted), msg |-> Head(pipe)])
  /\ posted' = Tail(posted) /\ pipe' = Tail(pipe)
  /\ UNCHANGED <<sent, broken, orderVars, refVars, dispVars, discVars, clientVars, worker, taken, dispatched>>

FailedPackets(orders) == [i \in DOMAIN orders |-> [ok |-> FALSE, order |-> orders[i], msg |-> 0]]

ReadsFail ==
  /\ posted # <<>> /\ pipe = <<>> /\ broken
  /\ iocp' = iocp \o FailedPackets(posted)
  /\ posted' = <<>>
  /\ UNCHANGED <<sent, pipe, broken, orderVars, refVars, dispVars, discVars, clientVars, worker, taken, dispatched>>

----------------------------------------------------------------------------
(* WorkerThreadProc, the completion of a read *)

\* A thread inside DisconnectAgent or in the destructor finishes that first.
At(w, s) == worker[w].pc = s /\ discPc[w] = "none" /\ w # destroyer
GoTo(w, s) == worker' = [worker EXCEPT ![w].pc = s]

\* GetQueuedCompletionStatus; CConnectionAutoRef.  A buffer that was marked
\* XTYPE_Discard while its read was pending is only freed.
Dequeue(w) ==
  /\ At(w, "idle") /\ iocp # <<>>
  /\ LET p == Head(iocp)
         next == IF ~p.ok THEN "error" ELSE IF p.order \in discarded THEN "end" ELSE "readed"
     IN worker' = [worker EXCEPT ![w] = [pc |-> next, order |-> p.order, msg |-> p.msg, arg |-> 0]]
  /\ iocp' = Tail(iocp)
  /\ AddRef
  /\ UNCHANGED <<sent, pipe, broken, posted, orderVars, dispVars, discVars, clientVars, taken, dispatched>>

AddBufferInSortedReadedQueue(w) ==
  /\ At(w, "readed")
  /\ readedQueue' = readedQueue \cup {[order |-> worker[w].order, msg |-> worker[w].msg]}
  /\ GoTo(w, "ahead")
  /\ UNCHANGED <<kernelVars, nNextReadOrder, nNextReadOrderToProcess, discarded, refVars, dispVars,
                 discVars, clientVars, taken, dispatched>>

\* The next read-ahead: order and ReadFile under the connection's lock.
SendReadPacket(w) ==
  /\ At(w, "ahead")
  /\ nNextReadOrder' = nNextReadOrder + 1
  /\ IF nState = "connected" /\ ~(broken /\ pipe = <<>>)
       THEN posted' = Append(posted, nNextReadOrder + 1) /\ GoTo(w, "addref")
       ELSE posted' = posted /\ GoTo(w, "error")
  /\ UNCHANGED <<sent, pipe, broken, iocp, nNextReadOrderToProcess, readedQueue, discarded, refVars,
                 dispVars, discVars, clientVars, taken, dispatched>>

\* ... and the AddRef for it, after the lock was left.
AddRefForRead(w) ==
  /\ At(w, "addref")
  /\ AddRef
  /\ GoTo(w, "fetch")
  /\ UNCHANGED <<kernelVars, orderVars, dispVars, discVars, clientVars, taken, dispatched>>

\* The argument of GetBufferFromSortedReadedQueue is read outside any lock.
FetchNextOrder(w) ==
  /\ At(w, "fetch")
  /\ worker' = [worker EXCEPT ![w].pc = IF shuttingDown THEN "end" ELSE "get",
                              ![w].arg = nNextReadOrderToProcess]
  /\ UNCHANGED <<kernelVars, orderVars, refVars, dispVars, discVars, clientVars, taken, dispatched>>

IsHead(b) == b \in readedQueue /\ \A c \in readedQueue : b.order <= c.order

\* Wrong variant: the head is taken whatever its order.
GetBuffer_anyHead(w) ==
  /\ At(w, "get")
  /\ \/ \E b \in readedQueue :
          /\ IsHead(b)
          /\ readedQueue' = readedQueue \ {b}
          /\ worker' = [worker EXCEPT ![w].pc = "dispatch", ![w].order = b.order, ![w].msg = b.msg]
     \/ /\ readedQueue = {} /\ readedQueue' = readedQueue
        /\ GoTo(w, "end")
  /\ UNCHANGED <<kernelVars, nNextReadOrder, nNextReadOrderToProcess, discarded, refVars, dispVars,
                 discVars, clientVars, taken, dispatched>>

GetBufferFromSortedReadedQueue(w) ==
  /\ At(w, "get")
  /\ \/ \E b \in readedQueue :
          /\ IsHead(b) /\ b.order = worker[w].arg
          /\ readedQueue' = readedQueue \ {b}
          /\ worker' = [worker EXCEPT ![w].pc = "dispatch", ![w].order = b.order, ![w].msg = b.msg]
     \/ /\ \A b \in readedQueue : IsHead(b) => b.order # worker[w].arg
        /\ readedQueue' = readedQueue
        /\ GoTo(w, "end")
  /\ UNCHANGED <<kernelVars, nNextReadOrder, nNextReadOrderToProcess, discarded, refVars, dispVars,
                 discVars, clientVars, taken, dispatched>>

\* DispatchReadMessage: route by thread id, AddRef, AddOverlapped + SetEvent.  A
\* message whose size is wrong (which is looked at before the discard mark), or
\* for which no temporary dispatcher can be started, is refused.
DispatchReadMessage(w) ==
  /\ At(w, "dispatch")
  /\ LET m == worker[w].msg
         d == DispatcherOf[Tid[m]]
         isDiscarded == worker[w].order \in discarded
     IN /\ taken' = IF isDiscarded THEN taken ELSE taken + 1
        /\ \/ /\ m \in RefusedMsgs
              /\ GoTo(w, "refused")
              /\ UNCHANGED <<refVars, queue, hEvent, dispatched>>
           \/ /\ isDiscarded
              /\ GoTo(w, "increment")
              /\ UNCHANGED <<refVars, queue, hEvent, dispatched>>
           \/ /\ ~isDiscarded
              /\ GoTo(w, "increment")
              /\ AddRef
              /\ queue' = [queue EXCEPT ![d] = Append(@, m)]
              /\ hEvent' = [hEvent EXCEPT ![d] = TRUE]
              /\ dispatched' = Append(dispatched, m)
  /\ UNCHANGED <<kernelVars, orderVars, disp, handled, discVars, clientVars>>

\* Wrong variant: a worker dispatches one message and leaves.
IncrementOrder_once(w) ==
  /\ At(w, "increment") \/ At(w, "refused")
  /\ nNextReadOrderToProcess' = nNextReadOrderToProcess + 1
  /\ GoTo(w, "end")
  /\ UNCHANGED <<kernelVars, nNextReadOrder, readedQueue, discarded, refVars, dispVars, discVars,
                 clientVars, taken, dispatched>>

\* The number goes up whatever DispatchReadMessage returned; only then does a
\* failure end the loop.
IncrementOrder(w) ==
  /\ At(w, "increment") \/ At(w, "refused")
  /\ nNextReadOrderToProcess' = nNextReadOrderToProcess + 1
  /\ GoTo(w, IF worker[w].pc = "refused" THEN "error" ELSE "fetch")
  /\ UNCHANGED <<kernelVars, nNextReadOrder, readedQueue, discarded, refVars, dispVars, discVars,
                 clientVars, taken, dispatched>>

\* FAILED(hRes): TEC_OnTransportError, then DisconnectAgent(lpConn->dwPid).
WorkerError(w) ==
  /\ At(w, "error")
  /\ GoTo(w, "end")
  /\ discPc' = [discPc EXCEPT ![w] = "enter"]
  /\ UNCHANGED <<kernelVars, orderVars, refVars, dispVars, toClear, lock, initialRef, inList, nState,
                 closedCalls, clientVars, taken, dispatched>>

\* lpConn->Release() for the packet, then ~CConnectionAutoRef.
WorkerEnd(w) ==
  /\ At(w, "end")
  /\ Release(w, 2)
  /\ worker' = [worker EXCEPT ![w] = Idle]
  /\ UNCHANGED <<kernelVars, orderVars, dispVars, discVars, clientVars, taken, dispatched>>

WorkerStep(w) ==
  \/ Dequeue(w) \/ AddBufferInSortedReadedQueue(w) \/ SendReadPacket(w) \/ AddRefForRead(w)
  \/ FetchNextOrder(w) \/ GetBufferFromSortedReadedQueue(w) \/ DispatchReadMessage(w)
  \/ IncrementOrder(w) \/ WorkerError(w) \/ WorkerEnd(w)

----------------------------------------------------------------------------
(* DispatcherThreadProc of a fixed dispatcher *)

DispAt(d, s) == disp[d].pc = s /\ discPc[d] = "none" /\ d # destroyer

\* CheckForAbort(INFINITE, 1, &hAvailableEvent) returns; ResetEvent.
Wake(d) ==
  /\ DispAt(d, "wait") /\ hEvent[d]
  /\ hEvent' = [hEvent EXCEPT ![d] = FALSE]
  /\ disp' = [disp EXCEPT ![d].pc = "take"]
  /\ UNCHANGED <<kernelVars, orderVars, refVars, queue, handled, discVars, clientVars, worker, taken, dispatched>>

SameRound(m, n) == Tid[m] = Tid[n] /\ IsBig[m] = IsBig[n]

\* Messages taken in a round: the head of the queue, and those right behind it
\* of the same connection, thread and kind.
RoundSize(q) ==
  CHOOSE n \in 1..Len(q) :
    /\ n <= MessagesPerRound
    /\ \A i \in 1..n : SameRound(q[1], q[i])
    /\ n < Len(q) /\ n < MessagesPerRound => ~SameRound(q[1], q[n + 1])

TakeRound(d) ==
  /\ DispAt(d, "take")
  /\ IF queue[d] = <<>>
       THEN /\ disp' = [disp EXCEPT ![d].pc = "wait"]
            /\ queue' = queue
       ELSE LET n == RoundSize(queue[d])
            IN /\ disp' = [disp EXCEPT ![d] = [pc |-> "process", batch |-> SubSeq(queue[d], 1, n),
                                               done |-> 0, failed |-> FALSE]]
               /\ queue' = [queue EXCEPT ![d] = SubSeq(@, n + 1, Len(@))]
  /\ UNCHANGED <<kernelVars, orderVars, refVars, hEvent, handled, discVars, clientVars, worker, taken, dispatched>>

\* TEC_OnAgentMessage (or ProcessPacket) for the next message of the round; a
\* refused message ends the round.
ProcessMessage(d) ==
  /\ DispAt(d, "process")
  /\ disp[d].done < Len(disp[d].batch) /\ ~disp[d].failed
  /\ LET m == disp[d].batch[disp[d].done + 1]
     IN /\ handled' = [handled EXCEPT ![d] = Append(@, m)]
        /\ \E failed \in IF m \in BadMsgs THEN BOOLEAN ELSE {FALSE} :
             disp' = [disp EXCEPT ![d].done = @ + 1, ![d].failed = failed]
  /\ UNCHANGED <<kernelVars, orderVars, refVars, queue, hEvent, discVars, clientVars, worker, taken, dispatched>>

\* Wrong variant: what was not processed goes to the back.
EndRound_toBack(d) ==
  /\ DispAt(d, "process")
  /\ disp[d].done = Len(disp[d].batch) \/ disp[d].failed
  /\ LET rest == SubSeq(disp[d].batch, disp[d].done + 1, Len(disp[d].batch))
     IN queue' = [queue EXCEPT ![d] = @ \o rest]
  /\ disp' = [disp EXCEPT ![d].pc = "release", ![d].batch = SubSeq(@, 1, disp[d].done)]
  /\ UNCHANGED <<kernelVars, orderVars, refVars, hEvent, handled, discVars, clientVars, worker, taken, dispatched>>

\* What was not processed goes back to the front, without setting the event.
EndRound(d) ==
  /\ DispAt(d, "process")
  /\ disp[d].done = Len(disp[d].batch) \/ disp[d].failed
  /\ LET rest == SubSeq(disp[d].batch, disp[d].done + 1, Len(disp[d].batch))
     IN queue' = [queue EXCEPT ![d] = rest \o @]
  /\ disp' = [disp EXCEPT ![d].pc = "release", ![d].batch = SubSeq(@, 1, disp[d].done)]
  /\ UNCHANGED <<kernelVars, orderVars, refVars, hEvent, handled, discVars, clientVars, worker, taken, dispatched>>

\* Wrong variant: one round for each time the event was set.
ReleaseRound_once(d) ==
  /\ DispAt(d, "release")
  /\ Release(d, disp[d].done)
  /\ disp' = [disp EXCEPT ![d] = [pc |-> "wait", batch |-> <<>>, done |-> 0, failed |-> FALSE]]
  /\ discPc' = [discPc EXCEPT ![d] = IF disp[d].failed THEN "enter" ELSE "none"]
  /\ UNCHANGED <<kernelVars, orderVars, queue, hEvent, handled, toClear, lock, initialRef, inList,
                 nState, closedCalls, clientVars, worker, taken, dispatched>>

\* One Release per processed message; on failure DisconnectAgent.
ReleaseRound(d) ==
  /\ DispAt(d, "release")
  /\ Release(d, disp[d].done)
  /\ disp' = [disp EXCEPT ![d] = [pc |-> "take", batch |-> <<>>, done |-> 0, failed |-> FALSE]]
  /\ discPc' = [discPc EXCEPT ![d] = IF disp[d].failed THEN "enter" ELSE "none"]
  /\ UNCHANGED <<kernelVars, orderVars, queue, hEvent, handled, toClear, lock, initialRef, inList,
                 nState, closedCalls, clientVars, worker, taken, dispatched>>

DispatcherStep(d) ==
  Wake(d) \/ TakeRound(d) \/ ProcessMessage(d) \/ EndRound(d) \/ ReleaseRound(d)

----------------------------------------------------------------------------
(* DisconnectAgent, InternalDisconnectAgent and InternalDisconnectAgent2;   *)
(* Finalize enters the last one directly and without the callback.          *)

DiscAt(t, s) == discPc[t] = s /\ t # destroyer
DiscGoTo(t, s) == discPc' = [discPc EXCEPT ![t] = s]

\* Workers and dispatchers go on with their loop, clients are finished.
Returned(t) == IF t \in Disconnectors \cup Finalizers THEN "done" ELSE "none"

\* Under the engine's lock, unless Finalize has signalled shutdown: find the
\* connection, with a reference.
DiscEnter(t) ==
  /\ DiscAt(t, "enter")
  /\ \/ /\ shuttingDown \/ (lock = NoThread /\ ~inList)
        /\ DiscGoTo(t, Returned(t))
        /\ UNCHANGED <<refVars, lock, toClear>>
     \/ /\ ~shuttingDown /\ lock = NoThread /\ inList
        /\ lock' = t
        /\ AddRef
        /\ DiscGoTo(t, "remove")
        /\ toClear' = [toClear EXCEPT ![t] = Dispatchers]
  /\ UNCHANGED <<kernelVars, orderVars, dispVars, initialRef, inList, nState, closedCalls, clientVars,
                 worker, taken, dispatched>>

\* Wrong variant: the freed messages keep their references.
RemoveConnection_leak(t) ==
  /\ DiscAt(t, "remove")
  /\ \E d \in toClear[t] :
       /\ queue' = [queue EXCEPT ![d] = <<>>]
       /\ toClear' = [toClear EXCEPT ![t] = @ \ {d}]
  /\ UNCHANGED <<kernelVars, orderVars, refVars, hEvent, disp, handled, discPc, lock, initialRef, inList,
                 nState, closedCalls, clientVars, worker, taken, dispatched>>

\* CDispatcher::RemoveConnection: free the queued messages, one Release each.
RemoveConnection(t) ==
  /\ DiscAt(t, "remove")
  /\ \E d \in toClear[t] :
       /\ queue' = [queue EXCEPT ![d] = <<>>]
       /\ Release(t, Len(queue[d]))
       /\ toClear' = [toClear EXCEPT ![t] = @ \ {d}]
  /\ UNCHANGED <<kernelVars, orderVars, hEvent, disp, handled, discPc, lock, initialRef, inList, nState,
                 closedCalls, clientVars, worker, taken, dispatched>>

\* Wrong variant: bDoRelease does not look at nState.
ShutdownConnection_always(t) ==
  /\ DiscAt(t, "remove") /\ toClear[t] = {}
  /\ nState' = "destroying"
  /\ pipe' = <<>>
  /\ iocp' = iocp \o FailedPackets(posted)
  /\ posted' = <<>>
  /\ DiscGoTo(t, "discard")
  /\ UNCHANGED <<sent, broken, orderVars, refVars, dispVars, toClear, lock, initialRef, inList,
                 closedCalls, clientVars, worker, taken, dispatched>>

\* CConnection::Shutdown by the first caller closes the pipe, which fails the
\* pending reads.
ShutdownConnection(t) ==
  /\ DiscAt(t, "remove") /\ toClear[t] = {}
  /\ IF nState = "destroying"
       THEN /\ DiscGoTo(t, "unref")
            /\ UNCHANGED <<nState, pipe, posted, iocp>>
       ELSE /\ nState' = "destroying"
            /\ pipe' = <<>>
            /\ iocp' = iocp \o FailedPackets(posted)
            /\ posted' = <<>>
            /\ DiscGoTo(t, "discard")
  /\ UNCHANGED <<sent, broken, orderVars, refVars, dispVars, toClear, lock, initialRef, inList,
                 closedCalls, clientVars, worker, taken, dispatched>>

\* Orders of the buffers in cActiveRwBufferList and cReadedQueueBufferList.
ListedOrders ==
  {posted[i] : i \in DOMAIN posted} \cup {iocp[i].order : i \in DOMAIN iocp}
  \cup {worker[w].order : w \in {v \in Workers : worker[v].pc = "readed"}}
  \cup {b.order : b \in readedQueue}

DiscardAllBuffers(t) ==
  /\ DiscAt(t, "discard")
  /\ discarded' = discarded \cup ListedOrders
  /\ DiscGoTo(t, IF t \in Finalizers THEN "release" ELSE "callback")
  /\ UNCHANGED <<kernelVars, nNextReadOrder, nNextReadOrderToProcess, readedQueue, refVars, dispVars,
                 toClear, lock, initialRef, inList, nState, closedCalls, clientVars, worker, taken, dispatched>>

\* TEC_OnConnectionClosed, with the engine's lock left.
ConnectionClosed(t) ==
  /\ DiscAt(t, "callback")
  /\ closedCalls' = closedCalls + 1
  /\ lock' = NoThread
  /\ DiscGoTo(t, "relock")
  /\ UNCHANGED <<kernelVars, orderVars, refVars, dispVars, toClear, initialRef, inList, nState,
                 clientVars, worker, taken, dispatched>>

DiscRelock(t) ==
  /\ DiscAt(t, "relock") /\ lock = NoThread
  /\ lock' = t
  /\ DiscGoTo(t, "release")
  /\ UNCHANGED <<kernelVars, orderVars, refVars, dispVars, toClear, initialRef, inList, nState,
                 closedCalls, clientVars, worker, taken, dispatched>>

\* The extra release of the reference the connection was created with.
ReleaseInitial(t) ==
  /\ DiscAt(t, "release")
  /\ Release(t, 1)
  /\ initialRef' = FALSE
  /\ DiscGoTo(t, "unref")
  /\ UNCHANGED <<kernelVars, orderVars, dispVars, toClear, lock, inList, nState, closedCalls, clientVars,
                 worker, taken, dispatched>>

\* ~CConnectionAutoRef of InternalDisconnectAgent (Finalize has none), and the
\* end of the locked region.
DiscLeave(t) ==
  /\ DiscAt(t, "unref")
  /\ Release(t, IF t \in Finalizers THEN 0 ELSE 1)
  /\ DiscGoTo(t, "leave")
  /\ UNCHANGED <<kernelVars, orderVars, dispVars, toClear, lock, initialRef, inList, nState, closedCalls,
                 clientVars, worker, taken, dispatched>>

DiscUnlock(t) ==
  /\ DiscAt(t, "leave")
  /\ lock' = NoThread
  /\ DiscGoTo(t, Returned(t))
  /\ UNCHANGED <<kernelVars, orderVars, refVars, dispVars, toClear, initialRef, inList, nState,
                 closedCalls, clientVars, worker, taken, dispatched>>

DisconnectStep(t) ==
  \/ DiscEnter(t) \/ RemoveConnection(t) \/ ShutdownConnection(t) \/ DiscardAllBuffers(t)
  \/ ConnectionClosed(t) \/ DiscRelock(t) \/ ReleaseInitial(t) \/ DiscLeave(t) \/ DiscUnlock(t)

----------------------------------------------------------------------------
(* Clients *)

\* A client calls DisconnectAgent.
CallDisconnectAgent(t) ==
  /\ discPc[t] = "none"
  /\ DiscGoTo(t, IF shuttingDown THEN "done" ELSE "enter")
  /\ UNCHANGED <<kernelVars, orderVars, refVars, dispVars, toClear, lock, initialRef, inList, nState,
                 closedCalls, clientVars, worker, taken, dispatched>>

\* SendMsg looks the connection up under the engine's lock ...
FindConnection(s) ==
  /\ senderPc[s] = "start"
  /\ \/ /\ shuttingDown \/ (lock = NoThread /\ ~inList)
        /\ senderPc' = [senderPc EXCEPT ![s] = "done"]
        /\ UNCHANGED refVars
     \/ /\ ~shuttingDown /\ lock = NoThread /\ inList
        /\ AddRef
        /\ senderPc' = [senderPc EXCEPT ![s] = "using"]
  /\ UNCHANGED <<kernelVars, orderVars, dispVars, discVars, finPc, shuttingDown, worker, taken, dispatched>>

\* ... and uses it under its reference only (the write path is TransportWrite).
ReleaseConnection(s) ==
  /\ senderPc[s] = "using"
  /\ Release(s, 1)
  /\ senderPc' = [senderPc EXCEPT ![s] = "done"]
  /\ UNCHANGED <<kernelVars, orderVars, dispVars, discVars, finPc, shuttingDown, worker, taken, dispatched>>

\* Finalize signals shutdown under the engine's lock and leaves it to wait.
BeginFinalize(t) ==
  /\ finPc = "start" /\ lock = NoThread
  /\ shuttingDown' = TRUE
  /\ finPc' = "waitPending"
  /\ UNCHANGED <<kernelVars, orderVars, refVars, dispVars, discVars, senderPc, worker, taken, dispatched>>

\* Nobody is inside an operation any more (see ShutdownMutex): disconnect what
\* is left in cConnList, without the callback.
PendingDrained(t) ==
  /\ finPc = "waitPending" /\ lock = NoThread
  /\ \A u \in Threads \ {t} : discPc[u] \in {"none", "done"}
  /\ \A s \in Senders : senderPc[s] # "using"
  /\ finPc' = "waitList"
  /\ IF inList THEN /\ lock' = t
                    /\ DiscGoTo(t, "remove")
                    /\ toClear' = [toClear EXCEPT ![t] = Dispatchers]
               ELSE UNCHANGED <<lock, discPc, toClear>>
  /\ UNCHANGED <<kernelVars, orderVars, refVars, dispVars, initialRef, inList, nState, closedCalls,
                 senderPc, shuttingDown, worker, taken, dispatched>>

\* while (cConnList.IsEmpty() == FALSE) Sleep(10), then the threads are stopped.
ListEmpty(t) ==
  /\ finPc = "waitList" /\ discPc[t] \in {"none", "done"} /\ t # destroyer
  /\ lock = NoThread /\ ~inList
  /\ finPc' = "done"
  /\ UNCHANGED <<kernelVars, orderVars, refVars, dispVars, discVars, senderPc, shuttingDown, worker, taken,
                 dispatched>>

----------------------------------------------------------------------------

Next ==
  \/ AgentWrite \/ AgentBreak \/ ReadCompletes \/ ReadsFail
  \/ Destroy
  \/ \E w \in Workers : WorkerStep(w)
  \/ \E d \in Dispatchers : DispatcherStep(d)
  \/ \E t \in Threads : DisconnectStep(t)
  \/ \E t \in Disconnectors : CallDisconnectAgent(t)
  \/ \E s \in Senders : FindConnection(s) \/ ReleaseConnection(s)
  \/ \E t \in Finalizers : BeginFinalize(t) \/ PendingDrained(t) \/ ListEmpty(t)

Spec == Init /\ [][Next]_vars

(***************************************************************************)
(* The threads keep running and the engine's lock is fair enough.  Nothing *)
(* makes the agent write or a client call; a pending read completes once   *)
(* there is something to read, or the pipe is gone.                        *)
(***************************************************************************)
Fairness ==
  /\ WF_vars(ReadCompletes) /\ WF_vars(ReadsFail) /\ WF_vars(Destroy)
  /\ \A w \in Workers : WF_vars(WorkerStep(w))
  /\ \A d \in Dispatchers : WF_vars(DispatcherStep(d))
  /\ \A t \in Threads : SF_vars(DisconnectStep(t))
  /\ \A s \in Senders : WF_vars(ReleaseConnection(s))
  /\ \A t \in Finalizers : SF_vars(PendingDrained(t) \/ ListEmpty(t))

FairSpec == Spec /\ Fairness

----------------------------------------------------------------------------
(* Properties *)

WorkerStates == {"idle", "readed", "ahead", "addref", "fetch", "get", "dispatch", "increment", "refused",
                 "error", "end"}
DiscStates == {"none", "enter", "remove", "discard", "callback", "relock", "release", "unref", "leave", "done"}

TypeOK ==
  /\ sent \in 0..NMsgs /\ pipe \in Seq(Msgs) /\ broken \in BOOLEAN
  /\ posted \in Seq(Nat) /\ iocp \in Seq(Packet)
  /\ nState \in {"connected", "destroying"}
  /\ nNextReadOrder \in Nat /\ nNextReadOrderToProcess \in Nat
  /\ readedQueue \subseteq [order : Nat, msg : Msgs] /\ discarded \subseteq Nat
  /\ nRefCount \in Nat /\ life \in {"alive", "destructing", "destroyed"}
  /\ inList \in BOOLEAN /\ initialRef \in BOOLEAN
  /\ worker \in [Workers -> [pc : WorkerStates, order : Nat, msg : Nat, arg : Nat]]
  /\ queue \in [Dispatchers -> Seq(Msgs)] /\ hEvent \in [Dispatchers -> BOOLEAN]
  /\ disp \in [Dispatchers -> [pc : {"wait", "take", "process", "release"}, batch : Seq(Msgs),
                               done : Nat, failed : BOOLEAN]]
  /\ discPc \in [Threads -> DiscStates] /\ toClear \in [Threads -> SUBSET Dispatchers]
  /\ lock \in Threads \cup {NoThread} /\ destroyer \in Threads \cup {NoThread}
  /\ senderPc \in [Senders -> {"start", "using", "done"}]
  /\ finPc \in {"start", "waitPending", "waitList", "done"} /\ shuttingDown \in BOOLEAN
  /\ taken \in Nat /\ dispatched \in Seq(Msgs) /\ handled \in [Dispatchers -> Seq(Msgs)]
  /\ closedCalls \in Nat

Increasing(q) == \A i, j \in DOMAIN q : i < j => q[i] < q[j]

\* Whatever the workers' interleaving, messages reach the dispatchers in the
\* order the agent wrote them, and one whose turn is over was left out only if
\* DispatchReadMessage refused it.
DispatchedInOrder ==
  /\ Increasing(dispatched)
  /\ \A i \in DOMAIN dispatched : dispatched[i] <= taken
  /\ \A m \in (1..taken) \ RefusedMsgs : \E i \in DOMAIN dispatched : dispatched[i] = m

\* The connection ends, or a worker is on its way to DisconnectAgent.
GoingDown ==
  \/ nState = "destroying" \/ shuttingDown
  \/ \E w \in Workers : worker[w].pc \in {"refused", "error"} \/ discPc[w] # "none"

\* The engine implements the channel of RefusingDelivery: the agent's messages
\* in order, and a refused one is missing only from a channel that is going down.
Channel == INSTANCE RefusingDelivery WITH delivered <- dispatched, ending <- GoingDown
ImplementsChannel == Channel!Spec

\* TEC_OnAgentMessage sees the messages of one dispatcher, hence of one thread
\* of the agent, in the order they were written and each once, although rounds
\* are taken apart and put back when one fails.
HandledInOrder ==
  \A d \in Dispatchers :
    Increasing(handled[d] \o SubSeq(disp[d].batch, disp[d].done + 1, Len(disp[d].batch)) \o queue[d])

\* The worker that took the buffer numbered nNextReadOrderToProcess is the only
\* one past the queue until it increments that number.
OneDrainer ==
  \A v, w \in Workers :
    worker[v].pc \in {"dispatch", "increment", "refused"} /\ worker[w].pc \in {"dispatch", "increment", "refused"}
      => v = w

\* No completed read stays behind in the sorted queue when its turn has come
\* and no worker is on its way to look for it.
NoStrandedRead ==
  (\E b \in readedQueue : b.order = nNextReadOrderToProcess) /\ ~shuttingDown /\ nState = "connected"
    => \E w \in Workers : \/ worker[w].pc \in {"ahead", "addref", "fetch", "increment", "refused", "error"}
                          \/ worker[w].pc = "get" /\ worker[w].arg = nNextReadOrderToProcess
                          \/ discPc[w] # "none"

\* A dispatcher that waits with messages queued has its event set.
NoLostWakeup == \A d \in Dispatchers : queue[d] # <<>> /\ disp[d].pc = "wait" => hEvent[d]

\* The messages in the hands of the dispatchers, by dispatcher and position.
Held(d) == Len(queue[d]) + Len(disp[d].batch)
InDispatch == UNION {{d} \X (1..Held(d)) : d \in Dispatchers}

\* The references that exist: the creator's, one for each read posted or
\* completed, two for a busy worker, one for each message in a dispatcher's
\* hands, one for each client or disconnecting thread.
Holders ==
  (IF initialRef THEN 1 ELSE 0)
  + Len(posted) + Len(iocp)
  + 2 * Cardinality({w \in Workers : worker[w].pc # "idle"})
  - Cardinality({w \in Workers : worker[w].pc = "addref"})
  + Cardinality(InDispatch)
  + Cardinality({t \in Threads \ Finalizers :
                   discPc[t] \in {"remove", "discard", "callback", "relock", "release", "unref"}})
  + Cardinality({s \in Senders : senderPc[s] = "using"})

\* nRefCount is exactly the number of references: none leaks, none is returned
\* twice, on every path through errors and disconnects.
RefCountExact == nRefCount = Holders

\* ~CNktDvObject asserts that nobody refers to the object any more.
DestructorAssertion == life = "destroyed" => nRefCount = 0

\* TEC_OnConnectionClosed is called at most once, however many threads meet an
\* error at the same time, and not before the connection is shut down.
ClosedOnce == closedCalls <= (IF nState = "destroying" THEN 1 ELSE 0)

\* Every message the agent writes is handled, unless the connection ends first.
EveryMessageHandled ==
  \A m \in Msgs : sent >= m ~> \/ \E d \in Dispatchers : m \in {handled[d][i] : i \in DOMAIN handled[d]}
                               \/ broken \/ nState = "destroying" \/ shuttingDown

\* Nothing keeps a reference to a connection that is shut down for ever, so
\* Finalize, which waits until every connection is destroyed, ends.
FinalizeCompletes == finPc = "waitPending" ~> finPc = "done"

=============================================================================
