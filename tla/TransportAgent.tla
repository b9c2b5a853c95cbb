--------------------------- MODULE TransportAgent ---------------------------
(***************************************************************************)
(* CNktDvTransportAgent (Source/Engine/Agent/TransportAgent.cpp): the end  *)
(* of the pipe that lives in the hooked process.  Unlike the engine it has *)
(* one connection and no dispatchers: the IOCP workers put the messages    *)
(* back in order and call the manager themselves, and they write without a *)
(* lock around the drain.  The first worker that fails closes the pipe and *)
(* calls TAC_OnConnectionClosed.                                           *)
(*                                                                         *)
(* Init is the state after a successful Initialize.  Message i is the i-th *)
(* one the engine writes.  The calls of the manager (TAC_On...) begin and  *)
(* end in steps of their own.                                              *)
(***************************************************************************)
EXTENDS Integers, Sequences, FiniteSets

CONSTANTS Workers,       \* worker threads
          ReadAhead,     \* READ_AHEAD
          MaxReceived,   \* bound: messages of the engine
          MaxSent,       \* bound: calls of SendMsg
          EngineMayLeave,\* the engine may close its end
          HandlerMayFail,\* TAC_OnEngineMessage or SignalProcessedEvent may fail
          SendMayFail    \* a post, DuplicateHandle or WriteFile may fail

ASSUME ConstantsAssumption ==
  /\ ReadAhead \in Nat \ {0} /\ MaxReceived \in Nat /\ MaxSent \in Nat
  /\ {EngineMayLeave, HandlerMayFail, SendMayFail} \subseteq BOOLEAN
  /\ IsFiniteSet(Workers) /\ Workers # {}

VARIABLES
  hPipe,       \* "fresh", "listening", "connected", "broken", "disconnected" or "closed"
  sent,        \* messages the engine has written
  received,    \* those that completed a read
  reading, writing, \* pending ReadFile and WriteFile calls: sets, their orders say which is older
  iocp,        \* queued completion packets
  nNextReadOrder, nNextReadOrderToProcess, readedQueue, \* a set: sorted by order
  nNextWriteOrder, nNextWriteOrderToProcess, toWriteQueue,
  nThreadsEnding, worker,
  fin,         \* how far Finalize is
  handled,     \* history: messages given to TAC_OnEngineMessage
  wire,        \* history: orders that WriteFile accepted
  calls        \* history: how often each other callback was called

pipeVars == <<hPipe, sent, received>>
ioVars == <<reading, writing, iocp>>
readVars == <<nNextReadOrder, nNextReadOrderToProcess, readedQueue>>
writeVars == <<nNextWriteOrder, nNextWriteOrderToProcess, toWriteQueue>>
vars == <<pipeVars, ioVars, readVars, writeVars, nThreadsEnding, worker, fin, handled, wire, calls>>

\* What a worker or a completion carries as its HRESULT: no error, one that
\* only says that the pipe is gone, or another one.
Result == {"ok", "gone", "error"}
Packet == [type : {"connect", "retry", "read", "request", "write", "quit"},
           order : Nat, msg : Nat, res : Result]
\* Most packets are only a type and a result.
Completion(t, r) == [type |-> t, order |-> 0, msg |-> 0, res |-> r]
Packet0 == Completion("quit", "ok")

Init ==
  /\ hPipe = "fresh" /\ sent = 0 /\ received = 0
  /\ reading = {} /\ writing = {} /\ iocp = <<>>
  /\ nNextReadOrder = 0 /\ nNextReadOrderToProcess = 1 /\ readedQueue = {}
  /\ nNextWriteOrder = 0 /\ nNextWriteOrderToProcess = 1 /\ toWriteQueue = {}
  /\ nThreadsEnding = 0
  /\ worker = [w \in Workers |-> [pc |-> "idle", pkt |-> Packet0, n |-> 0, res |-> "ok"]]
  /\ fin = "no"
  /\ handled = <<>> /\ wire = <<>>
  /\ calls = [established |-> 0, error |-> 0, closed |-> 0]

cShutdownEvent == fin # "no"
At(w, p) == worker[w].pc = p
GoTo(w, p) == worker' = [worker EXCEPT ![w].pc = p]
\* hRes decides what the worker does next.
Leave(w, r, p) == worker' = [worker EXCEPT ![w].res = r, ![w].pc = IF r = "ok" THEN p ELSE "ending"]

----------------------------------------------------------------------------
(* The pipe: the engine at its other end, and the kernel. *)

\* A set that stands for a list sorted by order: its head.
First(queue) == {b \in queue : \A c \in queue : b.order <= c.order}

\* Nobody looks at the order of a call that failed.
Failures(t, ios, r) == [i \in 1..Cardinality(ios) |-> Completion(t, r)]

\* Every pending call on the pipe completes with an error.
FailPending ==
  /\ iocp' = iocp \o (IF hPipe = "listening" THEN <<Completion("connect", "gone")>> ELSE <<>>)
                  \o Failures("read", reading, "gone") \o Failures("write", writing, "gone")
  /\ reading' = {} /\ writing' = {}

\* ConnectAgent runs after the remote Initialize has returned, so the server listens.
EngineConnects ==
  /\ hPipe = "listening"
  /\ hPipe' = "connected"
  /\ iocp' = Append(iocp, Completion("connect", "ok"))
  /\ UNCHANGED <<sent, received, reading, writing, readVars, writeVars, nThreadsEnding, worker, fin, handled, wire, calls>>

EngineWrites ==
  /\ hPipe = "connected" /\ sent < MaxReceived
  /\ sent' = sent + 1
  /\ UNCHANGED <<hPipe, received, ioVars, readVars, writeVars, nThreadsEnding, worker, fin, handled, wire, calls>>

\* DisconnectAgent, or the end of the engine's process.
EngineLeaves ==
  /\ EngineMayLeave
  /\ hPipe = "connected"
  /\ hPipe' = "broken"
  /\ UNCHANGED <<sent, received, ioVars, readVars, writeVars, nThreadsEnding, worker, fin, handled, wire, calls>>

\* The oldest read takes the next message; when the engine has left and its
\* messages are read, it fails.
ReadCompletes ==
  /\ hPipe \in {"connected", "broken"}
  /\ \E io \in First(reading) :
       /\ reading' = reading \ {io}
       /\ \/ /\ received < sent
             /\ received' = received + 1
             /\ iocp' = Append(iocp, [type |-> "read", order |-> io.order, msg |-> received + 1, res |-> "ok"])
          \/ /\ hPipe = "broken" /\ received = sent
             /\ iocp' = Append(iocp, Completion("read", "gone"))
             /\ received' = received
  /\ UNCHANGED <<hPipe, sent, writing, readVars, writeVars, nThreadsEnding, worker, fin, handled, wire, calls>>

WriteCompletes ==
  /\ hPipe \in {"connected", "broken"}
  /\ \E io \in First(writing) :
       /\ writing' = writing \ {io}
       /\ iocp' = Append(iocp, Completion("write", IF hPipe = "broken" THEN "gone" ELSE "ok"))
  /\ UNCHANGED <<pipeVars, reading, readVars, writeVars, nThreadsEnding, worker, fin, handled, wire, calls>>

Environment == EngineConnects \/ EngineWrites \/ EngineLeaves \/ ReadCompletes \/ WriteCompletes

----------------------------------------------------------------------------
(* Buffers posted under the transport's lock. *)

\* SendConnectPacket: a call that fails is tried again through the port.
SendConnectPacket ==
  IF hPipe \in {"fresh", "disconnected"}
    THEN hPipe' = "listening" /\ iocp' = iocp
    ELSE hPipe' = hPipe /\ iocp' = Append(iocp, Completion("retry", "ok"))

ReadResult ==
  IF hPipe = "connected" \/ (hPipe = "broken" /\ received < sent) THEN "ok"
  ELSE IF hPipe \in {"broken", "disconnected"} THEN "gone" ELSE "error"

\* SendReadPacket by w: the order number is taken whether or not the read is.
SendReadPacket(w) ==
  /\ nNextReadOrder' = nNextReadOrder + 1
  /\ reading' = IF ReadResult = "ok" THEN reading \cup {[order |-> nNextReadOrder + 1, by |-> w]} ELSE reading

StartServer ==
  /\ hPipe = "fresh" /\ ~cShutdownEvent
  /\ SendConnectPacket
  /\ UNCHANGED <<sent, received, reading, writing, readVars, writeVars, nThreadsEnding, worker, fin, handled, wire, calls>>

\* SendMsg, or one part of SendBigPacketMsg, by any thread of the process that
\* saw nTransportActive set.  A post that fails leaves a hole in the orders.
SendMsg ==
  /\ calls.established > 0 /\ nNextWriteOrder < MaxSent /\ ~cShutdownEvent
  /\ nNextWriteOrder' = nNextWriteOrder + 1
  /\ \/ iocp' = Append(iocp, [Completion("request", "ok") EXCEPT !.order = nNextWriteOrder + 1])
     \/ SendMayFail /\ iocp' = iocp
  /\ UNCHANGED <<pipeVars, reading, writing, readVars, nNextWriteOrderToProcess, toWriteQueue, nThreadsEnding,
                 worker, fin, handled, wire, calls>>

----------------------------------------------------------------------------
(* WorkerThreadProc: one completion packet *)

\* Where the worker goes with each type of packet.
Branch(p) ==
  IF p.type = "quit" THEN "ending"
  ELSE IF p.type = "retry" \/ (p.type = "connect" /\ p.res # "ok") THEN "connect"
  ELSE IF p.res # "ok" THEN "ending"
  ELSE CASE p.type = "connect" -> "ahead"
         [] p.type = "read" -> "queueRead"
         [] p.type = "request" -> "queueWrite"
         [] p.type = "write" -> "idle"

GetQueuedCompletionStatus(w) ==
  /\ At(w, "idle") /\ iocp # <<>>
  /\ iocp' = Tail(iocp)
  /\ LET p == Head(iocp)
     IN worker' = [worker EXCEPT ![w] = [pc |-> Branch(p), pkt |-> p, n |-> ReadAhead,
                                         res |-> IF p.type = "connect" THEN "ok" ELSE p.res]]
  /\ UNCHANGED <<pipeVars, reading, writing, readVars, writeVars, nThreadsEnding, fin, handled, wire, calls>>

\* A connect that failed is started again.
ConnectAgain(w) ==
  /\ At(w, "connect")
  /\ SendConnectPacket
  /\ GoTo(w, "idle")
  /\ UNCHANGED <<sent, received, reading, writing, readVars, writeVars, nThreadsEnding, fin, handled, wire, calls>>

\* XTYPE_Connect: the first reads, then (FAILED(hRes) aside) the callback.
SetupReadAhead(w) ==
  /\ At(w, "ahead") /\ worker[w].n > 0
  /\ SendReadPacket(w)
  /\ worker' = [worker EXCEPT ![w].n = @ - 1, ![w].res = ReadResult, ![w].pc = IF ReadResult = "ok" THEN "ahead" ELSE "ending"]
  /\ UNCHANGED <<pipeVars, writing, iocp, nNextReadOrderToProcess, readedQueue, writeVars, nThreadsEnding, fin,
                 handled, wire, calls>>

CallConnectionEstablished(w) ==
  /\ At(w, "ahead") /\ worker[w].n = 0
  /\ calls' = [calls EXCEPT !.established = @ + 1]
  /\ GoTo(w, "inEstablished")
  /\ UNCHANGED <<pipeVars, ioVars, readVars, writeVars, nThreadsEnding, fin, handled, wire>>

ConnectionEstablishedReturns(w) ==
  /\ At(w, "inEstablished")
  /\ GoTo(w, "idle")
  /\ UNCHANGED <<pipeVars, ioVars, readVars, writeVars, nThreadsEnding, fin, handled, wire, calls>>

\* XTYPE_Read
AddBufferInSortedReadedQueue(w) ==
  /\ At(w, "queueRead")
  /\ readedQueue' = readedQueue \cup {worker[w].pkt}
  /\ GoTo(w, "readAgain")
  /\ UNCHANGED <<pipeVars, ioVars, nNextReadOrder, nNextReadOrderToProcess, writeVars, nThreadsEnding, fin,
                 handled, wire, calls>>

ReadAgain(w) ==
  /\ At(w, "readAgain")
  /\ SendReadPacket(w)
  /\ Leave(w, ReadResult, "drain")
  /\ UNCHANGED <<pipeVars, writing, iocp, nNextReadOrderToProcess, readedQueue, writeVars, nThreadsEnding, fin,
                 handled, wire, calls>>

\* The loop over the sorted queue: its argument is read before the queue is locked.
DrainRead(w) ==
  /\ At(w, "drain")
  /\ worker' = [worker EXCEPT ![w].n = nNextReadOrderToProcess, ![w].pc = IF cShutdownEvent THEN "idle" ELSE "get"]
  /\ UNCHANGED <<pipeVars, ioVars, readVars, writeVars, nThreadsEnding, fin, handled, wire, calls>>

NothingToRead(w) ==
  /\ At(w, "get")
  /\ \A b \in First(readedQueue) : b.order # worker[w].n
  /\ GoTo(w, "idle")
  /\ UNCHANGED <<pipeVars, ioVars, readVars, writeVars, nThreadsEnding, fin, handled, wire, calls>>

CallEngineMessage(w) ==
  /\ At(w, "get")
  /\ \E b \in First(readedQueue) :
       /\ b.order = worker[w].n
       /\ readedQueue' = readedQueue \ {b}
       /\ handled' = Append(handled, b.msg)
  /\ GoTo(w, "inMessage")
  /\ UNCHANGED <<pipeVars, ioVars, nNextReadOrder, nNextReadOrderToProcess, writeVars, nThreadsEnding, fin,
                 wire, calls>>

\* Wrong variant: the worker goes back to the port instead of round the loop.
EngineMessageReturns_once(w) ==
  /\ At(w, "inMessage")
  /\ nNextReadOrderToProcess' = nNextReadOrderToProcess + 1
  /\ \E r \in IF HandlerMayFail THEN {"ok", "error"} ELSE {"ok"} : Leave(w, r, "idle")
  /\ UNCHANGED <<pipeVars, ioVars, nNextReadOrder, readedQueue, writeVars, nThreadsEnding, fin, handled, wire, calls>>

\* SignalProcessedEvent, FreeBuffer, and the turn of the next message.
EngineMessageReturns(w) ==
  /\ At(w, "inMessage")
  /\ nNextReadOrderToProcess' = nNextReadOrderToProcess + 1
  /\ \E r \in IF HandlerMayFail THEN {"ok", "error"} ELSE {"ok"} : Leave(w, r, "drain")
  /\ UNCHANGED <<pipeVars, ioVars, nNextReadOrder, readedQueue, writeVars, nThreadsEnding, fin, handled, wire, calls>>

\* XTYPE_WriteRequest
AddBufferInSortedToWriteQueue(w) ==
  /\ At(w, "queueWrite")
  /\ toWriteQueue' = toWriteQueue \cup {worker[w].pkt}
  /\ GoTo(w, "wdrain")
  /\ UNCHANGED <<pipeVars, ioVars, readVars, nNextWriteOrder, nNextWriteOrderToProcess, nThreadsEnding, fin,
                 handled, wire, calls>>

DrainWrite(w) ==
  /\ At(w, "wdrain")
  /\ worker' = [worker EXCEPT ![w].n = nNextWriteOrderToProcess, ![w].pc = IF cShutdownEvent THEN "idle" ELSE "wget"]
  /\ UNCHANGED <<pipeVars, ioVars, readVars, writeVars, nThreadsEnding, fin, handled, wire, calls>>

\* Wrong variant: the head of the queue is written whatever its number.
GetBufferFromSortedToWriteQueue_anyHead(w) ==
  /\ At(w, "wget")
  /\ IF toWriteQueue # {}
       THEN \E b \in First(toWriteQueue) :
              /\ toWriteQueue' = toWriteQueue \ {b}
              /\ worker' = [worker EXCEPT ![w].pkt = b, ![w].pc = "write"]
       ELSE GoTo(w, "idle") /\ UNCHANGED toWriteQueue
  /\ UNCHANGED <<pipeVars, ioVars, readVars, nNextWriteOrder, nNextWriteOrderToProcess, nThreadsEnding, fin,
                 handled, wire, calls>>

GetBufferFromSortedToWriteQueue(w) ==
  /\ At(w, "wget")
  /\ LET turn == {b \in First(toWriteQueue) : b.order = worker[w].n}
     IN \/ /\ turn = {}
           /\ GoTo(w, "idle")
           /\ UNCHANGED toWriteQueue
        \/ \E b \in turn :
             /\ toWriteQueue' = toWriteQueue \ {b}
             /\ worker' = [worker EXCEPT ![w].pkt = b, ![w].pc = "write"]
  /\ UNCHANGED <<pipeVars, ioVars, readVars, nNextWriteOrder, nNextWriteOrderToProcess, nThreadsEnding, fin,
                 handled, wire, calls>>

\* Wrong variant: the result of a write that fails is dropped.
WriteFile_ignored(w) ==
  /\ At(w, "write")
  /\ \/ /\ hPipe = "connected"
        /\ writing' = writing \cup {[order |-> worker[w].pkt.order, by |-> w]}
        /\ wire' = Append(wire, worker[w].pkt.order)
     \/ /\ SendMayFail \/ hPipe # "connected"
        /\ UNCHANGED <<writing, wire>>
  /\ worker' = [worker EXCEPT ![w].pc = "written"]
  /\ UNCHANGED <<pipeVars, reading, iocp, readVars, writeVars, nThreadsEnding, fin, handled, calls>>

\* DuplicateHandle and WriteFile; on failure the message is lost.
WriteFile(w) ==
  /\ At(w, "write")
  /\ \/ /\ hPipe = "connected"
        /\ writing' = writing \cup {[order |-> worker[w].pkt.order, by |-> w]}
        /\ wire' = Append(wire, worker[w].pkt.order)
        /\ worker' = [worker EXCEPT ![w].pc = "written"]
     \/ /\ SendMayFail \/ hPipe # "connected"
        /\ worker' = [worker EXCEPT ![w].pc = "written", ![w].res = IF hPipe = "disconnected" THEN "gone" ELSE "error"]
        /\ UNCHANGED <<writing, wire>>
  /\ UNCHANGED <<pipeVars, reading, iocp, readVars, writeVars, nThreadsEnding, fin, handled, calls>>

NextWriteOrder(w) ==
  /\ At(w, "written")
  /\ nNextWriteOrderToProcess' = nNextWriteOrderToProcess + 1
  /\ Leave(w, worker[w].res, "wdrain")
  /\ UNCHANGED <<pipeVars, ioVars, readVars, nNextWriteOrder, toWriteQueue, nThreadsEnding, fin, handled, wire, calls>>

----------------------------------------------------------------------------
(* WorkerThreadProc: a thread ends; the first one closes the connection *)

\* Wrong variant: every thread that ends closes the connection.
BeginEnding_all(w) ==
  /\ At(w, "ending")
  /\ nThreadsEnding' = 1
  /\ GoTo(w, IF worker[w].res = "error" /\ ~cShutdownEvent THEN "error" ELSE "disconnect")
  /\ UNCHANGED <<pipeVars, ioVars, readVars, writeVars, fin, handled, wire, calls>>

\* Wrong variant: a thread that finds the pipe gone ends without a word.
BeginEnding_quiet(w) ==
  /\ At(w, "ending")
  /\ nThreadsEnding' = IF worker[w].res = "gone" THEN nThreadsEnding ELSE 1
  /\ GoTo(w, IF nThreadsEnding = 1 \/ worker[w].res = "gone" THEN "ended" ELSE "disconnect")
  /\ UNCHANGED <<pipeVars, ioVars, readVars, writeVars, fin, handled, wire, calls>>

By(w, ios) == {io \in ios : io.by = w}

\* nThreadsEnding; CancelIo ends the calls this thread has pending.
BeginEnding(w) ==
  /\ At(w, "ending")
  /\ nThreadsEnding' = 1
  /\ IF nThreadsEnding = 1
       THEN GoTo(w, "ended") /\ UNCHANGED ioVars
       ELSE /\ GoTo(w, IF worker[w].res = "error" /\ ~cShutdownEvent THEN "error" ELSE "disconnect")
            /\ iocp' = iocp \o Failures("read", By(w, reading), "error")
                            \o Failures("write", By(w, writing), "error")
            /\ reading' = reading \ By(w, reading)
            /\ writing' = writing \ By(w, writing)
  /\ UNCHANGED <<pipeVars, readVars, writeVars, fin, handled, wire, calls>>

CallTransportError(w) ==
  /\ At(w, "error")
  /\ calls' = [calls EXCEPT !.error = @ + 1]
  /\ GoTo(w, "inError")
  /\ UNCHANGED <<pipeVars, ioVars, readVars, writeVars, nThreadsEnding, fin, handled, wire>>

TransportErrorReturns(w) ==
  /\ At(w, "inError")
  /\ GoTo(w, "disconnect")
  /\ UNCHANGED <<pipeVars, ioVars, readVars, writeVars, nThreadsEnding, fin, handled, wire, calls>>

DisconnectNamedPipe(w) ==
  /\ At(w, "disconnect")
  /\ GoTo(w, "close")
  /\ IF hPipe = "closed" THEN UNCHANGED <<hPipe, ioVars>> ELSE hPipe' = "disconnected" /\ FailPending
  /\ UNCHANGED <<sent, received, readVars, writeVars, nThreadsEnding, fin, handled, wire, calls>>

CallConnectionClosed(w) ==
  /\ At(w, "close")
  /\ calls' = [calls EXCEPT !.closed = @ + 1]
  /\ GoTo(w, "inClosed")
  /\ UNCHANGED <<pipeVars, ioVars, readVars, writeVars, nThreadsEnding, fin, handled, wire>>

ConnectionClosedReturns(w) ==
  /\ At(w, "inClosed")
  /\ GoTo(w, "ended")
  /\ UNCHANGED <<pipeVars, ioVars, readVars, writeVars, nThreadsEnding, fin, handled, wire, calls>>

\* What the worker does by itself, and the returns of the manager's callbacks.
WorkerStep(w) ==
  \/ GetQueuedCompletionStatus(w) \/ ConnectAgain(w) \/ SetupReadAhead(w) \/ CallConnectionEstablished(w)
  \/ AddBufferInSortedReadedQueue(w) \/ ReadAgain(w) \/ DrainRead(w) \/ NothingToRead(w) \/ CallEngineMessage(w)
  \/ AddBufferInSortedToWriteQueue(w) \/ DrainWrite(w) \/ GetBufferFromSortedToWriteQueue(w)
  \/ WriteFile(w) \/ NextWriteOrder(w)
  \/ BeginEnding(w) \/ CallTransportError(w) \/ DisconnectNamedPipe(w) \/ CallConnectionClosed(w)

CallbackReturns(w) ==
  \/ ConnectionEstablishedReturns(w) \/ EngineMessageReturns(w) \/ TransportErrorReturns(w)
  \/ ConnectionClosedReturns(w)

----------------------------------------------------------------------------
(* Finalize, by the agent's main thread *)

\* Under the lock: the shutdown event and the pipe.
FinalizeShutdown ==
  /\ fin = "no" /\ hPipe # "fresh"
  /\ fin' = "signalled"
  /\ hPipe' = "closed"
  /\ FailPending
  /\ UNCHANGED <<sent, received, readVars, writeVars, nThreadsEnding, worker, handled, wire, calls>>

\* Wrong variant: one packet too few.
FinalizeQuit_short ==
  /\ fin = "signalled"
  /\ fin' = "quit"
  /\ iocp' = iocp \o [i \in 1..Cardinality(Workers) - 1 |-> Packet0]
  /\ UNCHANGED <<pipeVars, reading, writing, readVars, writeVars, nThreadsEnding, worker, handled, wire, calls>>

\* One quit packet for each worker.
FinalizeQuit ==
  /\ fin = "signalled"
  /\ fin' = "quit"
  /\ iocp' = iocp \o [i \in 1..Cardinality(Workers) |-> Packet0]
  /\ UNCHANGED <<pipeVars, reading, writing, readVars, writeVars, nThreadsEnding, worker, handled, wire, calls>>

\* The workers have ended; lpCallback and the buffers go.
FinalizeJoin ==
  /\ fin = "quit"
  /\ \A w \in Workers : At(w, "ended")
  /\ fin' = "done"
  /\ iocp' = <<>> /\ readedQueue' = {} /\ toWriteQueue' = {}
  /\ UNCHANGED <<pipeVars, reading, writing, nNextReadOrder, nNextReadOrderToProcess, nNextWriteOrder,
                 nNextWriteOrderToProcess, nThreadsEnding, worker, handled, wire, calls>>

Finalize == FinalizeShutdown \/ FinalizeQuit \/ FinalizeJoin

Next ==
  \/ StartServer \/ Environment \/ SendMsg \/ Finalize
  \/ \E w \in Workers : WorkerStep(w) \/ CallbackReturns(w)

Spec == Init /\ [][Next]_vars

\* The threads run, the kernel completes what it can, the callbacks return, and
\* a Finalize that has begun goes on.
Fairness ==
  /\ \A w \in Workers : WF_vars(WorkerStep(w)) /\ WF_vars(CallbackReturns(w))
  /\ WF_vars(ReadCompletes) /\ WF_vars(WriteCompletes)
  /\ WF_vars(FinalizeQuit) /\ WF_vars(FinalizeJoin)

FairSpec == Spec /\ Fairness

----------------------------------------------------------------------------
(* Properties *)

Pending == [order : Nat, by : Workers]
Pcs == {"idle", "connect", "ahead", "inEstablished", "queueRead", "readAgain", "drain", "get", "inMessage",
        "queueWrite", "wdrain", "wget", "write", "written",
        "ending", "error", "inError", "disconnect", "close", "inClosed", "ended"}

TypeOK ==
  /\ hPipe \in {"fresh", "listening", "connected", "broken", "disconnected", "closed"}
  /\ sent \in Nat /\ received \in 0..sent
  /\ reading \subseteq Pending /\ IsFiniteSet(reading)
  /\ writing \subseteq Pending /\ IsFiniteSet(writing)
  /\ iocp \in Seq(Packet)
  /\ nNextReadOrder \in Nat /\ nNextReadOrderToProcess \in Nat \ {0}
  /\ readedQueue \subseteq Packet /\ toWriteQueue \subseteq Packet
  /\ nNextWriteOrder \in Nat /\ nNextWriteOrderToProcess \in Nat \ {0}
  /\ nThreadsEnding \in 0..1
  /\ worker \in [Workers -> [pc : Pcs, pkt : Packet, n : Nat, res : Result]]
  /\ fin \in {"no", "signalled", "quit", "done"}
  /\ handled \in Seq(Nat) /\ wire \in Seq(Nat)
  /\ calls \in [established : Nat, error : Nat, closed : Nat]

\* Messages go onto the wire in the order of SendMsg.  When one is missing,
\* because its turn came and it could not be written (DuplicateHandle or
\* WriteFile failed), the worker that lost it is closing the connection, or it
\* is closed.  (A message that could not be posted to the workers is another
\* matter: its number never comes, no later message is written either, and the
\* connection stays.)
WireInOrder == \A i, j \in DOMAIN wire : i < j => wire[i] < wire[j]
LostWriteEnds ==
  (\E i \in DOMAIN wire : wire[i] # i) =>
    \/ nThreadsEnding = 1
    \/ \E w \in Workers : worker[w].res # "ok" /\ worker[w].pc \in {"written", "ending"}

\* The workers call the manager as AgentChannel says.
InCallback(p) == \E w \in Workers : At(w, p)
Stage(p, n) == IF InCallback(p) THEN "in" ELSE IF n > 0 THEN "done" ELSE "no"
Link == IF hPipe \in {"fresh", "listening"} THEN "none" ELSE IF hPipe = "connected" THEN "up" ELSE "down"
Established == Stage("inEstablished", calls.established)
Error == Stage("inError", calls.error)
Closed == Stage("inClosed", calls.closed)
InMessage == InCallback("inMessage")
Finalizing == IF fin = "no" THEN "no" ELSE IF fin = "done" THEN "done" ELSE "asked"

Channel == INSTANCE AgentChannel WITH
  link <- Link, established <- Established, error <- Error, closed <- Closed,
  inMessage <- InMessage, finalize <- Finalizing

\* Its messages come in the order in which the engine wrote them, each once.
Delivery == INSTANCE OrderedDelivery WITH NMsgs <- MaxReceived, delivered <- handled

ImplementsChannel == Channel!Spec /\ Delivery!Spec

\* When the engine leaves or a worker fails the manager hears of it.
ClosedInTheEnd == (hPipe = "broken" \/ nThreadsEnding = 1) ~> calls.closed = 1

\* Finalize returns, whatever was pending.
FinalizeReturns == (fin = "signalled") ~> (fin = "done")

\* A message of the engine is handled, unless the connection ends.
MessageHandled == \A m \in 1..MaxReceived :
  (sent >= m) ~> (Len(handled) >= m \/ nThreadsEnding = 1 \/ cShutdownEvent)
=============================================================================
