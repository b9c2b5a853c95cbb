------------------------------ MODULE AgentMgr ------------------------------
(***************************************************************************)
(* CDvAgentMgr and the agent's main thread (Source/Engine/Agent/AgentMgr.cpp *)
(* and Agent.cpp): how the agent starts, serves hook calls and messages    *)
(* and ends.                                                               *)
(*                                                                         *)
(* The threads of the process meet here: those that call a hooked          *)
(* function, the transport's workers (their callbacks are those of         *)
(* AgentChannel), the main thread, the remote thread that runs Initialize  *)
(* and one that calls ExitProcess.  Two locks tie them together.           *)
(* cShutdownMtx counts the handlers that run; its holders are read off the *)
(* program counters.  The manager's own lock is a recursive CNktFastMutex. *)
(*                                                                         *)
(* Init is the state in which Initialize has set the manager up, holds its *)
(* lock and has resumed the main thread.                                   *)
(***************************************************************************)
EXTENDS Integers

CONSTANTS HookThreads,   \* threads of the process that call hooked functions
          NoThread,      \* the owner of a free lock
          ExitCalled     \* a thread may call ExitProcess

ASSUME ConstantsAssumption ==
  /\ ExitCalled \in BOOLEAN
  /\ NoThread \notin HookThreads
  /\ {"main", "init", "msg", "est"} \cap (HookThreads \cup {NoThread}) = {}

VARIABLES
  link, established, error, closed, inMessage, finalize, \* AgentChannel
  hook,            \* the threads that call hooked functions
  est, msg,        \* TAC_OnConnectionEstablished, TAC_OnEngineMessage
  main,            \* MainThreadProc
  init, exiter,    \* Initialize, ShutdownMainThread
  lock,            \* the manager's lock: its owner and how often it was taken
  sent,            \* the message a thread waits for: its way to the engine and back
  nTransportActive,
  running,         \* dwRunThread is set
  hShutdownEvent,
  sdEvent,         \* cShutdownMtx was told to shut down
  engineDead       \* hServerProcDup is signalled

channelVars == <<link, established, error, closed, inMessage, finalize>>
pcVars == <<hook, est, msg, main, init, exiter>>
flagVars == <<nTransportActive, running, hShutdownEvent, sdEvent, engineDead>>
vars == <<channelVars, pcVars, lock, sent, flagVars>>

Channel == INSTANCE AgentChannel

Senders == HookThreads \cup {"est"}
Free == [owner |-> NoThread, depth |-> 0]

Init ==
  /\ Channel!Init
  /\ hook = [h \in HookThreads |-> [pc |-> "out", post |-> FALSE]]
  /\ est = "out" /\ msg = "out" /\ main = "start" /\ init = "waiting" /\ exiter = "out"
  /\ lock = [owner |-> "init", depth |-> 1]
  /\ sent = [t \in Senders |-> "no"]
  /\ nTransportActive = FALSE /\ running = FALSE
  /\ hShutdownEvent = FALSE /\ sdEvent = FALSE /\ engineDead = FALSE

HookAt(h, p) == hook[h].pc = p
HookGoTo(h, p) == hook' = [hook EXCEPT ![h].pc = p]

\* CNktFastMutex: another level for the owner, or a free lock.
Acquire(t) ==
  /\ lock.owner \in {NoThread, t}
  /\ lock' = [owner |-> t, depth |-> lock.depth + 1]

Release == lock' = IF lock.depth = 1 THEN Free ELSE [lock EXCEPT !.depth = @ - 1]

\* The threads between Lock and Unlock of cShutdownMtx, and those of them that
\* went on after the test of IsShuttingDown, to wait for a child process perhaps.
WaitsForChild(h) == hook[h].pc \in {"created", "resumed"}
HookInside(h) == hook[h].pc \in {"in", "lock", "locked", "wait"} \/ WaitsForChild(h)
PendingHooks == {h \in HookThreads : HookAt(h, "held") \/ HookInside(h)}
NoPending ==
  /\ PendingHooks = {}
  /\ established # "in" /\ error # "in" /\ closed # "in" /\ ~inMessage

----------------------------------------------------------------------------
(* The engine: it may leave, die, and answer a message. *)

\* ConnectAgent, after the remote Initialize has returned.
EngineConnects ==
  /\ init = "done" /\ main # "exited" /\ ~engineDead
  /\ Channel!Connect
  /\ UNCHANGED <<pcVars, lock, sent, flagVars>>

EngineLeaves == Channel!Break /\ UNCHANGED <<pcVars, lock, sent, flagVars>>

EngineDies ==
  /\ ~engineDead /\ link # "up"
  /\ engineDead' = TRUE
  /\ UNCHANGED <<channelVars, pcVars, lock, sent, nTransportActive, running, hShutdownEvent, sdEvent>>

EngineAnswers(t) ==
  /\ sent[t] = "posted" /\ link = "up"
  /\ sent' = [sent EXCEPT ![t] = "processed"]
  /\ UNCHANGED <<channelVars, pcVars, lock, flagVars>>

Engine == EngineConnects \/ EngineLeaves \/ EngineDies \/ \E t \in Senders : EngineAnswers(t)

----------------------------------------------------------------------------
(* A thread that calls a hooked function *)

\* HEC_IsSystemThread lets the call through once Run has begun.
HookPreCall(h) ==
  /\ HookAt(h, "out") /\ running /\ ~sdEvent
  /\ hook' = [hook EXCEPT ![h] = [pc |-> "call", post |-> FALSE]]
  /\ UNCHANGED <<channelVars, est, msg, main, init, exiter, lock, sent, flagVars>>

\* The original function returns.
HookPostCall(h) ==
  /\ HookAt(h, "original")
  /\ hook' = [hook EXCEPT ![h] = [pc |-> "call", post |-> TRUE]]
  /\ UNCHANGED <<channelVars, est, msg, main, init, exiter, lock, sent, flagVars>>

\* HEC_OnHookCalled: Lock, then the test of IsShuttingDown.
HookLocks(h) ==
  /\ HookAt(h, "call")
  /\ HookGoTo(h, "held")
  /\ UNCHANGED <<channelVars, est, msg, main, init, exiter, lock, sent, flagVars>>

\* Wrong variant: the call goes on while the agent shuts down.
HookChecks_not(h) ==
  /\ HookAt(h, "held")
  /\ HookGoTo(h, "in")
  /\ UNCHANGED <<channelVars, est, msg, main, init, exiter, lock, sent, flagVars>>

HookChecks(h) ==
  /\ HookAt(h, "held")
  /\ HookGoTo(h, IF sdEvent THEN "out" ELSE "in")
  /\ UNCHANGED <<channelVars, est, msg, main, init, exiter, lock, sent, flagVars>>

\* HEC_OnHookCalled returns and with it the lock; the original function is next,
\* or the call is over.
HookReturns(h) == HookGoTo(h, IF hook[h].post THEN "out" ELSE "original")

\* OnUserHook, of a hook that the engine has added, or an internal hook that
\* reports when the transport is active; it does not wait when it is asynchronous.
HookSends(h) ==
  /\ HookAt(h, "in") /\ link # "none"
  /\ \/ HookGoTo(h, "wait") /\ sent' = [sent EXCEPT ![h] = "posted"]
     \/ HookReturns(h) /\ UNCHANGED sent
     \/ HookGoTo(h, "error") /\ UNCHANGED sent
  /\ UNCHANGED <<channelVars, est, msg, main, init, exiter, lock, flagVars>>

\* There is nothing to report.
HookSkips(h) ==
  /\ HookAt(h, "in")
  /\ HookReturns(h)
  /\ UNCHANGED <<channelVars, est, msg, main, init, exiter, lock, sent, flagVars>>

\* The list of suspended processes, after NtSuspendThread, NtResumeThread or
\* CreateProcess.
HookWantsLock(h) ==
  /\ HookAt(h, "in") /\ hook[h].post
  /\ HookGoTo(h, "lock")
  /\ UNCHANGED <<channelVars, est, msg, main, init, exiter, lock, sent, flagVars>>

HookTakesLock(h) ==
  /\ HookAt(h, "lock")
  /\ Acquire(h)
  /\ HookGoTo(h, "locked")
  /\ UNCHANGED <<channelVars, est, msg, main, init, exiter, sent, flagVars>>

\* The item whose count has come down to zero, of a process created suspended
\* while a connection was there, is taken off the list.
HookDropsLock(h) ==
  /\ HookAt(h, "locked")
  /\ Release
  /\ HookReturns(h) \/ (link # "none" /\ HookGoTo(h, "resumed"))
  /\ UNCHANGED <<channelVars, est, msg, main, init, exiter, sent, flagVars>>

\* CreateProcess, of a process that was not asked to be suspended, resumes it.
HookCreatesProcess(h) ==
  /\ HookAt(h, "in") /\ hook[h].post /\ nTransportActive
  /\ HookGoTo(h, "created")
  /\ UNCHANGED <<channelVars, est, msg, main, init, exiter, lock, sent, flagVars>>

\* The INFINITE wait of the two hooks for the child's main thread to end or its
\* ready event, then SendCreateProcessMsg; only NtResumeThread asks whether the
\* transport is still active.
ChildReady(h) ==
  /\ WaitsForChild(h)
  /\ \/ /\ HookAt(h, "created") \/ nTransportActive
        /\ \/ HookGoTo(h, "wait") /\ sent' = [sent EXCEPT ![h] = "posted"]
           \/ HookGoTo(h, "error") /\ UNCHANGED sent
     \/ HookAt(h, "resumed") /\ ~nTransportActive /\ HookReturns(h) /\ UNCHANGED sent
  /\ UNCHANGED <<channelVars, est, msg, main, init, exiter, lock, flagVars>>

\* Wrong variant: the wait does not listen to cShutdownMtx.
Cancelled_deaf == hShutdownEvent

\* WaitForMultipleObjects: the first event that is set decides.  The fourth,
\* the end of the main thread, comes too late to matter.
Cancelled == sdEvent \/ hShutdownEvent

HookWaitEnds(h) ==
  /\ HookAt(h, "wait")
  /\ Cancelled \/ sent[h] = "processed"
  /\ IF Cancelled THEN HookGoTo(h, "error") ELSE HookReturns(h)
  /\ sent' = [sent EXCEPT ![h] = "no"]
  /\ UNCHANGED <<channelVars, est, msg, main, init, exiter, lock, flagVars>>

Deactivate == nTransportActive' = FALSE /\ hShutdownEvent' = TRUE

\* HEC_OnError, without the lock.
HookError(h) ==
  /\ HookAt(h, "error")
  /\ Deactivate
  /\ HookGoTo(h, "out")
  /\ UNCHANGED <<channelVars, est, msg, main, init, exiter, lock, sent, running, sdEvent, engineDead>>

HookStep(h) ==
  \/ HookLocks(h) \/ HookChecks(h) \/ HookSends(h) \/ HookSkips(h) \/ HookWantsLock(h) \/ HookTakesLock(h)
  \/ HookDropsLock(h) \/ HookCreatesProcess(h) \/ HookWaitEnds(h) \/ HookError(h)

----------------------------------------------------------------------------
(* The transport's callbacks; cShutdownMtx is held from the call to the return. *)

EstablishedCalled ==
  /\ Channel!CallEstablished
  /\ est' = "list"
  /\ UNCHANGED <<hook, msg, main, init, exiter, lock, sent, flagVars>>

\* The list of modules, complete or not, and nTransportActive; there is no test
\* of IsShuttingDown.  Then the list is sent, or something failed.
EstablishedActivates ==
  /\ est = "list"
  /\ nTransportActive' = TRUE
  /\ \/ est' = "wait" /\ sent' = [sent EXCEPT !["est"] = "posted"]
     \/ est' = "fail" /\ UNCHANGED sent
  /\ UNCHANGED <<channelVars, hook, msg, main, init, exiter, lock, running, hShutdownEvent, sdEvent, engineDead>>

EstablishedReturns == Channel!EstablishedReturns /\ est' = "out"

\* Wrong variant: a wait that is cancelled is no failure.
EstablishedWaitEnds_ignored ==
  /\ est = "wait"
  /\ Cancelled \/ sent["est"] = "processed"
  /\ EstablishedReturns
  /\ sent' = [sent EXCEPT !["est"] = "no"]
  /\ UNCHANGED <<hook, msg, main, init, exiter, lock, flagVars>>

EstablishedWaitEnds ==
  /\ est = "wait"
  /\ Cancelled \/ sent["est"] = "processed"
  /\ IF Cancelled THEN est' = "fail" /\ UNCHANGED channelVars ELSE EstablishedReturns
  /\ sent' = [sent EXCEPT !["est"] = "no"]
  /\ UNCHANGED <<hook, msg, main, init, exiter, lock, flagVars>>

\* It calls TAC_OnTransportError itself.
EstablishedFails ==
  /\ est = "fail"
  /\ Deactivate
  /\ EstablishedReturns
  /\ UNCHANGED <<hook, msg, main, init, exiter, lock, sent, running, sdEvent, engineDead>>

ErrorCalled == Channel!CallError /\ UNCHANGED <<pcVars, lock, sent, flagVars>>
ClosedCalled == Channel!CallClosed /\ UNCHANGED <<pcVars, lock, sent, flagVars>>

TAC_OnTransportError ==
  /\ Channel!ErrorReturns
  /\ Deactivate
  /\ UNCHANGED <<pcVars, lock, sent, running, sdEvent, engineDead>>

TAC_OnConnectionClosed ==
  /\ Channel!ClosedReturns
  /\ Deactivate
  /\ UNCHANGED <<pcVars, lock, sent, running, sdEvent, engineDead>>

MessageCalled ==
  /\ Channel!CallMessage
  /\ msg' = "held"
  /\ UNCHANGED <<hook, est, main, init, exiter, lock, sent, flagVars>>

MessageReturns == Channel!MessageReturns /\ msg' = "out"

\* A reply to a callback is delivered even while shutting down; a command is not run.
MessageChecks ==
  /\ msg = "held"
  /\ \/ ~sdEvent /\ msg' = "command" /\ UNCHANGED channelVars
     \/ MessageReturns
  /\ UNCHANGED <<hook, est, main, init, exiter, lock, sent, flagVars>>

\* LoadDll, UnloadDll and CallCustomApi take the manager's lock; the others do not.
MessageRuns ==
  /\ msg = "command"
  /\ \/ msg' = "lock" /\ UNCHANGED channelVars
     \/ MessageReturns
  /\ UNCHANGED <<hook, est, main, init, exiter, lock, sent, flagVars>>

MessageTakesLock ==
  /\ msg = "lock"
  /\ Acquire("msg")
  /\ msg' = "locked"
  /\ UNCHANGED <<channelVars, hook, est, main, init, exiter, sent, flagVars>>

MessageDropsLock ==
  /\ msg = "locked"
  /\ Release
  /\ MessageReturns
  /\ UNCHANGED <<hook, est, main, init, exiter, sent, flagVars>>

EstablishedStep == EstablishedActivates \/ EstablishedWaitEnds \/ EstablishedFails
MessageStep == MessageChecks \/ MessageRuns \/ MessageTakesLock \/ MessageDropsLock

CallbackStep == EstablishedStep \/ TAC_OnTransportError \/ TAC_OnConnectionClosed \/ MessageStep

Calls == EstablishedCalled \/ ErrorCalled \/ ClosedCalled \/ MessageCalled

----------------------------------------------------------------------------
(* The main thread *)

MainGoes(from, to) == main = from /\ main' = to

\* StartServer, then the event for which Initialize waits.
StartServer ==
  /\ MainGoes("start", "run")
  /\ UNCHANGED <<channelVars, hook, est, msg, init, exiter, lock, sent, flagVars>>

InitializeReturns ==
  /\ main # "start" /\ init = "waiting"
  /\ init' = "done"
  /\ Release
  /\ UNCHANGED <<channelVars, hook, est, msg, main, exiter, sent, flagVars>>

\* Run: dwRunThread, ResetEvent, and the wait.
RunBegins ==
  /\ MainGoes("run", "reset")
  /\ running' = TRUE
  /\ UNCHANGED <<channelVars, hook, est, msg, init, exiter, lock, sent, nTransportActive, hShutdownEvent, sdEvent, engineDead>>

RunResets ==
  /\ MainGoes("reset", "wait")
  /\ hShutdownEvent' = FALSE
  /\ UNCHANGED <<channelVars, hook, est, msg, init, exiter, lock, sent, nTransportActive, running, sdEvent, engineDead>>

RunEnds ==
  /\ MainGoes("wait", "enter")
  /\ engineDead \/ hShutdownEvent
  /\ running' = FALSE
  /\ UNCHANGED <<channelVars, hook, est, msg, init, exiter, lock, sent, nTransportActive, hShutdownEvent, sdEvent, engineDead>>

\* MainThreadProc takes the manager's lock, and Finalize takes it again.
MainLocks ==
  /\ \/ MainGoes("enter", "finalize") \/ MainGoes("finalize", "signal")
  /\ Acquire("main")
  /\ UNCHANGED <<channelVars, hook, est, msg, init, exiter, sent, flagVars>>

\* StartShutdownAndWaitPending: the wait gives one level of the lock back.
SignalShutdown ==
  /\ MainGoes("signal", "pending")
  /\ sdEvent' = TRUE
  /\ Release
  /\ UNCHANGED <<channelVars, hook, est, msg, init, exiter, sent, nTransportActive, running, hShutdownEvent, engineDead>>

PendingEnds ==
  /\ MainGoes("pending", "unhook")
  /\ NoPending
  /\ Acquire("main")
  /\ UNCHANGED <<channelVars, hook, est, msg, init, exiter, sent, flagVars>>

\* cHookEngine.Finalize, then cTransport.Finalize.
FinalizeTransport ==
  /\ MainGoes("unhook", "join")
  /\ Channel!FinalizeBegins
  /\ UNCHANGED <<hook, est, msg, init, exiter, lock, sent, flagVars>>

FinalizeJoined ==
  /\ MainGoes("join", "clean")
  /\ Channel!FinalizeReturns
  /\ UNCHANGED <<hook, est, msg, init, exiter, lock, sent, flagVars>>

\* The rest is freed, and both levels of the lock.
MainExits ==
  /\ MainGoes("clean", "exited")
  /\ lock' = Free
  /\ UNCHANGED <<channelVars, hook, est, msg, init, exiter, sent, flagVars>>

MainStep ==
  \/ StartServer \/ RunBegins \/ RunResets \/ RunEnds \/ MainLocks \/ SignalShutdown \/ PendingEnds
  \/ FinalizeTransport \/ FinalizeJoined \/ MainExits

----------------------------------------------------------------------------
(* ShutdownMainThread, by the thread that calls ExitProcess *)

ExitProcess ==
  /\ ExitCalled /\ exiter = "out"
  /\ exiter' = "lock"
  /\ UNCHANGED <<channelVars, hook, est, msg, main, init, lock, sent, flagVars>>

\* It signals and waits, unless the main thread has gone: hMainThread is NULL.
ExiterSignals ==
  /\ exiter = "lock" /\ lock = Free
  /\ exiter' = IF main = "exited" THEN "done" ELSE "wait"
  /\ hShutdownEvent' = (hShutdownEvent \/ main # "exited")
  /\ UNCHANGED <<channelVars, hook, est, msg, main, init, lock, sent, nTransportActive, running, sdEvent, engineDead>>

\* The second SetEvent and the handle of the main thread come too late to matter.
ExiterEnds ==
  /\ exiter = "wait" /\ main = "exited"
  /\ exiter' = "done"
  /\ UNCHANGED <<channelVars, hook, est, msg, main, init, lock, sent, flagVars>>

ExiterStep == ExiterSignals \/ ExiterEnds

----------------------------------------------------------------------------

Next ==
  \/ Engine \/ Calls \/ CallbackStep \/ MainStep \/ InitializeReturns \/ ExitProcess \/ ExiterStep
  \/ \E h \in HookThreads : HookPreCall(h) \/ HookPostCall(h) \/ HookStep(h) \/ ChildReady(h)

Spec == Init /\ [][Next]_vars

\* Every thread of the agent runs, and the main thread and the one that calls
\* ExitProcess get a lock that is free again and again, as does the wait for the
\* pending handlers; the transport tells the end of a connection (TransportAgent's
\* ClosedInTheEnd).  The engine, the functions that are hooked and the processes
\* that they create owe nothing.
Fairness ==
  /\ SF_vars(MainStep) /\ WF_vars(InitializeReturns) /\ SF_vars(ExiterStep)
  /\ WF_vars(EstablishedStep) /\ WF_vars(MessageStep)
  /\ WF_vars(TAC_OnTransportError) /\ WF_vars(TAC_OnConnectionClosed) /\ WF_vars(ClosedCalled)
  /\ \A h \in HookThreads : WF_vars(HookStep(h))

FairSpec == Spec /\ Fairness

----------------------------------------------------------------------------
(* Properties *)

TypeOK ==
  /\ Channel!TypeOK
  /\ hook \in [HookThreads -> [pc : {"out", "call", "held", "in", "lock", "locked", "created", "resumed",
                                      "wait", "error", "original"},
                                post : BOOLEAN]]
  /\ est \in {"out", "list", "wait", "fail"}
  /\ msg \in {"out", "held", "command", "lock", "locked"}
  /\ main \in {"start", "run", "reset", "wait", "enter", "finalize", "signal", "pending", "unhook", "join",
               "clean", "exited"}
  /\ init \in {"waiting", "done"} /\ exiter \in {"out", "lock", "wait", "done"}
  /\ lock \in [owner : HookThreads \cup {NoThread, "main", "init", "msg"}, depth : 0..2]
  /\ sent \in [Senders -> {"no", "posted", "processed"}]
  /\ {nTransportActive, running, hShutdownEvent, sdEvent, engineDead} \subseteq BOOLEAN

\* While the main thread takes the hooks and the transport down, no hook call
\* and no command of the engine is past the test of IsShuttingDown: their
\* hooks, DLLs and database are not freed under them.
TearingDown == main \in {"unhook", "join", "clean", "exited"}
TeardownAlone ==
  TearingDown =>
    /\ \A h \in HookThreads : ~HookInside(h)
    /\ msg \in {"out", "held"}

\* The transport is not left active after its connection has closed, although
\* TAC_OnConnectionEstablished, on another worker, may set nTransportActive
\* after TAC_OnConnectionClosed has cleared it.
InactiveAfterClose == closed = "done" /\ established # "in" => ~nTransportActive

\* The manager's lock has one holder, the thread between taking and leaving it,
\* and only the main thread holds it twice.
MainHolds == main \in {"finalize", "signal", "pending", "unhook", "join", "clean"}
MainHoldsTwice == main \in {"signal", "unhook", "join", "clean"}
Holders ==
  {h \in HookThreads : HookAt(h, "locked")}
    \cup {t \in {"msg"} : msg = "locked"}
    \cup {t \in {"init"} : init = "waiting"}
    \cup {t \in {"main"} : MainHolds}
LockOwned ==
  /\ Holders = {lock.owner} \ {NoThread}
  /\ lock.depth = IF MainHoldsTwice THEN 2 ELSE IF lock.owner = NoThread THEN 0 ELSE 1

\* A handler that began before the shutdown wants the lock, which the main
\* thread keeps while it waits for that handler: neither goes on.
LockWanted == msg = "lock" \/ \E h \in HookThreads : HookAt(h, "lock")
Stuck == main = "pending" /\ lock.owner = "main" /\ LockWanted

\* When the main thread waits in Run and is told to end, the agent ends, whatever
\* hook calls, messages and callbacks are pending, and a thread that calls
\* ExitProcess goes on.
Told == hShutdownEvent \/ engineDead
Ended == main = "exited" /\ exiter \in {"out", "done"}

\* Every child process that a hook call waits for runs, or ends.
ChildrenStart == \A h \in HookThreads : []<>~WaitsForChild(h)

\* Only two things keep the agent from ending: a handler that wants the manager's
\* lock, and a child process that neither runs nor ends, for which the hooks of
\* CreateProcess and NtResumeThread wait inside cShutdownMtx and deaf to its event.
AgentEndsUnlessStuck == ChildrenStart => ((main = "wait" /\ Told) ~> (Ended \/ Stuck))

\* Run waits until the shutdown event is signalled: whenever it is, the agent
\* ends (unless one of those two things keeps it).
SignalEndsRun == ChildrenStart => (hShutdownEvent ~> (main = "exited" \/ Stuck))
=============================================================================
