-------------------------- MODULE AgentMgr_proofs --------------------------
(***************************************************************************)
(* For any set of threads that call hooked functions: the types of AgentMgr, *)
(* that the manager's lock has one holder, that the agent takes its hooks   *)
(* and its transport down alone, and that the transport is not left active  *)
(* after its connection has closed.                                         *)
(***************************************************************************)
EXTENDS AgentMgr, TLAPS

HookPlaces == {"out", "call", "held", "in", "lock", "locked", "created", "resumed", "wait", "error",
               "original"}

\* LockOwned, said of each thread: it holds the lock when it is the owner.
LockInv ==
  /\ \A h \in HookThreads : HookAt(h, "locked") <=> lock.owner = h
  /\ msg = "locked" <=> lock.owner = "msg"
  /\ init = "waiting" <=> lock.owner = "init"
  /\ MainHolds <=> lock.owner = "main"
  /\ lock.depth = IF MainHoldsTwice THEN 2 ELSE IF lock.owner = NoThread THEN 0 ELSE 1

\* The callbacks and the channel agree on what runs.
CallbackInv == (msg # "out" <=> inMessage) /\ (est # "out" <=> established = "in")

----------------------------------------------------------------------------
(* What the steps of a hook call do to hook and to sent. *)

\* Where the threads are after one of them has moved.
LEMMA HookMoves ==
  ASSUME TypeOK, NEW h \in HookThreads, NEW p \in HookPlaces, HookGoTo(h, p)
  PROVE  /\ hook' \in [HookThreads -> [pc : HookPlaces, post : BOOLEAN]]
         /\ \A i \in HookThreads : hook'[i].pc = IF i = h THEN p ELSE hook[i].pc
BY DEF TypeOK, HookGoTo, HookPlaces

LEMMA HookReturnMoves ==
  ASSUME TypeOK, NEW h \in HookThreads, HookReturns(h)
  PROVE  \E p \in {"out", "original"} : HookGoTo(h, p)
BY DEF HookReturns

LEMMA SentTypes ==
  ASSUME TypeOK, NEW t, NEW v \in {"no", "posted", "processed"}, sent' = [sent EXCEPT ![t] = v]
  PROVE  sent' \in [Senders -> {"no", "posted", "processed"}]
BY DEF TypeOK

\* A step of a hook call moves its thread, touches the lock only where it takes
\* it or leaves it, and passes the test of IsShuttingDown before the shutdown.
HookMove(h, p) ==
  /\ HookGoTo(h, p)
  /\ IF p = "locked" THEN Acquire(h)
     ELSE IF HookAt(h, "locked") THEN Release
     ELSE lock' = lock
  /\ p = "locked" => HookAt(h, "lock")
  /\ p \in {"in", "lock", "locked", "created", "resumed", "wait"} => HookInside(h) \/ (HookAt(h, "held") /\ ~sdEvent)
  /\ sent' \in [Senders -> {"no", "posted", "processed"}]
  /\ sent'["est"] = sent["est"]
  /\ nTransportActive' \in {nTransportActive, FALSE}
  /\ hShutdownEvent' \in BOOLEAN
  /\ UNCHANGED <<channelVars, est, msg, main, init, exiter, running, sdEvent, engineDead>>

LEMMA HookStepMoves ==
  ASSUME TypeOK, NEW h \in HookThreads, HookStep(h) \/ ChildReady(h)
  PROVE  \E p \in HookPlaces : HookMove(h, p)
<1> USE ConstantsAssumption DEF TypeOK, HookAt, HookInside, WaitsForChild, flagVars, Senders
<1>1. CASE HookLocks(h)
  <2>1. HookMove(h, "held")
    BY <1>1 DEF HookLocks, HookMove
  <2> QED BY <2>1 DEF HookPlaces
<1>2. CASE HookChecks(h)
  <2>1. HookMove(h, "out") \/ HookMove(h, "in")
    BY <1>2 DEF HookChecks, HookMove
  <2> QED BY <2>1 DEF HookPlaces
<1>3. CASE HookSends(h)
  <2>1. sent' \in [Senders -> {"no", "posted", "processed"}]
    BY <1>3, SentTypes DEF HookSends
  <2>2. \E p \in {"wait", "out", "original", "error"} : HookGoTo(h, p)
    BY <1>3, HookReturnMoves DEF HookSends
  <2>3. PICK p \in {"wait", "out", "original", "error"} : HookGoTo(h, p)
    BY <2>2
  <2>4. HookMove(h, p)
    BY <1>3, <2>1, <2>3 DEF HookSends, HookMove
  <2> QED BY <2>4 DEF HookPlaces
<1>4. CASE HookSkips(h)
  <2>1. PICK p \in {"out", "original"} : HookGoTo(h, p)
    BY <1>4, HookReturnMoves DEF HookSkips
  <2>2. HookMove(h, p)
    BY <1>4, <2>1 DEF HookSkips, HookMove
  <2> QED BY <2>2 DEF HookPlaces
<1>5. CASE HookWantsLock(h)
  <2>1. HookMove(h, "lock")
    BY <1>5 DEF HookWantsLock, HookMove
  <2> QED BY <2>1 DEF HookPlaces
<1>6. CASE HookTakesLock(h)
  <2>1. HookMove(h, "locked")
    BY <1>6 DEF HookTakesLock, HookMove
  <2> QED BY <2>1 DEF HookPlaces
<1>7. CASE HookDropsLock(h)
  <2>1. PICK p \in {"resumed", "out", "original"} : HookGoTo(h, p)
    BY <1>7, HookReturnMoves DEF HookDropsLock
  <2>2. HookMove(h, p)
    BY <1>7, <2>1 DEF HookDropsLock, HookMove
  <2> QED BY <2>2 DEF HookPlaces
<1>8. CASE HookWaitEnds(h)
  <2>1. sent' \in [Senders -> {"no", "posted", "processed"}]
    BY <1>8, SentTypes DEF HookWaitEnds
  <2>2. PICK p \in {"error", "out", "original"} : HookGoTo(h, p)
    BY <1>8, HookReturnMoves DEF HookWaitEnds
  <2>3. HookMove(h, p)
    BY <1>8, <2>1, <2>2 DEF HookWaitEnds, HookMove
  <2> QED BY <2>3 DEF HookPlaces
<1>9. CASE HookError(h)
  <2>1. HookMove(h, "out")
    BY <1>9 DEF HookError, HookMove, Deactivate
  <2> QED BY <2>1 DEF HookPlaces
<1>10. CASE HookCreatesProcess(h)
  <2>1. HookMove(h, "created")
    BY <1>10 DEF HookCreatesProcess, HookMove
  <2> QED BY <2>1 DEF HookPlaces
<1>11. CASE ChildReady(h)
  <2>1. sent' \in [Senders -> {"no", "posted", "processed"}]
    BY <1>11, SentTypes DEF ChildReady
  <2>2. PICK p \in {"wait", "error", "out", "original"} : HookGoTo(h, p)
    BY <1>11, HookReturnMoves DEF ChildReady
  <2>3. HookMove(h, p)
    BY <1>11, <2>1, <2>2 DEF ChildReady, HookMove
  <2> QED BY <2>3 DEF HookPlaces
<1> QED
  BY <1>1, <1>2, <1>3, <1>4, <1>5, <1>6, <1>7, <1>8, <1>9, <1>10, <1>11 DEF HookStep

LEMMA HookMoveKeepsLock ==
  ASSUME TypeOK, LockInv, NEW h \in HookThreads, NEW p \in HookPlaces, HookMove(h, p)
  PROVE  TypeOK' /\ LockInv'
<1>1. /\ hook' \in [HookThreads -> [pc : HookPlaces, post : BOOLEAN]]
      /\ \A i \in HookThreads : hook'[i].pc = IF i = h THEN p ELSE hook[i].pc
  BY HookMoves DEF HookMove
<1>2. msg' = msg /\ init' = init /\ main' = main
  BY DEF HookMove
<1>3. LockInv' /\ lock' \in [owner : HookThreads \cup {NoThread, "main", "init", "msg"}, depth : 0..2]
  <2> USE DEF LockInv, HookAt, MainHolds, MainHoldsTwice
  <2>1. CASE p = "locked"
    BY <1>1, <1>2, <2>1, ConstantsAssumption DEF HookMove, Acquire, TypeOK
  <2>2. CASE HookAt(h, "locked")
    <3>1. p # "locked" /\ lock' = Free
      BY <2>2, ConstantsAssumption DEF HookMove, Release, TypeOK
    <3> QED BY <1>1, <1>2, <2>2, <3>1, ConstantsAssumption DEF Free
  <2>3. CASE p # "locked" /\ ~HookAt(h, "locked")
    BY <1>1, <1>2, <2>3 DEF HookMove, TypeOK
  <2> QED BY <2>1, <2>2, <2>3
<1>4. TypeOK'
  <2>1. Channel!TypeOK'
    BY DEF TypeOK, HookMove, Channel!TypeOK, Channel!Stages, channelVars
  <2>2. /\ sent' \in [Senders' -> {"no", "posted", "processed"}]
        /\ {nTransportActive', running', hShutdownEvent', sdEvent', engineDead'} \subseteq BOOLEAN
    BY DEF TypeOK, HookMove, Senders
  <2>3. est' = est /\ msg' = msg /\ main' = main /\ init' = init /\ exiter' = exiter
    BY DEF HookMove
  <2> QED BY <1>1, <1>3, <2>1, <2>2, <2>3 DEF TypeOK, HookPlaces
<1> QED BY <1>3, <1>4

\* The steps of everybody else.
OtherStep ==
  \/ Engine \/ Calls \/ CallbackStep \/ MainStep \/ InitializeReturns \/ ExitProcess \/ ExiterStep

LEMMA OthersKeepLock ==
  ASSUME TypeOK, LockInv, CallbackInv, OtherStep
  PROVE  TypeOK' /\ LockInv'
<1> USE ConstantsAssumption DEF TypeOK, LockInv, CallbackInv, Channel!TypeOK, Channel!Stages, channelVars, pcVars, flagVars, HookAt,
       MainHolds, MainHoldsTwice
<1>1. CASE EngineDies
  BY <1>1 DEF EngineDies, Senders
<1>2. CASE ExitProcess
  BY <1>2 DEF ExitProcess, Senders
<1>3. CASE ExiterSignals
  BY <1>3 DEF ExiterSignals, Senders
<1>4. CASE ExiterEnds
  BY <1>4 DEF ExiterEnds, Senders
<1>5. CASE StartServer
  BY <1>5 DEF StartServer, MainGoes, Senders
<1>6. CASE RunBegins
  BY <1>6 DEF RunBegins, MainGoes, Senders
<1>7. CASE RunResets
  <2>1. {nTransportActive', running', hShutdownEvent', sdEvent', engineDead'} \subseteq BOOLEAN
    BY <1>7 DEF RunResets, MainGoes
  <2>2. LockInv'
    BY <1>7 DEF RunResets, MainGoes
  <2>3. Channel!TypeOK'
    BY <1>7 DEF RunResets, MainGoes
  <2> QED BY <1>7, <2>1, <2>2, <2>3 DEF RunResets, MainGoes, Senders
<1>8. CASE RunEnds
  <2>1. {nTransportActive', running', hShutdownEvent', sdEvent', engineDead'} \subseteq BOOLEAN
    BY <1>8 DEF RunEnds, MainGoes
  <2>2. LockInv'
    BY <1>8 DEF RunEnds, MainGoes
  <2>3. Channel!TypeOK'
    BY <1>8 DEF RunEnds, MainGoes
  <2> QED BY <1>8, <2>1, <2>2, <2>3 DEF RunEnds, MainGoes, Senders
<1>9. CASE EngineConnects
  BY <1>9 DEF EngineConnects, Channel!Connect, Senders
<1>10. CASE EngineLeaves
  BY <1>10 DEF EngineLeaves, Channel!Break, Senders
<1>11. CASE EstablishedCalled
  BY <1>11 DEF EstablishedCalled, Channel!CallEstablished, Senders
<1>12. CASE ErrorCalled
  BY <1>12 DEF ErrorCalled, Channel!CallError, Senders
<1>13. CASE ClosedCalled
  BY <1>13 DEF ClosedCalled, Channel!CallClosed, Senders
<1>14. CASE MessageCalled
  <2>1. {nTransportActive', running', hShutdownEvent', sdEvent', engineDead'} \subseteq BOOLEAN
    BY <1>14 DEF MessageCalled, Channel!CallMessage
  <2>2. LockInv'
    BY <1>14 DEF MessageCalled, Channel!CallMessage
  <2>3. Channel!TypeOK'
    BY <1>14 DEF MessageCalled, Channel!CallMessage
  <2> QED BY <1>14, <2>1, <2>2, <2>3 DEF MessageCalled, Channel!CallMessage, Senders
<1>15. CASE TAC_OnTransportError
  <2>1. {nTransportActive', running', hShutdownEvent', sdEvent', engineDead'} \subseteq BOOLEAN
    BY <1>15 DEF TAC_OnTransportError, Channel!ErrorReturns, Deactivate
  <2>2. LockInv'
    BY <1>15 DEF TAC_OnTransportError, Channel!ErrorReturns, Deactivate
  <2>3. Channel!TypeOK'
    BY <1>15 DEF TAC_OnTransportError, Channel!ErrorReturns, Deactivate
  <2> QED BY <1>15, <2>1, <2>2, <2>3 DEF TAC_OnTransportError, Channel!ErrorReturns, Deactivate, Senders
<1>16. CASE TAC_OnConnectionClosed
  <2>1. {nTransportActive', running', hShutdownEvent', sdEvent', engineDead'} \subseteq BOOLEAN
    BY <1>16 DEF TAC_OnConnectionClosed, Channel!ClosedReturns, Deactivate
  <2>2. LockInv'
    BY <1>16 DEF TAC_OnConnectionClosed, Channel!ClosedReturns, Deactivate
  <2>3. Channel!TypeOK'
    BY <1>16 DEF TAC_OnConnectionClosed, Channel!ClosedReturns, Deactivate
  <2> QED BY <1>16, <2>1, <2>2, <2>3 DEF TAC_OnConnectionClosed, Channel!ClosedReturns, Deactivate, Senders
<1>17. CASE FinalizeTransport
  BY <1>17 DEF FinalizeTransport, Channel!FinalizeBegins, MainGoes, Senders
<1>18. CASE FinalizeJoined
  BY <1>18 DEF FinalizeJoined, Channel!FinalizeReturns, MainGoes, Senders
<1>19. CASE MainLocks
  BY <1>19 DEF MainLocks, MainGoes, Acquire, Senders
<1>20. CASE SignalShutdown
  BY <1>20 DEF SignalShutdown, MainGoes, Release, Free, Senders
<1>21. CASE PendingEnds
  BY <1>21 DEF PendingEnds, MainGoes, Acquire, Senders
<1>22. CASE MainExits
  BY <1>22 DEF MainExits, MainGoes, Free, Senders
<1>23. CASE InitializeReturns
  BY <1>23 DEF InitializeReturns, Release, Free, Senders
<1>24. CASE MessageTakesLock
  BY <1>24 DEF MessageTakesLock, Acquire, Senders
<1>25. CASE MessageDropsLock
  <2>1. {nTransportActive', running', hShutdownEvent', sdEvent', engineDead'} \subseteq BOOLEAN
    BY <1>25 DEF MessageDropsLock, Release, Free, MessageReturns, Channel!MessageReturns
  <2>2. LockInv'
    BY <1>25 DEF MessageDropsLock, Release, Free, MessageReturns, Channel!MessageReturns
  <2>3. Channel!TypeOK'
    BY <1>25 DEF MessageDropsLock, Release, Free, MessageReturns, Channel!MessageReturns
  <2> QED BY <1>25, <2>1, <2>2, <2>3 DEF MessageDropsLock, Release, Free, MessageReturns, Channel!MessageReturns, Senders
<1>26. ASSUME NEW t \in Senders, EngineAnswers(t)  PROVE TypeOK' /\ LockInv'
  <2>1. sent' \in [Senders -> {"no", "posted", "processed"}]
    BY <1>26, SentTypes DEF EngineAnswers
  <2> QED BY <1>26, <2>1 DEF EngineAnswers, Senders
<1>27. CASE EstablishedActivates
  <2>1. sent' \in [Senders -> {"no", "posted", "processed"}]
    BY <1>27, SentTypes DEF EstablishedActivates, Senders
  <2> QED BY <1>27, <2>1 DEF EstablishedActivates, Senders
<1>28. CASE EstablishedWaitEnds
  <2>1. sent' \in [Senders -> {"no", "posted", "processed"}]
    BY <1>28, SentTypes DEF EstablishedWaitEnds, Senders
  <2> QED BY <1>28, <2>1 DEF EstablishedWaitEnds, EstablishedReturns, Channel!EstablishedReturns, Senders
<1>29. CASE EstablishedFails
  <2>1. {nTransportActive', running', hShutdownEvent', sdEvent', engineDead'} \subseteq BOOLEAN
    BY <1>29 DEF EstablishedFails, Deactivate, EstablishedReturns, Channel!EstablishedReturns
  <2>2. LockInv'
    BY <1>29 DEF EstablishedFails, Deactivate, EstablishedReturns, Channel!EstablishedReturns
  <2>3. Channel!TypeOK'
    BY <1>29 DEF EstablishedFails, Deactivate, EstablishedReturns, Channel!EstablishedReturns
  <2> QED BY <1>29, <2>1, <2>2, <2>3 DEF EstablishedFails, Deactivate, EstablishedReturns, Channel!EstablishedReturns, Senders
<1>30. CASE MessageChecks
  <2>1. {nTransportActive', running', hShutdownEvent', sdEvent', engineDead'} \subseteq BOOLEAN
    BY <1>30 DEF MessageChecks, MessageReturns, Channel!MessageReturns
  <2>2. LockInv'
    BY <1>30 DEF MessageChecks, MessageReturns, Channel!MessageReturns
  <2>3. Channel!TypeOK'
    <3>1. CASE UNCHANGED channelVars
      BY <3>1
    <3>2. CASE MessageReturns
      BY <3>2 DEF MessageReturns, Channel!MessageReturns
    <3> QED BY <1>30, <3>1, <3>2 DEF MessageChecks
  <2> QED BY ZenonT(40), <1>30, <2>1, <2>2, <2>3 DEF MessageChecks, MessageReturns, Channel!MessageReturns, Senders
<1>31. CASE MessageRuns
  <2>1. {nTransportActive', running', hShutdownEvent', sdEvent', engineDead'} \subseteq BOOLEAN
    BY <1>31 DEF MessageRuns, MessageReturns, Channel!MessageReturns
  <2>2. LockInv'
    BY <1>31 DEF MessageRuns, MessageReturns, Channel!MessageReturns
  <2>3. Channel!TypeOK'
    <3>1. CASE UNCHANGED channelVars
      BY <3>1
    <3>2. CASE MessageReturns
      BY <3>2 DEF MessageReturns, Channel!MessageReturns
    <3> QED BY <1>31, <3>1, <3>2 DEF MessageRuns
  <2> QED BY ZenonT(40), <1>31, <2>1, <2>2, <2>3 DEF MessageRuns, MessageReturns, Channel!MessageReturns, Senders
<1> QED
  BY <1>1, <1>2, <1>3, <1>4, <1>5, <1>6, <1>7, <1>8, <1>9, <1>10, <1>11, <1>12, <1>13, <1>14, <1>15, <1>16, <1>17, <1>18, <1>19, <1>20, <1>21, <1>22, <1>23, <1>24, <1>25, <1>26, <1>27, <1>28, <1>29, <1>30, <1>31
     DEF OtherStep, Engine, Calls, CallbackStep, EstablishedStep, MessageStep, MainStep, ExiterStep

\* A hook call begins, or its second half does.
LEMMA HookCallMoves ==
  ASSUME TypeOK, LockInv, NEW h \in HookThreads, HookPreCall(h) \/ HookPostCall(h)
  PROVE  /\ TypeOK' /\ LockInv'
         /\ UNCHANGED <<channelVars, est, msg, main, init, exiter, lock, sent, flagVars>>
         /\ \A i \in HookThreads : hook'[i].pc = IF i = h THEN "call" ELSE hook[i].pc
<1>1. UNCHANGED <<channelVars, est, msg, main, init, exiter, lock, sent, flagVars>>
  BY DEF HookPreCall, HookPostCall
<1>2. hook[h].pc \in {"out", "original"}
  BY DEF HookPreCall, HookPostCall, HookAt
<1>3. /\ hook' \in [HookThreads -> [pc : HookPlaces, post : BOOLEAN]]
      /\ \A i \in HookThreads : hook'[i].pc = IF i = h THEN "call" ELSE hook[i].pc
  <2>1. PICK b \in BOOLEAN : hook' = [hook EXCEPT ![h] = [pc |-> "call", post |-> b]]
    BY DEF HookPreCall, HookPostCall
  <2> QED BY <2>1 DEF TypeOK, HookPlaces
<1>4. LockInv'
  BY <1>1, <1>2, <1>3 DEF LockInv, HookAt, MainHolds, MainHoldsTwice
<1>5. TypeOK'
  BY <1>1, <1>3 DEF TypeOK, HookPlaces, Channel!TypeOK, channelVars, flagVars, Senders
<1> QED BY <1>1, <1>3, <1>4, <1>5

----------------------------------------------------------------------------
(* Taking the hooks and the transport down *)

\* From the shutdown's signal on the event stays set.
SignalInv == main = "pending" \/ TearingDown => sdEvent

TeardownInv == CallbackInv /\ SignalInv /\ TeardownAlone

LEMMA HooksKeepTeardown ==
  ASSUME TypeOK, LockInv, TeardownInv, NEW h \in HookThreads, NEW p \in HookPlaces, HookMove(h, p)
  PROVE  TeardownInv'
<1>1. \A i \in HookThreads : hook'[i].pc = IF i = h THEN p ELSE hook[i].pc
  BY HookMoves DEF HookMove
<1> QED BY <1>1 DEF TeardownInv, CallbackInv, SignalInv, TearingDown, TeardownAlone, HookMove, HookInside, WaitsForChild, HookAt, channelVars

LEMMA OthersKeepTeardown ==
  ASSUME TypeOK, TeardownInv, OtherStep
  PROVE  TeardownInv'
<1> USE DEF TypeOK, TeardownInv, CallbackInv, SignalInv, TearingDown, TeardownAlone, HookInside, WaitsForChild, channelVars, pcVars, flagVars
<1>1. CASE EngineDies
  BY <1>1 DEF EngineDies
<1>2. CASE ExitProcess
  BY <1>2 DEF ExitProcess
<1>3. CASE ExiterSignals
  BY <1>3 DEF ExiterSignals
<1>4. CASE ExiterEnds
  BY <1>4 DEF ExiterEnds
<1>5. CASE StartServer
  BY <1>5 DEF StartServer, MainGoes
<1>6. CASE RunBegins
  BY <1>6 DEF RunBegins, MainGoes
<1>7. CASE RunResets
  BY <1>7 DEF RunResets, MainGoes
<1>8. CASE RunEnds
  BY <1>8 DEF RunEnds, MainGoes
<1>9. CASE EngineConnects
  BY <1>9 DEF EngineConnects, Channel!Connect
<1>10. CASE EngineLeaves
  BY <1>10 DEF EngineLeaves, Channel!Break
<1>11. CASE EstablishedCalled
  BY <1>11 DEF EstablishedCalled, Channel!CallEstablished
<1>12. CASE ErrorCalled
  BY <1>12 DEF ErrorCalled, Channel!CallError
<1>13. CASE ClosedCalled
  BY <1>13 DEF ClosedCalled, Channel!CallClosed
<1>14. CASE MessageCalled
  BY <1>14 DEF MessageCalled, Channel!CallMessage
<1>15. CASE TAC_OnTransportError
  BY <1>15 DEF TAC_OnTransportError, Channel!ErrorReturns, Deactivate
<1>16. CASE TAC_OnConnectionClosed
  BY <1>16 DEF TAC_OnConnectionClosed, Channel!ClosedReturns, Deactivate
<1>17. CASE FinalizeTransport
  BY <1>17 DEF FinalizeTransport, Channel!FinalizeBegins, MainGoes
<1>18. CASE FinalizeJoined
  BY <1>18 DEF FinalizeJoined, Channel!FinalizeReturns, MainGoes
<1>19. CASE MainLocks
  BY <1>19 DEF MainLocks, MainGoes, Acquire
<1>20. CASE SignalShutdown
  BY <1>20 DEF SignalShutdown, MainGoes, Release, Free
<1>21. CASE PendingEnds
  BY <1>21 DEF PendingEnds, MainGoes, Acquire, NoPending, PendingHooks
<1>22. CASE MainExits
  BY <1>22 DEF MainExits, MainGoes, Free
<1>23. CASE InitializeReturns
  BY <1>23 DEF InitializeReturns, Release, Free
<1>24. CASE MessageTakesLock
  BY <1>24 DEF MessageTakesLock, Acquire
<1>25. CASE MessageDropsLock
  BY <1>25 DEF MessageDropsLock, Release, Free, MessageReturns, Channel!MessageReturns
<1>26. ASSUME NEW t \in Senders, EngineAnswers(t)  PROVE TeardownInv'
  BY <1>26 DEF EngineAnswers
<1>27. CASE EstablishedActivates
  BY <1>27 DEF EstablishedActivates
<1>28. CASE EstablishedWaitEnds
  BY <1>28 DEF EstablishedWaitEnds, EstablishedReturns, Channel!EstablishedReturns
<1>29. CASE EstablishedFails
  BY <1>29 DEF EstablishedFails, Deactivate, EstablishedReturns, Channel!EstablishedReturns
<1>30. CASE MessageChecks
  BY <1>30 DEF MessageChecks, MessageReturns, Channel!MessageReturns
<1>31. CASE MessageRuns
  BY <1>31 DEF MessageRuns, MessageReturns, Channel!MessageReturns
<1> QED
  BY <1>1, <1>2, <1>3, <1>4, <1>5, <1>6, <1>7, <1>8, <1>9, <1>10, <1>11, <1>12, <1>13, <1>14, <1>15, <1>16, <1>17, <1>18, <1>19, <1>20, <1>21, <1>22, <1>23, <1>24, <1>25, <1>26, <1>27, <1>28, <1>29, <1>30, <1>31
     DEF OtherStep, Engine, Calls, CallbackStep, EstablishedStep, MessageStep, MainStep, ExiterStep

----------------------------------------------------------------------------
(* After the connection has closed *)

\* A connection that has closed stays closed, so that the message of
\* TAC_OnConnectionEstablished is not answered any more.
InactiveInv ==
  /\ closed # "no" => link = "down"
  /\ closed = "done" /\ est = "wait" /\ nTransportActive => sent["est"] = "posted"
  /\ InactiveAfterClose

LEMMA HooksKeepInactive ==
  ASSUME TypeOK, CallbackInv, InactiveInv, NEW h \in HookThreads, NEW p \in HookPlaces, HookMove(h, p)
  PROVE  InactiveInv'
<1>1. UNCHANGED <<link, closed, established, est>> /\ sent'["est"] = sent["est"]
  BY DEF HookMove, channelVars
<1>2. nTransportActive' => nTransportActive
  BY DEF HookMove, TypeOK
<1> QED BY <1>1, <1>2 DEF InactiveInv, InactiveAfterClose

LEMMA OthersKeepInactive ==
  ASSUME TypeOK, CallbackInv, InactiveInv, OtherStep
  PROVE  InactiveInv'
<1> USE DEF TypeOK, CallbackInv, InactiveInv, InactiveAfterClose, channelVars, pcVars, flagVars, Channel!TypeOK, Channel!Stages, Senders, Cancelled
<1>1. CASE EngineDies
  BY <1>1 DEF EngineDies
<1>2. CASE ExitProcess
  BY <1>2 DEF ExitProcess
<1>3. CASE ExiterSignals
  BY <1>3 DEF ExiterSignals
<1>4. CASE ExiterEnds
  BY <1>4 DEF ExiterEnds
<1>5. CASE StartServer
  BY <1>5 DEF StartServer, MainGoes
<1>6. CASE RunBegins
  BY <1>6 DEF RunBegins, MainGoes
<1>7. CASE RunResets
  BY <1>7 DEF RunResets, MainGoes
<1>8. CASE RunEnds
  BY <1>8 DEF RunEnds, MainGoes
<1>9. CASE EngineConnects
  BY <1>9 DEF EngineConnects, Channel!Connect
<1>10. CASE EngineLeaves
  BY <1>10 DEF EngineLeaves, Channel!Break
<1>11. CASE EstablishedCalled
  BY <1>11 DEF EstablishedCalled, Channel!CallEstablished
<1>12. CASE ErrorCalled
  BY <1>12 DEF ErrorCalled, Channel!CallError
<1>13. CASE ClosedCalled
  BY <1>13 DEF ClosedCalled, Channel!CallClosed
<1>14. CASE MessageCalled
  BY <1>14 DEF MessageCalled, Channel!CallMessage
<1>15. CASE TAC_OnTransportError
  BY <1>15 DEF TAC_OnTransportError, Channel!ErrorReturns, Deactivate
<1>16. CASE TAC_OnConnectionClosed
  BY <1>16 DEF TAC_OnConnectionClosed, Channel!ClosedReturns, Deactivate
<1>17. CASE FinalizeTransport
  BY <1>17 DEF FinalizeTransport, Channel!FinalizeBegins, MainGoes
<1>18. CASE FinalizeJoined
  BY <1>18 DEF FinalizeJoined, Channel!FinalizeReturns, MainGoes
<1>19. CASE MainLocks
  BY <1>19 DEF MainLocks, MainGoes, Acquire
<1>20. CASE SignalShutdown
  BY <1>20 DEF SignalShutdown, MainGoes, Release, Free
<1>21. CASE PendingEnds
  BY <1>21 DEF PendingEnds, MainGoes, Acquire
<1>22. CASE MainExits
  BY <1>22 DEF MainExits, MainGoes, Free
<1>23. CASE InitializeReturns
  BY <1>23 DEF InitializeReturns, Release, Free
<1>24. CASE MessageTakesLock
  BY <1>24 DEF MessageTakesLock, Acquire
<1>25. CASE MessageDropsLock
  BY <1>25 DEF MessageDropsLock, Release, Free, MessageReturns, Channel!MessageReturns
<1>26. ASSUME NEW t \in Senders, EngineAnswers(t)  PROVE InactiveInv'
  BY <1>26 DEF EngineAnswers
<1>27. CASE EstablishedActivates
  BY <1>27 DEF EstablishedActivates
<1>28. CASE EstablishedWaitEnds
  BY <1>28 DEF EstablishedWaitEnds, EstablishedReturns, Channel!EstablishedReturns
<1>29. CASE EstablishedFails
  BY <1>29 DEF EstablishedFails, Deactivate, EstablishedReturns, Channel!EstablishedReturns
<1>30. CASE MessageChecks
  BY <1>30 DEF MessageChecks, MessageReturns, Channel!MessageReturns
<1>31. CASE MessageRuns
  BY <1>31 DEF MessageRuns, MessageReturns, Channel!MessageReturns
<1> QED
  BY <1>1, <1>2, <1>3, <1>4, <1>5, <1>6, <1>7, <1>8, <1>9, <1>10, <1>11, <1>12, <1>13, <1>14, <1>15, <1>16, <1>17, <1>18, <1>19, <1>20, <1>21, <1>22, <1>23, <1>24, <1>25, <1>26, <1>27, <1>28, <1>29, <1>30, <1>31
     DEF OtherStep, Engine, Calls, CallbackStep, EstablishedStep, MessageStep, MainStep, ExiterStep

----------------------------------------------------------------------------
(* The invariant *)

IInv == TypeOK /\ LockInv /\ TeardownInv /\ InactiveInv

LEMMA InitIInv == Init => IInv
<1> SUFFICES ASSUME Init PROVE IInv
  OBVIOUS
<1> USE ConstantsAssumption DEF Init, Channel!Init
<1>1. TypeOK
  <2>1. Channel!TypeOK
    BY DEF Channel!TypeOK, Channel!Stages
  <2>2. hook \in [HookThreads -> [pc : HookPlaces, post : BOOLEAN]]
    BY DEF HookPlaces
  <2>3. /\ lock \in [owner : HookThreads \cup {NoThread, "main", "init", "msg"}, depth : 0..2]
        /\ sent \in [Senders -> {"no", "posted", "processed"}]
    BY DEF Senders
  <2>4. /\ est \in {"out", "list", "wait", "fail"}
        /\ msg \in {"out", "held", "command", "lock", "locked"}
        /\ main \in {"start", "run", "reset", "wait", "enter", "finalize", "signal", "pending", "unhook", "join",
                     "clean", "exited"}
        /\ init \in {"waiting", "done"} /\ exiter \in {"out", "lock", "wait", "done"}
        /\ {nTransportActive, running, hShutdownEvent, sdEvent, engineDead} \subseteq BOOLEAN
    OBVIOUS
  <2> HIDE DEF Init, Channel!Init
  <2> QED BY <2>1, <2>2, <2>3, <2>4 DEF TypeOK, HookPlaces
<1>2. LockInv
  BY DEF LockInv, HookAt, MainHolds, MainHoldsTwice
<1>3. TeardownInv
  BY DEF TeardownInv, CallbackInv, SignalInv, TearingDown, TeardownAlone
<1>4. InactiveInv
  BY DEF InactiveInv, InactiveAfterClose
<1> QED BY <1>1, <1>2, <1>3, <1>4 DEF IInv

LEMMA NextIInv == IInv /\ [Next]_vars => IInv'
<1> SUFFICES ASSUME IInv, [Next]_vars PROVE IInv'
  OBVIOUS
<1> USE DEF IInv
<1>1. CASE OtherStep
  BY <1>1, OthersKeepLock, OthersKeepTeardown, OthersKeepInactive DEF TeardownInv
<1>2. ASSUME NEW h \in HookThreads, HookPreCall(h) \/ HookPostCall(h)  PROVE IInv'
  <2>1. /\ TypeOK' /\ LockInv'
        /\ UNCHANGED <<channelVars, est, msg, main, init, exiter, lock, sent, flagVars>>
        /\ \A i \in HookThreads : hook'[i].pc = IF i = h THEN "call" ELSE hook[i].pc
    BY <1>2, HookCallMoves
  <2>2. TeardownInv'
    BY <2>1 DEF TeardownInv, CallbackInv, SignalInv, TearingDown, TeardownAlone, HookInside, WaitsForChild, channelVars, flagVars
  <2>3. InactiveInv'
    BY <2>1 DEF InactiveInv, InactiveAfterClose, channelVars, flagVars
  <2> QED BY <2>1, <2>2, <2>3
<1>3. ASSUME NEW h \in HookThreads, HookStep(h) \/ ChildReady(h)  PROVE IInv'
  <2>1. PICK p \in HookPlaces : HookMove(h, p)
    BY <1>3, HookStepMoves
  <2> QED BY <2>1, HookMoveKeepsLock, HooksKeepTeardown, HooksKeepInactive DEF TeardownInv
<1>4. CASE UNCHANGED vars
  <2> USE <1>4 DEF vars, channelVars, pcVars, flagVars
  <2>1. TypeOK'
    BY DEF TypeOK, Channel!TypeOK, Senders
  <2>2. LockInv'
    BY DEF LockInv, HookAt, MainHolds, MainHoldsTwice
  <2>3. TeardownInv'
    BY DEF TeardownInv, CallbackInv, SignalInv, TearingDown, TeardownAlone, HookInside, WaitsForChild
  <2>4. InactiveInv'
    BY DEF InactiveInv, InactiveAfterClose
  <2> QED BY <2>1, <2>2, <2>3, <2>4
<1> QED BY <1>1, <1>2, <1>3, <1>4 DEF Next, OtherStep

LEMMA Invariant == Spec => []IInv
BY InitIInv, NextIInv, PTL DEF Spec

----------------------------------------------------------------------------
(* The theorems *)

\* Every variable keeps its type; the depth of the manager's lock stays below
\* three, whoever takes it.
THEOREM TypeCorrect == Spec => []TypeOK
<1>1. IInv => TypeOK
  BY DEF IInv
<1> QED BY <1>1, Invariant, PTL

\* The manager's recursive lock has one holder, and only the main thread holds
\* it twice: MainThreadProc and Finalize (Agent.cpp, AgentMgr.cpp).
THEOREM LockHasOneHolder == Spec => []LockOwned
<1>1. IInv => LockOwned
  <2> SUFFICES ASSUME IInv PROVE LockOwned
    OBVIOUS
  <2> USE ConstantsAssumption DEF IInv, LockInv, TypeOK
  <2>1. \A t : t \in Holders <=> t = lock.owner /\ t # NoThread
    BY DEF Holders
  <2>2. Holders = {lock.owner} \ {NoThread}
    BY <2>1
  <2> QED BY <2>2 DEF LockOwned
<1> QED BY <1>1, Invariant, PTL

\* While CDvAgentMgr::Finalize takes the hooks and the transport down, no hook
\* call and no command of the engine is past the test of IsShuttingDown.
THEOREM TeardownIsAlone == Spec => []TeardownAlone
<1>1. IInv => TeardownAlone
  BY DEF IInv, TeardownInv
<1> QED BY <1>1, Invariant, PTL

\* TAC_OnConnectionEstablished does not leave nTransportActive set after
\* TAC_OnConnectionClosed, though nothing orders the two.
THEOREM InactiveOnceClosed == Spec => []InactiveAfterClose
<1>1. IInv => InactiveAfterClose
  BY DEF IInv, InactiveInv
<1> QED BY <1>1, Invariant, PTL
=============================================================================
