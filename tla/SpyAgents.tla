------------------------------ MODULE SpyAgents ------------------------------
(***************************************************************************)
(* The agent controllers of CNktDvSpyMgr                                   *)
(* (Source/Engine/SpyMgr/SpyMgrActiveAgent.cpp, SpyMgr.cpp,                *)
(* SpyMgrInit.cpp) for one process, with the part of                       *)
(* CNktDvTransportEngine that connects and disconnects it.  Clients load   *)
(* and unload the agent and send it commands; workers and dispatchers of   *)
(* the transport bring its messages and report its errors; Finalize takes  *)
(* everything down.  A controller is found by the process id in a list     *)
(* under the manager's lock, used outside of it under the controller's     *)
(* shutdown lock, and deleted by the thread that took it off the list.     *)
(* Connections are found by process id too, and one stays in the           *)
(* transport's list until nobody refers to it.                             *)
(* What a thread does inside the manager's lock is one step; waiting,      *)
(* events, the transport and the agent are outside.                        *)
(***************************************************************************)
EXTENDS Naturals

CONSTANTS Clients, Workers, Dispatchers,  \* threads
          Finalizer,                      \* the thread that calls Finalize
          MaxAgents,                      \* bound: controllers that are made
          Addresses                       \* of controllers

Callbacks == Workers \cup Dispatchers
Threads == Clients \cup Callbacks \cup {Finalizer}

ASSUME AgentConstants ==
  /\ MaxAgents \in Nat
  /\ Clients \cap Callbacks = {} /\ Workers \cap Dispatchers = {}
  /\ Finalizer \notin Clients \cup Callbacks

VARIABLES
  made,      \* controllers made so far: 1..made
  listed,    \* the one in aAgentControllersList, or 0
  extra,     \* those that commands put into that list during shutdown, without the lock
  address, ctl, conn,  \* of each controller: where it is, its state, its connection's state
  shutting,  \* the manager's IsShuttingDown
  pc, ptr, holds,  \* of each thread: where it is, the pointer it keeps, whose shutdown lock it has
  ref,       \* the connection whose message it brings, while it has a reference
  del, cb,   \* the controller it deletes, the connection whose end it reports inside DisconnectAgent
  outer,     \* the controller it was deleting when that report made it delete another
  stray,     \* history: threads that took a controller without the manager's lock
  contested, \* history: controllers that shared the list, or went in place of another
  of         \* history: whose message a thread of the transport is about

agentVars == <<made, address, ctl>>
threadVars == <<ptr, holds, ref, del, cb, outer, stray, of>>
shutVars == <<shutting, extra, contested>>
vars == <<agentVars, listed, conn, shutVars, pc, threadVars>>

Agents == 1..MaxAgents

Init ==
  /\ made = 0 /\ listed = 0 /\ shutting = FALSE /\ stray = {} /\ extra = {} /\ contested = {}
  /\ \E a \in Addresses : address = [c \in Agents |-> a]
  /\ ctl = [c \in Agents |-> "none"] /\ conn = [c \in Agents |-> "none"]
  /\ pc = [t \in Threads |-> "idle"]
  /\ ptr = [t \in Threads |-> 0] /\ holds = ptr /\ ref = ptr /\ del = ptr /\ cb = ptr /\ outer = ptr /\ of = ptr

GoTo(t, p) == pc' = [pc EXCEPT ![t] = p]

\* aAgentControllersList.
Listed == ({listed} \ {0}) \cup extra

\* cConnList: a connection leaves it when its last reference goes.
Open(c) == conn[c] \in {"up", "destroying"}
Close(c) == conn' = [conn EXCEPT ![c] = "destroying"]
TransportOff == pc[Finalizer] \in {"closing", "end"}

----------------------------------------------------------------------------
(* Clients *)

\* A client calls LoadAgent, LoadCustomDll, UnloadAgent or something that sends a
\* command.  All ask IsLockHeld and IsShuttingDown first, and return during shutdown.
Calls(t) == t \in Clients /\ pc[t] = "idle" /\ ~shutting

\* In the manager's lock: the commands do not ask whether they got it, but outside of
\* shutdown they did.
HasLock(t) == Calls(t) \/ (pc[t] = "command" /\ ~shutting)

\* GetAgentController: the controller found is locked against its end.
Take(t, p) ==
  /\ holds' = [holds EXCEPT ![t] = listed]
  /\ GoTo(t, p)
  /\ UNCHANGED <<agentVars, listed, conn, shutVars, ptr, ref, del, cb, outer, stray, of>>

LoadFound(t) == Calls(t) /\ listed # 0 /\ Take(t, "sending")

\* Wrong variant: ConnectAgent overlooks a connection that is going.
CanConnect_anyState == \A c \in Agents : conn[c] # "up"

\* ConnectAgent refuses a process whose last connection is still in the list.
CanConnect == \A c \in Agents : ~Open(c)

Free == {a \in Addresses : \A c \in Agents : ctl[c] \in {"live", "ending"} => address[c] # a}

\* AddAgentController: the new one is in the list before the lock is given up.  Outside
\* of shutdown LoadAgent, AddHook and all that make one have the lock; see Make.
Load(t) ==
  /\ HasLock(t) /\ listed = 0 /\ CanConnect /\ made < MaxAgents
  /\ made' = made + 1 /\ listed' = made'
  /\ \E a \in Free : address' = [address EXCEPT ![made'] = a]
  /\ ctl' = [ctl EXCEPT ![made'] = "live"]
  /\ conn' = [conn EXCEPT ![made'] = "up"]
  /\ holds' = [holds EXCEPT ![t] = made']
  /\ GoTo(t, "event")
  /\ UNCHANGED <<shutVars, ptr, ref, del, cb, outer, stray, of>>

CloseUp == conn' = [c \in Agents |-> IF conn[c] = "up" THEN "destroying" ELSE conn[c]]

\* The process has ended; or the injection or the connection fails, and the
\* controller that nobody has seen disconnects the process, that is closes the
\* connection there still is.
LoadFails(t) ==
  /\ (HasLock(t) /\ listed = 0) \/ pc[t] = "make"
  /\ CloseUp \/ UNCHANGED conn
  /\ GoTo(t, "idle")
  /\ UNCHANGED <<agentVars, listed, shutVars, threadVars>>

\* OnAgentLoad returns; LoadAgent does so too, others send their message.
EventReturns(t) ==
  /\ pc[t] = "event"
  /\ GoTo(t, "sending")
  /\ UNCHANGED <<agentVars, listed, conn, shutVars, threadVars>>

\* UnloadAgent keeps only the pointer.
Unload(t) ==
  /\ Calls(t) /\ listed # 0
  /\ ptr' = [ptr EXCEPT ![t] = listed]
  /\ GoTo(t, "remove")
  /\ UNCHANGED <<agentVars, listed, conn, shutVars, holds, ref, del, cb, outer, stray, of>>

Checked(t) ==
  /\ Calls(t)
  /\ GoTo(t, "command")
  /\ UNCHANGED <<agentVars, listed, conn, shutVars, threadVars>>

\* The commands that make no controller; during shutdown they search without the lock.
NotFound(t) ==
  /\ pc[t] = "command" /\ Listed = {}
  /\ GoTo(t, "idle")
  /\ UNCHANGED <<agentVars, listed, conn, shutVars, threadVars>>

Command(t) == pc[t] = "command" /\ ~shutting /\ listed # 0 /\ Take(t, "sending")

\* SendDirectCommand and its like do not look whether they got the lock: during
\* shutdown they read the list without it, also while a thread that has it takes the
\* controller off ...
ReadList(t) ==
  /\ pc[t] = "command" /\ shutting
  /\ \E c \in Listed \cup {del[u] : u \in {v \in Threads : pc[v] = "signal"}} :
       ptr' = [ptr EXCEPT ![t] = c]
  /\ GoTo(t, "grab")
  /\ UNCHANGED <<agentVars, listed, conn, shutVars, holds, ref, del, cb, outer, stray, of>>

\* ... and use what they found, whatever became of it.
Grab(t) ==
  /\ pc[t] = "grab"
  /\ holds' = [holds EXCEPT ![t] = ptr[t]]
  /\ stray' = stray \cup {t}
  /\ ptr' = [ptr EXCEPT ![t] = 0]
  /\ GoTo(t, IF ctl[ptr[t]] = "ending" THEN "return" ELSE "sending")
  /\ UNCHANGED <<agentVars, listed, conn, shutVars, ref, del, cb, outer, of>>

\* AddHook and ActivateAgent do not look either, and make a controller if they find
\* none: others that search meanwhile find none as well.
Missed(t) ==
  /\ pc[t] = "command" /\ shutting /\ Listed = {}
  /\ GoTo(t, "make")
  /\ UNCHANGED <<agentVars, listed, conn, shutVars, threadVars>>

\* AddAgentController without the lock: the new one is in the list, next to equal ones,
\* while the agent is injected and connected.
Make(t) ==
  /\ pc[t] = "make" /\ made < MaxAgents
  /\ made' = made + 1
  /\ \E a \in Free : address' = [address EXCEPT ![made'] = a]
  /\ ctl' = [ctl EXCEPT ![made'] = "live"]
  /\ extra' = extra \cup {made'}
  /\ contested' = IF Listed = {} THEN contested ELSE contested \cup Listed \cup {made'}
  /\ ptr' = [ptr EXCEPT ![t] = made']
  /\ GoTo(t, "joining")
  /\ UNCHANGED <<listed, conn, shutting, holds, ref, del, cb, outer, stray, of>>

Joined(t) ==
  /\ pc[t] = "joining" /\ CanConnect
  /\ conn' = [conn EXCEPT ![ptr[t]] = "up"]
  /\ holds' = [holds EXCEPT ![t] = ptr[t]]
  /\ ptr' = [ptr EXCEPT ![t] = 0]
  /\ GoTo(t, "event")
  /\ UNCHANGED <<agentVars, listed, shutVars, ref, del, cb, outer, stray, of>>

\* The injection or the connection fails: the entry that goes is any that has the
\* process id, if there is one, and the controller that goes is the new one.
JoinFails(t) ==
  /\ pc[t] = "joining"
  /\ IF extra = {}
       THEN UNCHANGED <<extra, contested>>
       ELSE \E c \in extra :
              /\ extra' = extra \ {c}
              /\ contested' = IF c = ptr[t] THEN contested ELSE contested \cup {c, ptr[t]}
  /\ del' = [del EXCEPT ![t] = ptr[t]]
  /\ ptr' = [ptr EXCEPT ![t] = 0]
  /\ GoTo(t, "signal")
  /\ UNCHANGED <<agentVars, listed, conn, shutting, holds, ref, cb, outer, stray, of>>

Leave(t, p) ==
  /\ holds' = [holds EXCEPT ![t] = 0]
  /\ stray' = stray \ {t}
  /\ GoTo(t, p)
  /\ UNCHANGED <<agentVars, listed, conn, shutVars, ref, del, cb, outer, of>>

\* The controller is not active, the message needs no answer, or the call failed
\* and leaves the agent alone.
Return(t) == pc[t] \in {"sending", "return"} /\ Leave(t, "idle") /\ UNCHANGED ptr

\* SendMsg accepts the message.
Send(t) ==
  /\ pc[t] = "sending" /\ \E c \in Agents : conn[c] = "up"
  /\ GoTo(t, "waiting")
  /\ UNCHANGED <<agentVars, listed, conn, shutVars, threadVars>>

\* The connection is going, or there is no memory: the agent is given up.
SendFails(t) ==
  /\ pc[t] = "sending"
  /\ ptr' = [ptr EXCEPT ![t] = holds[t]]
  /\ Leave(t, "remove")

Answered(t) == pc[t] = "waiting" /\ Leave(t, "idle") /\ UNCHANGED ptr

\* The wait ends with the controller's or the manager's shutdown event.
Cancelled(t) ==
  /\ pc[t] = "waiting" /\ (shutting \/ ctl[holds[t]] # "live")
  /\ Leave(t, "idle") /\ UNCHANGED ptr

\* RemoveAgentController compares addresses; the caller has left its controller,
\* so that it may be gone and another one in its place.
Removes(t) == IF listed # 0 /\ address[listed] = address[ptr[t]] THEN listed ELSE 0

----------------------------------------------------------------------------
(* Taking a controller off the list and deleting it *)

\* Wrong variant: the controller stays in the list.
Delete_listed(t, c) ==
  /\ listed' = listed
  /\ del' = [del EXCEPT ![t] = c]
  /\ GoTo(t, "signal")

\* Whoever takes a controller off the list under the lock deletes it outside.
Delete(t, c) ==
  /\ listed' = 0
  /\ del' = [del EXCEPT ![t] = c]
  /\ GoTo(t, "signal")

Remove(t) ==
  /\ pc[t] = "remove"
  /\ ptr' = [ptr EXCEPT ![t] = 0]
  /\ IF ~shutting /\ Removes(t) # 0 THEN Delete(t, Removes(t)) ELSE GoTo(t, "idle") /\ UNCHANGED <<listed, del>>
  /\ UNCHANGED <<agentVars, conn, shutVars, holds, ref, cb, outer, stray, of>>

\* InternalShutdownAgent: StartShutdownAndWaitPending ...
Signal(t) ==
  /\ pc[t] = "signal"
  /\ ctl' = [ctl EXCEPT ![del[t]] = "ending"]
  /\ GoTo(t, "drain")
  /\ UNCHANGED <<made, address, listed, conn, shutVars, threadVars>>

\* Wrong variant: SignalShutdown alone, as ShutdownAgent has it.
Drain_noWait(t) ==
  /\ pc[t] = "drain"
  /\ GoTo(t, "disconnect")
  /\ UNCHANGED <<agentVars, listed, conn, shutVars, threadVars>>

Drain(t) ==
  /\ pc[t] = "drain" /\ \A u \in Threads : holds[u] # del[t]
  /\ GoTo(t, "disconnect")
  /\ UNCHANGED <<agentVars, listed, conn, shutVars, threadVars>>

\* ... then DisconnectAgent(pid), of whichever connection the process has now.
Disconnect(t) ==
  /\ pc[t] = "disconnect" /\ ~TransportOff
  /\ \E c \in Agents :
       /\ conn[c] = "up"
       /\ Close(c)
       /\ cb' = [cb EXCEPT ![t] = c]
  /\ GoTo(t, "closed")
  /\ UNCHANGED <<agentVars, listed, shutVars, ptr, holds, ref, del, outer, stray, of>>

Disconnected(t) ==
  /\ pc[t] = "disconnect" /\ (TransportOff \/ \A c \in Agents : conn[c] # "up")
  /\ GoTo(t, IF del[t] # 0 THEN "free" ELSE "done")
  /\ UNCHANGED <<agentVars, listed, conn, shutVars, threadVars>>

\* DisconnectAgent returns to the deletion it is part of, or to the transport.
Resume(t, c) ==
  /\ cb' = [cb EXCEPT ![t] = 0] /\ outer' = [outer EXCEPT ![t] = 0]
  /\ del' = [del EXCEPT ![t] = c]
  /\ GoTo(t, IF c # 0 THEN "free" ELSE "done")

\* Wrong variant: a thread that deletes a controller need not delete another.
ConnectionClosed_once(t) ==
  /\ pc[t] = "closed"
  /\ IF shutting \/ listed = 0 \/ del[t] # 0
       THEN Resume(t, del[t]) /\ UNCHANGED listed
       ELSE /\ Delete(t, listed)
            /\ UNCHANGED <<cb, outer>>
  /\ UNCHANGED <<agentVars, conn, shutVars, ptr, holds, ref, stray, of>>

\* TEC_OnConnectionClosed, inside DisconnectAgent, finds the controller by process id.
ConnectionClosed(t) ==
  /\ pc[t] = "closed"
  /\ IF shutting \/ listed = 0
       THEN Resume(t, del[t]) /\ UNCHANGED listed
       ELSE /\ outer' = [outer EXCEPT ![t] = del[t]]
            /\ Delete(t, listed)
            /\ cb' = cb
  /\ UNCHANGED <<agentVars, conn, shutVars, ptr, holds, ref, stray, of>>

FreeController(t) ==
  /\ pc[t] = "free"
  /\ ctl' = [ctl EXCEPT ![del[t]] = "freed"]
  /\ GoTo(t, "told")
  /\ UNCHANGED <<made, address, listed, conn, shutVars, threadVars>>

\* OnAgentUnload returns; Finalize raises none.
Told(t) ==
  /\ pc[t] = "told"
  /\ IF cb[t] # 0
       THEN Resume(t, outer[t])
       ELSE /\ del' = [del EXCEPT ![t] = 0]
            /\ GoTo(t, IF t \in Callbacks THEN "disconnect" ELSE IF t = Finalizer THEN "sweep" ELSE "idle")
            /\ UNCHANGED <<cb, outer>>
  /\ UNCHANGED <<agentVars, listed, conn, shutVars, ptr, holds, ref, stray, of>>

----------------------------------------------------------------------------
(* Workers and dispatchers of the transport *)

\* A completion or a message of the connection; it may be a failed one.
Complete(t) ==
  /\ pc[t] = "idle" /\ t \in Callbacks
  /\ \E c \in Agents, p \in {"message", "error"} :
       /\ Open(c) /\ (p = "error" => t \in Workers)
       /\ ref' = [ref EXCEPT ![t] = c] /\ of' = [of EXCEPT ![t] = c]
       /\ GoTo(t, p)
  /\ UNCHANGED <<agentVars, listed, conn, shutVars, ptr, holds, del, cb, outer, stray>>

\* TEC_OnAgentMessage.
Message(t) == pc[t] = "message" /\ ~shutting /\ listed # 0 /\ Take(t, "handler")

\* hRes of the message: a dispatcher releases its references before it handles an error.
Fails(t) ==
  /\ GoTo(t, "error")
  /\ ref' = IF t \in Dispatchers THEN [ref EXCEPT ![t] = 0] ELSE ref

MessageRefused(t) ==
  /\ pc[t] = "message" /\ (shutting \/ listed = 0)
  /\ Fails(t)
  /\ UNCHANGED <<agentVars, listed, conn, shutVars, ptr, holds, del, cb, outer, stray, of>>

\* The client's handler returns.
Handled(t) ==
  /\ pc[t] = "handler"
  /\ holds' = [holds EXCEPT ![t] = 0]
  /\ \/ Fails(t)
     \/ GoTo(t, "done") /\ UNCHANGED ref
  /\ UNCHANGED <<agentVars, listed, conn, shutVars, ptr, del, cb, outer, stray, of>>

\* TEC_OnTransportError finds the controller by the process id of the connection; a
\* dispatcher may read it from memory that is gone.
TransportError(t) ==
  /\ pc[t] = "error"
  /\ IF shutting \/ listed = 0
       THEN GoTo(t, "disconnect") /\ UNCHANGED <<listed, del>>
       ELSE Delete(t, listed)
  /\ UNCHANGED <<agentVars, conn, shutVars, ptr, holds, ref, cb, outer, stray, of>>

PidLost(t) ==
  /\ pc[t] \in {"error", "disconnect"} /\ del[t] = 0 /\ conn[of[t]] = "gone"
  /\ GoTo(t, "done")
  /\ UNCHANGED <<agentVars, listed, conn, shutVars, threadVars>>

Done(t) ==
  /\ pc[t] = "done"
  /\ GoTo(t, "idle")
  /\ ref' = [ref EXCEPT ![t] = 0] /\ of' = [of EXCEPT ![t] = 0]
  /\ UNCHANGED <<agentVars, listed, conn, shutVars, ptr, holds, del, cb, outer, stray>>

\* The last reference to a connection goes, and it leaves the list.
Gone(c) ==
  /\ conn[c] = "destroying" /\ \A t \in Threads : ref[t] # c /\ cb[t] # c
  /\ conn' = [conn EXCEPT ![c] = "gone"]
  /\ UNCHANGED <<agentVars, listed, shutVars, pc, threadVars>>

----------------------------------------------------------------------------
(* Finalize *)

StartShutdown ==
  /\ pc[Finalizer] = "idle"
  /\ shutting' = TRUE
  /\ GoTo(Finalizer, "wait")
  /\ UNCHANGED <<agentVars, listed, extra, contested, conn, threadVars>>

\* Threads that hold the manager's shutdown lock.
Inside(t) == IF t \in Clients THEN pc[t] # "idle" ELSE pc[t] \in {"handler", "closed"} \/ del[t] # 0

WaitPending ==
  /\ pc[Finalizer] = "wait" /\ \A t \in Threads \ {Finalizer} : ~Inside(t)
  /\ GoTo(Finalizer, "sweep")
  /\ UNCHANGED <<agentVars, listed, conn, shutVars, threadVars>>

Sweep ==
  /\ pc[Finalizer] = "sweep"
  /\ IF Listed # {}
       THEN \E c \in Listed : Delete(Finalizer, c) /\ extra' = extra \ {c}
       ELSE GoTo(Finalizer, "closing") /\ UNCHANGED <<listed, extra, del>>
  /\ UNCHANGED <<agentVars, conn, shutting, contested, ptr, holds, ref, cb, outer, stray, of>>

\* CNktDvTransportEngine::Finalize: it waits for calls inside, closes what is open
\* and waits until it is gone.
CloseAll ==
  /\ pc[Finalizer] = "closing" /\ \A t \in Threads : cb[t] = 0
  /\ CloseUp
  /\ GoTo(Finalizer, "end")
  /\ UNCHANGED <<agentVars, listed, shutVars, threadVars>>

----------------------------------------------------------------------------

ClientCall(t) == LoadFound(t) \/ Load(t) \/ LoadFails(t) \/ Unload(t) \/ Checked(t)

ClientStep(t) ==
  \/ EventReturns(t) \/ NotFound(t) \/ Command(t) \/ ReadList(t) \/ Grab(t)
  \/ Missed(t) \/ Make(t) \/ Joined(t) \/ JoinFails(t)
  \/ Return(t) \/ Send(t) \/ SendFails(t) \/ Cancelled(t) \/ Remove(t)

DeleteStep(t) ==
  \/ Signal(t) \/ Drain(t) \/ Disconnect(t) \/ Disconnected(t)
  \/ ConnectionClosed(t) \/ FreeController(t) \/ Told(t)

CallbackStep(t) ==
  Message(t) \/ MessageRefused(t) \/ Handled(t) \/ TransportError(t) \/ PidLost(t) \/ Done(t)

Step(t) == ClientStep(t) \/ DeleteStep(t) \/ CallbackStep(t)

Next ==
  \/ \E t \in Threads : ClientCall(t) \/ Answered(t) \/ Complete(t) \/ Step(t)
  \/ \E c \in Agents : Gone(c)
  \/ StartShutdown \/ WaitPending \/ Sweep \/ CloseAll

Spec == Init /\ [][Next]_vars

----------------------------------------------------------------------------
(* Properties *)

TypeOK ==
  /\ made \in 0..MaxAgents /\ listed \in 0..MaxAgents /\ shutting \in BOOLEAN /\ stray \subseteq Threads
  /\ extra \subseteq Agents /\ contested \subseteq Agents
  /\ address \in [Agents -> Addresses]
  /\ ctl \in [Agents -> {"none", "live", "ending", "freed"}]
  /\ conn \in [Agents -> {"none", "up", "destroying", "gone"}]
  /\ pc \in [Threads -> {"idle", "event", "command", "make", "joining", "grab", "sending", "return", "waiting",
                         "remove", "signal", "drain", "disconnect", "closed", "free", "told",
                         "message", "handler", "error", "done", "wait", "sweep", "closing", "end"}]
  /\ ptr \in [Threads -> 0..MaxAgents] /\ holds \in [Threads -> 0..MaxAgents]
  /\ del \in [Threads -> 0..MaxAgents] /\ outer \in [Threads -> 0..MaxAgents]
  /\ ref \in [Threads -> 0..MaxAgents] /\ cb \in [Threads -> 0..MaxAgents] /\ of \in [Threads -> 0..MaxAgents]

\* No thread uses a controller that another one has deleted: not while it runs the
\* client's events, not while it waits for the agent.  Only a command that read the
\* list during shutdown without the lock can.
HeldIsAlive == \A t \in Threads : holds[t] # 0 /\ ctl[holds[t]] = "freed" => t \in stray

\* A controller is deleted by one thread, once, and is out of the list by then,
\* whichever of a client, a worker, a dispatcher, the end of the connection and
\* Finalize come to it; so the end of an agent is told once.  Outside of shutdown that
\* is true of all.  During it two commands that make a controller each, without the
\* lock, may put both into the list; the one that fails then takes the other's off and
\* deletes its own, which Finalize finds there and deletes again.  It is true of all
\* but these, which no two threads delete at the same time.
Deletes(t) == {del[t], outer[t]} \ {0}
DeletedOnce ==
  /\ ~shutting => contested = {}
  /\ \A c \in Listed \ contested : ctl[c] = "live" /\ \A t \in Threads : c \notin Deletes(t)
  /\ \A t \in Threads :
       /\ del[t] # 0 =>
            del[t] # outer[t] /\ (ctl[del[t]] = "freed" => pc[t] = "told" \/ del[t] \in contested)
       /\ outer[t] # 0 => ctl[outer[t]] = "ending"
       /\ \A u \in Threads \ {t} : Deletes(t) \cap Deletes(u) = {}

\* Outside of shutdown an agent in the list is connected, or the thread that closed
\* its connection is on its way to take it off; and a connection that is up has its
\* controller in the list or a thread that will close it, but for the controller that
\* another's failure took off during shutdown.
ListedIsConnected ==
  /\ listed # 0 /\ ~shutting =>
       conn[listed] = "up" \/ \E t \in Threads : pc[t] = "closed" /\ cb[t] = listed
  /\ ~TransportOff => \A c \in Agents \ contested : conn[c] = "up" =>
       c \in Listed \/ \E t \in Threads : del[t] = c /\ pc[t] \in {"signal", "drain", "disconnect"}

\* A thread that reports the end or an error of a connection, which it finds again by
\* the process id, takes no other agent off the list: as long as it has its reference
\* nobody can connect to the process anew.
EndsItsOwn ==
  ~shutting => \A t \in Threads :
    /\ pc[t] = "error" /\ ref[t] # 0 => listed \in {0, ref[t]}
    /\ pc[t] = "closed" => listed \in {0, cb[t]}
=============================================================================
