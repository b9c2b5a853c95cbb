-------------------------- MODULE SpyAgents_proofs --------------------------
(***************************************************************************)
(* For any clients, workers, dispatchers, addresses and number of          *)
(* controllers: the type invariant of SpyAgents, that a controller in use  *)
(* is not deleted and none is deleted twice (unless, in shutdown, it       *)
(* shared the list with one made without the lock), that the agent in the  *)
(* list is connected, and that the end of a connection ends its own agent  *)
(* only.                                                                   *)
(***************************************************************************)
EXTENDS SpyAgents, TLAPS

Deletion == {"signal", "drain", "disconnect", "closed", "free", "told"}

\* Where a thread is says what it deletes, reports and holds.
PcOf(t) ==
  /\ t \in Clients => pc[t] \in Deletion \cup {"idle", "event", "command", "make", "joining", "grab",
                                             "sending", "return", "waiting", "remove"}
  /\ t \in Callbacks => pc[t] \in Deletion \cup {"idle", "message", "handler", "error", "done"}
  /\ t = Finalizer => pc[t] \in Deletion \cup {"idle", "wait", "sweep", "closing", "end"}
  /\ del[t] # 0 \/ cb[t] # 0 => pc[t] \in Deletion
  /\ pc[t] \in {"signal", "drain", "free", "told"} => del[t] # 0
  /\ pc[t] = "disconnect" /\ (cb[t] # 0 \/ t \notin Callbacks) => del[t] # 0
  /\ pc[t] = "closed" => cb[t] # 0 /\ outer[t] = 0 /\ (t \notin Callbacks => del[t] # 0)
  /\ outer[t] # 0 => cb[t] # 0 /\ del[t] # 0
  /\ cb[t] # 0 /\ pc[t] # "closed" /\ t \notin Callbacks => outer[t] # 0
  /\ holds[t] # 0 => pc[t] \in {"event", "sending", "return", "waiting", "handler"}

PcInv == \A t \in Threads : PcOf(t)

\* Nobody knows a controller that is still to be made.
MadeInv ==
  /\ listed <= made
  /\ \A c \in extra : c <= made
  /\ \A t \in Threads : /\ ptr[t] <= made /\ holds[t] <= made /\ ref[t] <= made
                        /\ del[t] <= made /\ cb[t] <= made /\ outer[t] <= made
  /\ \A c \in Agents : c > made => ctl[c] = "none" /\ conn[c] = "none"

\* DeletedOnce, number by number.
Once ==
  /\ listed # 0 => ctl[listed] = "live"
  /\ \A t \in Threads :
       /\ listed # 0 => del[t] # listed /\ outer[t] # listed
       /\ del[t] # 0 => del[t] # outer[t]
       /\ outer[t] # 0 => ctl[outer[t]] = "ending"
  /\ \A t, u \in Threads : t # u =>
       /\ del[t] # 0 => del[t] # del[u] /\ del[t] # outer[u]
       /\ outer[t] # 0 => outer[t] # outer[u]

\* The state of a controller follows the thread that deletes it.
CtlInv ==
  \A t \in Threads : del[t] # 0 =>
    IF pc[t] = "signal" THEN ctl[del[t]] = "live" \/ del[t] \in contested
                        ELSE ctl[del[t]] = IF pc[t] = "told" THEN "freed" ELSE "ending"

\* A controller is made without the lock in shutdown only, when nobody else puts one
\* into the list with it.
Unlocked ==
  extra # {} \/ contested # {} \/ (\E t \in Threads : pc[t] \in {"make", "joining"})
    => shutting /\ listed = 0

\* While its agent is injected nobody else deletes it; nor takes it off the list, if it
\* is alone there.
Joining ==
  \A t \in Threads : pc[t] = "joining" =>
    /\ ptr[t] # 0 /\ ctl[ptr[t]] = "live"
    /\ ptr[t] \in extra \cup contested
    /\ \A u \in Threads :
         /\ del[u] # ptr[t] /\ outer[u] # ptr[t]
         /\ u # t /\ pc[u] = "joining" => ptr[u] # ptr[t]

\* A controller that never shared the list is alone in it, in use and not deleted.
Alone ==
  \A c \in extra \ contested :
    extra = {c} /\ ctl[c] = "live" /\ \A t \in Threads : del[t] # c /\ outer[t] # c

\* Finalize empties the list when nobody else is left that deletes.
SweepsAlone ==
  pc[Finalizer] \notin {"idle", "wait"} =>
    \A t \in Threads \ {Finalizer} : del[t] = 0 /\ (t \in Clients => pc[t] = "idle")
\* After the wait nobody is left that uses the controller.
Drained ==
  \A t, u \in Threads : holds[u] # 0 /\ u \notin stray =>
    /\ holds[u] # outer[t]
    /\ pc[t] \in {"disconnect", "closed", "free", "told"} => holds[u] # del[t]

\* ConnectAgent waits until the last connection is gone.
OneConnection == \A c, d \in Agents : Open(c) /\ Open(d) => c = d

\* References keep a connection in the list, and its end is reported once it is closed.
RefOpen ==
  \A t \in Threads : /\ ref[t] # 0 => Open(ref[t])
                     /\ cb[t] # 0 => conn[cb[t]] = "destroying"

ShutInv == pc[Finalizer] # "idle" => shutting

\* The two halves of ListedIsConnected.
ListedUp ==
  listed # 0 /\ ~shutting =>
    conn[listed] = "up" \/ \E t \in Threads : pc[t] = "closed" /\ cb[t] = listed

Closing(t, c) == del[t] = c /\ pc[t] \in {"signal", "drain", "disconnect"}

UpIsListed ==
  ~TransportOff => \A c \in Agents : conn[c] = "up" =>
    listed = c \/ c \in extra \cup contested \/ \E t \in Threads : Closing(t, c)

IInv == /\ TypeOK /\ PcInv /\ MadeInv /\ Once /\ CtlInv /\ Drained /\ HeldIsAlive
        /\ OneConnection /\ RefOpen /\ ListedUp /\ UpIsListed /\ ShutInv
        /\ Unlocked /\ Joining /\ Alone /\ SweepsAlone

\* Numbers of agents are above zero, which stands for no agent.
LEMMA Ids == 0 \notin Agents /\ \A x \in 0..MaxAgents : x = 0 \/ x \in Agents
BY AgentConstants DEF Agents

----------------------------------------------------------------------------
\* Every step keeps the types.
LEMMA TypeStep == ASSUME TypeOK, Joining, Next PROVE TypeOK'
<1>a. 0 \in 0..MaxAgents /\ \A c \in Agents : c \in 0..MaxAgents
  BY AgentConstants DEF Agents
<1>f. Finalizer \in Threads
  BY DEF Threads
<1>1. ASSUME NEW t \in Threads, LoadFound(t) PROVE TypeOK'
  BY <1>1 DEF TypeOK, LoadFound, Take, GoTo, agentVars, shutVars
<1>2. ASSUME NEW t \in Threads, Load(t) PROVE TypeOK'
  <2>1. made + 1 \in 0..MaxAgents
    BY <1>2, AgentConstants DEF TypeOK, Load, shutVars
  <2>2. PICK a \in Addresses : address' = [address EXCEPT ![made + 1] = a]
    BY <1>2 DEF Load, Free, shutVars
  <2>3. QED
    BY <1>2, <2>1, <2>2 DEF TypeOK, Load, HasLock, Calls, GoTo, shutVars
<1>3. ASSUME NEW t \in Threads, LoadFails(t) PROVE TypeOK'
  BY <1>3 DEF TypeOK, LoadFails, CloseUp, GoTo, agentVars, threadVars, shutVars
<1>4. ASSUME NEW t \in Threads, Unload(t) PROVE TypeOK'
  BY <1>4 DEF TypeOK, Unload, GoTo, agentVars, shutVars
<1>5. ASSUME NEW t \in Threads, Checked(t) PROVE TypeOK'
  BY <1>5 DEF TypeOK, Checked, GoTo, agentVars, threadVars, shutVars
<1>6. ASSUME NEW t \in Threads, Answered(t) PROVE TypeOK'
  BY <1>6, <1>a DEF TypeOK, Answered, Leave, GoTo, agentVars, shutVars
<1>7. ASSUME NEW t \in Threads, Complete(t) PROVE TypeOK'
  BY <1>7, <1>a DEF TypeOK, Complete, GoTo, agentVars, shutVars
<1>8. ASSUME NEW t \in Threads, EventReturns(t) PROVE TypeOK'
  BY <1>8 DEF TypeOK, EventReturns, GoTo, agentVars, threadVars, shutVars
<1>9. ASSUME NEW t \in Threads, NotFound(t) PROVE TypeOK'
  BY <1>9 DEF TypeOK, NotFound, GoTo, agentVars, threadVars, shutVars
<1>10. ASSUME NEW t \in Threads, Command(t) PROVE TypeOK'
  BY <1>10 DEF TypeOK, Command, Take, GoTo, agentVars, shutVars
<1>11. ASSUME NEW t \in Threads, ReadList(t) PROVE TypeOK'
  <2>1. \A c \in Listed : c \in 0..MaxAgents
    BY <1>a DEF TypeOK, Listed
  <2>2. \A u \in Threads : del[u] \in 0..MaxAgents
    BY DEF TypeOK
  <2>3. PICK c \in 0..MaxAgents : ptr' = [ptr EXCEPT ![t] = c]
    BY <1>11, <2>1, <2>2 DEF ReadList
  <2>4. QED
    BY <1>11, <2>3 DEF TypeOK, ReadList, GoTo, agentVars, shutVars
<1>12. ASSUME NEW t \in Threads, Grab(t) PROVE TypeOK'
  BY <1>12, <1>a DEF TypeOK, Grab, GoTo, agentVars, shutVars
<1>13. ASSUME NEW t \in Threads, Return(t) PROVE TypeOK'
  BY <1>13, <1>a DEF TypeOK, Return, Leave, GoTo, agentVars, shutVars
<1>14. ASSUME NEW t \in Threads, Send(t) PROVE TypeOK'
  BY <1>14 DEF TypeOK, Send, GoTo, agentVars, threadVars, shutVars
<1>15. ASSUME NEW t \in Threads, SendFails(t) PROVE TypeOK'
  BY <1>15, <1>a DEF TypeOK, SendFails, Leave, GoTo, agentVars, shutVars
<1>16. ASSUME NEW t \in Threads, Cancelled(t) PROVE TypeOK'
  BY <1>16, <1>a DEF TypeOK, Cancelled, Leave, GoTo, agentVars, shutVars
<1>17. ASSUME NEW t \in Threads, Remove(t) PROVE TypeOK'
  BY <1>17, <1>a DEF TypeOK, Remove, Delete, Removes, GoTo, agentVars, shutVars
<1>18. ASSUME NEW t \in Threads, Signal(t) PROVE TypeOK'
  BY <1>18 DEF TypeOK, Signal, GoTo, threadVars, shutVars
<1>19. ASSUME NEW t \in Threads, Drain(t) PROVE TypeOK'
  BY <1>19 DEF TypeOK, Drain, GoTo, agentVars, threadVars, shutVars
<1>20. ASSUME NEW t \in Threads, Disconnect(t) PROVE TypeOK'
  BY <1>20, <1>a DEF TypeOK, Disconnect, Close, GoTo, agentVars, shutVars
<1>21. ASSUME NEW t \in Threads, Disconnected(t) PROVE TypeOK'
  BY <1>21 DEF TypeOK, Disconnected, GoTo, agentVars, threadVars, shutVars
<1>22. ASSUME NEW t \in Threads, ConnectionClosed(t) PROVE TypeOK'
  BY <1>22, <1>a DEF TypeOK, ConnectionClosed, Delete, Resume, GoTo, agentVars, shutVars
<1>23. ASSUME NEW t \in Threads, FreeController(t) PROVE TypeOK'
  BY <1>23 DEF TypeOK, FreeController, GoTo, threadVars, shutVars
<1>24. ASSUME NEW t \in Threads, Told(t) PROVE TypeOK'
  BY <1>24, <1>a DEF TypeOK, Told, Resume, GoTo, agentVars, shutVars
<1>25. ASSUME NEW t \in Threads, Message(t) PROVE TypeOK'
  BY <1>25 DEF TypeOK, Message, Take, GoTo, agentVars, shutVars
<1>26. ASSUME NEW t \in Threads, MessageRefused(t) PROVE TypeOK'
  BY <1>26, <1>a DEF TypeOK, MessageRefused, Fails, GoTo, agentVars, shutVars
<1>27. ASSUME NEW t \in Threads, Handled(t) PROVE TypeOK'
  BY <1>27, <1>a DEF TypeOK, Handled, Fails, GoTo, agentVars, shutVars
<1>28. ASSUME NEW t \in Threads, TransportError(t) PROVE TypeOK'
  BY <1>28, <1>a DEF TypeOK, TransportError, Delete, GoTo, agentVars, shutVars
<1>29. ASSUME NEW t \in Threads, PidLost(t) PROVE TypeOK'
  BY <1>29 DEF TypeOK, PidLost, GoTo, agentVars, threadVars, shutVars
<1>30. ASSUME NEW t \in Threads, Done(t) PROVE TypeOK'
  BY <1>30, <1>a DEF TypeOK, Done, GoTo, agentVars, shutVars
<1>31. ASSUME NEW c \in Agents, Gone(c) PROVE TypeOK'
  BY <1>31 DEF TypeOK, Gone, agentVars, threadVars, shutVars
<1>32. CASE StartShutdown
  BY <1>32 DEF TypeOK, StartShutdown, GoTo, agentVars, threadVars, shutVars
<1>33. CASE WaitPending
  BY <1>33 DEF TypeOK, WaitPending, GoTo, agentVars, threadVars, shutVars
<1>34. CASE Sweep
  <2>1. CASE Listed = {}
    BY <1>34, <2>1 DEF TypeOK, Sweep, GoTo, agentVars
  <2>2. CASE Listed # {}
    <3>1. PICK c \in Listed : Delete(Finalizer, c) /\ extra' = extra \ {c}
      BY <1>34, <2>2 DEF Sweep
    <3>2. c \in 0..MaxAgents
      BY <1>a DEF TypeOK, Listed
    <3>3. QED
      BY <1>34, <3>1, <3>2, <1>a DEF TypeOK, Sweep, Delete, GoTo, agentVars
  <2>3. QED
    BY <2>1, <2>2
<1>35. CASE CloseAll
  BY <1>35 DEF TypeOK, CloseAll, CloseUp, GoTo, agentVars, threadVars, shutVars
<1>36. ASSUME NEW t \in Threads, Missed(t) PROVE TypeOK'
  BY <1>36 DEF TypeOK, Missed, GoTo, agentVars, threadVars, shutVars
<1>37. ASSUME NEW t \in Threads, Make(t) PROVE TypeOK'
  <2>1. made + 1 \in 0..MaxAgents /\ made + 1 \in Agents
    BY <1>37, AgentConstants DEF TypeOK, Make, Agents
  <2>2. PICK a \in Addresses : address' = [address EXCEPT ![made + 1] = a]
    BY <1>37 DEF Make, Free
  <2>3. Listed \subseteq Agents
    BY Ids DEF TypeOK, Listed
  <2>4. /\ made' \in 0..MaxAgents /\ listed' \in 0..MaxAgents /\ shutting' \in BOOLEAN
        /\ extra' \subseteq Agents /\ contested' \subseteq Agents
    BY <1>37, <2>1, <2>3 DEF TypeOK, Make
  <2>5. QED
    BY <1>37, <2>1, <2>2, <2>4 DEF TypeOK, Make, GoTo
<1>38. ASSUME NEW t \in Threads, Joined(t) PROVE TypeOK'
  BY <1>38, <1>a DEF TypeOK, Joined, GoTo, agentVars, shutVars
<1>39. ASSUME NEW t \in Threads, JoinFails(t) PROVE TypeOK'
  <2>1. ptr[t] \in Agents
    BY <1>39, Ids DEF TypeOK, Joining, JoinFails
  <2>2. extra' \subseteq Agents /\ contested' \subseteq Agents
    BY <1>39, <2>1 DEF TypeOK, JoinFails
  <2>3. QED
    BY <1>39, <1>a, <2>2 DEF TypeOK, JoinFails, GoTo, agentVars
<1>40. QED
  BY <1>1, <1>2, <1>3, <1>4, <1>5, <1>6, <1>7, <1>8, <1>9, <1>10, <1>11, <1>12, <1>13, <1>14, <1>15, <1>16,
     <1>17, <1>18, <1>19, <1>20, <1>21, <1>22, <1>23, <1>24, <1>25, <1>26, <1>27, <1>28, <1>29, <1>30,
     <1>31, <1>32, <1>33, <1>34, <1>35, <1>36, <1>37, <1>38, <1>39
    DEF Next, ClientCall, Step, ClientStep, DeleteStep, CallbackStep

\* A thread is in a deletion exactly while it has one to finish.
LEMMA PcStep == ASSUME TypeOK, PcInv, Joining, OneConnection, RefOpen, Next PROVE PcInv'
<1>f. Finalizer \in Threads
  BY DEF Threads
<1>1. ASSUME NEW t \in Threads, LoadFound(t) PROVE PcInv'
  BY <1>1, AgentConstants DEF TypeOK, PcInv, PcOf, Deletion, LoadFound, Take, Calls, GoTo
<1>2. ASSUME NEW t \in Threads, Load(t) PROVE PcInv'
  BY <1>2, AgentConstants DEF TypeOK, PcInv, PcOf, Deletion, Load, HasLock, Calls, GoTo
<1>3. ASSUME NEW t \in Threads, LoadFails(t) PROVE PcInv'
  BY <1>3, AgentConstants DEF PcInv, PcOf, Deletion, LoadFails, HasLock, Calls, GoTo, threadVars
<1>4. ASSUME NEW t \in Threads, Unload(t) PROVE PcInv'
  BY <1>4, AgentConstants DEF PcInv, PcOf, Deletion, Unload, Calls, GoTo
<1>5. ASSUME NEW t \in Threads, Checked(t) PROVE PcInv'
  BY <1>5, AgentConstants DEF PcInv, PcOf, Deletion, Checked, Calls, GoTo, threadVars
<1>6. ASSUME NEW t \in Threads, Answered(t) PROVE PcInv'
  BY <1>6 DEF TypeOK, PcInv, PcOf, Deletion, Answered, Leave, GoTo
<1>7. ASSUME NEW t \in Threads, Complete(t) PROVE PcInv'
  BY <1>7, AgentConstants DEF PcInv, PcOf, Deletion, Complete, GoTo
<1>8. ASSUME NEW t \in Threads, EventReturns(t) PROVE PcInv'
  BY <1>8 DEF PcInv, PcOf, Deletion, EventReturns, GoTo, threadVars
<1>9. ASSUME NEW t \in Threads, NotFound(t) PROVE PcInv'
  BY <1>9 DEF PcInv, PcOf, Deletion, NotFound, GoTo, threadVars
<1>10. ASSUME NEW t \in Threads, Command(t) PROVE PcInv'
  BY <1>10 DEF TypeOK, PcInv, PcOf, Deletion, Command, Take, GoTo
<1>11. ASSUME NEW t \in Threads, ReadList(t) PROVE PcInv'
  BY <1>11 DEF PcInv, PcOf, Deletion, ReadList, GoTo
<1>12. ASSUME NEW t \in Threads, Grab(t) PROVE PcInv'
  BY <1>12 DEF TypeOK, PcInv, PcOf, Deletion, Grab, GoTo
<1>13. ASSUME NEW t \in Threads, Return(t) PROVE PcInv'
  BY <1>13 DEF TypeOK, PcInv, PcOf, Deletion, Return, Leave, GoTo
<1>14. ASSUME NEW t \in Threads, Send(t) PROVE PcInv'
  BY <1>14 DEF PcInv, PcOf, Deletion, Send, GoTo, threadVars
<1>15. ASSUME NEW t \in Threads, SendFails(t) PROVE PcInv'
  BY <1>15 DEF TypeOK, PcInv, PcOf, Deletion, SendFails, Leave, GoTo
<1>16. ASSUME NEW t \in Threads, Cancelled(t) PROVE PcInv'
  BY <1>16 DEF TypeOK, PcInv, PcOf, Deletion, Cancelled, Leave, GoTo
<1>17. ASSUME NEW t \in Threads, Remove(t) PROVE PcInv'
  BY <1>17 DEF TypeOK, PcInv, PcOf, Deletion, Remove, Delete, GoTo
<1>18. ASSUME NEW t \in Threads, Signal(t) PROVE PcInv'
  BY <1>18 DEF PcInv, PcOf, Deletion, Signal, GoTo, threadVars
<1>19. ASSUME NEW t \in Threads, Drain(t) PROVE PcInv'
  BY <1>19 DEF PcInv, PcOf, Deletion, Drain, GoTo, threadVars
<1>20. ASSUME NEW t \in Threads, Disconnect(t) PROVE PcInv'
  <2>1. PICK c \in Agents : conn[c] = "up" /\ cb' = [cb EXCEPT ![t] = c]
    BY <1>20 DEF Disconnect
  <2>2. cb[t] = 0
    BY <2>1 DEF OneConnection, RefOpen, Open, TypeOK, Agents
  <2>3. c # 0
    BY AgentConstants DEF Agents
  <2>4. QED
    BY <1>20, <2>1, <2>2, <2>3 DEF TypeOK, PcInv, PcOf, Deletion, Disconnect, Close, GoTo, agentVars, threadVars
<1>21. ASSUME NEW t \in Threads, Disconnected(t) PROVE PcInv'
  BY <1>21, AgentConstants DEF PcInv, PcOf, Deletion, Disconnected, GoTo, threadVars
<1>22. ASSUME NEW t \in Threads, ConnectionClosed(t) PROVE PcInv'
  BY <1>22, AgentConstants DEF TypeOK, PcInv, PcOf, Deletion, ConnectionClosed, Delete, Resume, GoTo
<1>23. ASSUME NEW t \in Threads, FreeController(t) PROVE PcInv'
  BY <1>23 DEF PcInv, PcOf, Deletion, FreeController, GoTo, threadVars
<1>24. ASSUME NEW t \in Threads, Told(t) PROVE PcInv'
  BY <1>24, AgentConstants DEF TypeOK, PcInv, PcOf, Deletion, Told, Resume, GoTo
<1>25. ASSUME NEW t \in Threads, Message(t) PROVE PcInv'
  BY <1>25 DEF TypeOK, PcInv, PcOf, Deletion, Message, Take, GoTo
<1>26. ASSUME NEW t \in Threads, MessageRefused(t) PROVE PcInv'
  BY <1>26 DEF PcInv, PcOf, Deletion, MessageRefused, Fails, GoTo
<1>27. ASSUME NEW t \in Threads, Handled(t) PROVE PcInv'
  BY <1>27 DEF TypeOK, PcInv, PcOf, Deletion, Handled, Fails, GoTo
<1>28. ASSUME NEW t \in Threads, TransportError(t) PROVE PcInv'
  BY <1>28 DEF TypeOK, PcInv, PcOf, Deletion, Threads, TransportError, Delete, GoTo
<1>29. ASSUME NEW t \in Threads, PidLost(t) PROVE PcInv'
  BY <1>29, AgentConstants DEF PcInv, PcOf, Deletion, PidLost, GoTo, threadVars
<1>30. ASSUME NEW t \in Threads, Done(t) PROVE PcInv'
  BY <1>30 DEF PcInv, PcOf, Deletion, Done, GoTo
<1>31. ASSUME NEW c \in Agents, Gone(c) PROVE PcInv'
  BY <1>31 DEF PcInv, PcOf, Gone, threadVars
<1>32. CASE StartShutdown
  BY <1>32, AgentConstants DEF PcInv, PcOf, Deletion, StartShutdown, GoTo, threadVars
<1>33. CASE WaitPending
  BY <1>33 DEF PcInv, PcOf, Deletion, WaitPending, GoTo, threadVars
<1>34. CASE Sweep
  <2>1. CASE Listed = {}
    BY <1>34, <2>1 DEF TypeOK, PcInv, PcOf, Deletion, Sweep, GoTo
  <2>2. CASE Listed # {}
    <3>1. PICK c \in Listed : Delete(Finalizer, c)
      BY <1>34, <2>2 DEF Sweep
    <3>2. c # 0
      BY Ids DEF TypeOK, Listed
    <3>3. QED
      BY <1>34, <3>1, <3>2 DEF TypeOK, PcInv, PcOf, Deletion, Sweep, Delete, GoTo
  <2>3. QED
    BY <2>1, <2>2
<1>35. CASE CloseAll
  BY <1>35 DEF PcInv, PcOf, Deletion, CloseAll, GoTo, threadVars
<1>36. ASSUME NEW t \in Threads, Missed(t) PROVE PcInv'
  BY <1>36 DEF PcInv, PcOf, Deletion, Missed, GoTo, threadVars
<1>37. ASSUME NEW t \in Threads, Make(t) PROVE PcInv'
  BY <1>37 DEF PcInv, PcOf, Deletion, Make, GoTo
<1>38. ASSUME NEW t \in Threads, Joined(t) PROVE PcInv'
  BY <1>38 DEF TypeOK, PcInv, PcOf, Deletion, Joined, GoTo
<1>39. ASSUME NEW t \in Threads, JoinFails(t) PROVE PcInv'
  <2>1. ptr[t] # 0
    BY <1>39 DEF Joining, JoinFails
  <2>2. QED
    BY <1>39, <2>1 DEF TypeOK, PcInv, PcOf, Deletion, JoinFails, GoTo
<1>40. QED
  BY <1>1, <1>2, <1>3, <1>4, <1>5, <1>6, <1>7, <1>8, <1>9, <1>10, <1>11, <1>12, <1>13, <1>14, <1>15, <1>16,
     <1>17, <1>18, <1>19, <1>20, <1>21, <1>22, <1>23, <1>24, <1>25, <1>26, <1>27, <1>28, <1>29, <1>30,
     <1>31, <1>32, <1>33, <1>34, <1>35, <1>36, <1>37, <1>38, <1>39
    DEF Next, ClientCall, Step, ClientStep, DeleteStep, CallbackStep

\* Nobody knows a controller before it is made.
LEMMA MadeStep == ASSUME TypeOK, MadeInv, Joining, Next PROVE MadeInv'
<1>f. Finalizer \in Threads
  BY DEF Threads
<1>n. /\ made \in Nat /\ listed \in Nat
      /\ \A t \in Threads : /\ ptr[t] \in Nat /\ holds[t] \in Nat /\ ref[t] \in Nat
                            /\ del[t] \in Nat /\ cb[t] \in Nat /\ outer[t] \in Nat
  BY AgentConstants DEF TypeOK
<1>1. ASSUME NEW t \in Threads, LoadFound(t) PROVE MadeInv'
  BY <1>1, <1>n DEF MadeInv, LoadFound, Take, agentVars, shutVars
<1>2. ASSUME NEW t \in Threads, Load(t) PROVE MadeInv'
  <2>1. made' = made + 1 /\ listed' = made + 1 /\ made + 1 \in Agents
    BY <1>2, <1>n, AgentConstants DEF Load, Agents, shutVars
  <2>2. \A x \in Nat : x <= made => x <= made + 1
    BY <1>n
  <2>3. \A c \in Agents : c > made + 1 => c > made /\ c # made + 1
    BY <1>n DEF Agents
  <2>4. UNCHANGED <<extra, ptr, ref, del, cb, outer>> /\ holds' = [holds EXCEPT ![t] = made + 1]
    BY <1>2, <2>1 DEF Load, shutVars
  <2>5. \A u \in Threads : holds'[u] <= made + 1
    BY <1>n, <2>2, <2>4 DEF MadeInv
  <2>6. \A c \in Agents : c > made + 1 => ctl'[c] = ctl[c] /\ conn'[c] = conn[c]
    BY <1>2, <2>1, <2>3 DEF Load, shutVars
  <2>7. QED
    BY <1>n, <2>1, <2>2, <2>3, <2>4, <2>5, <2>6 DEF MadeInv, TypeOK, Agents
<1>3. ASSUME NEW t \in Threads, LoadFails(t) PROVE MadeInv'
  BY <1>3, <1>n DEF MadeInv, LoadFails, CloseUp, agentVars, threadVars, shutVars
<1>4. ASSUME NEW t \in Threads, Unload(t) PROVE MadeInv'
  BY <1>4, <1>n DEF MadeInv, Unload, agentVars, shutVars
<1>5. ASSUME NEW t \in Threads, Checked(t) PROVE MadeInv'
  BY <1>5, <1>n DEF MadeInv, Checked, agentVars, threadVars, shutVars
<1>6. ASSUME NEW t \in Threads, Answered(t) PROVE MadeInv'
  BY <1>6, <1>n DEF MadeInv, Answered, Leave, agentVars, shutVars
<1>7. ASSUME NEW t \in Threads, Complete(t) PROVE MadeInv'
  <2>1. PICK c \in Agents : Open(c) /\ ref' = [ref EXCEPT ![t] = c]
    BY <1>7 DEF Complete, shutVars
  <2>2. c <= made
    BY <1>n, <2>1 DEF MadeInv, Open, Agents
  <2>3. QED
    BY <1>7, <1>n, <2>1, <2>2 DEF TypeOK, MadeInv, Complete, GoTo, agentVars, threadVars, shutVars
<1>8. ASSUME NEW t \in Threads, EventReturns(t) PROVE MadeInv'
  BY <1>8, <1>n DEF MadeInv, EventReturns, agentVars, threadVars, shutVars
<1>9. ASSUME NEW t \in Threads, NotFound(t) PROVE MadeInv'
  BY <1>9, <1>n DEF MadeInv, NotFound, agentVars, threadVars, shutVars
<1>10. ASSUME NEW t \in Threads, Command(t) PROVE MadeInv'
  BY <1>10, <1>n DEF MadeInv, Command, Take, agentVars, shutVars
<1>11. ASSUME NEW t \in Threads, ReadList(t) PROVE MadeInv'
  <2>1. \A c \in Listed : c \in Nat /\ c <= made
    BY <1>n DEF TypeOK, MadeInv, Listed, Agents
  <2>2. PICK c \in Listed \cup {del[u] : u \in {v \in Threads : pc[v] = "signal"}} :
          ptr' = [ptr EXCEPT ![t] = c]
    BY <1>11 DEF ReadList
  <2>3. c \in Nat /\ c <= made
    BY <1>n, <2>1 DEF MadeInv
  <2>4. QED
    BY <1>11, <1>n, <2>2, <2>3 DEF TypeOK, MadeInv, ReadList, agentVars, shutVars
<1>12. ASSUME NEW t \in Threads, Grab(t) PROVE MadeInv'
  BY <1>12, <1>n DEF MadeInv, Grab, agentVars, shutVars
<1>13. ASSUME NEW t \in Threads, Return(t) PROVE MadeInv'
  BY <1>13, <1>n DEF MadeInv, Return, Leave, agentVars, shutVars
<1>14. ASSUME NEW t \in Threads, Send(t) PROVE MadeInv'
  BY <1>14, <1>n DEF MadeInv, Send, agentVars, threadVars, shutVars
<1>15. ASSUME NEW t \in Threads, SendFails(t) PROVE MadeInv'
  BY <1>15, <1>n DEF MadeInv, SendFails, Leave, agentVars, shutVars
<1>16. ASSUME NEW t \in Threads, Cancelled(t) PROVE MadeInv'
  BY <1>16, <1>n DEF MadeInv, Cancelled, Leave, agentVars, shutVars
<1>17. ASSUME NEW t \in Threads, Remove(t) PROVE MadeInv'
  BY <1>17, <1>n DEF TypeOK, MadeInv, Remove, Delete, Removes, agentVars, shutVars
<1>18. ASSUME NEW t \in Threads, Signal(t) PROVE MadeInv'
  BY <1>18, <1>n DEF MadeInv, Signal, threadVars, shutVars
<1>19. ASSUME NEW t \in Threads, Drain(t) PROVE MadeInv'
  BY <1>19, <1>n DEF MadeInv, Drain, agentVars, threadVars, shutVars
<1>20. ASSUME NEW t \in Threads, Disconnect(t) PROVE MadeInv'
  <2>1. PICK c \in Agents : conn[c] = "up" /\ Close(c) /\ cb' = [cb EXCEPT ![t] = c]
    BY <1>20 DEF Disconnect, shutVars
  <2>2. c <= made
    BY <1>n, <2>1 DEF MadeInv, Agents
  <2>3. UNCHANGED <<made, listed, extra, ctl, ptr, holds, ref, del, outer>>
    BY <1>20 DEF Disconnect, agentVars, shutVars
  <2>4. \A u \in Threads : cb'[u] <= made
    BY <2>1, <2>2 DEF MadeInv
  <2>5. \A d \in Agents : d > made => conn'[d] = "none"
    BY <2>1, <2>2, <1>n DEF MadeInv, Close
  <2>6. QED
    BY <2>3, <2>4, <2>5 DEF MadeInv
<1>21. ASSUME NEW t \in Threads, Disconnected(t) PROVE MadeInv'
  BY <1>21, <1>n DEF MadeInv, Disconnected, agentVars, threadVars, shutVars
<1>22. ASSUME NEW t \in Threads, ConnectionClosed(t) PROVE MadeInv'
  BY <1>22, <1>n DEF TypeOK, MadeInv, ConnectionClosed, Delete, Resume, agentVars, shutVars
<1>23. ASSUME NEW t \in Threads, FreeController(t) PROVE MadeInv'
  BY <1>23, <1>n DEF MadeInv, FreeController, threadVars, shutVars
<1>24. ASSUME NEW t \in Threads, Told(t) PROVE MadeInv'
  BY <1>24, <1>n DEF TypeOK, MadeInv, Told, Resume, agentVars, shutVars
<1>25. ASSUME NEW t \in Threads, Message(t) PROVE MadeInv'
  BY <1>25, <1>n DEF MadeInv, Message, Take, agentVars, shutVars
<1>26. ASSUME NEW t \in Threads, MessageRefused(t) PROVE MadeInv'
  BY <1>26, <1>n DEF MadeInv, MessageRefused, Fails, agentVars, shutVars
<1>27. ASSUME NEW t \in Threads, Handled(t) PROVE MadeInv'
  BY <1>27, <1>n DEF TypeOK, MadeInv, Handled, Fails, agentVars, shutVars
<1>28. ASSUME NEW t \in Threads, TransportError(t) PROVE MadeInv'
  BY <1>28, <1>n DEF TypeOK, MadeInv, TransportError, Delete, agentVars, shutVars
<1>29. ASSUME NEW t \in Threads, PidLost(t) PROVE MadeInv'
  BY <1>29, <1>n DEF MadeInv, PidLost, agentVars, threadVars, shutVars
<1>30. ASSUME NEW t \in Threads, Done(t) PROVE MadeInv'
  BY <1>30, <1>n DEF MadeInv, Done, agentVars, shutVars
<1>31. ASSUME NEW c \in Agents, Gone(c) PROVE MadeInv'
  BY <1>31, <1>n DEF MadeInv, Gone, agentVars, threadVars, shutVars
<1>32. CASE StartShutdown
  BY <1>32, <1>n DEF MadeInv, StartShutdown, agentVars, threadVars, shutVars
<1>33. CASE WaitPending
  BY <1>33, <1>n DEF MadeInv, WaitPending, agentVars, threadVars, shutVars
<1>34. CASE Sweep
  <2>1. CASE Listed = {}
    BY <1>34, <1>n, <2>1 DEF MadeInv, Sweep, agentVars
  <2>2. CASE Listed # {}
    <3>1. PICK c \in Listed : Delete(Finalizer, c) /\ extra' = extra \ {c}
      BY <1>34, <2>2 DEF Sweep
    <3>2. c <= made
      BY DEF MadeInv, Listed
    <3>3. QED
      BY <1>34, <1>n, <3>1, <3>2 DEF TypeOK, MadeInv, Sweep, Delete, agentVars
  <2>3. QED
    BY <2>1, <2>2
<1>35. CASE CloseAll
  BY <1>35, <1>n DEF MadeInv, CloseAll, CloseUp, agentVars, threadVars, shutVars
<1>36. ASSUME NEW t \in Threads, Missed(t) PROVE MadeInv'
  BY <1>36, <1>n DEF MadeInv, Missed, agentVars, threadVars, shutVars
<1>37. ASSUME NEW t \in Threads, Make(t) PROVE MadeInv'
  <2>1. made' = made + 1 /\ made + 1 \in Agents
    BY <1>37, <1>n, AgentConstants DEF Make, Agents
  <2>2. \A x \in Nat : x <= made => x <= made + 1
    BY <1>n
  <2>3. \A c \in Agents : c > made + 1 => c > made /\ c # made + 1
    BY <1>n DEF Agents
  <2>4. /\ UNCHANGED <<listed, conn, holds, ref, del, cb, outer>>
        /\ ptr' = [ptr EXCEPT ![t] = made + 1] /\ extra' = extra \cup {made + 1}
    BY <1>37, <2>1 DEF Make
  <2>5. \A u \in Threads : ptr'[u] <= made + 1
    BY <1>n, <2>2, <2>4 DEF MadeInv
  <2>6. \A c \in Agents : c > made + 1 => ctl'[c] = ctl[c]
    BY <1>37, <2>1, <2>3 DEF Make
  <2>7. \A c \in extra' : c <= made + 1
    BY <1>n, <2>2, <2>4 DEF MadeInv, TypeOK, Agents
  <2>8. QED
    BY <1>n, <2>1, <2>2, <2>3, <2>4, <2>5, <2>6, <2>7 DEF MadeInv
<1>38. ASSUME NEW t \in Threads, Joined(t) PROVE MadeInv'
  <2>1. ptr[t] \in Agents
    BY <1>38, Ids DEF TypeOK, Joining, Joined
  <2>2. \A c \in Agents : c > made => c # ptr[t]
    BY <1>n, <2>1 DEF MadeInv, Agents
  <2>3. QED
    BY <1>38, <1>n, <2>1, <2>2 DEF TypeOK, MadeInv, Joined, agentVars, shutVars
<1>39. ASSUME NEW t \in Threads, JoinFails(t) PROVE MadeInv'
  BY <1>39, <1>n DEF TypeOK, MadeInv, JoinFails, agentVars
<1>40. QED
  BY <1>1, <1>2, <1>3, <1>4, <1>5, <1>6, <1>7, <1>8, <1>9, <1>10, <1>11, <1>12, <1>13, <1>14, <1>15, <1>16,
     <1>17, <1>18, <1>19, <1>20, <1>21, <1>22, <1>23, <1>24, <1>25, <1>26, <1>27, <1>28, <1>29, <1>30,
     <1>31, <1>32, <1>33, <1>34, <1>35, <1>36, <1>37, <1>38, <1>39
    DEF Next, ClientCall, Step, ClientStep, DeleteStep, CallbackStep

----------------------------------------------------------------------------
\* The steps of clients and of the transport that touch no list.
QuietActions(t) ==
  \/ EventReturns(t) \/ NotFound(t) \/ Checked(t) \/ Send(t) \/ Unload(t) \/ ReadList(t) \/ Grab(t)
  \/ Return(t) \/ SendFails(t) \/ Answered(t) \/ Cancelled(t) \/ LoadFound(t) \/ Command(t)
  \/ Complete(t) \/ Message(t) \/ MessageRefused(t) \/ Handled(t) \/ Done(t) \/ PidLost(t)
  \/ Missed(t)

\* What they have in common: nobody takes, deletes or closes anything.
Quiet(t) ==
  /\ UNCHANGED <<made, address, ctl, listed, conn, shutting, extra, contested, del, cb, outer>>
  /\ t # Finalizer /\ del[t] = 0 /\ pc[t] # "closed" /\ pc'[t] \notin Deletion
  /\ pc[t] \notin {"make", "joining"} /\ pc'[t] # "joining"
  /\ pc'[t] = "make" => shutting /\ listed = 0
  /\ t \in Clients /\ pc[t] = "idle" => ~shutting
  /\ \A u \in Threads \ {t} : pc'[u] = pc[u] /\ ptr'[u] = ptr[u]
  /\ \A u \in Threads : holds'[u] # 0 /\ u \notin stray' =>
       holds'[u] = listed \/ (holds'[u] = holds[u] /\ u \notin stray)
  /\ \A u \in Threads : ref'[u] # 0 => ref'[u] = ref[u] \/ Open(ref'[u])

\* Steps that leave the connections and the references alone.
LEMMA QuietStep ==
  ASSUME TypeOK, PcInv, NEW t \in Threads, QuietActions(t)
  PROVE  Quiet(t)
<1>1. CASE EventReturns(t)
  BY <1>1 DEF PcInv, PcOf, Quiet, Deletion, EventReturns, GoTo, agentVars, threadVars, shutVars
<1>2. CASE NotFound(t)
  BY <1>2 DEF PcInv, PcOf, Quiet, Deletion, NotFound, GoTo, agentVars, threadVars, shutVars
<1>3. CASE Checked(t)
  BY <1>3, AgentConstants DEF PcInv, PcOf, Quiet, Deletion, Checked, Calls, GoTo, agentVars, threadVars, shutVars
<1>4. CASE Send(t)
  BY <1>4 DEF PcInv, PcOf, Quiet, Deletion, Send, GoTo, agentVars, threadVars, shutVars
<1>5. CASE Unload(t)
  BY <1>5, AgentConstants DEF PcInv, PcOf, Quiet, Deletion, Unload, Calls, GoTo, agentVars, shutVars
<1>6. CASE ReadList(t)
  BY <1>6 DEF PcInv, PcOf, Quiet, Deletion, ReadList, GoTo, agentVars, shutVars
<1>7. CASE Grab(t)
  BY <1>7 DEF PcInv, PcOf, Quiet, Deletion, Grab, GoTo, agentVars, shutVars
<1>8. CASE Return(t)
  BY <1>8 DEF TypeOK, PcInv, PcOf, Quiet, Deletion, Return, Leave, GoTo, agentVars, shutVars
<1>9. CASE SendFails(t)
  BY <1>9 DEF TypeOK, PcInv, PcOf, Quiet, Deletion, SendFails, Leave, GoTo, agentVars, shutVars
<1>10. CASE Answered(t)
  BY <1>10 DEF TypeOK, PcInv, PcOf, Quiet, Deletion, Answered, Leave, GoTo, agentVars, shutVars
<1>11. CASE Cancelled(t)
  BY <1>11 DEF TypeOK, PcInv, PcOf, Quiet, Deletion, Cancelled, Leave, GoTo, agentVars, shutVars
<1>12. CASE LoadFound(t)
  BY <1>12, AgentConstants DEF PcInv, PcOf, Quiet, Deletion, LoadFound, Take, Calls, GoTo, agentVars, shutVars
<1>13. CASE Command(t)
  BY <1>13 DEF PcInv, PcOf, Quiet, Deletion, Command, Take, GoTo, agentVars, shutVars
<1>14. CASE Complete(t)
  BY <1>14, AgentConstants DEF PcInv, PcOf, Quiet, Deletion, Complete, GoTo, agentVars, shutVars
<1>15. CASE Message(t)
  BY <1>15 DEF PcInv, PcOf, Quiet, Deletion, Message, Take, GoTo, agentVars, shutVars
<1>16. CASE MessageRefused(t)
  BY <1>16 DEF PcInv, PcOf, Quiet, Deletion, MessageRefused, Fails, GoTo, agentVars, shutVars
<1>17. CASE Handled(t)
  BY <1>17 DEF TypeOK, PcInv, PcOf, Quiet, Deletion, Handled, Fails, GoTo, agentVars, shutVars
<1>18. CASE Done(t)
  BY <1>18 DEF PcInv, PcOf, Quiet, Deletion, Done, GoTo, agentVars, shutVars
<1>19. CASE PidLost(t)
  BY <1>19, AgentConstants DEF TypeOK, PcInv, PcOf, Quiet, Deletion, PidLost, GoTo, agentVars, threadVars, shutVars
<1>20. CASE Missed(t)
  BY <1>20 DEF PcInv, PcOf, Quiet, Deletion, Missed, Listed, GoTo, agentVars, threadVars, shutVars
<1>21. QED
  BY <1>1, <1>2, <1>3, <1>4, <1>5, <1>6, <1>7, <1>8, <1>9, <1>10, <1>11, <1>12, <1>13, <1>14, <1>15, <1>16,
     <1>17, <1>18, <1>19, <1>20 DEF QuietActions

\* The state of a controller is that of its deletion.
LEMMA CtlStep ==
  ASSUME TypeOK, PcInv, MadeInv, Once, CtlInv, Unlocked, Joining, Alone, Next
  PROVE  CtlInv'
<1>f. Finalizer \in Threads
  BY DEF Threads
<1>1. ASSUME NEW t \in Threads, Quiet(t) PROVE CtlInv'
  BY <1>1 DEF CtlInv, Quiet
<1>2. ASSUME NEW t \in Threads, Load(t) PROVE CtlInv'
  BY <1>2 DEF TypeOK, MadeInv, CtlInv, Load, HasLock, Calls, GoTo, shutVars
<1>3. ASSUME NEW t \in Threads, LoadFails(t) PROVE CtlInv'
  BY <1>3 DEF CtlInv, LoadFails, HasLock, Calls, GoTo, agentVars, threadVars, shutVars
<1>4. ASSUME NEW t \in Threads, Remove(t) PROVE CtlInv'
  BY <1>4 DEF TypeOK, Once, CtlInv, Remove, Delete, Removes, GoTo, agentVars, shutVars
<1>5. ASSUME NEW t \in Threads, Signal(t) PROVE CtlInv'
  BY <1>5, Ids DEF TypeOK, Once, CtlInv, Signal, GoTo, threadVars, shutVars
<1>6. ASSUME NEW t \in Threads, Drain(t) PROVE CtlInv'
  BY <1>6 DEF CtlInv, Drain, GoTo, agentVars, threadVars, shutVars
<1>7. ASSUME NEW t \in Threads, Disconnect(t) PROVE CtlInv'
  BY <1>7 DEF CtlInv, Disconnect, GoTo, agentVars, shutVars
<1>8. ASSUME NEW t \in Threads, Disconnected(t) PROVE CtlInv'
  BY <1>8 DEF CtlInv, Disconnected, GoTo, agentVars, threadVars, shutVars
<1>9. ASSUME NEW t \in Threads, ConnectionClosed(t) PROVE CtlInv'
  BY <1>9 DEF TypeOK, Once, CtlInv, ConnectionClosed, Delete, Resume, GoTo, agentVars, shutVars
<1>10. ASSUME NEW t \in Threads, FreeController(t) PROVE CtlInv'
  BY <1>10, Ids DEF TypeOK, Once, CtlInv, FreeController, GoTo, threadVars, shutVars
<1>11. ASSUME NEW t \in Threads, Told(t) PROVE CtlInv'
  BY <1>11 DEF TypeOK, Once, CtlInv, Told, Resume, GoTo, agentVars, shutVars
<1>12. ASSUME NEW t \in Threads, TransportError(t) PROVE CtlInv'
  BY <1>12 DEF TypeOK, Once, CtlInv, TransportError, Delete, GoTo, agentVars, shutVars
<1>13. ASSUME NEW c \in Agents, Gone(c) PROVE CtlInv'
  BY <1>13 DEF CtlInv, Gone, agentVars, threadVars, shutVars
<1>14. CASE StartShutdown
  BY <1>14 DEF CtlInv, StartShutdown, GoTo, agentVars, threadVars, shutVars
<1>15. CASE WaitPending
  BY <1>15 DEF CtlInv, WaitPending, GoTo, agentVars, threadVars, shutVars
<1>16. CASE Sweep
  <2>1. CASE Listed = {}
    BY <1>16, <2>1 DEF TypeOK, CtlInv, Sweep, GoTo, agentVars
  <2>2. CASE Listed # {}
    <3>1. PICK c \in Listed : Delete(Finalizer, c)
      BY <1>16, <2>2 DEF Sweep
    <3>2. ctl[c] = "live" \/ c \in contested
      BY <3>1 DEF Listed, Once, Alone
    <3>3. QED
      BY <1>16, <3>1, <3>2 DEF TypeOK, CtlInv, Sweep, Delete, GoTo, agentVars
  <2>3. QED
    BY <2>1, <2>2
<1>17. CASE CloseAll
  BY <1>17 DEF CtlInv, CloseAll, GoTo, agentVars, threadVars, shutVars
<1>18. ASSUME NEW t \in Threads, Make(t) PROVE CtlInv'
  <2>1. made + 1 \in 0..MaxAgents /\ made \in Nat
    BY <1>18, AgentConstants DEF Make, TypeOK
  <2>2. \A x \in Nat : x <= made => x # made + 1
    BY <2>1
  <2>3. /\ listed # made + 1
        /\ \A u \in Threads : del[u] # made + 1 /\ outer[u] # made + 1 /\ holds[u] # made + 1
    BY <2>1, <2>2, AgentConstants DEF MadeInv, TypeOK
  <2>4. ctl' = [ctl EXCEPT ![made + 1] = "live"]
    BY <1>18 DEF Make
  <2>5. QED
    BY <1>18, <2>3, <2>4, Ids DEF TypeOK, CtlInv, Make, GoTo
<1>19. ASSUME NEW t \in Threads, Joined(t) PROVE CtlInv'
  BY <1>19 DEF CtlInv, Joined, GoTo, agentVars, shutVars
<1>20. ASSUME NEW t \in Threads, JoinFails(t) PROVE CtlInv'
  <2>1. contested \subseteq contested'
    BY <1>20 DEF JoinFails
  <2>2. ctl[ptr[t]] = "live"
    BY <1>20 DEF Joining, JoinFails
  <2>3. QED
    BY <1>20, <2>1, <2>2 DEF TypeOK, CtlInv, JoinFails, GoTo, agentVars
<1>21. QED
  BY <1>1, <1>2, <1>3, <1>4, <1>5, <1>6, <1>7, <1>8, <1>9, <1>10, <1>11, <1>12, <1>13, <1>14, <1>15, <1>16,
     <1>17, <1>18, <1>19, <1>20, QuietStep
    DEF Next, ClientCall, Step, ClientStep, DeleteStep, CallbackStep, QuietActions

\* Who takes a controller takes it from the list, so it is nobody else's.
LEMMA OnceStep ==
  ASSUME TypeOK, PcInv, MadeInv, Once, CtlInv, Unlocked, Joining, SweepsAlone, Next
  PROVE  Once'
<1>f. Finalizer \in Threads
  BY DEF Threads
<1>1. ASSUME NEW t \in Threads, Quiet(t) PROVE Once'
  BY <1>1 DEF Once, Quiet
<1>2. ASSUME NEW t \in Threads, Load(t) PROVE Once'
  <2>1. made + 1 \in 0..MaxAgents /\ made \in Nat
    BY <1>2, AgentConstants DEF Load, TypeOK
  <2>2. \A x \in Nat : x <= made => x # made + 1
    BY <2>1
  <2>3. \A u \in Threads : del[u] # made + 1 /\ outer[u] # made + 1 /\ holds[u] # made + 1
    BY <2>1, <2>2 DEF MadeInv
  <2>4. QED
    BY <1>2, <2>1, <2>3, Ids DEF TypeOK, Once, Load, HasLock, Calls, GoTo, agentVars, threadVars
<1>3. ASSUME NEW t \in Threads, LoadFails(t) PROVE Once'
  BY <1>3 DEF Once, LoadFails, agentVars, threadVars
<1>4. ASSUME NEW t \in Threads, Remove(t) PROVE Once'
  BY <1>4 DEF TypeOK, Once, Remove, Delete, Removes, agentVars
<1>5. ASSUME NEW t \in Threads, Signal(t) PROVE Once'
  BY <1>5 DEF Once, Signal, threadVars
<1>6. ASSUME NEW t \in Threads, Drain(t) PROVE Once'
  BY <1>6 DEF Once, Drain, agentVars, threadVars
<1>7. ASSUME NEW t \in Threads, Disconnect(t) PROVE Once'
  BY <1>7 DEF Once, Disconnect, agentVars
<1>8. ASSUME NEW t \in Threads, Disconnected(t) PROVE Once'
  BY <1>8 DEF Once, Disconnected, agentVars, threadVars
<1>9. ASSUME NEW t \in Threads, ConnectionClosed(t) PROVE Once'
  <2>1. pc[t] = "closed" /\ outer[t] = 0
    BY <1>9 DEF ConnectionClosed, PcInv, PcOf
  <2>2. CASE shutting \/ listed = 0
    <3>1. UNCHANGED <<ctl, listed>> /\ outer' = [outer EXCEPT ![t] = 0] /\ del' = [del EXCEPT ![t] = del[t]]
      BY <1>9, <2>2 DEF ConnectionClosed, Resume, agentVars
    <3>2. del' = del /\ outer' = outer
      BY <2>1, <3>1 DEF TypeOK
    <3>3. QED
      BY <3>1, <3>2 DEF Once
  <2>3. CASE ~(shutting \/ listed = 0)
    <3>1. /\ listed' = 0 /\ ctl' = ctl
          /\ outer' = [outer EXCEPT ![t] = del[t]] /\ del' = [del EXCEPT ![t] = listed]
      BY <1>9, <2>3 DEF ConnectionClosed, Delete, agentVars
    <3>2. del[t] # 0 => ctl[del[t]] = "ending"
      BY <2>1 DEF CtlInv
    <3>3. QED
      BY <2>1, <2>3, <3>1, <3>2 DEF TypeOK, Once
  <2>4. QED
    BY <2>2, <2>3
<1>10. ASSUME NEW t \in Threads, FreeController(t) PROVE Once'
  BY <1>10 DEF Once, FreeController, threadVars
<1>11. ASSUME NEW t \in Threads, Told(t) PROVE Once'
  BY <1>11 DEF TypeOK, Once, Told, Resume, agentVars
<1>12. ASSUME NEW t \in Threads, TransportError(t) PROVE Once'
  BY <1>12 DEF TypeOK, Once, TransportError, Delete, agentVars
<1>13. ASSUME NEW c \in Agents, Gone(c) PROVE Once'
  BY <1>13 DEF Once, Gone, agentVars, threadVars
<1>14. CASE StartShutdown
  BY <1>14 DEF Once, StartShutdown, agentVars, threadVars
<1>15. CASE WaitPending
  BY <1>15 DEF Once, WaitPending, agentVars, threadVars
<1>16. CASE Sweep
  <2>1. CASE Listed = {}
    BY <1>16, <2>1 DEF Once, Sweep, agentVars
  <2>2. CASE Listed # {}
    <3>1. PICK c \in Listed : Delete(Finalizer, c)
      BY <1>16, <2>2 DEF Sweep
    <3>2. \A u \in Threads : del[u] = 0 /\ outer[u] = 0
      BY <1>16, AgentConstants DEF Sweep, SweepsAlone, PcInv, PcOf, Deletion
    <3>3. c # 0
      BY Ids DEF Listed, TypeOK
    <3>4. QED
      BY <1>16, <3>1, <3>2, <3>3 DEF TypeOK, Once, Sweep, Delete, agentVars
  <2>3. QED
    BY <2>1, <2>2
<1>17. CASE CloseAll
  BY <1>17 DEF Once, CloseAll, agentVars, threadVars
<1>18. ASSUME NEW t \in Threads, Make(t) PROVE Once'
  <2>1. made + 1 \in 0..MaxAgents /\ made \in Nat
    BY <1>18, AgentConstants DEF Make, TypeOK
  <2>2. \A x \in Nat : x <= made => x # made + 1
    BY <2>1
  <2>3. /\ listed # made + 1
        /\ \A u \in Threads : del[u] # made + 1 /\ outer[u] # made + 1 /\ holds[u] # made + 1
    BY <2>1, <2>2, AgentConstants DEF MadeInv, TypeOK
  <2>4. ctl' = [ctl EXCEPT ![made + 1] = "live"]
    BY <1>18 DEF Make
  <2>5. QED
    BY <1>18, <2>3, <2>4, Ids DEF TypeOK, Once, Make
<1>19. ASSUME NEW t \in Threads, Joined(t) PROVE Once'
  BY <1>19 DEF Once, Joined, agentVars
<1>20. ASSUME NEW t \in Threads, JoinFails(t) PROVE Once'
  <2>1. listed = 0
    BY <1>20 DEF Unlocked, JoinFails
  <2>2. \A u \in Threads : del[u] # ptr[t] /\ outer[u] # ptr[t]
    BY <1>20 DEF Joining, JoinFails
  <2>3. QED
    BY <1>20, <2>1, <2>2 DEF TypeOK, Once, JoinFails, agentVars
<1>21. QED
  BY <1>1, <1>2, <1>3, <1>4, <1>5, <1>6, <1>7, <1>8, <1>9, <1>10, <1>11, <1>12, <1>13, <1>14, <1>15, <1>16,
     <1>17, <1>18, <1>19, <1>20, QuietStep
    DEF Next, ClientCall, Step, ClientStep, DeleteStep, CallbackStep, QuietActions

\* A controller is found in the list only, so nobody comes after the wait.
LEMMA DrainedStep ==
  ASSUME TypeOK, PcInv, MadeInv, Once, CtlInv, Drained, Joining, Next
  PROVE  Drained'
<1>f. Finalizer \in Threads
  BY DEF Threads
<1>1. ASSUME NEW t \in Threads, Quiet(t) PROVE Drained'
  BY <1>1 DEF Once, Drained, Quiet
<1>2. ASSUME NEW t \in Threads, Load(t) PROVE Drained'
  BY <1>2 DEF TypeOK, MadeInv, Drained, Load, GoTo
<1>3. ASSUME NEW t \in Threads, LoadFails(t) PROVE Drained'
  BY <1>3 DEF Drained, LoadFails, GoTo, threadVars
<1>4. ASSUME NEW t \in Threads, Remove(t) PROVE Drained'
  BY <1>4 DEF TypeOK, Drained, Remove, Delete, GoTo
<1>5. ASSUME NEW t \in Threads, Signal(t) PROVE Drained'
  BY <1>5 DEF Drained, Signal, GoTo, threadVars
<1>6. ASSUME NEW t \in Threads, Drain(t) PROVE Drained'
  BY <1>6 DEF Drained, Drain, GoTo, threadVars
<1>7. ASSUME NEW t \in Threads, Disconnect(t) PROVE Drained'
  BY <1>7 DEF Drained, Disconnect, GoTo
<1>8. ASSUME NEW t \in Threads, Disconnected(t) PROVE Drained'
  BY <1>8 DEF Drained, Disconnected, GoTo, threadVars
<1>9. ASSUME NEW t \in Threads, ConnectionClosed(t) PROVE Drained'
  BY <1>9 DEF TypeOK, Drained, ConnectionClosed, Delete, Resume, GoTo
<1>10. ASSUME NEW t \in Threads, FreeController(t) PROVE Drained'
  BY <1>10 DEF Drained, FreeController, GoTo, threadVars
<1>11. ASSUME NEW t \in Threads, Told(t) PROVE Drained'
  BY <1>11 DEF TypeOK, Drained, Told, Resume, GoTo
<1>12. ASSUME NEW t \in Threads, TransportError(t) PROVE Drained'
  BY <1>12 DEF TypeOK, PcInv, PcOf, Drained, Deletion, TransportError, Delete, GoTo
<1>13. ASSUME NEW c \in Agents, Gone(c) PROVE Drained'
  BY <1>13 DEF Drained, Gone, threadVars
<1>14. CASE StartShutdown
  BY <1>14 DEF Drained, StartShutdown, GoTo, threadVars
<1>15. CASE WaitPending
  BY <1>15 DEF Drained, WaitPending, GoTo, threadVars
<1>16. CASE Sweep
  BY <1>16 DEF TypeOK, Drained, Sweep, Delete, GoTo
<1>17. CASE CloseAll
  BY <1>17 DEF Drained, CloseAll, GoTo, threadVars
<1>18. ASSUME NEW t \in Threads, Make(t) PROVE Drained'
  BY <1>18 DEF Drained, Make, GoTo
<1>19. ASSUME NEW t \in Threads, Joined(t) PROVE Drained'
  BY <1>19 DEF TypeOK, Joining, Drained, Joined, GoTo
<1>20. ASSUME NEW t \in Threads, JoinFails(t) PROVE Drained'
  BY <1>20 DEF TypeOK, Drained, JoinFails, GoTo
<1>21. QED
  BY <1>1, <1>2, <1>3, <1>4, <1>5, <1>6, <1>7, <1>8, <1>9, <1>10, <1>11, <1>12, <1>13, <1>14, <1>15, <1>16,
     <1>17, <1>18, <1>19, <1>20, QuietStep
    DEF Next, ClientCall, Step, ClientStep, DeleteStep, CallbackStep, QuietActions

\* Every step keeps HeldIsAlive: a controller in use is not deleted.
LEMMA HeldStep ==
  ASSUME TypeOK, PcInv, MadeInv, Once, CtlInv, Drained, HeldIsAlive, Joining, Next
  PROVE  HeldIsAlive'
<1>f. Finalizer \in Threads
  BY DEF Threads
<1>1. ASSUME NEW t \in Threads, Quiet(t) PROVE HeldIsAlive'
  BY <1>1 DEF Once, HeldIsAlive, Quiet
<1>2. ASSUME NEW t \in Threads, Load(t) PROVE HeldIsAlive'
  <2>1. made + 1 \in 0..MaxAgents /\ made \in Nat
    BY <1>2, AgentConstants DEF Load, TypeOK
  <2>2. \A x \in Nat : x <= made => x # made + 1
    BY <2>1
  <2>3. \A u \in Threads : del[u] # made + 1 /\ outer[u] # made + 1 /\ holds[u] # made + 1
    BY <2>1, <2>2 DEF MadeInv
  <2>4. QED
    BY <1>2, <2>1, <2>3, Ids DEF TypeOK, HeldIsAlive, Load, HasLock, Calls, GoTo, agentVars, threadVars
<1>3. ASSUME NEW t \in Threads, LoadFails(t) PROVE HeldIsAlive'
  BY <1>3 DEF HeldIsAlive, LoadFails, agentVars, threadVars
<1>4. ASSUME NEW t \in Threads, Remove(t) PROVE HeldIsAlive'
  BY <1>4 DEF HeldIsAlive, Remove, agentVars
<1>5. ASSUME NEW t \in Threads, Signal(t) PROVE HeldIsAlive'
  BY <1>5 DEF HeldIsAlive, Signal, threadVars
<1>6. ASSUME NEW t \in Threads, Drain(t) PROVE HeldIsAlive'
  BY <1>6 DEF HeldIsAlive, Drain, agentVars, threadVars
<1>7. ASSUME NEW t \in Threads, Disconnect(t) PROVE HeldIsAlive'
  BY <1>7 DEF HeldIsAlive, Disconnect, agentVars
<1>8. ASSUME NEW t \in Threads, Disconnected(t) PROVE HeldIsAlive'
  BY <1>8 DEF HeldIsAlive, Disconnected, agentVars, threadVars
<1>9. ASSUME NEW t \in Threads, ConnectionClosed(t) PROVE HeldIsAlive'
  BY <1>9 DEF HeldIsAlive, ConnectionClosed, agentVars
<1>10. ASSUME NEW t \in Threads, FreeController(t) PROVE HeldIsAlive'
  BY <1>10 DEF Drained, HeldIsAlive, FreeController, threadVars
<1>11. ASSUME NEW t \in Threads, Told(t) PROVE HeldIsAlive'
  BY <1>11 DEF HeldIsAlive, Told, agentVars
<1>12. ASSUME NEW t \in Threads, TransportError(t) PROVE HeldIsAlive'
  BY <1>12 DEF HeldIsAlive, TransportError, agentVars
<1>13. ASSUME NEW c \in Agents, Gone(c) PROVE HeldIsAlive'
  BY <1>13 DEF HeldIsAlive, Gone, agentVars, threadVars
<1>14. CASE StartShutdown
  BY <1>14 DEF HeldIsAlive, StartShutdown, agentVars, threadVars
<1>15. CASE WaitPending
  BY <1>15 DEF HeldIsAlive, WaitPending, agentVars, threadVars
<1>16. CASE Sweep
  BY <1>16 DEF HeldIsAlive, Sweep, agentVars
<1>17. CASE CloseAll
  BY <1>17 DEF HeldIsAlive, CloseAll, agentVars, threadVars
<1>18. ASSUME NEW t \in Threads, Make(t) PROVE HeldIsAlive'
  <2>1. made + 1 \in 0..MaxAgents /\ made \in Nat
    BY <1>18, AgentConstants DEF Make, TypeOK
  <2>2. \A x \in Nat : x <= made => x # made + 1
    BY <2>1
  <2>3. /\ listed # made + 1
        /\ \A u \in Threads : del[u] # made + 1 /\ outer[u] # made + 1 /\ holds[u] # made + 1
    BY <2>1, <2>2, AgentConstants DEF MadeInv, TypeOK
  <2>4. ctl' = [ctl EXCEPT ![made + 1] = "live"]
    BY <1>18 DEF Make
  <2>5. QED
    BY <1>18, <2>3, <2>4, Ids DEF TypeOK, HeldIsAlive, Make
<1>19. ASSUME NEW t \in Threads, Joined(t) PROVE HeldIsAlive'
  BY <1>19 DEF TypeOK, Joining, HeldIsAlive, Joined, agentVars
<1>20. ASSUME NEW t \in Threads, JoinFails(t) PROVE HeldIsAlive'
  BY <1>20 DEF HeldIsAlive, JoinFails, agentVars
<1>21. QED
  BY <1>1, <1>2, <1>3, <1>4, <1>5, <1>6, <1>7, <1>8, <1>9, <1>10, <1>11, <1>12, <1>13, <1>14, <1>15, <1>16,
     <1>17, <1>18, <1>19, <1>20, QuietStep
    DEF Next, ClientCall, Step, ClientStep, DeleteStep, CallbackStep, QuietActions

\* A new connection comes only when the last one is gone.
LEMMA OneStep ==
  ASSUME TypeOK, PcInv, OneConnection, Next
  PROVE  OneConnection'
<1>f. Finalizer \in Threads
  BY DEF Threads
<1>1. ASSUME NEW t \in Threads, Quiet(t) PROVE OneConnection'
  BY <1>1 DEF OneConnection, Open, Quiet
<1>2. ASSUME NEW t \in Threads, Load(t) PROVE OneConnection'
  BY <1>2 DEF OneConnection, Open, CanConnect, Load
<1>3. ASSUME NEW t \in Threads, LoadFails(t) PROVE OneConnection'
  BY <1>3 DEF OneConnection, Open, LoadFails, CloseUp
<1>4. ASSUME NEW t \in Threads, Remove(t) PROVE OneConnection'
  BY <1>4 DEF OneConnection, Open, Remove
<1>5. ASSUME NEW t \in Threads, Signal(t) PROVE OneConnection'
  BY <1>5 DEF OneConnection, Open, Signal
<1>6. ASSUME NEW t \in Threads, Drain(t) PROVE OneConnection'
  BY <1>6 DEF OneConnection, Open, Drain
<1>7. ASSUME NEW t \in Threads, Disconnect(t) PROVE OneConnection'
  BY <1>7 DEF OneConnection, Open, Disconnect, Close
<1>8. ASSUME NEW t \in Threads, Disconnected(t) PROVE OneConnection'
  BY <1>8 DEF OneConnection, Open, Disconnected
<1>9. ASSUME NEW t \in Threads, ConnectionClosed(t) PROVE OneConnection'
  BY <1>9 DEF OneConnection, Open, ConnectionClosed
<1>10. ASSUME NEW t \in Threads, FreeController(t) PROVE OneConnection'
  BY <1>10 DEF OneConnection, Open, FreeController
<1>11. ASSUME NEW t \in Threads, Told(t) PROVE OneConnection'
  BY <1>11 DEF OneConnection, Open, Told
<1>12. ASSUME NEW t \in Threads, TransportError(t) PROVE OneConnection'
  BY <1>12 DEF OneConnection, Open, TransportError
<1>13. ASSUME NEW c \in Agents, Gone(c) PROVE OneConnection'
  BY <1>13 DEF OneConnection, Open, Gone
<1>14. CASE StartShutdown
  BY <1>14 DEF OneConnection, Open, StartShutdown
<1>15. CASE WaitPending
  BY <1>15 DEF OneConnection, Open, WaitPending
<1>16. CASE Sweep
  BY <1>16 DEF OneConnection, Open, Sweep
<1>17. CASE CloseAll
  BY <1>17 DEF OneConnection, Open, CloseAll, CloseUp
<1>18. ASSUME NEW t \in Threads, Make(t) PROVE OneConnection'
  BY <1>18 DEF OneConnection, Open, Make
<1>19. ASSUME NEW t \in Threads, Joined(t) PROVE OneConnection'
  BY <1>19 DEF OneConnection, Open, CanConnect, Joined
<1>20. ASSUME NEW t \in Threads, JoinFails(t) PROVE OneConnection'
  BY <1>20 DEF OneConnection, Open, JoinFails
<1>21. QED
  BY <1>1, <1>2, <1>3, <1>4, <1>5, <1>6, <1>7, <1>8, <1>9, <1>10, <1>11, <1>12, <1>13, <1>14, <1>15, <1>16,
     <1>17, <1>18, <1>19, <1>20, QuietStep
    DEF Next, ClientCall, Step, ClientStep, DeleteStep, CallbackStep, QuietActions

\* A connection that is referred to is not taken from the list.
LEMMA RefStep ==
  ASSUME TypeOK, PcInv, OneConnection, RefOpen, Next
  PROVE  RefOpen'
<1>f. Finalizer \in Threads
  BY DEF Threads
<1>1. ASSUME NEW t \in Threads, Quiet(t) PROVE RefOpen'
  BY <1>1 DEF RefOpen, Open, Quiet
<1>2. ASSUME NEW t \in Threads, Load(t) PROVE RefOpen'
  BY <1>2 DEF TypeOK, RefOpen, Open, CanConnect, Load
<1>3. ASSUME NEW t \in Threads, LoadFails(t) PROVE RefOpen'
  BY <1>3, Ids DEF TypeOK, RefOpen, Open, LoadFails, CloseUp, threadVars
<1>4. ASSUME NEW t \in Threads, Remove(t) PROVE RefOpen'
  BY <1>4 DEF RefOpen, Open, Remove
<1>5. ASSUME NEW t \in Threads, Signal(t) PROVE RefOpen'
  BY <1>5 DEF RefOpen, Open, Signal, threadVars
<1>6. ASSUME NEW t \in Threads, Drain(t) PROVE RefOpen'
  BY <1>6 DEF RefOpen, Open, Drain, threadVars
<1>7. ASSUME NEW t \in Threads, Disconnect(t) PROVE RefOpen'
  BY <1>7 DEF TypeOK, RefOpen, Open, Disconnect, Close
<1>8. ASSUME NEW t \in Threads, Disconnected(t) PROVE RefOpen'
  BY <1>8 DEF RefOpen, Open, Disconnected, threadVars
<1>9. ASSUME NEW t \in Threads, ConnectionClosed(t) PROVE RefOpen'
  BY <1>9 DEF TypeOK, RefOpen, Open, ConnectionClosed, Resume
<1>10. ASSUME NEW t \in Threads, FreeController(t) PROVE RefOpen'
  BY <1>10 DEF RefOpen, Open, FreeController, threadVars
<1>11. ASSUME NEW t \in Threads, Told(t) PROVE RefOpen'
  BY <1>11 DEF TypeOK, RefOpen, Open, Told, Resume
<1>12. ASSUME NEW t \in Threads, TransportError(t) PROVE RefOpen'
  BY <1>12 DEF RefOpen, Open, TransportError
<1>13. ASSUME NEW c \in Agents, Gone(c) PROVE RefOpen'
  BY <1>13 DEF RefOpen, Open, Gone, threadVars
<1>14. CASE StartShutdown
  BY <1>14 DEF RefOpen, Open, StartShutdown, threadVars
<1>15. CASE WaitPending
  BY <1>15 DEF RefOpen, Open, WaitPending, threadVars
<1>16. CASE Sweep
  BY <1>16 DEF RefOpen, Open, Sweep
<1>17. CASE CloseAll
  BY <1>17, Ids DEF TypeOK, RefOpen, Open, CloseAll, CloseUp, threadVars
<1>18. ASSUME NEW t \in Threads, Make(t) PROVE RefOpen'
  BY <1>18 DEF RefOpen, Open, Make
<1>19. ASSUME NEW t \in Threads, Joined(t) PROVE RefOpen'
  <2>1. \A u \in Threads : ref[u] = 0 /\ cb[u] = 0
    BY <1>19, Ids DEF TypeOK, RefOpen, Open, CanConnect, Joined
  <2>2. QED
    BY <1>19, <2>1 DEF RefOpen, Joined
<1>20. ASSUME NEW t \in Threads, JoinFails(t) PROVE RefOpen'
  BY <1>20 DEF RefOpen, Open, JoinFails
<1>21. QED
  BY <1>1, <1>2, <1>3, <1>4, <1>5, <1>6, <1>7, <1>8, <1>9, <1>10, <1>11, <1>12, <1>13, <1>14, <1>15, <1>16,
     <1>17, <1>18, <1>19, <1>20, QuietStep
    DEF Next, ClientCall, Step, ClientStep, DeleteStep, CallbackStep, QuietActions

\* Who closes the connection of the listed agent goes on to take it off.
LEMMA ListedStep ==
  ASSUME TypeOK, PcInv, MadeInv, ShutInv, Once, OneConnection, RefOpen, ListedUp, Unlocked, Next
  PROVE  ListedUp'
<1>f. Finalizer \in Threads
  BY DEF Threads
<1>1. ASSUME NEW t \in Threads, Quiet(t) PROVE ListedUp'
  BY <1>1 DEF ListedUp, Quiet
<1>2. ASSUME NEW t \in Threads, Load(t) PROVE ListedUp'
  <2>1. made + 1 \in Agents /\ listed' = made + 1
    BY <1>2, AgentConstants DEF Load, TypeOK, Agents, shutVars
  <2>2. QED
    BY <1>2, <2>1 DEF TypeOK, ListedUp, Load, shutVars
<1>3. ASSUME NEW t \in Threads, LoadFails(t) PROVE ListedUp'
  BY <1>3 DEF ListedUp, Unlocked, LoadFails, shutVars
<1>4. ASSUME NEW t \in Threads, Remove(t) PROVE ListedUp'
  BY <1>4 DEF TypeOK, ListedUp, Remove, Delete, GoTo, shutVars
<1>5. ASSUME NEW t \in Threads, Signal(t) PROVE ListedUp'
  BY <1>5 DEF ListedUp, Signal, GoTo, threadVars, shutVars
<1>6. ASSUME NEW t \in Threads, Drain(t) PROVE ListedUp'
  BY <1>6 DEF ListedUp, Drain, GoTo, threadVars, shutVars
<1>7. ASSUME NEW t \in Threads, Disconnect(t) PROVE ListedUp'
  BY <1>7 DEF TypeOK, ListedUp, Disconnect, Close, GoTo, shutVars
<1>8. ASSUME NEW t \in Threads, Disconnected(t) PROVE ListedUp'
  BY <1>8 DEF ListedUp, Disconnected, GoTo, threadVars, shutVars
<1>9. ASSUME NEW t \in Threads, ConnectionClosed(t) PROVE ListedUp'
  BY <1>9 DEF ListedUp, ConnectionClosed, Delete, shutVars
<1>10. ASSUME NEW t \in Threads, FreeController(t) PROVE ListedUp'
  BY <1>10 DEF ListedUp, FreeController, GoTo, threadVars, shutVars
<1>11. ASSUME NEW t \in Threads, Told(t) PROVE ListedUp'
  BY <1>11 DEF TypeOK, ListedUp, Told, Resume, GoTo, shutVars
<1>12. ASSUME NEW t \in Threads, TransportError(t) PROVE ListedUp'
  BY <1>12 DEF ListedUp, TransportError, Delete, shutVars
<1>13. ASSUME NEW c \in Agents, Gone(c) PROVE ListedUp'
  BY <1>13 DEF ListedUp, Gone, threadVars, shutVars
<1>14. CASE StartShutdown
  BY <1>14 DEF ListedUp, StartShutdown, shutVars
<1>15. CASE WaitPending
  BY <1>15 DEF ShutInv, ListedUp, WaitPending, shutVars
<1>16. CASE Sweep
  BY <1>16 DEF ShutInv, ListedUp, Sweep, shutVars
<1>17. CASE CloseAll
  BY <1>17 DEF ShutInv, ListedUp, CloseAll, shutVars
<1>18. ASSUME NEW t \in Threads, Make(t) PROVE ListedUp'
  BY <1>18 DEF Unlocked, ListedUp, Make
<1>19. ASSUME NEW t \in Threads, Joined(t) PROVE ListedUp'
  BY <1>19 DEF Unlocked, ListedUp, Joined, shutVars
<1>20. ASSUME NEW t \in Threads, JoinFails(t) PROVE ListedUp'
  BY <1>20 DEF Unlocked, ListedUp, JoinFails
<1>21. QED
  BY <1>1, <1>2, <1>3, <1>4, <1>5, <1>6, <1>7, <1>8, <1>9, <1>10, <1>11, <1>12, <1>13, <1>14, <1>15, <1>16,
     <1>17, <1>18, <1>19, <1>20, QuietStep
    DEF Next, ClientCall, Step, ClientStep, DeleteStep, CallbackStep, QuietActions

\* Who takes an agent off the list goes on to close its connection.
LEMMA UpStep ==
  ASSUME TypeOK, PcInv, MadeInv, Once, OneConnection, RefOpen, UpIsListed, Unlocked, Joining, Next
  PROVE  UpIsListed'
<1>f. Finalizer \in Threads
  BY DEF Threads
<1>1. ASSUME NEW t \in Threads, Quiet(t) PROVE UpIsListed'
  BY <1>1, Ids, <1>f DEF UpIsListed, Closing, TransportOff, Quiet
<1>2. ASSUME NEW t \in Threads, Load(t) PROVE UpIsListed'
  BY <1>2 DEF UpIsListed, Open, CanConnect, Load, shutVars
<1>3. ASSUME NEW t \in Threads, LoadFails(t) PROVE UpIsListed'
  BY <1>3 DEF UpIsListed, Closing, TransportOff, LoadFails, HasLock, Calls, CloseUp, GoTo, threadVars, shutVars
<1>4. ASSUME NEW t \in Threads, Remove(t) PROVE UpIsListed'
  BY <1>4, <1>f DEF TypeOK, UpIsListed, Closing, TransportOff, Remove, Delete, Removes, GoTo, shutVars
<1>5. ASSUME NEW t \in Threads, Signal(t) PROVE UpIsListed'
  BY <1>5 DEF UpIsListed, Closing, TransportOff, Signal, GoTo, threadVars, shutVars
<1>6. ASSUME NEW t \in Threads, Drain(t) PROVE UpIsListed'
  BY <1>6 DEF UpIsListed, Closing, TransportOff, Drain, GoTo, threadVars, shutVars
<1>7. ASSUME NEW t \in Threads, Disconnect(t) PROVE UpIsListed'
  BY <1>7 DEF TypeOK, OneConnection, UpIsListed, Open, Disconnect, Close, shutVars
<1>8. ASSUME NEW t \in Threads, Disconnected(t) PROVE UpIsListed'
  BY <1>8 DEF UpIsListed, TransportOff, Disconnected, GoTo, shutVars
<1>9. ASSUME NEW t \in Threads, ConnectionClosed(t) PROVE UpIsListed'
  BY <1>9, Ids DEF TypeOK, PcInv, PcOf, OneConnection, RefOpen, UpIsListed, Open, ConnectionClosed, shutVars
<1>10. ASSUME NEW t \in Threads, FreeController(t) PROVE UpIsListed'
  BY <1>10 DEF UpIsListed, Closing, TransportOff, FreeController, GoTo, threadVars, shutVars
<1>11. ASSUME NEW t \in Threads, Told(t) PROVE UpIsListed'
  BY <1>11, <1>f DEF TypeOK, UpIsListed, Closing, TransportOff, Told, Resume, GoTo, shutVars
<1>12. ASSUME NEW t \in Threads, TransportError(t) PROVE UpIsListed'
  BY <1>12, <1>f DEF TypeOK, UpIsListed, Closing, TransportOff, TransportError, Delete, GoTo, shutVars
<1>13. ASSUME NEW c \in Agents, Gone(c) PROVE UpIsListed'
  BY <1>13 DEF OneConnection, UpIsListed, Open, Gone, shutVars
<1>14. CASE StartShutdown
  BY <1>14 DEF UpIsListed, Closing, TransportOff, StartShutdown, GoTo, threadVars, shutVars
<1>15. CASE WaitPending
  BY <1>15 DEF UpIsListed, Closing, TransportOff, WaitPending, GoTo, threadVars, shutVars
<1>16. CASE Sweep
  <2>1. CASE Listed = {}
    BY <1>16, <2>1, <1>f DEF TypeOK, UpIsListed, TransportOff, Sweep, GoTo
  <2>2. CASE Listed # {}
    <3>1. PICK c \in Listed : Delete(Finalizer, c) /\ extra' = extra \ {c}
      BY <1>16, <2>2 DEF Sweep
    <3>2. Closing(Finalizer, c)' /\ c \notin {listed} \ {c} /\ contested' = contested /\ conn' = conn
      BY <1>16, <3>1, <1>f DEF TypeOK, Closing, Sweep, Delete, GoTo
    <3>3. c = listed \/ listed = 0
      BY <3>1 DEF Listed, Unlocked
    <3>4. \A u \in Threads, d \in Agents : Closing(u, d) => u # Finalizer
      BY <1>16 DEF Closing, Sweep
    <3>5. \A u \in Threads, d \in Agents : Closing(u, d) => Closing(u, d)'
      BY <1>16, <3>1, <3>4 DEF TypeOK, Closing, Sweep, Delete, GoTo
    <3>6. ~TransportOff
      BY <1>16 DEF TransportOff, Sweep
    <3>7. QED
      BY <3>1, <3>2, <3>3, <3>5, <3>6, <1>f, Ids DEF UpIsListed
  <2>3. QED
    BY <2>1, <2>2
<1>17. CASE CloseAll
  BY <1>17 DEF UpIsListed, CloseAll, CloseUp, shutVars
<1>18. ASSUME NEW t \in Threads, Make(t) PROVE UpIsListed'
  <2>1. contested \subseteq contested' /\ extra \subseteq extra'
    BY <1>18 DEF Make
  <2>2. QED
    BY <1>18, <2>1, <1>f DEF PcInv, PcOf, UpIsListed, Closing, TransportOff, Make, GoTo
<1>19. ASSUME NEW t \in Threads, Joined(t) PROVE UpIsListed'
  <2>1. ptr[t] \in extra \cup contested
    BY <1>19 DEF Joining, Joined
  <2>2. \A c \in Agents : conn'[c] = "up" => c = ptr[t]
    BY <1>19 DEF CanConnect, Open, Joined
  <2>3. QED
    BY <1>19, <2>1, <2>2 DEF UpIsListed, Joined, shutVars
<1>20. ASSUME NEW t \in Threads, JoinFails(t) PROVE UpIsListed'
  <2>1. /\ contested \subseteq contested'
        /\ \A c \in extra : c \in extra' \cup contested' \/ c = ptr[t]
    BY <1>20 DEF JoinFails
  <2>2. t # Finalizer /\ pc[t] = "joining" /\ pc' = [pc EXCEPT ![t] = "signal"]
        /\ del' = [del EXCEPT ![t] = ptr[t]] /\ UNCHANGED <<listed, conn>>
    BY <1>20 DEF PcInv, PcOf, Deletion, JoinFails, GoTo
  <2>3. TransportOff' = TransportOff
    BY <2>2, <1>f DEF TypeOK, TransportOff
  <2>4. \A c \in Agents : c = ptr[t] => Closing(t, c)'
    BY <2>2 DEF TypeOK, Closing
  <2>5. QED
    BY <2>1, <2>2, <2>3, <2>4 DEF TypeOK, UpIsListed, Closing
<1>21. QED
  BY <1>1, <1>2, <1>3, <1>4, <1>5, <1>6, <1>7, <1>8, <1>9, <1>10, <1>11, <1>12, <1>13, <1>14, <1>15, <1>16,
     <1>17, <1>18, <1>19, <1>20, QuietStep
    DEF Next, ClientCall, Step, ClientStep, DeleteStep, CallbackStep, QuietActions

\* Finalize raises the flag before it does anything else.
LEMMA ShutStep ==
  ASSUME TypeOK, PcInv, ShutInv, Next
  PROVE  ShutInv'
<1>f. Finalizer \in Threads
  BY DEF Threads
<1>1. ASSUME NEW t \in Threads, Quiet(t) PROVE ShutInv'
  BY <1>1 DEF ShutInv, Threads, Quiet
<1>2. ASSUME NEW t \in Threads, Load(t) PROVE ShutInv'
  BY AgentConstants, <1>2 DEF ShutInv, Load, HasLock, Calls, GoTo, shutVars
<1>3. ASSUME NEW t \in Threads, LoadFails(t) PROVE ShutInv'
  BY <1>3 DEF ShutInv, LoadFails, GoTo, shutVars
<1>4. ASSUME NEW t \in Threads, Remove(t) PROVE ShutInv'
  BY <1>4 DEF TypeOK, ShutInv, Threads, Remove, Delete, GoTo, shutVars
<1>5. ASSUME NEW t \in Threads, Signal(t) PROVE ShutInv'
  BY <1>5 DEF ShutInv, Signal, GoTo, shutVars
<1>6. ASSUME NEW t \in Threads, Drain(t) PROVE ShutInv'
  BY <1>6 DEF ShutInv, Drain, GoTo, shutVars
<1>7. ASSUME NEW t \in Threads, Disconnect(t) PROVE ShutInv'
  BY <1>7 DEF ShutInv, Disconnect, GoTo, shutVars
<1>8. ASSUME NEW t \in Threads, Disconnected(t) PROVE ShutInv'
  BY <1>8 DEF ShutInv, Disconnected, GoTo, shutVars
<1>9. ASSUME NEW t \in Threads, ConnectionClosed(t) PROVE ShutInv'
  BY <1>9 DEF TypeOK, ShutInv, Threads, ConnectionClosed, Delete, Resume, GoTo, shutVars
<1>10. ASSUME NEW t \in Threads, FreeController(t) PROVE ShutInv'
  BY <1>10 DEF ShutInv, FreeController, GoTo, shutVars
<1>11. ASSUME NEW t \in Threads, Told(t) PROVE ShutInv'
  BY <1>11 DEF TypeOK, ShutInv, Threads, Told, Resume, GoTo, shutVars
<1>12. ASSUME NEW t \in Threads, TransportError(t) PROVE ShutInv'
  BY <1>12 DEF TypeOK, ShutInv, Threads, TransportError, Delete, GoTo, shutVars
<1>13. ASSUME NEW c \in Agents, Gone(c) PROVE ShutInv'
  BY <1>13 DEF ShutInv, Gone, shutVars
<1>14. CASE StartShutdown
  BY <1>14 DEF ShutInv, StartShutdown, shutVars
<1>15. CASE WaitPending
  BY <1>15 DEF ShutInv, WaitPending, shutVars
<1>16. CASE Sweep
  BY <1>16 DEF ShutInv, Sweep, shutVars
<1>17. CASE CloseAll
  BY <1>17 DEF ShutInv, CloseAll, shutVars
<1>18. ASSUME NEW t \in Threads, Make(t) PROVE ShutInv'
  BY <1>18 DEF ShutInv, Make, GoTo, PcInv, PcOf
<1>19. ASSUME NEW t \in Threads, Joined(t) PROVE ShutInv'
  BY <1>19 DEF ShutInv, Joined, GoTo, PcInv, PcOf, shutVars
<1>20. ASSUME NEW t \in Threads, JoinFails(t) PROVE ShutInv'
  BY <1>20 DEF ShutInv, JoinFails, GoTo, PcInv, PcOf
<1>21. QED
  BY <1>1, <1>2, <1>3, <1>4, <1>5, <1>6, <1>7, <1>8, <1>9, <1>10, <1>11, <1>12, <1>13, <1>14, <1>15, <1>16,
     <1>17, <1>18, <1>19, <1>20, QuietStep
    DEF Next, ClientCall, Step, ClientStep, DeleteStep, CallbackStep, QuietActions

\* The steps of a deletion: nobody takes a controller, makes one or puts one into the list.
Ends(t) ==
  /\ UNCHANGED <<shutVars, listed, ptr>>
  /\ pc[t] \in Deletion /\ pc'[t] \notin {"make", "joining"}
  /\ \A u \in Threads \ {t} : pc'[u] = pc[u]
  /\ \A u \in Threads : del'[u] \in {0, del[u], outer[u]} /\ outer'[u] \in {0, outer[u]}
  /\ \A c \in Agents : c # del[t] => ctl'[c] = ctl[c]

\* The steps that are like that.
LEMMA EndsStep ==
  ASSUME TypeOK, PcInv, NEW t \in Threads,
         \/ Signal(t) \/ Drain(t) \/ Disconnect(t) \/ Disconnected(t) \/ FreeController(t) \/ Told(t)
         \/ (ConnectionClosed(t) /\ shutting)
  PROVE  Ends(t)
<1>1. CASE Signal(t)
  BY <1>1 DEF TypeOK, Ends, Deletion, Signal, GoTo, threadVars
<1>2. CASE Drain(t)
  BY <1>2 DEF TypeOK, Ends, Deletion, Drain, GoTo, agentVars, threadVars
<1>3. CASE Disconnect(t)
  <2>1. pc[t] \in Deletion
    BY <1>3 DEF Deletion, Disconnect
  <2>2. QED
    BY <1>3, <2>1 DEF TypeOK, Ends, Disconnect, GoTo, agentVars
<1>4. CASE Disconnected(t)
  BY <1>4 DEF TypeOK, Ends, Deletion, Disconnected, GoTo, agentVars, threadVars
<1>5. CASE FreeController(t)
  BY <1>5 DEF TypeOK, Ends, Deletion, FreeController, GoTo, threadVars
<1>6. CASE Told(t)
  BY <1>6 DEF TypeOK, Ends, Deletion, Told, Resume, GoTo, agentVars
<1>7. CASE ConnectionClosed(t) /\ shutting
  BY <1>7 DEF TypeOK, Ends, Deletion, ConnectionClosed, Resume, GoTo, agentVars
<1>8. QED
  BY <1>1, <1>2, <1>3, <1>4, <1>5, <1>6, <1>7

\* Outside of shutdown nobody makes a controller without the lock.
LEMMA NotShut == Unlocked /\ ~shutting => Joining /\ Alone
BY DEF Unlocked, Joining, Alone

\* Two controllers are in the list only if they were put there without the lock.
LEMMA UnlockedStep ==
  ASSUME TypeOK, PcInv, MadeInv, ShutInv, Once, Unlocked, Joining, Alone, SweepsAlone, Next
  PROVE  Unlocked' /\ Joining' /\ Alone' /\ SweepsAlone'
<1> DEFINE Unlocked4 == Unlocked' /\ Joining' /\ Alone' /\ SweepsAlone'
<1>f. Finalizer \in Threads /\ Finalizer \notin Clients
  BY AgentConstants DEF Threads
<1>n. made \in Nat /\ \A c \in Agents : c \in Nat
  BY AgentConstants DEF TypeOK, Agents
<1>q. ASSUME ~shutting', Unlocked', SweepsAlone' PROVE Unlocked4
  <2>1. Joining' /\ Alone'
    BY <1>q, NotShut, PTL
  <2>2. QED
    BY <1>q, <2>1
<1>s. ASSUME ~shutting PROVE extra = {} /\ contested = {} /\ pc[Finalizer] = "idle"
                             /\ \A t \in Threads : pc[t] \notin {"make", "joining"}
  BY <1>s DEF Unlocked, ShutInv
<1>1. ASSUME NEW t \in Threads, Quiet(t) PROVE Unlocked4
  <2>1. Unlocked'
    BY <1>1 DEF Unlocked, Quiet
  <2>2. Joining'
    BY <1>1 DEF Joining, Quiet
  <2>3. Alone'
    BY <1>1 DEF Alone, Quiet
  <2>4. SweepsAlone'
    BY <1>1, <1>s, <1>f DEF SweepsAlone, Quiet
  <2>5. QED
    BY <2>1, <2>2, <2>3, <2>4
<1>2. ASSUME NEW t \in Threads, Load(t) PROVE Unlocked4
  <2>1. ~shutting /\ ~shutting' /\ extra' = {} /\ contested' = {} /\ t # Finalizer
    BY <1>2, <1>s, AgentConstants DEF Load, HasLock, Calls, shutVars, PcInv, PcOf
  <2>2. \A u \in Threads : pc'[u] \notin {"make", "joining"}
    BY <1>2, <1>s, <2>1 DEF Load, GoTo, TypeOK
  <2>3. pc'[Finalizer] = "idle"
    BY <1>2, <1>s, <1>f, <2>1 DEF Load, GoTo, TypeOK
  <2>4. Unlocked' /\ SweepsAlone'
    BY <2>1, <2>2, <2>3 DEF Unlocked, SweepsAlone
  <2>5. QED
    BY <1>q, <2>1, <2>4
<1>3. ASSUME NEW t \in Threads, LoadFails(t) PROVE Unlocked4
  <2>1. /\ UNCHANGED <<made, ctl, listed, shutting, extra, contested, ptr, del, outer>>
        /\ pc' = [pc EXCEPT ![t] = "idle"]
    BY <1>3 DEF LoadFails, GoTo, agentVars, shutVars, threadVars
  <2>2. t # Finalizer
    BY <1>3, AgentConstants DEF LoadFails, HasLock, Calls, PcInv, PcOf, Deletion
  <2>3. Unlocked' /\ Alone'
    BY <2>1 DEF Unlocked, Alone, TypeOK
  <2>4. Joining'
    BY <2>1 DEF Joining, TypeOK
  <2>5. SweepsAlone'
    BY <2>1, <2>2, <1>f DEF SweepsAlone, TypeOK
  <2>6. QED
    BY <2>3, <2>4, <2>5
<1>4. ASSUME NEW t \in Threads, Remove(t) PROVE Unlocked4
  <2>1. t # Finalizer /\ t \in Clients /\ pc[t] = "remove"
    BY <1>4 DEF Remove, PcInv, PcOf, Deletion, Threads
  <2>2. CASE ~shutting /\ Removes(t) # 0
    <3>1. /\ ~shutting' /\ extra' = {} /\ contested' = {} /\ pc' = [pc EXCEPT ![t] = "signal"]
      BY <1>4, <1>s, <2>2 DEF Remove, Delete, GoTo, shutVars
    <3>2. Unlocked' /\ SweepsAlone'
      BY <1>s, <2>1, <2>2, <3>1, <1>f DEF Unlocked, SweepsAlone, TypeOK
    <3>3. QED
      BY <1>q, <3>1, <3>2
  <2>3. CASE ~(~shutting /\ Removes(t) # 0)
    <3>1. /\ UNCHANGED <<ctl, listed, shutting, extra, contested, del, outer>>
          /\ pc' = [pc EXCEPT ![t] = "idle"] /\ ptr' = [ptr EXCEPT ![t] = 0]
      BY <1>4, <2>3 DEF Remove, GoTo, agentVars, shutVars
    <3>2. Unlocked' /\ Alone'
      BY <3>1 DEF Unlocked, Alone, TypeOK
    <3>3. Joining'
      BY <3>1 DEF Joining, TypeOK
    <3>4. SweepsAlone'
      BY <2>1, <3>1, <1>f DEF SweepsAlone, TypeOK
    <3>5. QED
      BY <3>2, <3>3, <3>4
  <2>4. QED
    BY <2>2, <2>3
<1>5. ASSUME NEW t \in Threads, Ends(t) PROVE Unlocked4
  <2>1. Unlocked'
    BY <1>5 DEF Unlocked, Ends, shutVars
  <2>2. Joining'
    <3> SUFFICES ASSUME NEW u \in Threads, pc'[u] = "joining"
                 PROVE  /\ ptr'[u] # 0 /\ ctl'[ptr'[u]] = "live"
                        /\ ptr'[u] \in extra' \cup contested'
                        /\ \A v \in Threads :
                             /\ del'[v] # ptr'[u] /\ outer'[v] # ptr'[u]
                             /\ v # u /\ pc'[v] = "joining" => ptr'[v] # ptr'[u]
      BY DEF Joining
    <3>1. u # t /\ pc[u] = "joining" /\ ptr' = ptr /\ extra' = extra /\ contested' = contested
      BY <1>5 DEF Ends, shutVars
    <3>2. ptr[u] \in Agents /\ ptr[u] # del[t]
      BY <3>1, Ids DEF Joining, TypeOK
    <3>3. QED
      BY <1>5, <3>1, <3>2 DEF Joining, Ends
  <2>3. Alone'
    <3>1. extra' = extra /\ contested' = contested
      BY <1>5 DEF Ends, shutVars
    <3>2. \A c \in extra : c \in Agents /\ c # 0
      BY Ids DEF TypeOK
    <3>3. QED
      BY <1>5, <3>1, <3>2 DEF Alone, Ends
  <2>4. SweepsAlone'
    <3>1. pc'[Finalizer] \notin {"idle", "wait"} => pc[Finalizer] \notin {"idle", "wait"}
      BY <1>5, <1>f DEF Ends, Deletion
    <3>2. \A u \in Threads : del[u] = 0 => outer[u] = 0
      BY DEF PcInv, PcOf
    <3>3. pc[t] # "idle"
      BY <1>5 DEF Ends, Deletion
    <3>4. QED
      BY <1>5, <3>1, <3>2, <3>3 DEF SweepsAlone, Ends
  <2>5. QED
    BY <2>1, <2>2, <2>3, <2>4
<1>6. ASSUME NEW t \in Threads, ConnectionClosed(t), ~shutting PROVE Unlocked4
  <2>1. ~shutting' /\ extra' = {} /\ contested' = {} /\ pc[t] = "closed"
    BY <1>6, <1>s DEF ConnectionClosed, shutVars
  <2>2. t # Finalizer
    BY <1>6, <1>s, <2>1
  <2>3. \A u \in Threads : u # t => pc'[u] = pc[u]
    BY <1>6 DEF ConnectionClosed, Delete, Resume, GoTo, TypeOK
  <2>4. pc'[t] \notin {"make", "joining"}
    BY <1>6 DEF ConnectionClosed, Delete, Resume, GoTo, TypeOK
  <2>5. Unlocked' /\ SweepsAlone'
    BY <1>s, <1>6, <2>1, <2>2, <2>3, <2>4, <1>f DEF Unlocked, SweepsAlone
  <2>6. QED
    BY <1>q, <2>1, <2>5
<1>7. ASSUME NEW t \in Threads, TransportError(t) PROVE Unlocked4
  <2>1. /\ t # Finalizer /\ t \notin Clients /\ pc[t] = "error"
        /\ UNCHANGED <<ctl, shutting, extra, contested, ptr, outer>>
    BY <1>7 DEF TransportError, PcInv, PcOf, Deletion, Threads, agentVars, shutVars
  <2>2. CASE shutting \/ listed = 0
    <3>1. UNCHANGED <<listed, del>> /\ pc' = [pc EXCEPT ![t] = "disconnect"]
      BY <1>7, <2>2 DEF TransportError, GoTo
    <3>2. Unlocked' /\ Alone'
      BY <2>1, <3>1 DEF Unlocked, Alone, TypeOK
    <3>3. Joining'
      BY <2>1, <3>1 DEF Joining, TypeOK
    <3>4. SweepsAlone'
      BY <2>1, <3>1, <1>f DEF SweepsAlone, TypeOK
    <3>5. QED
      BY <3>2, <3>3, <3>4
  <2>3. CASE ~(shutting \/ listed = 0)
    <3>1. ~shutting' /\ extra' = {} /\ contested' = {} /\ pc' = [pc EXCEPT ![t] = "signal"]
      BY <1>7, <1>s, <2>1, <2>3 DEF TransportError, Delete, GoTo
    <3>2. Unlocked' /\ SweepsAlone'
      BY <1>s, <2>1, <2>3, <3>1, <1>f DEF Unlocked, SweepsAlone, TypeOK
    <3>3. QED
      BY <1>q, <3>1, <3>2
  <2>4. QED
    BY <2>2, <2>3
<1>8. ASSUME NEW c \in Agents, Gone(c) PROVE Unlocked4
  BY <1>8 DEF Unlocked, Joining, Alone, SweepsAlone, Gone, agentVars, shutVars, threadVars
<1>9. ASSUME StartShutdown PROVE Unlocked4
  <2>1. /\ UNCHANGED <<ctl, listed, extra, contested, ptr, del, outer>>
        /\ ~shutting => extra' = {} /\ contested' = {}
        /\ shutting' = TRUE /\ pc' = [pc EXCEPT ![Finalizer] = "wait"]
    BY <1>9, <1>s DEF StartShutdown, GoTo, agentVars, threadVars
  <2>2. Unlocked' /\ Alone'
    BY <1>s, <2>1, <1>f DEF Unlocked, Alone, TypeOK
  <2>3. Joining'
    BY <2>1 DEF Joining, TypeOK
  <2>4. SweepsAlone'
    BY <2>1, <1>f DEF SweepsAlone, TypeOK
  <2>5. QED
    BY <2>2, <2>3, <2>4
<1>10. ASSUME WaitPending PROVE Unlocked4
  <2>1. /\ UNCHANGED <<ctl, listed, shutting, extra, contested, ptr, del, outer>>
        /\ pc' = [pc EXCEPT ![Finalizer] = "sweep"]
    BY <1>10 DEF WaitPending, GoTo, agentVars, shutVars, threadVars
  <2>2. Unlocked' /\ Alone'
    BY <2>1 DEF Unlocked, Alone, TypeOK
  <2>3. Joining'
    BY <2>1 DEF Joining, TypeOK
  <2>4. \A t \in Threads \ {Finalizer} : del[t] = 0 /\ (t \in Clients => pc[t] = "idle")
    BY <1>10 DEF WaitPending, Inside, PcInv, PcOf, Deletion
  <2>5. SweepsAlone'
    BY <2>1, <2>4 DEF SweepsAlone, TypeOK
  <2>6. QED
    BY <2>2, <2>3, <2>5
<1>11. ASSUME Sweep PROVE Unlocked4
  <2>1. pc[Finalizer] = "sweep" /\ UNCHANGED <<ctl, shutting, contested, ptr, outer>>
    BY <1>11 DEF Sweep, agentVars
  <2>2. \A t \in Threads : pc[t] \notin {"make", "joining"}
    BY <2>1, AgentConstants DEF SweepsAlone, PcInv, PcOf, Deletion, Threads
  <2>3. \A t \in Threads : pc'[t] \notin {"make", "joining"} /\ (t # Finalizer => pc'[t] = pc[t])
    BY <1>11, <2>2 DEF Sweep, Delete, GoTo, TypeOK
  <2>4. Joining'
    BY <2>3 DEF Joining
  <2>5. SweepsAlone'
    <3>1. \A t \in Threads \ {Finalizer} : del'[t] = del[t]
      BY <1>11 DEF Sweep, Delete, TypeOK
    <3>2. QED
      BY <2>1, <2>3, <3>1, <1>f, AgentConstants DEF SweepsAlone
  <2>6. Unlocked' /\ Alone'
    <3>1. CASE Listed = {}
      BY <1>11, <2>1, <2>3, <3>1 DEF Unlocked, Alone, Sweep
    <3>2. CASE Listed # {}
      <4>1. PICK c \in Listed : Delete(Finalizer, c) /\ extra' = extra \ {c}
        BY <1>11, <3>2 DEF Sweep
      <4>2. listed' = 0 /\ del' = [del EXCEPT ![Finalizer] = c]
        BY <4>1 DEF Delete
      <4>3. shutting
        BY <2>1 DEF ShutInv
      <4>4. Unlocked'
        BY <2>1, <4>2, <4>3 DEF Unlocked
      <4>5. \A d \in extra' \ contested : FALSE
        <5> SUFFICES ASSUME NEW d \in extra' \ contested PROVE FALSE
          OBVIOUS
        <5>1. d \in extra /\ d # c /\ extra = {d}
          BY <4>1 DEF Alone
        <5>2. listed = 0
          BY <5>1 DEF Unlocked
        <5>3. QED
          BY <5>1, <5>2 DEF Listed
      <4>6. QED
        BY <2>1, <4>4, <4>5 DEF Alone
    <3>3. QED
      BY <3>1, <3>2
  <2>7. QED
    BY <2>4, <2>5, <2>6
<1>12. ASSUME CloseAll PROVE Unlocked4
  <2>1. /\ UNCHANGED <<ctl, listed, shutting, extra, contested, ptr, del, outer>>
        /\ pc' = [pc EXCEPT ![Finalizer] = "end"] /\ pc[Finalizer] = "closing"
    BY <1>12 DEF CloseAll, GoTo, agentVars, shutVars, threadVars
  <2>2. Unlocked' /\ Alone'
    BY <2>1 DEF Unlocked, Alone, TypeOK
  <2>3. Joining'
    BY <2>1 DEF Joining, TypeOK
  <2>4. SweepsAlone'
    BY <2>1 DEF SweepsAlone, TypeOK
  <2>5. QED
    BY <2>2, <2>3, <2>4
<1>13. ASSUME NEW t \in Threads, Make(t) PROVE Unlocked4
  <2>1. /\ shutting /\ shutting' /\ listed = 0 /\ listed' = 0 /\ pc[t] = "make" /\ t # Finalizer
        /\ UNCHANGED <<del, outer>>
    BY <1>13, <1>f DEF Make, Unlocked, PcInv, PcOf, Deletion
  <2>2. /\ pc' = [pc EXCEPT ![t] = "joining"] /\ ptr' = [ptr EXCEPT ![t] = made + 1]
        /\ extra' = extra \cup {made + 1} /\ ctl' = [ctl EXCEPT ![made + 1] = "live"]
        /\ contested' = IF Listed = {} THEN contested ELSE contested \cup Listed \cup {made + 1}
    BY <1>13 DEF Make, GoTo
  <2>3. made + 1 \in Agents /\ made + 1 # 0
    BY <1>13, <1>n, AgentConstants DEF Make, Agents
  <2>4. \A x \in 0..MaxAgents : x <= made => x # made + 1
    BY <1>n, AgentConstants
  <2>5. /\ \A u \in Threads : del[u] # made + 1 /\ outer[u] # made + 1 /\ ptr[u] # made + 1
        /\ made + 1 \notin extra
    BY <2>4, <1>n, AgentConstants DEF MadeInv, TypeOK, Agents
  <2>6. Listed = extra
    BY <2>1 DEF Listed
  <2>7. Unlocked'
    BY <2>1 DEF Unlocked
  <2>8. Joining'
    <3> SUFFICES ASSUME NEW u \in Threads, pc'[u] = "joining"
                 PROVE  /\ ptr'[u] # 0 /\ ctl'[ptr'[u]] = "live"
                        /\ ptr'[u] \in extra' \cup contested'
                        /\ \A v \in Threads :
                             /\ del'[v] # ptr'[u] /\ outer'[v] # ptr'[u]
                             /\ v # u /\ pc'[v] = "joining" => ptr'[v] # ptr'[u]
      BY DEF Joining
    <3>1. CASE u = t
      BY <2>1, <2>2, <2>3, <2>5, <3>1 DEF TypeOK
    <3>2. CASE u # t
      BY <2>1, <2>2, <2>3, <2>5, <3>2 DEF TypeOK, Joining
    <3>3. QED
      BY <3>1, <3>2
  <2>9. Alone'
    <3>1. CASE extra = {}
      BY <2>1, <2>2, <2>3, <2>5, <3>1 DEF TypeOK, Alone
    <3>2. CASE extra # {}
      BY <2>2, <2>6, <3>2 DEF Alone
    <3>3. QED
      BY <3>1, <3>2
  <2>10. SweepsAlone'
    BY <2>1, <2>2, <1>f DEF TypeOK, SweepsAlone, PcInv, PcOf, Deletion
  <2>11. QED
    BY <2>7, <2>8, <2>9, <2>10
<1>14. ASSUME NEW t \in Threads, Joined(t) PROVE Unlocked4
  <2>1. /\ UNCHANGED <<ctl, listed, shutting, extra, contested, del, outer>>
        /\ pc' = [pc EXCEPT ![t] = "event"] /\ ptr' = [ptr EXCEPT ![t] = 0]
        /\ t # Finalizer /\ pc[t] = "joining"
    BY <1>14, <1>f DEF Joined, GoTo, agentVars, shutVars, PcInv, PcOf, Deletion
  <2>2. Unlocked' /\ Alone'
    BY <2>1 DEF Unlocked, Alone, TypeOK
  <2>3. Joining'
    BY <2>1 DEF Joining, TypeOK
  <2>4. SweepsAlone'
    BY <2>1, <1>f DEF SweepsAlone, TypeOK, PcInv, PcOf, Deletion
  <2>5. QED
    BY <2>2, <2>3, <2>4
<1>15. ASSUME NEW t \in Threads, JoinFails(t) PROVE Unlocked4
  <2>1. /\ UNCHANGED <<ctl, listed, shutting, outer>> /\ shutting /\ listed = 0
        /\ pc' = [pc EXCEPT ![t] = "signal"] /\ ptr' = [ptr EXCEPT ![t] = 0]
        /\ del' = [del EXCEPT ![t] = ptr[t]]
        /\ t # Finalizer /\ t \in Clients /\ pc[t] = "joining"
    BY <1>15, <1>f DEF JoinFails, GoTo, agentVars, Unlocked, PcInv, PcOf, Deletion, Threads
  <2>2. /\ extra' \subseteq extra /\ contested \subseteq contested'
        /\ \A c \in extra \ extra' : c = ptr[t] \/ c \in contested'
    BY <1>15 DEF JoinFails
  <2>3. ptr[t] \in extra' => ptr[t] \in contested'
    <3> SUFFICES ASSUME ptr[t] \in extra' PROVE ptr[t] \in contested'
      OBVIOUS
    <3>1. PICK c \in extra : /\ extra' = extra \ {c}
                             /\ contested' = IF c = ptr[t] THEN contested ELSE contested \cup {c, ptr[t]}
      BY <1>15, <2>2 DEF JoinFails
    <3>2. QED
      BY <3>1
  <2>4. Unlocked'
    BY <2>1 DEF Unlocked
  <2>5. Joining'
    <3> SUFFICES ASSUME NEW u \in Threads, pc'[u] = "joining"
                 PROVE  /\ ptr'[u] # 0 /\ ctl'[ptr'[u]] = "live"
                        /\ ptr'[u] \in extra' \cup contested'
                        /\ \A v \in Threads :
                             /\ del'[v] # ptr'[u] /\ outer'[v] # ptr'[u]
                             /\ v # u /\ pc'[v] = "joining" => ptr'[v] # ptr'[u]
      BY DEF Joining
    <3>1. u # t /\ pc[u] = "joining" /\ ptr'[u] = ptr[u] /\ ptr[u] # ptr[t]
      BY <2>1 DEF TypeOK, Joining
    <3>2. ptr[u] \in extra' \cup contested'
      BY <2>2, <3>1 DEF Joining
    <3>3. QED
      BY <2>1, <3>1, <3>2 DEF TypeOK, Joining
  <2>6. Alone'
    <3> SUFFICES ASSUME NEW c \in extra', c \notin contested'
                 PROVE  extra' = {c} /\ ctl'[c] = "live" /\ \A u \in Threads : del'[u] # c /\ outer'[u] # c
      BY DEF Alone
    <3>1. c \in extra \ contested /\ c # ptr[t]
      BY <2>2, <2>3
    <3>2. QED
      BY <2>1, <2>2, <3>1 DEF TypeOK, Alone
  <2>7. SweepsAlone'
    BY <2>1, <1>f DEF TypeOK, SweepsAlone
  <2>8. QED
    BY <2>4, <2>5, <2>6, <2>7
<1>16. ASSUME NEW t \in Threads, DeleteStep(t) PROVE Unlocked4
  BY <1>16, <1>5, <1>6, EndsStep DEF DeleteStep
<1> HIDE DEF Unlocked4
<1>17. ASSUME NEW t \in Threads, QuietActions(t) PROVE Unlocked4
  BY <1>17, <1>1, QuietStep
<1>18. ASSUME NEW t \in Threads, ClientCall(t) \/ Answered(t) \/ Complete(t) \/ Step(t) PROVE Unlocked4
  BY <1>18, <1>2, <1>3, <1>4, <1>7, <1>13, <1>14, <1>15, <1>16, <1>17
    DEF ClientCall, Step, ClientStep, CallbackStep, QuietActions
<1>19. Unlocked4
  BY <1>8, <1>9, <1>10, <1>11, <1>12, <1>18 DEF Next
<1>20. QED
  BY <1>19 DEF Unlocked4

----------------------------------------------------------------------------
\* The invariant holds at the beginning,
LEMMA InitIInv == Init => IInv
<1> SUFFICES ASSUME Init PROVE IInv
  OBVIOUS
<1>1. TypeOK
  <2>1. 0 \in 0..MaxAgents
    BY AgentConstants
  <2>2. PICK a \in Addresses : address = [c \in Agents |-> a]
    BY DEF Init
  <2>3. /\ address \in [Agents -> Addresses] /\ ptr \in [Threads -> 0..MaxAgents]
        /\ holds = ptr /\ ref = ptr /\ del = ptr /\ cb = ptr /\ outer = ptr /\ of = ptr
    BY <2>1, <2>2 DEF Init
  <2>4. QED
    BY <2>1, <2>3 DEF Init, TypeOK
<1>2. PcInv /\ CtlInv /\ Drained /\ HeldIsAlive /\ Once /\ ListedUp /\ ShutInv
  BY AgentConstants DEF Init, PcInv, PcOf, CtlInv, Drained, HeldIsAlive, Once, ListedUp, ShutInv, Threads
<1>3. MadeInv
  BY DEF Init, MadeInv
<1>4. OneConnection /\ RefOpen /\ UpIsListed
  BY DEF Init, OneConnection, RefOpen, UpIsListed, Open
<1>5. Unlocked /\ Joining /\ Alone /\ SweepsAlone
  BY DEF Init, Unlocked, Joining, Alone, SweepsAlone, Threads
<1>6. QED
  BY <1>1, <1>2, <1>3, <1>4, <1>5 DEF IInv

\* and every step keeps it.
LEMMA NextIInv == IInv /\ [Next]_vars => IInv'
<1>1. CASE Next
  BY <1>1, TypeStep, PcStep, MadeStep, CtlStep, OnceStep, DrainedStep, HeldStep, OneStep, RefStep,
     ListedStep, UpStep, ShutStep, UnlockedStep DEF IInv
<1>2. CASE UNCHANGED vars
  <2>1. TypeOK' = TypeOK /\ PcInv' = PcInv /\ MadeInv' = MadeInv /\ Once' = Once
    BY <1>2 DEF vars, agentVars, shutVars, threadVars, TypeOK, PcInv, PcOf, MadeInv, Once
  <2>2. CtlInv' = CtlInv /\ Drained' = Drained /\ HeldIsAlive' = HeldIsAlive /\ OneConnection' = OneConnection
    BY <1>2 DEF vars, agentVars, shutVars, threadVars, CtlInv, Drained, HeldIsAlive, OneConnection, Open
  <2>3. RefOpen' = RefOpen /\ ListedUp' = ListedUp /\ UpIsListed' = UpIsListed /\ ShutInv' = ShutInv
    BY <1>2 DEF vars, shutVars, threadVars, RefOpen, Open, ListedUp, UpIsListed, Closing, TransportOff, ShutInv
  <2>4. Unlocked' = Unlocked /\ Joining' = Joining /\ Alone' = Alone /\ SweepsAlone' = SweepsAlone
    BY <1>2 DEF vars, agentVars, shutVars, threadVars, Unlocked, Joining, Alone, SweepsAlone
  <2>5. QED
    BY <2>1, <2>2, <2>3, <2>4 DEF IInv
<1>3. QED
  BY <1>1, <1>2

\* The strengthening is inductive.
THEOREM Inductive == Spec => []IInv
BY InitIInv, NextIInv, PTL DEF Spec

\* The variables keep their types, for every value of the constants.
THEOREM TypeCorrect == Spec => []TypeOK
<1>1. IInv => TypeOK
  BY DEF IInv
<1>2. QED
  BY <1>1, Inductive, PTL

\* A controller that a thread holds, found under the manager's lock, is not deleted
\* under it by anybody (GetAgentController, InternalShutdownAgent).
THEOREM HeldStaysAlive == Spec => []HeldIsAlive
<1>1. IInv => HeldIsAlive
  BY DEF IInv
<1>2. QED
  BY <1>1, Inductive, PTL

\* A controller is deleted once, by whoever took it off the list, unless it shared the
\* list with another that was made without the lock during shutdown
\* (RemoveAgentController, TEC_OnTransportError, TEC_OnConnectionClosed, Finalize).
THEOREM NeverDeletedTwice == Spec => []DeletedOnce
<1>1. TypeOK /\ PcInv /\ CtlInv /\ Once /\ Unlocked /\ Alone => DeletedOnce
  <2> SUFFICES ASSUME TypeOK, PcInv, CtlInv, Once, Unlocked, Alone PROVE DeletedOnce
    OBVIOUS
  <2>1. ~shutting => contested = {}
    BY DEF Unlocked
  <2>2. ASSUME NEW c \in Listed \ contested
        PROVE  ctl[c] = "live" /\ \A t \in Threads : c \notin Deletes(t)
    BY <2>2, Ids DEF TypeOK, Listed, Once, Alone, Deletes
  <2>3. ASSUME NEW t \in Threads
        PROVE  /\ del[t] # 0 => del[t] # outer[t] /\ (ctl[del[t]] = "freed" => pc[t] = "told" \/ del[t] \in contested)
               /\ outer[t] # 0 => ctl[outer[t]] = "ending"
               /\ \A u \in Threads \ {t} : Deletes(t) \cap Deletes(u) = {}
    BY DEF TypeOK, CtlInv, Once, Deletes
  <2>4. QED
    BY <2>1, <2>2, <2>3 DEF DeletedOnce
<1>2. IInv => DeletedOnce
  BY <1>1 DEF IInv
<1>3. QED
  BY <1>2, Inductive, PTL

\* The list of controllers and that of connections follow each other
\* (InternalDisconnectAgent2, TEC_OnConnectionClosed).
THEOREM ListsFollow == Spec => []ListedIsConnected
<1>1. ListedUp /\ UpIsListed => ListedIsConnected
  BY Ids DEF ListedUp, UpIsListed, Closing, Listed, ListedIsConnected
<1>2. IInv => ListedIsConnected
  BY <1>1 DEF IInv
<1>3. QED
  BY <1>2, Inductive, PTL

\* A thread that reports the end of a connection it still refers to finds no other
\* agent of the process (TEC_OnConnectionClosed, TEC_OnTransportError).
THEOREM EndsOnlyItsOwn == Spec => []EndsItsOwn
<1>1. IInv => EndsItsOwn
  <2> SUFFICES ASSUME IInv, ~shutting, NEW t \in Threads
               PROVE  /\ pc[t] = "error" /\ ref[t] # 0 => listed \in {0, ref[t]}
                      /\ pc[t] = "closed" => listed \in {0, cb[t]}
    BY DEF EndsItsOwn
  <2>1. listed # 0 => listed \in Agents /\ Open(listed)
    BY Ids DEF IInv, TypeOK, ListedUp, RefOpen, Open
  <2>2. ref[t] # 0 => ref[t] \in Agents /\ Open(ref[t])
    BY Ids DEF IInv, TypeOK, RefOpen
  <2>3. cb[t] # 0 => cb[t] \in Agents /\ Open(cb[t])
    BY Ids DEF IInv, TypeOK, RefOpen, Open
  <2>4. pc[t] = "closed" => cb[t] # 0
    BY DEF IInv, PcInv, PcOf
  <2>5. QED
    BY <2>1, <2>2, <2>3, <2>4 DEF IInv, OneConnection
<1>2. QED
  BY <1>1, Inductive, PTL
=============================================================================
