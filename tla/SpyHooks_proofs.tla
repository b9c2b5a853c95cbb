--------------------------- MODULE SpyHooks_proofs ---------------------------
(***************************************************************************)
(* For any threads, items, hooks and processes: the type invariant of      *)
(* SpyHooks, that its two lists agree, that an item that ended never hooks *)
(* again, and when a removal is decided twice or leaves the hook behind.   *)
(***************************************************************************)
EXTENDS SpyHooks, FiniteSetTheorems, TLAPS

\* Where a thread is says which operation it is in; commands wait for a batch
\* only until it is executed.
PcOf(t) ==
  /\ pc[t] \in {"adding", "activating", "added"} => op[t] \in Adds /\ cur[t] \in Items
  /\ pc[t] \in {"removing", "removed"} => op[t] \in Removals /\ cur[t] \in Items
  /\ pc[t] \in {"enabling", "enabled"} => cur[t] \in Items
  /\ pc[t] \in {"adding", "removing"} => used[t]
  /\ batch[t] # {} => /\ used[t] /\ Batched(t)
                      /\ pc[t] \notin {"idle", "executed", "failed", "batchError", "done"}
  /\ op[t] \in Scans => mine[t] = {}

PcInv == \A t \in Threads : PcOf(t)

\* A removed item stays out of use, as "Removed" until a failed installation overwrites it.
DoomInv == \A i \in doomed : state[i] \in Gone /\ (state[i] = "Removed" \/ i \in clobbered)

\* A command to add a removed item was under way when its removal was decided.
OvertakeInv == \A i \in doomed : BeingAdded(i) => i \in overtaken

IInv == /\ TypeOK /\ PcInv /\ ListsAgree /\ DoomInv /\ RemovedOnceUnlessClobbered
        /\ OvertakeInv /\ OrphanOnlyIfOvertaken

----------------------------------------------------------------------------
LEMMA IndexIsNat == ASSUME TypeOK PROVE \A i \in Items : IndexOf(i) \in Nat
<1> SUFFICES ASSUME NEW i \in Items PROVE IndexOf(i) \in Nat
  OBVIOUS
<1>1. {j \in byProc : Before(j, i)} \subseteq Items
  BY DEF TypeOK
<1>2. QED
  BY <1>1, SpyConstants, FS_Subset, FS_CardinalityType DEF IndexOf

\* Every step keeps the types.
LEMMA TypeStep ==
  ASSUME TypeOK, PcInv, Next
  PROVE  TypeOK'
<1>1. ASSUME NEW t \in Threads, NEW h \in Hooks, Destroy(t, h), calls < MaxCalls, calls' = calls
    + 1
     PROVE  TypeOK'
  BY <1>1, SpyConstants DEF TypeOK, PcInv, PcOf, Destroy, StartScan, Start, Relock, Goto, lists,
    bits, local, history, Adds, Scans, Removals, States, Live, Gone, Nobody
<1>2. ASSUME NEW t \in Threads, NEW p \in Pids, AgentGone(t, p), calls < MaxCalls, calls' = calls
    + 1
     PROVE  TypeOK'
  BY <1>2, SpyConstants DEF TypeOK, PcInv, PcOf, AgentGone, StartScan, Start, Relock, Goto,
    lists, bits, local, history, Adds, Scans, Removals, States, Live, Gone, Nobody
<1>3. ASSUME NEW t \in Threads, NEW p \in Pids, ProcessEnded(t, p), calls < MaxCalls, calls' =
    calls + 1
     PROVE  TypeOK'
  BY <1>3, SpyConstants DEF TypeOK, PcInv, PcOf, ProcessEnded, StartScan, Start, Relock, Goto,
    lists, bits, local, history, Adds, Scans, Removals, States, Live, Gone, Nobody
<1>4. ASSUME NEW t \in Threads, NEW hs \in SUBSET Hooks \ {{}}, NEW p \in Pids, 
            AddProcess(t, hs, p), calls < MaxCalls, calls' = calls + 1
     PROVE  TypeOK'
  <2>1. PICK kept \in SUBSET Items, active \in SUBSET Items :
          /\ byId' = byId \cup kept /\ byProc' = byProc \cup kept
          /\ state' = [i \in Items |-> IF i \in kept THEN "Inactive" ELSE state[i]]
          /\ installing' = installing \cup active
          /\ UNCHANGED <<owner, local>> \/ Start(t, "add", active, active)
          /\ UNCHANGED <<uninstalling, cmd, replies, history>>
    <3>1. PICK new \in SUBSET Of(Missing(hs, p), p), fails \in BOOLEAN :
            LET kept == IF fails THEN {i \in new : HookOf[i] \notin AutoActive} ELSE new
                active == IF fails THEN {} ELSE {i \in new : HookOf[i] \in AutoActive} IN
            /\ byId' = byId \cup kept /\ byProc' = byProc \cup kept
            /\ state' = [i \in Items |-> IF i \in kept THEN "Inactive" ELSE state[i]]
            /\ installing' = installing \cup active
            /\ UNCHANGED <<owner, local>> \/ Start(t, "add", active, active)
            /\ UNCHANGED <<uninstalling, cmd, replies, history>>
      BY <1>4 DEF AddProcess
    <3>2. new \in SUBSET Items
      BY DEF Of
    <3>3. QED
      BY <3>1, <3>2
  <2>2. state' \in [Items -> States] /\ byId' \subseteq Items /\ byProc' \subseteq Items /\ installing' \subseteq Items
    BY <1>4, <2>1 DEF TypeOK, States
  <2>3. CASE UNCHANGED <<owner, local>>
    BY <1>4, <2>1, <2>2, <2>3, SpyConstants DEF TypeOK, local, history
  <2>4. CASE Start(t, "add", active, active)
    BY <1>4, <2>1, <2>2, <2>4, SpyConstants DEF TypeOK, Start, Relock, Goto, history, Adds
  <2>5. QED
    BY <2>1, <2>3, <2>4
<1>5. ASSUME NEW t \in Threads, NEW hs \in SUBSET Hooks \ {{}}, NEW p \in Pids, 
            StartInstall(t, hs, p), calls < MaxCalls, calls' = calls + 1
     PROVE  TypeOK'
  <2>1. PICK S \in SUBSET Items : /\ Start(t, "install", S, S) /\ installing' = installing \cup S
          /\ UNCHANGED <<lists, state, uninstalling, cmd, replies, history>>
    <3> DEFINE free == {i \in byId \cap Of(hs, p) : state[i] \in {"Inactive", "NotAvailable"}} \
    installing
    <3>1. free \in SUBSET Items
      BY DEF TypeOK
    <3>2. QED
      BY <1>5, <3>1 DEF StartInstall
  <2>2. QED
    BY <1>5, <2>1, SpyConstants DEF TypeOK, Start, Relock, Goto, lists, bits, history, Adds,
    Removals, Nobody
<1>6. ASSUME NEW t \in Threads, NEW hs \in SUBSET Hooks \ {{}}, NEW p \in Pids, 
            RemoveProcess(t, hs, p), calls < MaxCalls, calls' = calls + 1
     PROVE  TypeOK'
  BY <1>6, SpyConstants DEF TypeOK, PcInv, PcOf, RemoveProcess, Start, Relock, Goto, lists, bits,
    local, history, Adds, Scans, Removals, States, Live, Gone, Nobody, Of
<1>7. ASSUME NEW t \in Threads, NEW hs \in SUBSET Hooks \ {{}}, NEW p \in Pids, 
            StartUninstall(t, hs, p), calls < MaxCalls, calls' = calls + 1
     PROVE  TypeOK'
  <2>1. PICK S \in SUBSET Items : /\ Start(t, "uninstall", S, S) /\ uninstalling' = uninstalling \cup S
          /\ UNCHANGED <<lists, state, installing, cmd, replies, history>>
    <3> DEFINE taken == {i \in byId \cap Of(hs, p) : state[i] \in Live} \ uninstalling
    <3>1. taken \in SUBSET Items
      BY DEF TypeOK
    <3>2. QED
      BY <1>7, <3>1 DEF StartUninstall
  <2>2. QED
    BY <1>7, <2>1, SpyConstants DEF TypeOK, Start, Relock, Goto, lists, bits, history, Adds,
    Removals, Nobody
<1>8. ASSUME NEW t \in Threads, NEW hs \in SUBSET Hooks \ {{}}, NEW p \in Pids, 
            StartEnable(t, hs, p), calls < MaxCalls, calls' = calls + 1
     PROVE  TypeOK'
  BY <1>8, SpyConstants DEF TypeOK, PcInv, PcOf, StartEnable, Start, Relock, Goto, lists, bits,
    local, history, Adds, Scans, Removals, States, Live, Gone, Nobody, Of
<1>9. ASSUME NEW t \in Threads, AfterEvent(t), UNCHANGED calls PROVE TypeOK'
  BY <1>9 DEF TypeOK, PcInv, PcOf, AfterEvent, Relock, Goto, lists, bits, local, history, Adds,
    Scans, Removals, States, Live, Gone, Nobody
<1>10. ASSUME NEW t \in Threads, EndItems(t), UNCHANGED calls PROVE TypeOK'
  BY <1>10 DEF TypeOK, PcInv, PcOf, EndItems, Holds, Unlock, Goto, lists, bits, local, history,
    Adds, Scans, Removals, States, Live, Gone, Nobody
<1>11. ASSUME NEW t \in Threads, BatchExec(t), UNCHANGED calls PROVE TypeOK'
  BY <1>11 DEF TypeOK, PcInv, PcOf, BatchExec, Goto, lists, bits, local, history, Adds, Scans,
    Removals, States, Live, Gone, Nobody
<1>12. ASSUME NEW t \in Threads, Executed(t), UNCHANGED calls PROVE TypeOK'
  BY <1>12 DEF TypeOK, PcInv, PcOf, Executed, Relock, Goto, Forget, lists, bits, local, history,
    Adds, Scans, Removals, States, Live, Gone, Nobody
<1>13. ASSUME NEW t \in Threads, BatchFailed(t), UNCHANGED calls PROVE TypeOK'
  BY <1>13 DEF TypeOK, PcInv, PcOf, BatchFailed, Holds, Unlock, Goto, lists, bits, local,
    history, Adds, Scans, Removals, States, Live, Gone, Nobody
<1>14. ASSUME NEW t \in Threads, Finish(t), UNCHANGED calls PROVE TypeOK'
  BY <1>14 DEF TypeOK, PcInv, PcOf, Finish, Unlock, Goto, lists, bits, local, history, Adds,
    Scans, Removals, States, Live, Gone, Nobody
<1>15. ASSUME NEW t \in Threads, SkipItem(t), UNCHANGED calls PROVE TypeOK'
  BY <1>15 DEF TypeOK, PcInv, PcOf, SkipItem, Holds, lists, bits, local, history, Adds, Scans,
    Removals, States, Live, Gone, Nobody
<1>16. ASSUME NEW t \in Threads, InstallItem(t), UNCHANGED calls PROVE TypeOK'
  <2>1. PICK i \in todo[t], found \in BOOLEAN :
          /\ todo' = [todo EXCEPT ![t] = @ \ {i}]
          /\ UNCHANGED state \/ \E s \in {"Activating", "NotAvailable"} : state' = [state EXCEPT ![i] = s]
          /\ UNCHANGED used \/ used' = [used EXCEPT ![t] = TRUE]
          /\ UNCHANGED cur \/ cur' = [cur EXCEPT ![t] = i]
          /\ UNCHANGED <<owner, pc>> \/ \E q \in {"adding", "activating"} : Unlock(t, q)
          /\ UNCHANGED <<lists, bits, op, mine, index, ok, batch, cmd, replies, history>>
    BY <1>16 DEF InstallItem
  <2>2. i \in Items
    BY <2>1 DEF TypeOK
  <2>3. /\ state' \in [Items -> States] /\ used' \in [Threads -> BOOLEAN]
        /\ cur' \in [Threads -> Items \cup {0}] /\ todo' \in [Threads -> SUBSET Items]
    <3>1. state' \in [Items -> States]
      BY <2>1, <2>2 DEF TypeOK, States
    <3>2. used' \in [Threads -> BOOLEAN]
      BY <2>1 DEF TypeOK
    <3>3. cur' \in [Threads -> Items \cup {0}]
      BY <2>1, <2>2 DEF TypeOK
    <3>4. todo' \in [Threads -> SUBSET Items]
      BY <2>1 DEF TypeOK
    <3>5. QED
      BY <3>1, <3>2, <3>3, <3>4
  <2>4. /\ owner' \in Threads \cup {Nobody}
        /\ pc' \in [Threads -> {"idle", "pick", "adding", "activating", "added", "error",
                                "batchError", "failed", "exec", "executed", "removing",
                                "removed", "enabling", "enabled", "done"}]
    BY <2>1 DEF TypeOK, Unlock, Goto, Nobody
  <2>5. QED
    BY <1>16, <2>1, <2>3, <2>4 DEF TypeOK, lists, bits, history
<1>17. ASSUME NEW t \in Threads, LookupFails(t), UNCHANGED calls PROVE TypeOK'
  BY <1>17 DEF TypeOK, PcInv, PcOf, LookupFails, Holds, Unlock, Goto, lists, bits, local,
    history, Adds, Scans, Removals, States, Live, Gone, Nobody
<1>18. ASSUME NEW t \in Threads, SendAdd(t), UNCHANGED calls PROVE TypeOK'
  BY <1>18 DEF TypeOK, PcInv, PcOf, SendAdd, Goto, lists, bits, local, history, Adds, Scans,
    Removals, States, Live, Gone, Nobody
<1>19. ASSUME NEW t \in Threads, SendActivate(t), UNCHANGED calls PROVE TypeOK'
  BY <1>19 DEF TypeOK, PcInv, PcOf, SendActivate, Goto, lists, bits, local, history, Adds, Scans,
    Removals, States, Live, Gone, Nobody
<1>20. ASSUME NEW t \in Threads, Added(t), UNCHANGED calls PROVE TypeOK'
  BY <1>20 DEF TypeOK, PcInv, PcOf, Added, Relock, Unlock, Goto, Forget, lists, bits, local,
    history, Adds, Scans, Removals, States, Live, Gone, Nobody
<1>21. ASSUME NEW t \in Threads, Remove(t), UNCHANGED calls PROVE TypeOK'
  BY <1>21 DEF TypeOK, PcInv, PcOf, Remove, Holds, Unlock, Goto, MarkRemoved, lists, bits, local,
    history, Adds, Scans, Removals, States, Live, Gone, Nobody, Found, Left
<1>22. ASSUME NEW t \in Threads, RemoveRemoved(t), UNCHANGED calls PROVE TypeOK'
  BY <1>22 DEF TypeOK, PcInv, PcOf, RemoveRemoved, Holds, lists, bits, local, history, Adds,
    Scans, Removals, States, Live, Gone, Nobody, RemoveHookItem, Left
<1>23. ASSUME NEW t \in Threads, SkipHook(t), UNCHANGED calls PROVE TypeOK'
  BY <1>23 DEF TypeOK, PcInv, PcOf, SkipHook, Holds, lists, bits, local, history, Adds, Scans,
    Removals, States, Live, Gone, Nobody, Left
<1>24. ASSUME NEW t \in Threads, SendRemove(t), UNCHANGED calls PROVE TypeOK'
  BY <1>24 DEF TypeOK, PcInv, PcOf, SendRemove, Goto, lists, bits, local, history, Adds, Scans,
    Removals, States, Live, Gone, Nobody
<1>25. ASSUME NEW t \in Threads, Removed(t), UNCHANGED calls PROVE TypeOK'
  BY <1>25 DEF TypeOK, PcInv, PcOf, Removed, Relock, Goto, Forget, lists, bits, local, history,
    Adds, Scans, Removals, States, Live, Gone, Nobody, RemoveHookItem
<1>26. ASSUME NEW t \in Threads, Enable(t), UNCHANGED calls PROVE TypeOK'
  BY <1>26, IndexIsNat DEF TypeOK, PcInv, PcOf, Enable, Holds, Unlock, Goto, lists, bits, local,
    history, Adds, Scans, Removals, States, Live, Gone, Nobody, Left
<1>27. ASSUME NEW t \in Threads, SendEnable(t), UNCHANGED calls PROVE TypeOK'
  BY <1>27 DEF TypeOK, PcInv, PcOf, SendEnable, Goto, lists, bits, local, history, Adds, Scans,
    Removals, States, Live, Gone, Nobody
<1>28. ASSUME NEW t \in Threads, Enabled(t), UNCHANGED calls PROVE TypeOK'
  BY <1>28 DEF TypeOK, PcInv, PcOf, Enabled, Relock, Unlock, Goto, Forget, lists, bits, local,
    history, Adds, Scans, Removals, States, Live, Gone, Nobody, At
<1>29. ASSUME NEW m \in replies, HookStateChanged(m), UNCHANGED calls PROVE TypeOK'
  BY <1>29 DEF TypeOK, PcInv, PcOf, HookStateChanged, local, lists, bits, local, history, Adds,
    Scans, Removals, States, Live, Gone, Nobody, NewState
<1>30. QED
  BY <1>1, <1>2, <1>3, <1>4, <1>5, <1>6, <1>7, <1>8, <1>9, <1>10, <1>11, <1>12, <1>13, <1>14,
    <1>15, <1>16, <1>17, <1>18, <1>19, <1>20, <1>21, <1>22, <1>23, <1>24, <1>25, <1>26, <1>27,
    <1>28, <1>29 DEF Next, Begin, Step

LEMMA BatchedFrame ==
  ASSUME NEW t \in Threads, op'[t] = op[t], mine'[t] = mine[t]
  PROVE  Batched(t)' = Batched(t)
BY DEF Batched, Many

\* A step of thread t leaves the other threads where they are.
LEMMA PcOthers ==
  ASSUME NEW t \in Threads, PcInv, PcOf(t)',
         \A u \in Threads \ {t} : /\ pc'[u] = pc[u] /\ op'[u] = op[u] /\ cur'[u] = cur[u]
                                  /\ used'[u] = used[u] /\ batch'[u] = batch[u]
                                  /\ mine'[u] = mine[u]
  PROVE  PcInv'
<1> SUFFICES ASSUME NEW u \in Threads, u # t PROVE PcOf(u)'
  BY DEF PcInv
<1>1. Batched(u)' = Batched(u)
  BY BatchedFrame
<1>2. QED
  BY <1>1 DEF PcInv, PcOf

\* Nothing waits for a batch when a call ends.
LEMMA NoBatchAtFinish ==
  ASSUME TypeOK, PcInv, NEW t \in Threads, Finish(t)
  PROVE  batch[t] = {}
<1>1. CASE pc[t] \in {"done", "failed"}
  BY <1>1 DEF PcInv, PcOf
<1>2. CASE pc[t] = "pick" /\ op[t] \in Scans
  <2>1. mine[t] = {} /\ op[t] # "remove"
    BY <1>2 DEF PcInv, PcOf, Scans
  <2>2. ~Batched(t)
    BY <2>1 DEF Batched, Many
  <2>3. QED
    BY <2>2 DEF PcInv, PcOf
<1>3. CASE pc[t] = "pick" /\ op[t] \notin Scans
  BY <1>3 DEF Finish, PcInv, PcOf
<1>4. QED
  BY <1>1, <1>2, <1>3 DEF Finish

\* Every step keeps a thread's place consistent with its operation.
LEMMA PcStep ==
  ASSUME TypeOK, PcInv, Next
  PROVE  PcInv'
<1>1. ASSUME NEW t \in Threads, NEW h \in Hooks, Destroy(t, h), calls < MaxCalls, calls' = calls
    + 1
     PROVE  PcInv'
  <2>2. PcOf(t)'
    BY <1>1 DEF TypeOK, PcInv, PcOf, Destroy, StartScan, Start, Relock, Goto, lists, bits, local,
    history, Adds, Scans, Removals, Nobody
  <2>3. QED
    BY <1>1, <2>2, PcOthers DEF TypeOK, Destroy, StartScan, Start, Relock, Goto, lists, bits,
    local, history
<1>2. ASSUME NEW t \in Threads, NEW p \in Pids, AgentGone(t, p), calls < MaxCalls, calls' = calls
    + 1
     PROVE  PcInv'
  <2>2. PcOf(t)'
    BY <1>2 DEF TypeOK, PcInv, PcOf, AgentGone, StartScan, Start, Relock, Goto, lists, bits,
    local, history, Adds, Scans, Removals, Nobody
  <2>3. QED
    BY <1>2, <2>2, PcOthers DEF TypeOK, AgentGone, StartScan, Start, Relock, Goto, lists, bits,
    local, history
<1>3. ASSUME NEW t \in Threads, NEW p \in Pids, ProcessEnded(t, p), calls < MaxCalls, calls' =
    calls + 1
     PROVE  PcInv'
  <2>2. PcOf(t)'
    BY <1>3 DEF TypeOK, PcInv, PcOf, ProcessEnded, StartScan, Start, Relock, Goto, lists, bits,
    local, history, Adds, Scans, Removals, Nobody
  <2>3. QED
    BY <1>3, <2>2, PcOthers DEF TypeOK, ProcessEnded, StartScan, Start, Relock, Goto, lists,
    bits, local, history
<1>4. ASSUME NEW t \in Threads, NEW hs \in SUBSET Hooks \ {{}}, NEW p \in Pids, 
            AddProcess(t, hs, p), calls < MaxCalls, calls' = calls + 1
     PROVE  PcInv'
  <2>1. CASE UNCHANGED <<owner, local>>
    BY <2>1, BatchedFrame DEF local, PcInv, PcOf
  <2>2. ASSUME NEW active, Start(t, "add", active, active) PROVE PcInv'
    <3>1. batch[t] = {}
      BY <2>2 DEF PcInv, PcOf, Start, Relock
    <3>2. PcOf(t)'
      BY <2>2, <3>1 DEF TypeOK, PcOf, Start, Relock, Goto, Scans
    <3>3. QED
      BY <2>2, <3>2, PcOthers DEF TypeOK, Start, Relock, Goto
  <2>3. QED
    BY <1>4, <2>1, <2>2 DEF AddProcess
<1>5. ASSUME NEW t \in Threads, NEW hs \in SUBSET Hooks \ {{}}, NEW p \in Pids, 
            StartInstall(t, hs, p), calls < MaxCalls, calls' = calls + 1
     PROVE  PcInv'
  <2>2. PcOf(t)'
    BY <1>5 DEF TypeOK, PcInv, PcOf, StartInstall, Start, Relock, Goto, lists, bits, local,
    history, Adds, Scans, Removals, Nobody
  <2>3. QED
    BY <1>5, <2>2, PcOthers DEF TypeOK, StartInstall, Start, Relock, Goto, lists, bits, local,
    history
<1>6. ASSUME NEW t \in Threads, NEW hs \in SUBSET Hooks \ {{}}, NEW p \in Pids, 
            RemoveProcess(t, hs, p), calls < MaxCalls, calls' = calls + 1
     PROVE  PcInv'
  <2>2. PcOf(t)'
    BY <1>6 DEF TypeOK, PcInv, PcOf, RemoveProcess, Start, Relock, Goto, lists, bits, local,
    history, Adds, Scans, Removals, Nobody
  <2>3. QED
    BY <1>6, <2>2, PcOthers DEF TypeOK, RemoveProcess, Start, Relock, Goto, lists, bits, local,
    history
<1>7. ASSUME NEW t \in Threads, NEW hs \in SUBSET Hooks \ {{}}, NEW p \in Pids, 
            StartUninstall(t, hs, p), calls < MaxCalls, calls' = calls + 1
     PROVE  PcInv'
  <2>2. PcOf(t)'
    BY <1>7 DEF TypeOK, PcInv, PcOf, StartUninstall, Start, Relock, Goto, lists, bits, local,
    history, Adds, Scans, Removals, Nobody
  <2>3. QED
    BY <1>7, <2>2, PcOthers DEF TypeOK, StartUninstall, Start, Relock, Goto, lists, bits, local,
    history
<1>8. ASSUME NEW t \in Threads, NEW hs \in SUBSET Hooks \ {{}}, NEW p \in Pids, 
            StartEnable(t, hs, p), calls < MaxCalls, calls' = calls + 1
     PROVE  PcInv'
  <2>2. PcOf(t)'
    BY <1>8 DEF TypeOK, PcInv, PcOf, StartEnable, Start, Relock, Goto, lists, bits, local,
    history, Adds, Scans, Removals, Nobody
  <2>3. QED
    BY <1>8, <2>2, PcOthers DEF TypeOK, StartEnable, Start, Relock, Goto, lists, bits, local,
    history
<1>9. ASSUME NEW t \in Threads, AfterEvent(t), UNCHANGED calls PROVE PcInv'
  <2>1. Batched(t)' = Batched(t)
    BY <1>9, BatchedFrame DEF AfterEvent, Relock, Goto, lists, bits, local, history
  <2>2. PcOf(t)'
    BY <1>9, <2>1 DEF TypeOK, PcInv, PcOf, AfterEvent, Relock, Goto, lists, bits, local, history,
    Adds, Scans, Removals, Nobody
  <2>3. QED
    BY <1>9, <2>2, PcOthers DEF TypeOK, AfterEvent, Relock, Goto, lists, bits, local, history
<1>10. ASSUME NEW t \in Threads, EndItems(t), UNCHANGED calls PROVE PcInv'
  <2>1. Batched(t)' = Batched(t)
    BY <1>10, BatchedFrame DEF EndItems, Holds, Unlock, Goto, lists, bits, local, history
  <2>2. PcOf(t)'
    BY <1>10, <2>1 DEF TypeOK, PcInv, PcOf, EndItems, Holds, Unlock, Goto, lists, bits, local,
    history, Adds, Scans, Removals, Nobody
  <2>3. QED
    BY <1>10, <2>2, PcOthers DEF TypeOK, EndItems, Holds, Unlock, Goto, lists, bits, local,
    history
<1>11. ASSUME NEW t \in Threads, BatchExec(t), UNCHANGED calls PROVE PcInv'
  <2>1. Batched(t)' = Batched(t)
    BY <1>11, BatchedFrame DEF BatchExec, Goto, lists, bits, local, history
  <2>2. PcOf(t)'
    BY <1>11, <2>1 DEF TypeOK, PcInv, PcOf, BatchExec, Goto, lists, bits, local, history, Adds,
    Scans, Removals, Nobody
  <2>3. QED
    BY <1>11, <2>2, PcOthers DEF TypeOK, BatchExec, Goto, lists, bits, local, history
<1>12. ASSUME NEW t \in Threads, Executed(t), UNCHANGED calls PROVE PcInv'
  <2>1. Batched(t)' = Batched(t)
    BY <1>12, BatchedFrame DEF Executed, Relock, Goto, Forget, lists, bits, local, history
  <2>2. PcOf(t)'
    BY <1>12, <2>1 DEF TypeOK, PcInv, PcOf, Executed, Relock, Goto, Forget, lists, bits, local,
    history, Adds, Scans, Removals, Nobody
  <2>3. QED
    BY <1>12, <2>2, PcOthers DEF TypeOK, Executed, Relock, Goto, Forget, lists, bits, local,
    history
<1>13. ASSUME NEW t \in Threads, BatchFailed(t), UNCHANGED calls PROVE PcInv'
  <2>1. Batched(t)' = Batched(t)
    BY <1>13, BatchedFrame DEF BatchFailed, Holds, Unlock, Goto, lists, bits, local, history
  <2>2. PcOf(t)'
    BY <1>13, <2>1 DEF TypeOK, PcInv, PcOf, BatchFailed, Holds, Unlock, Goto, lists, bits, local,
    history, Adds, Scans, Removals, Nobody
  <2>3. QED
    BY <1>13, <2>2, PcOthers DEF TypeOK, BatchFailed, Holds, Unlock, Goto, lists, bits, local,
    history
<1>14. ASSUME NEW t \in Threads, Finish(t), UNCHANGED calls PROVE PcInv'
  <2>2. PcOf(t)'
    BY <1>14, NoBatchAtFinish DEF TypeOK, PcInv, PcOf, Finish, Unlock, Goto, lists, bits, local,
    history, Adds, Scans, Removals, Nobody
  <2>3. QED
    BY <1>14, <2>2, PcOthers DEF TypeOK, Finish, Unlock, Goto, lists, bits, local, history
<1>15. ASSUME NEW t \in Threads, SkipItem(t), UNCHANGED calls PROVE PcInv'
  <2>1. Batched(t)' = Batched(t)
    BY <1>15, BatchedFrame DEF SkipItem, Holds, lists, bits, local, history
  <2>2. PcOf(t)'
    BY <1>15, <2>1 DEF TypeOK, PcInv, PcOf, SkipItem, Holds, lists, bits, local, history, Adds,
    Scans, Removals, Nobody
  <2>3. QED
    BY <1>15, <2>2, PcOthers DEF TypeOK, SkipItem, Holds, lists, bits, local, history
<1>16. ASSUME NEW t \in Threads, InstallItem(t), UNCHANGED calls PROVE PcInv'
  <2>1. Batched(t)' = Batched(t)
    BY <1>16, BatchedFrame DEF InstallItem, Holds, Unlock, Goto, lists, bits, local, history
  <2>2. PcOf(t)'
    BY <1>16, <2>1 DEF TypeOK, PcInv, PcOf, InstallItem, Holds, Unlock, Goto, lists, bits, local,
    history, Adds, Scans, Removals, Nobody
  <2>3. QED
    BY <1>16, <2>2, PcOthers DEF TypeOK, InstallItem, Holds, Unlock, Goto, lists, bits, local,
    history
<1>17. ASSUME NEW t \in Threads, LookupFails(t), UNCHANGED calls PROVE PcInv'
  <2>1. Batched(t)' = Batched(t)
    BY <1>17, BatchedFrame DEF LookupFails, Holds, Unlock, Goto, lists, bits, local, history
  <2>2. PcOf(t)'
    BY <1>17, <2>1 DEF TypeOK, PcInv, PcOf, LookupFails, Holds, Unlock, Goto, lists, bits, local,
    history, Adds, Scans, Removals, Nobody
  <2>3. QED
    BY <1>17, <2>2, PcOthers DEF TypeOK, LookupFails, Holds, Unlock, Goto, lists, bits, local,
    history
<1>18. ASSUME NEW t \in Threads, SendAdd(t), UNCHANGED calls PROVE PcInv'
  <2>1. Batched(t)' = Batched(t)
    BY <1>18, BatchedFrame DEF SendAdd, Goto, lists, bits, local, history
  <2>2. PcOf(t)'
    BY <1>18, <2>1 DEF TypeOK, PcInv, PcOf, SendAdd, Goto, lists, bits, local, history, Adds,
    Scans, Removals, Nobody
  <2>3. QED
    BY <1>18, <2>2, PcOthers DEF TypeOK, SendAdd, Goto, lists, bits, local, history
<1>19. ASSUME NEW t \in Threads, SendActivate(t), UNCHANGED calls PROVE PcInv'
  <2>1. Batched(t)' = Batched(t)
    BY <1>19, BatchedFrame DEF SendActivate, Goto, lists, bits, local, history
  <2>2. PcOf(t)'
    BY <1>19, <2>1 DEF TypeOK, PcInv, PcOf, SendActivate, Goto, lists, bits, local, history,
    Adds, Scans, Removals, Nobody
  <2>3. QED
    BY <1>19, <2>2, PcOthers DEF TypeOK, SendActivate, Goto, lists, bits, local, history
<1>20. ASSUME NEW t \in Threads, Added(t), UNCHANGED calls PROVE PcInv'
  <2>1. Batched(t)' = Batched(t)
    BY <1>20, BatchedFrame DEF Added, Relock, Unlock, Goto, Forget, lists, bits, local, history
  <2>2. PcOf(t)'
    BY <1>20, <2>1 DEF TypeOK, PcInv, PcOf, Added, Relock, Unlock, Goto, Forget, lists, bits,
    local, history, Adds, Scans, Removals, Nobody
  <2>3. QED
    BY <1>20, <2>2, PcOthers DEF TypeOK, Added, Relock, Unlock, Goto, Forget, lists, bits, local,
    history
<1>21. ASSUME NEW t \in Threads, Remove(t), UNCHANGED calls PROVE PcInv'
  <2>1. Batched(t)' = Batched(t)
    BY <1>21, BatchedFrame DEF Remove, Holds, Unlock, Goto, MarkRemoved, lists, bits, local,
    history
  <2>2. PcOf(t)'
    BY <1>21, <2>1 DEF TypeOK, PcInv, PcOf, Remove, Holds, Unlock, Goto, MarkRemoved, lists,
    bits, local, history, Adds, Scans, Removals, Nobody, Found
  <2>3. QED
    BY <1>21, <2>2, PcOthers DEF TypeOK, Remove, Holds, Unlock, Goto, MarkRemoved, lists, bits,
    local, history
<1>22. ASSUME NEW t \in Threads, RemoveRemoved(t), UNCHANGED calls PROVE PcInv'
  <2>1. Batched(t)' = Batched(t)
    BY <1>22, BatchedFrame DEF RemoveRemoved, Holds, lists, bits, local, history
  <2>2. PcOf(t)'
    BY <1>22, <2>1 DEF TypeOK, PcInv, PcOf, RemoveRemoved, Holds, lists, bits, local, history,
    Adds, Scans, Removals, Nobody
  <2>3. QED
    BY <1>22, <2>2, PcOthers DEF TypeOK, RemoveRemoved, Holds, lists, bits, local, history
<1>23. ASSUME NEW t \in Threads, SkipHook(t), UNCHANGED calls PROVE PcInv'
  <2>1. Batched(t)' = Batched(t)
    BY <1>23, BatchedFrame DEF SkipHook, Holds, lists, bits, local, history
  <2>2. PcOf(t)'
    BY <1>23, <2>1 DEF TypeOK, PcInv, PcOf, SkipHook, Holds, lists, bits, local, history, Adds,
    Scans, Removals, Nobody
  <2>3. QED
    BY <1>23, <2>2, PcOthers DEF TypeOK, SkipHook, Holds, lists, bits, local, history
<1>24. ASSUME NEW t \in Threads, SendRemove(t), UNCHANGED calls PROVE PcInv'
  <2>1. Batched(t)' = Batched(t)
    BY <1>24, BatchedFrame DEF SendRemove, Goto, lists, bits, local, history
  <2>2. PcOf(t)'
    BY <1>24, <2>1 DEF TypeOK, PcInv, PcOf, SendRemove, Goto, lists, bits, local, history, Adds,
    Scans, Removals, Nobody
  <2>3. QED
    BY <1>24, <2>2, PcOthers DEF TypeOK, SendRemove, Goto, lists, bits, local, history
<1>25. ASSUME NEW t \in Threads, Removed(t), UNCHANGED calls PROVE PcInv'
  <2>1. Batched(t)' = Batched(t)
    BY <1>25, BatchedFrame DEF Removed, Relock, Goto, Forget, lists, bits, local, history
  <2>2. PcOf(t)'
    BY <1>25, <2>1 DEF TypeOK, PcInv, PcOf, Removed, Relock, Goto, Forget, lists, bits, local,
    history, Adds, Scans, Removals, Nobody
  <2>3. QED
    BY <1>25, <2>2, PcOthers DEF TypeOK, Removed, Relock, Goto, Forget, lists, bits, local,
    history
<1>26. ASSUME NEW t \in Threads, Enable(t), UNCHANGED calls PROVE PcInv'
  <2>1. Batched(t)' = Batched(t)
    BY <1>26, BatchedFrame DEF Enable, Holds, Unlock, Goto, lists, bits, local, history
  <2>2. PcOf(t)'
    BY <1>26, <2>1 DEF TypeOK, PcInv, PcOf, Enable, Holds, Unlock, Goto, lists, bits, local,
    history, Adds, Scans, Removals, Nobody
  <2>3. QED
    BY <1>26, <2>2, PcOthers DEF TypeOK, Enable, Holds, Unlock, Goto, lists, bits, local, history
<1>27. ASSUME NEW t \in Threads, SendEnable(t), UNCHANGED calls PROVE PcInv'
  <2>1. Batched(t)' = Batched(t)
    BY <1>27, BatchedFrame DEF SendEnable, Goto, lists, bits, local, history
  <2>2. PcOf(t)'
    BY <1>27, <2>1 DEF TypeOK, PcInv, PcOf, SendEnable, Goto, lists, bits, local, history, Adds,
    Scans, Removals, Nobody
  <2>3. QED
    BY <1>27, <2>2, PcOthers DEF TypeOK, SendEnable, Goto, lists, bits, local, history
<1>28. ASSUME NEW t \in Threads, Enabled(t), UNCHANGED calls PROVE PcInv'
  <2>1. Batched(t)' = Batched(t)
    BY <1>28, BatchedFrame DEF Enabled, Relock, Unlock, Goto, Forget, lists, bits, local, history
  <2>2. PcOf(t)'
    BY <1>28, <2>1 DEF TypeOK, PcInv, PcOf, Enabled, Relock, Unlock, Goto, Forget, lists, bits,
    local, history, Adds, Scans, Removals, Nobody
  <2>3. QED
    BY <1>28, <2>2, PcOthers DEF TypeOK, Enabled, Relock, Unlock, Goto, Forget, lists, bits,
    local, history
<1>29. ASSUME NEW m \in replies, HookStateChanged(m), UNCHANGED calls PROVE PcInv'
  BY <1>29, BatchedFrame DEF HookStateChanged, local, PcInv, PcOf
<1>30. QED
  BY <1>1, <1>2, <1>3, <1>4, <1>5, <1>6, <1>7, <1>8, <1>9, <1>10, <1>11, <1>12, <1>13, <1>14,
    <1>15, <1>16, <1>17, <1>18, <1>19, <1>20, <1>21, <1>22, <1>23, <1>24, <1>25, <1>26, <1>27,
    <1>28, <1>29 DEF Next, Begin, Step

----------------------------------------------------------------------------
\* RemoveHookItem takes the same item out of both lists.
LEMMA RemoveFromBoth ==
  ASSUME ListsAgree, NEW i \in Items, RemoveHookItem(i)
  PROVE  byId' = byId \ {i} /\ byProc' = byId'
BY DEF ListsAgree, RemoveHookItem, lists, SameKey

\* Every step keeps the two lists equal, with one item for a hook and a process.
LEMMA ListsStep ==
  ASSUME TypeOK, PcInv, ListsAgree, Next
  PROVE  ListsAgree'
<1>1. ASSUME NEW t \in Threads, NEW hs \in SUBSET Hooks \ {{}}, NEW p \in Pids,
            AddProcess(t, hs, p)
     PROVE  ListsAgree'
  <2>1. PICK new \in SUBSET Of(Missing(hs, p), p), kept \in SUBSET Items :
          /\ kept \subseteq new
          /\ \A i \in new : /\ state[i] = "absent"
                            /\ \A j \in Items : SameKey(i, j) /\ state[j] = "absent" => i <= j
          /\ byId' = byId \cup kept /\ byProc' = byProc \cup kept
    <3>1. PICK new \in SUBSET Of(Missing(hs, p), p), fails \in BOOLEAN :
            LET kept == IF fails THEN {i \in new : HookOf[i] \notin AutoActive} ELSE new IN
            /\ \A i \in new : /\ state[i] = "absent"
                              /\ \A j \in Items : SameKey(i, j) /\ state[j] = "absent" => i <= j
            /\ byId' = byId \cup kept /\ byProc' = byProc \cup kept
      BY <1>1 DEF AddProcess
    <3>2. new \in SUBSET Items
      BY DEF Of
    <3>3. QED
      BY <3>1, <3>2
  <2>2. kept \subseteq Items /\ \A i \in kept : PidOf[i] = p /\ HookOf[i] \in Missing(hs, p)
    BY <2>1 DEF Of
  <2>3. \A i, j \in kept : SameKey(i, j) => i = j
    <3>1. SUFFICES ASSUME NEW i \in kept, NEW j \in kept, SameKey(i, j) PROVE i = j
      OBVIOUS
    <3>2. i <= j /\ j <= i
      BY <2>1, <2>2, <3>1 DEF SameKey
    <3>3. i \in Nat /\ j \in Nat
      BY <2>2, SpyConstants
    <3>4. QED
      BY <3>2, <3>3
  <2>4. \A i \in kept, j \in byProc : ~SameKey(i, j)
    BY <2>2 DEF Missing, SameKey
  <2>5. QED
    BY <2>1, <2>3, <2>4 DEF ListsAgree, SameKey
<1>2. ASSUME NEW t \in Threads, RemoveRemoved(t) PROVE ListsAgree'
  <2>1. PICK i \in Found(t) : RemoveHookItem(i)
    BY <1>2 DEF RemoveRemoved
  <2>2. i \in Items
    BY <2>1, <1>2 DEF Found, TypeOK, RemoveRemoved, Holds
  <2>3. QED
    BY <2>1, <2>2, RemoveFromBoth DEF ListsAgree
<1>3. ASSUME NEW t \in Threads, Removed(t) PROVE ListsAgree'
  <2>1. cur[t] \in Items /\ RemoveHookItem(cur[t])
    BY <1>3 DEF Removed, Relock, PcInv, PcOf
  <2>2. QED
    BY <2>1, RemoveFromBoth DEF ListsAgree
<1>4. ASSUME NEW t \in Threads,
            \/ \E h \in Hooks : Destroy(t, h)
            \/ \E p \in Pids : AgentGone(t, p)
            \/ \E p \in Pids : ProcessEnded(t, p)
            \/ \E hs \in SUBSET Hooks \ {{}}, p \in Pids :
                 \/ StartInstall(t, hs, p)
                 \/ RemoveProcess(t, hs, p)
                 \/ StartUninstall(t, hs, p)
                 \/ StartEnable(t, hs, p)
     PROVE  ListsAgree'
  BY <1>4 DEF Destroy, StartScan, Start, Relock, Goto, AgentGone, ProcessEnded, StartInstall,
    RemoveProcess, StartUninstall, StartEnable, lists, local, ListsAgree, SameKey
<1>5. ASSUME NEW t \in Threads,
            \/ AfterEvent(t) \/ EndItems(t) \/ BatchExec(t) \/ Executed(t) \/ BatchFailed(t)
            \/ Finish(t) \/ SkipItem(t) \/ InstallItem(t) \/ LookupFails(t) \/ SendAdd(t)
            \/ SendActivate(t) \/ Added(t) \/ Remove(t) \/ SkipHook(t) \/ SendRemove(t)
            \/ Enable(t) \/ SendEnable(t) \/ Enabled(t)
     PROVE  ListsAgree'
  BY <1>5 DEF AfterEvent, Relock, Goto, EndItems, Holds, Unlock, BatchExec, Executed, Forget,
    BatchFailed, Finish, SkipItem, InstallItem, LookupFails, SendAdd, SendActivate, Added,
    Remove, MarkRemoved, SkipHook, SendRemove, Enable, SendEnable, Enabled, lists, local,
    ListsAgree, SameKey
<1>6. ASSUME NEW m \in replies, HookStateChanged(m) PROVE ListsAgree'
  BY <1>6 DEF HookStateChanged, local, Goto, Relock, lists, ListsAgree, SameKey
<1>7. QED
  BY <1>1, <1>2, <1>3, <1>4, <1>5, <1>6 DEF Next, Begin, Step

\* No step brings an item back that was removed or failed.
LEMMA EndedStep ==
  ASSUME TypeOK, PcInv, Next
  PROVE  \A i \in Items : state[i] \in Gone => state'[i] \in Gone
<1>1. ASSUME NEW t \in Threads, NEW hs \in SUBSET Hooks \ {{}}, NEW p \in Pids,
            AddProcess(t, hs, p)
     PROVE  \A i \in Items : state[i] \in Gone => state'[i] \in Gone
  <2>1. PICK kept \in SUBSET Items :
          /\ \A i \in kept : state[i] = "absent"
          /\ state' = [i \in Items |-> IF i \in kept THEN "Inactive" ELSE state[i]]
    <3>1. PICK new \in SUBSET Of(Missing(hs, p), p), fails \in BOOLEAN :
            LET kept == IF fails THEN {i \in new : HookOf[i] \notin AutoActive} ELSE new IN
            /\ \A i \in new : state[i] = "absent"
            /\ state' = [i \in Items |-> IF i \in kept THEN "Inactive" ELSE state[i]]
      BY <1>1 DEF AddProcess
    <3>2. new \in SUBSET Items
      BY DEF Of
    <3>3. QED
      BY <3>1, <3>2
  <2>2. QED
    BY <2>1 DEF Gone
<1>2. ASSUME NEW t \in Threads, BatchFailed(t) PROVE \A i \in Items : state[i] \in Gone =>
    state'[i] \in Gone
  BY <1>2 DEF BatchFailed, TypeOK, Gone
<1>3. ASSUME NEW t \in Threads, InstallItem(t) PROVE \A i \in Items : state[i] \in Gone =>
    state'[i] \in Gone
  BY <1>3 DEF InstallItem, Startable, TypeOK, Gone
<1>4. ASSUME NEW t \in Threads, LookupFails(t) PROVE \A i \in Items : state[i] \in Gone =>
    state'[i] \in Gone
  BY <1>4 DEF LookupFails, TypeOK, Gone
<1>5. ASSUME NEW t \in Threads, Added(t) PROVE \A i \in Items : state[i] \in Gone => state'[i]
    \in Gone
  BY <1>5 DEF Added, TypeOK, Gone
<1>6. ASSUME NEW t \in Threads, Remove(t) PROVE \A i \in Items : state[i] \in Gone => state'[i]
    \in Gone
  BY <1>6 DEF Remove, MarkRemoved, TypeOK, Gone
<1>7. ASSUME NEW t \in Threads, Enabled(t) PROVE \A i \in Items : state[i] \in Gone => state'[i]
    \in Gone
  BY <1>7 DEF Enabled, TypeOK, Gone
<1>8. ASSUME NEW m \in replies, HookStateChanged(m) PROVE \A i \in Items : state[i] \in Gone =>
    state'[i] \in Gone
  BY <1>8 DEF HookStateChanged, NewState, TypeOK, Gone
<1>9. ASSUME NEW t \in Threads,
            \/ \E h \in Hooks : Destroy(t, h)
            \/ \E p \in Pids : AgentGone(t, p)
            \/ \E p \in Pids : ProcessEnded(t, p)
            \/ \E hs \in SUBSET Hooks \ {{}}, p \in Pids :
                 \/ StartInstall(t, hs, p)
                 \/ RemoveProcess(t, hs, p)
                 \/ StartUninstall(t, hs, p)
                 \/ StartEnable(t, hs, p)
     PROVE  \A i \in Items : state[i] \in Gone => state'[i] \in Gone
  BY <1>9 DEF Destroy, StartScan, Start, Relock, Goto, AgentGone, ProcessEnded, StartInstall,
    RemoveProcess, StartUninstall, StartEnable, lists, local, bits, history
<1>10. ASSUME NEW t \in Threads,
            \/ AfterEvent(t) \/ EndItems(t) \/ BatchExec(t) \/ Executed(t) \/ Finish(t)
            \/ SkipItem(t) \/ SendAdd(t) \/ SendActivate(t) \/ RemoveRemoved(t) \/ SkipHook(t)
            \/ SendRemove(t) \/ Removed(t) \/ Enable(t) \/ SendEnable(t)
     PROVE  \A i \in Items : state[i] \in Gone => state'[i] \in Gone
  BY <1>10 DEF AfterEvent, Relock, Goto, EndItems, Holds, Unlock, BatchExec, Executed, Forget,
    Finish, SkipItem, SendAdd, SendActivate, RemoveRemoved, SkipHook, SendRemove, Removed,
    Enable, SendEnable, lists, local, bits, history
<1>11. QED
  BY <1>1, <1>2, <1>3, <1>4, <1>5, <1>6, <1>7, <1>8, <1>9, <1>10 DEF Next, Begin, Step

----------------------------------------------------------------------------
\* A step that decides no removal and overwrites no state of a removed item
\* keeps what holds of the removed ones.
LEMMA DoomFrame ==
  ASSUME DoomInv, RemovedOnceUnlessClobbered, doomed' = doomed, again' = again,
         clobbered \subseteq clobbered',
         \A i \in doomed : state'[i] # state[i] => state'[i] \in Gone /\ i \in clobbered'
  PROVE  DoomInv' /\ RemovedOnceUnlessClobbered'
BY DEF DoomInv, RemovedOnceUnlessClobbered

\* Every step keeps a removed item out of use, and decides its removal again only when
\* its state was overwritten.
LEMMA DoomStep ==
  ASSUME TypeOK, PcInv, DoomInv, RemovedOnceUnlessClobbered, Next
  PROVE  DoomInv' /\ RemovedOnceUnlessClobbered'
<1>1. ASSUME NEW t \in Threads, NEW hs \in SUBSET Hooks \ {{}}, NEW p \in Pids,
            AddProcess(t, hs, p)
     PROVE  DoomInv' /\ RemovedOnceUnlessClobbered'
  <2>1. PICK kept \in SUBSET Items :
          /\ \A i \in kept : state[i] = "absent"
          /\ state' = [i \in Items |-> IF i \in kept THEN "Inactive" ELSE state[i]]
    <3>1. PICK new \in SUBSET Of(Missing(hs, p), p), fails \in BOOLEAN :
            LET kept == IF fails THEN {i \in new : HookOf[i] \notin AutoActive} ELSE new IN
            /\ \A i \in new : state[i] = "absent"
            /\ state' = [i \in Items |-> IF i \in kept THEN "Inactive" ELSE state[i]]
      BY <1>1 DEF AddProcess
    <3>2. new \in SUBSET Items
      BY DEF Of
    <3>3. QED
      BY <3>1, <3>2
  <2>2. \A i \in doomed : state'[i] = state[i]
    BY <2>1 DEF DoomInv, TypeOK, Gone
  <2>3. UNCHANGED history
    BY <1>1 DEF AddProcess
  <2>4. QED
    BY <2>2, <2>3, DoomFrame DEF history
<1>2. ASSUME NEW t \in Threads, BatchFailed(t) PROVE DoomInv' /\ RemovedOnceUnlessClobbered'
  <2>1. PICK i \in todo[t] :
          IF state[i] \in (IF op[t] = "add" THEN Gone ELSE {"Error"})
          THEN UNCHANGED <<state, clobbered>>
          ELSE /\ state' = [state EXCEPT ![i] = "Error"]
               /\ clobbered' = IF state[i] = "Removed" THEN clobbered \cup {i} ELSE clobbered
    BY <1>2 DEF BatchFailed
  <2>2. UNCHANGED <<doomed, again>>
    BY <1>2 DEF BatchFailed
  <2>3. clobbered \subseteq clobbered'
    BY <2>1
  <2>4. \A j \in doomed : state'[j] # state[j] => state'[j] \in Gone /\ j \in clobbered'
    BY <2>1 DEF DoomInv, TypeOK, Gone
  <2>5. QED
    BY <2>2, <2>3, <2>4, DoomFrame
<1>3. ASSUME NEW t \in Threads, InstallItem(t) PROVE DoomInv' /\ RemovedOnceUnlessClobbered'
  <2>1. PICK i \in todo[t] :
          /\ state[i] \in Startable(op[t])
          /\ \A j \in Items : j # i => state'[j] = state[j]
    BY <1>3 DEF InstallItem, TypeOK
  <2>2. UNCHANGED history /\ \A j \in doomed : state'[j] = state[j]
    BY <1>3, <2>1 DEF InstallItem, Startable, DoomInv, TypeOK, Gone
  <2>3. QED
    BY <2>2, DoomFrame DEF history
<1>4. ASSUME NEW t \in Threads, LookupFails(t) PROVE DoomInv' /\ RemovedOnceUnlessClobbered'
  <2>1. UNCHANGED history /\ \A j \in doomed : state'[j] = state[j]
    BY <1>4 DEF LookupFails, DoomInv, TypeOK, Gone
  <2>2. QED
    BY <2>1, DoomFrame DEF history
<1>5. ASSUME NEW t \in Threads, Added(t) PROVE DoomInv' /\ RemovedOnceUnlessClobbered'
  <2>1. /\ UNCHANGED <<doomed, again>> /\ clobbered \subseteq clobbered'
        /\ \A j \in doomed : state'[j] # state[j] => state'[j] \in Gone /\ j \in clobbered'
    BY <1>5 DEF Added, DoomInv, TypeOK, Gone
  <2>2. QED
    BY <2>1, DoomFrame
<1>6. ASSUME NEW t \in Threads, Remove(t) PROVE DoomInv' /\ RemovedOnceUnlessClobbered'
  <2>1. PICK i \in Items :
          /\ state[i] # "Removed" /\ state' = [state EXCEPT ![i] = "Removed"]
          /\ doomed' = doomed \cup {i} /\ again' = again \cup ({i} \cap doomed)
    BY <1>6 DEF Remove, MarkRemoved, Found, TypeOK
  <2>2. UNCHANGED clobbered
    BY <1>6 DEF Remove
  <2>3. i \in doomed => i \in clobbered
    BY <2>1 DEF DoomInv
  <2>4. DoomInv'
    BY <2>1, <2>2 DEF DoomInv, TypeOK, Gone
  <2>5. QED
    BY <2>1, <2>2, <2>3, <2>4 DEF RemovedOnceUnlessClobbered
<1>7. ASSUME NEW t \in Threads, Enabled(t) PROVE DoomInv' /\ RemovedOnceUnlessClobbered'
  <2>1. UNCHANGED history /\ \A j \in doomed : state'[j] = state[j]
    BY <1>7 DEF Enabled, DoomInv, TypeOK, Gone, Forget
  <2>2. QED
    BY <2>1, DoomFrame DEF history
<1>8. ASSUME NEW m \in replies, HookStateChanged(m) PROVE DoomInv' /\ RemovedOnceUnlessClobbered'
  <2>1. UNCHANGED history /\ \A j \in doomed : state'[j] = state[j]
    BY <1>8 DEF HookStateChanged, NewState, DoomInv, TypeOK, Gone
  <2>2. QED
    BY <2>1, DoomFrame DEF history
<1>9. ASSUME NEW t \in Threads,
            \/ \E h \in Hooks : Destroy(t, h)
            \/ \E p \in Pids : AgentGone(t, p)
            \/ \E p \in Pids : ProcessEnded(t, p)
            \/ \E hs \in SUBSET Hooks \ {{}}, p \in Pids :
                 \/ StartInstall(t, hs, p)
                 \/ RemoveProcess(t, hs, p)
                 \/ StartUninstall(t, hs, p)
                 \/ StartEnable(t, hs, p)
     PROVE  DoomInv' /\ RemovedOnceUnlessClobbered'
  BY <1>9 DEF Destroy, StartScan, Start, Relock, Goto, AgentGone, ProcessEnded, StartInstall,
    RemoveProcess, StartUninstall, StartEnable, lists, local, bits, history, DoomInv,
    RemovedOnceUnlessClobbered
<1>10. ASSUME NEW t \in Threads,
            \/ AfterEvent(t) \/ EndItems(t) \/ BatchExec(t) \/ Executed(t) \/ Finish(t)
            \/ SkipItem(t) \/ SendAdd(t) \/ SendActivate(t) \/ RemoveRemoved(t) \/ SkipHook(t)
            \/ SendRemove(t) \/ Removed(t) \/ Enable(t) \/ SendEnable(t)
     PROVE  DoomInv' /\ RemovedOnceUnlessClobbered'
  BY <1>10 DEF AfterEvent, Relock, Goto, EndItems, Holds, Unlock, BatchExec, Executed, Forget,
    Finish, SkipItem, SendAdd, SendActivate, RemoveRemoved, SkipHook, SendRemove, Removed,
    Enable, SendEnable, lists, local, bits, history, DoomInv, RemovedOnceUnlessClobbered
<1>11. QED
  BY <1>1, <1>2, <1>3, <1>4, <1>5, <1>6, <1>7, <1>8, <1>9, <1>10 DEF Next, Begin, Step

----------------------------------------------------------------------------
\* What thread t is adding, and removing.
Adding(t, i) == op[t] \in Adds /\ (i \in batch[t] \/ (pc[t] = "adding" /\ cur[t] = i))
Removing(t, i) == op[t] \in Removals /\ (i \in batch[t] \/ (pc[t] = "removing" /\ cur[t] = i))

LEMMA ByThread ==
  ASSUME NEW i \in Items
  PROVE  /\ BeingAdded(i) <=> \E t \in Threads : Adding(t, i)
         /\ BeingAdded(i)' <=> \E t \in Threads : Adding(t, i)'
         /\ BeingRemoved(i) <=> \E t \in Threads : Removing(t, i)
         /\ BeingRemoved(i)' <=> \E t \in Threads : Removing(t, i)'
BY DEF BeingAdded, BeingRemoved, Adding, Removing

\* A step after which no thread adds a removed item that it did not add before.
LEMMA OvertakeFrame ==
  ASSUME TypeOK, OvertakeInv, doomed' = doomed, overtaken \subseteq overtaken',
         \A i \in doomed, t \in Threads : Adding(t, i)' => Adding(t, i)
  PROVE  OvertakeInv'
<1> SUFFICES ASSUME NEW i \in doomed, BeingAdded(i)' PROVE i \in overtaken'
  BY DEF OvertakeInv
<1>1. i \in Items
  BY DEF TypeOK
<1>2. BeingAdded(i)
  BY <1>1, ByThread
<1>3. QED
  BY <1>2 DEF OvertakeInv

\* Every step keeps the record of the removals that overtook an installation.
LEMMA OvertakeStep ==
  ASSUME TypeOK, PcInv, DoomInv, OvertakeInv, Next
  PROVE  OvertakeInv'
<1>1. ASSUME NEW t \in Threads, NEW h \in Hooks, Destroy(t, h) PROVE OvertakeInv'
  <2>1. UNCHANGED <<doomed, overtaken>>
    BY <1>1 DEF Destroy, StartScan, Start, Relock, Goto, history
  <2>2. \A i \in doomed, u \in Threads : Adding(u, i)' => Adding(u, i)
    <3>1. batch[t] = {}
      BY <1>1 DEF Destroy, StartScan, Start, Relock, Goto, PcInv, PcOf
    <3>2. QED
      BY <1>1, <3>1 DEF Adding, TypeOK, Destroy, StartScan, Start, Relock, Goto
  <2>3. QED
    BY <2>1, <2>2, OvertakeFrame
<1>2. ASSUME NEW t \in Threads, NEW p \in Pids, AgentGone(t, p) PROVE OvertakeInv'
  <2>1. UNCHANGED <<doomed, overtaken>>
    BY <1>2 DEF AgentGone, StartScan, Start, Relock, Goto, history
  <2>2. \A i \in doomed, u \in Threads : Adding(u, i)' => Adding(u, i)
    <3>1. batch[t] = {}
      BY <1>2 DEF AgentGone, StartScan, Start, Relock, Goto, PcInv, PcOf
    <3>2. QED
      BY <1>2, <3>1 DEF Adding, TypeOK, AgentGone, StartScan, Start, Relock, Goto
  <2>3. QED
    BY <2>1, <2>2, OvertakeFrame
<1>3. ASSUME NEW t \in Threads, NEW p \in Pids, ProcessEnded(t, p) PROVE OvertakeInv'
  <2>1. UNCHANGED <<doomed, overtaken>>
    BY <1>3 DEF ProcessEnded, StartScan, Start, Relock, Goto, history
  <2>2. \A i \in doomed, u \in Threads : Adding(u, i)' => Adding(u, i)
    <3>1. batch[t] = {}
      BY <1>3 DEF ProcessEnded, StartScan, Start, Relock, Goto, PcInv, PcOf
    <3>2. QED
      BY <1>3, <3>1 DEF Adding, TypeOK, ProcessEnded, StartScan, Start, Relock, Goto
  <2>3. QED
    BY <2>1, <2>2, OvertakeFrame
<1>4. ASSUME NEW t \in Threads, NEW hs \in SUBSET Hooks \ {{}}, NEW p \in Pids,
            AddProcess(t, hs, p)
     PROVE  OvertakeInv'
  <2>1. UNCHANGED <<doomed, overtaken>>
    BY <1>4 DEF AddProcess, history
  <2>2. CASE UNCHANGED <<owner, local>>
    BY <2>1, <2>2, OvertakeFrame DEF Adding, local
  <2>3. ASSUME NEW active, Start(t, "add", active, active) PROVE OvertakeInv'
    <3>1. batch[t] = {}
      BY <2>3 DEF Start, Relock, PcInv, PcOf
    <3>2. \A i \in doomed, u \in Threads : Adding(u, i)' => Adding(u, i)
      BY <2>3, <3>1 DEF Adding, TypeOK, Start, Relock, Goto
    <3>3. QED
      BY <2>1, <3>2, OvertakeFrame
  <2>4. QED
    BY <1>4, <2>2, <2>3 DEF AddProcess
<1>5. ASSUME NEW t \in Threads, NEW hs \in SUBSET Hooks \ {{}}, NEW p \in Pids,
            StartInstall(t, hs, p)
     PROVE  OvertakeInv'
  <2>1. UNCHANGED <<doomed, overtaken>>
    BY <1>5 DEF StartInstall, Start, Relock, Goto, history
  <2>2. \A i \in doomed, u \in Threads : Adding(u, i)' => Adding(u, i)
    <3>1. batch[t] = {}
      BY <1>5 DEF StartInstall, Start, Relock, Goto, PcInv, PcOf
    <3>2. QED
      BY <1>5, <3>1 DEF Adding, TypeOK, StartInstall, Start, Relock, Goto
  <2>3. QED
    BY <2>1, <2>2, OvertakeFrame
<1>6. ASSUME NEW t \in Threads, NEW hs \in SUBSET Hooks \ {{}}, NEW p \in Pids,
            RemoveProcess(t, hs, p)
     PROVE  OvertakeInv'
  <2>1. UNCHANGED <<doomed, overtaken>>
    BY <1>6 DEF RemoveProcess, Start, Relock, Goto, history
  <2>2. \A i \in doomed, u \in Threads : Adding(u, i)' => Adding(u, i)
    <3>1. batch[t] = {}
      BY <1>6 DEF RemoveProcess, Start, Relock, Goto, PcInv, PcOf
    <3>2. QED
      BY <1>6, <3>1 DEF Adding, TypeOK, RemoveProcess, Start, Relock, Goto
  <2>3. QED
    BY <2>1, <2>2, OvertakeFrame
<1>7. ASSUME NEW t \in Threads, NEW hs \in SUBSET Hooks \ {{}}, NEW p \in Pids,
            StartUninstall(t, hs, p)
     PROVE  OvertakeInv'
  <2>1. UNCHANGED <<doomed, overtaken>>
    BY <1>7 DEF StartUninstall, Start, Relock, Goto, history
  <2>2. \A i \in doomed, u \in Threads : Adding(u, i)' => Adding(u, i)
    <3>1. batch[t] = {}
      BY <1>7 DEF StartUninstall, Start, Relock, Goto, PcInv, PcOf
    <3>2. QED
      BY <1>7, <3>1 DEF Adding, TypeOK, StartUninstall, Start, Relock, Goto
  <2>3. QED
    BY <2>1, <2>2, OvertakeFrame
<1>8. ASSUME NEW t \in Threads, NEW hs \in SUBSET Hooks \ {{}}, NEW p \in Pids,
            StartEnable(t, hs, p)
     PROVE  OvertakeInv'
  <2>1. UNCHANGED <<doomed, overtaken>>
    BY <1>8 DEF StartEnable, Start, Relock, Goto, history
  <2>2. \A i \in doomed, u \in Threads : Adding(u, i)' => Adding(u, i)
    <3>1. batch[t] = {}
      BY <1>8 DEF StartEnable, Start, Relock, Goto, PcInv, PcOf
    <3>2. QED
      BY <1>8, <3>1 DEF Adding, TypeOK, StartEnable, Start, Relock, Goto
  <2>3. QED
    BY <2>1, <2>2, OvertakeFrame
<1>9. ASSUME NEW t \in Threads, AfterEvent(t) PROVE OvertakeInv'
  <2>1. UNCHANGED <<doomed, overtaken>>
    BY <1>9 DEF AfterEvent, Relock, Goto, lists, bits, local, history
  <2>2. \A i \in doomed, u \in Threads : Adding(u, i)' => Adding(u, i)
    BY <1>9 DEF Adding, TypeOK, AfterEvent, Relock, Goto, lists, bits, local, history, Adds,
    Scans, Removals
  <2>3. QED
    BY <2>1, <2>2, OvertakeFrame
<1>10. ASSUME NEW t \in Threads, EndItems(t) PROVE OvertakeInv'
  <2>1. UNCHANGED <<doomed, overtaken>>
    BY <1>10 DEF EndItems, Holds, Unlock, Goto, lists, bits, local, history
  <2>2. \A i \in doomed, u \in Threads : Adding(u, i)' => Adding(u, i)
    BY <1>10 DEF Adding, TypeOK, EndItems, Holds, Unlock, Goto, lists, bits, local, history,
    Adds, Scans, Removals
  <2>3. QED
    BY <2>1, <2>2, OvertakeFrame
<1>11. ASSUME NEW t \in Threads, BatchExec(t) PROVE OvertakeInv'
  <2>1. UNCHANGED <<doomed, overtaken>>
    BY <1>11 DEF BatchExec, Goto, lists, bits, local, history
  <2>2. \A i \in doomed, u \in Threads : Adding(u, i)' => Adding(u, i)
    BY <1>11 DEF Adding, TypeOK, BatchExec, Goto, lists, bits, local, history, Adds, Scans,
    Removals
  <2>3. QED
    BY <2>1, <2>2, OvertakeFrame
<1>12. ASSUME NEW t \in Threads, Executed(t) PROVE OvertakeInv'
  <2>1. UNCHANGED <<doomed, overtaken>>
    BY <1>12 DEF Executed, Relock, Goto, Forget, lists, bits, local, history
  <2>2. \A i \in doomed, u \in Threads : Adding(u, i)' => Adding(u, i)
    BY <1>12 DEF Adding, TypeOK, Executed, Relock, Goto, Forget, lists, bits, local, history,
    Adds, Scans, Removals
  <2>3. QED
    BY <2>1, <2>2, OvertakeFrame
<1>13. ASSUME NEW t \in Threads, BatchFailed(t) PROVE OvertakeInv'
  <2>1. UNCHANGED <<doomed, overtaken>>
    BY <1>13 DEF BatchFailed, Holds, Unlock, Goto, lists, bits, local, history
  <2>2. \A i \in doomed, u \in Threads : Adding(u, i)' => Adding(u, i)
    BY <1>13 DEF Adding, TypeOK, BatchFailed, Holds, Unlock, Goto, lists, bits, local, history,
    Adds, Scans, Removals
  <2>3. QED
    BY <2>1, <2>2, OvertakeFrame
<1>14. ASSUME NEW t \in Threads, Finish(t) PROVE OvertakeInv'
  <2>1. UNCHANGED <<doomed, overtaken>>
    BY <1>14 DEF Finish, Unlock, Goto, lists, bits, local, history
  <2>2. \A i \in doomed, u \in Threads : Adding(u, i)' => Adding(u, i)
    BY <1>14 DEF Adding, TypeOK, Finish, Unlock, Goto, lists, bits, local, history, Adds, Scans,
    Removals
  <2>3. QED
    BY <2>1, <2>2, OvertakeFrame
<1>15. ASSUME NEW t \in Threads, InstallItem(t) PROVE OvertakeInv'
  <2>1. UNCHANGED <<doomed, overtaken>>
    BY <1>15 DEF InstallItem, history
  <2>2. PICK j \in todo[t] :
          /\ state[j] \in Startable(op[t])
          /\ \A u \in Threads : u # t => pc'[u] = pc[u] /\ cur'[u] = cur[u]
          /\ cur'[t] = j \/ (pc' = pc /\ cur' = cur)
          /\ op' = op /\ batch' = batch
    BY <1>15 DEF InstallItem, Unlock, Goto, TypeOK
  <2>3. j \notin doomed
    BY <2>2 DEF DoomInv, Startable, Gone
  <2>4. ASSUME NEW i \in doomed, NEW u \in Threads, Adding(u, i)' PROVE Adding(u, i)
    <3>1. op'[u] = op[u] /\ batch'[u] = batch[u] /\ i # j
      BY <2>2, <2>3
    <3>2. CASE i \in batch'[u]
      BY <2>4, <3>1, <3>2 DEF Adding
    <3>3. CASE pc'[u] = "adding" /\ cur'[u] = i
      <4>1. pc'[u] = pc[u] /\ cur'[u] = cur[u]
        BY <2>2, <3>1, <3>3
      <4>2. QED
        BY <2>4, <3>1, <3>3, <4>1 DEF Adding
    <3>4. QED
      BY <2>4, <3>2, <3>3 DEF Adding
  <2>5. QED
    BY <2>1, <2>4, OvertakeFrame
<1>16. ASSUME NEW t \in Threads, LookupFails(t) PROVE OvertakeInv'
  <2>1. UNCHANGED <<doomed, overtaken>>
    BY <1>16 DEF LookupFails, Holds, Unlock, Goto, lists, bits, local, history
  <2>2. \A i \in doomed, u \in Threads : Adding(u, i)' => Adding(u, i)
    BY <1>16 DEF Adding, TypeOK, LookupFails, Holds, Unlock, Goto, lists, bits, local, history,
    Adds, Scans, Removals
  <2>3. QED
    BY <2>1, <2>2, OvertakeFrame
<1>17. ASSUME NEW t \in Threads, SendAdd(t) PROVE OvertakeInv'
  <2>1. UNCHANGED <<doomed, overtaken>>
    BY <1>17 DEF SendAdd, history
  <2>2. op[t] \in Adds
    BY <1>17 DEF SendAdd, PcInv, PcOf
  <2>3. \A i \in doomed, u \in Threads : Adding(u, i)' => Adding(u, i)
    BY <1>17, <2>2 DEF Adding, TypeOK, SendAdd, Goto
  <2>4. QED
    BY <2>1, <2>3, OvertakeFrame
<1>18. ASSUME NEW t \in Threads, SendActivate(t) PROVE OvertakeInv'
  <2>1. UNCHANGED <<doomed, overtaken>>
    BY <1>18 DEF SendActivate, Goto, lists, bits, local, history
  <2>2. \A i \in doomed, u \in Threads : Adding(u, i)' => Adding(u, i)
    BY <1>18 DEF Adding, TypeOK, SendActivate, Goto, lists, bits, local, history, Adds, Scans,
    Removals
  <2>3. QED
    BY <2>1, <2>2, OvertakeFrame
<1>19. ASSUME NEW t \in Threads, Added(t) PROVE OvertakeInv'
  <2>1. UNCHANGED <<doomed, overtaken>>
    BY <1>19 DEF Added, Relock, Unlock, Goto, Forget, lists, bits, local, history
  <2>2. \A i \in doomed, u \in Threads : Adding(u, i)' => Adding(u, i)
    BY <1>19 DEF Adding, TypeOK, Added, Relock, Unlock, Goto, Forget, lists, bits, local,
    history, Adds, Scans, Removals
  <2>3. QED
    BY <2>1, <2>2, OvertakeFrame
<1>20. ASSUME NEW t \in Threads, Remove(t) PROVE OvertakeInv'
  <2>1. PICK j \in Items :
          /\ doomed' = doomed \cup {j}
          /\ overtaken' = IF BeingAdded(j) THEN overtaken \cup {j} ELSE overtaken
    BY <1>20 DEF Remove, Found, TypeOK
  <2>2. op[t] \notin Adds /\ UNCHANGED <<op, batch>>
    BY <1>20 DEF Remove, Adds, Removals, Scans
  <2>3. \A u \in Threads, i \in Items : Adding(u, i)' => Adding(u, i)
    BY <1>20, <2>2 DEF Adding, TypeOK, Remove, Unlock, Goto
  <2>4. ASSUME NEW i \in doomed', BeingAdded(i)' PROVE i \in overtaken'
    <3>1. i \in Items
      BY <2>1 DEF TypeOK
    <3>2. BeingAdded(i)
      BY <2>3, <2>4, <3>1, ByThread
    <3>3. QED
      BY <2>1, <3>2 DEF OvertakeInv
  <2>5. QED
    BY <2>4 DEF OvertakeInv
<1>21. ASSUME NEW t \in Threads, SendRemove(t) PROVE OvertakeInv'
  <2>1. UNCHANGED <<doomed, overtaken>>
    BY <1>21 DEF SendRemove
  <2>2. op[t] \notin Adds
    BY <1>21 DEF SendRemove, PcInv, PcOf, Adds, Removals, Scans
  <2>3. \A i \in doomed, u \in Threads : Adding(u, i)' => Adding(u, i)
    BY <1>21, <2>2 DEF Adding, TypeOK, SendRemove, Goto
  <2>4. QED
    BY <2>1, <2>3, OvertakeFrame
<1>22. ASSUME NEW t \in Threads, Removed(t) PROVE OvertakeInv'
  <2>1. UNCHANGED <<doomed, overtaken>>
    BY <1>22 DEF Removed, Relock, Goto, Forget, lists, bits, local, history
  <2>2. \A i \in doomed, u \in Threads : Adding(u, i)' => Adding(u, i)
    BY <1>22 DEF Adding, TypeOK, Removed, Relock, Goto, Forget, lists, bits, local, history,
    Adds, Scans, Removals
  <2>3. QED
    BY <2>1, <2>2, OvertakeFrame
<1>23. ASSUME NEW t \in Threads, Enable(t) PROVE OvertakeInv'
  <2>1. UNCHANGED <<doomed, overtaken>>
    BY <1>23 DEF Enable, Holds, Unlock, Goto, lists, bits, local, history
  <2>2. \A i \in doomed, u \in Threads : Adding(u, i)' => Adding(u, i)
    BY <1>23 DEF Adding, TypeOK, Enable, Holds, Unlock, Goto, lists, bits, local, history, Adds,
    Scans, Removals
  <2>3. QED
    BY <2>1, <2>2, OvertakeFrame
<1>24. ASSUME NEW t \in Threads, SendEnable(t) PROVE OvertakeInv'
  <2>1. UNCHANGED <<doomed, overtaken>>
    BY <1>24 DEF SendEnable, Goto, lists, bits, local, history
  <2>2. \A i \in doomed, u \in Threads : Adding(u, i)' => Adding(u, i)
    BY <1>24 DEF Adding, TypeOK, SendEnable, Goto, lists, bits, local, history, Adds, Scans,
    Removals
  <2>3. QED
    BY <2>1, <2>2, OvertakeFrame
<1>25. ASSUME NEW t \in Threads, Enabled(t) PROVE OvertakeInv'
  <2>1. UNCHANGED <<doomed, overtaken>>
    BY <1>25 DEF Enabled, Relock, Unlock, Goto, Forget, lists, bits, local, history
  <2>2. \A i \in doomed, u \in Threads : Adding(u, i)' => Adding(u, i)
    BY <1>25 DEF Adding, TypeOK, Enabled, Relock, Unlock, Goto, Forget, lists, bits, local,
    history, Adds, Scans, Removals
  <2>3. QED
    BY <2>1, <2>2, OvertakeFrame
<1>26. ASSUME NEW t \in Threads,
            \/ SkipItem(t) \/ RemoveRemoved(t) \/ SkipHook(t)
     PROVE  OvertakeInv'
  <2>1. UNCHANGED <<doomed, overtaken, op, pc, cur, batch>>
    BY <1>26 DEF SkipItem, RemoveRemoved, SkipHook, local, history
  <2>2. QED
    BY <2>1, OvertakeFrame DEF Adding
<1>27. ASSUME NEW m \in replies, HookStateChanged(m) PROVE OvertakeInv'
  <2>1. UNCHANGED <<doomed, overtaken, op, pc, cur, batch>>
    BY <1>27 DEF HookStateChanged, local, history
  <2>2. QED
    BY <2>1, OvertakeFrame DEF Adding
<1>28. QED
  BY <1>1, <1>2, <1>3, <1>4, <1>5, <1>6, <1>7, <1>8, <1>9, <1>10, <1>11, <1>12, <1>13, <1>14,
    <1>15, <1>16, <1>17, <1>18, <1>19, <1>20, <1>21, <1>22, <1>23, <1>24, <1>25, <1>26, <1>27 DEF
    Next, Begin, Step

\* A step that decides no removal, accepts no command and ends no removal in progress.
LEMMA OrphanFrame ==
  ASSUME TypeOK, OrphanOnlyIfOvertaken, doomed' = doomed, cmd' = cmd,
         overtaken \subseteq overtaken', untold \subseteq untold',
         \A i \in doomed, t \in Threads : Removing(t, i) => Removing(t, i)'
  PROVE  OrphanOnlyIfOvertaken'
<1> SUFFICES ASSUME NEW i \in doomed, cmd[i] = "add"
             PROVE  i \in overtaken' \cup untold' \/ BeingRemoved(i)'
  BY DEF OrphanOnlyIfOvertaken
<1>1. i \in Items
  BY DEF TypeOK
<1>2. CASE i \in overtaken \cup untold
  BY <1>2
<1>3. CASE BeingRemoved(i)
  BY <1>1, <1>3, ByThread
<1>4. QED
  BY <1>2, <1>3 DEF OrphanOnlyIfOvertaken

\* Every step leaves the hook of a removed item behind only for the two reasons.
LEMMA OrphanStep ==
  ASSUME TypeOK, PcInv, OvertakeInv, OrphanOnlyIfOvertaken, Next
  PROVE  OrphanOnlyIfOvertaken'
<1>1. ASSUME NEW t \in Threads, NEW h \in Hooks, Destroy(t, h) PROVE OrphanOnlyIfOvertaken'
  <2>1. UNCHANGED <<doomed, cmd, overtaken, untold>>
    BY <1>1 DEF Destroy, StartScan, Start, Relock, Goto, history
  <2>2. \A i \in doomed, u \in Threads : Removing(u, i) => Removing(u, i)'
    <3>1. batch[t] = {}
      BY <1>1 DEF Destroy, StartScan, Start, Relock, Goto, PcInv, PcOf
    <3>2. QED
      BY <1>1, <3>1 DEF Removing, TypeOK, Destroy, StartScan, Start, Relock, Goto
  <2>3. QED
    BY <2>1, <2>2, OrphanFrame
<1>2. ASSUME NEW t \in Threads, NEW p \in Pids, AgentGone(t, p) PROVE OrphanOnlyIfOvertaken'
  <2>1. UNCHANGED <<doomed, cmd, overtaken, untold>>
    BY <1>2 DEF AgentGone, StartScan, Start, Relock, Goto, history
  <2>2. \A i \in doomed, u \in Threads : Removing(u, i) => Removing(u, i)'
    <3>1. batch[t] = {}
      BY <1>2 DEF AgentGone, StartScan, Start, Relock, Goto, PcInv, PcOf
    <3>2. QED
      BY <1>2, <3>1 DEF Removing, TypeOK, AgentGone, StartScan, Start, Relock, Goto
  <2>3. QED
    BY <2>1, <2>2, OrphanFrame
<1>3. ASSUME NEW t \in Threads, NEW p \in Pids, ProcessEnded(t, p) PROVE OrphanOnlyIfOvertaken'
  <2>1. UNCHANGED <<doomed, cmd, overtaken, untold>>
    BY <1>3 DEF ProcessEnded, StartScan, Start, Relock, Goto, history
  <2>2. \A i \in doomed, u \in Threads : Removing(u, i) => Removing(u, i)'
    <3>1. batch[t] = {}
      BY <1>3 DEF ProcessEnded, StartScan, Start, Relock, Goto, PcInv, PcOf
    <3>2. QED
      BY <1>3, <3>1 DEF Removing, TypeOK, ProcessEnded, StartScan, Start, Relock, Goto
  <2>3. QED
    BY <2>1, <2>2, OrphanFrame
<1>4. ASSUME NEW t \in Threads, NEW hs \in SUBSET Hooks \ {{}}, NEW p \in Pids,
            AddProcess(t, hs, p)
     PROVE  OrphanOnlyIfOvertaken'
  <2>1. UNCHANGED <<doomed, cmd, overtaken, untold>>
    BY <1>4 DEF AddProcess, history
  <2>2. CASE UNCHANGED <<owner, local>>
    BY <2>1, <2>2, OrphanFrame DEF Removing, local
  <2>3. ASSUME NEW active, Start(t, "add", active, active) PROVE OrphanOnlyIfOvertaken'
    <3>1. batch[t] = {} /\ pc[t] = "idle"
      BY <2>3 DEF Start, Relock, PcInv, PcOf
    <3>2. \A i \in doomed, u \in Threads : Removing(u, i) => Removing(u, i)'
      BY <2>3, <3>1 DEF Removing, TypeOK, Start, Relock, Goto
    <3>3. QED
      BY <2>1, <3>2, OrphanFrame
  <2>4. QED
    BY <1>4, <2>2, <2>3 DEF AddProcess
<1>5. ASSUME NEW t \in Threads, NEW hs \in SUBSET Hooks \ {{}}, NEW p \in Pids,
            StartInstall(t, hs, p)
     PROVE  OrphanOnlyIfOvertaken'
  <2>1. UNCHANGED <<doomed, cmd, overtaken, untold>>
    BY <1>5 DEF StartInstall, Start, Relock, Goto, history
  <2>2. \A i \in doomed, u \in Threads : Removing(u, i) => Removing(u, i)'
    <3>1. batch[t] = {}
      BY <1>5 DEF StartInstall, Start, Relock, Goto, PcInv, PcOf
    <3>2. QED
      BY <1>5, <3>1 DEF Removing, TypeOK, StartInstall, Start, Relock, Goto
  <2>3. QED
    BY <2>1, <2>2, OrphanFrame
<1>6. ASSUME NEW t \in Threads, NEW hs \in SUBSET Hooks \ {{}}, NEW p \in Pids,
            RemoveProcess(t, hs, p)
     PROVE  OrphanOnlyIfOvertaken'
  <2>1. UNCHANGED <<doomed, cmd, overtaken, untold>>
    BY <1>6 DEF RemoveProcess, Start, Relock, Goto, history
  <2>2. \A i \in doomed, u \in Threads : Removing(u, i) => Removing(u, i)'
    <3>1. batch[t] = {}
      BY <1>6 DEF RemoveProcess, Start, Relock, Goto, PcInv, PcOf
    <3>2. QED
      BY <1>6, <3>1 DEF Removing, TypeOK, RemoveProcess, Start, Relock, Goto
  <2>3. QED
    BY <2>1, <2>2, OrphanFrame
<1>7. ASSUME NEW t \in Threads, NEW hs \in SUBSET Hooks \ {{}}, NEW p \in Pids,
            StartUninstall(t, hs, p)
     PROVE  OrphanOnlyIfOvertaken'
  <2>1. UNCHANGED <<doomed, cmd, overtaken, untold>>
    BY <1>7 DEF StartUninstall, Start, Relock, Goto, history
  <2>2. \A i \in doomed, u \in Threads : Removing(u, i) => Removing(u, i)'
    <3>1. batch[t] = {}
      BY <1>7 DEF StartUninstall, Start, Relock, Goto, PcInv, PcOf
    <3>2. QED
      BY <1>7, <3>1 DEF Removing, TypeOK, StartUninstall, Start, Relock, Goto
  <2>3. QED
    BY <2>1, <2>2, OrphanFrame
<1>8. ASSUME NEW t \in Threads, NEW hs \in SUBSET Hooks \ {{}}, NEW p \in Pids,
            StartEnable(t, hs, p)
     PROVE  OrphanOnlyIfOvertaken'
  <2>1. UNCHANGED <<doomed, cmd, overtaken, untold>>
    BY <1>8 DEF StartEnable, Start, Relock, Goto, history
  <2>2. \A i \in doomed, u \in Threads : Removing(u, i) => Removing(u, i)'
    <3>1. batch[t] = {}
      BY <1>8 DEF StartEnable, Start, Relock, Goto, PcInv, PcOf
    <3>2. QED
      BY <1>8, <3>1 DEF Removing, TypeOK, StartEnable, Start, Relock, Goto
  <2>3. QED
    BY <2>1, <2>2, OrphanFrame
<1>9. ASSUME NEW t \in Threads, AfterEvent(t) PROVE OrphanOnlyIfOvertaken'
  <2>1. UNCHANGED <<doomed, cmd, overtaken, untold>>
    BY <1>9 DEF AfterEvent, Relock, Goto, lists, bits, local, history
  <2>2. \A i \in doomed, u \in Threads : Removing(u, i) => Removing(u, i)'
    BY <1>9 DEF Removing, TypeOK, AfterEvent, Relock, Goto, lists, bits, local, history, Adds,
    Scans, Removals
  <2>3. QED
    BY <2>1, <2>2, OrphanFrame
<1>10. ASSUME NEW t \in Threads, EndItems(t) PROVE OrphanOnlyIfOvertaken'
  <2>1. UNCHANGED <<doomed, cmd, overtaken, untold>>
    BY <1>10 DEF EndItems, Holds, Unlock, Goto, lists, bits, local, history
  <2>2. \A i \in doomed, u \in Threads : Removing(u, i) => Removing(u, i)'
    BY <1>10 DEF Removing, TypeOK, EndItems, Holds, Unlock, Goto, lists, bits, local, history,
    Adds, Scans, Removals
  <2>3. QED
    BY <2>1, <2>2, OrphanFrame
<1>11. ASSUME NEW t \in Threads, BatchExec(t) PROVE OrphanOnlyIfOvertaken'
  <2>1. PICK accepted \in BOOLEAN :
          /\ cmd' = IF accepted
                    THEN [i \in Items |-> IF i \notin batch[t] THEN cmd[i] ELSE
                                          IF op[t] \in Adds THEN "add" ELSE "remove"]
                    ELSE cmd
          /\ untold' = IF accepted \/ op[t] \in Adds THEN untold ELSE untold \cup batch[t]
    BY <1>11 DEF BatchExec
  <2>2. /\ UNCHANGED <<doomed, overtaken>> /\ pc[t] = "exec"
        /\ \A i \in Items, u \in Threads : u # t => (Removing(u, i) => Removing(u, i)')
    BY <1>11 DEF BatchExec, Goto, TypeOK, Removing
  <2>3. ASSUME NEW i \in doomed, cmd'[i] = "add"
        PROVE  i \in overtaken' \cup untold' \/ BeingRemoved(i)'
    <3>1. i \in Items
      BY DEF TypeOK
    <3>2. CASE i \in batch[t] /\ op[t] \in Adds
      <4>1. BeingAdded(i)
        BY <3>2 DEF BeingAdded
      <4>2. QED
        BY <2>2, <4>1 DEF OvertakeInv
    <3>3. CASE i \in batch[t] /\ op[t] \notin Adds
      BY <2>1, <2>3, <3>1, <3>3
    <3>4. CASE i \notin batch[t]
      <4>1. cmd[i] = "add"
        BY <2>1, <2>3, <3>1, <3>4
      <4>2. i \in overtaken' \cup untold' \/ BeingRemoved(i)
        BY <2>1, <2>2, <4>1 DEF OrphanOnlyIfOvertaken
      <4>3. ~Removing(t, i)
        BY <2>2, <3>4 DEF Removing
      <4>4. BeingRemoved(i) => BeingRemoved(i)'
        BY <2>2, <3>1, <4>3, ByThread
      <4>5. QED
        BY <4>2, <4>4
    <3>5. QED
      BY <3>2, <3>3, <3>4
  <2>4. QED
    BY <2>2, <2>3 DEF OrphanOnlyIfOvertaken
<1>12. ASSUME NEW t \in Threads, Executed(t) PROVE OrphanOnlyIfOvertaken'
  <2>1. UNCHANGED <<doomed, cmd, overtaken, untold>>
    BY <1>12 DEF Executed, Relock, Goto, Forget, lists, bits, local, history
  <2>2. \A i \in doomed, u \in Threads : Removing(u, i) => Removing(u, i)'
    BY <1>12 DEF Removing, TypeOK, Executed, Relock, Goto, Forget, lists, bits, local, history,
    Adds, Scans, Removals
  <2>3. QED
    BY <2>1, <2>2, OrphanFrame
<1>13. ASSUME NEW t \in Threads, BatchFailed(t) PROVE OrphanOnlyIfOvertaken'
  <2>1. UNCHANGED <<doomed, cmd, overtaken, untold, op, batch, cur>>
    BY <1>13 DEF BatchFailed
  <2>2. pc[t] = "failed" /\ \A u \in Threads : u # t => pc'[u] = pc[u]
    BY <1>13 DEF BatchFailed, Holds, Unlock, Goto, TypeOK
  <2>3. \A i \in doomed, u \in Threads : Removing(u, i) => Removing(u, i)'
    BY <2>1, <2>2 DEF Removing
  <2>4. QED
    BY <2>1, <2>3, OrphanFrame
<1>14. ASSUME NEW t \in Threads, Finish(t) PROVE OrphanOnlyIfOvertaken'
  <2>0. batch[t] = {} /\ pc[t] # "removing"
    BY <1>14, NoBatchAtFinish DEF Finish
  <2>1. UNCHANGED <<doomed, cmd, overtaken, untold>>
    BY <1>14 DEF Finish, Unlock, Goto, lists, bits, local, history
  <2>2. \A i \in doomed, u \in Threads : Removing(u, i) => Removing(u, i)'
    BY <1>14, <2>0 DEF Removing, TypeOK, Finish, Unlock, Goto, lists, bits, local, history, Adds,
    Scans, Removals
  <2>3. QED
    BY <2>1, <2>2, OrphanFrame
<1>15. ASSUME NEW t \in Threads, InstallItem(t) PROVE OrphanOnlyIfOvertaken'
  <2>1. UNCHANGED <<doomed, cmd, overtaken, untold, op, batch>>
    BY <1>15 DEF InstallItem, history
  <2>2. pc[t] = "pick" /\ \A u \in Threads : u # t => pc'[u] = pc[u] /\ cur'[u] = cur[u]
    BY <1>15 DEF InstallItem, Holds, Unlock, Goto, TypeOK
  <2>3. \A i \in doomed, u \in Threads : Removing(u, i) => Removing(u, i)'
    BY <2>1, <2>2 DEF Removing
  <2>4. QED
    BY <2>1, <2>3, OrphanFrame
<1>16. ASSUME NEW t \in Threads, LookupFails(t) PROVE OrphanOnlyIfOvertaken'
  <2>1. UNCHANGED <<doomed, cmd, overtaken, untold>>
    BY <1>16 DEF LookupFails, Holds, Unlock, Goto, lists, bits, local, history
  <2>2. \A i \in doomed, u \in Threads : Removing(u, i) => Removing(u, i)'
    BY <1>16 DEF Removing, TypeOK, LookupFails, Holds, Unlock, Goto, lists, bits, local, history,
    Adds, Scans, Removals
  <2>3. QED
    BY <2>1, <2>2, OrphanFrame
<1>17. ASSUME NEW t \in Threads, SendAdd(t) PROVE OrphanOnlyIfOvertaken'
  <2>1. /\ UNCHANGED <<doomed, overtaken, untold>> /\ pc[t] = "adding"
        /\ \A i \in Items : i # cur[t] => cmd'[i] = cmd[i]
    BY <1>17 DEF SendAdd, history, TypeOK
  <2>2. op[t] \in Adds /\ op[t] \notin Removals
    BY <2>1 DEF PcInv, PcOf, Adds, Removals, Scans
  <2>3. \A i \in Items, u \in Threads : Removing(u, i) => Removing(u, i)'
    BY <1>17, <2>2 DEF SendAdd, Goto, TypeOK, Removing
  <2>4. ASSUME NEW i \in doomed, cmd'[i] = "add"
        PROVE  i \in overtaken' \cup untold' \/ BeingRemoved(i)'
    <3>1. i \in Items
      BY DEF TypeOK
    <3>2. CASE i = cur[t]
      <4>1. BeingAdded(i)
        BY <2>1, <2>2, <3>2 DEF BeingAdded
      <4>2. QED
        BY <2>1, <4>1 DEF OvertakeInv
    <3>3. CASE i # cur[t]
      <4>1. i \in overtaken' \cup untold' \/ BeingRemoved(i)
        BY <2>1, <2>4, <3>1, <3>3 DEF OrphanOnlyIfOvertaken
      <4>2. BeingRemoved(i) => BeingRemoved(i)'
        BY <2>3, <3>1, ByThread
      <4>3. QED
        BY <4>1, <4>2
    <3>4. QED
      BY <3>2, <3>3
  <2>5. QED
    BY <2>1, <2>4 DEF OrphanOnlyIfOvertaken
<1>18. ASSUME NEW t \in Threads, SendActivate(t) PROVE OrphanOnlyIfOvertaken'
  <2>1. UNCHANGED <<doomed, cmd, overtaken, untold>>
    BY <1>18 DEF SendActivate, Goto, lists, bits, local, history
  <2>2. \A i \in doomed, u \in Threads : Removing(u, i) => Removing(u, i)'
    BY <1>18 DEF Removing, TypeOK, SendActivate, Goto, lists, bits, local, history, Adds, Scans,
    Removals
  <2>3. QED
    BY <2>1, <2>2, OrphanFrame
<1>19. ASSUME NEW t \in Threads, Added(t) PROVE OrphanOnlyIfOvertaken'
  <2>1. UNCHANGED <<doomed, cmd, overtaken, untold>>
    BY <1>19 DEF Added, Relock, Unlock, Goto, Forget, lists, bits, local, history
  <2>2. \A i \in doomed, u \in Threads : Removing(u, i) => Removing(u, i)'
    BY <1>19 DEF Removing, TypeOK, Added, Relock, Unlock, Goto, Forget, lists, bits, local,
    history, Adds, Scans, Removals
  <2>3. QED
    BY <2>1, <2>2, OrphanFrame
<1>20. ASSUME NEW t \in Threads, Remove(t) PROVE OrphanOnlyIfOvertaken'
  <2>1. PICK j \in Items :
          /\ doomed' = doomed \cup {j} /\ cur' = [cur EXCEPT ![t] = j]
          /\ untold' = IF op[t] \in {"gone", "ended"} THEN untold \cup {j} ELSE untold
    BY <1>20 DEF Remove, Found, TypeOK
  <2>2. /\ UNCHANGED <<op, batch, cmd>> /\ overtaken \subseteq overtaken' /\ op[t] \in Removals
        /\ pc[t] = "pick"
        /\ pc' = [pc EXCEPT ![t] = IF op[t] \in {"gone", "ended"} THEN "removed" ELSE "removing"]
    BY <1>20 DEF Remove, Holds, Unlock, Goto
  <2>3. \A u \in Threads, i \in Items : Removing(u, i) => Removing(u, i)'
    BY <2>1, <2>2 DEF Removing, TypeOK
  <2>4. j \in untold' \/ BeingRemoved(j)'
    <3>1. CASE op[t] \in {"gone", "ended"}
      BY <2>1, <3>1
    <3>2. CASE op[t] \notin {"gone", "ended"}
      <4>1. Removing(t, j)'
        BY <2>1, <2>2, <3>2 DEF Removing, TypeOK
      <4>2. QED
        BY <4>1, ByThread
    <3>3. QED
      BY <3>1, <3>2
  <2>5. ASSUME NEW i \in doomed, cmd[i] = "add"
        PROVE  i \in overtaken' \cup untold' \/ BeingRemoved(i)'
    <3>1. i \in Items
      BY DEF TypeOK
    <3>2. BeingRemoved(i) => BeingRemoved(i)'
      BY <2>3, <3>1, ByThread
    <3>3. QED
      BY <2>1, <2>2, <2>5, <3>2 DEF OrphanOnlyIfOvertaken
  <2>6. QED
    BY <2>1, <2>2, <2>4, <2>5 DEF OrphanOnlyIfOvertaken
<1>21. ASSUME NEW t \in Threads, SendRemove(t) PROVE OrphanOnlyIfOvertaken'
  <2>1. /\ UNCHANGED <<doomed, overtaken, op>> /\ untold \subseteq untold'
        /\ pc[t] = "removing" /\ op[t] \in Removals
        /\ \/ batch' = [batch EXCEPT ![t] = @ \cup {cur[t]}] /\ UNCHANGED cmd
           \/ UNCHANGED batch /\ cmd' = [cmd EXCEPT ![cur[t]] = "remove"]
           \/ UNCHANGED <<batch, cmd>> /\ cur[t] \in untold'
    BY <1>21 DEF SendRemove, PcInv, PcOf
  <2>2. \A i \in Items, u \in Threads : u # t => (Removing(u, i) => Removing(u, i)')
    BY <1>21 DEF SendRemove, Goto, TypeOK, Removing
  <2>3. \A i \in Items : i # cur[t] => cmd'[i] = cmd[i] /\ (Removing(t, i) => Removing(t, i)')
    BY <1>21, <2>1 DEF SendRemove, Goto, TypeOK, Removing
  <2>4. ASSUME NEW i \in doomed, cmd'[i] = "add"
        PROVE  i \in overtaken' \cup untold' \/ BeingRemoved(i)'
    <3>1. i \in Items
      BY DEF TypeOK
    <3>2. CASE i # cur[t]
      <4>1. i \in overtaken' \cup untold' \/ BeingRemoved(i)
        BY <2>1, <2>3, <2>4, <3>1, <3>2 DEF OrphanOnlyIfOvertaken
      <4>2. BeingRemoved(i) => BeingRemoved(i)'
        BY <2>2, <2>3, <3>1, <3>2, ByThread
      <4>3. QED
        BY <4>1, <4>2
    <3>3. CASE i = cur[t] /\ batch' = [batch EXCEPT ![t] = @ \cup {cur[t]}]
      <4>1. Removing(t, i)'
        BY <2>1, <3>3 DEF Removing, TypeOK
      <4>2. QED
        BY <3>1, <4>1, ByThread
    <3>4. CASE i = cur[t] /\ cmd' = [cmd EXCEPT ![cur[t]] = "remove"]
      BY <2>4, <3>1, <3>4 DEF TypeOK
    <3>5. CASE i = cur[t] /\ cur[t] \in untold'
      BY <3>5
    <3>6. QED
      BY <2>1, <3>2, <3>3, <3>4, <3>5
  <2>5. QED
    BY <2>1, <2>4 DEF OrphanOnlyIfOvertaken
<1>22. ASSUME NEW t \in Threads, Removed(t) PROVE OrphanOnlyIfOvertaken'
  <2>1. UNCHANGED <<doomed, cmd, overtaken, untold>>
    BY <1>22 DEF Removed, Relock, Goto, Forget, lists, bits, local, history
  <2>2. \A i \in doomed, u \in Threads : Removing(u, i) => Removing(u, i)'
    BY <1>22 DEF Removing, TypeOK, Removed, Relock, Goto, Forget, lists, bits, local, history,
    Adds, Scans, Removals
  <2>3. QED
    BY <2>1, <2>2, OrphanFrame
<1>23. ASSUME NEW t \in Threads, Enable(t) PROVE OrphanOnlyIfOvertaken'
  <2>1. UNCHANGED <<doomed, cmd, overtaken, untold>>
    BY <1>23 DEF Enable, Holds, Unlock, Goto, lists, bits, local, history
  <2>2. \A i \in doomed, u \in Threads : Removing(u, i) => Removing(u, i)'
    BY <1>23 DEF Removing, TypeOK, Enable, Holds, Unlock, Goto, lists, bits, local, history,
    Adds, Scans, Removals
  <2>3. QED
    BY <2>1, <2>2, OrphanFrame
<1>24. ASSUME NEW t \in Threads, SendEnable(t) PROVE OrphanOnlyIfOvertaken'
  <2>1. UNCHANGED <<doomed, cmd, overtaken, untold>>
    BY <1>24 DEF SendEnable, Goto, lists, bits, local, history
  <2>2. \A i \in doomed, u \in Threads : Removing(u, i) => Removing(u, i)'
    BY <1>24 DEF Removing, TypeOK, SendEnable, Goto, lists, bits, local, history, Adds, Scans,
    Removals
  <2>3. QED
    BY <2>1, <2>2, OrphanFrame
<1>25. ASSUME NEW t \in Threads, Enabled(t) PROVE OrphanOnlyIfOvertaken'
  <2>1. UNCHANGED <<doomed, cmd, overtaken, untold>>
    BY <1>25 DEF Enabled, Relock, Unlock, Goto, Forget, lists, bits, local, history
  <2>2. \A i \in doomed, u \in Threads : Removing(u, i) => Removing(u, i)'
    BY <1>25 DEF Removing, TypeOK, Enabled, Relock, Unlock, Goto, Forget, lists, bits, local,
    history, Adds, Scans, Removals
  <2>3. QED
    BY <2>1, <2>2, OrphanFrame
<1>26. ASSUME NEW t \in Threads,
            \/ SkipItem(t) \/ RemoveRemoved(t) \/ SkipHook(t)
     PROVE  OrphanOnlyIfOvertaken'
  <2>1. UNCHANGED <<doomed, cmd, overtaken, untold, op, pc, cur, batch>>
    BY <1>26 DEF SkipItem, RemoveRemoved, SkipHook, local, history
  <2>2. QED
    BY <2>1, OrphanFrame DEF Removing
<1>27. ASSUME NEW m \in replies, HookStateChanged(m) PROVE OrphanOnlyIfOvertaken'
  <2>1. UNCHANGED <<doomed, cmd, overtaken, untold, op, pc, cur, batch>>
    BY <1>27 DEF HookStateChanged, local, history
  <2>2. QED
    BY <2>1, OrphanFrame DEF Removing
<1>28. QED
  BY <1>1, <1>2, <1>3, <1>4, <1>5, <1>6, <1>7, <1>8, <1>9, <1>10, <1>11, <1>12, <1>13, <1>14,
    <1>15, <1>16, <1>17, <1>18, <1>19, <1>20, <1>21, <1>22, <1>23, <1>24, <1>25, <1>26, <1>27 DEF
    Next, Begin, Step

----------------------------------------------------------------------------
LEMMA InitIInv == Init => IInv
<1> SUFFICES ASSUME Init PROVE IInv
  OBVIOUS
<1>1. TypeOK
  BY SpyConstants DEF Init, TypeOK, States, Nobody
<1>2. PcInv
  BY DEF Init, PcInv, PcOf, Scans
<1>3. /\ ListsAgree /\ DoomInv /\ RemovedOnceUnlessClobbered /\ OvertakeInv
      /\ OrphanOnlyIfOvertaken
  BY DEF Init, ListsAgree, DoomInv, RemovedOnceUnlessClobbered, OvertakeInv, OrphanOnlyIfOvertaken
<1>4. QED
  BY <1>1, <1>2, <1>3 DEF IInv

LEMMA NextIInv == IInv /\ [Next]_vars => IInv'
<1> SUFFICES ASSUME IInv, [Next]_vars PROVE IInv'
  OBVIOUS
<1>1. CASE Next
  BY <1>1, TypeStep, PcStep, ListsStep, DoomStep, OvertakeStep, OrphanStep DEF IInv
<1>2. CASE UNCHANGED vars
  <2>1. UNCHANGED <<owner, byId, byProc, state, installing, uninstalling, op, pc, todo, mine, cur,
                    index, ok, batch, used, cmd, replies, calls, doomed, again, overtaken, untold,
                    clobbered>>
    BY <1>2 DEF vars, lists, bits, local, history
  <2>2. TypeOK'
    BY <2>1 DEF IInv, TypeOK
  <2>3. PcInv'
    BY <2>1, BatchedFrame DEF IInv, PcInv, PcOf
  <2>4. ListsAgree' /\ DoomInv' /\ RemovedOnceUnlessClobbered'
    BY <2>1 DEF IInv, ListsAgree, DoomInv, RemovedOnceUnlessClobbered, SameKey
  <2>5. OvertakeInv'
    BY <2>1 DEF IInv, OvertakeInv, BeingAdded
  <2>6. OrphanOnlyIfOvertaken'
    BY <2>1 DEF IInv, OrphanOnlyIfOvertaken, BeingRemoved
  <2>7. QED
    BY <2>2, <2>3, <2>4, <2>5, <2>6 DEF IInv
<1>3. QED
  BY <1>1, <1>2

LEMMA Invariance == Spec => []IInv
BY InitIInv, NextIInv, PTL DEF Spec

\* The variables of the hook items stay in their types (CHookItem, SpyMgr.h).
THEOREM TypeCorrect == Spec => []TypeOK
<1>1. IInv => TypeOK
  BY DEF IInv
<1>2. QED
  BY <1>1, Invariance, PTL

\* For any number of calls, threads and items RemoveHookItem leaves the two
\* lists with the same items, one for a hook and a process.
THEOREM ListsAlwaysAgree == Spec => []ListsAgree
<1>1. IInv => ListsAgree
  BY DEF IInv
<1>2. QED
  BY <1>1, Invariance, PTL

\* An item that is removed or failed never hooks again: every operation reads
\* the state again after it gave the lock up, before it installs.
THEOREM EndedStaysEnded == Spec => EndedForGood
<1>1. IInv /\ [Next]_vars => [\A i \in Items : state[i] \in Gone => state'[i] \in Gone]_vars
  BY EndedStep DEF IInv
<1>2. QED
  BY <1>1, Invariance, PTL DEF Spec, EndedForGood

\* A removal is decided once, unless a failed installation overwrote stRemoved.
THEOREM RemovedOnce == Spec => []RemovedOnceUnlessClobbered
<1>1. IInv => RemovedOnceUnlessClobbered
  BY DEF IInv
<1>2. QED
  BY <1>1, Invariance, PTL

\* An agent keeps the hook of a removed item only when it could not be told or
\* the removal overtook the installation.
THEOREM OrphanNeedsOvertaking == Spec => []OrphanOnlyIfOvertaken
<1>1. IInv => OrphanOnlyIfOvertaken
  BY DEF IInv
<1>2. QED
  BY <1>1, Invariance, PTL
=============================================================================
