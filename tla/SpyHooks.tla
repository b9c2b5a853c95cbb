------------------------------ MODULE SpyHooks ------------------------------
(***************************************************************************)
(* The hook items of CNktDvSpyMgr (Source/Engine/SpyMgr/SpyMgrHookFuncs.cpp *)
(* and SpyMgrHookItems.cpp): one item per hook and process, kept in a list *)
(* by hook id and in a list by hook and process, both under the manager's  *)
(* lock.  Every operation gives the lock up (CNktAutoFastMutexReverse)     *)
(* while it raises OnHookStateChanged and sends a command to the agent, so *)
(* other operations run between two steps of one.  The transport delivers  *)
(* the commands of a process in the order they were accepted, so the agent *)
(* ends as the last accepted command of an item says.  A call of           *)
(* HookInstall or HookUninstall for several processes treats one process   *)
(* after the other; here it is a call for one of them.                     *)
(***************************************************************************)
EXTENDS Naturals, FiniteSets

CONSTANTS Threads,   \* threads inside the operations
          Items,     \* bound: the CHookItem objects there may ever be
          HookOf, PidOf,  \* the hook and the process of each
          AutoActive, \* the hooks with flgAutoHookActive
          MaxCalls   \* bound: calls of the operations

ASSUME SpyConstants == /\ Items \subseteq Nat \ {0} /\ IsFiniteSet(Items) /\ Threads \subseteq Nat \ {0}
                       /\ HookOf \in [Items -> Nat] /\ PidOf \in [Items -> Nat]
                       /\ MaxCalls \in Nat

VARIABLES
  owner,      \* the thread inside the manager's lock
  byId, byProc,  \* aHookItemsListByHookId, aHookItemsListByHookAndProc
  state,      \* nState
  installing, uninstalling,  \* items with bit 0, with bit 1 of nInternalFlags
  op, pc,     \* the operation of each thread and where it is in it
  todo, mine, \* what is left of its enumeration, and its cHookItemsList
  cur, index, \* its item, and HookEnableProcess' nIndex
  ok,         \* hRes of its command
  batch, used,  \* commands waiting for its batch, and bBatchHookUsed
  cmd,        \* the last command on an item that the transport accepted
  replies,    \* HookStateChange messages of the agents
  calls,      \* calls so far
  \* history: items of which a removal was decided, once and again; that a thread was adding
  \* meanwhile; whose agent was not told; whose stRemoved was overwritten
  doomed, again, overtaken, untold, clobbered

lists == <<byId, byProc>>
bits == <<installing, uninstalling>>
local == <<op, pc, todo, mine, cur, index, ok, batch, used>>
history == <<doomed, again, overtaken, untold, clobbered>>
vars == <<owner, lists, state, bits, local, cmd, replies, calls, history>>

Nobody == 0
Hooks == {HookOf[i] : i \in Items}
Pids == {PidOf[i] : i \in Items}
Adds == {"add", "install"}
Scans == {"destroy", "gone", "ended"}       \* scan the list again after each item
Removals == Scans \cup {"remove", "uninstall"}
States == {"absent", "Inactive", "Activating", "Active", "Disabled", "NotAvailable", "Error", "Removed"}
Live == {"Activating", "Active", "Disabled"}
Gone == {"Removed", "Error"}
SameKey(i, j) == HookOf[i] = HookOf[j] /\ PidOf[i] = PidOf[j]
Of(hs, p) == {i \in Items : HookOf[i] \in hs /\ PidOf[i] = p}
Many(S) == \E i, j \in S : i # j

Init ==
  /\ owner = Nobody /\ byId = {} /\ byProc = {}
  /\ state = [i \in Items |-> "absent"]
  /\ installing = {} /\ uninstalling = {}
  /\ op = [t \in Threads |-> "none"] /\ pc = [t \in Threads |-> "idle"]
  /\ todo = [t \in Threads |-> {}] /\ mine = [t \in Threads |-> {}]
  /\ cur = [t \in Threads |-> 0] /\ index = [t \in Threads |-> 0]
  /\ ok = [t \in Threads |-> TRUE]
  /\ batch = [t \in Threads |-> {}] /\ used = [t \in Threads |-> FALSE]
  /\ cmd = [i \in Items |-> "none"] /\ replies = {} /\ calls = 0
  /\ doomed = {} /\ again = {} /\ overtaken = {} /\ untold = {} /\ clobbered = {}

----------------------------------------------------------------------------
(* The lock and the steps all operations share *)

Holds(t, p) == owner = t /\ pc[t] = p
Goto(t, p) == pc' = [pc EXCEPT ![t] = p]
Unlock(t, p) == owner' = Nobody /\ Goto(t, p)           \* into a window without the lock
Relock(t, p, q) == owner = Nobody /\ pc[t] = p /\ owner' = t /\ Goto(t, q)

\* The result of a command is used up: so are the variables that go with it.
Forget(t) == /\ cur' = [cur EXCEPT ![t] = 0] /\ index' = [index EXCEPT ![t] = 0]
             /\ ok' = [ok EXCEPT ![t] = TRUE]

\* Takes the lock and starts operation o on S; m is the list of items it builds.
Start(t, o, S, m) ==
  /\ Relock(t, "idle", "pick") /\ op' = [op EXCEPT ![t] = o]
  /\ todo' = [todo EXCEPT ![t] = S] /\ mine' = [mine EXCEPT ![t] = m]
  /\ UNCHANGED <<cur, index, ok, batch, used>>

\* After the window of an error event the operation goes on.
AfterEvent(t) ==
  /\ Relock(t, "error", "pick") \/ Relock(t, "batchError", "failed")
  /\ UNCHANGED <<lists, state, bits, op, todo, mine, cur, index, ok, batch, used, cmd, replies, history>>

\* dwBatchHookId # 0: the agent keeps the commands until SendBatchHookExecCommand.
Batched(t) == Many(IF op[t] = "remove" THEN {HookOf[i] : i \in mine[t]} ELSE mine[t])

\* The end of the loop over the items: unlocks and executes the batch.
EndItems(t) ==
  /\ Holds(t, "pick") /\ todo[t] = {} /\ Batched(t) /\ used[t]
  /\ Unlock(t, "exec")
  /\ UNCHANGED <<lists, state, bits, op, todo, mine, cur, index, ok, batch, used, cmd, replies, history>>

\* SendBatchHookExecCommand; the wait for the agent may fail after the message was accepted.
BatchExec(t) ==
  /\ pc[t] = "exec" /\ Goto(t, "executed")
  /\ \E accepted, res \in BOOLEAN :
       /\ res => accepted
       /\ ok' = [ok EXCEPT ![t] = res]
       /\ cmd' = IF accepted
                 THEN [i \in Items |-> IF i \notin batch[t] THEN cmd[i] ELSE
                                       IF op[t] \in Adds THEN "add" ELSE "remove"]
                 ELSE cmd
       /\ replies' = IF accepted /\ op[t] \in Adds
                     THEN replies \cup (batch[t] \X {"Installed"}) ELSE replies
       /\ untold' = IF accepted \/ op[t] \in Adds THEN untold ELSE untold \cup batch[t]
  /\ batch' = [batch EXCEPT ![t] = {}]
  /\ UNCHANGED <<owner, lists, state, bits, op, todo, mine, cur, index, used, doomed, again,
                 overtaken, clobbered>>

\* A failed batch ends every item of an installation.
Executed(t) ==
  /\ Relock(t, "executed", IF op[t] \in Adds /\ ~ok[t] THEN "failed" ELSE "done")
  /\ todo' = [todo EXCEPT ![t] = IF op[t] \in Adds /\ ~ok[t] THEN mine[t] ELSE {}]
  /\ Forget(t)
  /\ UNCHANGED <<lists, state, bits, op, mine, batch, used, cmd, replies, history>>

\* HookInstall leaves alone the items in stError only, HookAddProcess those in stRemoved too.
BatchFailed(t) ==
  /\ Holds(t, "failed")
  /\ \E i \in todo[t] :
       /\ todo' = [todo EXCEPT ![t] = @ \ {i}]
       /\ IF state[i] \in (IF op[t] = "add" THEN Gone ELSE {"Error"})
          THEN UNCHANGED <<owner, pc, state, clobbered>>
          ELSE /\ state' = [state EXCEPT ![i] = "Error"]
               /\ clobbered' = IF state[i] = "Removed" THEN clobbered \cup {i} ELSE clobbered
               /\ Unlock(t, "batchError")
  /\ UNCHANGED <<lists, bits, op, mine, cur, index, ok, batch, used, cmd, replies, doomed, again,
                 overtaken, untold>>

\* What a removal still has to remove.
Found(t) == CASE op[t] = "uninstall" -> todo[t]
              [] op[t] = "ended" -> todo[t] \cap byProc
              [] op[t] = "remove" -> {i \in todo[t] \cap byProc : state[i] # "Removed"}
              [] OTHER -> {i \in todo[t] \cap byId : state[i] # "Removed"}

\* The end of the call: its flags are reset and it leaves the lock.
Finish(t) ==
  /\ owner = t
  /\ \/ pc[t] = "done"
     \/ pc[t] = "failed" /\ todo[t] = {}
     \/ /\ pc[t] = "pick" /\ op[t] \notin Scans /\ todo[t] = {}
        /\ ~(Batched(t) /\ used[t])
     \/ /\ pc[t] = "pick" /\ op[t] \in Scans /\ Found(t) = {}
  /\ Unlock(t, "idle")
  /\ installing' = IF op[t] \in Adds THEN installing \ mine[t] ELSE installing
  /\ uninstalling' = IF op[t] = "uninstall" THEN uninstalling \ mine[t] ELSE uninstalling
  /\ op' = [op EXCEPT ![t] = "none"] /\ used' = [used EXCEPT ![t] = FALSE]
  /\ todo' = [todo EXCEPT ![t] = {}] /\ mine' = [mine EXCEPT ![t] = {}]
  /\ UNCHANGED <<lists, state, cur, index, ok, batch, cmd, replies, history>>

----------------------------------------------------------------------------
(* HookAddProcess and HookInstall *)

\* Mutant: the item is made without a lookup of the one there is.
MissingAlways(hs, p) == hs

Missing(hs, p) == {h \in hs : ~\E i \in byProc : HookOf[i] = h /\ PidOf[i] = p}

\* Items for the hooks of hs that have none in process p.  When one cannot be
\* made the items to activate are removed again; the others stay.
AddProcess(t, hs, p) ==
  /\ owner = Nobody /\ pc[t] = "idle"
  /\ \E new \in SUBSET Of(Missing(hs, p), p), fails \in BOOLEAN :
       LET kept == IF fails THEN {i \in new : HookOf[i] \notin AutoActive} ELSE new
           active == IF fails THEN {} ELSE {i \in new : HookOf[i] \in AutoActive} IN
       /\ \A i \in new : /\ state[i] = "absent"
                         /\ \A j \in Items : SameKey(i, j) /\ state[j] = "absent" => i <= j
       /\ ~fails <=> Missing(hs, p) = {HookOf[i] : i \in new}
       /\ byId' = byId \cup kept /\ byProc' = byProc \cup kept
       /\ state' = [i \in Items |-> IF i \in kept THEN "Inactive" ELSE state[i]]
       /\ installing' = installing \cup active
       /\ IF fails THEN UNCHANGED <<owner, local>> ELSE Start(t, "add", active, active)
  /\ UNCHANGED <<uninstalling, cmd, replies, history>>

StartInstall(t, hs, p) ==
  LET free == {i \in byId \cap Of(hs, p) : state[i] \in {"Inactive", "NotAvailable"}} \ installing IN
  /\ Start(t, "install", free, free)
  /\ installing' = installing \cup free
  /\ UNCHANGED <<lists, state, uninstalling, cmd, replies, history>>

\* Mutant: the state is not read again after another call ran.
StartableAlways(o) == States

Startable(o) == IF o = "add" THEN {"Inactive"} ELSE {"Inactive", "NotAvailable"}

\* "may be sent in another thread", and removed in another one.
SkipItem(t) ==
  /\ Holds(t, "pick") /\ op[t] \in Adds
  /\ \E i \in todo[t] : /\ state[i] \notin Startable(op[t])
                        /\ todo' = [todo EXCEPT ![t] = @ \ {i}]
  /\ UNCHANGED <<owner, lists, state, bits, op, pc, mine, cur, index, ok, batch, used, cmd, replies,
                 history>>

\* The function's address is known, or its module is not loaded (yet).
InstallItem(t) ==
  /\ Holds(t, "pick") /\ op[t] \in Adds
  /\ \E i \in todo[t], found \in BOOLEAN :
       /\ state[i] \in Startable(op[t])
       /\ todo' = [todo EXCEPT ![t] = @ \ {i}]
       /\ IF found
          THEN /\ state' = [state EXCEPT ![i] = "Activating"]
               /\ used' = [used EXCEPT ![t] = TRUE]
               /\ cur' = [cur EXCEPT ![t] = i] /\ Unlock(t, "adding")
          ELSE /\ UNCHANGED used
               /\ IF state[i] = "NotAvailable"
                  THEN UNCHANGED <<state, owner, pc, cur>>
                  ELSE /\ state' = [state EXCEPT ![i] = "NotAvailable"]
                       /\ cur' = [cur EXCEPT ![t] = i] /\ Unlock(t, "activating")
  /\ UNCHANGED <<lists, bits, op, mine, index, ok, batch, cmd, replies, history>>

\* The modules of an item that waits for its own cannot be enumerated.
LookupFails(t) ==
  /\ Holds(t, "pick") /\ op[t] = "install"
  /\ \E i \in todo[t] : /\ state[i] = "NotAvailable"
                        /\ todo' = [todo EXCEPT ![t] = @ \ {i}]
                        /\ state' = [state EXCEPT ![i] = "Error"]
  /\ Unlock(t, "error")
  /\ UNCHANGED <<lists, bits, op, mine, cur, index, ok, batch, used, cmd, replies, history>>

\* OnHookStateChanged, then SendAddHookCommand: a sync wait may fail after the message was accepted.
SendAdd(t) ==
  /\ pc[t] = "adding" /\ Goto(t, "added")
  /\ \E accepted, res \in BOOLEAN :
       /\ res => accepted
       /\ ok' = [ok EXCEPT ![t] = res]
       /\ IF accepted /\ Batched(t)
          THEN batch' = [batch EXCEPT ![t] = @ \cup {cur[t]}] /\ UNCHANGED <<cmd, replies>>
          ELSE IF accepted
          THEN /\ cmd' = [cmd EXCEPT ![cur[t]] = "add"]
               /\ replies' = replies \cup {<<cur[t], "Installed">>}
               /\ UNCHANGED batch
          ELSE UNCHANGED <<batch, cmd, replies>>
  /\ UNCHANGED <<owner, lists, state, bits, op, todo, mine, cur, index, used, history>>

\* OnHookStateChanged, then ActivateAgent.
SendActivate(t) ==
  /\ pc[t] = "activating" /\ Goto(t, "added")
  /\ \E res \in BOOLEAN : ok' = [ok EXCEPT ![t] = res]
  /\ UNCHANGED <<owner, lists, state, bits, op, todo, mine, cur, index, batch, used, cmd, replies,
                 history>>

\* A failure is tested against the local nOldState, not against nState.
Added(t) ==
  /\ \/ ok[t] /\ Relock(t, "added", "pick") /\ UNCHANGED <<state, clobbered>>
     \/ /\ ~ok[t] /\ owner = Nobody /\ pc[t] = "added" /\ Unlock(t, "error")
        /\ state' = [state EXCEPT ![cur[t]] = "Error"]
        /\ clobbered' = IF state[cur[t]] = "Removed" THEN clobbered \cup {cur[t]} ELSE clobbered
  /\ Forget(t)
  /\ UNCHANGED <<lists, bits, op, todo, mine, batch, used, cmd, replies, doomed, again, overtaken, untold>>

----------------------------------------------------------------------------
(* HookDestroy ("destroy"), HookRemoveBecauseAgentShutdown ("gone"),         *)
(* HookRemoveProcessItems ("ended"), HookRemoveProcess ("remove"),           *)
(* HookUninstall ("uninstall")                                               *)

StartScan(t, o, S) ==
  /\ o \in Scans /\ Start(t, o, S, {})
  /\ UNCHANGED <<lists, state, bits, cmd, replies, history>>

Destroy(t, h) == StartScan(t, "destroy", {i \in Items : HookOf[i] = h})
AgentGone(t, p) == StartScan(t, "gone", {i \in Items : PidOf[i] = p})
ProcessEnded(t, p) == StartScan(t, "ended", {i \in Items : PidOf[i] = p})

RemoveProcess(t, hs, p) ==
  /\ Start(t, "remove", Of(hs, p), Of(hs, p))
  /\ UNCHANGED <<lists, state, bits, cmd, replies, history>>

StartUninstall(t, hs, p) ==
  LET taken == {i \in byId \cap Of(hs, p) : state[i] \in Live} \ uninstalling IN
  /\ Start(t, "uninstall", taken, taken)
  /\ uninstalling' = uninstalling \cup taken
  /\ UNCHANGED <<lists, state, installing, cmd, replies, history>>

\* RemoveHookItem(dwHookId): out of the list by id, then the item with its hook
\* and process out of the other.
RemoveHookItem(i) ==
  IF i \notin byId THEN UNCHANGED lists
  ELSE /\ byId' = byId \ {i}
       /\ \/ \E j \in byProc : SameKey(i, j) /\ byProc' = byProc \ {j}
          \/ (\A j \in byProc : ~SameKey(i, j)) /\ UNCHANGED byProc

\* A call for some hooks looks each up once.
Left(t, i) == IF op[t] \in {"remove", "enable"} THEN {j \in todo[t] : HookOf[j] # HookOf[i]}
              ELSE IF op[t] = "uninstall" THEN todo[t] \ {i} ELSE todo[t]

\* A command to add i is on its way, or waits for its batch.
BeingAdded(i) == \E t \in Threads : op[t] \in Adds /\ (i \in batch[t] \/ (pc[t] = "adding" /\ cur[t] = i))

\* Mutant: the state is left for RemoveHookItem to end.
MarkRemovedLater(i) == UNCHANGED state

MarkRemoved(i) == state' = [state EXCEPT ![i] = "Removed"]

\* nState := stRemoved; the lock is given up for the event and the command.
Remove(t) ==
  /\ Holds(t, "pick") /\ op[t] \in Removals
  /\ \E i \in Found(t) :
       /\ state[i] # "Removed" /\ MarkRemoved(i)
       /\ todo' = [todo EXCEPT ![t] = Left(t, i)]
       /\ cur' = [cur EXCEPT ![t] = i]
       /\ doomed' = doomed \cup {i} /\ again' = again \cup ({i} \cap doomed)
       /\ overtaken' = IF BeingAdded(i) THEN overtaken \cup {i} ELSE overtaken
       /\ untold' = IF op[t] \in {"gone", "ended"} THEN untold \cup {i} ELSE untold
  /\ used' = [used EXCEPT ![t] = TRUE]
  /\ Unlock(t, IF op[t] \in {"gone", "ended"} THEN "removed" ELSE "removing")
  /\ UNCHANGED <<lists, bits, op, mine, index, ok, batch, cmd, replies, clobbered>>

\* An item another thread is removing is taken off the lists at once.
RemoveRemoved(t) ==
  /\ Holds(t, "pick") /\ op[t] \in {"uninstall", "ended"}
  /\ \E i \in Found(t) : /\ state[i] = "Removed"
                         /\ todo' = [todo EXCEPT ![t] = Left(t, i)]
                         /\ RemoveHookItem(i)
  /\ UNCHANGED <<owner, state, bits, op, pc, mine, cur, index, ok, batch, used, cmd, replies, history>>

\* No item of the hook is listed, or another thread removes it, or it is not live.
SkipHook(t) ==
  /\ Holds(t, "pick") /\ op[t] \in {"remove", "enable"}
  /\ \E i \in todo[t] :
       /\ \A j \in byProc : SameKey(i, j) =>
            IF op[t] = "remove" THEN state[j] = "Removed" ELSE state[j] \notin Live
       /\ todo' = [todo EXCEPT ![t] = Left(t, i)]
  /\ UNCHANGED <<owner, lists, state, bits, op, pc, mine, cur, index, ok, batch, used, cmd, replies,
                 history>>

\* OnHookStateChanged, then SendRemoveHookCommand; its result is ignored.
SendRemove(t) ==
  /\ pc[t] = "removing" /\ Goto(t, "removed")
  /\ \E accepted \in BOOLEAN :
       /\ untold' = IF accepted THEN untold ELSE untold \cup {cur[t]}
       /\ IF accepted /\ Batched(t)
          THEN batch' = [batch EXCEPT ![t] = @ \cup {cur[t]}] /\ UNCHANGED cmd
          ELSE /\ cmd' = IF accepted THEN [cmd EXCEPT ![cur[t]] = "remove"] ELSE cmd
               /\ UNCHANGED batch
  /\ UNCHANGED <<owner, lists, state, bits, op, todo, mine, cur, index, ok, used, replies, doomed,
                 again, overtaken, clobbered>>

Removed(t) ==
  /\ Relock(t, "removed", "pick") /\ RemoveHookItem(cur[t]) /\ Forget(t)
  /\ UNCHANGED <<state, bits, op, todo, mine, batch, used, cmd, replies, history>>

----------------------------------------------------------------------------
(* HookEnableProcess, and the agent's HookStateChange                        *)

StartEnable(t, hs, p) ==
  /\ Start(t, "enable", Of(hs, p), {})
  /\ UNCHANGED <<lists, state, bits, cmd, replies, history>>

\* aHookItemsListByHookAndProc is sorted by hook and process.
Before(i, j) == HookOf[i] < HookOf[j] \/ (HookOf[i] = HookOf[j] /\ PidOf[i] < PidOf[j])
IndexOf(i) == Cardinality({j \in byProc : Before(j, i)})
At(n) == {j \in byProc : IndexOf(j) = n}

Enable(t) ==
  /\ Holds(t, "pick") /\ op[t] = "enable"
  /\ \E i \in todo[t] \cap byProc :
       /\ state[i] \in Live
       /\ todo' = [todo EXCEPT ![t] = Left(t, i)]
       /\ cur' = [cur EXCEPT ![t] = i] /\ index' = [index EXCEPT ![t] = IndexOf(i)]
  /\ Unlock(t, "enabling")
  /\ UNCHANGED <<lists, state, bits, op, mine, ok, batch, used, cmd, replies, history>>

\* SendEnableHookCommand, to enable or to disable.
SendEnable(t) ==
  /\ pc[t] = "enabling" /\ Goto(t, "enabled")
  /\ \E accepted, res \in BOOLEAN, reply \in {"Enabled", "Disabled"} :
       /\ res => accepted
       /\ ok' = [ok EXCEPT ![t] = res]
       /\ replies' = IF accepted THEN replies \cup {<<cur[t], reply>>} ELSE replies
  /\ UNCHANGED <<owner, lists, state, bits, op, todo, mine, cur, index, batch, used, cmd, history>>

\* The result goes to the item at nIndex, which the list may have moved; past
\* its end the access is undefined, and whatever it hits is not an item.
Enabled(t) ==
  /\ \/ /\ ok[t] \/ \A j \in At(index[t]) : state[j] \in Gone
        /\ Relock(t, "enabled", "pick") /\ UNCHANGED state
     \/ /\ ~ok[t] /\ owner = Nobody /\ pc[t] = "enabled" /\ Unlock(t, "error")
        /\ \E j \in At(index[t]) : state[j] \notin Gone /\ state' = [state EXCEPT ![j] = "Error"]
  /\ Forget(t)
  /\ UNCHANGED <<lists, bits, op, todo, mine, batch, used, cmd, replies, history>>

\* Mutant: Installed is taken whatever the state.
NewStateAny(change, old) ==
  CASE change = "Installed" -> "Active"
    [] change = "Enabled" /\ old = "Disabled" -> "Active"
    [] change = "Disabled" /\ old = "Active" -> "Disabled"
    [] OTHER -> old

NewState(change, old) ==
  CASE change = "Installed" /\ old = "Activating" -> "Active"
    [] change = "Enabled" /\ old = "Disabled" -> "Active"
    [] change = "Disabled" /\ old = "Active" -> "Disabled"
    [] OTHER -> old

\* OnAgentMsg_HookStateChanged, inside the lock; its event comes after.
HookStateChanged(m) ==
  /\ owner = Nobody /\ replies' = replies \ {m}
  /\ state' = IF m[1] \in byId THEN [state EXCEPT ![m[1]] = NewState(m[2], @)] ELSE state
  /\ UNCHANGED <<owner, lists, bits, local, cmd, history>>

----------------------------------------------------------------------------
Step(t) ==
  \/ AfterEvent(t) \/ EndItems(t) \/ BatchExec(t) \/ Executed(t) \/ BatchFailed(t) \/ Finish(t)
  \/ SkipItem(t) \/ InstallItem(t) \/ LookupFails(t) \/ SendAdd(t) \/ SendActivate(t) \/ Added(t)
  \/ Remove(t) \/ RemoveRemoved(t) \/ SkipHook(t) \/ SendRemove(t) \/ Removed(t)
  \/ Enable(t) \/ SendEnable(t) \/ Enabled(t)

Begin(t) ==
  /\ calls < MaxCalls /\ calls' = calls + 1
  /\ \/ \E h \in Hooks : Destroy(t, h)
     \/ \E p \in Pids : AgentGone(t, p) \/ ProcessEnded(t, p)
     \/ \E hs \in SUBSET Hooks \ {{}}, p \in Pids :
          \/ AddProcess(t, hs, p) \/ StartInstall(t, hs, p)
          \/ RemoveProcess(t, hs, p) \/ StartUninstall(t, hs, p) \/ StartEnable(t, hs, p)

Next == \/ \E t \in Threads : Begin(t)
        \/ UNCHANGED calls /\ \E t \in Threads : Step(t)
        \/ UNCHANGED calls /\ \E m \in replies : HookStateChanged(m)

Spec == Init /\ [][Next]_vars

----------------------------------------------------------------------------
(* Properties *)

TypeOK ==
  /\ owner \in Threads \cup {Nobody}
  /\ byId \subseteq Items /\ byProc \subseteq Items /\ state \in [Items -> States]
  /\ installing \subseteq Items /\ uninstalling \subseteq Items
  /\ op \in [Threads -> Adds \cup Removals \cup {"none", "enable"}]
  /\ pc \in [Threads -> {"idle", "pick", "adding", "activating", "added", "error", "batchError",
                         "failed", "exec", "executed", "removing", "removed", "enabling", "enabled",
                         "done"}]
  /\ todo \in [Threads -> SUBSET Items] /\ mine \in [Threads -> SUBSET Items]
  /\ cur \in [Threads -> Items \cup {0}] /\ index \in [Threads -> Nat]
  /\ ok \in [Threads -> BOOLEAN] /\ used \in [Threads -> BOOLEAN]
  /\ batch \in [Threads -> SUBSET Items]
  /\ cmd \in [Items -> {"none", "add", "remove"}]
  /\ replies \subseteq Items \X {"Installed", "Enabled", "Disabled"} /\ calls \in 0..MaxCalls
  /\ \A S \in {doomed, again, overtaken, untold, clobbered} : S \subseteq Items

\* RemoveHookItem leaves the two lists with the same items, one for a hook and
\* a process, whatever the calls that overlap it removed and added meanwhile.
ListsAgree == byId = byProc /\ \A i, j \in byId : SameKey(i, j) => i = j

\* An item that was removed or failed never hooks again, whatever answers of
\* the agent and results of other calls still arrive for it.
EndedForGood == [][\A i \in Items : state[i] \in Gone => state'[i] \in Gone]_vars

\* "avoid double removal": an item's removal is decided, reported and sent once,
\* unless a call that was installing it overwrote stRemoved with stError.
RemovedOnceUnlessClobbered == again \subseteq clobbered

\* A removal in progress for i: its command is on its way, or waits for its batch.
BeingRemoved(i) == \E t \in Threads : op[t] \in Removals /\ (i \in batch[t] \/ (pc[t] = "removing" /\ cur[t] = i))

\* The agent is left with the hook of a removed item only when the command to
\* remove it could not be sent, or overtook the one to add it.
OrphanOnlyIfOvertaken ==
  \A i \in doomed : cmd[i] = "add" => (i \in overtaken \cup untold \/ BeingRemoved(i))

=============================================================================
