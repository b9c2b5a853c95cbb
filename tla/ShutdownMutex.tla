--------------------------- MODULE ShutdownMutex ---------------------------
(***************************************************************************)
(* CNktDvShutdownMutex (Source/Common/ShutdownMutex.cpp) and the way every *)
(* engine component uses it.  An operation of a component (ConnectAgent,   *)
(* SendMsg, CreateHook, ...) starts with                                   *)
(*                                                                         *)
(*     CNktDvShutdownAutoLock cSdLock(&cShutdownMtx);                      *)
(*     CNktDvAutoCancellableFastMutex cLock(this, &cShutdownMtx);          *)
(*     if (!cLock.IsLockHeld() || cShutdownMtx.IsShuttingDown())           *)
(*       return NKT_DVERR_Cancelled;                                       *)
(*     if (!cShutdownMtx.IsSystemActive()) return E_FAIL;                  *)
(*                                                                         *)
(* and the component's Finalize runs StartShutdownAndWaitPending(this)     *)
(* with its own mutex held, frees what the operations use, and calls       *)
(* cShutdownMtx.Finalize().  A component may be initialized again.         *)
(***************************************************************************)
EXTENDS Integers, FiniteSets

CONSTANTS Ops,        \* threads that run operations of the component
          Finalizer   \* the thread that initializes and finalizes it

ASSUME OpsAssumption == IsFiniteSet(Ops) /\ Finalizer \notin Ops

VARIABLES nSystemActive,   \* BOOLEAN
          cShutdownEvent,  \* manual-reset event, or "null" when destroyed
          cNoLockEvent,    \* manual-reset event, or "null" when destroyed
          nLockCount,      \* CNktDvShutdownMutex::nLockCount
          mutex,           \* owners of the component's CNktFastMutex
          pc,              \* where each operation thread is
          fin,             \* where the initializing / finalizing thread is
          straddled        \* history: some Initialize ran while nLockCount # 0

vars == <<nSystemActive, cShutdownEvent, cNoLockEvent, nLockCount, mutex, pc, fin, straddled>>

Event == {"null", "reset", "set"}

OpStates == {"idle", "entered", "trying", "held", "checked", "body", "unlocked", "leaving"}
FinStates == {"finalized", "running", "signal", "deactivate", "wait", "relock", "drained"}

\* CNktEvent::Wait(0): a destroyed event counts as signalled.
IsShuttingDown == cShutdownEvent # "reset"

\* The operations that hold the shutdown lock, and those that passed its check.
Inside == {p \in Ops : pc[p] # "idle"}
InBody == {p \in Ops : pc[p] \in {"body", "unlocked"}}

Init == /\ nSystemActive = FALSE
        /\ cShutdownEvent = "null"
        /\ cNoLockEvent = "null"
        /\ nLockCount = 0
        /\ mutex = {}
        /\ pc = [p \in Ops |-> "idle"]
        /\ fin = "finalized"
        /\ straddled = FALSE

----------------------------------------------------------------------------
(* The operation threads *)

Goto(p, s) == pc' = [pc EXCEPT ![p] = s]

\* Wrong variant: Lock() leaves cNoLockEvent as it is.
Lock_silent(p) ==
  /\ pc[p] = "idle"
  /\ Goto(p, "entered")
  /\ nLockCount' = nLockCount + 1
  /\ UNCHANGED <<nSystemActive, cShutdownEvent, cNoLockEvent, mutex, fin, straddled>>

\* Lock(): under cMtx, the first locker resets cNoLockEvent (CNktEvent::Reset
\* does nothing to a destroyed event).
Lock(p) ==
  /\ pc[p] = "idle"
  /\ Goto(p, "entered")
  /\ nLockCount' = nLockCount + 1
  /\ cNoLockEvent' = IF nLockCount' = 1 /\ cNoLockEvent # "null" THEN "reset" ELSE cNoLockEvent
  /\ UNCHANGED <<nSystemActive, cShutdownEvent, mutex, fin, straddled>>

\* CNktDvAutoCancellableFastMutex: look at the shutdown event ...
CheckBeforeTry(p) ==
  /\ pc[p] = "entered"
  /\ Goto(p, IF IsShuttingDown THEN "leaving" ELSE "trying")
  /\ UNCHANGED <<nSystemActive, cShutdownEvent, cNoLockEvent, nLockCount, mutex, fin, straddled>>

\* Wrong variant: the body starts as soon as the try succeeds.
TryLock_unchecked(p) ==
  /\ pc[p] = "trying"
  /\ IF mutex = {} THEN mutex' = {p} /\ Goto(p, "body")
                   ELSE mutex' = mutex /\ Goto(p, "entered")
  /\ UNCHANGED <<nSystemActive, cShutdownEvent, cNoLockEvent, nLockCount, fin, straddled>>

\* Wrong variant: the result of the try is ignored.
TryLock_ignored(p) ==
  /\ pc[p] = "trying"
  /\ mutex' = mutex \cup {p} /\ Goto(p, "held")
  /\ UNCHANGED <<nSystemActive, cShutdownEvent, cNoLockEvent, nLockCount, fin, straddled>>

\* ... then try the component's mutex, and start over if another thread has it.
TryLock(p) ==
  /\ pc[p] = "trying"
  /\ IF mutex = {} THEN mutex' = {p} /\ Goto(p, "held")
                   ELSE mutex' = mutex /\ Goto(p, "entered")
  /\ UNCHANGED <<nSystemActive, cShutdownEvent, cNoLockEvent, nLockCount, fin, straddled>>

\* The operation looks at the shutdown event again, now that it has the mutex.
Recheck(p) ==
  /\ pc[p] = "held"
  /\ IF IsShuttingDown THEN Goto(p, "leaving") /\ mutex' = {}
                       ELSE Goto(p, "checked") /\ mutex' = mutex
  /\ UNCHANGED <<nSystemActive, cShutdownEvent, cNoLockEvent, nLockCount, fin, straddled>>

CheckActive(p) ==
  /\ pc[p] = "checked"
  /\ IF nSystemActive THEN Goto(p, "body") /\ mutex' = mutex
                      ELSE Goto(p, "leaving") /\ mutex' = {}
  /\ UNCHANGED <<nSystemActive, cShutdownEvent, cNoLockEvent, nLockCount, fin, straddled>>

\* The body drops the mutex (the scope of cLock ends, or CNktAutoFastMutexReverse
\* around a callback) and may take it back.
DropMutex(p) ==
  /\ pc[p] = "body"
  /\ Goto(p, "unlocked")
  /\ mutex' = {}
  /\ UNCHANGED <<nSystemActive, cShutdownEvent, cNoLockEvent, nLockCount, fin, straddled>>

RetakeMutex(p) ==
  /\ pc[p] = "unlocked"
  /\ mutex = {}
  /\ Goto(p, "body")
  /\ mutex' = {p}
  /\ UNCHANGED <<nSystemActive, cShutdownEvent, cNoLockEvent, nLockCount, fin, straddled>>

\* The body returns: ~CNktDvAutoCancellableFastMutex, if the mutex is still held.
Return(p) ==
  /\ pc[p] \in {"body", "unlocked"}
  /\ Goto(p, "leaving")
  /\ mutex' = mutex \ {p}
  /\ UNCHANGED <<nSystemActive, cShutdownEvent, cNoLockEvent, nLockCount, fin, straddled>>

\* Wrong variant: the last Unlock forgets the event.
Unlock_silent(p) ==
  /\ pc[p] = "leaving"
  /\ Goto(p, "idle")
  /\ nLockCount' = nLockCount - 1
  /\ UNCHANGED <<nSystemActive, cShutdownEvent, cNoLockEvent, mutex, fin, straddled>>

\* ~CNktDvShutdownAutoLock: Unlock() under cMtx, the last one sets cNoLockEvent.
Unlock(p) ==
  /\ pc[p] = "leaving"
  /\ Goto(p, "idle")
  /\ nLockCount' = nLockCount - 1
  /\ cNoLockEvent' = IF nLockCount' = 0 /\ cNoLockEvent # "null" THEN "set" ELSE cNoLockEvent
  /\ UNCHANGED <<nSystemActive, cShutdownEvent, mutex, fin, straddled>>

----------------------------------------------------------------------------
(* The thread that initializes and finalizes the component, under its mutex *)

\* Initialize() creates cShutdownEvent reset and cNoLockEvent SET, whatever
\* nLockCount is; nLockCount itself is never reset.
Initialize ==
  /\ fin = "finalized" /\ mutex = {}
  /\ nSystemActive' = TRUE
  /\ cShutdownEvent' = "reset"
  /\ cNoLockEvent' = "set"
  /\ straddled' = (straddled \/ nLockCount # 0)
  /\ fin' = "running"
  /\ UNCHANGED <<nLockCount, mutex, pc>>

\* The component's Finalize takes the component's mutex.
BeginFinalize ==
  /\ fin = "running" /\ mutex = {}
  /\ mutex' = {Finalizer}
  /\ fin' = "signal"
  /\ UNCHANGED <<nSystemActive, cShutdownEvent, cNoLockEvent, nLockCount, pc, straddled>>

\* SignalShutdown()
SignalShutdown ==
  /\ fin = "signal"
  /\ cShutdownEvent' = "set"
  /\ fin' = "deactivate"
  /\ UNCHANGED <<nSystemActive, cNoLockEvent, nLockCount, mutex, pc, straddled>>

\* CNktDvBaseShutdownMutex::StartShutdownAndWaitPending, then the caller's mutex
\* is released around the wait (CNktAutoFastMutexReverse).
Deactivate ==
  /\ fin = "deactivate"
  /\ nSystemActive' = FALSE
  /\ mutex' = {}
  /\ fin' = "wait"
  /\ UNCHANGED <<cShutdownEvent, cNoLockEvent, nLockCount, pc, straddled>>

\* CoWaitAndDispatchMessages(INFINITE, 1, &hEv) returns.
NoLocks ==
  /\ fin = "wait" /\ cNoLockEvent = "set"
  /\ fin' = "relock"
  /\ UNCHANGED <<nSystemActive, cShutdownEvent, cNoLockEvent, nLockCount, mutex, pc, straddled>>

Relock ==
  /\ fin = "relock" /\ mutex = {}
  /\ mutex' = {Finalizer}
  /\ fin' = "drained"
  /\ UNCHANGED <<nSystemActive, cShutdownEvent, cNoLockEvent, nLockCount, pc, straddled>>

\* The component frees its resources, calls cShutdownMtx.Finalize() and returns.
Finalize ==
  /\ fin = "drained"
  /\ cNoLockEvent' = "null"
  /\ cShutdownEvent' = "null"
  /\ nSystemActive' = FALSE
  /\ mutex' = {}
  /\ fin' = "finalized"
  /\ UNCHANGED <<nLockCount, pc, straddled>>

----------------------------------------------------------------------------

OpStep(p) ==
  \/ Lock(p) \/ CheckBeforeTry(p) \/ TryLock(p) \/ Recheck(p) \/ CheckActive(p)
  \/ DropMutex(p) \/ RetakeMutex(p) \/ Return(p) \/ Unlock(p)

FinStep ==
  \/ Initialize \/ BeginFinalize \/ SignalShutdown \/ Deactivate
  \/ NoLocks \/ Relock \/ Finalize

Next == (\E p \in Ops : OpStep(p)) \/ FinStep

Spec == Init /\ [][Next]_vars

(***************************************************************************)
(* Every thread keeps running: an operation that has started returns, and  *)
(* Finalize goes on.  Starting an operation, initializing and deciding to  *)
(* finalize are the clients' choice.  The kernel releases a thread waiting *)
(* on a manual-reset event when SetEvent is called, however briefly the    *)
(* event stays set, and hands the mutex to a waiter when it is left again  *)
(* and again: strong fairness.                                             *)
(***************************************************************************)
Progress(p) == CheckBeforeTry(p) \/ TryLock(p) \/ Recheck(p) \/ CheckActive(p)

Fairness ==
  /\ \A p \in Ops : WF_vars(Progress(p)) /\ WF_vars(Return(p)) /\ WF_vars(Unlock(p))
  /\ WF_vars(SignalShutdown) /\ WF_vars(Deactivate) /\ WF_vars(Finalize)
  /\ SF_vars(NoLocks) /\ SF_vars(Relock)

FairSpec == Spec /\ Fairness

----------------------------------------------------------------------------
(* Properties *)

TypeOK ==
  /\ nSystemActive \in BOOLEAN
  /\ cShutdownEvent \in Event
  /\ cNoLockEvent \in Event
  /\ nLockCount \in Nat
  /\ mutex \in SUBSET (Ops \cup {Finalizer})
  /\ pc \in [Ops -> OpStates]
  /\ fin \in FinStates
  /\ straddled \in BOOLEAN

\* nLockCount counts the operations between Lock and Unlock, and (except after
\* an Initialize that straddled one) cNoLockEvent says whether there are any.
LockCountExact ==
  /\ nLockCount = Cardinality(Inside)
  /\ ~straddled /\ cNoLockEvent # "null" => (cNoLockEvent = "set" <=> Inside = {})

\* While Finalize frees the component's resources, and until the component is
\* initialized again, no operation is past its shutdown check: what
\* StartShutdownAndWaitPending is for.
Quiesced == fin \in {"relock", "drained", "finalized"} => InBody = {}

\* Quiesced, as long as no Initialize ran while an operation that a previous
\* shutdown had already cancelled still held the shutdown lock.
QuiescedUnlessStraddled == ~straddled => Quiesced

\* Once shutdown is signalled no operation passes its check any more: the
\* bodies Finalize waits for only become fewer.
NoEntryAfterSignal ==
  [][\A p \in Ops : p \in InBody' \ InBody => cShutdownEvent = "reset" /\ cShutdownEvent' = "reset"]_vars

\* The component's mutex excludes: two operations are never both in the part of
\* their body that runs under it, nor one of them and Finalize.
MutexExcludes ==
  /\ \A p, q \in Ops : pc[p] = "body" /\ pc[q] = "body" => p = q
  /\ fin = "drained" => \A p \in Ops : pc[p] # "body"

\* Finalize ends once clients stop calling: every operation it waits for
\* leaves, none is stuck behind the mutex, and the event it waits for is set.
\* (Cancelled calls that keep overlapping hold nLockCount above 0 for ever.)
FinalizeEnds ==
  <>[][\A p \in Ops : ~Lock(p)]_vars => (fin = "signal" ~> fin = "finalized")
=============================================================================
