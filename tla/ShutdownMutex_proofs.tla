----------------------- MODULE ShutdownMutex_proofs -----------------------
(***************************************************************************)
(* For any finite set of operation threads: the type invariant of          *)
(* ShutdownMutex, that nLockCount and cNoLockEvent are exact, and that      *)
(* StartShutdownAndWaitPending really leaves nobody inside.                 *)
(***************************************************************************)
EXTENDS ShutdownMutex, FiniteSetTheorems, TLAPS

\* Who owns the component's mutex: an operation between its TryLock and the end
\* of its locked part, or the finalizing thread around its own locked parts.
OwnerInv ==
  /\ \A p \in Ops : p \in mutex <=> pc[p] \in {"held", "checked", "body"}
  /\ Finalizer \in mutex <=> fin \in {"signal", "deactivate", "drained"}
  /\ \A p, q \in mutex : p = q

\* What the events and the flags are in each phase of the finalizing thread.
PhaseInv ==
  /\ fin = "finalized" <=> cNoLockEvent = "null"
  /\ fin = "finalized" => cShutdownEvent = "null"
  /\ fin \in {"running", "signal"} => cShutdownEvent = "reset"
  /\ fin \in {"deactivate", "wait", "relock", "drained"} => cShutdownEvent = "set"

\* An operation that passed its second look holds the mutex, so that the
\* shutdown event cannot have been set since.
CheckedInv == \A p \in Ops : pc[p] = "checked" => cShutdownEvent = "reset"

IInv == TypeOK /\ LockCountExact /\ OwnerInv /\ PhaseInv /\ CheckedInv /\ QuiescedUnlessStraddled

----------------------------------------------------------------------------
\* How the number of threads inside changes when one enters or leaves.
LEMMA InsideFinite == TypeOK => IsFiniteSet(Inside) /\ IsFiniteSet(Inside')
BY OpsAssumption, FS_Subset DEF Inside

LEMMA EnterInside ==
  ASSUME TypeOK, NEW p \in Ops, pc[p] = "idle", Goto(p, "entered")
  PROVE  Cardinality(Inside') = Cardinality(Inside) + 1 /\ p \in Inside'
<1>1. Inside' = Inside \cup {p} /\ p \notin Inside
  BY DEF TypeOK, Inside, Goto
<1>2. QED
  BY <1>1, InsideFinite, FS_AddElement

LEMMA LeaveInside ==
  ASSUME TypeOK, NEW p \in Ops, pc[p] = "leaving", Goto(p, "idle")
  PROVE  Cardinality(Inside') = Cardinality(Inside) - 1 /\ p \in Inside
<1>1. Inside' = Inside \ {p} /\ p \in Inside
  BY DEF TypeOK, Inside, Goto
<1>2. QED
  BY <1>1, InsideFinite, FS_RemoveElement

\* Moving from one place inside to another leaves the set of insiders alone.
LEMMA StayInside ==
  ASSUME TypeOK, NEW p \in Ops, NEW s, pc[p] # "idle", s # "idle", Goto(p, s)
  PROVE  Inside' = Inside
BY DEF TypeOK, Inside, Goto

\* Nobody is inside exactly when the count is zero.
LEMMA NobodyInside ==
  ASSUME TypeOK
  PROVE  /\ Inside = {} <=> Cardinality(Inside) = 0
         /\ Inside' = {} <=> Cardinality(Inside') = 0
         /\ Cardinality(Inside) \in Nat
BY InsideFinite, FS_EmptySet, FS_CardinalityType

----------------------------------------------------------------------------
LEMMA InitIInv == Init => IInv
<1> SUFFICES ASSUME Init PROVE IInv
  OBVIOUS
<1>1. Inside = {} /\ InBody = {}
  BY DEF Init, Inside, InBody
<1>2. LockCountExact
  BY <1>1, FS_EmptySet DEF Init, LockCountExact
<1>3. QED
  BY <1>1, <1>2 DEF Init, IInv, TypeOK, OwnerInv, PhaseInv, CheckedInv,
                    QuiescedUnlessStraddled, Quiesced, Event, OpStates, FinStates

LEMMA OpStepIInv ==
  ASSUME IInv, NEW p \in Ops, OpStep(p)
  PROVE  IInv'
<1> USE DEF IInv
<1>1. CASE Lock(p)
  <2>1. Cardinality(Inside') = Cardinality(Inside) + 1 /\ p \in Inside'
    BY <1>1, EnterInside DEF Lock
  <2>2. InBody' = InBody
    BY <1>1 DEF Lock, Goto, InBody, TypeOK
  <2>3. TypeOK'
    BY <1>1 DEF Lock, Goto, TypeOK, Event, OpStates
  <2>4. LockCountExact'
    BY <1>1, <2>1, NobodyInside DEF Lock, LockCountExact, TypeOK, Event
  <2>5. QED
    BY <1>1, <2>2, <2>3, <2>4 DEF Lock, Goto, TypeOK, OwnerInv, PhaseInv, CheckedInv,
                                   QuiescedUnlessStraddled, Quiesced
<1>2. CASE CheckBeforeTry(p) \/ TryLock(p) \/ Recheck(p) \/ CheckActive(p)
           \/ DropMutex(p) \/ RetakeMutex(p) \/ Return(p)
  <2>1. Inside' = Inside
    BY <1>2, StayInside DEF CheckBeforeTry, TryLock, Recheck, CheckActive, DropMutex, RetakeMutex, Return
  <2>2. TypeOK'
    BY <1>2, OpsAssumption DEF CheckBeforeTry, TryLock, Recheck, CheckActive, DropMutex, RetakeMutex,
                               Return, Goto, TypeOK, OpStates
  <2>3. LockCountExact'
    BY <1>2, <2>1 DEF CheckBeforeTry, TryLock, Recheck, CheckActive, DropMutex, RetakeMutex, Return,
                      LockCountExact
  <2>4. OwnerInv'
    BY <1>2, OpsAssumption DEF CheckBeforeTry, TryLock, Recheck, CheckActive, DropMutex, RetakeMutex,
                               Return, Goto, TypeOK, OwnerInv
  <2>5. CheckedInv' /\ PhaseInv'
    BY <1>2 DEF CheckBeforeTry, TryLock, Recheck, CheckActive, DropMutex, RetakeMutex, Return, Goto,
                TypeOK, Event, IsShuttingDown, CheckedInv, PhaseInv
  <2>6. QuiescedUnlessStraddled'
    BY <1>2 DEF CheckBeforeTry, TryLock, Recheck, CheckActive, DropMutex, RetakeMutex, Return, Goto,
                TypeOK, CheckedInv, PhaseInv, QuiescedUnlessStraddled, Quiesced, InBody
  <2>7. QED
    BY <2>2, <2>3, <2>4, <2>5, <2>6
<1>3. CASE Unlock(p)
  <2>1. Cardinality(Inside') = Cardinality(Inside) - 1 /\ p \in Inside
    BY <1>3, LeaveInside DEF Unlock
  <2>2. InBody' = InBody
    BY <1>3 DEF Unlock, Goto, InBody, TypeOK
  <2>3. TypeOK'
    BY <1>3, <2>1, NobodyInside DEF Unlock, Goto, TypeOK, Event, OpStates, LockCountExact
  <2>4. LockCountExact'
    BY <1>3, <2>1, NobodyInside DEF Unlock, LockCountExact, TypeOK, Event
  <2>5. QED
    BY <1>3, <2>2, <2>3, <2>4 DEF Unlock, Goto, TypeOK, OwnerInv, PhaseInv, CheckedInv,
                                   QuiescedUnlessStraddled, Quiesced
<1>4. QED
  BY <1>1, <1>2, <1>3 DEF OpStep

LEMMA FinStepIInv ==
  ASSUME IInv, FinStep
  PROVE  IInv'
<1> USE DEF IInv
<1>1. pc' = pc /\ nLockCount' = nLockCount /\ Inside' = Inside /\ InBody' = InBody
  BY DEF FinStep, Initialize, BeginFinalize, SignalShutdown, Deactivate, NoLocks, Relock, Finalize,
         Inside, InBody
<1>2. TypeOK'
  BY <1>1 DEF FinStep, Initialize, BeginFinalize, SignalShutdown, Deactivate, NoLocks, Relock, Finalize,
              TypeOK, Event, FinStates
<1>3. OwnerInv'
  BY <1>1, OpsAssumption DEF FinStep, Initialize, BeginFinalize, SignalShutdown, Deactivate, NoLocks,
              Relock, Finalize, TypeOK, OwnerInv
<1>4. PhaseInv'
  BY DEF FinStep, Initialize, BeginFinalize, SignalShutdown, Deactivate, NoLocks, Relock, Finalize, PhaseInv
<1>5. LockCountExact'
  BY <1>1, NobodyInside DEF FinStep, Initialize, BeginFinalize, SignalShutdown, Deactivate, NoLocks,
              Relock, Finalize, TypeOK, LockCountExact
<1>6. CheckedInv'
  <2>1. CASE SignalShutdown
    BY <1>1, <2>1, OpsAssumption DEF SignalShutdown, OwnerInv, CheckedInv
  <2>2. CASE Finalize
    BY <1>1, <2>2 DEF Finalize, PhaseInv, CheckedInv
  <2>3. QED
    BY <1>1, <2>1, <2>2 DEF FinStep, Initialize, BeginFinalize, Deactivate, NoLocks, Relock, CheckedInv
<1>7. QuiescedUnlessStraddled'
  <2>1. CASE NoLocks
    <3>1. ~straddled => Inside = {}
      BY <2>1 DEF NoLocks, LockCountExact
    <3>2. InBody \subseteq Inside
      BY DEF InBody, Inside
    <3>3. QED
      BY <1>1, <2>1, <3>1, <3>2 DEF NoLocks, QuiescedUnlessStraddled, Quiesced
  <2>2. QED
    BY <1>1, <2>1 DEF FinStep, Initialize, BeginFinalize, SignalShutdown, Deactivate, Relock, Finalize,
                      QuiescedUnlessStraddled, Quiesced
<1>8. QED
  BY <1>2, <1>3, <1>4, <1>5, <1>6, <1>7

LEMMA NextIInv == IInv /\ [Next]_vars => IInv'
<1> SUFFICES ASSUME IInv, [Next]_vars PROVE IInv'
  OBVIOUS
<1>1. CASE UNCHANGED vars
  BY <1>1 DEF vars, IInv, TypeOK, LockCountExact, OwnerInv, PhaseInv, CheckedInv,
              QuiescedUnlessStraddled, Quiesced, Inside, InBody
<1>2. QED
  BY <1>1, OpStepIInv, FinStepIInv DEF Next

THEOREM InductiveInvariant == Spec => []IInv
BY InitIInv, NextIInv, PTL DEF Spec

----------------------------------------------------------------------------
\* Every variable keeps its type: the components' shutdown lock is never
\* released more often than it was taken (nLockCount stays a natural number).
THEOREM TypeCorrect == Spec => []TypeOK
<1>1. IInv => TypeOK
  BY DEF IInv
<1>2. QED
  BY <1>1, InductiveInvariant, PTL

\* nLockCount is exactly the number of operations between CNktDvShutdownAutoLock's
\* constructor and destructor, and cNoLockEvent tells whether it is zero.
THEOREM LockCountCorrect == Spec => []LockCountExact
<1>1. IInv => LockCountExact
  BY DEF IInv
<1>2. QED
  BY <1>1, InductiveInvariant, PTL

\* StartShutdownAndWaitPending does what its callers rely on: what Finalize frees
\* is not in use, whatever the number of threads that call operations.
THEOREM ShutdownQuiesces == Spec => []QuiescedUnlessStraddled
<1>1. IInv => QuiescedUnlessStraddled
  BY DEF IInv
<1>2. QED
  BY <1>1, InductiveInvariant, PTL

\* The component's mutex excludes its operations from each other and from Finalize.
THEOREM MutexCorrect == Spec => []MutexExcludes
<1>1. IInv => MutexExcludes
  BY OpsAssumption DEF IInv, OwnerInv, MutexExcludes
<1>2. QED
  BY <1>1, InductiveInvariant, PTL

\* After SignalShutdown no operation passes its shutdown check.
THEOREM NoEntry == Spec => NoEntryAfterSignal
<1>1. IInv /\ [Next]_vars =>
        [\A p \in Ops : p \in InBody' \ InBody => cShutdownEvent = "reset" /\ cShutdownEvent' = "reset"]_vars
  <2> SUFFICES ASSUME IInv, Next, NEW p \in Ops, p \in InBody' \ InBody
               PROVE  cShutdownEvent = "reset" /\ cShutdownEvent' = "reset"
    OBVIOUS
  <2>1. pc[p] # pc'[p]
    BY DEF InBody
  <2>2. PICK q \in Ops : OpStep(q)
    BY <2>1 DEF Next, FinStep, Initialize, BeginFinalize, SignalShutdown, Deactivate, NoLocks, Relock, Finalize
  <2>3. CheckActive(p)
    BY <2>2 DEF OpStep, Lock, CheckBeforeTry, TryLock, Recheck, CheckActive, DropMutex, RetakeMutex, Return,
                Unlock, Goto, IInv, TypeOK, InBody
  <2>4. QED
    BY <2>3 DEF CheckActive, IInv, CheckedInv
<1>2. QED
  BY <1>1, InductiveInvariant, PTL DEF Spec, NoEntryAfterSignal
=============================================================================
