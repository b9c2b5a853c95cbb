-------------------------- MODULE HookEngine_proofs --------------------------
(***************************************************************************)
(* For any finite set of threads, any hooks and any depth of recursion:    *)
(* the type invariant of HookEngine, that nUsageCount is exact, under      *)
(* which threads alone Unhook can free a stub or NktHookLib's code, that   *)
(* PostCall always finds a record, and when it can find the wrong one.     *)
(***************************************************************************)
EXTENDS HookEngine, FiniteSetTheorems, WellFoundedInduction, TLAPS

DepthInv == \A t \in Threads : Depth(t) <= MaxDepth

----------------------------------------------------------------------------
(* The three ways a step changes a stack. *)

LEMMA MoveEffect ==
  ASSUME TypeOK, NEW t \in Threads, NEW S, TopAt(t, S), NEW a \in InStub \cup Detached, MoveTop(t, a)
  PROVE  /\ Depth(t) \in Nat \ {0}
         /\ stack' \in [Threads -> Seq(Frame)]
         /\ \A u \in Threads : Len(stack'[u]) = Depth(u)
         /\ \A u \in Threads : \A d \in 1..Depth(u) :
              stack'[u][d] = IF u = t /\ d = Depth(t) THEN [hook |-> TopHook(t), at |-> a] ELSE stack[u][d]
<1> DEFINE s == stack[t]
           n == Depth(t)
<1>1. s \in Seq(Frame) /\ s # <<>> /\ n = Len(s)
  BY DEF TypeOK, TopAt, Depth
<1>2. n \in Nat \ {0} /\ n \in 1..Len(s)
  BY <1>1
<1>3. s[n] \in Frame /\ s[n].hook = TopHook(t)
  BY <1>1, <1>2 DEF TopHook, Depth
<1>4. [s[n] EXCEPT !.at = a] = [hook |-> TopHook(t), at |-> a]
  BY <1>3 DEF Frame
<1>5. [hook |-> TopHook(t), at |-> a] \in Frame
  BY <1>3 DEF Frame
<1>6. stack' = [stack EXCEPT ![t] = [s EXCEPT ![n] = [hook |-> TopHook(t), at |-> a]]]
  BY <1>4 DEF MoveTop
<1> DEFINE z == [s EXCEPT ![n] = [hook |-> TopHook(t), at |-> a]]
<1>7. z \in Seq(Frame) /\ Len(z) = n /\ \A d \in 1..n : z[d] = IF d = n THEN [hook |-> TopHook(t), at |-> a] ELSE s[d]
  BY <1>1, <1>2, <1>5
<1> HIDE DEF z, s, n
<1>8. stack' = [stack EXCEPT ![t] = z]
  BY <1>6 DEF z
<1>9. stack'[t] = z /\ \A u \in Threads \ {t} : stack'[u] = stack[u]
  BY <1>8 DEF TypeOK
<1>10. QED
  BY <1>2, <1>7, <1>8, <1>9 DEF TypeOK, s, n, Depth

LEMMA PushEffect ==
  ASSUME TypeOK, NEW t \in Threads, NEW h \in Hooks, Call(t, h)
  PROVE  /\ Depth(t) \in Nat
         /\ stack' \in [Threads -> Seq(Frame)]
         /\ \A u \in Threads : Len(stack'[u]) = IF u = t THEN Depth(t) + 1 ELSE Depth(u)
         /\ \A u \in Threads : \A d \in 1..Depth(u) : stack'[u][d] = stack[u][d]
         /\ stack'[t][Depth(t) + 1] = [hook |-> h, at |-> "injected"]
<1> DEFINE f == [hook |-> h, at |-> "injected"]
<1>1. f \in Frame /\ stack[t] \in Seq(Frame)
  BY DEF Frame, InStub, Uncounted, TypeOK
<1> HIDE DEF f
<1>2. /\ Append(stack[t], f) \in Seq(Frame) /\ Len(Append(stack[t], f)) = Len(stack[t]) + 1
      /\ \A d \in 1..Len(stack[t]) : Append(stack[t], f)[d] = stack[t][d]
      /\ Append(stack[t], f)[Len(stack[t]) + 1] = f
  BY <1>1
<1>3. stack' = [stack EXCEPT ![t] = Append(stack[t], f)]
  BY DEF Call, f
<1>4. stack'[t] = Append(stack[t], f) /\ \A u \in Threads \ {t} : stack'[u] = stack[u]
  BY <1>3 DEF TypeOK
<1>5. QED
  BY <1>1, <1>2, <1>3, <1>4 DEF TypeOK, Depth, f

LEMMA CutEffect ==
  ASSUME TypeOK, NEW t \in Threads, NEW n \in Nat, n <= Depth(t),
         stack' = [stack EXCEPT ![t] = SubSeq(@, 1, n)]
  PROVE  /\ Depth(t) \in Nat
         /\ stack' \in [Threads -> Seq(Frame)]
         /\ \A u \in Threads : Len(stack'[u]) = IF u = t THEN n ELSE Depth(u)
         /\ \A u \in Threads : \A d \in 1..Len(stack'[u]) : stack'[u][d] = stack[u][d]
<1>1. stack[t] \in Seq(Frame)
  BY DEF TypeOK
<1>2. /\ SubSeq(stack[t], 1, n) \in Seq(Frame) /\ Len(SubSeq(stack[t], 1, n)) = n
      /\ \A d \in 1..n : SubSeq(stack[t], 1, n)[d] = stack[t][d]
  BY <1>1 DEF Depth
<1>3. stack'[t] = SubSeq(stack[t], 1, n) /\ \A u \in Threads \ {t} : stack'[u] = stack[u]
  BY DEF TypeOK
<1>4. QED
  BY <1>1, <1>2, <1>3 DEF TypeOK, Depth

\* A set of positions has a last one.
LEMMA LastExists ==
  ASSUME NEW n \in Nat, NEW S \in SUBSET (1..n), S # {}
  PROVE  \E i \in S : \A j \in S : j <= i
<1> DEFINE T == {n - i : i \in S}
<1>1. T \subseteq Nat /\ T # {}
  <2>1. PICK i \in S : TRUE
    OBVIOUS
  <2>2. n - i \in T
    BY <2>1
  <2>3. \A j \in S : n - j \in Nat
    OBVIOUS
  <2>4. QED
    BY <2>2, <2>3
<1>2. \E x \in T : \A y \in T : ~(<<y, x>> \in OpToRel(<, Nat))
  <2> HIDE DEF T
  <2>1. QED
    BY <1>1, NatLessThanWellFounded, WFMin
<1>3. PICK x \in T : \A y \in T : ~(y < x)
  BY <1>1, <1>2 DEF OpToRel
<1>4. PICK i \in S : x = n - i
  OBVIOUS
<1>5. \A j \in S : ~(n - j < n - i)
  BY <1>3, <1>4
<1>6. QED
  BY <1>5

\* LastMatch is a record of the hook, and the last one.
LEMMA LastMatchIs ==
  ASSUME TypeOK, NEW t \in Threads, Matching(t) # {}
  PROVE  /\ LastMatch(t) \in 1..Len(records[t]) /\ records[t][LastMatch(t)].hook = TopHook(t)
         /\ \A j \in DOMAIN records[t] : records[t][j].hook = TopHook(t) => j <= LastMatch(t)
<1>1. records[t] \in Seq(Record) /\ DOMAIN records[t] = 1..Len(records[t])
  BY DEF TypeOK
<1>2. Matching(t) \in SUBSET (1..Len(records[t])) /\ Len(records[t]) \in Nat
  BY <1>1 DEF Matching
<1>3. \E i \in Matching(t) : \A j \in Matching(t) : j <= i
  BY <1>2, LastExists
<1>4. LastMatch(t) \in Matching(t) /\ \A j \in Matching(t) : j <= LastMatch(t)
  BY <1>3 DEF LastMatch
<1>5. QED
  BY <1>1, <1>2, <1>4 DEF Matching

----------------------------------------------------------------------------
(* Types *)

\* The parts of the type invariant, by the actions that change them.
ThreadTypes ==
  /\ usage \in [Hooks -> Int] /\ skipped \in [Hooks -> Nat]
  /\ stack \in [Threads -> Seq(Frame)] /\ records \in [Threads -> Seq(Record)]
  /\ fate \in [Threads -> {"running", "terminated", "astray", "noThreadData"}]
  /\ throws \in Nat /\ unwound \in [Threads -> SUBSET Hooks] /\ guard \in [Threads -> SUBSET Hooks]
EngineTypes ==
  /\ entry \in [Hooks -> {"none", "listed", "taken", "freed", "leaked"}]
  /\ flags \in [Hooks -> SUBSET {"absent", "disabled", "uninstalled"}]
  /\ agent \in {"running", "finalized", "unloaded"}
  /\ remover \in [Removers -> Remover]
  /\ enables \in Nat
  /\ late \in [Hooks -> SUBSET Threads] /\ alone \in [Hooks -> SUBSET Threads] /\ blind \subseteq Hooks

LEMMA TypeParts == (TypeOK <=> ThreadTypes /\ EngineTypes) /\ (TypeOK' <=> ThreadTypes' /\ EngineTypes')
BY DEF TypeOK, ThreadTypes, EngineTypes

LEMMA TopIsHook ==
  ASSUME TypeOK, NEW t \in Threads, NEW S, TopAt(t, S)
  PROVE  TopHook(t) \in Hooks /\ Depth(t) \in Nat \ {0} /\ stack[t][Depth(t)] \in Frame
<1>1. stack[t] \in Seq(Frame) /\ stack[t] # <<>>
  BY DEF TypeOK, TopAt
<1>2. Depth(t) \in Nat \ {0} /\ stack[t][Depth(t)] \in Frame
  BY <1>1 DEF Depth
<1>3. QED
  BY <1>2 DEF TopHook, Frame

\* What a thread does.
ThreadNext == \E t \in Threads : ThreadStep(t) \/ (\E h \in Hooks : Call(t, h)) \/ (\E d \in 0..MaxDepth : Throw(t, d))
\* What the server, the loaders and the agent's end do.
ServerNext ==
  \/ \E S \in SUBSET Hooks : HookPatch(S) \/ Unhook(S)
  \/ HookDone \/ HookFails \/ \E h \in Hooks : EnableHook(h)
ManagerNext == (\E r \in Removers : DisableScope(r) \/ RemoverStep(r) \/ LibUnhookBlind(r)) \/ UnloadModule
LEMMA NextParts == Next <=> ThreadNext \/ ServerNext \/ ManagerNext
BY DEF Next, ThreadNext, ServerNext, ManagerNext

\* The top frame of t is gone; what is left of a call on its way out.
Outgoing == {"leaving", "returning", "alone", "mini"}
Pop(t) == TopAt(t, Outgoing) /\ stack' = [stack EXCEPT ![t] = SubSeq(@, 1, Depth(t) - 1)]
\* The steps by which a call leaves the stub and NktHookLib's code.
Exit(t) == LeaveStub(t) \/ OriginalReturns(t) \/ MiniStub(t)

\* Each of them goes on to the original function or the mini stub, or is the last.
LEMMA ExitEffect ==
  ASSUME NEW t \in Threads, Exit(t)
  PROVE  /\ Pop(t) \/ \E a \in Detached : TopAt(t, Outgoing) /\ MoveTop(t, a)
         /\ guard' = guard \/ guard' = [guard EXCEPT ![t] = @ \ {TopHook(t)}]
         /\ UNCHANGED <<usage, records, fate, throws, skipped, unwound, threadRest>>
<1> USE DEF Outgoing, Detached
<1>1. \A S \in SUBSET Outgoing : TopAt(t, S) => TopAt(t, Outgoing)
  BY DEF TopAt
<1>2. CASE LeaveStub(t)
  <2>1. TopAt(t, Outgoing)
    BY <1>1, <1>2 DEF LeaveStub
  <2>2. QED
    BY <1>2, <2>1 DEF LeaveStub, Pop
<1>3. CASE OriginalReturns(t)
  <2>1. TopAt(t, Outgoing)
    BY <1>1, <1>3 DEF OriginalReturns
  <2>2. QED
    BY <1>3, <2>1 DEF OriginalReturns
<1>4. CASE MiniStub(t)
  <2>1. TopAt(t, Outgoing)
    BY <1>1, <1>4 DEF MiniStub
  <2>2. QED
    BY <1>4, <2>1 DEF MiniStub, Pop
<1>5. QED
  BY <1>2, <1>3, <1>4 DEF Exit

LEMMA ThreadTypesKept ==
  ASSUME TypeOK, ThreadNext
  PROVE  TypeOK'
<1> USE DEF ThreadTypes, threadRest, lib, missed
<1>0. ThreadTypes /\ EngineTypes
  BY TypeParts
<1>1. ASSUME UNCHANGED threadRest PROVE EngineTypes'
  BY <1>0, <1>1 DEF EngineTypes, Removers
<1>2. PICK t \in Threads : ThreadStep(t) \/ (\E h \in Hooks : Call(t, h)) \/ (\E d \in 0..MaxDepth : Throw(t, d))
  BY DEF ThreadNext
<1>3. CASE JumpToStub(t)
  <2>1. stack' \in [Threads -> Seq(Frame)]
    BY <1>3, MoveEffect DEF JumpToStub, InStub, Counted, Uncounted
  <2>2. QED
    BY <1>0, <1>1, <1>3, <2>1, TypeParts DEF JumpToStub
<1>4. CASE EnterStub(t)
  <2>1. stack' \in [Threads -> Seq(Frame)]
    <3>1. PICK a \in {"pass", "pre"} : MoveTop(t, a)
      BY <1>4 DEF EnterStub
    <3>2. QED
      BY <1>4, <3>1, MoveEffect DEF EnterStub, InStub, Counted, Uncounted
  <2>2. usage' \in [Hooks -> Int]
    BY <1>0, <1>4, TopIsHook DEF EnterStub, Count
  <2>3. QED
    BY <1>0, <1>1, <1>4, <2>1, <2>2, TypeParts DEF EnterStub
<1>5. CASE PreCallLeave(t) \/ PostCallEnd(t)
  <2>1. stack' \in [Threads -> Seq(Frame)]
    BY <1>5, MoveEffect DEF PreCallLeave, PostCallEnd, InStub, Counted, Uncounted
  <2>2. usage' \in [Hooks -> Int]
    BY <1>0, <1>5, TopIsHook DEF PreCallLeave, PostCallEnd, Count
  <2>3. QED
    BY <1>0, <1>1, <1>5, <2>1, <2>2, TypeParts DEF PreCallLeave, PostCallEnd
<1>6. CASE PreCallContinue(t)
  <2>1. stack' \in [Threads -> Seq(Frame)]
    BY <1>6, MoveEffect DEF PreCallContinue, InStub, Counted, Uncounted
  <2> DEFINE rec == [hook |-> TopHook(t), ret |-> Depth(t)]
  <2>2. rec \in Record
    BY <1>6, TopIsHook DEF PreCallContinue, Record
  <2> HIDE DEF rec
  <2>3. records' = records \/ records' = [records EXCEPT ![t] = Append(@, rec)]
    BY <1>6 DEF PreCallContinue, rec
  <2>4. records' \in [Threads -> Seq(Record)]
    <3>1. Append(records[t], rec) \in Seq(Record)
      BY <1>0, <2>2
    <3>2. QED
      BY <1>0, <2>3, <3>1
  <2>5. QED
    BY <1>0, <1>1, <1>6, <2>1, <2>4, TypeParts DEF PreCallContinue
<1>7. CASE PostCall(t)
  <2>1. stack' \in [Threads -> Seq(Frame)]
    <3>1. MoveTop(t, "post") \/ UNCHANGED stack
      BY <1>7 DEF PostCall
    <3>2. QED
      BY <1>0, <1>7, <3>1, MoveEffect DEF PostCall, InStub, Counted, Uncounted
  <2>2. records' \in [Threads -> Seq(Record)]
    <3>1. <<>> \in Seq(Record)
      OBVIOUS
    <3>2. ASSUME Matching(t) # {} PROVE SubSeq(records[t], 1, LastMatch(t) - 1) \in Seq(Record)
      <4>1. records[t] \in Seq(Record) /\ LastMatch(t) \in 1..Len(records[t])
        BY <1>0, <3>2, LastMatchIs
      <4>2. QED
        BY <4>1
    <3>3. QED
      BY <1>0, <1>7, <3>1, <3>2 DEF PostCall
  <2>3. fate' \in [Threads -> {"running", "terminated", "astray", "noThreadData"}]
    BY <1>0, <1>7 DEF PostCall
  <2>4. QED
    BY <1>0, <1>1, <1>7, <2>1, <2>2, <2>3, TypeParts DEF PostCall
<1>8. CASE Exit(t)
  <2>1. stack' \in [Threads -> Seq(Frame)]
    <3>1. CASE Pop(t)
      <4>1. Depth(t) - 1 \in Nat /\ Depth(t) - 1 <= Depth(t)
        BY <3>1, TopIsHook DEF Pop
      <4>2. QED
        BY <3>1, <4>1, CutEffect DEF Pop
    <3>2. ASSUME NEW a \in Detached, TopAt(t, Outgoing), MoveTop(t, a) PROVE stack' \in [Threads -> Seq(Frame)]
      BY <3>2, MoveEffect
    <3>3. QED
      BY <1>8, <3>1, <3>2, ExitEffect
  <2>2. guard' \in [Threads -> SUBSET Hooks]
    BY <1>0, <1>8, ExitEffect
  <2>3. UNCHANGED <<usage, records, fate, throws, skipped, unwound, threadRest>>
    BY <1>8, ExitEffect
  <2>4. QED
    BY <1>0, <1>1, <2>1, <2>2, <2>3, TypeParts
<1>9. ASSUME NEW h \in Hooks, Call(t, h) PROVE TypeOK'
  <2>1. stack' \in [Threads -> Seq(Frame)]
    BY <1>9, PushEffect
  <2>2. guard' \in [Threads -> SUBSET Hooks]
    BY <1>0, <1>9 DEF Call
  <2>3. QED
    BY <1>0, <1>1, <1>9, <2>1, <2>2, TypeParts DEF Call
<1>10. ASSUME NEW d \in 0..MaxDepth, Throw(t, d) PROVE TypeOK'
  <2>1. stack' \in [Threads -> Seq(Frame)]
    <3>1. d \in Nat /\ d <= Depth(t)
      <4>1. Depth(t) \in Nat /\ d < Depth(t) /\ MaxDepth \in Nat
        BY <1>0, <1>10, HookConstants DEF Depth, Throw
      <4>2. QED
        BY <4>1
    <3>2. stack' = [stack EXCEPT ![t] = SubSeq(@, 1, d)]
      BY <1>10 DEF Throw
    <3>3. QED
      BY <3>1, <3>2, CutEffect
  <2>2. skipped' \in [Hooks -> Nat]
    <3>1. \A h \in Hooks : Cardinality(MarkedAbove(t, d, h)) \in Nat
      <4>1. d + 1 \in Int /\ Depth(t) \in Int
        BY HookConstants DEF TypeOK, Depth
      <4>2. QED
        BY <4>1, FS_Interval, FS_Subset, FS_CardinalityType DEF MarkedAbove
    <3>2. QED
      BY <1>0, <1>10, <3>1 DEF Throw
  <2>3. unwound' \in [Threads -> SUBSET Hooks]
    BY <1>0, <1>10 DEF Throw
  <2>4. QED
    BY <1>0, <1>1, <1>10, <2>1, <2>2, <2>3, TypeParts DEF Throw
<1>11. QED
  BY <1>2, <1>3, <1>4, <1>5, <1>6, <1>7, <1>8, <1>9, <1>10 DEF ThreadStep, Exit

----------------------------------------------------------------------------
(* What a removal has in hand *)

Everywhere == InStub \cup Detached

\* Thread t is known to be where it is, in the stub of h or past it.
Known(t, h) ==
  /\ Inside(t, h, InStub) => t \in late[h]
  /\ Inside(t, h, Everywhere) => t \in late[h] \cup alone[h]

\* Each hook out of the list is in one batch, and only it.
BatchInv ==
  /\ \A r \in Removers : remover[r].free \subseteq remover[r].batch
  /\ \A r \in Removers : remover[r].pc \in {"idle", "collect"} => remover[r].batch = {}
  /\ \A r \in Removers : remover[r].pc \in {"hooking", "take"} => remover[r].free = {}
  /\ \A r \in Removers : remover[r].pc = "hooking" => r = Server
  /\ \A r \in Removers : \A h \in remover[r].batch :
       entry[h] = IF remover[r].pc = "hooking" THEN "none" ELSE "taken"
  /\ \A r, q \in Removers : r # q => remover[r].batch \cap remover[q].batch = {}

\* A hook whose count is being read, and one that is gone, lets no call in.
FlagInv ==
  /\ \A h \in Hooks : entry[h] \in {"none", "freed", "leaked"} => flags[h] # {}
  /\ \A r \in Removers : remover[r].pc \in {"count", "unhook", "free"} =>
       \A h \in remover[r].batch : "disabled" \in flags[h]

\* Whoever is inside a hook whose count was read as zero was there uncounted.
LateInv ==
  /\ \A h \in Hooks, t \in Threads : entry[h] = "none" => ~Inside(t, h, Everywhere)
  /\ \A r \in Removers : \A h \in remover[r].free, t \in Threads :
       /\ Known(t, h)
       /\ remover[r].pc = "free" /\ Inside(t, h, {"injected"}) => h \in blind
  /\ \A h \in Hooks, t \in Threads : entry[h] = "freed" =>
       Known(t, h) /\ (Inside(t, h, {"injected"}) => h \in blind)

\* A thread gets into a hook only while its flags let calls in.
LEMMA InsideGrows ==
  ASSUME TypeOK, ThreadNext, NEW u \in Threads, NEW h \in Hooks
  PROVE  /\ Inside(u, h, Everywhere)' => Inside(u, h, Everywhere) \/ flags[h] = {}
         /\ Inside(u, h, InStub)' => Inside(u, h, InStub) \/ flags[h] = {}
         /\ Inside(u, h, {"injected"})' => Inside(u, h, {"injected"}) \/ flags[h] = {}
<1> USE DEF Inside, Depth
<1>1. PICK t \in Threads : ThreadStep(t) \/ (\E g \in Hooks : Call(t, g)) \/ (\E d \in 0..MaxDepth : Throw(t, d))
  BY DEF ThreadNext
<1>2. ASSUME NEW S, TopAt(t, S), NEW a \in Everywhere \ {"injected"}, MoveTop(t, a), a \in InStub => S \subseteq InStub
      PROVE  /\ Inside(u, h, Everywhere)' => Inside(u, h, Everywhere)
             /\ Inside(u, h, InStub)' => Inside(u, h, InStub)
             /\ Inside(u, h, {"injected"})' => Inside(u, h, {"injected"})
  <2>1. a \in Everywhere /\ a # "injected"
    BY <1>2
  <2>2. /\ \A v \in Threads : Len(stack'[v]) = Depth(v)
        /\ \A v \in Threads : \A d \in 1..Depth(v) :
             stack'[v][d] = IF v = t /\ d = Depth(t) THEN [hook |-> TopHook(t), at |-> a] ELSE stack[v][d]
    BY <1>2, <2>1, MoveEffect DEF Everywhere
  <2>3. /\ stack[t][Depth(t)].at \in Everywhere /\ stack[t][Depth(t)].hook = TopHook(t)
        /\ a \in InStub => stack[t][Depth(t)].at \in InStub
    BY <1>2, TopIsHook DEF Frame, Everywhere, TopHook, TopAt
  <2>4. QED
    BY <2>1, <2>2, <2>3
<1>3. ASSUME NEW n \in Nat, n <= Depth(t), stack' = [stack EXCEPT ![t] = SubSeq(@, 1, n)]
      PROVE  /\ Inside(u, h, Everywhere)' => Inside(u, h, Everywhere)
             /\ Inside(u, h, InStub)' => Inside(u, h, InStub)
             /\ Inside(u, h, {"injected"})' => Inside(u, h, {"injected"})
  <2>1. /\ Depth(t) \in Nat
        /\ \A v \in Threads : Len(stack'[v]) = IF v = t THEN n ELSE Depth(v)
        /\ \A v \in Threads : \A d \in 1..Len(stack'[v]) : stack'[v][d] = stack[v][d]
    BY <1>3, CutEffect
  <2>2. 1..Len(stack'[u]) \subseteq 1..Len(stack[u])
    BY <1>3, <2>1
  <2>3. QED
    BY <2>1, <2>2
<1>4. ASSUME NEW g \in Hooks, Call(t, g)
      PROVE  /\ Inside(u, h, Everywhere)' => Inside(u, h, Everywhere) \/ flags[h] = {}
             /\ Inside(u, h, InStub)' => Inside(u, h, InStub) \/ flags[h] = {}
             /\ Inside(u, h, {"injected"})' => Inside(u, h, {"injected"}) \/ flags[h] = {}
  <2>1. /\ Depth(t) \in Nat
        /\ \A v \in Threads : Len(stack'[v]) = IF v = t THEN Depth(t) + 1 ELSE Depth(v)
        /\ \A v \in Threads : \A d \in 1..Depth(v) : stack'[v][d] = stack[v][d]
        /\ stack'[t][Depth(t) + 1] = [hook |-> g, at |-> "injected"]
    BY <1>4, PushEffect
  <2>2. flags[g] = {}
    BY <1>4 DEF Call
  <2>3. CASE u = t
    <3>1. \A d \in 1..Len(stack'[u]) : d \in 1..Len(stack[u]) \/ d = Depth(t) + 1
      BY <2>1, <2>3
    <3>2. ASSUME NEW d \in 1..Len(stack'[u]), stack'[u][d].hook = h, flags[h] # {}
          PROVE  d \in 1..Len(stack[u]) /\ stack'[u][d] = stack[u][d]
      <4>1. d # Depth(t) + 1
        BY <2>1, <2>2, <2>3, <3>2
      <4>2. QED
        BY <2>1, <3>1, <3>2, <4>1
    <3>3. QED
      BY <3>2
  <2>4. CASE u # t
    BY <2>1, <2>4
  <2>5. QED
    BY <2>3, <2>4
<1>5. CASE JumpToStub(t)
  BY <1>2, <1>5 DEF JumpToStub, Everywhere, InStub, Counted, Uncounted
<1>6. CASE EnterStub(t)
  <2>1. PICK a \in {"pass", "pre"} : MoveTop(t, a)
    BY <1>6 DEF EnterStub
  <2>2. QED
    BY <1>2, <1>6, <2>1 DEF EnterStub, Everywhere, InStub, Counted, Uncounted
<1>7. CASE PreCallLeave(t) \/ PreCallContinue(t) \/ PostCallEnd(t)
  BY <1>2, <1>7 DEF PreCallLeave, PreCallContinue, PostCallEnd, Everywhere, InStub, Counted, Uncounted
<1>8. CASE PostCall(t)
  <2>1. MoveTop(t, "post") \/ UNCHANGED stack
    BY <1>8 DEF PostCall
  <2>2. QED
    BY <1>2, <1>8, <2>1 DEF PostCall, Everywhere, InStub, Counted, Uncounted
<1>9. CASE Exit(t)
  <2>1. ASSUME Pop(t)
        PROVE  /\ Inside(u, h, Everywhere)' => Inside(u, h, Everywhere)
               /\ Inside(u, h, InStub)' => Inside(u, h, InStub)
               /\ Inside(u, h, {"injected"})' => Inside(u, h, {"injected"})
    <3>1. Depth(t) - 1 \in Nat /\ Depth(t) - 1 <= Depth(t)
      BY <2>1, TopIsHook DEF Pop
    <3>2. stack' = [stack EXCEPT ![t] = SubSeq(@, 1, Depth(t) - 1)]
      BY <2>1 DEF Pop
    <3>3. QED
      BY <1>3, <3>1, <3>2
  <2>2. \A a \in Detached : a \in Everywhere \ {"injected"} /\ a \notin InStub
    BY DEF Detached, Everywhere, InStub, Counted, Uncounted
  <2>3. ASSUME NEW a \in Detached, TopAt(t, Outgoing), MoveTop(t, a)
        PROVE  /\ Inside(u, h, Everywhere)' => Inside(u, h, Everywhere)
               /\ Inside(u, h, InStub)' => Inside(u, h, InStub)
               /\ Inside(u, h, {"injected"})' => Inside(u, h, {"injected"})
    <3>1. a \in Everywhere \ {"injected"} /\ a \notin InStub
      BY <2>2
    <3> HIDE DEF Inside
    <3>2. QED
      BY <1>2, <2>3, <3>1
  <2>4. Pop(t) \/ \E a \in Detached : TopAt(t, Outgoing) /\ MoveTop(t, a)
    BY <1>9, ExitEffect
  <2> HIDE DEF Inside
  <2>5. QED
    BY <2>1, <2>3, <2>4
<1>10. ASSUME NEW d \in 0..MaxDepth, Throw(t, d)
       PROVE  /\ Inside(u, h, Everywhere)' => Inside(u, h, Everywhere)
              /\ Inside(u, h, InStub)' => Inside(u, h, InStub)
              /\ Inside(u, h, {"injected"})' => Inside(u, h, {"injected"})
  <2>1. d \in Nat /\ d <= Depth(t)
    <3>1. Depth(t) \in Nat /\ d < Depth(t) /\ MaxDepth \in Nat
      BY <1>10, HookConstants DEF TypeOK, Throw
    <3>2. QED
      BY <3>1
  <2>2. stack' = [stack EXCEPT ![t] = SubSeq(@, 1, d)]
    BY <1>10 DEF Throw
  <2>3. QED
    BY <1>3, <2>1, <2>2
<1> HIDE DEF Inside, Depth
<1>11. QED
  BY <1>1, <1>4, <1>5, <1>6, <1>7, <1>8, <1>9, <1>10 DEF ThreadStep, Exit

\* So threads leave what the removals rely on alone.
LEMMA LateKeptByThreads ==
  ASSUME TypeOK, BatchInv, FlagInv, LateInv, ThreadNext
  PROVE  BatchInv' /\ FlagInv' /\ LateInv'
<1>1. UNCHANGED <<entry, flags, remover, late, alone, blind>>
  BY DEF ThreadNext, ThreadStep, JumpToStub, EnterStub, PreCallLeave, PreCallContinue, PostCall, PostCallEnd,
         LeaveStub, OriginalReturns, MiniStub, Call, Throw, threadRest, lib, missed
<1>2. BatchInv' /\ FlagInv'
  BY <1>1 DEF BatchInv, FlagInv
<1>3. ASSUME NEW h \in Hooks, NEW t \in Threads, flags[h] # {}
      PROVE  /\ Inside(t, h, Everywhere)' => Inside(t, h, Everywhere)
             /\ Known(t, h) => Known(t, h)'
             /\ Inside(t, h, {"injected"})' => Inside(t, h, {"injected"})
  BY <1>1, <1>3, InsideGrows DEF Known
<1>4. \A h \in Hooks, t \in Threads : entry[h] = "none" => ~Inside(t, h, Everywhere)'
  BY <1>3 DEF FlagInv, LateInv
<1>5. \A r \in Removers : \A h \in remover[r].free, t \in Threads :
        /\ Known(t, h)'
        /\ remover[r].pc = "free" /\ Inside(t, h, {"injected"})' => h \in blind
  <2>1. SUFFICES ASSUME NEW r \in Removers, NEW h \in remover[r].free, NEW t \in Threads
                 PROVE  /\ Known(t, h)'
                        /\ remover[r].pc = "free" /\ Inside(t, h, {"injected"})' => h \in blind
    OBVIOUS
  <2>2. remover[r] \in Remover
    BY DEF TypeOK
  <2>3. h \in Hooks /\ h \in remover[r].batch /\ remover[r].pc \in {"count", "unhook", "free"}
    BY <2>2 DEF BatchInv, Remover
  <2>4. flags[h] # {}
    BY <2>3 DEF FlagInv
  <2>5. QED
    BY <1>3, <2>3, <2>4 DEF LateInv
<1>6. \A h \in Hooks, t \in Threads : entry[h] = "freed" =>
        Known(t, h)' /\ (Inside(t, h, {"injected"})' => h \in blind)
  BY <1>3 DEF FlagInv, LateInv
<1>7. QED
  BY <1>1, <1>2, <1>4, <1>5, <1>6 DEF LateInv

----------------------------------------------------------------------------
(* The steps of a removal, and of Hook *)

\* Remover r goes to p with these batch and free sets, and the others stay.
Moves(r, p, batch, free) ==
  /\ remover' \in [Removers -> Remover]
  /\ remover'[r].pc = p /\ remover'[r].batch = batch /\ remover'[r].free = free
  /\ \A q \in Removers \ {r} : remover'[q] = remover[q]

LEMMA MovesWith ==
  ASSUME TypeOK, NEW r \in Removers, NEW x \in Remover, remover' = [remover EXCEPT ![r] = x]
  PROVE  Moves(r, x.pc, x.batch, x.free)
BY DEF TypeOK, Moves

LEMMA HookMoves ==
  ASSUME TypeOK, BatchInv
  PROVE  /\ \A S \in SUBSET Hooks : HookPatch(S) => Moves(Server, "hooking", S, {})
         /\ \A S \in SUBSET Hooks : Unhook(S) => Moves(Server, "take", {}, {})
         /\ HookDone \/ HookFails => Moves(Server, "idle", {}, {})
<1> USE HookConstants DEF At
<1>1. Server \in Removers /\ remover[Server] \in Remover
  BY DEF TypeOK, Removers
<1>2. At(Server, "idle") => remover[Server].batch = {} /\ remover[Server].free = {}
  BY <1>1 DEF BatchInv
<1>3. ASSUME NEW S \in SUBSET Hooks, HookPatch(S) PROVE Moves(Server, "hooking", S, {})
  <2> DEFINE x == [remover[Server] EXCEPT !.pc = "hooking", !.batch = S]
  <2>1. x \in Remover /\ x.pc = "hooking" /\ x.batch = S /\ x.free = {}
    BY <1>1, <1>2, <1>3 DEF Remover, HookPatch
  <2>2. remover' = [remover EXCEPT ![Server] = x]
    BY <1>3 DEF HookPatch
  <2> HIDE DEF x
  <2>3. QED
    BY <1>1, <2>1, <2>2, MovesWith
<1>4. ASSUME NEW S \in SUBSET Hooks, Unhook(S) PROVE Moves(Server, "take", {}, {})
  <2> DEFINE x == [remover[Server] EXCEPT !.pc = "take", !.todo = S]
  <2>1. x \in Remover /\ x.pc = "take" /\ x.batch = {} /\ x.free = {}
    BY <1>1, <1>2, <1>4 DEF Remover, Unhook
  <2>2. remover' = [remover EXCEPT ![Server] = x]
    BY <1>4 DEF Unhook
  <2> HIDE DEF x
  <2>3. QED
    BY <1>1, <2>1, <2>2, MovesWith
<1>5. ASSUME HookDone \/ HookFails PROVE Moves(Server, "idle", {}, {})
  <2>1. Idle \in Remover /\ Idle.pc = "idle" /\ Idle.batch = {} /\ Idle.free = {}
    BY DEF Remover, Idle
  <2>2. remover' = [remover EXCEPT ![Server] = Idle]
    BY <1>5 DEF HookDone, HookFails
  <2>3. QED
    BY <1>1, <2>1, <2>2, MovesWith
<1>6. QED
  BY <1>3, <1>4, <1>5

\* The fields of a removal after each of its steps.
LEMMA RemovalMoves ==
  ASSUME TypeOK, BatchInv, NEW r \in Removers
  PROVE  /\ DisableScope(r) => Moves(r, "collect", {}, {})
         /\ Collect(r) => Moves(r, "take", {}, {}) \/ Moves(r, "idle", {}, {})
         /\ \A h \in Hooks : TakeEntry(r, h) =>
              Moves(r, "take", IF entry[h] = "listed" THEN remover[r].batch \cup {h} ELSE remover[r].batch, {})
         /\ DisableTaken(r) => Moves(r, "count", remover[r].batch, {})
         /\ CountsRead(r) => \/ Moves(r, "unhook", remover[r].batch, remover[r].free)
                             \/ Moves(r, "idle", {}, {}) \/ Moves(r, "collect", {}, {})
         /\ LibUnhook(r) \/ LibUnhookBlind(r) => Moves(r, "free", remover[r].batch, remover[r].free)
         /\ \A h \in Hooks : FreeEntry(r, h) =>
              \E p \in {"count", "free"} : /\ Moves(r, p, remover[r].batch \ {h}, remover[r].free \ {h})
                                           /\ p = "count" <=> remover[r].free = {h}
<1> USE DEF At
<1>0. Tries \in 1..Tries
  BY HookConstants
<1> DEFINE m == remover[r]
<1>1. m \in Remover
  BY DEF TypeOK
<1>2. /\ m.pc \in {"idle", "collect"} => m.batch = {} /\ m.free = {}
      /\ m.pc = "take" => m.free = {}
  BY DEF BatchInv
<1>3. ASSUME NEW x \in Remover, remover' = [remover EXCEPT ![r] = x]
      PROVE  Moves(r, x.pc, x.batch, x.free)
  BY <1>3, MovesWith
<1>4. \A S \in SUBSET Hooks : Listed \cap S \in SUBSET Hooks
  BY DEF Listed
<1>5. ASSUME DisableScope(r) PROVE Moves(r, "collect", {}, {})
  <2> DEFINE S == IF r = Server THEN Hooks ELSE DllHooks
  <2>1. S \in SUBSET Hooks /\ remover' = [remover EXCEPT ![r].pc = "collect", ![r].scope = S]
    BY <1>5, HookConstants DEF DisableScope
  <2> HIDE DEF S
  <2> DEFINE x == [m EXCEPT !.pc = "collect", !.scope = S]
  <2>2. x \in Remover /\ x.pc = "collect" /\ x.batch = {} /\ x.free = {}
    BY <1>1, <1>2, <1>5, <2>1 DEF Remover, DisableScope
  <2>3. remover' = [remover EXCEPT ![r] = x]
    BY <2>1
  <2> HIDE DEF x
  <2>4. QED
    BY <1>3, <2>2, <2>3
<1>6. ASSUME Collect(r) PROVE Moves(r, "take", {}, {}) \/ Moves(r, "idle", {}, {})
  <2> DEFINE S == Listed \cap m.scope
  <2>1. S \in SUBSET Hooks
    BY <1>1, <1>4 DEF Remover
  <2>2. remover' = [remover EXCEPT ![r].pc = "take", ![r].todo = S] \/ remover' = [remover EXCEPT ![r] = Idle]
    BY <1>6 DEF Collect
  <2> HIDE DEF S
  <2> DEFINE x == [m EXCEPT !.pc = "take", !.todo = S]
  <2>3. x \in Remover /\ x.pc = "take" /\ x.batch = {} /\ x.free = {}
    BY <1>1, <1>2, <1>6, <2>1 DEF Remover, Collect
  <2>4. remover' = [remover EXCEPT ![r] = x] \/ remover' = [remover EXCEPT ![r] = Idle]
    BY <2>2
  <2>5. Idle \in Remover /\ Idle.pc = "idle" /\ Idle.batch = {} /\ Idle.free = {}
    BY <1>0 DEF Remover, Idle
  <2> HIDE DEF x
  <2>6. QED
    BY <1>3, <2>3, <2>4, <2>5
<1>7. ASSUME NEW h \in Hooks, TakeEntry(r, h)
      PROVE  Moves(r, "take", IF entry[h] = "listed" THEN m.batch \cup {h} ELSE m.batch, {})
  <2> DEFINE b == IF entry[h] = "listed" THEN m.batch \cup {h} ELSE m.batch
             x == [m EXCEPT !.todo = @ \ {h}, !.batch = b]
  <2>1. b \in SUBSET Hooks
    BY <1>1 DEF Remover
  <2>2. remover' = [remover EXCEPT ![r] = x]
    BY <1>7 DEF TakeEntry
  <2> HIDE DEF b
  <2>3. x \in Remover /\ x.pc = "take" /\ x.batch = b /\ x.free = {}
    BY <1>1, <1>2, <1>7, <2>1 DEF Remover, TakeEntry
  <2> HIDE DEF x
  <2>4. Moves(r, "take", b, {})
    BY <1>3, <2>2, <2>3
  <2>5. QED
    BY <2>4 DEF b
<1>8. ASSUME DisableTaken(r) PROVE Moves(r, "count", m.batch, {})
  <2> DEFINE x == [m EXCEPT !.pc = "count", !.tries = Tries]
  <2>1. x \in Remover /\ x.pc = "count" /\ x.batch = m.batch /\ x.free = {}
    BY <1>0, <1>1, <1>2, <1>8 DEF Remover, DisableTaken
  <2>2. remover' = [remover EXCEPT ![r] = x]
    BY <1>8 DEF DisableTaken
  <2> HIDE DEF x
  <2>3. QED
    BY <1>3, <2>1, <2>2
<1>9. ASSUME CountsRead(r)
      PROVE  Moves(r, "unhook", m.batch, m.free) \/ Moves(r, "idle", {}, {}) \/ Moves(r, "collect", {}, {})
  <2> DEFINE x == [m EXCEPT !.pc = "unhook"]
             y == [Idle EXCEPT !.pc = IF m.scope = {} THEN "idle" ELSE "collect", !.scope = m.scope]
  <2>1. x \in Remover /\ x.pc = "unhook" /\ x.batch = m.batch /\ x.free = m.free
    BY <1>1 DEF Remover
  <2>2. y \in Remover /\ y.pc \in {"idle", "collect"} /\ y.batch = {} /\ y.free = {}
    BY <1>0, <1>1 DEF Remover, Idle
  <2>3. remover' = [remover EXCEPT ![r] = x] \/ remover' = [remover EXCEPT ![r] = y]
    BY <1>9 DEF CountsRead
  <2> HIDE DEF x, y
  <2>4. QED
    BY <1>3, <2>1, <2>2, <2>3
<1>10. ASSUME LibUnhook(r) \/ LibUnhookBlind(r) PROVE Moves(r, "free", m.batch, m.free)
  <2> DEFINE x == [m EXCEPT !.pc = "free"]
  <2>1. x \in Remover /\ x.pc = "free" /\ x.batch = m.batch /\ x.free = m.free
    BY <1>1 DEF Remover
  <2>2. remover' = [remover EXCEPT ![r] = x]
    BY <1>10 DEF LibUnhook, LibUnhookBlind, Unpatch
  <2> HIDE DEF x
  <2>3. QED
    BY <1>3, <2>1, <2>2
<1>11. ASSUME NEW h \in Hooks, FreeEntry(r, h)
       PROVE  \E p \in {"count", "free"} : /\ Moves(r, p, m.batch \ {h}, m.free \ {h})
                                           /\ p = "count" <=> m.free = {h}
  <2> DEFINE p == IF m.free = {h} THEN "count" ELSE m.pc
             x == [m EXCEPT !.free = @ \ {h}, !.batch = @ \ {h}, !.pc = p, !.tries = Tries]
  <2>1. p \in {"count", "free"} /\ (p = "count" <=> m.free = {h})
    BY <1>11 DEF FreeEntry
  <2>2. remover' = [remover EXCEPT ![r] = x]
    BY <1>11 DEF FreeEntry
  <2> HIDE DEF p
  <2>3. x \in Remover /\ x.pc = p /\ x.batch = m.batch \ {h} /\ x.free = m.free \ {h}
    BY <1>0, <1>1, <2>1 DEF Remover
  <2> HIDE DEF x
  <2>4. Moves(r, p, m.batch \ {h}, m.free \ {h})
    BY <1>3, <2>2, <2>3
  <2>5. QED
    BY <2>1, <2>4
<1>12. QED
  BY <1>5, <1>6, <1>7, <1>8, <1>9, <1>10, <1>11

\* What a step of remover r must do for each of the three invariants.
LEMMA BatchAfter ==
  ASSUME BatchInv, NEW r \in Removers, NEW p, NEW b, NEW f, Moves(r, p, b, f),
         f \subseteq b, p \in {"idle", "collect"} => b = {}, p \in {"hooking", "take"} => f = {},
         p = "hooking" => r = Server,
         \A h \in b : entry'[h] = IF p = "hooking" THEN "none" ELSE "taken",
         \A q \in Removers \ {r} : \A h \in remover[q].batch : h \notin b /\ entry'[h] = entry[h]
  PROVE  BatchInv'
<1>1. \A q \in Removers : remover'[q].free \subseteq remover'[q].batch
  BY DEF BatchInv, Moves
<1>2. \A q \in Removers : /\ remover'[q].pc \in {"idle", "collect"} => remover'[q].batch = {}
                          /\ remover'[q].pc \in {"hooking", "take"} => remover'[q].free = {}
                          /\ remover'[q].pc = "hooking" => q = Server
  BY DEF BatchInv, Moves
<1>3. \A q \in Removers : \A h \in remover'[q].batch :
        entry'[h] = IF remover'[q].pc = "hooking" THEN "none" ELSE "taken"
  BY DEF BatchInv, Moves
<1>4. \A o, q \in Removers : o # q => remover'[o].batch \cap remover'[q].batch = {}
  BY DEF BatchInv, Moves
<1>5. QED
  BY <1>1, <1>2, <1>3, <1>4 DEF BatchInv, Removers

LEMMA FlagAfter ==
  ASSUME FlagInv, NEW r \in Removers, NEW p, NEW b, NEW f, Moves(r, p, b, f),
         \A h \in Hooks : entry'[h] \in {"none", "freed", "leaked"} => flags'[h] # {},
         p \in {"count", "unhook", "free"} => \A h \in b : "disabled" \in flags'[h],
         \A q \in Removers \ {r} : \A h \in remover[q].batch : "disabled" \in flags[h] => "disabled" \in flags'[h]
  PROVE  FlagInv'
<1>1. \A q \in Removers : remover'[q].pc \in {"count", "unhook", "free"} =>
        \A h \in remover'[q].batch : "disabled" \in flags'[h]
  BY DEF FlagInv, Moves
<1>2. QED
  BY <1>1 DEF FlagInv, Removers

LEMMA LateAfter ==
  ASSUME TypeOK, BatchInv, LateInv, NEW r \in Removers, NEW p, NEW b, NEW f, Moves(r, p, b, f),
         UNCHANGED <<stack, late, alone>>, blind \subseteq blind', f \subseteq remover[r].free,
         p = "free" => \A h \in f, t \in Threads : Inside(t, h, {"injected"}) => h \in blind',
         \A h \in Hooks : entry'[h] = "none" => entry[h] = "none",
         \A h \in Hooks : entry'[h] = "freed" =>
           entry[h] \in {"none", "freed"} \/ (h \in remover[r].free /\ remover[r].pc = "free")
  PROVE  LateInv'
<1>1. /\ \A t \in Threads, h \in Hooks : Inside(t, h, Everywhere)' <=> Inside(t, h, Everywhere)
      /\ \A t \in Threads, h \in Hooks : Inside(t, h, {"injected"})' <=> Inside(t, h, {"injected"})
      /\ \A t \in Threads, h \in Hooks : Known(t, h)' <=> Known(t, h)
  BY DEF Inside, Depth, Known
<1>2. \A q \in Removers : \A h \in remover'[q].free : h \in remover[q].free /\ h \in Hooks
  <2>1. \A q \in Removers : remover[q].free \subseteq Hooks
    BY DEF TypeOK, Remover
  <2>2. QED
    BY <2>1 DEF Moves
<1>3. \A q \in Removers : \A h \in remover'[q].free, t \in Threads :
        /\ Known(t, h)
        /\ remover'[q].pc = "free" /\ Inside(t, h, {"injected"}) => h \in blind'
  BY <1>2 DEF LateInv, Moves
<1>4. \A h \in Hooks, t \in Threads : entry'[h] = "none" => ~Inside(t, h, Everywhere)
  BY DEF LateInv
<1>5. ASSUME NEW h \in Hooks, NEW t \in Threads, entry'[h] = "freed"
      PROVE  Known(t, h) /\ (Inside(t, h, {"injected"}) => h \in blind')
  <2>1. CASE entry[h] = "none"
    <3>1. Inside(t, h, InStub) \/ Inside(t, h, {"injected"}) => Inside(t, h, Everywhere)
      BY DEF Inside, Everywhere, InStub, Uncounted
    <3>2. QED
      BY <2>1, <3>1 DEF LateInv, Known
  <2>2. CASE entry[h] = "freed"
    BY <2>2 DEF LateInv
  <2>3. CASE h \in remover[r].free /\ remover[r].pc = "free"
    BY <2>3 DEF LateInv
  <2>4. QED
    BY <1>5, <2>1, <2>2, <2>3
<1>6. \A q \in Removers : \A h \in remover'[q].free, t \in Threads :
        /\ Known(t, h)'
        /\ remover'[q].pc = "free" /\ Inside(t, h, {"injected"})' => h \in blind'
  BY <1>1, <1>2, <1>3
<1>7. \A h \in Hooks, t \in Threads : entry'[h] = "none" => ~Inside(t, h, Everywhere)'
  BY <1>1, <1>4
<1>8. \A h \in Hooks, t \in Threads : entry'[h] = "freed" =>
        Known(t, h)' /\ (Inside(t, h, {"injected"})' => h \in blind')
  BY <1>1, <1>5
<1>9. QED
  BY <1>6, <1>7, <1>8 DEF LateInv, Removers

\* Hook, Unhook and EnableHook, on the server's thread.
LEMMA ServerKeeps ==
  ASSUME TypeOK, BatchInv, FlagInv, LateInv, ServerNext
  PROVE  TypeOK' /\ BatchInv' /\ FlagInv' /\ LateInv'
<1> USE DEF At, lib, threadVars, missed
<1>0. Server \in Removers /\ remover[Server] \in Remover
  BY DEF TypeOK, Removers
<1>1. ThreadTypes /\ EngineTypes
  BY TypeParts
<1>2. ASSUME UNCHANGED threadVars, EngineTypes' PROVE TypeOK'
  BY <1>1, <1>2, TypeParts DEF ThreadTypes
<1>3. \A q \in Removers \ {Server} : \A h \in remover[q].batch : entry[h] = "taken" /\ h \notin remover[Server].batch
  BY <1>0 DEF BatchInv
<1>4. ASSUME NEW S \in SUBSET Hooks, HookPatch(S) PROVE TypeOK' /\ BatchInv' /\ FlagInv' /\ LateInv'
  <2>1. Moves(Server, "hooking", S, {})
    BY <1>4, HookMoves
  <2>2. EngineTypes'
    BY <1>1, <1>4, <2>1 DEF HookPatch, EngineTypes, Moves, Removers
  <2>3. \A h \in S : entry[h] = "none"
    BY <1>4 DEF HookPatch
  <2>4. \A h \in Hooks : flags'[h] = IF h \in S THEN {"disabled"} ELSE flags[h]
    BY <1>4 DEF HookPatch
  <2>5. \A q \in Removers : remover[q].batch \subseteq Hooks
    BY DEF TypeOK, Remover
  <2>6. UNCHANGED <<entry, stack, late, alone, blind>>
    BY <1>4 DEF HookPatch
  <2>7. BatchInv'
    BY <1>0, <1>3, <2>1, <2>3, <2>6, BatchAfter
  <2>8. FlagInv'
    <3>1. \A h \in Hooks : entry'[h] \in {"none", "freed", "leaked"} => flags'[h] # {}
      BY <2>4, <2>6 DEF FlagInv
    <3>2. \A q \in Removers \ {Server} : \A h \in remover[q].batch : "disabled" \in flags[h] => "disabled" \in flags'[h]
      BY <2>4, <2>5
    <3>3. QED
      BY <1>0, <2>1, <3>1, <3>2, FlagAfter
  <2>9. LateInv'
    BY <1>0, <2>1, <2>6, LateAfter
  <2>10. QED
    BY <1>2, <1>4, <2>2, <2>7, <2>8, <2>9 DEF HookPatch
<1>5. ASSUME NEW S \in SUBSET Hooks, Unhook(S) PROVE TypeOK' /\ BatchInv' /\ FlagInv' /\ LateInv'
  <2>1. Moves(Server, "take", {}, {})
    BY <1>5, HookMoves
  <2>2. EngineTypes'
    BY <1>1, <1>5, <2>1 DEF Unhook, EngineTypes, Moves, Removers
  <2>3. UNCHANGED <<entry, flags, stack, late, alone, blind>>
    BY <1>5 DEF Unhook
  <2>4. BatchInv'
    BY <1>0, <2>1, <2>3, BatchAfter
  <2>5. FlagInv'
    BY <1>0, <2>1, <2>3, FlagAfter DEF FlagInv
  <2>6. LateInv'
    BY <1>0, <2>1, <2>3, LateAfter
  <2>7. QED
    BY <1>2, <1>5, <2>2, <2>4, <2>5, <2>6 DEF Unhook
<1>6. ASSUME HookDone \/ HookFails PROVE TypeOK' /\ BatchInv' /\ FlagInv' /\ LateInv'
  <2>1. Moves(Server, "idle", {}, {})
    BY <1>6, HookMoves
  <2>2. PICK e \in {"listed", "freed"}, F \in [Hooks -> SUBSET {"absent", "disabled", "uninstalled"}] :
          /\ entry' = [h \in Hooks |-> IF h \in remover[Server].batch THEN e ELSE entry[h]]
          /\ flags' = F /\ \A h \in Hooks \ remover[Server].batch : F[h] = flags[h]
          /\ e = "freed" => \A h \in remover[Server].batch : F[h] # {}
    <3>1. CASE HookDone
      <4> DEFINE F == [h \in Hooks |-> IF h \in remover[Server].batch THEN flags[h] \ {"disabled"} ELSE flags[h]]
      <4>1. F \in [Hooks -> SUBSET {"absent", "disabled", "uninstalled"}]
        BY DEF TypeOK
      <4>2. entry' = [h \in Hooks |-> IF h \in remover[Server].batch THEN "listed" ELSE entry[h]] /\ flags' = F
        BY <3>1 DEF HookDone
      <4>3. QED
        BY <4>1, <4>2
    <3>2. CASE HookFails
      <4> DEFINE F == [h \in Hooks |-> IF h \in remover[Server].batch THEN flags[h] \cup {"uninstalled"} ELSE flags[h]]
      <4>1. F \in [Hooks -> SUBSET {"absent", "disabled", "uninstalled"}]
        BY DEF TypeOK
      <4>2. entry' = [h \in Hooks |-> IF h \in remover[Server].batch THEN "freed" ELSE entry[h]] /\ flags' = F
        BY <3>2 DEF HookFails
      <4>3. \A h \in remover[Server].batch : F[h] # {}
        BY <1>0 DEF Remover
      <4>4. QED
        BY <4>1, <4>2, <4>3
    <3>3. QED
      BY <1>6, <3>1, <3>2
  <2>3. UNCHANGED <<stack, late, alone, blind, threadVars, agent, enables>>
    BY <1>6 DEF HookDone, HookFails
  <2>4. \A q \in Removers : remover[q].batch \subseteq Hooks
    BY DEF TypeOK, Remover
  <2>5. \A h \in remover[Server].batch : entry[h] = "none"
    BY <1>0, <1>6 DEF BatchInv, HookDone, HookFails
  <2>6. EngineTypes'
    BY <1>1, <2>1, <2>2, <2>3 DEF EngineTypes, Moves, Removers
  <2>7. BatchInv'
    <3>1. \A q \in Removers \ {Server} : \A h \in remover[q].batch : entry'[h] = entry[h]
      BY <1>3, <2>2, <2>4
    <3>2. QED
      BY <1>0, <2>1, <3>1, BatchAfter
  <2>8. FlagInv'
    <3>1. \A h \in Hooks : entry'[h] \in {"none", "freed", "leaked"} => flags'[h] # {}
      BY <2>2 DEF FlagInv
    <3>2. \A q \in Removers \ {Server} : \A h \in remover[q].batch : "disabled" \in flags[h] => "disabled" \in flags'[h]
      BY <1>3, <2>2, <2>4
    <3>3. QED
      BY <1>0, <2>1, <3>1, <3>2, FlagAfter
  <2>9. LateInv'
    <3>1. \A h \in Hooks : entry'[h] = "none" => entry[h] = "none"
      BY <2>2
    <3>2. \A h \in Hooks : entry'[h] = "freed" => entry[h] \in {"none", "freed"}
      BY <2>2, <2>5
    <3>3. QED
      BY <1>0, <2>1, <2>3, <3>1, <3>2, LateAfter
  <2>10. QED
    BY <1>2, <2>3, <2>6, <2>7, <2>8, <2>9
<1>7. ASSUME NEW g \in Hooks, EnableHook(g) PROVE TypeOK' /\ BatchInv' /\ FlagInv' /\ LateInv'
  <2>1. UNCHANGED <<entry, remover, stack, late, alone, blind, threadVars, agent>> /\ entry[g] = "listed"
    BY <1>7 DEF EnableHook
  <2>2. flags' \in [Hooks -> SUBSET {"absent", "disabled", "uninstalled"}] /\ \A h \in Hooks \ {g} : flags'[h] = flags[h]
    BY <1>1, <1>7 DEF EnableHook, EngineTypes
  <2>3. EngineTypes'
    BY <1>1, <1>7, <2>1, <2>2 DEF EngineTypes, EnableHook, Removers
  <2>4. \A q \in Removers : remover[q].batch \subseteq Hooks /\ g \notin remover[q].batch
    BY <2>1 DEF TypeOK, Remover, BatchInv
  <2>5. BatchInv'
    BY <2>1 DEF BatchInv, Removers
  <2>6. FlagInv'
    BY <2>1, <2>2, <2>4 DEF FlagInv, Removers
  <2>7. LateInv'
    BY <2>1 DEF LateInv, Known, Inside, Depth, Removers
  <2>8. QED
    BY <1>2, <2>1, <2>3, <2>5, <2>6, <2>7
<1>8. QED
  BY <1>4, <1>5, <1>6, <1>7 DEF ServerNext

LEMMA CountedFinite ==
  ASSUME NEW h
  PROVE  IsFiniteSet(CountedFrames(h)) /\ Cardinality(CountedFrames(h)) \in Nat
<1>1. IsFiniteSet(1..MaxDepth)
  BY HookConstants, FS_Interval
<1>2. IsFiniteSet(Threads \X (1..MaxDepth))
  BY <1>1, HookConstants, FS_Product
<1>3. QED
  BY <1>2, FS_Subset, FS_CardinalityType DEF CountedFrames

\* A count of zero means that nobody is between the stub's inc and dec.
LEMMA ZeroMeansNobody ==
  ASSUME TypeOK, DepthInv, UsageExact, NEW h \in Hooks, usage[h] = 0
  PROVE  \A t \in Threads : ~Inside(t, h, Counted)
<1>1. Cardinality(CountedFrames(h)) = 0
  <2>1. Cardinality(CountedFrames(h)) \in Nat /\ skipped[h] \in Nat
    BY CountedFinite DEF TypeOK
  <2>2. QED
    BY <2>1 DEF UsageExact
<1>2. CountedFrames(h) = {}
  BY <1>1, CountedFinite, FS_EmptySet
<1>3. ASSUME NEW t \in Threads, NEW d \in 1..Depth(t), stack[t][d].hook = h, stack[t][d].at \in Counted
      PROVE  FALSE
  <2>1. d \in 1..MaxDepth /\ d <= Depth(t)
    BY HookConstants DEF DepthInv, TypeOK, Depth
  <2>2. <<t, d>> \in CountedFrames(h)
    BY <1>3, <2>1 DEF CountedFrames
  <2>3. QED
    BY <1>2, <2>2
<1>4. QED
  BY <1>3 DEF Inside

\* Reading the count: who is found inside was there uncounted.
LEMMA ReadKeeps ==
  ASSUME TypeOK, DepthInv, UsageExact, BatchInv, FlagInv, LateInv, NEW r \in Removers, NEW h \in Hooks, ReadCount(r, h)
  PROVE  TypeOK' /\ BatchInv' /\ FlagInv' /\ LateInv'
<1> USE DEF At, lib, threadVars, missed
<1> DEFINE m == remover[r]
<1>0. ThreadTypes /\ EngineTypes /\ m \in Remover /\ m.pc = "count" /\ h \in m.batch /\ h \notin m.free
  BY TypeParts DEF ReadCount, TypeOK
<1>1. UNCHANGED <<flags, threadVars, agent, enables, blind>>
  BY DEF ReadCount
<1>2. ASSUME EngineTypes' PROVE TypeOK'
  BY <1>0, <1>1, <1>2, TypeParts DEF ThreadTypes
<1>3. \A q \in Removers \ {r} : h \notin remover[q].batch /\ h \notin remover[q].free
  BY <1>0 DEF BatchInv
<1>4. entry[h] = "taken" /\ m.free \subseteq m.batch
  BY <1>0 DEF BatchInv
<1>5. \A g \in m.batch : "disabled" \in flags[g]
  BY <1>0 DEF FlagInv
<1>6. ASSUME NEW x \in Remover, remover' = [remover EXCEPT ![r] = x], x.batch \subseteq m.batch, x.free \subseteq x.batch,
             x.pc \in {"count", "unhook"},
             UNCHANGED entry \/ (h \notin x.batch /\ entry' = [entry EXCEPT ![h] = "leaked"])
      PROVE  BatchInv' /\ FlagInv' /\ entry' \in [Hooks -> {"none", "listed", "taken", "freed", "leaked"}]
  <2>1. Moves(r, x.pc, x.batch, x.free)
    BY <1>6, MovesWith
  <2>2. \A g \in Hooks : entry'[g] = entry[g] \/ (g = h /\ entry'[g] = "leaked")
    BY <1>6 DEF TypeOK
  <2>3. \A q \in Removers : remover[q].batch \subseteq Hooks
    BY DEF TypeOK, Remover
  <2>4. \A g \in x.batch : g # h \/ UNCHANGED entry
    BY <1>6
  <2>5. \A g \in x.batch : entry'[g] = "taken"
    <3>1. \A g \in m.batch : entry[g] = "taken"
      BY <1>0 DEF BatchInv
    <3>2. QED
      BY <1>6, <2>2, <2>3, <2>4, <3>1
  <2>6. \A q \in Removers \ {r} : \A g \in remover[q].batch : g \notin x.batch /\ entry'[g] = entry[g]
    <3>1. \A q \in Removers \ {r} : remover[q].batch \cap m.batch = {}
      BY DEF BatchInv
    <3>2. QED
      BY <1>3, <1>6, <2>2, <2>3, <3>1
  <2>7. BatchInv'
    BY <1>6, <2>1, <2>5, <2>6, BatchAfter
  <2>8. FlagInv'
    <3>1. \A g \in Hooks : entry'[g] \in {"none", "freed", "leaked"} => flags'[g] # {}
      BY <1>0, <1>1, <1>5, <2>2 DEF FlagInv
    <3>2. QED
      BY <1>1, <1>5, <1>6, <2>1, <3>1, FlagAfter
  <2>9. QED
    BY <1>0, <1>6, <2>7, <2>8 DEF EngineTypes
<1>7. ASSUME NEW x \in Remover, remover' = [remover EXCEPT ![r] = x]
      PROVE  remover' \in [Removers -> Remover]
  BY <1>0, <1>7 DEF EngineTypes
<1>8. CASE /\ usage[h] = 0 /\ remover' = [remover EXCEPT ![r].free = @ \cup {h}]
           /\ late' = [late EXCEPT ![h] = {t \in Threads : Inside(t, h, Uncounted)}]
           /\ alone' = [alone EXCEPT ![h] = {t \in Threads : Inside(t, h, Detached)}] /\ UNCHANGED entry
  <2> DEFINE x == [m EXCEPT !.free = @ \cup {h}]
  <2>1. x \in Remover /\ x.pc = "count" /\ x.batch = m.batch /\ x.free = m.free \cup {h}
    BY <1>0 DEF Remover
  <2>2. remover' = [remover EXCEPT ![r] = x]
    BY <1>8
  <2> HIDE DEF x
  <2>3. BatchInv' /\ FlagInv'
    BY <1>0, <1>4, <1>6, <1>8, <2>1, <2>2
  <2>4. late' \in [Hooks -> SUBSET Threads] /\ alone' \in [Hooks -> SUBSET Threads]
    BY <1>0, <1>8 DEF EngineTypes
  <2>5. EngineTypes'
    BY <1>0, <1>1, <1>7, <1>8, <2>1, <2>2, <2>4 DEF EngineTypes, Removers
  <2>6. \A t \in Threads, g \in Hooks : /\ Inside(t, g, Everywhere)' <=> Inside(t, g, Everywhere)
                                        /\ Inside(t, g, InStub)' <=> Inside(t, g, InStub)
                                        /\ Inside(t, g, {"injected"})' <=> Inside(t, g, {"injected"})
    BY <1>1 DEF Inside, Depth
  <2>7. \A t \in Threads : Known(t, h)'
    <3>1. \A t \in Threads : ~Inside(t, h, Counted)
      BY <1>8, ZeroMeansNobody
    <3>2. \A t \in Threads : /\ Inside(t, h, InStub) => Inside(t, h, Counted) \/ Inside(t, h, Uncounted)
                             /\ Inside(t, h, Everywhere) => Inside(t, h, InStub) \/ Inside(t, h, Detached)
      BY DEF Inside, Everywhere, InStub
    <3>3. /\ late'[h] = {t \in Threads : Inside(t, h, Uncounted)}
          /\ alone'[h] = {t \in Threads : Inside(t, h, Detached)}
      BY <1>8 DEF TypeOK
    <3>4. QED
      BY <2>6, <3>1, <3>2, <3>3 DEF Known
  <2>8. \A g \in Hooks : g # h => late'[g] = late[g] /\ alone'[g] = alone[g]
    BY <1>8 DEF TypeOK
  <2>8a. \A t \in Threads, g \in Hooks : g # h /\ Known(t, g) => Known(t, g)'
    BY <2>6, <2>8 DEF Known
  <2>9. \A q \in Removers : remover'[q].free \subseteq remover[q].free \cup {h} /\ remover[q].free \subseteq Hooks
    BY <2>1, <2>2 DEF TypeOK, Remover
  <2>10. \A q \in Removers : remover'[q].pc = remover[q].pc
    BY <1>0, <2>1, <2>2 DEF TypeOK
  <2>11. \A q \in Removers : \A g \in remover'[q].free, t \in Threads :
           /\ Known(t, g)'
           /\ remover'[q].pc = "free" /\ Inside(t, g, {"injected"})' => g \in blind'
    <3>1. SUFFICES ASSUME NEW q \in Removers, NEW g \in remover'[q].free, NEW t \in Threads
                   PROVE  /\ Known(t, g)'
                          /\ remover[q].pc = "free" /\ Inside(t, g, {"injected"}) => g \in blind
      BY <1>1, <2>6, <2>9, <2>10
    <3>2. CASE g = h
      <4>1. q = r
        <5>1. q # r => remover'[q] = remover[q]
          BY <2>2 DEF TypeOK
        <5>2. QED
          BY <1>3, <3>2, <5>1
      <4>2. QED
        BY <1>0, <2>7, <3>2, <4>1
    <3>3. CASE g # h
      BY <2>8a, <2>9, <3>3 DEF LateInv
    <3>4. QED
      BY <3>2, <3>3
  <2>12. \A g \in Hooks, t \in Threads : entry'[g] = "none" => ~Inside(t, g, Everywhere)'
    BY <1>8, <2>6 DEF LateInv
  <2>13. \A g \in Hooks, t \in Threads : entry'[g] = "freed" =>
           Known(t, g)' /\ (Inside(t, g, {"injected"})' => g \in blind')
    BY <1>1, <1>4, <1>8, <2>6, <2>8a DEF LateInv
  <2>14. LateInv'
    BY <2>11, <2>12, <2>13 DEF LateInv, Removers
  <2>15. QED
    BY <1>2, <2>3, <2>5, <2>14
<1>9. CASE usage[h] > 0 /\ UNCHANGED <<late, alone>>
  <2>1. PICK x \in Remover : /\ remover' = [remover EXCEPT ![r] = x]
                             /\ x.batch \subseteq m.batch /\ x.free = m.free /\ x.free \subseteq x.batch /\ x.pc \in {"count", "unhook"}
                             /\ UNCHANGED entry \/ (h \notin x.batch /\ entry' = [entry EXCEPT ![h] = "leaked"])
    <3>0. m.tries \in 1..Tries /\ Tries \in Nat \ {0}
      BY <1>0, HookConstants DEF Remover
    <3>1. CASE remover' = [remover EXCEPT ![r].pc = "unhook"] /\ UNCHANGED entry
      <4> DEFINE x == [m EXCEPT !.pc = "unhook"]
      <4>1. x \in Remover /\ x.pc = "unhook" /\ x.batch = m.batch /\ x.free = m.free
        BY <1>0 DEF Remover
      <4>2. remover' = [remover EXCEPT ![r] = x]
        BY <3>1
      <4> HIDE DEF x
      <4>3. QED
        BY <1>4, <3>1, <4>1, <4>2
    <3>2. CASE m.tries > 1 /\ remover' = [remover EXCEPT ![r].tries = @ - 1] /\ UNCHANGED entry
      <4> DEFINE x == [m EXCEPT !.tries = @ - 1]
      <4>0. m.tries - 1 \in 1..Tries
        BY <3>0, <3>2
      <4>1. x \in Remover /\ x.pc = "count" /\ x.batch = m.batch /\ x.free = m.free
        BY <1>0, <4>0 DEF Remover
      <4>2. remover' = [remover EXCEPT ![r] = x]
        BY <3>2
      <4> HIDE DEF x
      <4>3. QED
        BY <1>4, <3>2, <4>1, <4>2
    <3>3. CASE m.free = {} /\ remover' = [remover EXCEPT ![r].batch = @ \ {h}, ![r].tries = Tries] /\ entry' = [entry EXCEPT ![h] = "leaked"]
      <4> DEFINE x == [m EXCEPT !.batch = @ \ {h}, !.tries = Tries]
      <4>0. Tries \in 1..Tries
        BY <3>0
      <4>1. x \in Remover /\ x.pc = "count" /\ x.batch = m.batch \ {h} /\ x.free = m.free
        BY <1>0, <4>0 DEF Remover
      <4>2. remover' = [remover EXCEPT ![r] = x]
        BY <3>3
      <4> HIDE DEF x
      <4>3. QED
        BY <1>4, <3>3, <4>1, <4>2
    <3>4. ~(usage[h] = 0)
      BY <1>9
    <3>5. \/ remover' = [remover EXCEPT ![r].pc = "unhook"] /\ UNCHANGED entry
          \/ m.tries > 1 /\ remover' = [remover EXCEPT ![r].tries = @ - 1] /\ UNCHANGED entry
          \/ /\ m.free = {} /\ remover' = [remover EXCEPT ![r].batch = @ \ {h}, ![r].tries = Tries]
             /\ entry' = [entry EXCEPT ![h] = "leaked"]
      BY <3>4 DEF ReadCount
    <3>6. QED
      BY <3>1, <3>2, <3>3, <3>5
  <2>2. BatchInv' /\ FlagInv' /\ entry' \in [Hooks -> {"none", "listed", "taken", "freed", "leaked"}]
    BY <1>6, <2>1
  <2>3. EngineTypes'
    BY <1>0, <1>1, <1>7, <1>9, <2>1, <2>2 DEF EngineTypes, Removers
  <2>4. Moves(r, x.pc, x.batch, x.free)
    BY <2>1, MovesWith
  <2>5. \A g \in Hooks : entry'[g] = entry[g] \/ entry'[g] = "leaked"
    BY <2>1 DEF TypeOK
  <2>6. LateInv'
    BY <1>1, <1>9, <2>1, <2>4, <2>5, LateAfter
  <2>7. QED
    BY <1>2, <2>2, <2>3, <2>6
<1>10. QED
  BY <1>8, <1>9 DEF ReadCount

\* The other steps of a removal, DllUnloadUnhook, UnhookAll and the end of the agent.
LEMMA RemovalKeeps ==
  ASSUME TypeOK, BatchInv, FlagInv, LateInv, NEW r \in Removers,
         \/ DisableScope(r) \/ Collect(r) \/ DisableTaken(r) \/ CountsRead(r) \/ LibUnhook(r) \/ LibUnhookBlind(r)
         \/ \E h \in Hooks : TakeEntry(r, h) \/ FreeEntry(r, h)
  PROVE  TypeOK' /\ BatchInv' /\ FlagInv' /\ LateInv'
<1> USE DEF At, lib, threadVars, missed
<1> DEFINE m == remover[r]
           Entries == {"none", "listed", "taken", "freed", "leaked"}
           Flags == SUBSET {"absent", "disabled", "uninstalled"}
<1>1. ThreadTypes /\ EngineTypes /\ m \in Remover
  BY TypeParts DEF TypeOK
<1>2. ASSUME UNCHANGED <<usage, stack, guard, fate, throws, skipped, unwound, enables, late, alone>>, blind' \subseteq Hooks,
             entry' \in [Hooks -> Entries], flags' \in [Hooks -> Flags], remover' \in [Removers -> Remover],
             agent' \in {"running", "finalized", "unloaded"}, records' \in [Threads -> Seq(Record)]
      PROVE  TypeOK'
  BY <1>1, <1>2, TypeParts DEF ThreadTypes, EngineTypes, Removers
<1>3. \A q \in Removers : remover[q].batch \subseteq Hooks /\ remover[q].free \subseteq remover[q].batch
  BY DEF TypeOK, Remover, BatchInv
<1>4. \A q \in Removers \ {r} : \A h \in remover[q].batch : h \notin m.batch /\ entry[h] \in {"none", "taken"}
  BY DEF BatchInv
<1>5. ASSUME NEW p, NEW b, NEW f, Moves(r, p, b, f), UNCHANGED <<entry, stack, late, alone>>, blind \subseteq blind', f \subseteq b, b \subseteq m.batch,
             p \in {"idle", "collect"} => b = {}, p = "take" => f = {}, p # "hooking", m.pc # "hooking", f \subseteq m.free,
             p = "free" => \A h \in f, t \in Threads : Inside(t, h, {"injected"}) => h \in blind',
             \A h \in Hooks : flags[h] \subseteq flags'[h],
             p \in {"count", "unhook", "free"} => \A h \in b : "disabled" \in flags'[h]
      PROVE  BatchInv' /\ FlagInv' /\ LateInv'
  <2>1. BatchInv'
    <3>1. \A h \in b : entry'[h] = "taken"
      BY <1>5 DEF BatchInv
    <3>2. \A q \in Removers \ {r} : \A h \in remover[q].batch : h \notin b /\ entry'[h] = entry[h]
      BY <1>4, <1>5
    <3>3. QED
      BY <1>5, <3>1, <3>2, BatchAfter
  <2>2. FlagInv'
    <3>1. \A h \in Hooks : entry'[h] \in {"none", "freed", "leaked"} => flags'[h] # {}
      BY <1>5 DEF FlagInv
    <3>2. \A q \in Removers \ {r} : \A h \in remover[q].batch : "disabled" \in flags[h] => "disabled" \in flags'[h]
      BY <1>3, <1>5
    <3>3. QED
      BY <1>5, <3>1, <3>2, FlagAfter
  <2>3. LateInv'
    BY <1>5, LateAfter
  <2>4. QED
    BY <2>1, <2>2, <2>3
<1>6. \A S : /\ Disabled(S) \in [Hooks -> Flags]
             /\ \A h \in Hooks : flags[h] \subseteq Disabled(S)[h] /\ (h \in S => "disabled" \in Disabled(S)[h])
  BY <1>1 DEF Disabled, EngineTypes
<1>7. ASSUME DisableScope(r) PROVE TypeOK' /\ BatchInv' /\ FlagInv' /\ LateInv'
  <2>1. Moves(r, "collect", {}, {})
    BY <1>7, RemovalMoves
  <2>2. UNCHANGED <<entry, usage, stack, guard, records, fate, throws, skipped, unwound, agent, enables, late, alone, blind>> /\ m.pc = "idle"
    BY <1>7 DEF DisableScope
  <2>3. flags' \in [Hooks -> Flags] /\ \A h \in Hooks : flags[h] \subseteq flags'[h]
    BY <1>6, <1>7 DEF DisableScope
  <2>4. TypeOK'
    BY <1>1, <1>2, <2>1, <2>2, <2>3 DEF Moves, ThreadTypes, EngineTypes
  <2>5. QED
    BY <1>5, <2>1, <2>2, <2>3, <2>4
<1>8. ASSUME Collect(r) PROVE TypeOK' /\ BatchInv' /\ FlagInv' /\ LateInv'
  <2>1. Moves(r, "take", {}, {}) \/ Moves(r, "idle", {}, {})
    BY <1>8, RemovalMoves
  <2>2. /\ UNCHANGED <<entry, flags, usage, stack, guard, fate, throws, skipped, unwound, enables, late, alone, blind>> /\ m.pc = "collect"
        /\ agent' \in {agent, "finalized"} /\ (UNCHANGED records \/ records' = [t \in Threads |-> <<>>])
    BY <1>8 DEF Collect
  <2>3. records' \in [Threads -> Seq(Record)]
    <3>1. <<>> \in Seq(Record)
      OBVIOUS
    <3>2. [t \in Threads |-> <<>>] \in [Threads -> Seq(Record)]
      BY <3>1
    <3>3. QED
      BY <1>1, <2>2, <3>2 DEF ThreadTypes
  <2>4. TypeOK'
    BY <1>1, <1>2, <2>1, <2>2, <2>3 DEF Moves, EngineTypes
  <2>5. QED
    BY <1>5, <2>1, <2>2, <2>4
<1>9. ASSUME NEW g \in Hooks, TakeEntry(r, g) PROVE TypeOK' /\ BatchInv' /\ FlagInv' /\ LateInv'
  <2>1. /\ UNCHANGED <<flags, usage, stack, guard, records, fate, throws, skipped, unwound, agent, enables, late, alone, blind>> /\ m.pc = "take"
        /\ entry' = IF entry[g] = "listed" THEN [entry EXCEPT ![g] = "taken"] ELSE entry
    BY <1>9 DEF TakeEntry
  <2>2. entry' \in [Hooks -> Entries]
    BY <1>1, <2>1 DEF EngineTypes
  <2> DEFINE b == IF entry[g] = "listed" THEN m.batch \cup {g} ELSE m.batch
  <2>3. Moves(r, "take", b, {})
    BY <1>9, RemovalMoves
  <2>4. TypeOK'
    BY <1>1, <1>2, <2>1, <2>2, <2>3 DEF Moves, ThreadTypes, EngineTypes
  <2>5. \A h \in Hooks : entry'[h] = IF h = g /\ entry[g] = "listed" THEN "taken" ELSE entry[h]
    BY <1>1, <2>1 DEF EngineTypes
  <2>6. BatchInv'
    <3>1. \A h \in b : entry'[h] = "taken"
      <4>1. \A h \in m.batch : entry[h] = "taken"
        BY <2>1 DEF BatchInv
      <4>2. QED
        BY <1>3, <2>5, <4>1
    <3>2. \A q \in Removers \ {r} : \A h \in remover[q].batch : h \notin b /\ entry'[h] = entry[h]
      BY <1>3, <1>4, <2>5
    <3> HIDE DEF b
    <3>3. QED
      BY <2>3, <3>1, <3>2, BatchAfter
  <2> HIDE DEF b
  <2>7. FlagInv'
    <3>1. \A h \in Hooks : entry'[h] \in {"none", "freed", "leaked"} => flags'[h] # {}
      BY <2>1, <2>5 DEF FlagInv
    <3>2. QED
      BY <2>1, <2>3, <3>1, FlagAfter
  <2>8. LateInv'
    BY <2>1, <2>3, <2>5, LateAfter
  <2>9. QED
    BY <2>4, <2>6, <2>7, <2>8
<1>10. ASSUME DisableTaken(r) PROVE TypeOK' /\ BatchInv' /\ FlagInv' /\ LateInv'
  <2>1. Moves(r, "count", m.batch, {})
    BY <1>10, RemovalMoves
  <2>2. UNCHANGED <<entry, usage, stack, guard, records, fate, throws, skipped, unwound, agent, enables, late, alone, blind>> /\ m.pc = "take"
    BY <1>10 DEF DisableTaken
  <2>3. /\ flags' \in [Hooks -> Flags] /\ \A h \in Hooks : flags[h] \subseteq flags'[h]
        /\ \A h \in m.batch : "disabled" \in flags'[h]
    BY <1>3, <1>6, <1>10 DEF DisableTaken
  <2>4. TypeOK'
    BY <1>1, <1>2, <2>1, <2>2, <2>3 DEF Moves, ThreadTypes, EngineTypes
  <2>5. QED
    BY <1>5, <2>1, <2>2, <2>3, <2>4
<1>11. ASSUME CountsRead(r) PROVE TypeOK' /\ BatchInv' /\ FlagInv' /\ LateInv'
  <2>1. Moves(r, "unhook", m.batch, m.free) \/ Moves(r, "idle", {}, {}) \/ Moves(r, "collect", {}, {})
    BY <1>11, RemovalMoves
  <2>2. /\ UNCHANGED <<entry, flags, usage, stack, guard, records, fate, throws, skipped, unwound, agent, enables, late, alone, blind>>
        /\ m.pc = "count"
    BY <1>11 DEF CountsRead
  <2>3. TypeOK'
    BY <1>1, <1>2, <2>1, <2>2 DEF Moves, ThreadTypes, EngineTypes
  <2>4. \A h \in m.batch : "disabled" \in flags'[h]
    BY <2>2 DEF FlagInv
  <2>5. QED
    BY <1>3, <1>5, <2>1, <2>2, <2>3, <2>4
<1>12. ASSUME LibUnhook(r) \/ LibUnhookBlind(r) PROVE TypeOK' /\ BatchInv' /\ FlagInv' /\ LateInv'
  <2>1. Moves(r, "free", m.batch, m.free)
    BY <1>12, RemovalMoves
  <2>2. PICK asleep \in SUBSET m.free, out \in SUBSET m.free : Unpatch(r, asleep, out)
    BY <1>12 DEF LibUnhook, LibUnhookBlind
  <2>3. /\ UNCHANGED <<entry, usage, stack, guard, records, fate, throws, skipped, unwound, agent, enables, late, alone>>
        /\ m.pc = "unhook" /\ \A h \in asleep, t \in Threads : ~Inside(t, h, {"injected", "mini"})
        /\ blind' = blind \cup (m.free \ asleep)
    BY <2>2 DEF Unpatch
  <2>4. flags' \in [Hooks -> Flags] /\ \A h \in Hooks : flags[h] \subseteq flags'[h]
    BY <1>1, <2>2 DEF Unpatch, EngineTypes
  <2>5. blind' \subseteq Hooks /\ blind \subseteq blind'
    BY <1>1, <1>3, <2>3 DEF EngineTypes
  <2>6. TypeOK'
    BY <1>1, <1>2, <2>1, <2>3, <2>4, <2>5 DEF Moves, ThreadTypes, EngineTypes
  <2>7. \A h \in m.batch : "disabled" \in flags'[h]
    BY <1>3, <2>3, <2>4 DEF FlagInv
  <2>8. \A h \in m.free, t \in Threads : Inside(t, h, {"injected"}) => h \in blind'
    <3>1. \A h \in asleep, t \in Threads : ~Inside(t, h, {"injected"})
      BY <2>3 DEF Inside
    <3>2. QED
      BY <2>3, <3>1
  <2>9. QED
    BY <1>3, <1>5, <2>1, <2>3, <2>4, <2>5, <2>6, <2>7, <2>8
<1>13. ASSUME NEW g \in Hooks, FreeEntry(r, g) PROVE TypeOK' /\ BatchInv' /\ FlagInv' /\ LateInv'
  <2>1. PICK p \in {"count", "free"} : /\ Moves(r, p, m.batch \ {g}, m.free \ {g})
                                       /\ p = "count" <=> m.free = {g}
    BY <1>13, RemovalMoves
  <2>2. /\ UNCHANGED <<flags, usage, stack, guard, records, fate, throws, skipped, unwound, agent, enables, late, alone, blind>>
        /\ m.pc = "free" /\ g \in m.free /\ entry' = [entry EXCEPT ![g] = "freed"]
    BY <1>13 DEF FreeEntry
  <2>3. entry' \in [Hooks -> Entries] /\ \A h \in Hooks : entry'[h] = IF h = g THEN "freed" ELSE entry[h]
    BY <1>1, <2>2 DEF EngineTypes
  <2>4. TypeOK'
    BY <1>1, <1>2, <2>1, <2>2, <2>3 DEF Moves, ThreadTypes, EngineTypes
  <2>5. \A h \in m.batch : "disabled" \in flags'[h] /\ entry[h] = "taken"
    BY <2>2 DEF FlagInv, BatchInv
  <2>6. BatchInv'
    <3>1. \A h \in m.batch \ {g} : entry'[h] = "taken"
      BY <1>3, <2>3, <2>5
    <3>2. \A q \in Removers \ {r} : \A h \in remover[q].batch : h \notin m.batch /\ entry'[h] = entry[h]
      BY <1>3, <1>4, <2>2, <2>3
    <3>3. QED
      BY <1>3, <2>1, <3>1, <3>2, BatchAfter
  <2>7. FlagInv'
    <3>1. \A h \in Hooks : entry'[h] \in {"none", "freed", "leaked"} => flags'[h] # {}
      BY <1>3, <2>2, <2>3, <2>5 DEF FlagInv
    <3>2. QED
      BY <2>1, <2>2, <2>5, <3>1, FlagAfter
  <2>8. LateInv'
    <3>1. \A h \in m.free, t \in Threads : Inside(t, h, {"injected"}) => h \in blind'
      BY <2>2 DEF LateInv
    <3>2. \A h \in Hooks : entry'[h] = "freed" => entry[h] \in {"none", "freed"} \/ (h \in m.free /\ m.pc = "free")
      BY <2>2, <2>3
    <3>3. \A h \in Hooks : entry'[h] = "none" => entry[h] = "none"
      BY <2>3
    <3>4. UNCHANGED <<stack, late, alone, blind>>
      BY <2>2
    <3>5. \A h \in m.free \ {g}, t \in Threads : Inside(t, h, {"injected"}) => h \in blind'
      BY <3>1
    <3>6. QED
      BY <2>1, <3>2, <3>3, <3>4, <3>5, LateAfter
  <2>9. QED
    BY <2>4, <2>6, <2>7, <2>8
<1>14. QED
  BY <1>7, <1>8, <1>9, <1>10, <1>11, <1>12, <1>13

----------------------------------------------------------------------------
(* The count of a hook *)

Outside == Everywhere \ Counted

\* The counted frames after the top one of t has moved.
LEMMA CountedAfterMove ==
  ASSUME TypeOK, DepthInv, NEW t \in Threads, NEW S \in SUBSET Everywhere, TopAt(t, S),
         NEW a \in Everywhere, MoveTop(t, a), NEW h \in Hooks
  PROVE  /\ h # TopHook(t) => CountedFrames(h)' = CountedFrames(h)
         /\ S \subseteq Counted /\ h = TopHook(t) => <<t, Depth(t)>> \in CountedFrames(h)
         /\ S \subseteq Outside /\ h = TopHook(t) => <<t, Depth(t)>> \notin CountedFrames(h)
         /\ h = TopHook(t) => CountedFrames(h)' = IF a \in Counted THEN CountedFrames(h) \cup {<<t, Depth(t)>>}
                                                  ELSE CountedFrames(h) \ {<<t, Depth(t)>>}
<1> DEFINE n == Depth(t)
           U == Threads \X (1..MaxDepth)
<1>1. /\ n \in Nat \ {0} /\ \A u \in Threads : Len(stack'[u]) = Depth(u)
      /\ \A u \in Threads : \A d \in 1..Depth(u) :
           stack'[u][d] = IF u = t /\ d = n THEN [hook |-> TopHook(t), at |-> a] ELSE stack[u][d]
  BY MoveEffect DEF Everywhere
<1>2. <<t, n>> \in U /\ stack[t][n].hook = TopHook(t) /\ stack[t][n].at \in S
  BY <1>1, HookConstants DEF DepthInv, TopHook, TopAt
<1>3. \A u \in Threads : Depth(u) \in Nat /\ Depth(u) <= MaxDepth
  BY DEF TypeOK, Depth, DepthInv
<1>4. \A c \in U : c \in CountedFrames(h) <=>
        c[2] <= Depth(c[1]) /\ stack[c[1]][c[2]].hook = h /\ stack[c[1]][c[2]].at \in Counted
  BY DEF CountedFrames
<1>5. \A c \in U : c \in CountedFrames(h)' <=>
        c[2] <= Depth(c[1]) /\ stack'[c[1]][c[2]].hook = h /\ stack'[c[1]][c[2]].at \in Counted
  BY <1>1 DEF CountedFrames, Depth
<1>6. CountedFrames(h) \subseteq U /\ CountedFrames(h)' \subseteq U
  BY DEF CountedFrames
<1>7. \A c \in U : c # <<t, n>> => (c \in CountedFrames(h)' <=> c \in CountedFrames(h))
  <2>1. SUFFICES ASSUME NEW u \in Threads, NEW d \in 1..MaxDepth, u # t \/ d # n
                 PROVE  <<u, d>> \in CountedFrames(h)' <=> <<u, d>> \in CountedFrames(h)
    OBVIOUS
  <2>2. d <= Depth(u) => stack'[u][d] = stack[u][d]
    BY <1>1, <1>3, <2>1
  <2>3. QED
    BY <1>4, <1>5, <2>2
<1>8. <<t, n>> \in CountedFrames(h)' <=> h = TopHook(t) /\ a \in Counted
  BY <1>1, <1>2, <1>5
<1>9. <<t, n>> \in CountedFrames(h) <=> h = TopHook(t) /\ stack[t][n].at \in Counted
  BY <1>1, <1>2, <1>4
<1>10. Counted \cap Outside = {}
  BY DEF Outside
<1>11. QED
  BY <1>2, <1>6, <1>7, <1>8, <1>9, <1>10

\* Up by one when the top frame gets counted, down by one when it gets
\* uncounted, and as it was when it moves on: the count is exact again.
LEMMA ExactAfterMove ==
  ASSUME TypeOK, DepthInv, UsageExact, NEW t \in Threads, NEW S \in SUBSET Everywhere, TopAt(t, S),
         NEW a \in Everywhere, MoveTop(t, a), UNCHANGED skipped,
         \/ S \subseteq Counted /\ a \in Counted /\ UNCHANGED usage
         \/ S \subseteq Outside /\ a \in Outside /\ UNCHANGED usage
         \/ S \subseteq Outside /\ a \in Counted /\ Count(t, 1)
         \/ S \subseteq Counted /\ a \in Outside /\ Count(t, -1)
  PROVE  UsageExact' /\ DepthInv'
<1>1. DepthInv'
  BY MoveEffect DEF DepthInv, Depth, Everywhere
<1>2. ASSUME NEW h \in Hooks PROVE usage'[h] = Cardinality(CountedFrames(h)') + skipped'[h]
  <2> DEFINE C == CountedFrames(h)
             c == <<t, Depth(t)>>
  <2>1. IsFiniteSet(C) /\ Cardinality(C) \in Nat
    BY CountedFinite
  <2>2. usage[h] = Cardinality(C) + skipped[h] /\ skipped[h] \in Nat /\ skipped'[h] = skipped[h]
    BY DEF UsageExact, TypeOK
  <2>3. /\ Cardinality(C \cup {c}) = IF c \in C THEN Cardinality(C) ELSE Cardinality(C) + 1
        /\ Cardinality(C \ {c}) = IF c \in C THEN Cardinality(C) - 1 ELSE Cardinality(C)
    BY <2>1, FS_AddElement, FS_RemoveElement
  <2>4. \A k : Count(t, k) => usage'[h] = IF h = TopHook(t) THEN usage[h] + k ELSE usage[h]
    BY DEF Count, TypeOK
  <2>5. /\ h # TopHook(t) => C' = C
        /\ S \subseteq Counted /\ h = TopHook(t) => c \in C
        /\ S \subseteq Outside /\ h = TopHook(t) => c \notin C
        /\ h = TopHook(t) => C' = IF a \in Counted THEN C \cup {c} ELSE C \ {c}
    BY CountedAfterMove
  <2>6. a \in Outside => a \notin Counted
    BY DEF Outside
  <2> HIDE DEF C, c
  <2>7. CASE h # TopHook(t)
    <3>1. usage'[h] = usage[h]
      BY <2>4, <2>7
    <3>2. QED
      BY <2>2, <2>5, <2>7, <3>1 DEF C
  <2>8. CASE h = TopHook(t) /\ UNCHANGED usage
    <3>1. Cardinality(C') = Cardinality(C)
      <4>1. CASE S \subseteq Counted /\ a \in Counted
        BY <2>3, <2>5, <2>8, <4>1
      <4>2. CASE S \subseteq Outside /\ a \in Outside
        BY <2>3, <2>5, <2>6, <2>8, <4>2
      <4>3. CASE S \subseteq Outside /\ a \in Counted /\ Count(t, 1)
        <5>1. usage[h] = usage[h] + 1 /\ usage[h] \in Int
          BY <2>1, <2>2, <2>4, <2>8, <4>3
        <5>2. QED
          BY <5>1
      <4>4. CASE S \subseteq Counted /\ a \in Outside /\ Count(t, -1)
        <5>1. usage[h] = usage[h] + (-1) /\ usage[h] \in Int
          BY <2>1, <2>2, <2>4, <2>8, <4>4
        <5>2. QED
          BY <5>1
      <4>5. QED
        BY <4>1, <4>2, <4>3, <4>4
    <3>2. usage'[h] = usage[h]
      BY <2>8
    <3>3. QED
      BY <2>2, <3>1, <3>2 DEF C
  <2>9. CASE h = TopHook(t) /\ S \subseteq Outside /\ a \in Counted /\ Count(t, 1)
    <3>1. Cardinality(C') = Cardinality(C) + 1
      BY <2>3, <2>5, <2>9
    <3>2. usage'[h] = usage[h] + 1
      BY <2>4, <2>9
    <3>3. QED
      BY <2>1, <2>2, <3>1, <3>2 DEF C
  <2>10. CASE h = TopHook(t) /\ S \subseteq Counted /\ a \in Outside /\ Count(t, -1)
    <3>1. Cardinality(C') = Cardinality(C) - 1
      BY <2>3, <2>5, <2>6, <2>10
    <3>2. usage'[h] = usage[h] + (-1)
      BY <2>4, <2>10
    <3>3. QED
      BY <2>1, <2>2, <3>1, <3>2 DEF C
  <2>11. QED
    BY <2>7, <2>8, <2>9, <2>10
<1>3. QED
  BY <1>1, <1>2 DEF UsageExact

\* Frames cut off a stack take their counts along, unless they were counted.
LEMMA CountedAfterCut ==
  ASSUME TypeOK, DepthInv, NEW t \in Threads, NEW n \in Nat, n <= Depth(t),
         stack' = [stack EXCEPT ![t] = SubSeq(@, 1, n)], NEW h \in Hooks
  PROVE  CountedFrames(h)' = CountedFrames(h) \ ({t} \X (n + 1..Depth(t)))
<1>1. /\ Depth(t) \in Nat
      /\ \A u \in Threads : Len(stack'[u]) = IF u = t THEN n ELSE Depth(u)
      /\ \A u \in Threads : \A d \in 1..Len(stack'[u]) : stack'[u][d] = stack[u][d]
  BY CutEffect
<1>2. \A u \in Threads : Depth(u) \in Nat /\ Depth(u) <= MaxDepth
  BY DEF TypeOK, Depth, DepthInv
<1>3. ASSUME NEW u \in Threads, NEW d \in 1..MaxDepth
      PROVE  /\ <<u, d>> \in CountedFrames(h)' <=>
                  d <= Len(stack'[u]) /\ stack'[u][d].hook = h /\ stack'[u][d].at \in Counted
             /\ <<u, d>> \in CountedFrames(h) <=>
                  d <= Depth(u) /\ stack[u][d].hook = h /\ stack[u][d].at \in Counted
  BY DEF CountedFrames, Depth
<1>4. ASSUME NEW u \in Threads, NEW d \in 1..MaxDepth
      PROVE  <<u, d>> \in CountedFrames(h)' <=> <<u, d>> \in CountedFrames(h) /\ ~(u = t /\ d \in n + 1..Depth(t))
  <2>1. d <= Len(stack'[u]) <=> d <= Depth(u) /\ ~(u = t /\ d \in n + 1..Depth(t))
    BY <1>1, <1>2
  <2>2. d <= Len(stack'[u]) => stack'[u][d] = stack[u][d]
    BY <1>1, <1>2
  <2>3. QED
    BY <1>3, <2>1, <2>2
<1>5. CountedFrames(h) \subseteq Threads \X (1..MaxDepth) /\ CountedFrames(h)' \subseteq Threads \X (1..MaxDepth)
  BY DEF CountedFrames
<1>6. QED
  BY <1>4, <1>5

LEMMA UsageKept ==
  ASSUME TypeOK, DepthInv, UsageExact, ThreadNext
  PROVE  UsageExact' /\ DepthInv'
<1>1. PICK t \in Threads : ThreadStep(t) \/ (\E h \in Hooks : Call(t, h)) \/ (\E d \in 0..MaxDepth : Throw(t, d))
  BY DEF ThreadNext
<1>2. ASSUME NEW S \in SUBSET Everywhere, TopAt(t, S), NEW a \in Everywhere, MoveTop(t, a), UNCHANGED skipped,
             \/ S \subseteq Counted /\ a \in Counted /\ UNCHANGED usage
             \/ S \subseteq Outside /\ a \in Outside /\ UNCHANGED usage
             \/ S \subseteq Outside /\ a \in Counted /\ Count(t, 1)
             \/ S \subseteq Counted /\ a \in Outside /\ Count(t, -1)
      PROVE  UsageExact' /\ DepthInv'
  BY <1>2, ExactAfterMove
<1>3. CASE JumpToStub(t)
  BY <1>2, <1>3 DEF JumpToStub, Outside, Everywhere, InStub, Counted, Uncounted
<1>4. CASE EnterStub(t)
  <2>1. PICK a \in {"pass", "pre"} : MoveTop(t, a)
    BY <1>4 DEF EnterStub
  <2>2. TopAt(t, {"entry"}) /\ Count(t, 1) /\ UNCHANGED skipped
    BY <1>4 DEF EnterStub
  <2>3. {"entry"} \subseteq Outside /\ a \in Counted /\ {"entry"} \in SUBSET Everywhere /\ a \in Everywhere
    BY DEF Outside, Everywhere, InStub, Counted, Uncounted
  <2>4. QED
    BY <1>2, <2>1, <2>2, <2>3
<1>5. CASE PreCallLeave(t) \/ PostCallEnd(t)
  <2>1. PICK S \in {{"pre", "pass"}, {"post"}} : TopAt(t, S)
    BY <1>5 DEF PreCallLeave, PostCallEnd
  <2>2. PICK a \in {"leaving", "returning"} : MoveTop(t, a) /\ Count(t, -1) /\ UNCHANGED skipped
    BY <1>5 DEF PreCallLeave, PostCallEnd
  <2>3. S \subseteq Counted /\ a \in Outside /\ S \in SUBSET Everywhere /\ a \in Everywhere
    BY DEF Outside, Everywhere, InStub, Counted, Uncounted
  <2>4. QED
    BY <1>2, <2>1, <2>2, <2>3
<1>6. CASE PreCallContinue(t)
  <2>1. TopAt(t, {"pre"}) /\ MoveTop(t, "marked") /\ UNCHANGED <<skipped, usage>>
    BY <1>6 DEF PreCallContinue
  <2>2. {"pre"} \subseteq Counted /\ "marked" \in Counted /\ {"pre"} \in SUBSET Everywhere /\ "marked" \in Everywhere
    BY DEF Everywhere, InStub, Counted
  <2>3. QED
    BY <1>2, <2>1, <2>2
<1>7. CASE PostCall(t)
  <2>1. TopAt(t, {"marked"}) /\ UNCHANGED <<skipped, usage>>
    BY <1>7 DEF PostCall
  <2>2. CASE MoveTop(t, "post")
    <3>1. {"marked"} \subseteq Counted /\ "post" \in Counted /\ {"marked"} \in SUBSET Everywhere /\ "post" \in Everywhere
      BY DEF Everywhere, InStub, Counted
    <3>2. QED
      BY <1>2, <2>1, <2>2, <3>1
  <2>3. CASE UNCHANGED stack
    BY <2>1, <2>3 DEF UsageExact, DepthInv, CountedFrames, Depth
  <2>4. QED
    BY <1>7, <2>2, <2>3 DEF PostCall
<1>8. ASSUME NEW n \in Nat, n < Depth(t), stack' = [stack EXCEPT ![t] = SubSeq(@, 1, n)]
      PROVE  DepthInv'
  <2>1. Depth(t) \in Nat /\ \A u \in Threads : Len(stack'[u]) = IF u = t THEN n ELSE Depth(u)
    BY <1>8, CutEffect DEF TypeOK, Depth
  <2>2. QED
    BY <1>8, <2>1, HookConstants DEF DepthInv, Depth
<1>9. CASE Exit(t)
  <2>1. UNCHANGED <<usage, skipped>>
    BY <1>9, ExitEffect
  <2>2. Outgoing \subseteq Outside /\ Detached \subseteq Outside /\ Outside \subseteq Everywhere
    BY DEF Outgoing, Detached, Outside, Everywhere, InStub, Counted, Uncounted
  <2>3. ASSUME NEW a \in Detached, TopAt(t, Outgoing), MoveTop(t, a) PROVE UsageExact' /\ DepthInv'
    BY <1>2, <2>1, <2>2, <2>3
  <2>4. ASSUME Pop(t) PROVE UsageExact' /\ DepthInv'
    <3> DEFINE n == Depth(t) - 1
    <3>1. Depth(t) \in Nat \ {0} /\ stack[t][Depth(t)].at \in Outgoing /\ stack' = [stack EXCEPT ![t] = SubSeq(@, 1, n)]
      BY <2>4, TopIsHook DEF Pop, TopAt
    <3>2. n \in Nat /\ n < Depth(t) /\ n <= Depth(t) /\ n + 1..Depth(t) = {Depth(t)}
      BY <3>1
    <3> HIDE DEF n
    <3>3. ASSUME NEW h \in Hooks PROVE CountedFrames(h)' = CountedFrames(h)
      <4>1. CountedFrames(h)' = CountedFrames(h) \ ({t} \X (n + 1..Depth(t)))
        BY <3>1, <3>2, CountedAfterCut
      <4>2. <<t, Depth(t)>> \notin CountedFrames(h)
        BY <2>2, <3>1 DEF CountedFrames, Outside
      <4>3. QED
        BY <3>2, <4>1, <4>2
    <3>4. UsageExact'
      BY <2>1, <3>3 DEF UsageExact
    <3>5. QED
      BY <1>8, <3>1, <3>2, <3>4
  <2>5. QED
    BY <1>9, <2>3, <2>4, ExitEffect
<1>10. ASSUME NEW g \in Hooks, Call(t, g) PROVE UsageExact' /\ DepthInv'
  <2>1. /\ Depth(t) \in Nat
        /\ \A u \in Threads : Len(stack'[u]) = IF u = t THEN Depth(t) + 1 ELSE Depth(u)
        /\ \A u \in Threads : \A d \in 1..Depth(u) : stack'[u][d] = stack[u][d]
        /\ stack'[t][Depth(t) + 1] = [hook |-> g, at |-> "injected"]
    BY <1>10, PushEffect
  <2>2. Depth(t) < MaxDepth /\ UNCHANGED <<usage, skipped>>
    BY <1>10 DEF Call
  <2>3. DepthInv'
    BY <2>1, <2>2, HookConstants DEF DepthInv, Depth
  <2>4. ASSUME NEW h \in Hooks PROVE CountedFrames(h)' = CountedFrames(h)
    <3>1. \A u \in Threads : Depth(u) \in Nat
      BY DEF TypeOK, Depth
    <3>2. ASSUME NEW u \in Threads, NEW d \in 1..MaxDepth
          PROVE  <<u, d>> \in CountedFrames(h)' <=> <<u, d>> \in CountedFrames(h)
      <4>1. /\ <<u, d>> \in CountedFrames(h)' <=>
                 d <= Len(stack'[u]) /\ stack'[u][d].hook = h /\ stack'[u][d].at \in Counted
            /\ <<u, d>> \in CountedFrames(h) <=>
                 d <= Depth(u) /\ stack[u][d].hook = h /\ stack[u][d].at \in Counted
        BY DEF CountedFrames, Depth
      <4>2. CASE u = t /\ d = Depth(t) + 1
        <5>1. ~(d <= Depth(u)) /\ stack'[u][d].at \notin Counted
          BY <2>1, <4>2 DEF Counted
        <5>2. QED
          BY <4>1, <5>1
      <4>3. CASE ~(u = t /\ d = Depth(t) + 1)
        <5>1. d <= Len(stack'[u]) <=> d <= Depth(u)
          BY <2>1, <3>1, <4>3
        <5>2. d <= Depth(u) => stack'[u][d] = stack[u][d]
          BY <2>1, <3>1
        <5>3. QED
          BY <4>1, <5>1, <5>2
      <4>4. QED
        BY <4>2, <4>3
    <3>3. CountedFrames(h) \subseteq Threads \X (1..MaxDepth) /\ CountedFrames(h)' \subseteq Threads \X (1..MaxDepth)
      BY DEF CountedFrames
    <3>4. QED
      BY <3>2, <3>3
  <2>5. UsageExact'
    BY <2>2, <2>4 DEF UsageExact
  <2>6. QED
    BY <2>3, <2>5
<1>11. ASSUME NEW d \in 0..MaxDepth, Throw(t, d) PROVE UsageExact' /\ DepthInv'
  <2>1. d \in Nat /\ d < Depth(t) /\ Depth(t) \in Nat /\ d <= Depth(t)
    <3>1. Depth(t) \in Nat /\ d < Depth(t) /\ MaxDepth \in Nat
      BY <1>11, HookConstants DEF TypeOK, Depth, Throw
    <3>2. QED
      BY <3>1
  <2>2. stack' = [stack EXCEPT ![t] = SubSeq(@, 1, d)] /\ UNCHANGED usage
    BY <1>11 DEF Throw
  <2>3. ASSUME NEW h \in Hooks PROVE usage'[h] = Cardinality(CountedFrames(h)') + skipped'[h]
    <3> DEFINE C == CountedFrames(h)
               M == MarkedAbove(t, d, h)
    <3>1. C' = C \ ({t} \X (d + 1..Depth(t)))
      BY <2>1, <2>2, CountedAfterCut
    <3>2. M \subseteq d + 1..Depth(t)
      BY DEF MarkedAbove
    <3>3. IsFiniteSet(M) /\ Cardinality(M) \in Nat
      <4>1. IsFiniteSet(d + 1..Depth(t))
        BY <2>1, FS_Interval
      <4>2. QED
        BY <3>2, <4>1, FS_Subset, FS_CardinalityType
    <3>4. ASSUME NEW e \in d + 1..Depth(t)
          PROVE  <<t, e>> \in C <=> e \in M
      <4>1. e \in 1..MaxDepth /\ e <= Depth(t) /\ e \in (IF d = 0 THEN 1 ELSE d)..Depth(t)
        BY <2>1, <3>4, HookConstants DEF DepthInv
      <4>2. stack[t][e].at \in {"marked", "alone"}
        BY <1>11, <4>1 DEF Throw
      <4>3. stack[t][e] \in Frame
        BY <2>1, <3>4 DEF TypeOK, Depth
      <4>4. stack[t][e] = [hook |-> h, at |-> "marked"] <=> stack[t][e].hook = h /\ stack[t][e].at = "marked"
        BY <4>3 DEF Frame
      <4>5. <<t, e>> \in C <=> stack[t][e].hook = h /\ stack[t][e].at = "marked"
        BY <4>1, <4>2 DEF CountedFrames, Counted
      <4>6. QED
        BY <4>4, <4>5 DEF MarkedAbove
    <3>5. C = C' \cup ({t} \X M) /\ C' \cap ({t} \X M) = {}
      <4>1. {t} \X M \subseteq C /\ C \cap ({t} \X (d + 1..Depth(t))) \subseteq {t} \X M
        BY <3>2, <3>4
      <4>2. QED
        BY <3>1, <3>2, <4>1
    <3>6. IsFiniteSet(C') /\ Cardinality(C') \in Nat
      BY <3>1, CountedFinite, FS_Subset, FS_CardinalityType
    <3>7. IsFiniteSet({t} \X M) /\ Cardinality({t} \X M) = Cardinality(M)
      <4>1. IsFiniteSet({t}) /\ Cardinality({t}) = 1
        BY FS_Singleton
      <4>2. IsFiniteSet({t} \X M) /\ Cardinality({t} \X M) = 1 * Cardinality(M)
        BY <3>3, <4>1, FS_Product
      <4>3. QED
        BY <3>3, <4>2
    <3>8. Cardinality(C) = Cardinality(C') + Cardinality(M)
      <4> HIDE DEF C, M
      <4>1. Cardinality(C' \cup ({t} \X M)) = Cardinality(C') + Cardinality({t} \X M) - Cardinality(C' \cap ({t} \X M))
        BY <3>6, <3>7, FS_Union
      <4>2. Cardinality(C' \cap ({t} \X M)) = 0
        BY <3>5, FS_EmptySet
      <4>3. QED
        BY <3>3, <3>5, <3>6, <3>7, <4>1, <4>2
    <3>9. skipped'[h] = skipped[h] + Cardinality(M) /\ skipped[h] \in Nat
      BY <1>11 DEF Throw, TypeOK
    <3>10. usage'[h] = Cardinality(C) + skipped[h]
      BY <2>2 DEF UsageExact
    <3> HIDE DEF C, M
    <3>11. usage'[h] = Cardinality(C') + skipped'[h]
      BY <3>3, <3>6, <3>8, <3>9, <3>10
    <3>12. QED
      BY <3>11 DEF C
  <2>4. UsageExact'
    BY <2>3 DEF UsageExact
  <2>5. QED
    BY <1>8, <2>1, <2>2, <2>4
<1>12. QED
  BY <1>1, <1>3, <1>4, <1>5, <1>6, <1>7, <1>9, <1>10, <1>11 DEF ThreadStep, Exit

----------------------------------------------------------------------------
(* The records of a thread *)

\* Every call that is to return into its stub has a record, and after the last
\* one come only records of deeper calls.
Recorded(t) ==
  agent = "running" /\ fate[t] = "running" =>
    \A d \in 1..Depth(t) : stack[t][d].at = "marked" =>
      \E i \in 1..Len(records[t]) : /\ records[t][i] = [hook |-> stack[t][d].hook, ret |-> d]
                                    /\ \A j \in i + 1..Len(records[t]) : records[t][j].ret > d

\* A record that is nobody's, and one of two for the same depth, is of a hook
\* that an exception of the thread skipped.
Stale(t) ==
  /\ \A i \in 1..Len(records[t]) :
       \/ records[t][i].hook \in unwound[t]
       \/ /\ records[t][i].ret \in 1..Depth(t)
          /\ stack[t][records[t][i].ret] = [hook |-> records[t][i].hook, at |-> "marked"]
  /\ \A i, j \in 1..Len(records[t]) :
       i < j /\ records[t][i].ret = records[t][j].ret => records[t][i].hook \in unwound[t]

RecordInv == RecordFound /\ AstrayOnlyAfterThrow /\ \A t \in Threads : Recorded(t) /\ Stale(t)

LEMMA RecordsPush ==
  ASSUME TypeOK, NEW t \in Threads, NEW rec \in Record, records' = [records EXCEPT ![t] = Append(@, rec)]
  PROVE  /\ Len(records[t]) \in Nat /\ Len(records'[t]) = Len(records[t]) + 1 /\ records'[t][Len(records[t]) + 1] = rec
         /\ \A i \in 1..Len(records[t]) : records'[t][i] = records[t][i]
         /\ \A u \in Threads \ {t} : records'[u] = records[u]
<1>1. records[t] \in Seq(Record) /\ records'[t] = Append(records[t], rec)
  BY DEF TypeOK
<1>2. QED
  BY <1>1 DEF TypeOK

LEMMA RecordsCut ==
  ASSUME TypeOK, NEW t \in Threads, NEW n \in 1..Len(records[t]),
         records' = [records EXCEPT ![t] = SubSeq(@, 1, n - 1)]
  PROVE  /\ Len(records'[t]) = n - 1 /\ Len(records[t]) \in Nat
         /\ \A i \in 1..n - 1 : records'[t][i] = records[t][i]
         /\ \A u \in Threads \ {t} : records'[u] = records[u]
<1>1. records[t] \in Seq(Record) /\ records'[t] = SubSeq(records[t], 1, n - 1) /\ Len(records[t]) \in Nat
  BY DEF TypeOK
<1>2. n - 1 \in Nat /\ n - 1 <= Len(records[t])
  BY <1>1
<1>3. Len(SubSeq(records[t], 1, n - 1)) = n - 1 /\ \A i \in 1..n - 1 : SubSeq(records[t], 1, n - 1)[i] = records[t][i]
  BY <1>1, <1>2
<1>4. QED
  BY <1>1, <1>3 DEF TypeOK

\* What a step of t leaves of the others, and of t when it moves a top frame
\* that was not marked to a place that is not.
LEMMA RecordsOfOthers ==
  ASSUME TypeOK, RecordInv, NEW t \in Threads, UNCHANGED agent,
         \A u \in Threads \ {t} : /\ stack'[u] = stack[u] /\ records'[u] = records[u]
                                  /\ fate'[u] = fate[u] /\ unwound'[u] = unwound[u],
         Recorded(t)', Stale(t)', fate'[t] # "terminated", fate'[t] = "astray" => TopHook(t)' \in unwound'[t]
  PROVE  RecordInv'
<1>1. ASSUME NEW u \in Threads \ {t} PROVE Recorded(u)' /\ Stale(u)'
  <2>1. /\ Recorded(u) /\ Stale(u)
        /\ stack'[u] = stack[u] /\ records'[u] = records[u] /\ fate'[u] = fate[u] /\ unwound'[u] = unwound[u]
    BY DEF RecordInv
  <2>2. Recorded(u)'
    BY <2>1 DEF Recorded, Depth
  <2>3. Stale(u)'
    BY <2>1 DEF Stale, Depth
  <2>4. QED
    BY <2>2, <2>3
<1>2. RecordFound'
  BY DEF RecordInv, RecordFound
<1>3. AstrayOnlyAfterThrow'
  BY DEF RecordInv, AstrayOnlyAfterThrow, TopHook, Depth
<1>4. QED
  BY <1>1, <1>2, <1>3 DEF RecordInv

LEMMA RecordsUnmarked ==
  ASSUME TypeOK, RecordInv, NEW t \in Threads, NEW S, TopAt(t, S), "marked" \notin S,
         NEW a \in Everywhere, a # "marked", MoveTop(t, a), UNCHANGED <<records, fate, unwound, agent>>
  PROVE  RecordInv'
<1> DEFINE n == Depth(t)
<1>1. /\ n \in Nat \ {0} /\ \A u \in Threads : Len(stack'[u]) = Depth(u)
      /\ \A d \in 1..n : stack'[t][d] = IF d = n THEN [hook |-> TopHook(t), at |-> a] ELSE stack[t][d]
  BY MoveEffect DEF Everywhere
<1>2. \A u \in Threads \ {t} : stack'[u] = stack[u]
  BY DEF MoveTop, TypeOK
<1>3. stack[t][n].at # "marked" /\ fate[t] = "running"
  BY DEF TopAt
<1>4. Recorded(t)'
  <2>1. ASSUME NEW d \in 1..n, stack'[t][d].at = "marked"
        PROVE  stack[t][d].at = "marked" /\ stack'[t][d].hook = stack[t][d].hook
    BY <1>1, <2>1
  <2>2. Recorded(t) /\ Len(stack'[t]) = n /\ records'[t] = records[t] /\ agent' = agent /\ fate'[t] = fate[t]
    BY <1>1 DEF RecordInv
  <2>3. ASSUME agent = "running", NEW d \in 1..n, stack'[t][d].at = "marked"
        PROVE  \E i \in 1..Len(records[t]) : /\ records[t][i] = [hook |-> stack'[t][d].hook, ret |-> d]
                                             /\ \A j \in i + 1..Len(records[t]) : records[t][j].ret > d
    <3>1. stack[t][d].at = "marked" /\ stack'[t][d].hook = stack[t][d].hook
      BY <2>1, <2>3
    <3>2. PICK i \in 1..Len(records[t]) : /\ records[t][i] = [hook |-> stack[t][d].hook, ret |-> d]
                                          /\ \A j \in i + 1..Len(records[t]) : records[t][j].ret > d
      BY <1>3, <2>2, <2>3, <3>1 DEF Recorded
    <3>3. QED
      BY <3>1, <3>2
  <2>4. QED
    BY <2>2, <2>3 DEF Recorded, Depth
<1>5. Stale(t)'
  <2>1. ASSUME NEW i \in 1..Len(records[t]), records[t][i].hook \notin unwound[t]
        PROVE  /\ records[t][i].ret \in 1..Len(stack'[t])
               /\ stack'[t][records[t][i].ret] = [hook |-> records[t][i].hook, at |-> "marked"]
    <3>1. /\ records[t][i].ret \in 1..n
          /\ stack[t][records[t][i].ret] = [hook |-> records[t][i].hook, at |-> "marked"]
      BY <2>1 DEF RecordInv, Stale
    <3>2. records[t][i].ret # n
      BY <1>3, <3>1
    <3>3. QED
      BY <1>1, <3>1, <3>2
  <2>2. \A i, j \in 1..Len(records[t]) :
          i < j /\ records[t][i].ret = records[t][j].ret => records[t][i].hook \in unwound[t]
    BY DEF RecordInv, Stale
  <2>3. QED
    BY <2>1, <2>2 DEF Stale, Depth
<1>6. QED
  <2>1. fate'[t] = "running"
    BY <1>3
  <2>2. QED
    BY <1>2, <1>4, <1>5, <2>1, RecordsOfOthers

\* PreCall keeps a record of the call it sends on.
LEMMA RecordsMarked ==
  ASSUME TypeOK, RecordInv, NEW t \in Threads, PreCallContinue(t)
  PROVE  RecordInv'
<1> DEFINE n == Depth(t)
           rec == [hook |-> TopHook(t), ret |-> n]
           r == records[t]
           k == Len(r)
<1>1. /\ n \in Nat \ {0} /\ \A u \in Threads : Len(stack'[u]) = Depth(u)
      /\ \A d \in 1..n : stack'[t][d] = IF d = n THEN [hook |-> TopHook(t), at |-> "marked"] ELSE stack[t][d]
  BY MoveEffect DEF PreCallContinue, InStub, Counted
<1>2. \A u \in Threads \ {t} : stack'[u] = stack[u]
  BY DEF PreCallContinue, MoveTop, TypeOK
<1>3. stack[t][n].at # "marked" /\ fate[t] = "running" /\ UNCHANGED <<fate, unwound, agent>>
  BY DEF PreCallContinue, TopAt, threadRest
<1>4. rec \in Record
  BY TopIsHook DEF PreCallContinue, Record
<1>5. r \in Seq(Record) /\ k \in Nat
  BY DEF TypeOK
<1>6. ASSUME NEW i \in 1..k, r[i].hook \notin unwound[t]
      PROVE  /\ r[i].ret \in 1..n /\ r[i].ret # n
             /\ stack'[t][r[i].ret] = [hook |-> r[i].hook, at |-> "marked"]
  <2>1. r[i].ret \in 1..n /\ stack[t][r[i].ret] = [hook |-> r[i].hook, at |-> "marked"]
    BY <1>6 DEF RecordInv, Stale
  <2>2. r[i].ret # n
    BY <1>3, <2>1
  <2>3. QED
    BY <1>1, <2>1, <2>2
<1>7. \A i, j \in 1..k : i < j /\ r[i].ret = r[j].ret => r[i].hook \in unwound[t]
  BY DEF RecordInv, Stale
<1>8. CASE agent = "running"
  <2>1. records' = [records EXCEPT ![t] = Append(@, rec)]
    BY <1>8 DEF PreCallContinue
  <2> HIDE DEF rec
  <2>2. /\ Len(records'[t]) = k + 1 /\ records'[t][k + 1] = rec
        /\ \A i \in 1..k : records'[t][i] = r[i]
        /\ \A u \in Threads \ {t} : records'[u] = records[u]
    BY <1>4, <2>1, RecordsPush
  <2>3. rec.hook = TopHook(t) /\ rec.ret = n /\ rec = [hook |-> TopHook(t), ret |-> n]
    BY DEF rec
  <2>4. Recorded(t)'
    <3>1. SUFFICES ASSUME NEW d \in 1..n, stack'[t][d].at = "marked"
                   PROVE  \E i \in 1..k + 1 : /\ records'[t][i] = [hook |-> stack'[t][d].hook, ret |-> d]
                                              /\ \A j \in i + 1..k + 1 : records'[t][j].ret > d
      BY <1>1, <2>2 DEF Recorded, Depth
    <3>2. CASE d = n
      <4>1. stack'[t][d].hook = TopHook(t) /\ k + 1 \in 1..k + 1 /\ (k + 1) + 1..k + 1 = {}
        BY <1>1, <1>5, <3>2
      <4>2. QED
        BY <2>2, <2>3, <3>2, <4>1
    <3>3. CASE d # n
      <4>1. stack[t][d].at = "marked" /\ stack'[t][d].hook = stack[t][d].hook /\ d < n
        BY <1>1, <3>1, <3>3
      <4>2. PICK i \in 1..k : /\ r[i] = [hook |-> stack[t][d].hook, ret |-> d]
                              /\ \A j \in i + 1..k : r[j].ret > d
        BY <1>3, <1>8, <4>1 DEF RecordInv, Recorded
      <4>3. \A j \in i + 1..k + 1 : records'[t][j].ret > d
        <5>1. \A j \in i + 1..k + 1 : j = k + 1 \/ (j \in i + 1..k /\ j \in 1..k)
          BY <1>5
        <5>2. QED
          BY <1>1, <2>2, <2>3, <4>1, <4>2, <5>1
      <4>4. i \in 1..k + 1
        BY <1>5
      <4>5. QED
        BY <2>2, <4>1, <4>2, <4>3, <4>4
    <3>4. QED
      BY <3>2, <3>3
  <2>5. Stale(t)'
    <3>1. ASSUME NEW i \in 1..k + 1, records'[t][i].hook \notin unwound[t]
          PROVE  /\ records'[t][i].ret \in 1..n
                 /\ stack'[t][records'[t][i].ret] = [hook |-> records'[t][i].hook, at |-> "marked"]
      <4>1. CASE i = k + 1
        BY <1>1, <2>2, <2>3, <4>1
      <4>2. CASE i # k + 1
        <5>1. i \in 1..k
          BY <1>5, <4>2
        <5>2. QED
          BY <1>6, <2>2, <3>1, <5>1
      <4>3. QED
        BY <4>1, <4>2
    <3>2. ASSUME NEW i \in 1..k + 1, NEW j \in 1..k + 1, i < j, records'[t][i].ret = records'[t][j].ret
          PROVE  records'[t][i].hook \in unwound[t]
      <4>1. i \in 1..k /\ (j = k + 1 \/ j \in 1..k)
        BY <1>5, <3>2
      <4>2. CASE j = k + 1
        BY <1>6, <2>2, <2>3, <3>2, <4>1, <4>2
      <4>3. CASE j \in 1..k
        BY <1>7, <2>2, <3>2, <4>1, <4>3
      <4>4. QED
        BY <4>1, <4>2, <4>3
    <3>3. QED
      BY <1>1, <1>3, <2>2, <3>1, <3>2 DEF Stale, Depth
  <2>6. QED
    BY <1>2, <1>3, <2>2, <2>4, <2>5, RecordsOfOthers
<1>9. CASE agent # "running"
  <2>1. UNCHANGED records
    BY <1>9 DEF PreCallContinue
  <2>2. Recorded(t)'
    BY <1>3, <1>9 DEF Recorded
  <2>3. Stale(t)'
    BY <1>1, <1>3, <1>6, <1>7, <2>1 DEF Stale, Depth
  <2>4. QED
    BY <1>2, <1>3, <2>1, <2>2, <2>3, RecordsOfOthers
<1>10. QED
  BY <1>8, <1>9

\* PostCall finds the record of the call that returns, or a later one of the
\* same hook that an exception left behind.
LEMMA RecordsReturned ==
  ASSUME TypeOK, RecordInv, NEW t \in Threads, PostCall(t)
  PROVE  RecordInv'
<1> DEFINE n == Depth(t)
           r == records[t]
           k == Len(r)
           l == LastMatch(t)
<1>1. n \in Nat \ {0} /\ stack[t][n] \in Frame /\ stack[t][n].hook = TopHook(t) /\ stack[t][n].at = "marked" /\ TopHook(t) \in Hooks
  BY TopIsHook DEF PostCall, TopAt, TopHook
<1>2. fate[t] = "running" /\ UNCHANGED <<unwound, agent>>
  BY DEF PostCall, TopAt, threadRest
<1>3. r \in Seq(Record) /\ k \in Nat /\ DOMAIN r = 1..k
  BY DEF TypeOK
<1>4. \A i \in 1..k : \/ r[i].hook \in unwound[t]
                      \/ r[i].ret \in 1..n /\ stack[t][r[i].ret] = [hook |-> r[i].hook, at |-> "marked"]
  BY DEF RecordInv, Stale
<1>5. \A i, j \in 1..k : i < j /\ r[i].ret = r[j].ret => r[i].hook \in unwound[t]
  BY DEF RecordInv, Stale
<1>6. CASE agent # "running"
  <2>1. UNCHANGED <<records, stack>> /\ fate' = [fate EXCEPT ![t] = "noThreadData"]
    BY <1>6 DEF PostCall
  <2>2. Recorded(t)' /\ Stale(t)'
    BY <1>2, <1>6, <2>1 DEF RecordInv, Recorded, Stale, Depth
  <2>3. fate'[t] = "noThreadData" /\ \A u \in Threads \ {t} : fate'[u] = fate[u]
    BY <2>1 DEF TypeOK
  <2>4. QED
    BY <1>2, <2>1, <2>2, <2>3, RecordsOfOthers
<1>7. CASE agent = "running"
  <2>1. PICK i \in 1..k : r[i] = [hook |-> TopHook(t), ret |-> n] /\ \A j \in i + 1..k : r[j].ret > n
    BY <1>1, <1>2, <1>7 DEF RecordInv, Recorded
  <2>2. i \in Matching(t)
    BY <1>3, <2>1 DEF Matching
  <2>3. l \in 1..k /\ r[l].hook = TopHook(t) /\ i <= l
    BY <1>3, <2>1, <2>2, LastMatchIs
  <2>4. /\ records' = [records EXCEPT ![t] = SubSeq(@, 1, l - 1)]
        /\ IF r[l].ret = n THEN MoveTop(t, "post") /\ UNCHANGED fate
           ELSE fate' = [fate EXCEPT ![t] = "astray"] /\ UNCHANGED stack
    BY <1>7, <2>2 DEF PostCall
  <2> HIDE DEF l
  <2>5. /\ Len(records'[t]) = l - 1 /\ \A j \in 1..l - 1 : records'[t][j] = r[j]
        /\ \A u \in Threads \ {t} : records'[u] = records[u]
    BY <2>3, <2>4, RecordsCut
  <2>6. \A j \in 1..l - 1 : j \in 1..k /\ j < l
    BY <1>3, <2>3
  <2>7. \A a, b \in 1..l - 1 : a < b /\ records'[t][a].ret = records'[t][b].ret => records'[t][a].hook \in unwound[t]
    BY <1>5, <2>5, <2>6
  <2>8. CASE r[l].ret = n
    <3>1. MoveTop(t, "post") /\ UNCHANGED fate
      BY <2>4, <2>8
    <3>2. /\ \A u \in Threads : Len(stack'[u]) = Depth(u)
          /\ \A d \in 1..n : stack'[t][d] = IF d = n THEN [hook |-> TopHook(t), at |-> "post"] ELSE stack[t][d]
      BY <3>1, MoveEffect DEF PostCall, InStub, Counted
    <3>3. \A u \in Threads \ {t} : stack'[u] = stack[u]
      BY <3>1 DEF MoveTop, TypeOK
    <3>4. Recorded(t)'
      <4>1. SUFFICES ASSUME NEW d \in 1..n, stack'[t][d].at = "marked"
                     PROVE  \E j \in 1..l - 1 : /\ records'[t][j] = [hook |-> stack'[t][d].hook, ret |-> d]
                                                /\ \A m \in j + 1..l - 1 : records'[t][m].ret > d
        BY <2>5, <3>2 DEF Recorded, Depth
      <4>2. d # n /\ stack'[t][d] = stack[t][d] /\ d < n
        BY <1>1, <3>2, <4>1
      <4>3. PICK j \in 1..k : /\ r[j] = [hook |-> stack[t][d].hook, ret |-> d]
                              /\ \A m \in j + 1..k : r[m].ret > d
        BY <1>2, <1>7, <4>1, <4>2 DEF RecordInv, Recorded
      <4>4. j < i
        <5>1. CASE j = i
          BY <2>1, <4>2, <4>3, <5>1
        <5>2. CASE j > i
          <6>1. j \in i + 1..k
            BY <1>3, <5>2
          <6>2. d > n
            BY <2>1, <4>3, <6>1
          <6>3. QED
            BY <1>1, <4>2, <6>2
        <5>3. QED
          BY <1>3, <5>1, <5>2
      <4>5. j \in 1..l - 1
        BY <1>3, <2>3, <4>4
      <4>6. \A m \in j + 1..l - 1 : m \in j + 1..k /\ m \in 1..l - 1
        BY <1>3, <2>3, <4>5
      <4>7. QED
        BY <2>5, <4>2, <4>3, <4>5, <4>6
    <3>5. \A j \in 1..l - 1 :
            \/ records'[t][j].hook \in unwound[t]
            \/ /\ records'[t][j].ret \in 1..n
               /\ stack'[t][records'[t][j].ret] = [hook |-> records'[t][j].hook, at |-> "marked"]
      <4>1. SUFFICES ASSUME NEW j \in 1..l - 1, r[j].hook \notin unwound[t]
                     PROVE  r[j].ret \in 1..n /\ stack'[t][r[j].ret] = [hook |-> r[j].hook, at |-> "marked"]
        BY <2>5
      <4>2. r[j].ret \in 1..n /\ stack[t][r[j].ret] = [hook |-> r[j].hook, at |-> "marked"]
        BY <1>4, <2>6, <4>1
      <4>3. r[j].ret # n
        BY <1>5, <2>3, <2>6, <2>8, <4>1
      <4>4. QED
        BY <3>2, <4>2, <4>3
    <3>6. Stale(t)'
      BY <1>2, <2>5, <2>7, <3>2, <3>5 DEF Stale, Depth
    <3>7. QED
      BY <1>2, <2>5, <3>1, <3>3, <3>4, <3>6, RecordsOfOthers
  <2>9. CASE r[l].ret # n
    <3>1. fate' = [fate EXCEPT ![t] = "astray"] /\ UNCHANGED stack
      BY <2>4, <2>9
    <3>2. fate'[t] = "astray" /\ \A u \in Threads \ {t} : fate'[u] = fate[u]
      BY <3>1 DEF TypeOK
    <3>3. TopHook(t) \in unwound[t]
      <4>1. i < l
        <5>1. i # l
          BY <2>1, <2>9
        <5>2. QED
          BY <1>3, <2>3, <5>1
      <4>2. r[l].ret > n
        BY <1>3, <2>1, <2>3, <4>1
      <4>3. ~(r[l].ret \in 1..n)
        BY <1>1, <4>2
      <4>4. QED
        BY <1>4, <2>3, <4>3
    <3>4. Recorded(t)'
      BY <3>2 DEF Recorded
    <3>5. \A j \in 1..l - 1 :
            \/ records'[t][j].hook \in unwound[t]
            \/ /\ records'[t][j].ret \in 1..n
               /\ stack[t][records'[t][j].ret] = [hook |-> records'[t][j].hook, at |-> "marked"]
      BY <1>4, <2>5, <2>6
    <3>6. Stale(t)'
      BY <1>2, <2>5, <2>7, <3>1, <3>5 DEF Stale, Depth
    <3>7. TopHook(t)' \in unwound'[t]
      BY <1>2, <3>1, <3>3 DEF TopHook, Depth
    <3>8. QED
      BY <1>2, <2>5, <3>1, <3>2, <3>4, <3>6, <3>7, RecordsOfOthers
  <2>10. QED
    BY <2>8, <2>9
<1>8. QED
  BY <1>6, <1>7

\* Frames cut off: by a return none that was marked, by an exception only
\* ones whose hooks it is remembered to have skipped.
LEMMA RecordsCutFrames ==
  ASSUME TypeOK, RecordInv, NEW t \in Threads, NEW n \in Nat, n < Depth(t), fate[t] = "running",
         stack' = [stack EXCEPT ![t] = SubSeq(@, 1, n)], UNCHANGED <<records, fate, agent>>,
         unwound' \in [Threads -> SUBSET Hooks], unwound[t] \subseteq unwound'[t],
         \A u \in Threads \ {t} : unwound'[u] = unwound[u],
         \A d \in n + 1..Depth(t) : stack[t][d].at = "marked" => stack[t][d].hook \in unwound'[t]
  PROVE  RecordInv'
<1> DEFINE r == records[t]
           k == Len(r)
<1>0. Depth(t) \in Nat
  BY DEF TypeOK, Depth
<1>1. /\ Len(stack'[t]) = n /\ \A d \in 1..n : stack'[t][d] = stack[t][d]
      /\ \A u \in Threads \ {t} : stack'[u] = stack[u]
  <2>1. n <= Depth(t)
    BY <1>0
  <2>2. /\ \A u \in Threads : Len(stack'[u]) = IF u = t THEN n ELSE Depth(u)
        /\ \A u \in Threads : \A d \in 1..Len(stack'[u]) : stack'[u][d] = stack[u][d]
    BY <2>1, CutEffect
  <2>3. \A u \in Threads \ {t} : stack'[u] = stack[u]
    BY DEF TypeOK
  <2>4. QED
    BY <2>2, <2>3
<1>2. Recorded(t)'
  <2>1. ASSUME agent = "running", NEW d \in 1..n, stack'[t][d].at = "marked"
        PROVE  \E i \in 1..k : /\ r[i] = [hook |-> stack'[t][d].hook, ret |-> d]
                               /\ \A j \in i + 1..k : r[j].ret > d
    <3>1. d \in 1..Depth(t) /\ stack'[t][d] = stack[t][d]
      BY <1>0, <1>1
    <3>2. QED
      BY <2>1, <3>1 DEF RecordInv, Recorded
  <2>2. QED
    BY <1>1, <2>1 DEF Recorded, Depth
<1>3. Stale(t)'
  <2>1. ASSUME NEW i \in 1..k, r[i].hook \notin unwound'[t]
        PROVE  r[i].ret \in 1..n /\ stack'[t][r[i].ret] = [hook |-> r[i].hook, at |-> "marked"]
    <3>1. r[i].ret \in 1..Depth(t) /\ stack[t][r[i].ret] = [hook |-> r[i].hook, at |-> "marked"]
      BY <2>1 DEF RecordInv, Stale
    <3>2. ~(r[i].ret \in n + 1..Depth(t))
      BY <2>1, <3>1
    <3>3. r[i].ret \in 1..n
      BY <1>0, <3>1, <3>2
    <3>4. QED
      BY <1>1, <3>1, <3>3
  <2>2. \A i, j \in 1..k : i < j /\ r[i].ret = r[j].ret => r[i].hook \in unwound'[t]
    BY DEF RecordInv, Stale
  <2>3. QED
    BY <1>1, <2>1, <2>2 DEF Stale, Depth
<1>4. fate'[t] = "running"
  OBVIOUS
<1>5. QED
  BY <1>1, <1>2, <1>3, <1>4, RecordsOfOthers

LEMMA RecordsPushFrame ==
  ASSUME TypeOK, RecordInv, NEW t \in Threads, NEW g \in Hooks, Call(t, g)
  PROVE  RecordInv'
<1> DEFINE r == records[t]
           k == Len(r)
           n == Depth(t)
<1>1. /\ n \in Nat /\ Len(stack'[t]) = n + 1 /\ \A d \in 1..n : stack'[t][d] = stack[t][d]
      /\ stack'[t][n + 1].at = "injected" /\ \A u \in Threads \ {t} : stack'[u] = stack[u]
  <2>1. \A u \in Threads \ {t} : stack'[u] = stack[u]
    BY DEF Call, TypeOK
  <2>2. /\ Depth(t) \in Nat
        /\ \A u \in Threads : Len(stack'[u]) = IF u = t THEN Depth(t) + 1 ELSE Depth(u)
        /\ \A u \in Threads : \A d \in 1..Depth(u) : stack'[u][d] = stack[u][d]
        /\ stack'[t][Depth(t) + 1] = [hook |-> g, at |-> "injected"]
    BY PushEffect
  <2>3. QED
    BY <2>1, <2>2
<1>2. fate[t] = "running" /\ UNCHANGED <<records, fate, unwound, agent>>
  BY DEF Call, threadRest
<1>3. Recorded(t)'
  <2>1. ASSUME agent = "running", NEW d \in 1..n + 1, stack'[t][d].at = "marked"
        PROVE  \E i \in 1..k : /\ r[i] = [hook |-> stack'[t][d].hook, ret |-> d]
                               /\ \A j \in i + 1..k : r[j].ret > d
    <3>1. d # n + 1
      BY <1>1, <2>1
    <3>2. d \in 1..n /\ stack'[t][d] = stack[t][d]
      BY <1>1, <3>1
    <3>3. QED
      BY <1>2, <2>1, <3>2 DEF RecordInv, Recorded
  <2>2. QED
    BY <1>1, <1>2, <2>1 DEF Recorded, Depth
<1>4. Stale(t)'
  <2>1. ASSUME NEW i \in 1..k, r[i].hook \notin unwound[t]
        PROVE  r[i].ret \in 1..n + 1 /\ stack'[t][r[i].ret] = [hook |-> r[i].hook, at |-> "marked"]
    <3>1. r[i].ret \in 1..n /\ stack[t][r[i].ret] = [hook |-> r[i].hook, at |-> "marked"]
      BY <2>1 DEF RecordInv, Stale
    <3>2. QED
      BY <1>1, <3>1
  <2>2. \A i, j \in 1..k : i < j /\ r[i].ret = r[j].ret => r[i].hook \in unwound[t]
    BY DEF RecordInv, Stale
  <2>3. QED
    BY <1>1, <1>2, <2>1, <2>2 DEF Stale, Depth
<1>5. QED
  BY <1>1, <1>2, <1>3, <1>4, RecordsOfOthers

LEMMA RecordsKept ==
  ASSUME TypeOK, RecordInv, ThreadNext
  PROVE  RecordInv'
<1>1. PICK t \in Threads : ThreadStep(t) \/ (\E h \in Hooks : Call(t, h)) \/ (\E d \in 0..MaxDepth : Throw(t, d))
  BY DEF ThreadNext
<1>2. CASE JumpToStub(t) \/ EnterStub(t) \/ PreCallLeave(t) \/ PostCallEnd(t)
  <2>1. PICK S \in {{"injected"}, {"entry"}, {"pre", "pass"}, {"post"}}, a \in {"entry", "pre", "pass", "leaving", "returning"} :
          TopAt(t, S) /\ MoveTop(t, a)
    BY <1>2 DEF JumpToStub, EnterStub, PreCallLeave, PostCallEnd
  <2>2. "marked" \notin S /\ a \in Everywhere /\ a # "marked"
    BY DEF Everywhere, InStub, Counted, Uncounted
  <2>3. UNCHANGED <<records, fate, unwound, agent>>
    BY <1>2 DEF JumpToStub, EnterStub, PreCallLeave, PostCallEnd, threadRest
  <2>4. QED
    BY <2>1, <2>2, <2>3, RecordsUnmarked
<1>3. CASE PreCallContinue(t)
  BY <1>3, RecordsMarked
<1>4. CASE PostCall(t)
  BY <1>4, RecordsReturned
<1>5. CASE Exit(t)
  <2>1. UNCHANGED <<records, fate, agent, unwound>> /\ "marked" \notin Outgoing
    BY <1>5, ExitEffect DEF threadRest, Outgoing
  <2>2. ASSUME NEW a \in Detached, TopAt(t, Outgoing), MoveTop(t, a) PROVE RecordInv'
    <3>1. a \in Everywhere /\ a # "marked"
      BY DEF Everywhere, Detached
    <3>2. QED
      BY <2>1, <2>2, <3>1, RecordsUnmarked
  <2>3. ASSUME Pop(t) PROVE RecordInv'
    <3> DEFINE n == Depth(t) - 1
    <3>1. n \in Nat /\ n < Depth(t) /\ n + 1..Depth(t) = {Depth(t)}
      BY <2>3, TopIsHook DEF Pop
    <3>2. /\ stack' = [stack EXCEPT ![t] = SubSeq(@, 1, n)]
          /\ stack[t][Depth(t)].at # "marked" /\ fate[t] = "running"
      BY <2>1, <2>3 DEF Pop, TopAt
    <3>3. unwound' \in [Threads -> SUBSET Hooks]
      BY <2>1 DEF TypeOK
    <3>4. \A d \in n + 1..Depth(t) : stack[t][d].at # "marked"
      BY <3>1, <3>2
    <3> HIDE DEF n
    <3>5. QED
      BY <2>1, <3>1, <3>2, <3>3, <3>4, RecordsCutFrames
  <2>4. QED
    BY <1>5, <2>2, <2>3, ExitEffect
<1>6. ASSUME NEW g \in Hooks, Call(t, g) PROVE RecordInv'
  BY <1>6, RecordsPushFrame
<1>7. ASSUME NEW d \in 0..MaxDepth, Throw(t, d) PROVE RecordInv'
  <2>1. d \in Nat /\ d < Depth(t) /\ Depth(t) \in Nat
    BY <1>7, HookConstants DEF TypeOK, Depth, Throw
  <2>2. /\ stack' = [stack EXCEPT ![t] = SubSeq(@, 1, d)] /\ UNCHANGED <<records, fate, agent>> /\ fate[t] = "running"
        /\ unwound' = [unwound EXCEPT ![t] = @ \cup {h \in Hooks : MarkedAbove(t, d, h) # {}}]
    BY <1>7 DEF Throw, threadRest
  <2>3. /\ unwound' \in [Threads -> SUBSET Hooks] /\ unwound[t] \subseteq unwound'[t]
        /\ \A u \in Threads \ {t} : unwound'[u] = unwound[u]
        /\ \A h \in Hooks : MarkedAbove(t, d, h) # {} => h \in unwound'[t]
    BY <2>2 DEF TypeOK
  <2>4. ASSUME NEW e \in d + 1..Depth(t), stack[t][e].at = "marked"
        PROVE  stack[t][e].hook \in unwound'[t]
    <3>1. stack[t][e] \in Frame
      BY <2>1, <2>4 DEF TypeOK, Depth
    <3>2. stack[t][e].hook \in Hooks /\ stack[t][e] = [hook |-> stack[t][e].hook, at |-> "marked"]
      BY <2>4, <3>1 DEF Frame
    <3>3. e \in MarkedAbove(t, d, stack[t][e].hook)
      BY <3>2 DEF MarkedAbove
    <3>4. QED
      BY <2>3, <3>2, <3>3
  <2>5. QED
    BY <2>1, <2>2, <2>3, <2>4, RecordsCutFrames
<1>8. QED
  BY <1>1, <1>2, <1>3, <1>4, <1>5, <1>6, <1>7 DEF ThreadStep, Exit

\* Freeing the data of the threads drops all their records.
LEMMA RecordsFreed ==
  ASSUME TypeOK, RecordInv, UNCHANGED <<stack, fate, unwound>>,
         UNCHANGED <<records, agent>> \/ (UNCHANGED records /\ agent' # "running")
           \/ (records' = [t \in Threads |-> <<>>] /\ agent' # "running")
  PROVE  RecordInv'
<1>1. RecordFound' /\ AstrayOnlyAfterThrow'
  BY DEF RecordInv, RecordFound, AstrayOnlyAfterThrow, TopHook, Depth
<1>2. ASSUME NEW t \in Threads PROVE Recorded(t)' /\ Stale(t)'
  <2>1. CASE UNCHANGED records
    <3>1. agent' = "running" => agent = "running"
      OBVIOUS
    <3>2. Recorded(t)'
      BY <2>1, <3>1 DEF RecordInv, Recorded, Depth
    <3>3. Stale(t)'
      BY <2>1 DEF RecordInv, Stale, Depth
    <3>4. QED
      BY <3>2, <3>3
  <2>2. CASE records' = [u \in Threads |-> <<>>] /\ agent' # "running"
    <3>1. records'[t] = <<>> /\ 1..Len(<<>>) = {}
      BY <2>2
    <3>2. QED
      BY <2>2, <3>1 DEF Recorded, Stale
  <2>3. QED
    BY <2>1, <2>2
<1>3. QED
  BY <1>1, <1>2 DEF RecordInv

----------------------------------------------------------------------------
(* The inductive invariant and the theorems *)

IInv == TypeOK /\ DepthInv /\ UsageExact /\ BatchInv /\ FlagInv /\ LateInv /\ RecordInv

LEMMA InitIInv == Init => IInv
<1> SUFFICES ASSUME Init PROVE IInv
  OBVIOUS
<1>1. Idle \in Remover /\ Idle.pc = "idle" /\ Idle.batch = {} /\ Idle.free = {}
  BY HookConstants DEF Idle, Remover
<1>2. \A t \in Threads : stack[t] = <<>> /\ records[t] = <<>> /\ Depth(t) = 0 /\ 1..Depth(t) = {} /\ 1..Len(records[t]) = {}
  BY DEF Init, Depth
<1>3. <<>> \in Seq(Frame) /\ <<>> \in Seq(Record)
  OBVIOUS
<1>4. TypeOK
  BY <1>1, <1>3 DEF Init, TypeOK
<1>5. DepthInv
  BY <1>2, HookConstants DEF DepthInv
<1>6. UsageExact
  <2>1. ASSUME NEW h \in Hooks PROVE CountedFrames(h) = {}
    BY <1>2 DEF CountedFrames
  <2>2. \A h \in Hooks : usage[h] = 0 /\ skipped[h] = 0
    BY DEF Init
  <2>3. Cardinality({}) = 0
    BY FS_EmptySet
  <2>4. \A h \in Hooks : usage[h] = Cardinality(CountedFrames(h)) + skipped[h]
    BY <2>1, <2>2, <2>3
  <2>5. QED
    BY <2>4 DEF UsageExact
<1>7. BatchInv /\ FlagInv
  BY <1>1 DEF BatchInv, FlagInv, Init
<1>8. LateInv
  BY <1>1, <1>2 DEF LateInv, Known, Inside, Init
<1>9. RecordInv
  BY <1>2 DEF RecordInv, RecordFound, AstrayOnlyAfterThrow, Recorded, Stale, Init
<1>10. QED
  BY <1>4, <1>5, <1>6, <1>7, <1>8, <1>9 DEF IInv

LEMMA ServerNextIInv ==
  ASSUME IInv, ServerNext \/ ManagerNext
  PROVE  IInv'
<1>1. UNCHANGED <<stack, usage, skipped, fate, unwound>>
  <2>1. CASE ServerNext
    BY <2>1 DEF ServerNext, HookPatch, Unhook, HookDone, HookFails, EnableHook, threadVars
  <2>2. ASSUME NEW r \in Removers, DisableScope(r) \/ RemoverStep(r) \/ LibUnhookBlind(r)
        PROVE  UNCHANGED <<stack, usage, skipped, fate, unwound>>
    BY <2>2 DEF RemoverStep, DisableScope, Collect, DisableTaken, CountsRead, LibUnhook, LibUnhookBlind, Unpatch, TakeEntry, ReadCount,
                FreeEntry, threadVars
  <2>3. CASE UnloadModule
    BY <2>3 DEF UnloadModule, threadVars
  <2>4. QED
    BY <2>1, <2>2, <2>3 DEF ManagerNext
<1>2. UsageExact' /\ DepthInv'
  BY <1>1 DEF IInv, UsageExact, DepthInv, CountedFrames, Depth
<1>3. CASE ServerNext
  <2>1. TypeOK' /\ BatchInv' /\ FlagInv' /\ LateInv'
    BY <1>3, ServerKeeps DEF IInv
  <2>2. UNCHANGED <<records, agent>>
    BY <1>3 DEF ServerNext, HookPatch, Unhook, HookDone, HookFails, EnableHook, threadVars
  <2>3. RecordInv'
    BY <1>1, <2>2, RecordsFreed DEF IInv
  <2>4. QED
    BY <1>2, <2>1, <2>3 DEF IInv
<1>4. CASE UnloadModule
  <2>1. agent' = "unloaded" /\ UNCHANGED <<lib, threadVars, remover, enables, missed>>
    BY <1>4 DEF UnloadModule
  <2>2. TypeOK'
    BY <2>1 DEF IInv, TypeOK, threadVars, lib, missed, Removers
  <2>3. BatchInv' /\ FlagInv' /\ LateInv'
    BY <2>1 DEF IInv, BatchInv, FlagInv, LateInv, Known, Inside, Depth, threadVars, lib, missed, Removers
  <2>4. RecordInv'
    BY <1>1, <2>1, RecordsFreed DEF IInv, threadVars
  <2>5. QED
    BY <1>2, <2>2, <2>3, <2>4 DEF IInv
<1>5. ASSUME NEW r \in Removers, DisableScope(r) \/ RemoverStep(r) \/ LibUnhookBlind(r) PROVE IInv'
  <2>1. TypeOK' /\ BatchInv' /\ FlagInv' /\ LateInv'
    BY <1>5, RemovalKeeps, ReadKeeps DEF IInv, RemoverStep
  <2>2. \/ UNCHANGED <<records, agent>> \/ (UNCHANGED records /\ agent' # "running")
        \/ (records' = [t \in Threads |-> <<>>] /\ agent' # "running")
    BY <1>5 DEF RemoverStep, DisableScope, Collect, DisableTaken, CountsRead, LibUnhook, LibUnhookBlind, Unpatch, TakeEntry, ReadCount,
                FreeEntry, threadVars
  <2>3. RecordInv'
    BY <1>1, <2>2, RecordsFreed DEF IInv
  <2>4. QED
    BY <1>2, <2>1, <2>3 DEF IInv
<1>6. QED
  BY <1>3, <1>4, <1>5 DEF ManagerNext

LEMMA NextIInv == IInv /\ [Next]_vars => IInv'
<1> SUFFICES ASSUME IInv, [Next]_vars PROVE IInv'
  OBVIOUS
<1>1. CASE UNCHANGED vars
  <2>1. UNCHANGED <<entry, flags, usage, stack, guard, records, fate, throws, skipped, unwound, agent, remover, enables,
                    late, alone, blind>>
    BY <1>1 DEF vars, lib, threadVars, missed
  <2>2. TypeOK'
    BY <2>1 DEF IInv, TypeOK, Removers
  <2>3. DepthInv' /\ UsageExact'
    BY <2>1 DEF IInv, DepthInv, UsageExact, CountedFrames, Depth
  <2>4. BatchInv' /\ FlagInv' /\ LateInv'
    BY <2>1 DEF IInv, BatchInv, FlagInv, LateInv, Known, Inside, Depth, Removers
  <2>5. RecordInv'
    BY <2>1, RecordsFreed DEF IInv
  <2>6. QED
    BY <2>2, <2>3, <2>4, <2>5 DEF IInv
<1>2. CASE ThreadNext
  BY <1>2, ThreadTypesKept, UsageKept, LateKeptByThreads, RecordsKept DEF IInv
<1>3. CASE ServerNext \/ ManagerNext
  BY <1>3, ServerNextIInv
<1>4. QED
  BY <1>1, <1>2, <1>3, NextParts

LEMMA Invariance == Spec => []IInv
<1>1. QED
  BY InitIInv, NextIInv, PTL DEF Spec

\* Every variable keeps its type.
THEOREM TypeCorrect == Spec => []TypeOK
<1>1. IInv => TypeOK
  BY DEF IInv
<1>2. QED
  BY <1>1, Invariance, PTL

\* nUsageCount is exact: what Unhook reads is the number of threads' calls
\* between the stub's inc and dec, plus what exceptions have cost it.
THEOREM UsageCorrect == Spec => []UsageExact
<1>1. IInv => UsageExact
  BY DEF IInv
<1>2. QED
  BY <1>1, Invariance, PTL

\* Unhook frees a stub under nobody but who was inside it uncounted when the
\* count was read, and NktHookLib's code under nobody but them, the calls left
\* alone that had still to return into it, and, where no thread was suspended,
\* the threads that run it.
THEOREM FreedSafely == Spec => []FreedOnlyUnderLate
<1>1. ASSUME LateInv PROVE FreedOnlyUnderLate
  <2>1. \A h \in Hooks, t \in Threads : Inside(t, h, Detached) => Inside(t, h, Everywhere)
    BY DEF Inside, Everywhere
  <2>2. QED
    BY <1>1, <2>1 DEF LateInv, Known, FreedOnlyUnderLate
<1>2. IInv => FreedOnlyUnderLate
  BY <1>1 DEF IInv
<1>3. QED
  BY <1>2, Invariance, PTL

\* PostCall always finds a record: its NKT_ASSERT holds.
THEOREM RecordAlwaysFound == Spec => []RecordFound
<1>1. IInv => RecordFound
  BY DEF IInv, RecordInv
<1>2. QED
  BY <1>1, Invariance, PTL

\* PostCall returns to the wrong address only after an exception has skipped a
\* call of the same hook.
THEOREM AstrayNeedsException == Spec => []AstrayOnlyAfterThrow
<1>1. IInv => AstrayOnlyAfterThrow
  BY DEF IInv, RecordInv
<1>2. QED
  BY <1>1, Invariance, PTL

LEMMA NextNoNewCalls ==
  ASSUME IInv, [Next]_vars, NEW h \in Hooks, NEW u \in Threads, entry[h] \in {"freed", "leaked"}, Depth(u)' > Depth(u)
  PROVE  TopHook(u)' # h
<1>0. TypeOK /\ flags[h] # {}
  BY DEF IInv, FlagInv
<1>1. \A t \in Threads : Depth(t) \in Nat
  BY <1>0 DEF TypeOK, Depth
<1>2. ThreadNext
  <2>1. ~UNCHANGED stack
    BY <1>1 DEF Depth
  <2>2. ~ServerNext
    BY <2>1 DEF ServerNext, HookPatch, Unhook, HookDone, HookFails, EnableHook, threadVars
  <2>3. ~ManagerNext
    <3>1. ASSUME NEW r \in Removers, DisableScope(r) \/ RemoverStep(r) \/ LibUnhookBlind(r) PROVE UNCHANGED stack
      BY <3>1 DEF RemoverStep, DisableScope, Collect, DisableTaken, CountsRead, LibUnhook, LibUnhookBlind, Unpatch, TakeEntry, ReadCount,
                  FreeEntry, threadVars
    <3>2. UnloadModule => UNCHANGED stack
      BY DEF UnloadModule, threadVars
    <3>3. QED
      BY <2>1, <3>1, <3>2 DEF ManagerNext
  <2>4. ~UNCHANGED vars
    BY <2>1 DEF vars, threadVars
  <2>5. QED
    BY <2>2, <2>3, <2>4, NextParts
<1>3. PICK t \in Threads : ThreadStep(t) \/ (\E g \in Hooks : Call(t, g)) \/ (\E d \in 0..MaxDepth : Throw(t, d))
  BY <1>2 DEF ThreadNext
<1>4. ASSUME NEW S, TopAt(t, S), NEW a \in InStub \cup Detached, MoveTop(t, a) PROVE FALSE
  <2>1. Len(stack'[u]) = Depth(u)
    BY <1>0, <1>4, MoveEffect
  <2>2. QED
    BY <1>1, <2>1 DEF Depth
<1>5. ASSUME NEW n \in Nat, n <= Depth(t), stack' = [stack EXCEPT ![t] = SubSeq(@, 1, n)] PROVE FALSE
  <2>1. Len(stack'[u]) = IF u = t THEN n ELSE Depth(u)
    BY <1>0, <1>5, CutEffect
  <2>2. QED
    BY <1>1, <1>5, <2>1 DEF Depth
<1>6. CASE JumpToStub(t) \/ EnterStub(t) \/ PreCallLeave(t) \/ PreCallContinue(t) \/ PostCallEnd(t)
  <2>1. PICK S \in {{"injected"}, {"entry"}, {"pre"}, {"pre", "pass"}, {"post"}},
             a \in {"entry", "pre", "pass", "marked", "leaving", "returning"} : TopAt(t, S) /\ MoveTop(t, a)
    BY <1>6 DEF JumpToStub, EnterStub, PreCallLeave, PreCallContinue, PostCallEnd
  <2>2. a \in InStub \cup Detached
    BY DEF InStub, Counted, Uncounted
  <2>3. QED
    BY <1>4, <2>1, <2>2
<1>7. CASE PostCall(t)
  <2>1. TopAt(t, {"marked"}) /\ (MoveTop(t, "post") \/ UNCHANGED stack)
    BY <1>7 DEF PostCall
  <2>2. "post" \in InStub \cup Detached
    BY DEF InStub, Counted
  <2>3. QED
    BY <1>1, <1>4, <2>1, <2>2 DEF Depth
<1>8. CASE Exit(t)
  <2>1. ASSUME Pop(t) PROVE FALSE
    <3>1. Depth(t) - 1 \in Nat /\ Depth(t) - 1 <= Depth(t)
      BY <1>0, <2>1, TopIsHook DEF Pop
    <3>2. stack' = [stack EXCEPT ![t] = SubSeq(@, 1, Depth(t) - 1)]
      BY <2>1 DEF Pop
    <3>3. QED
      BY <1>5, <3>1, <3>2
  <2>2. QED
    BY <1>4, <1>8, <2>1, ExitEffect
<1>9. ASSUME NEW d \in 0..MaxDepth, Throw(t, d) PROVE FALSE
  <2>1. d \in Nat /\ d <= Depth(t)
    <3>1. d < Depth(t) /\ MaxDepth \in Nat
      BY <1>9, HookConstants DEF Throw
    <3>2. QED
      BY <1>1, <3>1
  <2>2. stack' = [stack EXCEPT ![t] = SubSeq(@, 1, d)]
    BY <1>9 DEF Throw
  <2>3. QED
    BY <1>5, <2>1, <2>2
<1>10. ASSUME NEW g \in Hooks, Call(t, g) PROVE TopHook(u)' # h
  <2>1. /\ \A v \in Threads : Len(stack'[v]) = IF v = t THEN Depth(t) + 1 ELSE Depth(v)
        /\ stack'[t][Depth(t) + 1] = [hook |-> g, at |-> "injected"]
    BY <1>0, <1>10, PushEffect
  <2>2. u = t
    BY <1>1, <2>1 DEF Depth
  <2>3. TopHook(u)' = g
    BY <2>1, <2>2 DEF TopHook, Depth
  <2>4. flags[g] = {}
    BY <1>10 DEF Call
  <2>5. QED
    BY <1>0, <2>3, <2>4
<1>11. QED
  BY <1>3, <1>6, <1>7, <1>8, <1>9, <1>10 DEF ThreadStep, Exit

\* No call enters a stub that Unhook has left, freed or leaked.
THEOREM NoCallAfterUnhook == Spec => NoNewCalls
<1>1. IInv /\ [Next]_vars =>
        \A h \in Hooks, t \in Threads : entry[h] \in {"freed", "leaked"} /\ Depth(t)' > Depth(t) => TopHook(t)' # h
  BY NextNoNewCalls
<1>2. IInv /\ [Next]_vars =>
        [\A h \in Hooks, t \in Threads :
           entry[h] \in {"freed", "leaked"} /\ Depth(t)' > Depth(t) => TopHook(t)' # h]_vars
  BY <1>1
<1>3. QED
  BY <1>2, Invariance, PTL DEF Spec, NoNewCalls
=============================================================================
