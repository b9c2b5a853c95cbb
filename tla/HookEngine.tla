----------------------------- MODULE HookEngine -----------------------------
(***************************************************************************)
(* CNktDvHookEngine (Source/Engine/Agent/HookEngine.cpp) and the stub of   *)
(* HookSimple_x86.asm that every hooked function of the application jumps  *)
(* to.  Threads of the application call hooked functions, nest and recurse *)
(* in them and unwind them by exceptions, while the server's messages      *)
(* install, enable and remove hooks, FreeLibrary removes those of a dll    *)
(* and the agent detaches.                                                 *)
(* A frame is one call of a hooked function on a thread's stack; "at" says *)
(* where its thread runs:                                                  *)
(*   injected  NktHookLib's code, past the test of its flags               *)
(*   entry     the stub, before it counts the call                         *)
(*   pre, pass PreCallCommon: with the thread's data, or about to return 0 *)
(*   marked    the original function, which returns into the stub          *)
(*   post      PostCallCommon                                              *)
(*   leaving, returning   the end of the stub, after the count went down,  *)
(*             on the way to the original function, or back to the caller    *)
(* A call the engine leaves alone is the application's own from there on,  *)
(* and no longer a frame, unless its hook is internal: NktHookLib guards   *)
(* the agent's own hooks against reentrancy, and for that puts a return    *)
(* address of its code (lpInjCode) in the place of the caller's:           *)
(*   alone     the original function, which returns into that code         *)
(*   mini      NktHookLib's code again, which gives the guard back         *)
(***************************************************************************)
EXTENDS Integers, Sequences, FiniteSets

CONSTANTS Threads,    \* threads of the application
          Hooks,      \* hook entries, each with its function and its stub
          Server,     \* the thread that executes the server's messages
          Loaders,    \* threads inside FreeLibrary
          DllHooks,   \* the hooks of functions in the dll they unload
          Internal,   \* the agent's own hooks, which no message removes or enables
          MaxDepth,   \* bound: frames on a stack
          MaxThrows,  \* bound: exceptions
          MaxEnables, \* bound: EnableHook messages
          Tries       \* reads of nUsageCount before Unhook gives up (5)

ASSUME HookConstants ==
  /\ {MaxDepth, MaxThrows, MaxEnables} \subseteq Nat /\ Tries \in Nat \ {0}
  /\ Server \notin Loaders /\ DllHooks \subseteq Hooks /\ Internal \subseteq Hooks
  /\ IsFiniteSet(Threads)

VARIABLES entry,    \* the entry's life: cHooksList is the "listed" ones
          flags,    \* lpInjData of NktHookLib, and "absent" when no jump is patched in
          usage,    \* nUsageCount
          stack,    \* the frames of each thread
          guard,    \* the internal hooks in whose lpInjData a thread has its id
          records,  \* sHookCallData.cInUseStack of each thread
          fate,     \* what became of each thread
          agent,    \* running, then finalized (nktDvTlsData_Finalize), then unloaded
          remover,  \* the Unhook of the server and of each loader
          throws, enables,
          skipped,  \* history: counted frames an exception skipped, by hook
          unwound,  \* history: the hooks a thread's exceptions skipped
          late,     \* history: threads inside but uncounted when the count was read as zero
          alone,    \* history: threads that had still to return to the mini stub then
          blind     \* history: hooks taken out while the other threads were running

lib == <<entry, flags>>
threadVars == <<usage, stack, guard, records, fate, throws, skipped, unwound>>
missed == <<late, alone, blind>>
vars == <<lib, threadVars, agent, remover, enables, missed>>

Removers == Loaders \cup {Server}
Counted == {"pre", "pass", "marked", "post"}
Uncounted == {"injected", "entry", "leaving", "returning"}
InStub == Counted \cup Uncounted
Detached == {"alone", "mini"}
Frame == [hook : Hooks, at : InStub \cup Detached]
Record == [hook : Hooks, ret : Nat]   \* of a call: ret is the depth it returns from
Remover == [pc : {"idle", "hooking", "collect", "take", "count", "unhook", "free"}, tries : 1..Tries,
            scope : SUBSET Hooks, todo : SUBSET Hooks, batch : SUBSET Hooks, free : SUBSET Hooks]
Idle == [pc |-> "idle", scope |-> {}, todo |-> {}, batch |-> {}, free |-> {}, tries |-> Tries]

Init ==
  /\ entry = [h \in Hooks |-> "none"] /\ flags = [h \in Hooks |-> {"absent"}]
  /\ usage = [h \in Hooks |-> 0]
  /\ stack = [t \in Threads |-> <<>>] /\ records = [t \in Threads |-> <<>>]
  /\ fate = [t \in Threads |-> "running"] /\ agent = "running"
  /\ remover = [r \in Removers |-> Idle]
  /\ throws = 0 /\ enables = 0
  /\ skipped = [h \in Hooks |-> 0] /\ unwound = [t \in Threads |-> {}]
  /\ guard = [t \in Threads |-> {}] /\ blind = {}
  /\ late = [h \in Hooks |-> {}] /\ alone = [h \in Hooks |-> {}]

----------------------------------------------------------------------------
(* A thread of the application *)

Depth(t) == Len(stack[t])
TopAt(t, S) == fate[t] = "running" /\ stack[t] # <<>> /\ stack[t][Depth(t)].at \in S
TopHook(t) == stack[t][Depth(t)].hook
MoveTop(t, a) == stack' = [stack EXCEPT ![t][Depth(t)].at = a]
Count(t, n) == usage' = [usage EXCEPT ![TopHook(t)] = @ + n]
threadRest == <<lib, agent, remover, enables, missed>>

\* bInCallLock of the thread's data: an outer frame is inside PreCall or PostCall.
InCallLock(t) == \E d \in 1..Depth(t) : stack[t][d].at \in {"pre", "post"}

\* A call of a hooked function, by the application or by the agent's own
\* callback; NktHookLib's code tests its flags and goes on to the stub.  That
\* of an internal hook first takes the guard, and replaces the return address:
\* a thread that has it already goes on to the original function.
Call(t, h) ==
  /\ fate[t] = "running" /\ Depth(t) < MaxDepth
  /\ stack[t] = <<>> \/ TopAt(t, {"marked", "pre", "post", "alone"})
  /\ flags[h] = {} /\ h \notin guard[t]
  /\ guard' = IF h \in Internal THEN [guard EXCEPT ![t] = @ \cup {h}] ELSE guard
  /\ stack' = [stack EXCEPT ![t] = Append(@, [hook |-> h, at |-> "injected"])]
  /\ UNCHANGED <<usage, records, fate, throws, skipped, unwound, threadRest>>

JumpToStub(t) ==
  /\ TopAt(t, {"injected"}) /\ MoveTop(t, "entry")
  /\ UNCHANGED <<guard, usage, records, fate, throws, skipped, unwound, threadRest>>

\* lock inc USAGE_COUNT; then PreCallCommon takes the thread's data, and
\* leaves the call alone when it cannot or when it is inside a callback.
EnterStub(t) ==
  /\ TopAt(t, {"entry"}) /\ Count(t, 1)
  /\ MoveTop(t, IF InCallLock(t) \/ agent # "running" THEN "pass" ELSE "pre")
  /\ UNCHANGED <<guard, records, fate, throws, skipped, unwound, threadRest>>

\* Mutant: a call that finds the thread's data in use is not uncounted.
PreCallLeaveUncounted(t) ==
  /\ TopAt(t, {"pre", "pass"}) /\ MoveTop(t, "leaving")
  /\ IF InCallLock(t) /\ TopAt(t, {"pass"}) THEN UNCHANGED usage ELSE Count(t, -1)
  /\ UNCHANGED <<guard, records, fate, throws, skipped, unwound, threadRest>>

\* PreCall returns 0 (the thread's data is missing or in use, a system thread,
\* no memory, the callback failed), or the stack bytes of a call to skip.
PreCallLeave(t) ==
  /\ TopAt(t, {"pre", "pass"}) /\ MoveTop(t, "leaving") /\ Count(t, -1)
  /\ UNCHANGED <<guard, records, fate, throws, skipped, unwound, threadRest>>

\* PreCall returns 1: it keeps a record with the return address, which it
\* replaces by lpAfterCallMark.  (Once the thread's data is off the list the
\* record goes with it, when PreCallCommon releases the last reference.)
PreCallContinue(t) ==
  /\ TopAt(t, {"pre"}) /\ MoveTop(t, "marked")
  /\ records' = IF agent # "running" THEN records
                ELSE [records EXCEPT ![t] = Append(@, [hook |-> TopHook(t), ret |-> Depth(t)])]
  /\ UNCHANGED <<guard, usage, fate, throws, skipped, unwound, threadRest>>

\* Mutant: the last record is taken, whose ever it is.
MatchingAny(t) == DOMAIN records[t]

\* PostCall pops the thread's records down to one of its own hook.
Matching(t) == {i \in DOMAIN records[t] : records[t][i].hook = TopHook(t)}

LastMatch(t) == CHOOSE i \in Matching(t) : \A j \in Matching(t) : j <= i

\* Mutant: the record is removed with its parent's.
PostCallPopsParent(t) ==
  /\ TopAt(t, {"marked"})
  /\ IF agent # "running"
     THEN fate' = [fate EXCEPT ![t] = "noThreadData"] /\ UNCHANGED <<records, stack>>
     ELSE IF Matching(t) = {}
     THEN /\ fate' = [fate EXCEPT ![t] = "terminated"]
          /\ records' = [records EXCEPT ![t] = <<>>] /\ UNCHANGED stack
     ELSE /\ records' = [records EXCEPT ![t] = SubSeq(@, 1, LastMatch(t) - 2)]
          /\ MoveTop(t, "post") /\ UNCHANGED fate
  /\ UNCHANGED <<guard, usage, throws, skipped, unwound, threadRest>>

\* The original function returns into the stub and PostCall finds the return
\* address; without a record it terminates the process, without the thread's
\* data it dereferences NULL.
PostCall(t) ==
  /\ TopAt(t, {"marked"})
  /\ IF agent # "running"
     THEN fate' = [fate EXCEPT ![t] = "noThreadData"] /\ UNCHANGED <<records, stack>>
     ELSE IF Matching(t) = {}
     THEN /\ fate' = [fate EXCEPT ![t] = "terminated"]
          /\ records' = [records EXCEPT ![t] = <<>>] /\ UNCHANGED stack
     ELSE /\ records' = [records EXCEPT ![t] = SubSeq(@, 1, LastMatch(t) - 1)]
          /\ IF records[t][LastMatch(t)].ret = Depth(t)
             THEN MoveTop(t, "post") /\ UNCHANGED fate
             ELSE fate' = [fate EXCEPT ![t] = "astray"] /\ UNCHANGED stack
  /\ UNCHANGED <<guard, usage, throws, skipped, unwound, threadRest>>

PostCallEnd(t) ==
  /\ TopAt(t, {"post"}) /\ MoveTop(t, "returning") /\ Count(t, -1)
  /\ UNCHANGED <<guard, records, fate, throws, skipped, unwound, threadRest>>

\* The last instruction of the stub: a ret, or a jmp through the entry's
\* lpCallOriginal.  What is left of a call of an internal hook is its return
\* address in NktHookLib's code.
LeaveStub(t) ==
  /\ \/ /\ TopAt(t, {"leaving"}) /\ TopHook(t) \in Internal /\ MoveTop(t, "alone")
     \/ /\ TopAt(t, {"returning"}) /\ TopHook(t) \in Internal /\ MoveTop(t, "mini")
     \/ /\ TopAt(t, {"leaving", "returning"}) /\ TopHook(t) \notin Internal
        /\ stack' = [stack EXCEPT ![t] = SubSeq(@, 1, Depth(t) - 1)]
  /\ UNCHANGED <<guard, usage, records, fate, throws, skipped, unwound, threadRest>>

\* The original function of a call that was left alone returns.
OriginalReturns(t) ==
  /\ TopAt(t, {"alone"}) /\ MoveTop(t, "mini")
  /\ UNCHANGED <<guard, usage, records, fate, throws, skipped, unwound, threadRest>>

\* The mini stub gives the guard back and returns to the caller.
MiniStub(t) ==
  /\ TopAt(t, {"mini"}) /\ stack' = [stack EXCEPT ![t] = SubSeq(@, 1, Depth(t) - 1)]
  /\ guard' = [guard EXCEPT ![t] = @ \ {TopHook(t)}]
  /\ UNCHANGED <<usage, records, fate, throws, skipped, unwound, threadRest>>

\* An exception of the application, caught by the frame at depth d: the ones
\* above it never come back to their stubs, and the guards they hold stay taken.
MarkedAbove(t, d, h) == {e \in d + 1..Depth(t) : stack[t][e] = [hook |-> h, at |-> "marked"]}
Throw(t, d) ==
  /\ fate[t] = "running" /\ d < Depth(t) /\ throws < MaxThrows
  /\ \A e \in (IF d = 0 THEN 1 ELSE d)..Depth(t) : stack[t][e].at \in {"marked", "alone"}
  /\ throws' = throws + 1
  /\ stack' = [stack EXCEPT ![t] = SubSeq(@, 1, d)]
  /\ skipped' = [h \in Hooks |-> skipped[h] + Cardinality(MarkedAbove(t, d, h))]
  /\ unwound' = [unwound EXCEPT ![t] = @ \cup {h \in Hooks : MarkedAbove(t, d, h) # {}}]
  /\ UNCHANGED <<guard, usage, records, fate, threadRest>>

----------------------------------------------------------------------------
(* Hook and EnableHook, on the server's thread *)

At(r, p) == remover[r].pc = p

\* Hook, under the engine's lock: the jumps are in, but their flags say
\* disabled.  The agent's Initialize installs its own hooks before any message.
HookPatch(S) ==
  /\ agent = "running" /\ At(Server, "idle")
  /\ S # {} /\ \A h \in S : entry[h] = "none"
  /\ S = Internal \/ (S \cap Internal = {} /\ \A h \in Internal : entry[h] = "listed")
  /\ flags' = [h \in Hooks |-> IF h \in S THEN {"disabled"} ELSE flags[h]]
  /\ remover' = [remover EXCEPT ![Server].pc = "hooking", ![Server].batch = S]
  /\ UNCHANGED <<entry, threadVars, agent, enables, missed>>

\* HookCommon enables the batch, and Hook lists it.
HookDone ==
  LET S == remover[Server].batch IN
  /\ At(Server, "hooking")
  /\ flags' = [h \in Hooks |-> IF h \in S THEN flags[h] \ {"disabled"} ELSE flags[h]]
  /\ entry' = [h \in Hooks |-> IF h \in S THEN "listed" ELSE entry[h]]
  /\ remover' = [remover EXCEPT ![Server] = Idle]
  /\ UNCHANGED <<threadVars, agent, enables, missed>>

\* One jump could not be written: HookCommon unhooks the others and Hook frees
\* the stubs of all, whatever their counts.
HookFails ==
  LET S == remover[Server].batch IN
  /\ At(Server, "hooking")
  /\ flags' = [h \in Hooks |-> IF h \in S THEN flags[h] \cup {"uninstalled"} ELSE flags[h]]
  /\ entry' = [h \in Hooks |-> IF h \in S THEN "freed" ELSE entry[h]]
  /\ remover' = [remover EXCEPT ![Server] = Idle]
  /\ UNCHANGED <<threadVars, agent, enables, missed>>

\* Mutant: the hook is not looked up in cHooksList.
EnableAnyHook(h) ==
  /\ agent = "running" /\ At(Server, "idle") /\ enables < MaxEnables
  /\ entry[h] # "none" /\ h \notin Internal /\ enables' = enables + 1
  /\ flags' = [flags EXCEPT ![h] = @ \ {"disabled"}]
  /\ UNCHANGED <<entry, threadVars, agent, remover, missed>>

\* EnableHook looks the hook up in cHooksList under the engine's lock.
EnableHook(h) ==
  /\ agent = "running" /\ At(Server, "idle") /\ enables < MaxEnables
  /\ entry[h] = "listed" /\ h \notin Internal
  /\ \/ flags' = [flags EXCEPT ![h] = @ \ {"disabled"}]
     \/ flags' = [flags EXCEPT ![h] = @ \cup {"disabled"}]
  /\ enables' = enables + 1
  /\ UNCHANGED <<entry, threadVars, agent, remover, missed>>

----------------------------------------------------------------------------
(* Unhook, and its callers DllUnloadUnhook and UnhookAll *)

\* The engine's lock, which Hook keeps from its jumps to its list.
EngineLockFree(r) == r = Server \/ ~At(Server, "hooking")
Disabled(S) == [h \in Hooks |-> IF h \in S THEN flags[h] \cup {"disabled"} ELSE flags[h]]
Listed == {h \in Hooks : entry[h] = "listed"}

Unhook(S) ==
  /\ agent = "running" /\ At(Server, "idle") /\ S # {} /\ S \cap Internal = {}
  /\ remover' = [remover EXCEPT ![Server].pc = "take", ![Server].todo = S]
  /\ UNCHANGED <<lib, threadVars, agent, enables, missed>>

\* DllUnloadUnhook by a loader, UnhookAll by the server's thread once the
\* agent's Finalize has waited for the loaders: disable first.
DisableScope(r) ==
  LET scope == IF r = Server THEN Hooks ELSE DllHooks IN
  /\ agent = "running" /\ At(r, "idle") /\ EngineLockFree(r)
  /\ (IF r = Server THEN \A l \in Loaders : At(l, "idle") ELSE remover[Server].scope = {})
  /\ flags' = Disabled(Listed \cap scope)
  /\ remover' = [remover EXCEPT ![r].pc = "collect", ![r].scope = scope]
  /\ UNCHANGED <<entry, threadVars, agent, enables, missed>>

\* Then Unhook what is listed, until nothing is; the agent's Finalize ends by
\* freeing the data of every thread.
Collect(r) ==
  LET found == Listed \cap remover[r].scope IN
  /\ At(r, "collect") /\ EngineLockFree(r)
  /\ IF found # {}
     THEN /\ remover' = [remover EXCEPT ![r].pc = "take", ![r].todo = found]
          /\ UNCHANGED <<agent, records>>
     ELSE /\ remover' = [remover EXCEPT ![r] = Idle]
          /\ IF r = Server
             THEN agent' = "finalized" /\ records' = [t \in Threads |-> <<>>]
             ELSE UNCHANGED <<agent, records>>
  /\ UNCHANGED <<lib, usage, stack, guard, fate, throws, skipped, unwound, enables, missed>>

\* One id under the engine's lock: only who finds it in cHooksList removes it.
TakeEntry(r, h) ==
  /\ At(r, "take") /\ h \in remover[r].todo /\ EngineLockFree(r)
  /\ remover' = [remover EXCEPT ![r].todo = @ \ {h},
                                ![r].batch = IF entry[h] = "listed" THEN @ \cup {h} ELSE @]
  /\ entry' = IF entry[h] = "listed" THEN [entry EXCEPT ![h] = "taken"] ELSE entry
  /\ UNCHANGED <<flags, threadVars, agent, enables, missed>>

\* Mutant: the hooks are not disabled before their counts are read.
DisableNothing(r) ==
  /\ At(r, "take") /\ remover[r].todo = {}
  /\ remover' = [remover EXCEPT ![r].pc = "count", ![r].tries = Tries]
  /\ UNCHANGED <<lib, threadVars, agent, enables, missed>>

DisableTaken(r) ==
  /\ At(r, "take") /\ remover[r].todo = {}
  /\ flags' = Disabled(remover[r].batch)
  /\ remover' = [remover EXCEPT ![r].pc = "count", ![r].tries = Tries]
  /\ UNCHANGED <<entry, threadVars, agent, enables, missed>>

Inside(t, h, S) == \E d \in 1..Depth(t) : stack[t][d].hook = h /\ stack[t][d].at \in S

\* Mutant: the retries are not counted.
ReadCountForever(r, h) ==
  LET m == remover[r] IN
  /\ At(r, "count") /\ h \in m.batch \ m.free
  /\ \/ /\ usage[h] = 0
        /\ remover' = [remover EXCEPT ![r].free = @ \cup {h}]
        /\ late' = [late EXCEPT ![h] = {t \in Threads : Inside(t, h, Uncounted)}]
        /\ alone' = [alone EXCEPT ![h] = {t \in Threads : Inside(t, h, Detached)}]
     \/ /\ usage[h] > 0 /\ m.free # {}
        /\ remover' = [remover EXCEPT ![r].pc = "unhook"] /\ UNCHANGED <<late, alone>>
  /\ UNCHANGED <<lib, threadVars, agent, enables, blind>>

\* The loop over nUsageCount stops at the first hook in use.  (Which hook of
\* the batch is read next is left open.)
ReadCount(r, h) ==
  LET m == remover[r] IN
  /\ At(r, "count") /\ h \in m.batch \ m.free
  /\ \/ /\ usage[h] = 0
        /\ remover' = [remover EXCEPT ![r].free = @ \cup {h}]
        /\ late' = [late EXCEPT ![h] = {t \in Threads : Inside(t, h, Uncounted)}]
        /\ alone' = [alone EXCEPT ![h] = {t \in Threads : Inside(t, h, Detached)}]
        /\ UNCHANGED entry
     \/ /\ usage[h] > 0 /\ m.free # {}
        /\ remover' = [remover EXCEPT ![r].pc = "unhook"]
        /\ UNCHANGED <<entry, late, alone>>
     \/ /\ usage[h] > 0 /\ m.free = {} /\ m.tries > 1     \* Sleep(5)
        /\ remover' = [remover EXCEPT ![r].tries = @ - 1]
        /\ UNCHANGED <<entry, late, alone>>
     \/ /\ usage[h] > 0 /\ m.free = {} /\ m.tries = 1
        /\ remover' = [remover EXCEPT ![r].batch = @ \ {h}, ![r].tries = Tries]
        /\ entry' = [entry EXCEPT ![h] = "leaked"] /\ UNCHANGED <<late, alone>>
  /\ UNCHANGED <<flags, threadVars, agent, enables, blind>>

CountsRead(r) ==
  LET m == remover[r] IN
  /\ At(r, "count") /\ m.free = m.batch
  /\ remover' = IF m.batch # {} THEN [remover EXCEPT ![r].pc = "unhook"]
                ELSE [remover EXCEPT ![r] = [Idle EXCEPT !.pc = IF m.scope = {} THEN "idle" ELSE "collect",
                                                         !.scope = m.scope]]
  /\ UNCHANGED <<lib, threadVars, agent, enables, missed>>

\* NktHookLib marks the hooks uninstalled and takes their jumps out, with their
\* code, while no suspended thread runs in it.  What it could not take out (the
\* suspension or the page's protection failed, or another jump was written over
\* its own) it leaves as it is, code and all, and Unhook is not told.
Unpatch(r, asleep, out) ==
  LET m == remover[r] IN
  /\ At(r, "unhook")
  /\ \A t \in Threads, h \in asleep : ~Inside(t, h, {"injected", "mini"})
  /\ flags' = [h \in Hooks |-> flags[h] \cup IF h \in out THEN {"uninstalled", "absent"}
                                           ELSE IF h \in m.free THEN {"uninstalled"} ELSE {}]
  /\ blind' = blind \cup (m.free \ asleep)
  /\ remover' = [remover EXCEPT ![r].pc = "free"]
  /\ UNCHANGED <<entry, threadVars, agent, enables, late, alone>>

LibUnhook(r) == \E out \in SUBSET remover[r].free : Unpatch(r, remover[r].free, out)

\* SuspendAll fails at one hook, and the rest of the call does not try again;
\* or it suspends nobody, at low integrity.
LibUnhookBlind(r) ==
  LET m == remover[r] IN
  \E asleep, out \in SUBSET m.free :
    /\ asleep # m.free /\ (asleep = {} \/ ~(m.free \ asleep \subseteq out))
    /\ Unpatch(r, asleep, out)

FreeEntry(r, h) ==
  /\ At(r, "free") /\ h \in remover[r].free
  /\ entry' = [entry EXCEPT ![h] = "freed"]
  /\ remover' = [remover EXCEPT ![r].free = @ \ {h}, ![r].batch = @ \ {h},
                   ![r].pc = IF remover[r].free = {h} THEN "count" ELSE @, ![r].tries = Tries]
  /\ UNCHANGED <<flags, threadVars, agent, enables, missed>>

\* EnsureNoThreadsInModule, then FreeLibraryAndExitThread: it looks for threads
\* whose instruction pointer is in the agent's module, in a trampoline of
\* cHooksList (by now empty), or with records in their data (by now freed).
UnloadModule ==
  /\ agent = "finalized"
  /\ \A t \in Threads : ~TopAt(t, {"pre", "pass", "post"})
  /\ agent' = "unloaded"
  /\ UNCHANGED <<lib, threadVars, remover, enables, missed>>

----------------------------------------------------------------------------

ThreadStep(t) ==
  \/ JumpToStub(t) \/ EnterStub(t) \/ PreCallLeave(t) \/ PreCallContinue(t)
  \/ PostCall(t) \/ PostCallEnd(t) \/ LeaveStub(t) \/ OriginalReturns(t) \/ MiniStub(t)

RemoverStep(r) ==
  \/ Collect(r) \/ DisableTaken(r) \/ CountsRead(r) \/ LibUnhook(r)
  \/ \E h \in Hooks : TakeEntry(r, h) \/ ReadCount(r, h) \/ FreeEntry(r, h)

Next ==
  \/ \E t \in Threads : ThreadStep(t) \/ (\E h \in Hooks : Call(t, h)) \/ (\E d \in 0..MaxDepth : Throw(t, d))
  \/ \E S \in SUBSET Hooks : HookPatch(S) \/ Unhook(S)
  \/ HookDone \/ HookFails \/ \E h \in Hooks : EnableHook(h)
  \/ \E r \in Removers : DisableScope(r) \/ RemoverStep(r) \/ LibUnhookBlind(r)
  \/ UnloadModule

Spec == Init /\ [][Next]_vars

\* Windows schedules every thread; what the hooked functions and the callbacks
\* do is theirs, but NktHookLib's code and the stub run on.
FairSpec ==
  /\ Spec
  /\ \A t \in Threads : WF_vars(JumpToStub(t)) /\ WF_vars(MiniStub(t))
  /\ \A r \in Removers : WF_vars(RemoverStep(r))
  /\ WF_vars(HookDone \/ HookFails)

----------------------------------------------------------------------------

\* Every variable keeps its type.
TypeOK ==
  /\ entry \in [Hooks -> {"none", "listed", "taken", "freed", "leaked"}]
  /\ flags \in [Hooks -> SUBSET {"absent", "disabled", "uninstalled"}]
  /\ usage \in [Hooks -> Int] /\ skipped \in [Hooks -> Nat]
  /\ stack \in [Threads -> Seq(Frame)]
  /\ records \in [Threads -> Seq(Record)]
  /\ fate \in [Threads -> {"running", "terminated", "astray", "noThreadData"}]
  /\ agent \in {"running", "finalized", "unloaded"}
  /\ remover \in [Removers -> Remover]
  /\ throws \in Nat /\ enables \in Nat
  /\ unwound \in [Threads -> SUBSET Hooks] /\ guard \in [Threads -> SUBSET Hooks]
  /\ late \in [Hooks -> SUBSET Threads] /\ alone \in [Hooks -> SUBSET Threads] /\ blind \subseteq Hooks

CountedFrames(h) == {p \in Threads \X (1..MaxDepth) :
                      p[2] <= Depth(p[1]) /\ stack[p[1]][p[2]].hook = h /\ stack[p[1]][p[2]].at \in Counted}

\* nUsageCount is the number of calls between the stub's inc and dec, plus the
\* ones an exception took out of the stub's hands for good.
UsageExact == \A h \in Hooks : usage[h] = Cardinality(CountedFrames(h)) + skipped[h]

\* Unhook frees a stub and its entry under nobody, except under a thread that
\* was inside but uncounted at the moment the count was read as zero: the two
\* instructions around the count are all of the stub that Unhook can miss.  Of
\* NktHookLib's code it misses more.  SuspendAll looks at instruction pointers
\* only, so that code goes under a call of an internal hook that PreCall had
\* left alone before, and which returns into it; and where nobody was suspended
\* (Unhook is not told), under a thread that runs it.
FreedOnlyUnderLate ==
  \A h \in Hooks, t \in Threads : entry[h] = "freed" =>
    /\ Inside(t, h, InStub) => t \in late[h]
    /\ Inside(t, h, Detached) => t \in late[h] \cup alone[h]
    /\ Inside(t, h, {"injected"}) => h \in blind

\* The NKT_ASSERT of PostCall: a call that returns into the stub always finds
\* a record, whatever exceptions skipped and whatever was unhooked meanwhile.
RecordFound == \A t \in Threads : fate[t] # "terminated"

\* PostCall returns a thread to another call's return address only when an
\* exception of that thread skipped a recursive call of the same hook.
AstrayOnlyAfterThrow == \A t \in Threads : fate[t] = "astray" => TopHook(t) \in unwound[t]

\* Once Unhook has left a hook (freed or leaked), no new call enters its stub,
\* whatever EnableHook, Hook and the other Unhook do.
NoNewCalls ==
  [][\A h \in Hooks, t \in Threads :
       entry[h] \in {"freed", "leaked"} /\ Depth(t)' > Depth(t) => TopHook(t)' # h]_vars

\* Every Unhook returns: it waits for a hook in use only so many times.
UnhookReturns == \A r \in Removers : []<>(At(r, "idle"))

=============================================================================
