# Deviare2 in TLA+

TLA+ models of Deviare2, a hooking engine for Windows: a client process (the
*engine*) injects an agent DLL into other processes, tells it which functions
to hook, and is told, over a named pipe, of every call of them.  What is hard in
this code is not a data structure but the threads: workers of completion ports
on both sides of the pipe, hooked threads of a foreign process, callbacks that
run while somebody shuts the component down.  The models are of that.

Paths below are relative to `src/`; `SpyMgr/` and `Agent/` stand for
`Source/Engine/SpyMgr/` and `Source/Engine/Agent/`.

## 1. Inventory

    client (COM)  ──> SpyMgr ──> TransportEngine ══ named pipe ══ TransportAgent ──> AgentMgr ──> HookEngine
    DeviareCOM         │ hooks, agents  │ workers, dispatchers        │ workers          │           │ stubs
                       └ Database       └ CConnection (ref-counted)   └ sorted queues    └ internal  └ NktHookLib
                                                                                           hooks       (external)

| Component (code) | State it keeps | Operations | What is hard | What makes it correct | Here |
|---|---|---|---|---|---|
| Shutdown lock, `Source/Common/ShutdownMutex.*` | `nSystemActive`, `cShutdownEvent`, `cNoLockEvent`, `nLockCount` | `Initialize`, `Finalize`, `Lock`, `Unlock`, `SignalShutdown`, `StartShutdownAndWaitPending`; the auto lock and the cancellable lock of the component's mutex | two locks taken in turn; re-initialization | nobody is inside when the component is freed; the wait ends | `ShutdownMutex` |
| Transport engine, `SpyMgr/TransportEngine.*` | the list of `CConnection`s (reference count, order numbers, sorted read and write queues, buffers in use), dispatchers with their message queues | `ConnectAgent`, `DisconnectAgent`, `SendMsg`, `SendBigPacketMsg`, workers, dispatchers, `Finalize` | completions in any order on several workers; three ways for a connection to end; a count that several threads drop | messages in order, each once, none lost while the connection lives (one that is refused ends it); the end told once; no use of a freed connection | `TransportEngine`, `TransportWrite` |
| Transport agent, `Agent/TransportAgent.*` | one pipe, sorted read and write queues, `nThreadsEnding` | `Initialize`, `StartServer`, `SendMsg`, workers, `Finalize` | the same on the other side; callbacks from several workers; a write that fails among others that go on | what `AgentChannel` says: connected, then messages one at a time and in order, then closed once | `TransportAgent`, `AgentChannel` |
| Agent manager, `Agent/AgentMgr.*`, `Agent/Agent.cpp` | `nTransportActive`, `hShutdownEvent`, `cShutdownMtx`, its recursive lock, created processes, custom DLLs, batches of hooks | `Initialize`, `MainThreadProc`/`Run`/`Finalize`, hook calls, callbacks of the transport, commands of the engine, internal hooks, `ShutdownMainThread` | hooked threads, workers, the main thread and a thread in `ExitProcess` at once, with two locks and the loader's | the agent tears down alone; it ends; the lock is owned | `AgentMgr` |
| Hook engine, `Agent/HookEngine*.cpp`, `HookSimple_*.asm` | the list of hooks, their stubs, per-thread stacks of calls | `Hook`, `Unhook`, `EnableHook`, `UnhookAll`, `PreCall`, `PostCall` | a thread enters a stub while it is removed | no thread runs a stub that was freed, but one that the count and the suspension of threads cannot see; calls and returns pair up | `HookEngine` |
| Thread data, `Agent/TlsData.cpp` | a list of per-thread records under two spin locks | `Get`, `OnThreadExit`, `Finalize` | a thread ends while the agent is finalized | a call finds its record | the records are in `HookEngine` |
| Custom handlers, `Agent/HookCustomHandlerMgr.cpp` | plug-ins and their references | load, call, free unused | plug-ins are foreign code | a plug-in outlives its hooks | not modelled |
| Spy manager: agents, `SpyMgr/SpyMgr.cpp`, `SpyMgrActiveAgent.cpp`, `SpyMgrInit.cpp` | the list of agent controllers, each with its state and its shutdown lock | load, unload, message and end-of-connection callbacks, `Finalize` | an agent goes, or is connected anew, while others use it; everything is found again by process id | one controller per process, deleted once and under nobody (in shutdown commands go without the lock, and may break that); it is connected while it is in the list | `SpyAgents` |
| Spy manager: hooks, `SpyMgrHookFuncs.cpp`, `SpyMgrHookItems.cpp`, `Hook.cpp` | hooks, and for each process the state of its item | install, uninstall, enable, state changes reported by agents | the lock is given up for every event and every command; reports cross commands | two lists agree; what ended stays so, and is removed once; the agent keeps no hook nobody knows | `SpyHooks` |
| Processes list, `SpyMgr/InternalProcessesList.cpp` | a snapshot of the processes | a polling thread, enumeration | pids that are used again | added and removed are told in turn | not modelled |
| Big data, `Source/Common/TransportBigData.*` | blocks of numbered packets | `ProcessPacket`, `GetData`, `Remove` | a packet that is missing or repeated | a block holds its packets, in order | not modelled; the transport models take a packet as a message |
| Objects and locks, `Source/Common/EngBaseObj.*`, `WaitableObjects.*` | reference counts, events, fast mutexes | `AddRef`, `Release`, `Lock`, `Unlock` | | | inside the models that use them |
| Calls and parameters, `SpyMgr/HookCallInfo.cpp`, `StackTrace.cpp`, `Source/Common/Param*.cpp`, `FunctionParamsCache.*`, `ProcessMemory.*` | data of one call | decoding | none: sequential data | | not modelled |
| Modules, symbols and processes, `Source/Common/Process*.cpp`, `Module*.cpp`, `Pdb*`, `NtInternals.*`, `Tools.*`, `DynamicAPIs.*` | wrappers of Windows | | | | not modelled: I/O |
| Memory manager, `Source/Common/MemoryManager*` | a pool and a tracker | allocate, free | | | not modelled: library |
| Database, `Source/Common/Database.*`, `DbObject*`, `Source/Database/`, `Database/` | descriptions of functions in SQLite | load, search; the tools that build it | none at run time: read once | | not modelled |
| COM layer, `Source/Engine/DeviareCOM/` | wrappers of the spy manager, connection points | events to the client | | | not modelled: generated and wrapper code |
| NktHookLib, udis86, SQLite, LZ4, MSXML, samples, documentation | | | | | not modelled: external, vendored or not code |

The components meet in four ways.  *Messages*: the two transports write
numbered messages on the pipe.  *Callbacks*: a transport calls its manager
(`TEC_...`, `TAC_...`) on its own threads; the hook engine calls `HEC_...` on the
threads of the hooked process.  *Events*: a sender waits for its message to be
answered, or for one of three ends.  *Shutdown locks*: every component counts
who is inside and its `Finalize` waits for them.

## 2. Plan

Written first what everything stands on, then the path of a message, then who
uses it:

1. `ShutdownMutex`, the lock every component shuts down with.  **Done, proved.**
2. `TransportEngine`, the engine's receiving half, which implements
   `RefusingDelivery`.  **Done, proved.**
3. `TransportWrite`, its sending half.  **Done, proved.**
4. `TransportAgent`, which implements `AgentChannel` and, for the messages it
   hands to the manager, `OrderedDelivery`.  **Done, proved.**
5. `AgentMgr` composed with `AgentChannel`: the agent's manager and main
   thread see the transport through what `TransportAgent` was shown to
   implement.  **Done, proved.**
6. `HookEngine`: hooks, their stubs and usage counts, the calls of a thread.
   **Done, proved.**
7. `SpyHooks`: hook items, their two lists, the commands and the answers of the
   agent.  **Done, proved.**
8. `SpyAgents`: the controllers of a process's agents, above the connections of
   the engine's transport.  **Done, proved.**

What would come next, in this order: the one-shot dispatchers of blocking
messages; the reference counts of `TlsData` with `OnThreadExit`; the polling
thread of `InternalProcessesList`; the failures inside the agent's `Initialize`.

## 3. Modules

Each action is one locked region, or one access to shared state, of the code; its
name is that of the function it belongs to, and PROJECT.json gives the lines.
Program counters say where a thread is between two actions. Histories (`dispatched`,
`handled`, `wire`, `closedCalls`, `straddled`, `late`, `doomed`, `stray`, ...) are
read by no guard. An operator `X_something` above `X` is a *wrong variant* of `X`, a
plausible bug that some property is seen to catch.

**ShutdownMutex**.  Threads `Ops` run an operation of a component: `Lock` counts
them, `CheckBeforeTry`, `TryLock` and `Recheck` are the loop that takes the
component's mutex unless the shutdown event is set, `CheckActive` the test
before the body.  `Finalizer` runs `Finalize` (`SignalShutdown`, the wait for
`cNoLockEvent`, freeing) and `Initialize`, again and again.  `straddled` records
that an `Initialize` ran while an operation of the last life still held the lock.

**OrderedDelivery**.  What the agent's side promises of the engine's messages: a
prefix of what was written, in order.

**RefusingDelivery**.  What the engine's side promises of the agent's messages,
which is less: their turns come in order, each once, but a message may be refused
when its turn comes.  It is then left out, the channel is going down from there
on and does not recover, and until it is down some of the next messages may still
be delivered.

**TransportEngine**.  One connection.  The kernel side is `pipe`, `posted` reads
and the completion port `iocp`; workers take packets (`Dequeue`), put buffers
into the sorted queue, post the next read, and whoever finds the buffer with the
next order dispatches it (`FetchNextOrder`, `GetBufferFromSortedReadedQueue`,
`DispatchReadMessage`, `IncrementOrder`).  `DispatchReadMessage` may refuse a
message of `RefusedMsgs`, for its size or because no temporary dispatcher can be
started; the order number goes up all the same, before the worker reports the
error and disconnects (`refused`, then `error`), and another worker may dispatch
the next message in between.  Dispatchers take rounds of messages of one
thread and put back what is left when one is refused.  A connection ends by
`DisconnectAgent` of a client, of a worker or dispatcher that met an error, or
by `Finalize`; `Release` hands the destructor to the thread that dropped the last
reference.  The engine's lock is `lock`; where a region of the code takes it and
gives it back, the step is guarded by it.

**TransportWrite**.  The same connection from the other side: senders take a
number, post to the port, workers sort and write.  A message may be preceded by
the parts of a big packet, sent under one lock.

**TransportAgent**. The agent's transport. Its workers connect, read ahead, drain
the queues and call the manager; the ending of a worker goes through
`nThreadsEnding`, `TransportError`, `DisconnectNamedPipe` and `ConnectionClosed`.
`Channel` maps it to **AgentChannel**: `link`, one stage per callback, `inMessage`,
`finalize`; `Delivery` maps the messages written by the engine and handled by the
manager to **OrderedDelivery**.

**AgentMgr**.  Extends the state of `AgentChannel` (an `INSTANCE` whose
actions are conjoined with the manager's) with the threads of the agent.  The
holders of `cShutdownMtx` are read off the program counters (`NoPending`), as
`ShutdownMutex` has shown of `nLockCount`.  The manager's own lock is the
recursive mutex of the code, with its depth: the point of `Stuck`.  The hooks of
`CreateProcess` and `NtResumeThread` may wait for a child process (`created`,
`resumed`) inside `cShutdownMtx`; that wait is `INFINITE` and only the child ends
it (`ChildReady`).

**HookEngine**. A *frame* is a call of a hooked function on a thread's stack; `at`
says which code the thread runs, from NktHookLib's test of its flags through the
stub, `PreCall`, the function, `PostCall` and the rest of the stub. The two
instructions before `inc` and after `dec` of `HookSimple_x86.asm` are states of
their own (`entry`, `leaving`): `nUsageCount` does not see them. The hooks
`Internal` are the agent's own, installed with `NKTHOOKLIB_DisallowReentrancy`:
NktHookLib notes the thread (`guard`) and replaces the return address by one of its
code for that hook (`lpInjCode`), so that a call of such a hook that `PreCall` left
alone stays a frame, uncounted (`alone`), until it has returned through that code
(`mini`). A record is one of the thread's `CHookCallData`, known by its hook and the
address it returns to. `Throw` cuts frames off a stack without running their way
back. A `remover` is one `Unhook`, of the server's messages or of `DllUnloadUnhook`
on a thread in `FreeLibrary`: it collects, takes a batch, reads the count (`late`
remembers who was inside unseen, `alone` who had still to return through
NktHookLib's code), unhooks, frees, or gives up after `Tries`. `LibUnhook` looks at
the instruction pointers of the suspended threads and may fail to take a jump out;
`LibUnhookBlind` is the one whose suspension failed or found nobody (`blind`).
`Unhook` frees its stubs whatever came of it.

**SpyHooks**.  An *item* is one hook in one process.  Threads run the operations
that add, install, enable, disable, remove or lose items; wherever the code gives
the manager's lock up (`CNktAutoFastMutexReverse`, for an event or a command) a
thread is at another `pc` and the next one may enter.  `cmd` is the last command
for an item that the transport accepted, the histories name what went wrong for
an item: `overtaken`, `untold`, `clobbered`, `again`.

**SpyAgents**.  A controller is in `listed` from `AddAgentController` to
`RemoveAgentController`; `ctl` and `conn` are its state and its connection's.  A
thread keeps a pointer (`ptr`), a controller's shutdown lock (`holds`), a
reference to a connection (`ref`), the controller it deletes (`del`) and, when
`DisconnectAgent` runs the callback of a closed connection inside that deletion,
the one it tells the end of (`cb`, `outer`).  Addresses are used again after
a deletion, so `ptr` may name a controller it was not taken from.  `ReadList` is
the commands' search of the list during shutdown, without the lock: it reads
what is in the list or what another thread is taking off it.  `Missed`, `Make`,
`Joined` and `JoinFails` are `AddAgentController` under a command that found
nothing then (`AddHook`, `ActivateAgent`), also without the lock: its entries are
`extra`, several may be there at once, and the one whose connection fails takes
any of them off and deletes its own.  `contested` names the controllers that
shared the list so, or left it in place of another.

## 4. Runs

| Run | Instance | What it asks and shows |
|---|---|---|
| `shutdown_lock` | 3 operation threads, unbounded calls | nobody is past the check when `Finalize` frees, unless an `Initialize` straddled it; nobody passes the check after the signal; `Finalize` ends once clients stop starting calls |
| `engine_order` | 2 workers, 1 dispatcher, 3 messages, 2 reads ahead, rounds of 2, the handler of message 1 may fail, `DispatchReadMessage` may refuse message 2, a client looks the connection up | dispatched and handled in order, once; nothing stranded; no lost wake-up; references exact; `RefusingDelivery` is implemented: only a refused message is left out, and then the connection goes down |
| `engine_end` | 1 worker, 1 dispatcher, a disconnecting client, `Finalize`, 2 messages, the first of them big and with a handler that may fail, the second refusable | the end is told at most once, however the ends meet; under fairness messages are handled unless the connection ends, and `Finalize` returns |
| `engine_revive` | 1 worker, 1 sender | *violation*: see findings |
| `write_order` | 2 senders of a part and a message, 2 workers, a disconnecting client; posts and writes may fail, shutdown may come | the wire is in order and a message follows its packet; an accepted message is written unless an order is lost or the connection ends; buffers and references exact |
| `agent_order` | 2 workers, 2 messages, 2 reads ahead; handlers fail, the engine leaves, `Finalize` at any time | `AgentChannel` is implemented (one message at a time, one error and one end), and `OrderedDelivery`; the end is told; `Finalize` returns; messages are handled |
| `agent_writes` | 3 workers, 3 messages sent; posts and writes may fail | the wire is in order although nobody locks around the write; a message whose write fails ends the connection |
| `mgr_teardown` | 1 hooked thread, the engine, `ExitProcess` | the agent tears down alone; the transport is inactive once closed; the agent ends unless it is stuck on its lock or a child process never starts |
| `mgr_signal` | the same | *violation*: see findings |
| `hook_calls` | 1 thread, 2 hooks (one the agent's own, one of a dll), the server and a loader, 2 frames, 1 exception, 1 enable, 2 tries | the count is exact; a stub is freed under nobody but the threads that the count, or the suspension, missed (`late`, `alone`, `blind`); `PostCall` finds a record, the wrong one only after an exception; no call enters a hook that `Unhook` left; every `Unhook` returns |
| `spy_hooks` | 2 threads, 3 calls, 2 items of one hook and 1 of another, one process | the lists agree; what ended stays so; a removal is decided once, and the agent keeps no hook of a removed item, except where the run names why |
| `spy_agents` | 2 clients, a worker, a dispatcher, `Finalize`, 3 controllers at 2 addresses | nobody uses a deleted controller, except a command that read the list without the lock; each is deleted once, unless it shared the list with one made without the lock in shutdown; the one in the list is connected; the end of a connection ends its own agent |

**Bounds.** Two workers are enough for every overtaking of one completion by
another, since a packet is one worker's until it is done; three where writes are not
locked. Three messages let one be in order while two swap. A round of two messages
is the smallest that can be refused in the middle; the code's constant is larger.
Two reads ahead let completions come in the wrong order. In `write_order` at most
one post fails: the first one already strands what follows. `BadMsgs` names the
messages whose handler may fail, `RefusedMsgs` those that `DispatchReadMessage` may
refuse: the second one, so that one is before it and, in `engine_order`, one behind
it. One hooked thread in `AgentMgr` and `HookEngine`: hooked threads meet each other
only at the manager's lock and in the count, and the theorems hold for any number.
Two frames nest and recurse; a second try of `Unhook` (the code makes five) is the
one that meets a hook still in use; one hook of the two is internal, the other is
the dll's. In `SpyHooks` three calls are an addition, a removal that overlaps it,
and the addition of the same hook and process again. In `SpyAgents` three
controllers are the one whose end is reported late, the one that was connected anew,
and one more for the nested deletion, or for the second of two commands that make
one in shutdown; two addresses, so that one can be used again. Messages are not
data: number, thread, and whether it is a big packet.

**Fairness.** Every thread of the code keeps running (weak fairness of its own
steps). Strong fairness is asked where the code waits for something that may be true
only now and then: a lock others take and leave, and the manual-reset events of the
shutdown lock, whose `SetEvent` releases those that wait at that time. In `AgentMgr`
that is the main thread and the thread in `ExitProcess`; a child process need not
start, and `AgentEndsUnlessStuck` and `SignalEndsRun` say where they assume it
(`ChildrenStart`). In `HookEngine` a removal, NktHookLib's own code and a hook in
the making go on; hooked functions may never return, and need not for
`UnhookReturns`. Nothing is asked of the other process, of hooked functions or of
clients, except that a pending read or write completes when there is data or the
pipe breaks. `SpyHooks` and `SpyAgents` state safety only: what ends there ends when
agents answer and events return, which the code cannot promise.

Deadlock is not checked where the system may stop: messages, calls and
controllers are bounded, and a finished `Finalize` has no next step.

## 5. Findings

* `engine_revive` (code bug).  `FindConnectionAndAddRef` adds a reference to a
  connection of the list whose last reference is gone and whose destructor is
  waiting for the engine's lock: `~CNktDvObject`'s assertion `nRefCount == 0` fails.
* `mgr_signal`.  `Run` resets the shutdown event after `Initialize` may have
  returned; an end signalled between them is lost.

Other behaviour worth a look, which the models contain and whose properties name
it as their exception:

* `MainThreadProc` and `Finalize` both take the agent manager's recursive lock,
  and the wait for pending handlers gives back one level: a handler that wants that
  lock (a DLL command, the `NtResumeThread` hook) never gets it (`Stuck`).  And the
  hooks of `CreateProcess` and `NtResumeThread` wait `INFINITE` for the thread or
  the ready event of a child process (`Agent/AgentMgr.cpp:1250`, `:1774`) inside
  `cShutdownMtx`, deaf to its event: a child that neither runs nor ends keeps the
  agent.  `AgentEndsUnlessStuck` shows that nothing else does.
* `DispatchReadMessage` may refuse a message (`SpyMgr/TransportEngine.cpp:837-894`,
  `:998`).  The order number goes up before the worker disconnects, so another
  worker may dispatch the next message although this one is missing
  (`RefusingDelivery`, `DispatchedInOrder`).
* A second `Initialize` while an operation of the first life is still on its way
  out makes the shutdown lock skip its wait, because `cNoLockEvent` is created
  signalled (`straddled`, `QuiescedUnlessStraddled`).
* A thread that has jumped to a stub and not counted itself, or has uncounted
  itself and not returned, is inside when `Unhook` frees it (`late`).  A call of
  the agent's own hooks that `PreCall` left alone returns through NktHookLib's code
  of that hook, which the unhook frees having looked at instruction pointers only
  (`alone`); and what NktHookLib's unhook could not do, suspend the threads or take
  the jump out, is ignored at `Agent/HookEngine.cpp:562` (`blind`).
  `FreedOnlyUnderLate` exempts these three and nothing else.  And
  `EnsureNoThreadsInModule` (`Agent/Agent.cpp:646`) looks for threads that will
  return into a stub in thread data that `Finalize` has released before.
* After an exception skips a recursive call, the outer call's `PostCall` takes
  the inner one's record, and its return address (`unwound`).
* `HookInstall`'s failure overwrites the state of an item removed meanwhile
  (`clobbered`); the command that removes a hook may overtake the one that adds it
  (`overtaken`).
* The commands of the spy manager search the list of controllers during shutdown
  without holding the lock (`stray`). `AddHook` and `ActivateAgent` also make one so
  (`SpyMgr/SpyMgr.cpp:1392`, `:1434`): two of them may each insert one, and when one
  fails it takes off whichever the search finds and deletes its own
  (`SpyMgr/SpyMgrActiveAgent.cpp:136-142`), which `Finalize` then finds in the list
  and deletes again. `DeletedOnce` exempts the controllers that met so
  (`contested`), and says that outside of shutdown none ever do. The dispatcher
  reads `dwPid` after it released its references (`SpyMgr/TransportEngine.cpp:809`):
  its late error may meet a newer agent. The thread that deletes a controller
  disconnects by process id (`SpyMgr/SpyMgrActiveAgent.cpp:338`) and may close a
  newer agent's connection; `ListedIsConnected` shows that this agent then leaves
  the list too.

## 6. Proofs

All for any values of the constants allowed by the named assumption of each module:
sets of threads are finite where something counts them, bounds are natural numbers,
switches are booleans, and no thread is `NoThread`.  In `TransportEngine` the thread
that calls `Finalize` is not one of the workers and dispatchers it waits for, and
a client that disconnects and then finalizes is two threads.

* **ShutdownMutex_proofs**.  The invariant says who is counted (`Inside`), that
  the event agrees with the count unless straddled, that the mutex has one owner,
  and that from the signal on nobody is between the check and the body.  From
  it: `TypeCorrect`, `LockCountCorrect`, `ShutdownQuiesces`, `MutexCorrect`,
  `NoEntry`.
* **TransportEngine_proofs**. `DispatchedInOrder` is far from inductive. Its
  strengthening says: every order number that was ever posted is in exactly one
  place, a pending read, a packet, a worker's hands or the sorted queue
  (`PendingInv`, `QueueInv`); the k-th read has the k-th message, so what is pending
  ascends (`AscendInv`, `MessageInv`); a worker past the queue holds
  `nNextReadOrderToProcess` (`OrderTypes`, `DiscardInv`) and the number dispatched
  is one less than it or equal (`CountInv`). `taken` counts the turns that are over;
  what was dispatched increases up to it and misses only messages that may be
  refused, and a worker that refused one is on its way to disconnect
  (`GoingDownStays`). From it `DispatchOneAtATime`, `MessagesDispatchedInOrder`, and
  `EngineImplementsChannel`, step by step. Two further invariants give
  `ConnectionClosedOnce` (who may call the callback was the thread that changed
  `nState`) and `DispatchersWoken`. What follows rests on both halves of `IInv /\
  EngineInv`. The *stream* of a dispatcher is what it has handled, what is left of
  its round and its queue; its steps leave the stream as it was, a dispatch adds a
  message greater than all before it, a disconnect cuts its end off (`StreamInv`):
  `MessagesHandledInOrder`. The count is a sum of cardinalities and lengths; the
  change of each summand under a step of one thread is a lemma (`WorkerCounts`,
  `InsideCounts`, `HeldCounts`...), and `Balanced` adds them up. That the initial
  reference is returned once needs `FirstInv` (one thread at most is the one that
  changed `nState`): `ReferencesExact`. While it is there the count is not zero, so
  a connection that left `cConnList` is going down (`LifeInv`); without this a
  worker could return from a `DisconnectAgent` that found nothing and leave a read
  behind. With it `ReadsNotStranded`, and, the count being a sum that is never
  negative, `TypeCorrect`.
* **TransportWrite_proofs**.  All the invariants of the sending half.  What a step
  does to the requests is said once, as one of a few effects (`Posts`,
  `TakesRequest`, `Queues`, `Drains`...), and everything else is proved of the
  effects.  `DueInv` and `OnePlace`: a request that is not yet written is at one
  place, a sender's hands, the port, a worker's hands or the queue, with an order
  between the two counters; so what is written is later than all that is on the
  wire (`WireOrder`).  `ChainInv`: as long as the connection lives (`EndingStays`:
  it does not come back), whatever was accepted stays accepted and follows, with a
  greater order, the part that its thread sent before (`PacketFirst`).
  `WholeInv`: every order between the counters waits somewhere unless a post
  failed; `TurnInv`: whose turn it is has a worker in the drain loop
  (`NothingStays`).  The two counts are sums over sets of threads, a queue and two
  sequences: the change of each summand is a lemma of its own (`Recount`,
  `SenderCounts`...), `Balances` adds them up, and `ReleaseInv` says that one
  thread only gives up the first reference (`BuffersExact`, `ReferencesExact`).
* **TransportAgent_proofs**.  Of the reads: an order is in at most one place
  (`OnePlace`, `DueInv`), whoever handles a message has the order that is due, alone
  (`HandlingInv`), and, as long as no read failed before it, the k-th read has
  the k-th message (`MessageInv`).  Of the writes, which no lock protects: the
  same of the places of a request (`OneRequest`), the worker that writes is alone
  (`WritingInv`), and unless a message was lost all that was processed is on the wire
  (`LostInv`).  Of the life of the connection: one packet brings the connect
  (`ConnectInv`), nobody tries it again while the pipe is open (`RetryInv`), and the
  first worker that ends makes the last two calls (`EndInv`).  From them
  `WritesInOrder`, `LostMessageEnds`, and `AgentImplementsChannel`, step by step:
  the contract that `AgentMgr` assumes of its transport holds for any number of
  workers.
* **AgentMgr_proofs**.  `LockInv` says of each thread whether it is the owner;
  `TeardownInv` that from the signal on the shutdown event stays and the callbacks
  agree with the channel; `InactiveInv` that an active transport after the close
  is one whose `TAC_OnConnectionEstablished` still runs and will find its wait
  cancelled.  From them `TypeCorrect`, `LockHasOneHolder`, `TeardownIsAlone`,
  `InactiveOnceClosed`.
* **HookEngine_proofs**. `UsageExact` (a sum over stacks) is inductive with the
  types and `DepthInv`, once the effect of each step on the set of counted frames is
  known: one lemma for a frame pushed, moved or cut off. `FreedOnlyUnderLate` needs
  `BatchInv` (what a removal holds in each of its phases, and that no two removals
  hold the same hook), `FlagInv` (a hook whose count is read, or that is gone, lets
  nobody in) and `LateInv` (who is inside a hook found unused is in `late`, who has
  still to return to NktHookLib's code of it is in `late` or `alone`, and nobody is
  in that code of a hook taken out but where `blind` says so). `RecordInv` says that
  a frame that will return into its stub has its record, with only records of deeper
  calls after it, and that a record nobody will ask for is of a hook an exception
  skipped. The action property `NoCallAfterUnhook` follows from `FlagInv`.
* **SpyHooks_proofs**.  `PcInv` ties a thread's operation, position, item and
  enumeration to the lists and to the owner of the lock; `DoomInv` says that an
  item whose removal was decided is in a final state, `OvertakeInv` that one still
  being added was overtaken.  From them `ListsAlwaysAgree`, `EndedStaysEnded`,
  `RemovedOnce`, `OrphanNeedsOvertaking`.
* **SpyAgents_proofs**. `PcInv` says what a thread holds, deletes and reports at
  each position; `CtlInv` that a controller's state follows its deleter; `Drained`
  that after the wait nobody holds it, which with the first two gives
  `HeldStaysAlive`. `OneConnection` (`ConnectAgent` waits for the last one to go)
  and `RefOpen` (a reference keeps it from going) give `EndsOnlyItsOwn`, and with
  `ListedUp` and `UpIsListed`, its two halves, `ListsFollow`. `Once` is
  `NeverDeletedTwice` number by number. Of what shutdown adds, `Unlocked` says that
  a command makes a controller without the lock only when nobody puts one into the
  list with it, `Alone` that one which never shared the list is alone in it, in use
  and not deleted, `Joining` that nobody deletes one whose agent is still being
  injected, and `SweepsAlone` that `Finalize` empties the list when nobody else is
  left that deletes.

Only model-checked: everything under fairness, which these provers cannot do.

## 7. Not modelled

* Of the engine's transport: `ConnectAgent`'s set-up of the pipe, the one-shot
  dispatchers of blocking messages (whose start may fail, which `RefusedMsgs` has;
  `SetEvent` on a dispatcher's own event, behind line 998, is taken not to fail: a
  message that is queued and refused at once is not modelled), the throttling sleep
  of `GetBuffer`, the wrap-around of message ids (2^31 messages).
* Of the agent: what its commands and internal hooks do to modules, processes and
  batches of hooks; the failures inside `Initialize`; the minimal hooks of
  `Agent.cpp` and `DllMain`; `CheckOverwrittenHooks`; the bitmaps of the stubs'
  blocks; the reference counts of a thread's data and `OnThreadExit`; the life of
  handles and of objects on a stack (a wait that is cancelled while the engine
  still answers); on x86, the request to the engine to suspend a 64-bit child, a
  wait like the others that can be cancelled, before the `INFINITE` one; a call that
  finds NktHookLib's table of guards full (160 threads, or 120 on x64) and goes on
  unguarded.
* Of the spy manager: events that call `UnloadAgent` themselves, and the manager's
  own handlers of messages that send commands while they hold the controller
  (`OnAgentMsg_LoadLibrary`, `SpyMgr/SpyMgr.cpp:1967`): in either case a deletion on
  the thread that holds the controller waits for itself in
  `StartShutdownAndWaitPending`; the array of controllers torn by two commands that
  search and insert at the same time in shutdown (each is one step); a second
  `Initialize`, delayed hooks, operations on several processes in one call,
  `HookQueryOverwrite`, running out of memory inside a call.
* Whole components: custom handlers (foreign code), the processes list and the
  blocks of big packets (each sequential under one lock), decoding of calls,
  wrappers of Windows, memory manager, database, COM layer, vendored code.  Most
  of the repository's lines are of this kind: SQLite, the headers of MSXML,
  tables of a disassembler, wrappers and samples.

PROJECT.json lists the hazards at their lines, with the property that would catch
each, or why none does.
