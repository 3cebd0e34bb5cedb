# BLIND: a TLA+ verification project

BLIND is a user-mode instrumentation library for Windows: `BLIND.dll` is loaded
into an owned process, hooks its native, module and Winsock APIs, and reports
what the process does through a named pipe to a host (`BlindRunner.exe` or a
program built on the SDK). This directory holds TLA+ modules for the parts of it
that are concurrent or can fail half-way, the TLC configurations that check them,
and TLAPS proofs about them. Every definition is translated from the code; the
table of definitions and source lines is `PROJECT.json` (`map`).

Run a check with `tlc -config X.cfg M` and the proofs with `tlapm M.tla`.

## 1. Inventory

| Part | State it keeps | Operations | What is hard |
|---|---|---|---|
| Asynchronous event publisher (`DLL/ipc/pipe.cpp`) | node pool, free and pending list, wake-up event, dispatch thread, lifecycle lock | `PublishHookEvent`, `AsyncDispatchThread`, `DrainPendingHookEventsSynchronously`, `Initialize`, `Shutdown` | lock-free hand-over between callbacks and one thread, a join that may time out, a drain that runs beside the dispatch thread |
| Pipe transport (`DLL/ipc/pipe.cpp`, `Injector/Ipc/pipe_server.cpp`) | handle, handshake flag, sequence number; server state | open, handshake, transact, batch with fallback; serve one client | late answers, cancelled writes, retries, a host that stops |
| Hook event queues (`DLL/hooks/controller.cpp`) | vector under a mutex, work event | record with coalescing and eviction, flush by the event loop and by the terminating thread, shutdown | two flushers, saturating counts, displaced events, lost wake-ups |
| Launch gate (`DLL/hooks/runtime/launch_gate.cpp`) | guarded pages, park slots, initializer flag, ready flag and event | prepare, handle fault, initialize, park, release, deferred open, shutdown | any number of threads fault at once on a one-shot guard |
| Bootstrap, event loop and verdict (`DLL/hooks/runtime/bootstrap.cpp`, `Injector/App/BlindRunner.cpp`) | ready masks on both sides, controllers, ready event, trap count | connect, announce, install, retry; inject, wait, resume, judge | three processes' worth of threads, every wait bounded, every step may fail |
| Hook policy (`DLL/hooks/runtime/policy.cpp`, `Injector/Policy`) | rules and flags on both sides | parse, query, evaluate | both sides must derive the same groups |
| Guarded detections (`DLL/hooks/runtime/runtime.cpp`) | table of guarded pages, rearm entries per thread, one lock | register export tables and stub pages, handle guard faults and traps, restore guards, clear | one-shot guards, a lock given up between check, insert, guard and arm, entries that outlive their page |
| Exception dispatch (`DLL/instrument/ix.cpp`) | handler registration, ring of nodes, dispatch thread | register, promote, unregister; dispatch, queue, report | raisers take no lock; a dispatch thread that outlives its join |
| Indirect handles (`DLL/hooks/runtime/runtime.cpp`) | table of slots with generations, cookie | register, resolve, release, reset | slots reused under tokens that are still held |
| Integrity watchdogs (`DLL/hooks/runtime/integrity.cpp`, `runtime.cpp`) | last mask, expected export bytes, map signature, clocks | poll, probe, publish | a change and its repair between two polls; a report that is shed |
| Native hooks (`DLL/hooks/nt*.cpp`) | jumps and breakpoints, table of slots, callback | install, remove, trap; 36 wrappers | patching code that other threads execute; wrappers that call hooked functions |
| Module hooks (`DLL/hooks/module/`) | patch records, trampolines, import slots, a mark per thread, two rings of names | install, refresh on load, lift for one call, remove; loader and 68 API wrappers | no lock around installation; lifts of several threads; handle values that come back |
| Winsock hooks (`DLL/hooks/ws.cpp`) | import slots, inline patches, one mark for the process | the same, ten wrappers | lifts that nobody counts; a mark read and set in two steps |
| Process instrumentation callback (`instrumentation.cpp`, `pic.cpp`, `ki.cpp`) | callback, sample ring | install, sample, flush | compiled out, but for `ki.cpp` |
| Manual mapper (`Mapper/`) | remote image | pause at entry, map, relocate, import, protect, start | order of steps in a foreign process |
| Host telemetry (`Injector/Telemetry`) | fold state, behaviour model, caches | capture, fold, summarise | stale caches, repeat counts |
| Diagnostics, console, tests, scripts | files | output | not modelled |

How they interact: a hooked call asks the policy and, with a callback installed,
records an event in its controller's queue. The event loop (60 ms, or woken by an
event object) swaps the queues out and passes each event to `PublishHookEvent`,
which copies it into a pool node; the dispatch thread batches nodes and transacts
them on the pipe; the pipe server hands them to the telemetry. On the way in, the
runner starts the target suspended, injects the DLL, and either waits for
readiness or lets the launch gate hold the first thread of the target until the
runtime is initialised. `NtTerminateProcess` flushes queue and publisher on the
terminating thread.

What makes each part correct:
- publisher: no node in two places, every accepted event sent or counted, order,
  no lost wake-up, nothing released under a user;
- transport: at-most-once, in order, success only for what the host consumed;
- queue: every call counted once, bursts cost one place, the last event leaves;
- gate: one initializer, nobody resumes before it, slots are not leaked;
- guarded detections: an access to a page BLIND guards never kills the program, a
  trap BLIND asked for never reaches it, consumed guards return, one range a page;
- exception dispatch: no node is lost or used twice, a queued event is reported
  once, unless the handler goes first;
- handles: a token never comes to name another pointer;
- hooks: the original stays callable under any interleaving of lifting, installing
  and removing, a hook that was lifted comes back, removal leaves no trace;
- wrappers: a call is denied or told, told once and under its own name, and the
  wrappers' own calls end;
- watchdogs: the host's last word about hooks, exports and memory becomes true
  again;
- start-up: what is announced is true and heard, a verdict of success means what
  it says.

The hazards these properties are aimed at are listed line by line in
`PROJECT.json` (`hazards`), with the reason where no property covers one.

## 2. Modules

Modules named `...Proofs` hold the theorems of section 5.

**`AsyncPublisher`** (instances: `MCAsyncPublisher`). Threads are producers (hook
callbacks), drainers (`NtTerminateProcess_Hook`), controllers (`Initialize`, `Shutdown`) and worker
objects that `CreateThread` may return. One action is one interlocked operation
or one stretch between two points where another thread can see a difference.
`pending` is the SLIST, head first; a claim flushes it and reverses it, as the
code does. Neither lock is a variable: who holds it follows from the program
counters (`ExclusiveHeld`, `SharedHeld`, `PipeHeld`). `arrivals`, `handed` and
`lost` are history variables. A drain that claims after the pool was released
reads freed memory; its thread goes to `"faulted"`, and the process ends.

**`EventDelivery`** is the abstract promise of the pipe: events are numbered as
they are handed over, the host consumes an increasing sequence of them, and
success is only reported for events it has consumed.
**`PipeChannel`** is the client that holds `g_pipeLock` and the bundled pipe
server. Requests and responses carry the real sequence numbers; each wait of the
client may time out, and a write that failed may have arrived. A failed batch is
replaced by the plan of its single events. The server creates one instance,
serves one client, and disconnects. `ImplementsDelivery` shows the refinement.
The bundled hosts answer every well-formed request with success, so the path on
which a status other than success fails a command without closing the handle
does not occur.

**`HookQueue`** is the queue template that all four controllers use. A call is
its comparison key and whether it is interesting. A critical section of the mutex
is one action; the callback check before it and the event object after it are
separate. `recorded`, `reported` and `forgotten` count calls for each key.

**`LaunchGate`** follows each thread from the guard fault through
`LaunchGateHandleFault` to one of the two thunks and back. `guarded` is the set
of pages that carry `PAGE_GUARD` at the moment: Windows removes the guard as it
raises the fault, the handler puts it back. An unhandled fault ends the process
(`"crashed"`), a failed initialisation too (`"failClosed"`).

**`Startup`** puts runner, pipe server, boot thread, event loop and target side by
side for all three ways to start a target: behind the guarded gate, suspended,
and running. The gate and the pipe are seen from outside: the gate holds the
target until the initialisation has returned, and a failed transaction loses the
one connection the host serves.

**`Watchdogs`** is the rest of an event-loop turn: the check of the hooks, of two
exports of the operating system, and of the map of BLIND's own memory. Each
compares with what it saw last and publishes a change at once and a standing
state periodically; the publisher may shed what it is given. What other code does
to a hook, an export or the map is external and may happen at any time; a wrapper
that has lifted its own jump looks the same to the watchdog.

**`GuardedDetections`** models the pages whose next access is reported: export
tables of `ntdll` (reported once) and pages with direct-syscall stubs (guarded only
on request, reported each time, guarded again by a single-step trap). An
instruction of a program thread is the page it lies on and the page it reads.
`guard` is the set of pages with `PAGE_GUARD`; each critical section of
`g_GuardedDetectionLock` and each change of a page's protection is one action.
Two exception handlers lead to the same code, so a fault that finds no range is
tried twice. A `g_GuardedDetectionRanges` slot that is not active is simply not in
`ranges`. BLIND's own reads of an export directory may consume its guard too. The
program may set the trap flag itself (`OwnTrap`); BLIND swallows that trap while
any range is armed.

**`VehRing`** is the vectored handler with its ring: threads that raise an
exception look at the registration without a lock, pop a node, push it on the
pending list and set the event; the dispatch thread claims the list, reports it
in order and, when told to stop, gives back what is pending. The controller registers,
promotes (a moment without any handler) and unregisters; its join may time out, and then
an old dispatch thread lives on beside a new ring.

**`IndirectHandles`** is the table of tokens. A token is the record it encodes with
the cookie it was encoded with; the cookie is made by whoever comes first. The
generation counter wraps (`GenSize` for 2^32, started so that it does).

**`ModuleHooks`** installs, borrows and removes the hooks on exports of other
modules, with the three ways in which a call may be in a hooked function: through
the jump, through an import, through a trampoline. `hook` stands for one loader
function, patched inline, and one export of a module loaded later, by either
method. Installation takes no lock, so its reads and writes of the first bytes are
actions of their own.

**`ModuleCalls`** is what the 68 API wrappers do around that call. Each wrapper is
one record: does it report before or after, on success only, and from where does
it take the name in its report: a value, the caller's memory read late, a copy made
early (redacted where the code redacts), the ring of HTTP handles or the ring of
LSA packages. The steps of a ring (a look-up, then a store) are separate. A report
is the name it carries; the other arguments and all formatting are left out.
Handle values are the system's and come back once they are closed.

**`WinsockHooks`** does the same for `ws.cpp`, in the build the project ships
(`BLIND_STANDALONE`): ten wrappers with one mark for the process, an import table
per module, a jump over the function's first bytes with a trampoline. A behaviour follows the
hooks as long as no hook comes or goes under a running call and no protection
change fails (`Undisturbed`): from there on the code promises nothing, and the
states after are not explored.

**`HookedCalls`** is what the 36 wrappers of native functions do: a policy rule
judges the call, the original runs unless denied, look-ups and scans made by the
wrapper are hooked calls themselves, and a counter per thread keeps BLIND's own
calls from being judged or reported. A wrapper is the sequence of its steps. Not
all of BLIND's own work is under that mark, and the rest is in the model as hooked
calls: the look-up of a process, the scan of a range, the registration of a page with
system calls (`RegisterDirectSyscallPage`; only its guarding is marked), the
classification of a trace when private callers are ignored, and the flush of the queues
before `NtTerminateProcess` goes on (`Flush`, `Swap`, `Send`), which makes room in the
queues and classifies traces; a flush whose allocation fails ends the process
(`Terminate`: it is `noexcept`). Calls that differ in nothing but their number are one:
memory queries in a row, and the queues of Ki and of modules. The heap gives small blocks
without a call; what it asks the system for is new memory without system calls in it. The
file a page is dumped to and the pipe of the drain, which is marked, call nothing hooked.
Locking a mutex twice on one thread is undefined in C++; the model goes on from it as from a
callback that returned or threw.

**`NativeHooks`** puts two functions under a jump or a breakpoint while threads call
them: the two writes of a jump, the slot of a breakpoint, the trap, removal. Writing needs
`NtProtectVirtualMemory`, which is one of the two, and a policy may deny it.

**Composition.** `MCHost`, `MCHooking`, `MCCalls` and `MCThreads` are instances of several
modules: what the host learns (`PipeChannel`, `Startup`, `Watchdogs`), the hooks
inside the target (`IndirectHandles`, `ModuleHooks`, `HookedCalls`, `NativeHooks`),
what a hooked call reports (`HookQueue`, `ModuleCalls`, `WinsockHooks`), and the
threads that wait and wake there (`VehRing`, `AsyncPublisher`, `LaunchGate`). At the
level of their modules the parts share no state; a behaviour exercises one `part`
and leaves the others as they began, so a run visits the sum of their states. `VIEW
Active` keeps the resting parts out of the fingerprint. Between modules, one stands
for another as follows: `Startup` sees the gate and the pipe from outside,
`AsyncPublisher` hands batches to what `PipeChannel` does under `g_pipeLock`,
`HookQueue` feeds `AsyncPublisher`, the wrappers' callbacks are the calls of
`HookQueue`, and `ModuleCalls` leaves the call of the original to `ModuleHooks`.

## 3. Runs

| Run | Checks | Bounds, and why they are enough |
|---|---|---|
| `AsyncPublisher` | `TypeOK`, `NoOrphanWorker`, `PoolOutlivesUse`, `NodesPartitioned`, `ArrivalOrderKept` | two callbacks with two events each for a pool of three nodes: the pool runs dry, a batch of two fills up; three controller calls: start, stop with a timed-out join, start again with the old worker alive or gone |
| `Host` (`MCHost`) | `TypesOK`, `ImplementsDelivery`, `LostForGood`; `AnnouncedIsObserved`, `GuardedVerdictHonest`, `MaskConverges`; `HostIsUpToDate`, `StandingStatesAreTold` | pipe: a batch of two and its retries, four events, two control calls, so that reconnection is attempted after each failure; start-up: no counters, complete for the core ready mask; watchdogs: two hook controllers, both exports, three contents of memory of which two fit the snapshot, clocks saturated at the periods |
| `Calls` (`MCCalls`) | `TypesOK`, `EveryCallCountedOnce`, `BurstsCoalesced`, `LastEventFlushed`; `JumpComesBack`, `OriginalSurvives`; `ToldAsDue`, `ReportsNameTheCall` | queue: four calls for three places with a scan window of two, both kinds of eviction, saturation at two repeats, both flushers, a shutdown; Winsock: two threads, five functions that stand for the five shapes of wrapper, up to two buffers of one byte, two modules of which one is loaded later; wrappers: all functions singly, and the three families that share a ring with three calls on rings of two entries, so that a ring is overwritten and handle values come back |
| `Threads` (`MCThreads`) | `RingIntact`, `ReportedOnce`, `RingReports`; `AcceptedOnce`, `EventuallyHanded`; `GateIntact`, `OneInitializer`, `EveryThreadResumes` | ring: two raisers of two exceptions, one kind that is passed on and one that takes every other path of the handler, two nodes and two dispatch threads: the ring overflows, is stopped and started again with the old thread alive; publisher: a drain of at most one event over up to two pending ones, beside a live worker, a callback with two events and a shutdown: the drop of the rest is reached; gate: three threads, two pages, two slots, with and without a deferred open: slots run out, a third thread meets an initializer and a parked one |
| `LaunchGateWindow` | `HooksBeforeUserCode`, violated | two threads, one page |
| `VehDrain` | `DrainedWhenUnregistered`, violated | the same ring |
| `GuardedDetections` | `TypeOK`, `TableReadsSurvive`, `GuardReturns` | two threads, a page of the original export table, one of a copy that can be unloaded, a stub page, and a table of two ranges: any two kinds fill it; no counters, so the state space is complete |
| `GuardedDetectionsWindow` | `FollowUpsCaptured`, violated | one stub page, two threads |
| `Hooking` (`MCHooking`) | `TypesOK`, `TokenNamesItsPointer`; `JumpComesBack`, `OriginalSurvives`; `NestingEnds`, `DeniedOrTold`; `CallsGetThrough`, `ShutdownRestores` | handles: two registrants, two pointers, two slots, four registrations and a generation that wraps; modules: two threads, two loads, two trampolines, calls nested twice; native calls: every wrapper, one call at a time with everything it nests, room for five (of which four are used where `NestingEnds` says so), and rules for one function that allocates, one that protects and one that ends the process as well as for the queries, of which two want a trace or none does, and without the rule of `HookedCallsPrivate`, which has its own run; installation: two patch kinds, two threads, three turns of the loop |
| `HookedCallsPrivate` | `QueriesEnd`, violated | one call of the program, four hooked functions, five levels |
| `HookedCallsFlush` | `QueueLockedOnce`, violated | as above |
| `ModuleHooksLazy` | `LoaderRefreshes`, violated | two threads |

Symmetry is used where nothing orders the members of a set and no liveness is
checked: the pool nodes in `AsyncPublisher`, the program's threads and the servers
in `Calls`.

In `GuardedDetections` only one of the two threads calls hooked functions: it races
the event loop as a second registrant, while both threads raise faults.

Deadlock is checked except where the system may stop: in `VehDrain`,
`Hooking`, the two `HookedCalls` runs and `ModuleHooksLazy` calls are bounded and nobody
is obliged to make another one. In `Calls` only the wrappers may stop, and in `Threads` only the
ring: the queue, the publisher and the gate say themselves when they are done.

Every property is also checked against a mutant of the code it speaks of (a
missing reversal, a missing wait, a mask remembered before its answer, ...); the
mutants stand beside the definitions they replace, marked as such, and are used
by no specification.

### What the six violated runs show

1. `LaunchGateWindow`: between a guard fault and the re-arming of the page a second
   thread runs gated code, against "before user code gets a head start"
   (`README.md:13`).
2. `GuardedDetectionsWindow`: a stub page is guarded before the table of ranges
   knows it (`runtime.cpp:2576`), and stays guarded when the table is full; an
   access then reaches the program as an unexplained guard fault, against "capture
   follow-up reads/executes" (`Docs/DIAGNOSTICS.md:56`). Without the option no page
   is lost that way (`TableReadsSurvive`).
3. `VehDrain`: unregistering stops the ring's dispatch thread first; its last pass
   gives the pending nodes back without reporting them (`ix.cpp:84`), against "so
   the dispatcher can finish draining any queued telemetry events" (`ix.cpp:711`).
4. `ModuleHooksLazy`: while one thread is in a loader function with its hook
   lifted, a load by another thread is not seen, so the hooks are not refreshed
   "immediately" (`Docs/DIAGNOSTICS.md:61`) but on the next maintenance pass.
5. `HookedCallsPrivate`: the scope of the internal mark ends before the trace is
   classified (`policy.cpp:437-443`), and classifying queries memory. With
   `--ignore-private` and a rule for `NtQueryVirtualMemory` that query is judged with a
   trace of its own, and so on, against "Prevent BLIND housekeeping calls from recursively
   re-entering BLIND hooks" (`runtime_internal.h:31`).
6. `HookedCallsFlush`: the flush before the end of a process is not marked
   (`nt.cpp:1865`) and reserves the native queue's storage under the queue's lock
   (`controller.cpp:319-323`). If the heap asks the system for it, the callback of that
   call locks the same `std::mutex` on the same thread, against the same line.

The models also contain three disagreements no run is spent on: a
drain overtakes a dispatch thread that has claimed but not sent (`pipe.cpp:133`);
a callback waits for the lifecycle lock that `Shutdown` holds while it joins a
thread in pipe I/O (`pipe.cpp:680`), for 2.5 s at most; an unguarded suspended
launch is resumed after 15 s whether it is ready or not (`README.md:23`).

## 4. Fairness

Only threads inside a call, and threads that run a loop, are assumed fair:
Windows schedules a ready thread eventually, and every wait in the modelled code
has a timeout (50 ms, 60 ms, 750 ms, 2500 ms, 15 s), with two exceptions: a
parked thread waits for the gate without one, and is only promised to resume
because the initializer is; and with a deferred open it waits for an external
controller that nothing obliges, so `EveryThreadResumes` then speaks of threads
whose controller has opened. Nobody is obliged to call anything. In `Startup` the
boot thread runs, in `GuardedDetections` only the event loop (it iterates at least
every 60 ms), and a request that was written is read by a server that serves. In
the ring only the dispatch threads are fair: raisers and the controller may stop
anywhere. In `Watchdogs` the loop turns, and strong fairness says that the
publisher does not shed the same report for ever, that an export does not become
unreadable at every probe, and that a map scan succeeds now and then; without
that no watchdog could promise anything. `Hooking` and `Calls` state safety only.

## 5. Proofs

Eight modules hold the theorems. Where a component is checked as part of a
composition, its theorems are about the composition's specification too.

**`AsyncPublisherProofs`** proves about `AsyncPublisher`, for every set of threads,
every pool and every bound, from `ThreadsDisjoint` and `BoundsAreNatural`:

- `TypeCorrect`: `Spec => []TypeOK`, one lemma for each kind of thread, and one
  for each operator the threads share (`Claim`, `TakeOne`, `HandOver`,
  `ReleaseResources`). It includes that no batch outgrows its array.
- `Lifetime`: `Spec => []NoOrphanWorker`, and `NothingReleasedInUse`:
  `Spec => []PoolOutlivesUse`. Neither is inductive: that nobody inside the lock
  finds the pool gone needs that the exclusive holder excludes the shared ones
  (`LockExclusion`), and that the controller that joins has a thread to join and a
  pool to release needs `HandleKept` (pool and event exist together; a running or
  stopping publisher has both and a thread handle). `LifetimeInv` is the
  conjunction. The central case is `Initialize` after a join that timed out: the
  kept handle is the only thing that stops a second dispatch thread.
- `NodesStayPlaced`: `Spec => []NodesPartitioned`. The property counts; what is
  inductive is where a node can be (`Placed`: the free list, the pending list, one
  thread's hand) and that only a thread between a pop and a push, or between a claim
  and its last node, has nodes in hand (`HandsBusy`). `ReverseElements` says that the
  reversal of a claim moves no node in or out; the code's loop is its definition.
- `AcceptedEventsAccounted`: `Spec => []AcceptedOnce`. `EventInv` adds that an event
  is in one place (`Apart`), once there (`Single`), and that an event not yet
  accepted is nowhere (`Fresh`).
- `OrderKeptUntilDrain`: `Spec => [](NoDrainYet => ArrivalOrderKept)`. `Ordered`
  lines up what was handed over, the batch, the claim and the pending list. The
  condition is needed: a drain that claims after the dispatch thread has claimed, but
  before it sends, overtakes it. The run has no drainers and checks the conclusion.

**`MCThreadsProofs`** proves about `VehRing` and `MCThreads`, for every set of raisers and dispatch
threads, every size of the ring and every number of exceptions and registrations,
from `RaisersAreNoWorkers` and `RingBounds`:

- `NodesAccounted`: `Spec => []RingIntact`.
- `ReportsAccounted`: `Spec => []ReportedOnce`.

Both properties count occurrences. `RingInv` says where things can be: a node is in
one place at most, and a node of the present pool is in one (`NodesApart`,
`NodesKept`); an event is new until its raiser pushes it, then on the list, with one
dispatch thread, or reported, and in one of these only, or it was discarded
(`EventsNew`, `EventsApart`, `EventsKept`). Nodes of a ring that was given up keep
the number of their pool, which is how a thread that outlived its join is told from
the new ring. Counting then needs that a private list is no longer than the ring, so
that the count finds all of it: the pigeonhole principle (`ListFits`).

`ThreadsKeepNodes`, `ThreadsReportOnce`, `ThreadsAccountEvents`, `ThreadsOwnSlots` and
`ThreadsHaveOneOpener` say of `MCSpec`, from `PublisherCast` and `GateCast` in addition,
what is proved of the ring, of the publisher and of the gate alone: every step of the
composition is a step of one of them and leaves the others as they are (`RingAlone`,
`PublisherAlone`, `GateAlone`). For that `MCThreads` instantiates the modules with
the theorems about the publisher and the gate.

**`LaunchGateProofs`** proves about `LaunchGate`, for every finite set of threads and
every set of pages and slots, from `NullsAreNot` and `ThreadsAndPages`:

- `SlotsAreOwn`: `Spec => []GateIntact`.
- `OneThreadOpens`: `Spec => []OneInitializer`.

`GateInv` adds that faults are on listed pages, that a thread has a slot exactly
from its redirection until it resumes (`SlotHeld`), that the first thread to be
staged is the only one to initialise and works on until the gate is open
(`FirstInitializes`), and that nobody gets past the gate's waits before the runtime
is there (`WaitsHold`).

**`GuardedDetectionsProofs`** proves about `GuardedDetections`, for every set of
threads and pages and every size of the table, from `PagesDistinct`,
`HookedAreTargets` and `RangeMaxPositive`:

- `OneRangePerPage`: `Spec => []TypeOK`, of which the content is that a page never
  has two ranges although the table is looked at and filled under different holds of
  its lock.
- `TableReadsExplained`: `Spec => []TableReadsSurvive`. It is proved without the
  fairness of `Spec`. `GuardInv` has the hazard in three parts: memory is not freed
  under a thread that is about to guard or to read it (`NoneUnderAccess`), what is
  guarded has a range, is about to be given one, or is a stub page
  (`GuardsExplained`), and a stub page is guarded only when the policy asked for it
  (`StubsOnRequest`). An unexplained fault is thereby one on a stub page: the one
  `GuardedDetectionsWindow` shows.

**`MCHostProofs`** proves about `PipeChannel`, `Startup` and `Watchdogs`, and about their
composition. For every number of events and every size of a batch, from
`BoundsAreNatural`:

- `PipeTypes`: `Spec => []TypeOK`.
- `DeliversInOrder`: `Spec => ImplementsDelivery`, the refinement of
  `EventDelivery`. `StepDelivers` maps each of the client's and the server's steps
  to an abstract step or a stutter: `Submit` hands over, the server's dispatch
  consumes, a transaction that succeeded confirms.
- `OneConnection`: `Spec => LostForGood`.

The invariant is `PipeInv`. That the host's next batch comes after all it has
consumed (`InOrder`) needs that only one request is on its way (`OneAtATime`),
which holds because a failed transaction closes the handle, and because the
bundled host serves no second one (`OneHandle`). That success is only reported for
consumed events needs the same of the answers (`Answered`).

For every set of groups, and without an assumption:

- `AnnouncementsArrive`: what was announced last is what the host observed
  (`AnnouncedIsObserved`).
- `GuardedRunsAreGuarded`: `GuardedVerdictHonest`.

A mask is remembered with the answer to it; to know that the answer is to that
mask, `StartInv` keeps the one request on the open connection to the boot thread's
place (`OwnRequest`), and to know that the mask was true, that groups are only
added and the launch groups are in from the first publication on (`BootOnce`).

For every set of controllers, exports and contents and every period, from
`ExportsAreExports` (a hypothesis of the theorem):

- `NoChangeUntold`: what the host was told last is what was found last, unless that
  event was shed. `ToldInv` is the property with the domains of the two records; the
  content of the proof is that a poll that does not publish has found what was found
  last, restored hooks included.

For the composition, from `Periods` and `FlagsAreKnown`: `HostTypes`, `HostDelivers`,
`HostAnnounces`, `HostVerdicts` and `HostIsTold` say the same of `MCSpec`, because a
step of the host is a step of one component and a stutter of the others
(`PipeAlone`, `StartAlone`, `DogsAlone`). For that `MCHost` instantiates `Startup`.

**`ModuleHooksProofs`** has the inductive invariant of `ModuleHooks`, for every set of
threads, importers and patch methods and every bound, from two hypotheses: the
controller's thread loads no modules, and bounds are numbers. `HooksInv` is layered
the way the promises of the code are:

- always: types (`RecordTypes`, `FlowTypes`), which stack of calls a thread has at
  which place (`Levels`), and that bytes are saved before a jump is written
  (`Copied`);
- as long as no two threads have installed or removed at once (`~overlap`; the code
  takes no lock): nobody is in a hooked call during a removal (`Quiet`), an inline
  installation is alone and finds the function's own bytes (`InstallingAlone`), and
  therefore a trampoline holds these (`OriginalIsCallable`);
- as long as, besides, no protection was refused (`Undisturbed`): every jump and
  import that is changed is on record (`OnRecord`), a removal gets to all of them
  (`Removal`), and a jump that is missing is missing because a thread has lifted it
  and will put it back, or because it is being removed (`Lifted`).

`Lifted` is the central one: several threads lift the same jump, each remembers only
its own lift, and the first to return writes the jump back under the others.

**`MCHookingProofs`** proves about the composition `MCHooking`, from the assumptions of
that module and of `IndirectHandles`:

- `LiftedJumpsComeBack`, `OriginalsSurvive`: `MCSpec => []JumpComesBack` and
  `[]OriginalSurvives`, from `HooksInv`.
- `TokensKeepTheirPointer`, `CookieBeforeTokens`, and `HookingTokens` for the
  composition, for every set of callers and pointers and every table, from
  `TableBounds` and `GenerationsSuffice`. A token would name another pointer if its
  slot were given out again in the same generation. `Aging` excludes it: the age of
  the counter, counted from its first value across the wrap, grows with every
  registration and is bounded by the calls that were begun. `GenerationsSuffice`
  (fewer calls than generations) is therefore a real limit of the code and not only
  of the model: after 2^32 registrations and resets a generation returns.
- `NativeCallsGetThrough`, `NativeShutdownRestores`: `MCSpec => []CallsGetThrough`
  and `[]ShutdownRestores`, for every set of functions and every order in which the
  walks come to them (`WalkOrder`), every mix of jumps and breakpoints and every
  number of slots. `NativeInv`: installation and removal exclude each other
  (`OneAtATime`); a removal comes to every patched function (`RemovalReaches`);
  whoever gets past a patch finds a stub (`StubsFirst`); and, unless a protection was
  refused, the first bytes of a function are those its hook's state says
  (`TextKnown`), a slot belongs to a breakpoint that is there or is being filled or
  given back (`SlotsHeld`, `ClaimedOnce`), and a breakpoint has its slot
  (`BreaksServed`).
- `CallsDeniedOrTold`: `MCSpec => []DeniedOrTold`, for every set of threads, hooked
  and ruled functions and every depth of calls within calls, from `CallsKnown`.
  `CallsInv`: a thread's counter is the number of its calls at which BLIND works for
  itself (`MarksCounted`), and each call has done by its point what its wrapper
  does up to there, told nobody while inside BLIND's own work included (`EachFits`).
- `WrappersEnd`: `MCSpec => []NestingEnds`, however deep the model would let calls
  nest (`NestMax`): four calls at most, unless private callers are ignored and a rule
  names the memory query, and then there is no bound (`HookedCallsPrivate`). Beside `CallsInv` it needs `Chained`, as long as
  that condition holds (`Short`): every call below the first was begun by BLIND itself
  (`Own`: one of the four functions it calls, about this process; only the second of a chain
  and memory queries may make calls of their own outside the mark, and those calls are
  memory queries only), and the fourth call of a chain is inside the mark, where nothing is judged, traced or
  published (`Chain`). The longest chains are the end of a process, the allocation of its
  flush, the query of the scan of that allocation, and what the trace or the callback of
  the query calls.
- `HookingTypes`: `MCSpec => []TypesOK` of all four.

**`MCCallsProofs`** proves the eight invariants of `MCCalls`, for every set of threads,
keys, functions, modules, handles and packages, every length of the queue and of the
rings and every bound on calls, from the assumptions of `MCCalls` (`KeysClassified`,
`LimitsArePositive`, `ThreadsDistinct`, `SocketsBounded`, `FamiliesShareARing`,
`FunctionsKnown`) and of `ModuleCalls` (`RingsHold`). A step is one of one part
and a stutter of the others (`QueueAlone`, `WinsockAlone`, `WrappersAlone`).

- `CallsCounted`: `MCSpec => []EveryCallCountedOnce`, `BurstsStayCoalesced`:
  `[]BurstsCoalesced`, and `LastEventIsFlushed`: `[]LastEventFlushed`, from `QueueInv`.
  Its parts are the types; that there is room for those about to record (`Booked`);
  that the newest events, as many as a recorder looks through, are pairwise different
  and once a terminator has taken the queue only younger events follow (`QueueOrder`); and the
  count itself (`Counting`): what was recorded is what is in the queue, in a flusher's
  hands, reported and forgotten together. The count is of repeats, and so it is proved
  with lemmas about sums: of a queue that is appended to, shortened at its head or
  changed in one place (`CountAppended`, `CountOfTail`, `CountReplaced`), and of
  a total over threads of which one changes (`TotalChanges`). A displaced event is
  the case that decides `BurstsCoalesced`: it must not land where it brings two equal
  events into the scan window.
- `JumpAlwaysComesBack`: `MCSpec => []JumpComesBack`, and `OriginalAlwaysSurvives`:
  `[]OriginalSurvives`, from `SockInv`. Until a hook comes or goes under a running call,
  `Calm` holds: the jump and the copy of the function's first bytes are known, a lifted
  jump has a thread that will put it back unless a protection was refused
  (`JumpIsBack`), one thread at a time writes, while no call runs (`OneWrites`), and what is
  remembered of an import is the export, never a hook (`TablesKnown`). `MarkUp` says who
  raised the process's mark, and holds also afterwards.
- `CallsToldAsDue`: `MCSpec => []ToldAsDue`. For `WinsockHooks`, `Seen` says at each place
  of a call during which nothing else happens what it has told by then: before the call
  what its buffers hold, after it what was received, to the byte, although the
  bytes are spread over several buffers (`FilledAddsUp`). For `ModuleCalls`, `Framed`
  gives each thread its stack of at most a call and a callback, and each call
  what it has told by its place (`ToldFits`).
- `ReportsAlwaysNameTheCall`: `MCSpec => []ReportsNameTheCall`. For the ring of packages a
  package is stored under its own name (`RingPackages`). The ring of handles changes
  between a thread's look-up and its store, and a handle's value returns; what is
  inductive is `HttpInv`: as long as the ring is not overwritten, every usable
  handle has an entry (`HttpRings`), an entry tells of the handle's object if the value was
  given out once, and what a thread took from the ring is still true of its own
  connection when it stores or reports it (`HttpCalls`); two threads never hold the same
  new handle.
- `CallsTyped`: `MCSpec => []TypesOK` of all three.

All inductive invariants were checked by TLC before they were proved.

Every invariant and every action property of the passing runs is thereby a theorem but
one, `ArrivalOrderKept`, which is one under the condition `NoDrainYet` and false without.
Model-checked only are the liveness properties (`EventuallyHanded`, `MaskConverges`,
`StandingStatesAreTold`, `EveryThreadResumes`, `RingReports`,
`GuardReturns`) and the six violations: liveness and `ENABLED` are out of the
prover's reach. So are the library's induction theorems, whose parameter is an
operator. Where an induction over numbers was needed, for the sums of
`EveryCallCountedOnce`, `MCCallsProofs` derives one with a set in place of the predicate from the
well-foundedness of `<` (`Smallest`, `Induction`).

## 6. Not modelled

- `PublishHookEventSynchronously` (uses only `g_pipeLock`), `WriteRaw` and
  `ReadRaw` (no callers).
- `LaunchGateShutdown`, and the question which code lies on an armed page.
- `ClearGuardedDetections` (unload), and page protections other than `PAGE_GUARD`:
  a range writes the protection it remembers back over one the program has set.
- The contents of events, packets, masks of registers, stack traces, symbol names.
- Allocation failures inside the queues.
- The cache of socket endpoints (`ws.cpp:77-117`), and what happens in `ws.cpp` once
  a hook comes or goes under a running call: removal then writes the
  trampoline's address into imports it does not remember, and frees it.
- In `ModuleCalls`, one `secure` stands both for what `connect` stores (the code takes
  port 443, `http_tls.cpp:61`) and for what it reports (the caller's hint too); no property
  tells them apart.
- What the properties of the hooks leave out although the models contain it: a refused
  protection at removal (`refused`, hazard at `runtime.cpp:3673`), a shutdown that does not
  see a start under way (`controller.cpp:480`), two simultaneous installations of module
  hooks (`overlap`, `module.cpp:135`), a breakpoint whose slot is cleared under a thread that
  has met it (`unlucky`, `nt_int3.cpp:104`). No document promises anything there.
- The integrity checks' own false alarms: a poll that meets a jump lifted by BLIND
  reports it (hazard at `integrity.cpp:1030`); that it does so is promised nowhere.
- How the host builds a policy and the DLL parses it; `HookedCalls` begins with the
  rule that was found. Arguments of hooked calls other than handles.
- `pic.cpp` (compiled out), control-flow-guard registration, stack traces, the
  manual mapper, the host's telemetry, diagnostics and console output;
  `PROJECT.json` (`components`) gives the reason for each.

## 7. Plan

Done: the modules above, and the theorems of section 5.

Next modules, in this order:
1. `ProcessExit`: `NtTerminateProcess` over queue, publisher and pipe lock, with
   the first call of a process exit killing every other thread.
2. `HookPolicy`: both sides' reading of one policy, as operators compared over all
   small policies.
3. `RepeatFolding`, `ProcessCache`: the host's folding and caches, with the
   encoding of repeat counts.
4. `Mapper`: the mapping pipeline and the debugger pause.

Next theorems: those of the next modules. Of the modules above, what remains is
what the prover cannot state, and that `HookQueue` hands `AsyncPublisher` what the
latter's callers submit, as a refinement between the two.
