--------------------------- MODULE AsyncPublisher ---------------------------
(***************************************************************************)
(* The asynchronous event publisher of BLIND.dll (src/DLL/ipc/pipe.cpp).   *)
(*                                                                         *)
(* Hook callbacks (Producer) must not block on pipe I/O: they copy their   *)
(* event into a node of a fixed pool and push it on a lock-free pending    *)
(* list.  One dispatch thread (Worker) claims the whole list, turns it     *)
(* around, and hands it to the pipe in batches.  The NtTerminateProcess    *)
(* hook (Drainer) claims the list itself so that the last events leave     *)
(* before the process does.  Initialize and Shutdown (Controller) create   *)
(* and release the pool, the wake-up event and the dispatch thread.        *)
(*                                                                         *)
(* g_asyncLifecycleLock is a reader/writer lock: Initialize and Shutdown   *)
(* take it exclusively, publishers and drainers shared, the dispatch       *)
(* thread not at all.  g_pipeLock serialises pipe I/O.  Who holds either   *)
(* lock follows from the program counters, so neither is a variable.       *)
(* What happens to a batch once it holds g_pipeLock is PipeChannel's       *)
(* business; here it is appended to handed.                                *)
(***************************************************************************)
EXTENDS Naturals, FiniteSets, Functions, SequencesExt

CONSTANTS Producer,     \* threads that run hook callbacks
          Drainer,      \* threads that run NtTerminateProcess_Hook
          Controller,   \* threads that run Initialize and Shutdown
          Worker,       \* thread objects CreateThread may return
          Node,         \* the pool's nodes (kAsyncPoolSize of them)
          BatchMax,     \* IXIPC_MAX_HOOK_EVENT_BATCH
          DrainMax,     \* maxEvents of the drain call
          MaxEvents,    \* bound: events each producer publishes
          MaxCalls,     \* bound: calls each controller and drainer makes
          NoThread,     \* the null thread handle
          NoEvent       \* the zeroed Event field of a fresh node

Thread == Producer \cup Drainer \cup Controller \cup Worker

ASSUME ThreadsDisjoint ==
  /\ Producer \cap (Drainer \cup Controller \cup Worker) = {}
  /\ Drainer \cap (Controller \cup Worker) = {}
  /\ Controller \cap Worker = {}
  /\ NoThread \notin Thread

ASSUME BoundsAreNatural ==
  /\ BatchMax \in Nat \ {0} /\ DrainMax \in Nat \ {0}
  /\ MaxEvents \in Nat      /\ MaxCalls \in Nat

\* An event is named by the thread that published it and its number there.
Event == Producer \X Nat

VARIABLES
  running,     \* g_asyncRunning
  signal,      \* g_asyncSignal: "null", or an auto-reset event
  pool,        \* is g_asyncNodePool allocated
  free,        \* g_asyncFreeList (the order of free nodes is immaterial)
  pending,     \* g_asyncPendingList, head first
  event,       \* the Event field of each node
  thread,      \* g_asyncThread: the handle the module keeps
  pc,          \* where each thread is
  hand,        \* the nodes a thread holds a private pointer to
  batch,       \* the stack copy of events a dispatching thread will send
  dispatched,  \* the dispatched counter of a drain call
  calls,       \* calls made so far (events published, for a producer)
  arrivals,    \* history: events in the order they were pushed
  handed,      \* history: events in the order they reached the pipe
  lost         \* history: accepted events that were shed or abandoned

life == <<running, signal, pool, thread>>
vars == <<running, signal, pool, free, pending, event, thread, pc, hand, batch,
          dispatched, calls, arrivals, handed, lost>>

LiveWorkerStates == {"top", "wait", "claim", "take", "full", "send"}
\* A drainer holds the lifecycle lock shared between its claim and its return.
DrainStates      == {"drainTake", "drainFull", "drainSend"}
SharedStates     == {"push", "set"} \cup DrainStates
States == {"idle", "calling", "joining", "openWait", "opening", "closing",
           "faulted", "absent", "exited"} \cup LiveWorkerStates \cup SharedStates

Live(w)       == pc[w] \in LiveWorkerStates
SharedHeld    == \E t \in Producer \cup Drainer : pc[t] \in SharedStates
ExclusiveHeld == \E c \in Controller : pc[c] = "joining"
PipeHeld      == \E t \in Thread : pc[t] \in {"send", "drainSend", "opening"}

EventsOf(nodes) == {event[n] : n \in ToSet(nodes)}

Init ==
  /\ running = FALSE /\ signal = "null" /\ pool = FALSE /\ thread = NoThread
  /\ free = {} /\ pending = <<>>
  /\ event = [n \in Node |-> NoEvent]
  /\ pc = [t \in Thread |-> IF t \in Worker THEN "absent" ELSE "idle"]
  /\ hand = [t \in Thread |-> <<>>]
  /\ batch = [t \in Thread |-> <<>>]
  /\ dispatched = [d \in Drainer |-> 0]
  /\ calls = [t \in Thread |-> 0]
  /\ arrivals = <<>> /\ handed = <<>> /\ lost = {}

-----------------------------------------------------------------------------
(* PublishHookEvent: shed the event when the publisher is stopped or the   *)
(* pool is empty, otherwise queue it and wake the dispatch thread.         *)

\* A hook callback enters PublishHookEvent with its next event.
PublishCall(p) ==
  /\ pc[p] = "idle" /\ calls[p] < MaxEvents
  /\ calls' = [calls EXCEPT ![p] = @ + 1]
  /\ pc' = [pc EXCEPT ![p] = "calling"]
  /\ UNCHANGED <<life, free, pending, event, hand, batch, dispatched,
                 arrivals, handed, lost>>

\* The shared lock is held from here on; running and signal cannot change.
PublishPop(p) ==
  /\ pc[p] = "calling" /\ ~ExclusiveHeld
  /\ running /\ signal # "null"
  /\ \E n \in free :
        /\ free' = free \ {n}
        /\ hand' = [hand EXCEPT ![p] = <<n>>]
  /\ pc' = [pc EXCEPT ![p] = "push"]
  /\ UNCHANGED <<life, pending, event, batch, dispatched, calls,
                 arrivals, handed, lost>>

PublishShed(p) ==
  /\ pc[p] = "calling" /\ ~ExclusiveHeld
  /\ ~running \/ signal = "null" \/ free = {}
  /\ pc' = [pc EXCEPT ![p] = "idle"]
  /\ UNCHANGED <<life, free, pending, event, hand, batch, dispatched, calls,
                 arrivals, handed, lost>>

PublishPush(p) ==
  /\ pc[p] = "push"
  /\ event' = [event EXCEPT ![Head(hand[p])] = <<p, calls[p]>>]
  /\ pending' = hand[p] \o pending
  /\ hand' = [hand EXCEPT ![p] = <<>>]
  /\ arrivals' = Append(arrivals, <<p, calls[p]>>)
  /\ pc' = [pc EXCEPT ![p] = "set"]
  /\ UNCHANGED <<life, free, batch, dispatched, calls, handed, lost>>

PublishSetEvent(p) ==
  /\ pc[p] = "set"
  /\ signal' = "set"
  /\ pc' = [pc EXCEPT ![p] = "idle"]
  /\ UNCHANGED <<running, pool, thread, free, pending, event, hand, batch,
                 dispatched, calls, arrivals, handed, lost>>

-----------------------------------------------------------------------------
(* Claiming the pending list and refilling the free list, as both the      *)
(* dispatch thread and the drain do it.                                    *)

\* InterlockedFlushSList, then the reversal that restores arrival order.
\* mutants of Claim: forget the reversal, or leave the list linked
ClaimUnreversed(t) ==
  /\ hand' = [hand EXCEPT ![t] = pending]
  /\ pending' = <<>>

ClaimWithoutFlush(t) ==
  /\ hand' = [hand EXCEPT ![t] = Reverse(pending)]
  /\ pending' = pending

Claim(t) ==
  /\ hand' = [hand EXCEPT ![t] = Reverse(pending)]
  /\ pending' = <<>>

\* Copy one event out of its node, and return the node before sending.
\* mutants of TakeOne: keep the node, or copy one event too many
TakeOneLeaking(t) ==
  /\ hand[t] # <<>> /\ Len(batch[t]) < BatchMax
  /\ batch' = [batch EXCEPT ![t] = Append(@, event[Head(hand[t])])]
  /\ hand' = [hand EXCEPT ![t] = Tail(@)]
  /\ free' = free

TakeOneOverfull(t) ==
  /\ hand[t] # <<>> /\ Len(batch[t]) <= BatchMax
  /\ batch' = [batch EXCEPT ![t] = Append(@, event[Head(hand[t])])]
  /\ free' = free \cup {Head(hand[t])}
  /\ hand' = [hand EXCEPT ![t] = Tail(@)]

TakeOne(t) ==
  /\ hand[t] # <<>> /\ Len(batch[t]) < BatchMax
  /\ batch' = [batch EXCEPT ![t] = Append(@, event[Head(hand[t])])]
  /\ free' = free \cup {Head(hand[t])}
  /\ hand' = [hand EXCEPT ![t] = Tail(@)]

\* PublishHookEventBatchLocked takes the batch; the stack copy is gone.
HandOver(t) ==
  /\ handed' = handed \o batch[t]
  /\ batch' = [batch EXCEPT ![t] = <<>>]

-----------------------------------------------------------------------------
(* AsyncDispatchThread.                                                    *)

WorkerTop(w) ==
  /\ pc[w] = "top"
  /\ pc' = [pc EXCEPT ![w] = IF running THEN "wait" ELSE "exited"]
  /\ UNCHANGED <<life, free, pending, event, hand, batch, dispatched, calls,
                 arrivals, handed, lost>>

\* Woken by the event (which resets it) or by the 50 ms timeout.
WorkerWait(w) ==
  /\ pc[w] = "wait"
  /\ signal' = IF signal = "set" THEN "clear" ELSE signal
  /\ pc' = [pc EXCEPT ![w] = "claim"]
  /\ UNCHANGED <<running, pool, thread, free, pending, event, hand, batch,
                 dispatched, calls, arrivals, handed, lost>>

WorkerClaim(w) ==
  /\ pc[w] = "claim"
  /\ Claim(w)
  /\ pc' = [pc EXCEPT ![w] = IF pending = <<>> THEN "top" ELSE "take"]
  /\ UNCHANGED <<life, free, event, batch, dispatched, calls, arrivals,
                 handed, lost>>

WorkerTake(w) ==
  /\ pc[w] = "take"
  /\ \/ TakeOne(w) /\ pc' = pc
     \/ /\ hand[w] = <<>> \/ Len(batch[w]) = BatchMax
        /\ pc' = [pc EXCEPT ![w] = "full"]
        /\ UNCHANGED <<hand, batch, free>>
  /\ UNCHANGED <<life, pending, event, dispatched, calls, arrivals, handed,
                 lost>>

WorkerLockPipe(w) ==
  /\ pc[w] = "full" /\ ~PipeHeld
  /\ pc' = [pc EXCEPT ![w] = "send"]
  /\ HandOver(w)
  /\ UNCHANGED <<life, free, pending, event, hand, dispatched, calls,
                 arrivals, lost>>

\* mutant of WorkerSent: one batch per claim
WorkerSentOnce(w) ==
  /\ pc[w] = "send"
  /\ pc' = [pc EXCEPT ![w] = "top"]
  /\ UNCHANGED <<life, free, pending, event, hand, batch, dispatched, calls,
                 arrivals, handed, lost>>

WorkerSent(w) ==
  /\ pc[w] = "send"
  /\ pc' = [pc EXCEPT ![w] = IF hand[w] = <<>> THEN "top" ELSE "take"]
  /\ UNCHANGED <<life, free, pending, event, hand, batch, dispatched, calls,
                 arrivals, handed, lost>>

-----------------------------------------------------------------------------
(* DrainPendingHookEventsSynchronously: it checks neither running nor the  *)
(* pool, so that after Shutdown it walks whatever the list still links.    *)

\* Reading a node of a released pool is an access violation on this thread.
DrainClaim(d) ==
  /\ pc[d] = "idle" /\ calls[d] < MaxCalls /\ ~ExclusiveHeld
  /\ calls' = [calls EXCEPT ![d] = @ + 1]
  /\ dispatched' = [dispatched EXCEPT ![d] = 0]
  /\ Claim(d)
  /\ pc' = [pc EXCEPT ![d] = IF pending = <<>> THEN "idle"
                             ELSE IF pool THEN "drainTake" ELSE "faulted"]
  /\ UNCHANGED <<life, free, event, batch, arrivals, handed, lost>>

DrainRoom(d) == dispatched[d] + Len(batch[d]) < DrainMax

DrainTake(d) ==
  /\ pc[d] = "drainTake" /\ DrainRoom(d)
  /\ TakeOne(d)
  /\ UNCHANGED <<life, pending, event, pc, dispatched, calls, arrivals,
                 handed, lost>>

DrainFull(d) ==
  /\ pc[d] = "drainTake" /\ batch[d] # <<>>
  /\ hand[d] = <<>> \/ Len(batch[d]) = BatchMax \/ ~DrainRoom(d)
  /\ pc' = [pc EXCEPT ![d] = "drainFull"]
  /\ UNCHANGED <<life, free, pending, event, hand, batch, dispatched, calls,
                 arrivals, handed, lost>>

DrainLockPipe(d) ==
  /\ pc[d] = "drainFull" /\ ~PipeHeld
  /\ pc' = [pc EXCEPT ![d] = "drainSend"]
  /\ dispatched' = [dispatched EXCEPT ![d] = @ + Len(batch[d])]
  /\ HandOver(d)
  /\ UNCHANGED <<life, free, pending, event, hand, calls, arrivals, lost>>

\* mutant of DrainSent: the rest is dropped, nodes and all
\* Past maxEvents the rest is counted as dropped and its nodes are returned.
DrainSentLosing(d) ==
  LET over == dispatched[d] >= DrainMax
      done == over \/ hand[d] = <<>>
  IN /\ pc[d] = "drainSend"
     /\ free' = free
     /\ lost' = lost
     /\ hand' = IF over THEN [hand EXCEPT ![d] = <<>>] ELSE hand
     /\ pc' = [pc EXCEPT ![d] = IF done THEN "idle" ELSE "drainTake"]
     /\ UNCHANGED <<life, pending, event, batch, dispatched, calls, arrivals,
                    handed>>

DrainSent(d) ==
  LET over == dispatched[d] >= DrainMax
      done == over \/ hand[d] = <<>>
  IN /\ pc[d] = "drainSend"
     /\ free' = IF over THEN free \cup ToSet(hand[d]) ELSE free
     /\ lost' = IF over THEN lost \cup EventsOf(hand[d]) ELSE lost
     /\ hand' = IF over THEN [hand EXCEPT ![d] = <<>>] ELSE hand
     /\ pc' = [pc EXCEPT ![d] = IF done THEN "idle" ELSE "drainTake"]
     /\ UNCHANGED <<life, pending, event, batch, dispatched, calls, arrivals,
                    handed>>

-----------------------------------------------------------------------------
(* Initialize and Shutdown.                                                *)

BeginCall(c) ==
  /\ pc[c] = "idle" /\ calls[c] < MaxCalls
  /\ ~ExclusiveHeld /\ ~SharedHeld
  /\ calls' = [calls EXCEPT ![c] = @ + 1]

\* AsyncThreadStoppedLocked: no handle, or the handle of a thread that ended.
\* mutant of ThreadStopped: ask nobody
ThreadStoppedUnchecked == TRUE

ThreadStopped == thread # NoThread => pc[thread] = "exited"

\* ReleaseAsyncResourcesLocked: neither list header is cleared.
ReleaseResources ==
  /\ signal' = "null" /\ pool' = FALSE
  /\ lost' = IF pool THEN lost \cup EventsOf(pending) ELSE lost

\* A second Initialize of a running publisher only reopens the pipe.
InitializeAgain(c) ==
  /\ BeginCall(c) /\ running
  /\ pc' = [pc EXCEPT ![c] = "openWait"]
  /\ UNCHANGED <<life, free, pending, event, hand, batch, dispatched, arrivals,
                 handed, lost>>

\* The previous dispatch thread is still working off its claim: ERROR_BUSY.
InitializeBusy(c) ==
  /\ BeginCall(c) /\ ~running /\ ~ThreadStopped
  /\ UNCHANGED <<life, free, pending, event, pc, hand, batch, dispatched,
                 arrivals, handed, lost>>

\* The pool, the event or the thread may not be had: nothing is kept.
InitializeFailed(c) ==
  /\ BeginCall(c) /\ ~running /\ ThreadStopped
  /\ ReleaseResources
  /\ free' \in {{}, Node} /\ pending' = <<>>
  /\ thread' = NoThread
  /\ UNCHANGED <<running, event, pc, hand, batch, dispatched, arrivals, handed>>

\* Fresh lists over a fresh pool; what the old lists still linked is gone.
InitializeStarts(c) ==
  /\ BeginCall(c) /\ ~running /\ ThreadStopped
  /\ lost' = IF pool THEN lost \cup EventsOf(pending) ELSE lost
  /\ running' = TRUE /\ signal' = "clear" /\ pool' = TRUE
  /\ free' = Node /\ pending' = <<>>
  /\ \E w \in Worker :
        /\ pc[w] = "absent"
        /\ thread' = w
        /\ pc' = [pc EXCEPT ![c] = "openWait", ![w] = "top"]
  /\ UNCHANGED <<event, hand, batch, dispatched, arrivals, handed>>

\* EnsurePipeOpenLocked and EnsureHandshakeLocked under g_pipeLock.
InitializeOpenPipe(c) ==
  /\ \/ pc[c] = "openWait" /\ ~PipeHeld /\ pc' = [pc EXCEPT ![c] = "opening"]
     \/ pc[c] = "opening" /\ pc' = [pc EXCEPT ![c] = "idle"]
  /\ UNCHANGED <<life, free, pending, event, hand, batch, dispatched, calls,
                 arrivals, handed, lost>>

\* Stop the dispatch thread and wait for it with the lifecycle lock held.
ShutdownStop(c) ==
  /\ BeginCall(c) /\ running
  /\ running' = FALSE /\ signal' = "set"
  /\ pc' = [pc EXCEPT ![c] = "joining"]
  /\ UNCHANGED <<pool, thread, free, pending, event, hand, batch, dispatched,
                 arrivals, handed, lost>>

ShutdownJoined(c) ==
  /\ pc[c] = "joining" /\ pc[thread] = "exited"
  /\ thread' = NoThread
  /\ ReleaseResources
  /\ pc' = [pc EXCEPT ![c] = "closing"]
  /\ UNCHANGED <<running, free, pending, event, hand, batch, dispatched, calls,
                 arrivals, handed>>

\* mutant of ShutdownTimedOut: release although the thread did not stop
ShutdownReleasesAnyway(c) ==
  /\ pc[c] = "joining" /\ pc[thread] # "exited"
  /\ ReleaseResources
  /\ pc' = [pc EXCEPT ![c] = "closing"]
  /\ UNCHANGED <<running, thread, free, pending, event, hand, batch, dispatched,
                 calls, arrivals, handed>>

\* 2500 ms passed: the handle is kept and the release deferred.
ShutdownTimedOut(c) ==
  /\ pc[c] = "joining" /\ pc[thread] # "exited"
  /\ pc' = [pc EXCEPT ![c] = "closing"]
  /\ UNCHANGED <<life, free, pending, event, hand, batch, dispatched, calls,
                 arrivals, handed, lost>>

\* Shutdown of a publisher that is not running: release if the thread ended.
ShutdownStopped(c) ==
  /\ BeginCall(c) /\ ~running
  /\ IF ThreadStopped
     THEN thread' = NoThread /\ ReleaseResources
     ELSE UNCHANGED <<thread, signal, pool, lost>>
  /\ pc' = [pc EXCEPT ![c] = "closing"]
  /\ UNCHANGED <<running, free, pending, event, hand, batch, dispatched,
                 arrivals, handed>>

\* TryAcquire g_pipeLock: close the handle, or leave it when I/O is running.
ShutdownClosePipe(c) ==
  /\ pc[c] = "closing"
  /\ pc' = [pc EXCEPT ![c] = "idle"]
  /\ UNCHANGED <<life, free, pending, event, hand, batch, dispatched, calls,
                 arrivals, handed, lost>>

-----------------------------------------------------------------------------
ProducerStep(p) ==
  PublishPop(p) \/ PublishShed(p) \/ PublishPush(p) \/ PublishSetEvent(p)

WorkerStep(w) ==
  \/ WorkerTop(w) \/ WorkerWait(w) \/ WorkerClaim(w) \/ WorkerTake(w)
  \/ WorkerLockPipe(w) \/ WorkerSent(w)

DrainStep(d) == DrainTake(d) \/ DrainFull(d) \/ DrainLockPipe(d) \/ DrainSent(d)

ControllerCall(c) ==
  \/ InitializeAgain(c) \/ InitializeBusy(c) \/ InitializeFailed(c)
  \/ InitializeStarts(c) \/ ShutdownStop(c) \/ ShutdownStopped(c)

ControllerStep(c) ==
  \/ InitializeOpenPipe(c) \/ ShutdownJoined(c) \/ ShutdownTimedOut(c)
  \/ ShutdownClosePipe(c)

\* An access violation in a drainer ends the process.
ProcessEnded == \E d \in Drainer : pc[d] = "faulted"

\* Nobody has to call: with no call under way and no dispatch thread, nothing
\* need happen.
Rest ==
  /\ ProcessEnded \/ \A t \in Thread : pc[t] \in {"idle", "absent", "exited"}
  /\ UNCHANGED vars

ThreadStep ==
  /\ ~ProcessEnded
  /\ \/ \E p \in Producer : PublishCall(p) \/ ProducerStep(p)
     \/ \E w \in Worker : WorkerStep(w)
     \/ \E d \in Drainer : DrainClaim(d) \/ DrainStep(d)
     \/ \E c \in Controller : ControllerCall(c) \/ ControllerStep(c)

Next == ThreadStep \/ Rest

Spec == Init /\ [][Next]_vars

\* Windows schedules every ready thread, and every wait inside a call is
\* bounded (50 ms, 2500 ms, the pipe timeouts).  Making a call is a choice.
FairSpec ==
  /\ Spec
  /\ \A p \in Producer : WF_vars(ProducerStep(p))
  /\ \A w \in Worker : WF_vars(WorkerStep(w))
  /\ \A d \in Drainer : WF_vars(DrainStep(d))
  /\ \A c \in Controller : WF_vars(ControllerStep(c))

-----------------------------------------------------------------------------
(* Properties.                                                             *)

\* What fits the batch array on the stack of a dispatching thread.
Batch == {b \in Seq(Event \cup {NoEvent}) : Len(b) <= BatchMax}

\* Every kind of thread has program points of its own.
PcOK ==
  /\ pc \in [Thread -> States]
  /\ \A p \in Producer : pc[p] \in {"idle", "calling", "push", "set"}
  /\ \A d \in Drainer : pc[d] \in {"idle", "faulted"} \cup DrainStates
  /\ \A w \in Worker : pc[w] \in {"absent", "exited"} \cup LiveWorkerStates
  /\ \A c \in Controller :
       pc[c] \in {"idle", "joining", "openWait", "opening", "closing"}

\* Every variable has its type, and no batch overflows its array.
TypeOK ==
  /\ running \in BOOLEAN /\ pool \in BOOLEAN
  /\ signal \in {"null", "clear", "set"}
  /\ thread \in Worker \cup {NoThread}
  /\ free \in SUBSET Node /\ pending \in Seq(Node)
  /\ event \in [Node -> Event \cup {NoEvent}]
  /\ PcOK
  /\ hand \in [Thread -> Seq(Node)]
  /\ batch \in [Thread -> Batch]
  /\ dispatched \in [Drainer -> Nat]
  /\ calls \in [Thread -> Nat]
  /\ arrivals \in Seq(Event) /\ handed \in Seq(Event \cup {NoEvent})
  /\ lost \in SUBSET (Event \cup {NoEvent})

\* The dispatch thread takes no lifecycle lock, so nothing but the kept handle
\* stops a second Initialize from starting a second one: a live dispatch thread
\* is always the one g_asyncThread refers to, whatever Shutdown timed out on.
NoOrphanWorker == \A w \in Worker : Live(w) => thread = w

\* The pool and the event are not released under anybody who got past the
\* entry checks: the dispatch thread, and everyone inside the shared lock, finds
\* them allocated.  A drain has no entry check, and one that starts after the
\* release faults (DrainClaim): what is claimed here is about the release.
PoolOutlivesUse ==
  \A t \in Thread : pc[t] \in LiveWorkerStates \cup SharedStates =>
     pool /\ signal # "null"

Dispatcher == Worker \cup Drainer

\* While the pool exists every node is in exactly one place: a list, or one
\* thread's hand.  A node in two places gives one event's memory two owners; a
\* node in none shrinks the pool until every event is shed.
NodesPartitioned ==
  pool =>
    /\ free \cup ToSet(pending) \cup UNION {ToSet(hand[t]) : t \in Thread} = Node
    /\ free \cap ToSet(pending) = {} /\ IsInjective(pending)
    /\ \A t \in Thread :
         /\ IsInjective(hand[t])
         /\ ToSet(hand[t]) \cap (free \cup ToSet(pending)) = {}
         /\ \A u \in Thread \ {t} : ToSet(hand[t]) \cap ToSet(hand[u]) = {}

InFlight ==
  LET listed == IF pool THEN EventsOf(pending) ELSE {}
      held   == UNION {EventsOf(hand[t]) \cup ToSet(batch[t]) :
                          t \in {u \in Dispatcher : pc[u] # "faulted"}}
  IN listed \cup held

\* An event that PublishHookEvent accepted is in flight, handed to the pipe, or
\* counted lost (shed by a drain, abandoned by a release): it is never handed
\* over twice, never both, and never just gone.
AcceptedOnce ==
  /\ ToSet(arrivals) = ToSet(handed) \cup lost \cup InFlight
  /\ Len(arrivals) = Len(handed) + Cardinality(lost) + Cardinality(InFlight)

\* The pipe sees events in the order they were pushed.
ArrivalOrderKept ==
  \A i, j \in DOMAIN handed : i < j =>
    \E a, b \in DOMAIN arrivals :
       a < b /\ arrivals[a] = handed[i] /\ arrivals[b] = handed[j]

\* Every accepted event is handed to the pipe or counted lost, unless the
\* publisher is stopped first.
EventuallyHanded ==
  \A e \in Producer \X (1 .. MaxEvents) :
    e \in ToSet(arrivals) ~> (e \in ToSet(handed) \cup lost \/ ~running)

=============================================================================
