------------------------------- MODULE VehRing -------------------------------
(***************************************************************************)
(* The vectored exception handler of BLIND.dll and its telemetry ring      *)
(* (src/DLL/instrument/ix.cpp).                                            *)
(*                                                                         *)
(* BlindVeh runs on the thread that raised an exception.  It lets the      *)
(* fault handler decide about guard faults, traps and access violations    *)
(* and leaves the report of most others to one dispatch thread: it copies  *)
(* the event into a node of a fixed pool and pushes it on a lock-free      *)
(* list.  When the ring takes no event the raiser reports it itself.       *)
(*                                                                         *)
(* Register and Unregister run under g_vehLock (one controller here);      *)
(* raisers take no lock at all.  An exception inside the handler is turned *)
(* away by TryEnterHandler and changes nothing; it is left out.            *)
(***************************************************************************)
EXTENDS Naturals, FiniteSets, SequencesExt

CONSTANTS Raiser,     \* threads that raise exceptions
          Worker,     \* thread objects CreateThread may return
          NodeMax,    \* kVehRingCapacity
          RaiseMax,   \* bound: exceptions raised
          CallMax,    \* bound: calls of Register and of Unregister
          Kinds       \* the kinds of exceptions that are raised

ASSUME RaisersAreNoWorkers == Raiser \cap Worker = {}
ASSUME RingBounds == NodeMax \in Nat \ {0} /\ RaiseMax \in Nat /\ CallMax \in Nat
ASSUME KindsKnown ==
  Kinds \subseteq {"print", "step", "guard", "fault", "fatal", "plain"}

VARIABLES
  listed,     \* is BlindVeh in the system's list of handlers (g_veh_handle)
  installed,  \* g_installed and g_args: does BlindVeh look at exceptions
  ready,      \* g_vehRingReady
  run,        \* g_vehRunning
  waker,      \* g_vehSignal: the auto-reset event
  pool,       \* the generation of g_vehNodePool, 0 when released
  pools,      \* pools allocated so far
  spare,      \* g_vehFreeList (the order is immaterial)
  queue,      \* g_vehPendingList, head first
  at,         \* where each thread is
  holds,      \* the nodes a thread has a private pointer to
  exc,        \* a raiser's exception
  raised,     \* exceptions raised so far
  ctl,        \* where the controller is
  queued,     \* history: events pushed
  told,       \* history: how often the dispatch threads reported each event
  tossed      \* history: events discarded from the list

ring  == <<ready, run, pool, pools>>
lists == <<spare, queue, holds>>
past  == <<queued, told, tossed>>
vars  == <<listed, installed, ring, waker, lists, at, exc, raised, ctl, past>>

Thread == Raiser \cup Worker
Event  == 1..RaiseMax
NoExc  == [kind |-> "none", event |-> 0]

\* A node: its pool and its number there; a queued node carries its event.
NodesOf(g) == {[pool |-> g, number |-> i] : i \in 1..NodeMax}

Init ==
  /\ listed = FALSE /\ installed = FALSE
  /\ ready = FALSE /\ run = FALSE /\ waker = FALSE
  /\ pool = 0 /\ pools = 0
  /\ spare = {} /\ queue = <<>> /\ holds = [t \in Thread |-> <<>>]
  /\ at = [t \in Thread |-> IF t \in Worker THEN "absent" ELSE "idle"]
  /\ exc = [r \in Raiser |-> NoExc] /\ raised = 0
  /\ ctl = "idle"
  /\ queued = {} /\ told = [e \in Event |-> 0] /\ tossed = {}

GoTo(t, label) == at' = [at EXCEPT ![t] = label]
Done(r)        == GoTo(r, "idle") /\ exc' = [exc EXCEPT ![r] = NoExc]
Carrying(n, e) == [node |-> n, event |-> e]
Alive(slot)    == slot.node.pool = pool

-----------------------------------------------------------------------------
(* BlindVeh.                                                               *)

\* An exception meets the handler only while the system lists it.
Raise(r) ==
  /\ at[r] = "idle" /\ raised < RaiseMax
  /\ raised' = raised + 1
  /\ IF listed
     THEN \E k \in Kinds :
            /\ exc' = [exc EXCEPT ![r] = [kind |-> k, event |-> raised']]
            /\ GoTo(r, "entry")
     ELSE UNCHANGED <<exc, at>>
  /\ UNCHANGED <<listed, installed, ring, waker, lists, ctl, past>>

\* Debug output, and everything before and after the registration, is passed on.
PassOn(r) ==
  /\ at[r] = "entry" /\ (exc[r].kind = "print" \/ ~installed)
  /\ Done(r)
  /\ UNCHANGED <<listed, installed, ring, waker, lists, raised, ctl, past>>

\* The fault handler decides about guard faults alone; a trap it does not know
\* is treated as any other exception, an access violation is queued as well.
\* What cannot be continued is reported before the process ends.
Handle(r) ==
  /\ at[r] = "entry" /\ installed /\ exc[r].kind # "print"
  /\ \/ exc[r].kind \in {"step", "guard", "fatal"} /\ Done(r)
     \/ exc[r].kind \in {"step", "fault", "plain"} /\ GoTo(r, "enqueue") /\ UNCHANGED exc
  /\ UNCHANGED <<listed, installed, ring, waker, lists, raised, ctl, past>>

-----------------------------------------------------------------------------
(* VehRingEnqueue.                                                         *)

\* The ring takes no event: the raiser reports what was not handled above.
EnqueueRefused(r) ==
  /\ \/ at[r] = "enqueue" /\ ~ready
     \/ at[r] = "pop" /\ spare = {}
  /\ Done(r)
  /\ UNCHANGED <<listed, installed, ring, waker, lists, raised, ctl, past>>

EnqueueChecked(r) ==
  /\ at[r] = "enqueue" /\ ready
  /\ GoTo(r, "pop")
  /\ UNCHANGED <<listed, installed, ring, waker, lists, exc, raised, ctl, past>>

EnqueuePop(r) ==
  /\ at[r] = "pop"
  /\ \E n \in spare :
       /\ spare' = spare \ {n}
       /\ holds' = [holds EXCEPT ![r] = <<Carrying(n, exc[r].event)>>]
  /\ GoTo(r, "push")
  /\ UNCHANGED <<listed, installed, ring, waker, queue, exc, raised, ctl, past>>

\* The event is copied and the node pushed.
EnqueuePush(r) ==
  /\ at[r] = "push" /\ Alive(Head(holds[r]))
  /\ queue' = holds[r] \o queue
  /\ holds' = [holds EXCEPT ![r] = <<>>]
  /\ queued' = queued \cup {exc[r].event}
  /\ GoTo(r, "signal")
  /\ UNCHANGED <<listed, installed, ring, waker, spare, exc, raised, ctl, told, tossed>>

\* Only a raiser that finds its own node alone on the list wakes the dispatcher.
EnqueueSignal(r) ==
  /\ at[r] = "signal"
  /\ waker' = (waker \/ (Len(queue) = 1 /\ pool # 0))
  /\ Done(r)
  /\ UNCHANGED <<listed, installed, ring, lists, raised, ctl, past>>

\* The pool was released under the thread that writes or reads a node of it.
Fault(t) ==
  /\ \E s \in ToSet(IF at[t] \in {"claim", "residual"} THEN queue
                    ELSE IF at[t] \in {"push", "dispatch"} THEN holds[t] ELSE <<>>) :
       ~Alive(s)
  /\ GoTo(t, "faulted")
  /\ UNCHANGED <<listed, installed, ring, waker, lists, exc, raised, ctl, past>>

-----------------------------------------------------------------------------
(* VehDispatchThreadProc.                                                  *)

WorkerTop(w) ==
  /\ at[w] = "top"
  /\ GoTo(w, IF run THEN "wait" ELSE "residual")
  /\ UNCHANGED <<listed, installed, ring, waker, lists, exc, raised, ctl, past>>

\* mutant of WorkerWait: the wait has no timeout
WorkerWaitForever(w) ==
  /\ at[w] = "wait" /\ waker
  /\ waker' = FALSE
  /\ GoTo(w, "claim")
  /\ UNCHANGED <<listed, installed, ring, lists, exc, raised, ctl, past>>

\* The wait ends with the event or after 50 ms.
WorkerWait(w) ==
  /\ at[w] = "wait"
  /\ waker' = FALSE
  /\ GoTo(w, "claim")
  /\ UNCHANGED <<listed, installed, ring, lists, exc, raised, ctl, past>>

WorkerClaim(w) ==
  /\ at[w] = "claim" /\ \A s \in ToSet(queue) : Alive(s)
  /\ holds' = [holds EXCEPT ![w] = Reverse(queue)]
  /\ queue' = <<>>
  /\ GoTo(w, IF queue = <<>> THEN "top" ELSE "dispatch")
  /\ UNCHANGED <<listed, installed, ring, waker, spare, exc, raised, ctl, past>>

\* mutant of WorkerDispatch: the list is followed after its node was given away
WorkerDispatchTwice(w) ==
  /\ at[w] = "dispatch" /\ Alive(Head(holds[w]))
  /\ told' = [told EXCEPT ![Last(holds[w]).event] = @ + 1]
  /\ spare' = spare \cup {Head(holds[w]).node}
  /\ holds' = [holds EXCEPT ![w] = Tail(@)]
  /\ GoTo(w, IF Len(holds[w]) = 1 THEN "top" ELSE "dispatch")
  /\ UNCHANGED <<listed, installed, ring, waker, queue, exc, raised, ctl, queued, tossed>>

\* mutant of WorkerDispatch: the node is not given back
WorkerDispatchLeak(w) ==
  /\ at[w] = "dispatch" /\ Alive(Head(holds[w]))
  /\ told' = [told EXCEPT ![Head(holds[w]).event] = @ + 1]
  /\ holds' = [holds EXCEPT ![w] = Tail(@)]
  /\ GoTo(w, IF Len(holds[w]) = 1 THEN "top" ELSE "dispatch")
  /\ UNCHANGED <<listed, installed, ring, waker, spare, queue, exc, raised, ctl, queued, tossed>>

\* Report the next event and give its node back.
WorkerDispatch(w) ==
  /\ at[w] = "dispatch" /\ Alive(Head(holds[w]))
  /\ told' = [told EXCEPT ![Head(holds[w]).event] = @ + 1]
  /\ spare' = spare \cup {Head(holds[w]).node}
  /\ holds' = [holds EXCEPT ![w] = Tail(@)]
  /\ GoTo(w, IF Len(holds[w]) = 1 THEN "top" ELSE "dispatch")
  /\ UNCHANGED <<listed, installed, ring, waker, queue, exc, raised, ctl, queued, tossed>>

\* After the stop what is still queued is given back without a report.
WorkerResidual(w) ==
  /\ at[w] = "residual" /\ \A s \in ToSet(queue) : Alive(s)
  /\ spare' = spare \cup {s.node : s \in ToSet(queue)}
  /\ tossed' = tossed \cup {s.event : s \in ToSet(queue)}
  /\ queue' = <<>>
  /\ GoTo(w, "exited")
  /\ UNCHANGED <<listed, installed, ring, waker, holds, exc, raised, ctl, queued, told>>

-----------------------------------------------------------------------------
(* Register, Promote, Unregister.                                          *)

\* VehRingInit; when it fails at any step the handler does without a ring.  A
\* ring that outlived its handler is kept.
RegisterRing ==
  /\ ctl = "idle" /\ ~listed /\ pools < CallMax
  /\ pools' = pools + 1
  /\ \/ \E w \in Worker :
          /\ ~ready /\ at[w] = "absent" /\ GoTo(w, "top")
          /\ ready' = TRUE /\ run' = TRUE
          /\ pool' = pools' /\ spare' = NodesOf(pools') /\ queue' = <<>>
          /\ waker' = FALSE /\ tossed' = tossed \cup {s.event : s \in ToSet(queue)}
     \/ UNCHANGED <<tossed, ready, run, pool, spare, queue, waker, at>>
  /\ ctl' = "listing"
  /\ UNCHANGED <<listed, installed, holds, exc, raised, queued, told>>

\* The system's list takes the handler, or refuses and the ring is stopped.
RegisterHandler ==
  /\ ctl = "listing"
  /\ \/ listed' = TRUE /\ installed' = TRUE /\ ctl' = "idle"
        /\ UNCHANGED <<ready, run, waker>>
     \/ /\ UNCHANGED <<listed, installed>>
        /\ IF ready THEN ready' = FALSE /\ run' = FALSE /\ waker' = TRUE /\ ctl' = "join"
                    ELSE UNCHANGED <<ready, run, waker>> /\ ctl' = "idle"
  /\ UNCHANGED <<pool, pools, lists, at, exc, raised, past>>

\* PromoteVectoredExceptionHandlerToFront takes the handler off the list ...
PromoteRemove ==
  /\ ctl = "idle" /\ listed
  /\ listed' = FALSE /\ ctl' = "promote"
  /\ UNCHANGED <<installed, ring, waker, lists, at, exc, raised, past>>

\* ... and puts it back, at either end, or not at all.
PromoteAdd ==
  /\ ctl = "promote" /\ ctl' = "idle"
  /\ listed' \in BOOLEAN /\ installed' = listed'
  /\ UNCHANGED <<ring, waker, lists, at, exc, raised, past>>

\* IxUnregisterVectoredExceptionHandler.
Unregister ==
  /\ ctl = "idle" /\ (listed \/ ready)
  /\ listed' = FALSE /\ installed' = FALSE
  /\ IF ready THEN ready' = FALSE /\ run' = FALSE /\ waker' = TRUE /\ ctl' = "join"
              ELSE UNCHANGED <<ready, run, waker, ctl>>
  /\ UNCHANGED <<pool, pools, lists, at, exc, raised, past>>

\* The dispatch thread ends, or 3000 ms have passed.
Join ==
  /\ ctl = "join" /\ ctl' = "release"
  /\ UNCHANGED <<listed, installed, ring, waker, lists, at, exc, raised, past>>

Release ==
  /\ ctl = "release" /\ ctl' = "idle"
  /\ pool' = 0 /\ waker' = FALSE
  /\ UNCHANGED <<listed, installed, ready, run, pools, lists, at, exc, raised, past>>

-----------------------------------------------------------------------------
RaiserStep(r) ==
  \/ PassOn(r) \/ Handle(r) \/ EnqueueRefused(r) \/ EnqueueChecked(r)
  \/ EnqueuePop(r) \/ EnqueuePush(r) \/ EnqueueSignal(r)

WorkerStep(w) ==
  WorkerTop(w) \/ WorkerWait(w) \/ WorkerClaim(w) \/ WorkerDispatch(w) \/ WorkerResidual(w)

ControllerStep ==
  RegisterRing \/ RegisterHandler \/ PromoteRemove \/ PromoteAdd \/ Unregister \/ Join \/ Release

\* A fault in the handler ends the process.
Running == \A t \in Thread : at[t] # "faulted"

Next ==
  /\ Running
  /\ \/ \E r \in Raiser : Raise(r) \/ RaiserStep(r)
     \/ \E w \in Worker : WorkerStep(w)
     \/ \E t \in Thread : Fault(t)
     \/ ControllerStep

Spec == Init /\ [][Next]_vars /\ \A w \in Worker : WF_vars(Running /\ WorkerStep(w))

-----------------------------------------------------------------------------
(* Properties.                                                             *)

\* Every variable has its type; nodes come from pools that were allocated.
TypeOK ==
  /\ {listed, installed, ready, run, waker} \subseteq BOOLEAN
  /\ pool \in 0..pools /\ pools \in 0..CallMax
  /\ spare \subseteq UNION {NodesOf(g) : g \in 1..pools}
  /\ \A s \in ToSet(queue) \cup UNION {ToSet(holds[t]) : t \in Thread} :
       s.node \in UNION {NodesOf(g) : g \in 1..pools} /\ s.event \in Event
  /\ raised \in 0..RaiseMax
  /\ ctl \in {"idle", "listing", "promote", "join", "release"}

Copies(e) ==
  told[e]
    + Cardinality({i \in DOMAIN queue : queue[i].event = e})
    + Cardinality({p \in Worker \X (1..NodeMax) :
                     p[2] \in DOMAIN holds[p[1]] /\ holds[p[1]][p[2]].event = e})

\* An exception that the ring took is reported once, is still under way, or was
\* discarded by a stop, whichever raisers pushed while the list was claimed,
\* turned around and given back node by node, and whatever became of the ring.
ReportedOnce ==
  \A e \in queued :
    Copies(e) <= 1 /\ (Copies(e) = 0 => e \in tossed)

\* The ring is intact: no node is lost or in two places as long as its pool is
\* there (a leak would drive every report onto the raiser's thread), and every
\* report has its type.
RingIntact ==
  /\ TypeOK
  /\ \A n \in NodesOf(pool) :
       pool # 0 =>
         Cardinality({p \in {"spare"} : n \in spare})
           + Cardinality({i \in DOMAIN queue : queue[i].node = n})
           + Cardinality({p \in Thread \X (1..NodeMax) :
                            p[2] \in DOMAIN holds[p[1]] /\ holds[p[1]][p[2]].node = n}) = 1

\* As long as the ring runs every event on its list is taken off it, although a
\* raiser that does not find its node alone there wakes nobody: it is reported,
\* or discarded by a dispatch thread of an earlier ring that outlived its join.
EventuallyReported ==
  \A e \in Event :
    (\E s \in ToSet(queue) : s.event = e /\ Alive(s) /\ ready)
      ~> (told[e] > 0 \/ e \in tossed \/ ~ready \/ \E t \in Thread : at[t] = "faulted")

\* "Shutdown the async ring before clearing g_args so the dispatcher can finish
\* draining any queued telemetry events" (ix.cpp:711): what was queued when the
\* handler was unregistered has been reported when the pool is gone.  The
\* dispatch thread gives residual events back unreported.
DrainedWhenUnregistered ==
  (ctl = "idle" /\ pool = 0) => \A e \in queued : told[e] > 0

=============================================================================
