----------------------------- MODULE LaunchGate -----------------------------
(***************************************************************************)
(* The launch gate of BLIND.dll (src/DLL/hooks/runtime/launch_gate.cpp).   *)
(*                                                                         *)
(* Before the target runs, the pages of its entry point and TLS callbacks  *)
(* are armed with PAGE_GUARD.  The first thread to touch one is redirected *)
(* to LaunchGateInitializeThunk, which initialises the runtime and opens   *)
(* the gate; every other one is redirected to LaunchGateParkThunk, which   *)
(* waits until the gate is open.  Both then resume the context saved in a  *)
(* park slot.  With a deferred open, an external controller opens the gate *)
(* through a named event of its own.                                       *)
(*                                                                         *)
(* PAGE_GUARD is a one-shot alarm: Windows clears it as it raises the      *)
(* exception, and until the handler sets it again the page is open to      *)
(* every other thread.  LaunchGateShutdown (DLL unload) is not modelled.   *)
(***************************************************************************)
EXTENDS Naturals, FiniteSets

CONSTANTS Thread,     \* threads of the target that reach gated code
          Page,       \* pages that may be armed
          Slot,       \* g_LaunchGateParkContexts
          MaxTouches, \* bound: times a thread comes to gated code
          NoThread, NoSlot

\* What the proofs take for granted of the constants.
NullsAreNot ==
  NoThread \notin Thread /\ NoSlot \notin Slot
ThreadsAndPages == IsFiniteSet(Thread) /\ Page # {} /\ MaxTouches \in Nat

VARIABLES
  deferred,     \* g_LaunchGateDeferredOpen, from the environment of the process
  prepared,     \* g_LaunchGatePrepared
  ready,        \* g_LaunchGateReady
  readyEvent,   \* g_LaunchGateReadyEvent is signalled
  armed,        \* the pages listed in g_LaunchGatePages
  guarded,      \* the pages that have PAGE_GUARD now
  assigned,     \* g_LaunchGateInitializerAssigned
  park,         \* which thread's context each slot holds, if any
  initialized,  \* g_RuntimeInitialized
  pc,           \* where each thread is
  page,         \* the page a thread touches
  slot,         \* the slot a redirected thread was given
  touches,      \* touches so far
  early,        \* history: threads that ran gated code before the hooks
  ended         \* "no", "crashed" (unhandled fault) or "failClosed"

gate == <<deferred, prepared, ready, readyEvent, armed, assigned>>
vars == <<gate, guarded, park, initialized, pc, page, slot, touches, early, ended>>

HandlerStates == {"fault", "reguard", "acquire", "stage"}
InitStates    == {"init", "initTrap", "release", "restore", "signal"}
ParkStates    == {"wait", "trap"}
DeferStates   == {"deferWait", "open", "deferRestore"}
Redirected    == InitStates \cup ParkStates \cup DeferStates \cup {"resume"}

Init ==
  /\ deferred \in BOOLEAN
  /\ prepared = FALSE /\ ready = FALSE /\ readyEvent = FALSE
  /\ armed = {} /\ guarded = {} /\ assigned = FALSE
  /\ park = [s \in Slot |-> NoThread] /\ initialized = FALSE
  /\ pc = [t \in Thread |-> "run"]
  /\ page \in [Thread -> {CHOOSE p \in Page : TRUE}]
  /\ slot = [t \in Thread |-> NoSlot]
  /\ touches = [t \in Thread |-> 0]
  /\ early = {} /\ ended = "no"

Go(t, from, to) == pc[t] = from /\ pc' = [pc EXCEPT ![t] = to]

-----------------------------------------------------------------------------
(* LaunchGatePrepare, from DllMain while the target is still suspended.    *)

\* Some pages may not be armable; with none armed, or without the event, the
\* process is ended.
\* mutant of Prepare: a page is guarded but does not get on the list
PrepareUnlisted ==
  /\ ~prepared /\ ended = "no"
  /\ armed' \in SUBSET Page \ {{}}
  /\ prepared' = TRUE /\ guarded' = Page
  /\ ended' = ended
  /\ UNCHANGED <<deferred, ready, readyEvent, assigned, park, initialized, pc, page,
                 slot, touches, early>>

Prepare ==
  /\ ~prepared /\ ended = "no"
  /\ \/ /\ armed' \in SUBSET Page \ {{}}
        /\ prepared' = TRUE /\ guarded' = armed'
        /\ ended' = ended
     \/ ended' = "failClosed" /\ UNCHANGED <<prepared, armed, guarded>>
  /\ UNCHANGED <<deferred, ready, readyEvent, assigned, park, initialized, pc, page,
                 slot, touches, early>>

-----------------------------------------------------------------------------
(* The target reaches gated code.                                          *)

\* A guarded page raises the exception and is open from then on.
TouchPage(t, p) ==
  /\ page' = [page EXCEPT ![t] = p]
  /\ guarded' = guarded \ {p}
  /\ pc' = [pc EXCEPT ![t] = IF p \in guarded THEN "fault" ELSE "run"]
  /\ early' = IF p \in armed \ guarded /\ ~initialized THEN early \cup {t}
              ELSE early
  /\ UNCHANGED <<gate, park, initialized, slot, ended>>

Touch(t) ==
  /\ prepared /\ pc[t] = "run" /\ touches[t] < MaxTouches
  /\ touches' = [touches EXCEPT ![t] = @ + 1]
  /\ \E p \in Page : TouchPage(t, p)

\* The resumed context executes the same instruction again.
TouchAgain(t) ==
  /\ pc[t] = "again"
  /\ TouchPage(t, page[t])
  /\ UNCHANGED touches

-----------------------------------------------------------------------------
(* LaunchGateHandleFault, in the vectored exception handler.               *)

\* With the gate open, the fault is nobody's.
FaultChecked(t) ==
  /\ pc[t] = "fault"
  /\ IF ready
     THEN ended' = "crashed" /\ pc' = pc
     ELSE pc' = [pc EXCEPT ![t] = "reguard"] /\ ended' = ended
  /\ UNCHANGED <<gate, guarded, park, initialized, page, slot, touches, early>>

Reguard(t) ==
  /\ Go(t, "reguard", "acquire")
  /\ guarded' = guarded \cup {page[t]}
  /\ UNCHANGED <<gate, park, initialized, page, slot, touches, early, ended>>

\* mutant of AcquireSlot: take a slot that another thread has
AcquireAnySlot(t) ==
  /\ Go(t, "acquire", "stage")
  /\ \E s \in Slot :
        /\ park' = [park EXCEPT ![s] = t]
        /\ slot' = [slot EXCEPT ![t] = s]
  /\ UNCHANGED <<gate, guarded, initialized, page, touches, early, ended>>

AcquireSlot(t) ==
  /\ Go(t, "acquire", "stage")
  /\ \E s \in Slot :
        /\ park[s] = NoThread
        /\ park' = [park EXCEPT ![s] = t]
        /\ slot' = [slot EXCEPT ![t] = s]
  /\ UNCHANGED <<gate, guarded, initialized, page, touches, early, ended>>

\* No park slot is left: the fault stays unhandled.
NoSlotLeft(t) ==
  /\ pc[t] = "acquire" /\ \A s \in Slot : park[s] # NoThread
  /\ ended' = "crashed"
  /\ UNCHANGED <<gate, guarded, park, initialized, pc, page, slot, touches,
                 early>>

\* mutant of Stage: everyone who finds the runtime uninitialised initialises it
StageUnassigned(t) ==
  /\ pc[t] = "stage"
  /\ pc' = [pc EXCEPT ![t] = IF initialized THEN "wait" ELSE "init"]
  /\ assigned' = TRUE
  /\ UNCHANGED <<deferred, prepared, ready, readyEvent, armed, guarded, park, initialized,
                 page, slot, touches, early, ended>>

Stage(t) ==
  /\ pc[t] = "stage"
  /\ pc' = [pc EXCEPT ![t] = IF assigned THEN "wait" ELSE "init"]
  /\ assigned' = TRUE
  /\ UNCHANGED <<deferred, prepared, ready, readyEvent, armed, guarded, park, initialized,
                 page, slot, touches, early, ended>>

\* Writing the return address faults: the slot is freed and the fault unhandled,
\* but the initializer may have been assigned already.
StageFails(t) ==
  /\ pc[t] = "stage"
  /\ assigned' = TRUE
  /\ park' = [park EXCEPT ![slot[t]] = NoThread]
  /\ slot' = [slot EXCEPT ![t] = NoSlot]
  /\ ended' = "crashed"
  /\ UNCHANGED <<deferred, prepared, ready, readyEvent, armed, guarded, initialized, pc,
                 page, touches, early>>

-----------------------------------------------------------------------------
(* LaunchGateInitializeThunk and LaunchGateRelease.                        *)

Initialize(t) ==
  /\ \/ Go(t, "init", "initTrap") /\ initialized' = TRUE /\ ended' = ended
     \/ pc[t] = "init" /\ ended' = "failClosed" /\ UNCHANGED <<pc, initialized>>
  /\ UNCHANGED <<gate, guarded, park, page, slot, touches, early>>

\* The trap event is published; whether it arrives is the publisher's business.
PublishInitTrap(t) ==
  /\ Go(t, "initTrap", IF deferred THEN "deferWait" ELSE "release")
  /\ UNCHANGED <<gate, guarded, park, initialized, page, slot, touches, early,
                 ended>>

ReleaseReady(t) ==
  /\ Go(t, "release", "restore")
  /\ ready' = TRUE
  /\ UNCHANGED <<deferred, prepared, readyEvent, armed, assigned, guarded, park,
                 initialized, page, slot, touches, early, ended>>

ReleaseRestore(t) ==
  /\ Go(t, "restore", "signal")
  /\ guarded' = guarded \ armed
  /\ UNCHANGED <<gate, park, initialized, page, slot, touches, early, ended>>

\* mutant of ReleaseSignal: the parked threads are not woken
ReleaseSilently(t) ==
  /\ Go(t, "signal", "resume")
  /\ readyEvent' = readyEvent
  /\ UNCHANGED <<deferred, prepared, ready, armed, assigned, guarded, park, initialized,
                 page, slot, touches, early, ended>>

\* The event loop is started next, which changes nothing here.
ReleaseSignal(t) ==
  /\ Go(t, "signal", "resume")
  /\ readyEvent' = TRUE
  /\ UNCHANGED <<deferred, prepared, ready, armed, assigned, guarded, park, initialized,
                 page, slot, touches, early, ended>>

-----------------------------------------------------------------------------
(* LaunchGateParkThunk, and the deferred open that both thunks share.      *)

\* mutant of ParkWait: resume without waiting for the gate
ParkNoWait(t) ==
  /\ Go(t, "wait", "trap")
  /\ UNCHANGED <<gate, guarded, park, initialized, page, slot, touches, early,
                 ended>>

ParkWait(t) ==
  /\ readyEvent
  /\ Go(t, "wait", "trap")
  /\ UNCHANGED <<gate, guarded, park, initialized, page, slot, touches, early,
                 ended>>

PublishParkTrap(t) ==
  /\ Go(t, "trap", IF deferred THEN "open" ELSE "resume")
  /\ UNCHANGED <<gate, guarded, park, initialized, page, slot, touches, early,
                 ended>>

DeferredWait(t) ==
  /\ readyEvent
  /\ Go(t, "deferWait", "open")
  /\ UNCHANGED <<gate, guarded, park, initialized, page, slot, touches, early,
                 ended>>

\* Whoever turns ready on restores the pages.
DeferredOpen(t) ==
  /\ Go(t, "open", IF ready THEN "resume" ELSE "deferRestore")
  /\ ready' = TRUE
  /\ UNCHANGED <<deferred, prepared, readyEvent, armed, assigned, guarded, park,
                 initialized, page, slot, touches, early, ended>>

DeferredRestore(t) ==
  /\ Go(t, "deferRestore", "resume")
  /\ guarded' = guarded \ armed
  /\ UNCHANGED <<gate, park, initialized, page, slot, touches, early, ended>>

\* ResumeOriginalThread: the context is copied before the slot is freed.
Resume(t) ==
  /\ Go(t, "resume", "again")
  /\ park' = [park EXCEPT ![slot[t]] = NoThread]
  /\ slot' = [slot EXCEPT ![t] = NoSlot]
  /\ UNCHANGED <<gate, guarded, initialized, page, touches, early, ended>>

\* The external controller of a deferred open, once it has heard of readiness.
HostOpens ==
  /\ deferred /\ initialized /\ ended = "no"
  /\ readyEvent' = TRUE
  /\ UNCHANGED <<deferred, prepared, ready, armed, assigned, guarded, park, initialized,
                 pc, page, slot, touches, early, ended>>

-----------------------------------------------------------------------------
Step(t) ==
  \/ TouchAgain(t)
  \/ FaultChecked(t) \/ Reguard(t) \/ AcquireSlot(t) \/ NoSlotLeft(t)
  \/ Stage(t) \/ StageFails(t)
  \/ Initialize(t) \/ PublishInitTrap(t)
  \/ ReleaseReady(t) \/ ReleaseRestore(t) \/ ReleaseSignal(t)
  \/ ParkWait(t) \/ PublishParkTrap(t) \/ Resume(t)
  \/ DeferredWait(t) \/ DeferredOpen(t) \/ DeferredRestore(t)

\* Threads need not come to gated code again, and an ended process is at rest.
Rest ==
  /\ ended # "no" \/ \A t \in Thread : pc[t] = "run"
  /\ UNCHANGED vars

Next ==
  \/ Prepare
  \/ ended = "no" /\ \E t \in Thread : Touch(t) \/ Step(t)
  \/ HostOpens
  \/ Rest

Spec == Init /\ [][Next]_vars

\* Threads inside the gate are scheduled, and the runtime's initialisation ends
\* one way or the other (its retries are bounded).  Nothing obliges an external
\* controller to open.
FairSpec ==
  /\ Spec
  /\ \A t \in Thread : WF_vars(ended = "no" /\ Step(t))

-----------------------------------------------------------------------------
(* Properties.                                                             *)

AllStates == {"run", "again"} \cup HandlerStates \cup Redirected

\* Every variable has its type, and only listed pages are guarded.
TypeOK ==
  /\ deferred \in BOOLEAN /\ prepared \in BOOLEAN /\ ready \in BOOLEAN /\ readyEvent \in BOOLEAN
  /\ assigned \in BOOLEAN /\ initialized \in BOOLEAN
  /\ armed \subseteq Page /\ guarded \subseteq armed
  /\ park \in [Slot -> Thread \cup {NoThread}]
  /\ pc \in [Thread -> AllStates] /\ page \in [Thread -> Page]
  /\ slot \in [Thread -> Slot \cup {NoSlot}]
  /\ touches \in [Thread -> Nat] /\ early \subseteq Thread
  /\ ended \in {"no", "crashed", "failClosed"}

\* The slot of a thread holds its own context from the redirection until the
\* resumption, and no slot is left behind by a thread that resumed: 16 slots
\* suffice for as many threads at a time, not for as many faults.
SlotsMatchThreads ==
  /\ \A t \in Thread : slot[t] # NoSlot => park[slot[t]] = t
  /\ \A s \in Slot : park[s] # NoThread => slot[park[s]] = s

\* The gate is intact: every variable has its type, and a thread has its slot to
\* itself until it has resumed.
GateIntact == TypeOK /\ SlotsMatchThreads

\* No redirected thread goes back to gated code before the runtime is
\* initialised.
ResumeAfterInit ==
  \A t \in Thread : pc[t] \in {"resume", "again"} => initialized

\* Once an initializer is assigned and until the gate is open, exactly one
\* thread works on opening it, or the process has ended: nobody waits for a
\* thread that is not there, the runtime is not initialised twice, and nobody
\* goes on without it.
OneInitializer ==
  /\ assigned /\ ended = "no" /\ ~ready =>
       Cardinality({t \in Thread : pc[t] \in InitStates \cup {"deferWait", "open"}}) >= 1
         /\ Cardinality({t \in Thread : pc[t] = "init"}) <= 1
  /\ ResumeAfterInit

\* src/README.md:13: BLIND "arms NT/module/Winsock/VEH hook surfaces before user
\* code gets a head start".
HooksBeforeUserCode == early = {}

\* A redirected thread gets back to its code, unless the process ends or the
\* opening is left to an external controller that never opens.
EveryThreadResumes ==
  \A t \in Thread :
    pc[t] \in Redirected /\ (deferred => readyEvent) ~>
      (pc[t] = "again" \/ ended # "no")

=============================================================================
