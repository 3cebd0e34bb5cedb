-------------------------- MODULE LaunchGateProofs --------------------------
(***************************************************************************)
(* Theorems about LaunchGate, for every finite set of threads, every set   *)
(* of pages and slots and both ways to open the gate.                      *)
(***************************************************************************)
EXTENDS LaunchGate, FiniteSetTheorems, TLAPS

-----------------------------------------------------------------------------
(* The inductive invariant.                                                *)

Opening  == {"init", "initTrap", "release", "deferWait", "open"}
Uncalled == {"run", "again", "fault", "reguard", "acquire"}

\* A fault is on a page of the list, and nothing faults before there is one.
FaultsListed ==
  /\ ~prepared => \A t \in Thread : pc[t] = "run"
  /\ \A t \in Thread : pc[t] \in {"fault", "reguard"} => page[t] \in armed

\* A thread has a slot from the redirection until it resumes.
SlotHeld == ended = "no" => \A t \in Thread : slot[t] = NoSlot <=> pc[t] \in Uncalled

\* The first to be staged initialises, and works on until the gate is open.
FirstInitializes ==
  /\ ~assigned => \A t \in Thread : pc[t] # "init"
  /\ \A t, u \in Thread : pc[t] = "init" /\ pc[u] = "init" => t = u
  /\ assigned /\ ended = "no" /\ ~ready => \E t \in Thread : pc[t] \in Opening

\* Nobody gets past the gate's two waits before the runtime is there.
WaitsHold ==
  /\ readyEvent => initialized
  /\ \A t \in Thread :
       pc[t] \in {"run", "init", "wait"} \cup HandlerStates \/ initialized

GateInv == GateIntact /\ FaultsListed /\ SlotHeld /\ FirstInitializes /\ WaitsHold
-----------------------------------------------------------------------------
(* Every step keeps each part.                                             *)

\* The steps of a thread that leave the pages' guards and the slots alone.
Passes(t) ==
  \/ FaultChecked(t) \/ NoSlotLeft(t) \/ Stage(t) \/ Initialize(t) \/ PublishInitTrap(t)
  \/ ReleaseReady(t) \/ ReleaseSignal(t) \/ ParkWait(t) \/ PublishParkTrap(t)
  \/ DeferredWait(t) \/ DeferredOpen(t)

\* The steps that change the guards of pages besides a touch.
Guards(t) == Reguard(t) \/ ReleaseRestore(t) \/ DeferredRestore(t)

\* A step is one of the whole gate or one of a thread.
LEMMA StepCases ==
  ASSUME [Next]_vars
  PROVE  \/ Prepare \/ HostOpens \/ UNCHANGED vars
         \/ /\ ended = "no"
            /\ \E t \in Thread : \/ Touch(t) \/ TouchAgain(t) \/ AcquireSlot(t) \/ StageFails(t)
                                 \/ Resume(t) \/ Passes(t) \/ Guards(t)
BY DEF Next, Step, Passes, Guards, Rest

\* What a touch does, the first time and after the resumption.
LEMMA TouchMoves ==
  ASSUME TypeOK, FaultsListed, NEW t \in Thread, Touch(t) \/ TouchAgain(t)
  PROVE  \E p \in Page : /\ TouchPage(t, p) /\ pc[t] \in {"run", "again"} /\ prepared
                         /\ touches' \in [Thread -> Nat]
<1>1. CASE Touch(t)
  BY <1>1 DEF Touch, TypeOK
<1>2. CASE TouchAgain(t)
  BY <1>2 DEF TouchAgain, TypeOK, FaultsListed
<1> QED
  BY <1>1, <1>2

\* Types, and guards only where the list has a page.
LEMMA TypeKept ==
  ASSUME TypeOK, FaultsListed, SlotHeld, [Next]_vars
  PROVE  TypeOK'
<1>1. CASE Prepare
  BY <1>1 DEF Prepare, TypeOK
<1>2. CASE HostOpens
  BY <1>2 DEF HostOpens, TypeOK
<1>3. CASE UNCHANGED vars
  BY <1>3 DEF vars, gate, TypeOK
<1>4. ASSUME NEW t \in Thread, Touch(t) \/ TouchAgain(t) PROVE TypeOK'
  <2>1. PICK p \in Page : TouchPage(t, p) /\ touches' \in [Thread -> Nat]
    BY <1>4, TouchMoves
  <2>2. pc' \in [Thread -> AllStates] /\ page' \in [Thread -> Page]
    BY <2>1 DEF TouchPage, TypeOK, AllStates, HandlerStates
  <2>3. early' \subseteq Thread /\ guarded' \subseteq armed
    BY <2>1 DEF TouchPage, TypeOK
  <2> QED
    BY <2>1, <2>2, <2>3 DEF TouchPage, TypeOK, gate
<1>5. ASSUME NEW t \in Thread, AcquireSlot(t) PROVE TypeOK'
  <2>1. pc' \in [Thread -> AllStates]
    BY <1>5 DEF AcquireSlot, Go, TypeOK, AllStates, HandlerStates
  <2>2. park' \in [Slot -> Thread \cup {NoThread}] /\ slot' \in [Thread -> Slot \cup {NoSlot}]
    BY <1>5 DEF AcquireSlot, TypeOK
  <2>3. UNCHANGED <<gate, guarded, initialized, page, touches, early, ended>>
    BY <1>5 DEF AcquireSlot
  <2> QED
    BY <2>1, <2>2, <2>3 DEF TypeOK, gate
<1>6. ASSUME NEW t \in Thread, StageFails(t), ended = "no" PROVE TypeOK'
  <2>1. slot[t] \in Slot
    BY <1>6 DEF StageFails, SlotHeld, Uncalled, TypeOK
  <2> QED
    BY <1>6, <2>1 DEF StageFails, TypeOK
<1>7. ASSUME NEW t \in Thread, Resume(t), ended = "no" PROVE TypeOK'
  <2>1. pc' \in [Thread -> AllStates]
    BY <1>7 DEF Resume, Go, TypeOK, AllStates
  <2> QED
    BY <1>7, <2>1 DEF Resume, TypeOK, gate
<1>8. ASSUME NEW t \in Thread, Passes(t) PROVE TypeOK'
  <2>1. pc' \in [Thread -> AllStates]
    BY <1>8 DEF Passes, FaultChecked, NoSlotLeft, Stage, Initialize, PublishInitTrap, ReleaseReady,
                ReleaseSignal, ParkWait, PublishParkTrap, DeferredWait, DeferredOpen, Go, TypeOK, AllStates,
                HandlerStates, Redirected, InitStates, ParkStates, DeferStates
  <2>2. /\ UNCHANGED <<deferred, prepared, armed, guarded, park, page, slot, touches, early>>
        /\ ready' \in BOOLEAN /\ readyEvent' \in BOOLEAN /\ assigned' \in BOOLEAN /\ initialized' \in BOOLEAN
        /\ ended' \in {"no", "crashed", "failClosed"}
    BY <1>8 DEF Passes, FaultChecked, NoSlotLeft, Stage, Initialize, PublishInitTrap, ReleaseReady,
                ReleaseSignal, ParkWait, PublishParkTrap, DeferredWait, DeferredOpen, gate, TypeOK
  <2> QED
    BY <2>1, <2>2 DEF TypeOK
<1>9. ASSUME NEW t \in Thread, Guards(t) PROVE TypeOK'
  <2>1. pc' \in [Thread -> AllStates]
    BY <1>9 DEF Guards, Reguard, ReleaseRestore, DeferredRestore, Go, TypeOK, AllStates, HandlerStates,
                Redirected, InitStates
  <2>2. guarded' \subseteq armed
    BY <1>9 DEF Guards, Reguard, ReleaseRestore, DeferredRestore, Go, FaultsListed, TypeOK
  <2> QED
    BY <1>9, <2>1, <2>2 DEF Guards, Reguard, ReleaseRestore, DeferredRestore, gate, TypeOK
<1> QED
  BY <1>1, <1>2, <1>3, <1>4, <1>5, <1>6, <1>7, <1>8, <1>9, StepCases

\* A thread faults on the page it touched, which is on the list.
LEMMA FaultsKept ==
  ASSUME TypeOK, FaultsListed, [Next]_vars
  PROVE  FaultsListed'
<1>1. CASE Prepare
  BY <1>1 DEF Prepare, FaultsListed
<1>2. CASE HostOpens \/ UNCHANGED vars
  BY <1>2 DEF HostOpens, vars, gate, FaultsListed
<1>3. ASSUME NEW t \in Thread, Touch(t) \/ TouchAgain(t) PROVE FaultsListed'
  BY <1>3, TouchMoves DEF TouchPage, FaultsListed, TypeOK, gate
<1>4. ASSUME NEW t \in Thread, AcquireSlot(t) \/ StageFails(t) \/ Resume(t) \/ Passes(t) \/ Guards(t)
      PROVE  FaultsListed'
  <2>1. /\ UNCHANGED <<prepared, armed, page>> /\ pc[t] # "run"
        /\ \E label \in {"reguard"} : pc' = pc \/ (pc[t] = "fault" /\ pc' = [pc EXCEPT ![t] = label])
             \/ \E other \in AllStates \ {"fault", "reguard"} : pc' = [pc EXCEPT ![t] = other]
    BY <1>4 DEF AcquireSlot, StageFails, Resume, Passes, Guards, FaultChecked, NoSlotLeft, Stage, Initialize,
                PublishInitTrap, ReleaseReady, ReleaseSignal, ParkWait, PublishParkTrap, DeferredWait,
                DeferredOpen, Reguard, ReleaseRestore, DeferredRestore, Go, gate, AllStates, HandlerStates,
                Redirected, InitStates, ParkStates, DeferStates
  <2> QED
    BY <2>1 DEF FaultsListed, TypeOK
<1> QED
  BY <1>1, <1>2, <1>3, <1>4, StepCases


\* A slot belongs to one thread, which gives it back when it resumes.
LEMMA SlotsKept ==
  ASSUME NullsAreNot, TypeOK, FaultsListed, SlotsMatchThreads, SlotHeld, [Next]_vars
  PROVE  SlotsMatchThreads' /\ SlotHeld'
<1>1. CASE Prepare \/ HostOpens \/ UNCHANGED vars
  <2>1. UNCHANGED <<park, slot, pc>> /\ (ended' = "no" => ended = "no")
    BY <1>1 DEF Prepare, HostOpens, vars
  <2> QED
    BY <2>1 DEF SlotsMatchThreads, SlotHeld
<1>2. ASSUME ended = "no", NEW t \in Thread,
             \/ Touch(t) \/ TouchAgain(t)
             \/ Passes(t) \/ Guards(t)
      PROVE  SlotsMatchThreads' /\ SlotHeld'
  <2>1. UNCHANGED <<park, slot>>
    BY <1>2 DEF Touch, TouchAgain, TouchPage, Passes, Guards, FaultChecked, NoSlotLeft, Stage, Initialize,
                PublishInitTrap, ReleaseReady, ReleaseSignal, ParkWait, PublishParkTrap, DeferredWait,
                DeferredOpen, Reguard, ReleaseRestore, DeferredRestore
  <2>2. \/ pc' = pc
        \/ pc[t] \in Uncalled /\ \E label \in Uncalled : pc' = [pc EXCEPT ![t] = label]
        \/ pc[t] \notin Uncalled /\ \E label \in AllStates \ Uncalled : pc' = [pc EXCEPT ![t] = label]
    BY <1>2, TouchMoves DEF TouchPage, Passes, Guards, FaultChecked, NoSlotLeft, Stage, Initialize,
                PublishInitTrap, ReleaseReady, ReleaseSignal, ParkWait, PublishParkTrap, DeferredWait,
                DeferredOpen, Reguard, ReleaseRestore, DeferredRestore, Go, Uncalled, AllStates, HandlerStates,
                Redirected, InitStates, ParkStates, DeferStates
  <2>3. \A u \in Thread : pc'[u] \in Uncalled <=> pc[u] \in Uncalled
    BY <2>2 DEF TypeOK
  <2> QED
    BY <1>2, <2>1, <2>3 DEF SlotsMatchThreads, SlotHeld
<1>3. ASSUME ended = "no", NEW t \in Thread, AcquireSlot(t) PROVE SlotsMatchThreads' /\ SlotHeld'
  <2>1. PICK s \in Slot : /\ park[s] = NoThread /\ park' = [park EXCEPT ![s] = t]
                          /\ slot' = [slot EXCEPT ![t] = s]
    BY <1>3 DEF AcquireSlot
  <2>2. pc[t] = "acquire" /\ pc' = [pc EXCEPT ![t] = "stage"]
    BY <1>3 DEF AcquireSlot, Go
  <2>3. slot[t] = NoSlot /\ s # NoSlot /\ t # NoThread
    BY <1>3, <2>2 DEF NullsAreNot, SlotHeld, Uncalled
  <2>4. \A u \in Thread \ {t} : slot[u] # s
    BY <2>1, <2>3 DEF NullsAreNot, SlotsMatchThreads
  <2>5. \A r \in Slot \ {s} : park[r] # t
    BY <2>3 DEF NullsAreNot, SlotsMatchThreads
  <2>6. SlotsMatchThreads'
    BY <2>1, <2>3, <2>4, <2>5 DEF SlotsMatchThreads, TypeOK
  <2>7. SlotHeld'
    BY <1>3, <2>1, <2>2, <2>3 DEF SlotHeld, Uncalled, TypeOK
  <2> QED
    BY <2>6, <2>7
<1>4. ASSUME ended = "no", NEW t \in Thread, StageFails(t) \/ Resume(t)
      PROVE  SlotsMatchThreads' /\ SlotHeld'
  <2>1. park' = [park EXCEPT ![slot[t]] = NoThread] /\ slot' = [slot EXCEPT ![t] = NoSlot]
    BY <1>4 DEF StageFails, Resume
  <2>2. slot[t] \in Slot /\ slot[t] # NoSlot /\ park[slot[t]] = t
    BY <1>4 DEF NullsAreNot, StageFails, Resume, Go, SlotHeld, Uncalled, SlotsMatchThreads, TypeOK
  <2>3. \A u \in Thread \ {t} : slot[u] # slot[t]
    BY <2>2 DEF SlotsMatchThreads
  <2>4. \A r \in Slot \ {slot[t]} : park[r] # t
    BY <2>2 DEF NullsAreNot, SlotsMatchThreads
  <2>5. SlotsMatchThreads'
    BY <2>1, <2>2, <2>3, <2>4 DEF SlotsMatchThreads, TypeOK
  <2>6. SlotHeld'
    <3>1. CASE StageFails(t)
      BY <3>1 DEF StageFails, SlotHeld
    <3>2. CASE Resume(t)
      BY <1>4, <2>1, <3>2 DEF Resume, Go, SlotHeld, Uncalled, TypeOK
    <3> QED
      BY <1>4, <3>1, <3>2
  <2> QED
    BY <2>5, <2>6
<1> QED
  BY <1>1, <1>2, <1>3, <1>4, StepCases

\* The steps from which a thread starts to open, goes on, or goes by.
LEMMA OpeningMoves ==
  ASSUME TypeOK, FaultsListed, NEW t \in Thread,
         Touch(t) \/ TouchAgain(t) \/ AcquireSlot(t) \/ StageFails(t) \/ Resume(t) \/ Passes(t) \/ Guards(t)
  PROVE  \/ Stage(t)
         \/ /\ assigned' = assigned
            /\ \/ pc' = pc
               \/ \E label \in AllStates \ {"init"} :
                    /\ pc' = [pc EXCEPT ![t] = label]
                    /\ pc[t] \in Opening => label \in Opening \/ ready'
            /\ ready => ready'
         \/ ended' # "no" /\ pc' = pc /\ assigned'
BY TouchMoves DEF TouchPage, Touch, TouchAgain, AcquireSlot, StageFails, Resume, Passes, Guards, FaultChecked,
      NoSlotLeft, Initialize,
      PublishInitTrap, ReleaseReady, ReleaseSignal, ParkWait, PublishParkTrap, DeferredWait,
      DeferredOpen, Reguard, ReleaseRestore, DeferredRestore, Go, AllStates, HandlerStates,
      Redirected, InitStates, ParkStates, DeferStates, Opening, gate


\* The first thread to be staged opens the gate, and no other does what it does.
LEMMA FirstKept ==
  ASSUME TypeOK, FaultsListed, FirstInitializes, [Next]_vars
  PROVE  FirstInitializes'
<1>1. CASE Prepare \/ HostOpens \/ UNCHANGED vars
  <2>1. UNCHANGED <<pc, assigned, ready>> /\ (ended' = "no" => ended = "no")
    BY <1>1 DEF Prepare, HostOpens, vars, gate
  <2> QED
    BY <2>1 DEF FirstInitializes
<1>2. ASSUME ended = "no", NEW t \in Thread,
             \/ Touch(t) \/ TouchAgain(t) \/ AcquireSlot(t) \/ StageFails(t)
             \/ Resume(t) \/ Passes(t) \/ Guards(t)
      PROVE  FirstInitializes'
  <2>1. CASE Stage(t)
    <3>1. pc' = [pc EXCEPT ![t] = IF assigned THEN "wait" ELSE "init"] /\ assigned'
          /\ pc[t] = "stage" /\ ready' = ready
      BY <2>1 DEF Stage
    <3>2. CASE assigned
      BY <1>2, <3>1, <3>2 DEF FirstInitializes, TypeOK, Opening
    <3>3. CASE ~assigned
      <4>1. pc'[t] = "init" /\ \A u \in Thread \ {t} : pc'[u] # "init"
        BY <3>1, <3>3 DEF FirstInitializes, TypeOK
      <4> QED
        BY <3>1, <4>1 DEF FirstInitializes, Opening
    <3> QED
      BY <3>2, <3>3
  <2>2. CASE /\ assigned' = assigned /\ (ready => ready')
             /\ \/ pc' = pc
                \/ \E label \in AllStates \ {"init"} :
                     /\ pc' = [pc EXCEPT ![t] = label]
                     /\ pc[t] \in Opening => label \in Opening \/ ready'
    <3>1. \A u \in Thread : /\ pc'[u] = "init" => pc[u] = "init"
                            /\ pc[u] \in Opening => pc'[u] \in Opening \/ ready'
      BY <2>2 DEF TypeOK
    <3> QED
      BY <1>2, <2>2, <3>1 DEF FirstInitializes
  <2>3. CASE ended' # "no" /\ pc' = pc /\ assigned'
    BY <2>3 DEF FirstInitializes
  <2> QED
    BY <1>2, <2>1, <2>2, <2>3, OpeningMoves
<1> QED
  BY <1>1, <1>2, StepCases

\* Both waits end by an event that is set once the runtime is there.
LEMMA WaitsKept ==
  ASSUME TypeOK, FaultsListed, WaitsHold, [Next]_vars
  PROVE  WaitsHold'
<1> DEFINE Early == {"run", "init", "wait"} \cup HandlerStates
<1>1. CASE Prepare \/ HostOpens \/ UNCHANGED vars
  <2>1. UNCHANGED <<pc, initialized>> /\ (readyEvent' => readyEvent \/ initialized)
    BY <1>1 DEF Prepare, HostOpens, vars, gate
  <2> QED
    BY <2>1 DEF WaitsHold
<1>2. ASSUME ended = "no", NEW t \in Thread,
             \/ Touch(t) \/ TouchAgain(t) \/ AcquireSlot(t) \/ StageFails(t)
             \/ Resume(t) \/ Passes(t) \/ Guards(t)
      PROVE  WaitsHold'
  <2>1. /\ initialized => initialized'
        /\ readyEvent' => readyEvent \/ pc[t] \notin Early
        /\ pc' = pc \/ \E label : /\ pc' = [pc EXCEPT ![t] = label]
                                  /\ label \in Early \/ initialized' \/ readyEvent \/ pc[t] \notin Early
    BY <1>2, TouchMoves DEF TouchPage, Touch, TouchAgain, AcquireSlot, StageFails, Resume, Passes, Guards,
          FaultChecked, NoSlotLeft, Stage, Initialize, PublishInitTrap, ReleaseReady, ReleaseSignal, ParkWait,
          PublishParkTrap, DeferredWait, DeferredOpen, Reguard, ReleaseRestore, DeferredRestore, Go,
          HandlerStates, gate
  <2> HIDE DEF Early
  <2>2. \A u \in Thread : pc[u] \in Early \/ initialized
    BY DEF WaitsHold, Early
  <2>3. \A u \in Thread : pc'[u] \in Early \/ initialized'
    BY <2>1, <2>2 DEF WaitsHold, TypeOK
  <2>4. readyEvent' => initialized'
    BY <2>1, <2>2 DEF WaitsHold
  <2> QED
    BY <2>3, <2>4 DEF WaitsHold, Early
<1> QED
  BY <1>1, <1>2, StepCases

-----------------------------------------------------------------------------
(* The theorems.                                                           *)

\* The gate is closed, unlisted and unassigned at first.
LEMMA InitGate ==
  ASSUME NullsAreNot, ThreadsAndPages
  PROVE  Init => GateInv
<1> SUFFICES ASSUME Init PROVE GateInv
  OBVIOUS
<1>1. TypeOK
  BY DEF ThreadsAndPages, Init, TypeOK, AllStates
<1>2. SlotsMatchThreads
  BY DEF NullsAreNot, Init, SlotsMatchThreads
<1>3. FaultsListed /\ SlotHeld /\ FirstInitializes /\ WaitsHold
  BY DEF Init, FaultsListed, SlotHeld, Uncalled, FirstInitializes, WaitsHold
<1> QED
  BY <1>1, <1>2, <1>3 DEF GateInv, GateIntact

\* Every step keeps the invariant.
LEMMA NextGate ==
  ASSUME NullsAreNot
  PROVE  GateInv /\ [Next]_vars => GateInv'
BY TypeKept, FaultsKept, SlotsKept, FirstKept, WaitsKept DEF GateInv, GateIntact

\* In every run only listed pages are guarded, and a redirected thread has its park
\* slot to itself until it has resumed (AcquireParkSlot, launch_gate.cpp).
THEOREM SlotsAreOwn ==
  ASSUME NullsAreNot, ThreadsAndPages
  PROVE  Spec => []GateIntact
<1>1. GateInv => GateIntact
  BY DEF GateInv
<1> QED
  BY <1>1, InitGate, NextGate, PTL DEF Spec

\* In every run one thread initialises the runtime and works on opening the gate
\* until it is open, and nobody goes back to gated code before the runtime is there
\* (LaunchGateHandleFault and both thunks, launch_gate.cpp).
THEOREM OneThreadOpens ==
  ASSUME NullsAreNot, ThreadsAndPages
  PROVE  Spec => []OneInitializer
<1>1. GateInv => OneInitializer
  <2> SUFFICES ASSUME GateInv PROVE OneInitializer
    OBVIOUS
  <2> DEFINE Works == {t \in Thread : pc[t] \in InitStates \cup {"deferWait", "open"}}
             Inits == {t \in Thread : pc[t] = "init"}
  <2>1. ResumeAfterInit
    BY DEF GateInv, WaitsHold, ResumeAfterInit, HandlerStates
  <2>2. IsFiniteSet(Works) /\ IsFiniteSet(Inits)
    BY FS_Subset DEF ThreadsAndPages
  <2>3. Cardinality(Inits) <= 1
    <3>1. CASE Inits = {}
      BY <3>1, FS_EmptySet
    <3>2. CASE Inits # {}
      <4>1. PICK t \in Inits : Inits = {t}
        BY <3>2 DEF GateInv, FirstInitializes
      <4>2. Cardinality({t}) = 1
        BY FS_Singleton
      <4> QED
        BY <4>1, <4>2
    <3> QED
      BY <3>1, <3>2
  <2>4. assigned /\ ended = "no" /\ ~ready => Works # {}
    BY DEF GateInv, FirstInitializes, Opening, InitStates
  <2>5. Works # {} => Cardinality(Works) >= 1
    <3>1. Cardinality(Works) \in Nat /\ (Works # {} => Cardinality(Works) # 0)
      BY <2>2, FS_CardinalityType, FS_EmptySet
    <3> QED
      BY <3>1
  <2> QED
    BY <2>1, <2>3, <2>4, <2>5 DEF OneInitializer
<1> QED
  BY <1>1, InitGate, NextGate, PTL DEF Spec

====
