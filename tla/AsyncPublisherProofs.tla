------------------------ MODULE AsyncPublisherProofs ------------------------
(***************************************************************************)
(* Theorems about AsyncPublisher, for every set of threads, every pool and *)
(* every bound.                                                            *)
(***************************************************************************)
EXTENDS AsyncPublisher, FiniteSetTheorems, TLAPS

\* The nodes linked by a sequence are nodes, and turning it around keeps its type.
LEMMA ReverseType ==
  ASSUME NEW S, NEW s \in Seq(S)
  PROVE  Reverse(s) \in Seq(S)
BY DEF Reverse

\* The nodes a well-typed sequence links are nodes.
LEMMA ToSetType ==
  ASSUME NEW S, NEW s \in Seq(S)
  PROVE  ToSet(s) \subseteq S
BY DEF ToSet

\* What the nodes of a well-typed sequence carry are events, or nothing yet.
LEMMA EventsOfType ==
  ASSUME TypeOK, NEW s \in Seq(Node)
  PROVE  EventsOf(s) \subseteq Event \cup {NoEvent}
BY ToSetType DEF EventsOf, TypeOK

\* A batch that holds nothing fits its array.
LEMMA EmptyBatch == <<>> \in Batch
BY BoundsAreNatural DEF Batch

-----------------------------------------------------------------------------
(* Type correctness, one step per kind of action.                          *)

\* The module starts type-correct, with nothing allocated.
LEMMA InitType == Init => TypeOK
<1> SUFFICES ASSUME Init PROVE TypeOK
  OBVIOUS
<1>1. /\ hand \in [Thread -> Seq(Node)] /\ pending \in Seq(Node)
      /\ batch \in [Thread -> Batch]
      /\ arrivals \in Seq(Event) /\ handed \in Seq(Event \cup {NoEvent})
  BY EmptyBatch DEF Init
<1>2. /\ pc \in [Thread -> States]
      /\ \A t \in Thread \ Worker : pc[t] = "idle"
      /\ \A w \in Worker : pc[w] = "absent"
  BY DEF Init, Thread, States
<1> QED
  BY <1>1, <1>2, ThreadsDisjoint DEF Init, TypeOK, PcOK, Thread

\* Claiming the pending list moves nodes, and keeps every type.
LEMMA ClaimType ==
  ASSUME TypeOK, NEW t \in Thread, Claim(t)
  PROVE  hand' \in [Thread -> Seq(Node)] /\ pending' \in Seq(Node)
BY ReverseType DEF TypeOK, PcOK, Claim

\* Copying one event out of its node keeps every type.
LEMMA TakeType ==
  ASSUME TypeOK, NEW t \in Thread, TakeOne(t)
  PROVE  /\ batch' \in [Thread -> Batch]
         /\ free' \in SUBSET Node
         /\ hand' \in [Thread -> Seq(Node)]
<1> DEFINE e == event[Head(hand[t])]
<1>1. hand[t] \in Seq(Node) /\ hand[t] # <<>>
  BY DEF TypeOK, PcOK, TakeOne
<1>2. Head(hand[t]) \in Node /\ Tail(hand[t]) \in Seq(Node)
  BY <1>1
<1>3. e \in Event \cup {NoEvent}
  BY <1>2 DEF TypeOK, PcOK
<1>4. Append(batch[t], e) \in Batch
  <2>1. /\ batch[t] \in Seq(Event \cup {NoEvent})
        /\ Len(batch[t]) \in Nat /\ Len(batch[t]) < BatchMax
    BY DEF TypeOK, Batch, TakeOne
  <2> QED
    BY <1>3, <2>1, BoundsAreNatural DEF Batch
<1> QED
  BY <1>2, <1>4 DEF TypeOK, PcOK, TakeOne

\* Handing a batch to the pipe keeps every type.
LEMMA HandOverType ==
  ASSUME TypeOK, NEW t \in Thread, HandOver(t)
  PROVE  /\ batch' \in [Thread -> Batch]
         /\ handed' \in Seq(Event \cup {NoEvent})
<1>1. batch[t] \in Seq(Event \cup {NoEvent})
  BY DEF TypeOK, Batch
<1> QED
  BY <1>1, EmptyBatch DEF TypeOK, HandOver

\* A step of PublishHookEvent keeps every type.
LEMMA ProducerType ==
  ASSUME TypeOK, NEW p \in Producer, PublishCall(p) \/ ProducerStep(p)
  PROVE  TypeOK'
<1> USE ThreadsDisjoint DEF Thread
<1>1. CASE PublishCall(p)
  BY <1>1 DEF TypeOK, PcOK, PublishCall, life, States, SharedStates
<1>2. CASE PublishPop(p)
  BY <1>2 DEF TypeOK, PcOK, PublishPop, life, States, SharedStates
<1>3. CASE PublishShed(p)
  BY <1>3 DEF TypeOK, PcOK, PublishShed, life, States, SharedStates
<1>4. CASE PublishPush(p)
  <2>1. <<p, calls[p]>> \in Event
    BY DEF TypeOK, PcOK, Event
  <2>2. /\ event' \in [Node -> Event \cup {NoEvent}]
        /\ arrivals' \in Seq(Event)
    <3>1. Append(arrivals, <<p, calls[p]>>) \in Seq(Event)
      BY <2>1 DEF TypeOK, PcOK
    <3> QED
      BY <1>4, <2>1, <3>1 DEF TypeOK, PcOK, PublishPush
  <2>3. pending' \in Seq(Node) /\ hand' \in [Thread -> Seq(Node)]
    BY <1>4 DEF TypeOK, PcOK, PublishPush
  <2> QED
    BY <1>4, <2>2, <2>3 DEF TypeOK, PcOK, PublishPush, life, States, SharedStates
<1>5. CASE PublishSetEvent(p)
  BY <1>5 DEF TypeOK, PcOK, PublishSetEvent, States, SharedStates
<1> QED
  BY <1>1, <1>2, <1>3, <1>4, <1>5 DEF ProducerStep


\* A step of AsyncDispatchThread keeps every type.
LEMMA WorkerType ==
  ASSUME TypeOK, NEW w \in Worker, WorkerStep(w)
  PROVE  TypeOK'
<1> USE ThreadsDisjoint DEF Thread, States, LiveWorkerStates
<1>1. CASE WorkerTop(w)
  BY <1>1 DEF TypeOK, PcOK, WorkerTop, life
<1>2. CASE WorkerWait(w)
  BY <1>2 DEF TypeOK, PcOK, WorkerWait
<1>3. CASE WorkerClaim(w)
  <2>1. hand' \in [Thread -> Seq(Node)] /\ pending' \in Seq(Node)
    BY <1>3, ClaimType DEF WorkerClaim
  <2> QED
    BY <1>3, <2>1 DEF TypeOK, PcOK, WorkerClaim, life
<1>4. CASE WorkerTake(w)
  <2>1. CASE TakeOne(w) /\ pc' = pc
    <3>1. /\ batch' \in [Thread -> Batch]
          /\ free' \in SUBSET Node
          /\ hand' \in [Thread -> Seq(Node)]
      BY <2>1, TakeType
    <3> QED
      BY <1>4, <2>1, <3>1 DEF TypeOK, PcOK, WorkerTake, life
  <2>2. CASE pc' = [pc EXCEPT ![w] = "full"] /\ UNCHANGED <<hand, batch, free>>
    BY <1>4, <2>2 DEF TypeOK, PcOK, WorkerTake, life
  <2> QED
    BY <1>4, <2>1, <2>2 DEF WorkerTake
<1>5. CASE WorkerLockPipe(w)
  <2>1. /\ batch' \in [Thread -> Batch]
        /\ handed' \in Seq(Event \cup {NoEvent})
    BY <1>5, HandOverType DEF WorkerLockPipe
  <2> QED
    BY <1>5, <2>1 DEF TypeOK, PcOK, WorkerLockPipe, life
<1>6. CASE WorkerSent(w)
  BY <1>6 DEF TypeOK, PcOK, WorkerSent, life
<1> QED
  BY <1>1, <1>2, <1>3, <1>4, <1>5, <1>6 DEF WorkerStep

\* A step of the synchronous drain keeps every type.
LEMMA DrainerType ==
  ASSUME TypeOK, NEW d \in Drainer, DrainClaim(d) \/ DrainStep(d)
  PROVE  TypeOK'
<1> USE ThreadsDisjoint DEF Thread, States, DrainStates, SharedStates
<1>1. CASE DrainClaim(d)
  <2>1. hand' \in [Thread -> Seq(Node)] /\ pending' \in Seq(Node)
    BY <1>1, ClaimType DEF DrainClaim
  <2>2. PcOK'
    BY <1>1 DEF TypeOK, PcOK, DrainClaim
  <2>3. calls' \in [Thread -> Nat] /\ dispatched' \in [Drainer -> Nat]
    BY <1>1 DEF TypeOK, DrainClaim
  <2> QED
    BY <1>1, <2>1, <2>2, <2>3 DEF TypeOK, DrainClaim, life
<1>2. CASE DrainTake(d)
  <2>1. /\ batch' \in [Thread -> Batch]
        /\ free' \in SUBSET Node
        /\ hand' \in [Thread -> Seq(Node)]
    BY <1>2, TakeType DEF DrainTake
  <2> QED
    BY <1>2, <2>1 DEF TypeOK, PcOK, DrainTake, life
<1>3. CASE DrainFull(d)
  BY <1>3 DEF TypeOK, PcOK, DrainFull, life
<1>4. CASE DrainLockPipe(d)
  <2>1. /\ batch' \in [Thread -> Batch]
        /\ handed' \in Seq(Event \cup {NoEvent})
    BY <1>4, HandOverType DEF DrainLockPipe
  <2>2. Len(batch[d]) \in Nat
    BY DEF TypeOK, Batch
  <2>3. PcOK'
    BY <1>4 DEF TypeOK, PcOK, DrainLockPipe
  <2>4. dispatched' \in [Drainer -> Nat]
    BY <1>4, <2>2 DEF TypeOK, DrainLockPipe
  <2> QED
    BY <1>4, <2>1, <2>3, <2>4 DEF TypeOK, DrainLockPipe, life
<1>5. CASE DrainSent(d)
  <2>1. hand[d] \in Seq(Node)
    BY DEF TypeOK, PcOK
  <2>2. /\ ToSet(hand[d]) \subseteq Node
        /\ EventsOf(hand[d]) \subseteq Event \cup {NoEvent}
    BY <2>1, ToSetType, EventsOfType
  <2>3. free' \in SUBSET Node /\ lost' \in SUBSET (Event \cup {NoEvent})
    BY <1>5, <2>2 DEF TypeOK, PcOK, DrainSent
  <2>4. hand' \in [Thread -> Seq(Node)]
    BY <1>5 DEF TypeOK, PcOK, DrainSent
  <2> QED
    BY <1>5, <2>3, <2>4 DEF TypeOK, PcOK, DrainSent, life
<1> QED
  BY <1>1, <1>2, <1>3, <1>4, <1>5 DEF DrainStep

\* Releasing the resources leaves them null and keeps the types.
LEMMA ReleaseType ==
  ASSUME TypeOK, ReleaseResources
  PROVE  /\ signal' = "null" /\ pool' = FALSE
         /\ lost' \in SUBSET (Event \cup {NoEvent})
<1>1. EventsOf(pending) \subseteq Event \cup {NoEvent}
  BY EventsOfType DEF TypeOK, PcOK
<1> QED
  BY <1>1 DEF TypeOK, PcOK, ReleaseResources

\* A step of Initialize or Shutdown keeps every type.
LEMMA ControllerType ==
  ASSUME TypeOK, NEW c \in Controller, ControllerCall(c) \/ ControllerStep(c)
  PROVE  TypeOK'
<1> USE ThreadsDisjoint DEF Thread, States, BeginCall
<1>1. CASE InitializeAgain(c)
  BY <1>1 DEF TypeOK, PcOK, InitializeAgain, life
<1>2. CASE InitializeBusy(c)
  BY <1>2 DEF TypeOK, PcOK, InitializeBusy, life
<1>3. CASE InitializeFailed(c)
  <2>1. PcOK' /\ calls' \in [Thread -> Nat]
    BY <1>3 DEF TypeOK, PcOK, InitializeFailed
  <2>2. /\ signal' = "null" /\ pool' = FALSE
        /\ lost' \in SUBSET (Event \cup {NoEvent})
    BY <1>3, ReleaseType DEF InitializeFailed
  <2>3. free' \in SUBSET Node /\ pending' \in Seq(Node)
    BY <1>3 DEF InitializeFailed
  <2> QED
    BY <1>3, <2>1, <2>2, <2>3 DEF TypeOK, InitializeFailed
<1>4. CASE InitializeStarts(c)
  <2>1. PICK w \in Worker :
          thread' = w /\ pc' = [pc EXCEPT ![c] = "openWait", ![w] = "top"]
    BY <1>4 DEF InitializeStarts
  <2>2. EventsOf(pending) \subseteq Event \cup {NoEvent}
    BY EventsOfType DEF TypeOK, PcOK
  <2>3. lost' \in SUBSET (Event \cup {NoEvent})
    BY <1>4, <2>2 DEF TypeOK, PcOK, InitializeStarts
  <2>4. /\ pc' \in [Thread -> States]
        /\ pc'[c] = "openWait" /\ pc'[w] = "top"
        /\ \A t \in Thread \ {c, w} : pc'[t] = pc[t]
    BY <2>1 DEF TypeOK, PcOK, LiveWorkerStates
  <2>5. PcOK'
    <3>1. \A u \in Thread : u \in Producer \cup Drainer => pc'[u] = pc[u]
      BY <2>4
    <3>2. \A v \in Worker : pc'[v] \in {"absent", "exited"} \cup LiveWorkerStates
      BY <2>4 DEF TypeOK, PcOK, LiveWorkerStates
    <3>3. \A d \in Controller :
            pc'[d] \in {"idle", "joining", "openWait", "opening", "closing"}
      BY <2>4 DEF TypeOK, PcOK
    <3> QED
      BY <2>4, <3>1, <3>2, <3>3 DEF TypeOK, PcOK
  <2>6. calls' \in [Thread -> Nat] /\ pending' \in Seq(Node)
    BY <1>4 DEF TypeOK, InitializeStarts
  <2> QED
    BY <1>4, <2>1, <2>3, <2>5, <2>6 DEF TypeOK, InitializeStarts
<1>5. CASE ShutdownStop(c)
  <2>1. PcOK' /\ calls' \in [Thread -> Nat]
    BY <1>5 DEF TypeOK, PcOK, ShutdownStop
  <2> QED
    BY <1>5, <2>1 DEF TypeOK, ShutdownStop
<1>6. CASE ShutdownStopped(c)
  <2>1. PcOK' /\ calls' \in [Thread -> Nat]
    BY <1>6 DEF TypeOK, PcOK, ShutdownStopped
  <2>2. CASE ThreadStopped
    BY <1>6, <2>1, <2>2, ReleaseType DEF TypeOK, ShutdownStopped
  <2>3. CASE ~ThreadStopped
    BY <1>6, <2>1, <2>3 DEF TypeOK, ShutdownStopped
  <2> QED
    BY <2>2, <2>3
<1>7. CASE InitializeOpenPipe(c)
  BY <1>7 DEF TypeOK, PcOK, InitializeOpenPipe, life
<1>8. CASE ShutdownJoined(c)
  BY <1>8, ReleaseType DEF TypeOK, PcOK, ShutdownJoined
<1>9. CASE ShutdownTimedOut(c)
  BY <1>9 DEF TypeOK, PcOK, ShutdownTimedOut, life
<1>10. CASE ShutdownClosePipe(c)
  BY <1>10 DEF TypeOK, PcOK, ShutdownClosePipe, life
<1> QED
  BY <1>1, <1>2, <1>3, <1>4, <1>5, <1>6, <1>7, <1>8, <1>9, <1>10
     DEF ControllerCall, ControllerStep

\* Every reachable state of the publisher is type-correct.
THEOREM TypeCorrect == Spec => []TypeOK
<1>1. TypeOK /\ [Next]_vars => TypeOK'
  <2> SUFFICES ASSUME TypeOK, [Next]_vars PROVE TypeOK'
    OBVIOUS
  <2>1. CASE UNCHANGED vars
    BY <2>1 DEF vars, TypeOK, PcOK, Batch
  <2>2. CASE Rest
    BY <2>1, <2>2 DEF Rest
  <2>3. CASE ThreadStep
    BY <2>3, ProducerType, WorkerType, DrainerType, ControllerType DEF ThreadStep
  <2> QED
    BY <2>1, <2>2, <2>3 DEF Next
<1> QED
  BY InitType, <1>1, PTL DEF Spec

-----------------------------------------------------------------------------
(* Resource lifetime.  PoolOutlivesUse and NoOrphanWorker are not inductive *)
(* on their own: they need that a running publisher and a waiting Shutdown *)
(* have the pool and a thread handle, and that the exclusive lock excludes *)
(* both another exclusive holder and every shared one.                     *)

LockExclusion ==
  /\ ExclusiveHeld => ~SharedHeld
  /\ \A c1, c2 \in Controller :
       pc[c1] = "joining" /\ pc[c2] = "joining" => c1 = c2

HandleKept ==
  /\ pool <=> signal # "null"
  /\ running => pool /\ thread \in Worker
  /\ ExclusiveHeld => ~running /\ pool /\ thread \in Worker

LifetimeInv ==
  TypeOK /\ LockExclusion /\ HandleKept /\ NoOrphanWorker /\ PoolOutlivesUse

\* The lifetime invariant holds before anything is allocated.
LEMMA LifetimeInit == Init => LifetimeInv
<1> SUFFICES ASSUME Init PROVE LifetimeInv
  OBVIOUS
<1>1. TypeOK
  BY InitType
<1>2. /\ \A t \in Thread \ Worker : pc[t] = "idle"
      /\ \A w \in Worker : pc[w] = "absent"
  BY DEF Init, Thread
<1>3. \A t \in Thread : pc[t] \notin LiveWorkerStates \cup SharedStates \cup {"joining"}
  BY <1>2 DEF LiveWorkerStates, SharedStates, DrainStates
<1> QED
  BY <1>1, <1>3 DEF LifetimeInv, LockExclusion, HandleKept, NoOrphanWorker,
     PoolOutlivesUse, Init, Live, ExclusiveHeld, SharedHeld, Thread

\* A step that leaves the resources alone and moves one thread between program
\* points with the same claims on them keeps the invariant.
LEMMA SameClaims ==
  ASSUME LifetimeInv, TypeOK', NEW t \in Thread,
         \A u \in Thread \ {t} : pc'[u] = pc[u],
         pc'[t] \in SharedStates => pc[t] \in SharedStates
                                   \/ (~ExclusiveHeld /\ pool),
         pc'[t] \in LiveWorkerStates => pc[t] \in LiveWorkerStates,
         pc'[t] = "joining" => pc[t] = "joining",
         pool' = pool, thread' = thread, running' = running,
         signal' = "null" <=> signal = "null"
  PROVE  LifetimeInv'
<1> USE ThreadsDisjoint DEF Thread
<1>1. LockExclusion'
  <2>1. \A c \in Controller : pc'[c] = "joining" => pc[c] = "joining"
    OBVIOUS
  <2>2. ExclusiveHeld' => ExclusiveHeld
    BY <2>1 DEF ExclusiveHeld
  <2>3. SharedHeld' => SharedHeld \/ ~ExclusiveHeld
    BY DEF SharedHeld
  <2> QED
    BY <2>1, <2>2, <2>3 DEF LifetimeInv, LockExclusion
<1>2. HandleKept'
  BY DEF LifetimeInv, HandleKept, ExclusiveHeld
<1>3. NoOrphanWorker'
  BY DEF LifetimeInv, NoOrphanWorker, Live
<1>4. PoolOutlivesUse'
  BY DEF LifetimeInv, PoolOutlivesUse, HandleKept
<1> QED
  BY <1>1, <1>2, <1>3, <1>4 DEF LifetimeInv

\* A hook callback keeps the lifetime invariant: it enters only while the
\* exclusive lock is free and the publisher runs.
LEMMA ProducerLifetime ==
  ASSUME LifetimeInv, NEW p \in Producer, PublishCall(p) \/ ProducerStep(p)
  PROVE  LifetimeInv'
<1> USE DEF Thread, SharedStates, DrainStates, LiveWorkerStates
<1>1. TypeOK'
  BY ProducerType DEF LifetimeInv
<1>2. pc \in [Thread -> States]
  BY DEF LifetimeInv, TypeOK, PcOK
<1>3. CASE PublishCall(p)
  BY <1>1, <1>2, <1>3, SameClaims DEF PublishCall, life
<1>4. CASE PublishPop(p)
  <2>1. pool
    BY <1>4 DEF PublishPop, LifetimeInv, HandleKept
  <2> QED
    BY <1>1, <1>2, <1>4, <2>1, SameClaims DEF PublishPop, life
<1>5. CASE PublishShed(p)
  BY <1>1, <1>2, <1>5, SameClaims DEF PublishShed, life
<1>6. CASE PublishPush(p)
  BY <1>1, <1>2, <1>6, SameClaims DEF PublishPush, life
<1>7. CASE PublishSetEvent(p)
  <2>1. signal # "null"
    BY <1>7 DEF PublishSetEvent, LifetimeInv, PoolOutlivesUse
  <2> QED
    BY <1>1, <1>2, <1>7, <2>1, SameClaims DEF PublishSetEvent
<1> QED
  BY <1>3, <1>4, <1>5, <1>6, <1>7 DEF ProducerStep

\* The dispatch thread keeps the lifetime invariant: it only ever exits.
LEMMA WorkerLifetime ==
  ASSUME LifetimeInv, NEW w \in Worker, WorkerStep(w)
  PROVE  LifetimeInv'
<1> USE DEF Thread, SharedStates, DrainStates, LiveWorkerStates
<1>1. TypeOK'
  BY WorkerType DEF LifetimeInv
<1>2. pc \in [Thread -> States]
  BY DEF LifetimeInv, TypeOK, PcOK
<1>3. CASE WorkerTop(w)
  BY <1>1, <1>2, <1>3, SameClaims DEF WorkerTop, life
<1>4. CASE WorkerWait(w)
  BY <1>1, <1>2, <1>4, SameClaims DEF WorkerWait
<1>5. CASE WorkerClaim(w)
  BY <1>1, <1>2, <1>5, SameClaims DEF WorkerClaim, life
<1>6. CASE WorkerTake(w)
  BY <1>1, <1>2, <1>6, SameClaims DEF WorkerTake, life
<1>7. CASE WorkerLockPipe(w)
  BY <1>1, <1>2, <1>7, SameClaims DEF WorkerLockPipe, life
<1>8. CASE WorkerSent(w)
  BY <1>1, <1>2, <1>8, SameClaims DEF WorkerSent, life
<1> QED
  BY <1>3, <1>4, <1>5, <1>6, <1>7, <1>8 DEF WorkerStep

\* A drain keeps the lifetime invariant: it enters only while the exclusive
\* lock is free, and past its claim only with a pool.
LEMMA DrainerLifetime ==
  ASSUME LifetimeInv, NEW d \in Drainer, DrainClaim(d) \/ DrainStep(d)
  PROVE  LifetimeInv'
<1> USE DEF Thread, SharedStates, DrainStates, LiveWorkerStates
<1>1. TypeOK'
  BY DrainerType DEF LifetimeInv
<1>2. pc \in [Thread -> States]
  BY DEF LifetimeInv, TypeOK, PcOK
<1>3. CASE DrainClaim(d)
  BY <1>1, <1>2, <1>3, SameClaims DEF DrainClaim, life
<1>4. CASE DrainTake(d)
  BY <1>1, <1>2, <1>4, SameClaims DEF DrainTake, life
<1>5. CASE DrainFull(d)
  BY <1>1, <1>2, <1>5, SameClaims DEF DrainFull, life
<1>6. CASE DrainLockPipe(d)
  BY <1>1, <1>2, <1>6, SameClaims DEF DrainLockPipe, life
<1>7. CASE DrainSent(d)
  BY <1>1, <1>2, <1>7, SameClaims DEF DrainSent, life
<1> QED
  BY <1>3, <1>4, <1>5, <1>6, <1>7 DEF DrainStep

\* With no shared holder and the kept thread ended, nobody uses the pool.
LEMMA StoppedMeansUnused ==
  ASSUME LifetimeInv, ThreadStopped, ~SharedHeld
  PROVE  \A t \in Thread : pc[t] \notin LiveWorkerStates \cup SharedStates
<1> USE ThreadsDisjoint DEF Thread, SharedStates, DrainStates, LiveWorkerStates
<1>1. \A w \in Worker : ~Live(w)
  BY DEF LifetimeInv, NoOrphanWorker, ThreadStopped, Live
<1>2. \A t \in Producer \cup Drainer : pc[t] \notin SharedStates
  BY DEF SharedHeld
<1> QED
  BY <1>1, <1>2 DEF LifetimeInv, TypeOK, PcOK, Live

\* Initialize and Shutdown keep the lifetime invariant: they release only what
\* StoppedMeansUnused shows to be unused.
LEMMA ControllerLifetime ==
  ASSUME LifetimeInv, NEW c \in Controller, ControllerCall(c) \/ ControllerStep(c)
  PROVE  LifetimeInv'
<1> USE ThreadsDisjoint
    DEF Thread, SharedStates, DrainStates, LiveWorkerStates, BeginCall
<1>1. TypeOK'
  BY ControllerType DEF LifetimeInv
<1>2. pc \in [Thread -> States] /\ TypeOK
  BY DEF LifetimeInv, TypeOK, PcOK
<1>3. CASE InitializeAgain(c)
  BY <1>1, <1>2, <1>3, SameClaims DEF InitializeAgain, life
<1>4. CASE InitializeBusy(c)
  BY <1>1, <1>2, <1>4, SameClaims DEF InitializeBusy, life
<1>5. CASE InitializeFailed(c)
  <2>1. \A t \in Thread : pc[t] \notin LiveWorkerStates \cup SharedStates
    BY <1>5, StoppedMeansUnused DEF InitializeFailed
  <2>2. pc' = pc /\ ~running' /\ signal' = "null" /\ pool' = FALSE
    BY <1>5 DEF InitializeFailed, ReleaseResources
  <2>3. ~ExclusiveHeld
    BY <1>5 DEF InitializeFailed
  <2> QED
    BY <1>1, <2>1, <2>2, <2>3 DEF LifetimeInv, LockExclusion, HandleKept,
       NoOrphanWorker, PoolOutlivesUse, Live, ExclusiveHeld, SharedHeld
<1>6. CASE InitializeStarts(c)
  <2>1. \A t \in Thread : pc[t] \notin LiveWorkerStates \cup SharedStates
    BY <1>6, StoppedMeansUnused DEF InitializeStarts
  <2>2. PICK w \in Worker :
          thread' = w /\ pc' = [pc EXCEPT ![c] = "openWait", ![w] = "top"]
    BY <1>6 DEF InitializeStarts
  <2>3. /\ pc'[c] = "openWait" /\ pc'[w] = "top"
        /\ \A t \in Thread \ {c, w} : pc'[t] = pc[t]
    BY <1>2, <2>2
  <2>4. pool' /\ signal' = "clear" /\ thread' \in Worker /\ ~ExclusiveHeld
    BY <1>6, <2>2 DEF InitializeStarts
  <2>5. ~ExclusiveHeld' /\ ~SharedHeld'
    BY <2>1, <2>3, <2>4 DEF ExclusiveHeld, SharedHeld
  <2>6. LockExclusion' /\ HandleKept'
    BY <2>4, <2>5 DEF LockExclusion, HandleKept, ExclusiveHeld
  <2>7. NoOrphanWorker' /\ PoolOutlivesUse'
    BY <2>1, <2>2, <2>3, <2>4 DEF NoOrphanWorker, PoolOutlivesUse, Live
  <2> QED
    BY <1>1, <2>6, <2>7 DEF LifetimeInv
<1>7. CASE ShutdownStop(c)
  <2>1. /\ pc'[c] = "joining" /\ \A t \in Thread \ {c} : pc'[t] = pc[t]
        /\ pool' = pool /\ thread' = thread /\ signal' = "set" /\ ~running'
        /\ ~ExclusiveHeld /\ ~SharedHeld /\ running
    BY <1>2, <1>7 DEF ShutdownStop
  <2>2. pool /\ thread \in Worker
    BY <2>1 DEF LifetimeInv, HandleKept
  <2>3. LockExclusion'
    BY <2>1 DEF LockExclusion, ExclusiveHeld, SharedHeld
  <2>4. HandleKept'
    BY <2>1, <2>2 DEF HandleKept
  <2>5. NoOrphanWorker' /\ PoolOutlivesUse'
    BY <2>1, <2>2 DEF LifetimeInv, NoOrphanWorker, PoolOutlivesUse, Live
  <2> QED
    BY <1>1, <2>3, <2>4, <2>5 DEF LifetimeInv
<1>8. CASE ShutdownStopped(c)
  <2>1. /\ pc'[c] = "closing" /\ \A t \in Thread \ {c} : pc'[t] = pc[t]
        /\ ~ExclusiveHeld /\ ~SharedHeld /\ ~running /\ running' = running
    BY <1>2, <1>8 DEF ShutdownStopped
  <2>2. CASE ~ThreadStopped
    BY <1>1, <1>2, <1>8, <2>1, <2>2, SameClaims DEF ShutdownStopped
  <2>3. CASE ThreadStopped
    <3>1. \A t \in Thread : pc[t] \notin LiveWorkerStates \cup SharedStates
      BY <2>1, <2>3, StoppedMeansUnused
    <3>2. signal' = "null" /\ pool' = FALSE
      BY <1>8, <2>3 DEF ShutdownStopped, ReleaseResources
    <3>3. ~ExclusiveHeld'
      BY <2>1 DEF ExclusiveHeld
    <3>4. LockExclusion' /\ HandleKept'
      BY <2>1, <3>2, <3>3 DEF LockExclusion, HandleKept, ExclusiveHeld
    <3>5. NoOrphanWorker' /\ PoolOutlivesUse'
      BY <2>1, <3>1 DEF NoOrphanWorker, PoolOutlivesUse, Live
    <3> QED
      BY <1>1, <3>4, <3>5 DEF LifetimeInv
  <2> QED
    BY <2>2, <2>3
<1>9. CASE InitializeOpenPipe(c)
  BY <1>1, <1>2, <1>9, SameClaims DEF InitializeOpenPipe, life
<1>10. CASE ShutdownJoined(c)
  <2>1. /\ pc[c] = "joining" /\ pc'[c] = "closing"
        /\ \A t \in Thread \ {c} : pc'[t] = pc[t]
        /\ running' = running /\ signal' = "null" /\ pool' = FALSE
        /\ ThreadStopped
    BY <1>2, <1>10 DEF ShutdownJoined, ReleaseResources, ThreadStopped
  <2>2. ~SharedHeld /\ ~running
    BY <2>1 DEF LifetimeInv, LockExclusion, HandleKept, ExclusiveHeld
  <2>3. \A t \in Thread : pc[t] \notin LiveWorkerStates \cup SharedStates
    BY <2>1, <2>2, StoppedMeansUnused
  <2>4. ~ExclusiveHeld'
    BY <2>1 DEF LifetimeInv, LockExclusion, ExclusiveHeld
  <2>5. LockExclusion' /\ HandleKept'
    BY <2>1, <2>2, <2>4 DEF LockExclusion, HandleKept, ExclusiveHeld
  <2>6. NoOrphanWorker' /\ PoolOutlivesUse'
    BY <2>1, <2>3 DEF NoOrphanWorker, PoolOutlivesUse, Live
  <2> QED
    BY <1>1, <2>5, <2>6 DEF LifetimeInv
<1>11. CASE ShutdownTimedOut(c)
  BY <1>1, <1>2, <1>11, SameClaims DEF ShutdownTimedOut, life
<1>12. CASE ShutdownClosePipe(c)
  BY <1>1, <1>2, <1>12, SameClaims DEF ShutdownClosePipe, life
<1> QED
  BY <1>3, <1>4, <1>5, <1>6, <1>7, <1>8, <1>9, <1>10, <1>11, <1>12
     DEF ControllerCall, ControllerStep

\* Every step keeps the lifetime invariant.
LEMMA LifetimeStep == LifetimeInv /\ [Next]_vars => LifetimeInv'
<1> SUFFICES ASSUME LifetimeInv, [Next]_vars PROVE LifetimeInv'
  OBVIOUS
<1>1. CASE UNCHANGED vars
  <2>1. TypeOK'
    BY <1>1 DEF vars, LifetimeInv, TypeOK, PcOK, Batch
  <2> QED
    BY <1>1, <2>1 DEF vars, LifetimeInv, LockExclusion, HandleKept,
       NoOrphanWorker, PoolOutlivesUse, Live, ExclusiveHeld, SharedHeld
<1>2. CASE Rest
  BY <1>1, <1>2 DEF Rest
<1>3. CASE ThreadStep
  BY <1>3, ProducerLifetime, WorkerLifetime, DrainerLifetime,
     ControllerLifetime DEF ThreadStep
<1> QED
  BY <1>1, <1>2, <1>3 DEF Next

\* However often the publisher is started and stopped, and however long its
\* dispatch thread outlives a Shutdown that gave up on it, the handle of every
\* live dispatch thread is kept: no Initialize starts a second one beside it.
THEOREM Lifetime == Spec => []NoOrphanWorker
<1>1. LifetimeInv => NoOrphanWorker
  BY DEF LifetimeInv
<1> QED
  BY LifetimeInit, LifetimeStep, <1>1, PTL DEF Spec

\* In the same runs nobody who got past the entry checks uses a pool or an event
\* that was released.
THEOREM NothingReleasedInUse == Spec => []PoolOutlivesUse
<1>1. LifetimeInv => PoolOutlivesUse
  BY DEF LifetimeInv
<1> QED
  BY LifetimeInit, LifetimeStep, <1>1, PTL DEF Spec

-----------------------------------------------------------------------------
(* Sequences without repetitions.                                          *)

\* Turning a sequence around moves its elements and repeats none.
LEMMA ReverseElements ==
  ASSUME NEW S, NEW s \in Seq(S)
  PROVE  /\ Len(Reverse(s)) = Len(s)
         /\ \A i \in 1 .. Len(s) : Reverse(s)[i] = s[(Len(s) - i) + 1]
         /\ ToSet(Reverse(s)) = ToSet(s)
         /\ IsInjective(s) => IsInjective(Reverse(s))
<1>1. /\ Len(Reverse(s)) = Len(s) /\ DOMAIN Reverse(s) = 1 .. Len(s) /\ DOMAIN s = 1 .. Len(s)
      /\ \A i \in 1 .. Len(s) : Reverse(s)[i] = s[(Len(s) - i) + 1]
  BY DEF Reverse
<1>2. \A i \in 1 .. Len(s) : (Len(s) - i) + 1 \in 1 .. Len(s) /\ (Len(s) - ((Len(s) - i) + 1)) + 1 = i
  OBVIOUS
<1>3. ToSet(Reverse(s)) = ToSet(s)
  <2>1. \A i \in 1 .. Len(s) : s[i] \in ToSet(Reverse(s))
    BY <1>1, <1>2 DEF ToSet
  <2>2. \A i \in 1 .. Len(s) : Reverse(s)[i] \in ToSet(s)
    BY <1>1, <1>2 DEF ToSet
  <2>3. ToSet(s) \subseteq ToSet(Reverse(s))
    BY <1>1, <2>1, Zenon DEF ToSet
  <2>4. ToSet(Reverse(s)) \subseteq ToSet(s)
    BY <1>1, <2>2, Zenon DEF ToSet
  <2> QED
    BY <2>3, <2>4
<1>4. ASSUME IsInjective(s) PROVE IsInjective(Reverse(s))
  BY <1>1, <1>2, <1>4 DEF IsInjective
<1> QED
  BY <1>1, <1>3, <1>4

\* Taking the first element of a sequence leaves the others.
LEMMA TailElements ==
  ASSUME NEW S, NEW s \in Seq(S), s # <<>>
  PROVE  /\ Head(s) \in S /\ Tail(s) \in Seq(S)
         /\ ToSet(s) = {Head(s)} \cup ToSet(Tail(s))
         /\ IsInjective(s) => IsInjective(Tail(s)) /\ Head(s) \notin ToSet(Tail(s))
<1>1. /\ Tail(s) \in Seq(S) /\ Head(s) = s[1] /\ Head(s) \in S
      /\ DOMAIN s = 1 .. Len(s) /\ DOMAIN Tail(s) = 1 .. (Len(s) - 1) /\ Len(s) \in Nat \ {0}
      /\ \A i \in 1 .. (Len(s) - 1) : Tail(s)[i] = s[i + 1]
  OBVIOUS
<1>2. \A i \in 1 .. Len(s) : i = 1 \/ (i - 1 \in 1 .. (Len(s) - 1) /\ s[i] = Tail(s)[i - 1])
  BY <1>1
<1>3. ToSet(s) = {Head(s)} \cup ToSet(Tail(s))
  <2>1. \A i \in 1 .. Len(s) : s[i] \in {Head(s)} \cup ToSet(Tail(s))
    BY <1>1, <1>2 DEF ToSet
  <2>2. \A i \in 1 .. (Len(s) - 1) : i + 1 \in 1 .. Len(s)
    BY <1>1
  <2>3. \A i \in 1 .. (Len(s) - 1) : Tail(s)[i] \in ToSet(s)
    BY <1>1, <2>2, Zenon DEF ToSet
  <2>4. Head(s) \in ToSet(s)
    BY <1>1 DEF ToSet
  <2>5. ToSet(s) \subseteq {Head(s)} \cup ToSet(Tail(s))
    BY <1>1, <2>1, Zenon DEF ToSet
  <2>6. ToSet(Tail(s)) \subseteq ToSet(s)
    BY <1>1, <2>3, Zenon DEF ToSet
  <2> QED
    BY <2>4, <2>5, <2>6
<1>4. ASSUME IsInjective(s) PROVE IsInjective(Tail(s)) /\ Head(s) \notin ToSet(Tail(s))
  <2>1. \A i \in 1 .. (Len(s) - 1) : i + 1 \in 1 .. Len(s) /\ i + 1 # 1
    BY <1>1
  <2>2. \A i, j \in 1 .. Len(s) : s[i] = s[j] => i = j
    BY <1>1, <1>4 DEF IsInjective
  <2>3. \A i \in 1 .. (Len(s) - 1) : Tail(s)[i] # Head(s)
    BY <1>1, <2>1, <2>2
  <2>4. \A i, j \in 1 .. (Len(s) - 1) : Tail(s)[i] = Tail(s)[j] => i = j
    BY <1>1, <2>1, <2>2
  <2> QED
    BY <1>1, <2>3, <2>4, Zenon DEF IsInjective, ToSet
<1> QED
  BY <1>1, <1>3, <1>4

\* Appending a sequence adds its elements behind.
LEMMA ConcatElements ==
  ASSUME NEW S, NEW s \in Seq(S), NEW t \in Seq(S)
  PROVE  /\ s \o t \in Seq(S) /\ ToSet(s \o t) = ToSet(s) \cup ToSet(t)
         /\ IsInjective(s) /\ IsInjective(t) /\ ToSet(s) \cap ToSet(t) = {} => IsInjective(s \o t)
<1>1. /\ s \o t \in Seq(S) /\ DOMAIN (s \o t) = 1 .. (Len(s) + Len(t))
      /\ DOMAIN s = 1 .. Len(s) /\ DOMAIN t = 1 .. Len(t) /\ Len(s) \in Nat /\ Len(t) \in Nat
      /\ \A i \in 1 .. Len(s) : (s \o t)[i] = s[i]
      /\ \A i \in 1 .. Len(t) : (s \o t)[Len(s) + i] = t[i]
  OBVIOUS
<1>2. \A i \in 1 .. (Len(s) + Len(t)) : i \in 1 .. Len(s)
        \/ (i - Len(s) \in 1 .. Len(t) /\ (s \o t)[i] = t[i - Len(s)])
  BY <1>1
<1>3. ToSet(s \o t) = ToSet(s) \cup ToSet(t)
  <2>1. \A i \in 1 .. Len(t) : Len(s) + i \in 1 .. (Len(s) + Len(t))
    BY <1>1
  <2> QED
    BY <1>1, <1>2, <2>1 DEF ToSet
<1>4. ASSUME IsInjective(s), IsInjective(t), ToSet(s) \cap ToSet(t) = {}
      PROVE  IsInjective(s \o t)
  <2> SUFFICES ASSUME NEW i \in 1 .. (Len(s) + Len(t)), NEW j \in 1 .. (Len(s) + Len(t)),
                      (s \o t)[i] = (s \o t)[j]
               PROVE  i = j
    BY <1>1 DEF IsInjective
  <2>1. \A a \in 1 .. Len(s), b \in 1 .. Len(t) : s[a] # t[b]
    BY <1>1, <1>4 DEF ToSet
  <2>2. CASE i \in 1 .. Len(s) /\ j \in 1 .. Len(s)
    BY <1>1, <1>4, <2>2 DEF IsInjective
  <2>3. CASE i \in 1 .. Len(s) /\ j \notin 1 .. Len(s)
    BY <1>1, <1>2, <2>1, <2>3
  <2>4. CASE i \notin 1 .. Len(s) /\ j \in 1 .. Len(s)
    BY <1>1, <1>2, <2>1, <2>4
  <2>5. CASE i \notin 1 .. Len(s) /\ j \notin 1 .. Len(s)
    <3>1. i - Len(s) = j - Len(s)
      BY <1>1, <1>2, <1>4, <2>5 DEF IsInjective
    <3> QED
      BY <1>1, <3>1
  <2> QED
    BY <2>2, <2>3, <2>4, <2>5
<1> QED
  BY <1>1, <1>3, <1>4

\* A sequence of one element.
LEMMA OneElement ==
  ASSUME NEW S, NEW e \in S
  PROVE  <<e>> \in Seq(S) /\ ToSet(<<e>>) = {e} /\ IsInjective(<<e>>)
BY DEF ToSet, IsInjective

\* Appending an element adds it behind.
LEMMA AppendElements ==
  ASSUME NEW S, NEW s \in Seq(S), NEW e \in S
  PROVE  /\ ToSet(Append(s, e)) = ToSet(s) \cup {e}
         /\ IsInjective(s) /\ e \notin ToSet(s) => IsInjective(Append(s, e))
<1>1. /\ DOMAIN s = 1 .. Len(s) /\ Len(s) \in Nat
      /\ DOMAIN Append(s, e) = 1 .. (Len(s) + 1)
      /\ \A i \in 1 .. Len(s) : Append(s, e)[i] = s[i]
      /\ Append(s, e)[Len(s) + 1] = e
  OBVIOUS
<1>2. \A i \in 1 .. (Len(s) + 1) : i \in 1 .. Len(s) \/ i = Len(s) + 1
  BY <1>1
<1> QED
  BY <1>1, <1>2 DEF ToSet, IsInjective

\* The empty sequence.
LEMMA NoElement == ToSet(<<>>) = {} /\ IsInjective(<<>>)
BY DEF ToSet, IsInjective

-----------------------------------------------------------------------------
(* Every node is in one place.  NodesPartitioned needs to know what threads *)
(* hold at each program point: a hand that were overwritten would leak its *)
(* nodes, and a pool that is replaced must not have nodes in a hand.       *)

\* Nodes are held from the pop or claim to the push or the last take, and a batch
\* is filled from the first take until it is handed over.
HandsBusy ==
  /\ \A t \in Thread : hand[t] # <<>> =>
       pc[t] \in {"push", "take", "full", "send", "faulted"} \cup DrainStates
  /\ \A t \in Thread : batch[t] # <<>> =>
       pc[t] \in {"take", "full", "drainTake", "drainFull"}
  /\ \A p \in Producer : pc[p] = "push" => \E n \in Node : hand[p] = <<n>>
  /\ ProcessEnded => ~pool

\* NodesPartitioned, place by place.
Placed ==
  pool =>
    /\ \A n \in Node : n \in free \/ n \in ToSet(pending)
                         \/ \E t \in Thread : n \in ToSet(hand[t])
    /\ free \cap ToSet(pending) = {} /\ IsInjective(pending)
    /\ \A t \in Thread :
         /\ IsInjective(hand[t])
         /\ ToSet(hand[t]) \cap free = {} /\ ToSet(hand[t]) \cap ToSet(pending) = {}
    /\ \A t, u \in Thread : t # u => ToSet(hand[t]) \cap ToSet(hand[u]) = {}

\* To be in place is to be in exactly one place.
LEMMA PlacedIsPartitioned == TypeOK /\ Placed => NodesPartitioned
<1> SUFFICES ASSUME TypeOK, Placed, pool PROVE NodesPartitioned
  BY DEF NodesPartitioned
<1>1. /\ free \subseteq Node /\ ToSet(pending) \subseteq Node
      /\ \A t \in Thread : ToSet(hand[t]) \subseteq Node
  BY ToSetType DEF TypeOK
<1>2. free \cup ToSet(pending) \cup UNION {ToSet(hand[t]) : t \in Thread} = Node
  <2>1. UNION {ToSet(hand[t]) : t \in Thread} \subseteq Node
    BY <1>1
  <2>2. \A n \in Node : n \in free \cup ToSet(pending) \cup UNION {ToSet(hand[t]) : t \in Thread}
    BY DEF Placed
  <2> QED
    BY <1>1, <2>1, <2>2
<1> QED
  BY <1>2 DEF Placed, NodesPartitioned

\* A pop moves a node from the free list into an empty hand.
LEMMA PopPlaced ==
  ASSUME TypeOK, Placed, NEW t \in Thread, NEW n \in free, hand[t] = <<>>,
         free' = free \ {n}, hand' = [hand EXCEPT ![t] = <<n>>],
         pending' = pending, pool' = pool
  PROVE  Placed'
<1>1. /\ hand'[t] = <<n>> /\ ToSet(hand'[t]) = {n} /\ IsInjective(hand'[t])
      /\ ToSet(hand[t]) = {}
      /\ \A u \in Thread \ {t} : hand'[u] = hand[u]
  BY OneElement, NoElement DEF TypeOK
<1>2. SUFFICES ASSUME pool PROVE Placed'
  BY DEF Placed
<1>3. \A m \in Node : m \in free' \/ m \in ToSet(pending')
                         \/ \E u \in Thread : m \in ToSet(hand'[u])
  <2> SUFFICES ASSUME NEW m \in Node, m \notin free', m \notin ToSet(pending')
               PROVE  \E u \in Thread : m \in ToSet(hand'[u])
    OBVIOUS
  <2>1. CASE m = n
    BY <1>1, <2>1
  <2>2. CASE m # n
    BY <1>1, <1>2, <2>2 DEF Placed
  <2> QED
    BY <2>1, <2>2
<1>4. \A u, v \in Thread : u # v => ToSet(hand'[u]) \cap ToSet(hand'[v]) = {}
  BY <1>1, <1>2 DEF Placed
<1>5. \A u \in Thread :
        /\ IsInjective(hand'[u])
        /\ ToSet(hand'[u]) \cap free' = {} /\ ToSet(hand'[u]) \cap ToSet(pending') = {}
  BY <1>1, <1>2 DEF Placed
<1>6. free' \cap ToSet(pending') = {} /\ IsInjective(pending')
  BY <1>2 DEF Placed
<1> QED
  BY <1>3, <1>4, <1>5, <1>6 DEF Placed

\* A push moves the one node of a hand to the pending list.
LEMMA PushPlaced ==
  ASSUME TypeOK, Placed, NEW t \in Thread, NEW n \in Node, hand[t] = <<n>>,
         pending' = hand[t] \o pending, hand' = [hand EXCEPT ![t] = <<>>],
         free' = free, pool' = pool
  PROVE  Placed'
<1>1. /\ hand'[t] = <<>> /\ ToSet(hand'[t]) = {} /\ IsInjective(hand'[t])
      /\ ToSet(hand[t]) = {n} /\ IsInjective(hand[t])
      /\ \A u \in Thread \ {t} : hand'[u] = hand[u]
  BY OneElement, NoElement DEF TypeOK
<1>2. /\ ToSet(pending') = {n} \cup ToSet(pending)
      /\ IsInjective(pending) /\ n \notin ToSet(pending) => IsInjective(pending')
  <2>1. hand[t] \in Seq(Node) /\ pending \in Seq(Node)
    BY DEF TypeOK
  <2>2. \A r, s \in Seq(Node) :
          /\ ToSet(r \o s) = ToSet(r) \cup ToSet(s)
          /\ IsInjective(r) /\ IsInjective(s) /\ ToSet(r) \cap ToSet(s) = {}
               => IsInjective(r \o s)
    BY ConcatElements
  <2>3. /\ ToSet(hand[t] \o pending) = ToSet(hand[t]) \cup ToSet(pending)
        /\ IsInjective(hand[t]) /\ IsInjective(pending)
             /\ ToSet(hand[t]) \cap ToSet(pending) = {} => IsInjective(hand[t] \o pending)
    BY <2>1, <2>2, Zenon
  <2>4. pending' = hand[t] \o pending
    OBVIOUS
  <2> QED
    BY <1>1, <2>3, <2>4, Zenon
<1>3. SUFFICES ASSUME pool PROVE Placed'
  BY DEF Placed
<1>4. \A m \in Node : m \in free' \/ m \in ToSet(pending')
                         \/ \E u \in Thread : m \in ToSet(hand'[u])
  BY <1>1, <1>2, <1>3 DEF Placed
<1>5. \A u, v \in Thread : u # v => ToSet(hand'[u]) \cap ToSet(hand'[v]) = {}
  <2> SUFFICES ASSUME NEW u \in Thread, NEW v \in Thread, u # v
               PROVE  ToSet(hand'[u]) \cap ToSet(hand'[v]) = {}
    OBVIOUS
  <2>1. u = t \/ v = t \/ (hand'[u] = hand[u] /\ hand'[v] = hand[v])
    BY <1>1
  <2> QED
    BY <1>1, <1>3, <2>1 DEF Placed
<1>6. \A u \in Thread :
        /\ IsInjective(hand'[u])
        /\ ToSet(hand'[u]) \cap free' = {} /\ ToSet(hand'[u]) \cap ToSet(pending') = {}
  BY <1>1, <1>2, <1>3 DEF Placed
<1>7. free' \cap ToSet(pending') = {} /\ IsInjective(pending')
  BY <1>1, <1>2, <1>3 DEF Placed
<1> QED
  BY <1>4, <1>5, <1>6, <1>7 DEF Placed

\* A claim moves the whole pending list into an empty hand.
LEMMA ClaimPlaced ==
  ASSUME TypeOK, Placed, NEW t \in Thread, hand[t] = <<>>, Claim(t),
         free' = free, pool' = pool
  PROVE  Placed'
<1>1. /\ pending' = <<>> /\ ToSet(pending') = {} /\ IsInjective(pending')
      /\ ToSet(hand[t]) = {}
      /\ ToSet(hand'[t]) = ToSet(pending)
      /\ IsInjective(pending) => IsInjective(hand'[t])
      /\ \A u \in Thread \ {t} : hand'[u] = hand[u]
  BY ReverseElements, NoElement DEF TypeOK, Claim
<1>2. SUFFICES ASSUME pool PROVE Placed'
  BY DEF Placed
<1>3. \A m \in Node : m \in free' \/ m \in ToSet(pending')
                         \/ \E u \in Thread : m \in ToSet(hand'[u])
  BY <1>1, <1>2 DEF Placed
<1>4. \A u, v \in Thread : u # v => ToSet(hand'[u]) \cap ToSet(hand'[v]) = {}
  BY <1>1, <1>2 DEF Placed
<1>5. \A u \in Thread :
        /\ IsInjective(hand'[u])
        /\ ToSet(hand'[u]) \cap free' = {} /\ ToSet(hand'[u]) \cap ToSet(pending') = {}
  BY <1>1, <1>2 DEF Placed
<1> QED
  BY <1>1, <1>3, <1>4, <1>5 DEF Placed

\* A take moves the first node of a hand to the free list.
LEMMA TakePlaced ==
  ASSUME TypeOK, Placed, NEW t \in Thread, TakeOne(t),
         pending' = pending, pool' = pool
  PROVE  Placed'
<1> DEFINE n == Head(hand[t])
<1>1. /\ ToSet(hand[t]) = {n} \cup ToSet(hand'[t])
      /\ IsInjective(hand[t]) => IsInjective(hand'[t]) /\ n \notin ToSet(hand'[t])
      /\ \A u \in Thread \ {t} : hand'[u] = hand[u]
  <2>1. hand[t] \in Seq(Node) /\ hand[t] # <<>> /\ hand' = [hand EXCEPT ![t] = Tail(hand[t])]
    BY DEF TypeOK, TakeOne
  <2> QED
    BY <2>1, TailElements DEF TypeOK
<1>2. free' = free \cup {n}
  BY DEF TakeOne
<1> HIDE DEF n
<1>3. SUFFICES ASSUME pool PROVE Placed'
  BY DEF Placed
<1>4. \A m \in Node : m \in free' \/ m \in ToSet(pending')
                         \/ \E u \in Thread : m \in ToSet(hand'[u])
  BY <1>1, <1>2, <1>3 DEF Placed
<1>5. \A u, v \in Thread : u # v => ToSet(hand'[u]) \cap ToSet(hand'[v]) = {}
  BY <1>1, <1>3 DEF Placed
<1>6. \A u \in Thread :
        /\ IsInjective(hand'[u])
        /\ ToSet(hand'[u]) \cap free' = {} /\ ToSet(hand'[u]) \cap ToSet(pending') = {}
  BY <1>1, <1>2, <1>3 DEF Placed
<1>7. free' \cap ToSet(pending') = {} /\ IsInjective(pending')
  BY <1>1, <1>2, <1>3 DEF Placed
<1> QED
  BY <1>4, <1>5, <1>6, <1>7 DEF Placed

\* A drain that gives up moves all nodes of its hand to the free list.
LEMMA ReturnPlaced ==
  ASSUME TypeOK, Placed, NEW t \in Thread,
         free' = free \cup ToSet(hand[t]), hand' = [hand EXCEPT ![t] = <<>>],
         pending' = pending, pool' = pool
  PROVE  Placed'
<1>1. /\ ToSet(hand'[t]) = {} /\ IsInjective(hand'[t])
      /\ \A u \in Thread \ {t} : hand'[u] = hand[u]
  BY NoElement DEF TypeOK
<1>2. SUFFICES ASSUME pool PROVE Placed'
  BY DEF Placed
<1>3. \A m \in Node : m \in free' \/ m \in ToSet(pending')
                         \/ \E u \in Thread : m \in ToSet(hand'[u])
  BY <1>1, <1>2 DEF Placed
<1>4. \A u, v \in Thread : u # v => ToSet(hand'[u]) \cap ToSet(hand'[v]) = {}
  BY <1>1, <1>2 DEF Placed
<1>5. \A u \in Thread :
        /\ IsInjective(hand'[u])
        /\ ToSet(hand'[u]) \cap free' = {} /\ ToSet(hand'[u]) \cap ToSet(pending') = {}
  BY <1>1, <1>2 DEF Placed
<1>6. free' \cap ToSet(pending') = {} /\ IsInjective(pending')
  BY <1>2 DEF Placed
<1> QED
  BY <1>3, <1>4, <1>5, <1>6 DEF Placed

PlaceInv == LifetimeInv /\ HandsBusy /\ Placed

\* A step that moves one thread keeps HandsBusy if it does for that thread.
LEMMA BusyKept ==
  ASSUME HandsBusy, ~ProcessEnded, NEW t \in Thread,
         \A u \in Thread \ {t} :
           pc'[u] = pc[u] /\ hand'[u] = hand[u] /\ batch'[u] = batch[u],
         hand'[t] # <<>> =>
           pc'[t] \in {"push", "take", "full", "send", "faulted"} \cup DrainStates,
         batch'[t] # <<>> => pc'[t] \in {"take", "full", "drainTake", "drainFull"},
         t \in Producer /\ pc'[t] = "push" => \E n \in Node : hand'[t] = <<n>>,
         t \in Drainer /\ pc'[t] = "faulted" => ~pool'
  PROVE  HandsBusy'
<1>1. ProcessEnded' => ~pool'
  BY DEF ProcessEnded, Thread
<1>2. \A p \in Producer : pc'[p] = "push" => \E n \in Node : hand'[p] = <<n>>
  BY DEF HandsBusy, Thread
<1> QED
  BY <1>1, <1>2 DEF HandsBusy

\* A hook callback: one node in hand between the pop and the push.
LEMMA ProducerPlaces ==
  ASSUME PlaceInv, ~ProcessEnded, NEW p \in Producer, PublishCall(p) \/ ProducerStep(p)
  PROVE  HandsBusy' /\ Placed'
<1> USE DEF Thread, DrainStates, Placed
<1>1. /\ TypeOK /\ HandsBusy
      /\ pc \in [Thread -> States] /\ hand \in [Thread -> Seq(Node)] /\ batch \in [Thread -> Batch]
      /\ p \in Thread /\ p \notin Drainer /\ free \subseteq Node
  BY ThreadsDisjoint DEF PlaceInv, LifetimeInv, TypeOK, PcOK
<1>2. CASE PublishCall(p)
  <2>1. HandsBusy'
    BY <1>1, <1>2, BusyKept DEF PublishCall, HandsBusy
  <2> QED
    BY <1>2, <2>1 DEF PublishCall, PlaceInv, life
<1>3. CASE PublishPop(p)
  <2>1. PICK n \in free : free' = free \ {n} /\ hand' = [hand EXCEPT ![p] = <<n>>]
    BY <1>3 DEF PublishPop
  <2>2. hand[p] = <<>> /\ batch[p] = <<>>
    BY <1>1, <1>3 DEF PublishPop, HandsBusy
  <2>3. Placed'
    BY <1>1, <1>3, <2>1, <2>2, PopPlaced DEF PublishPop, PlaceInv, life
  <2>4. n \in Node /\ hand'[p] = <<n>> /\ pc'[p] = "push" /\ batch'[p] = <<>>
    BY <1>1, <1>3, <2>1, <2>2 DEF PublishPop
  <2>5. HandsBusy'
    BY <1>1, <1>3, <2>1, <2>4, BusyKept DEF PublishPop
  <2> QED
    BY <2>3, <2>5
<1>4. CASE PublishShed(p)
  <2>1. HandsBusy'
    BY <1>1, <1>4, BusyKept DEF PublishShed, HandsBusy
  <2> QED
    BY <1>4, <2>1 DEF PublishShed, PlaceInv, life
<1>5. CASE PublishPush(p)
  <2>1. PICK n \in Node : hand[p] = <<n>>
    BY <1>1, <1>5 DEF PublishPush, HandsBusy
  <2>2. Placed'
    BY <1>1, <1>5, <2>1, PushPlaced DEF PublishPush, PlaceInv, life
  <2>3. hand'[p] = <<>> /\ batch'[p] = <<>> /\ pc'[p] = "set"
    BY <1>1, <1>5 DEF PublishPush, HandsBusy
  <2>4. HandsBusy'
    BY <1>1, <1>5, <2>3, BusyKept DEF PublishPush
  <2> QED
    BY <2>2, <2>4
<1>6. CASE PublishSetEvent(p)
  <2>1. HandsBusy'
    BY <1>1, <1>6, BusyKept DEF PublishSetEvent, HandsBusy
  <2> QED
    BY <1>6, <2>1 DEF PublishSetEvent, PlaceInv
<1> QED
  BY <1>2, <1>3, <1>4, <1>5, <1>6 DEF ProducerStep

\* The dispatch thread: its hand is empty again before it claims.
LEMMA WorkerPlaces ==
  ASSUME PlaceInv, ~ProcessEnded, NEW w \in Worker, WorkerStep(w)
  PROVE  HandsBusy' /\ Placed'
<1> USE DEF Thread, DrainStates, Placed
<1>1. /\ TypeOK /\ HandsBusy
      /\ pc \in [Thread -> States] /\ hand \in [Thread -> Seq(Node)] /\ batch \in [Thread -> Batch]
      /\ w \in Thread /\ w \notin Drainer /\ w \notin Producer
  BY ThreadsDisjoint DEF PlaceInv, LifetimeInv, TypeOK, PcOK
<1>2. CASE WorkerTop(w)
  <2>1. HandsBusy'
    BY <1>1, <1>2, BusyKept DEF WorkerTop, HandsBusy
  <2> QED
    BY <1>2, <2>1 DEF WorkerTop, PlaceInv, life
<1>3. CASE WorkerWait(w)
  <2>1. HandsBusy'
    BY <1>1, <1>3, BusyKept DEF WorkerWait, HandsBusy
  <2> QED
    BY <1>3, <2>1 DEF WorkerWait, PlaceInv
<1>4. CASE WorkerClaim(w)
  <2>1. hand[w] = <<>> /\ batch[w] = <<>>
    BY <1>1, <1>4 DEF WorkerClaim, HandsBusy
  <2>2. Placed'
    BY <1>1, <1>4, <2>1, ClaimPlaced DEF WorkerClaim, PlaceInv, life
  <2>3. /\ pc'[w] \in {"top", "take"} /\ batch'[w] = <<>>
        /\ hand'[w] # <<>> => pc'[w] = "take"
    <3>1. pending = <<>> => Reverse(pending) = <<>>
      BY ReverseElements DEF Reverse
    <3> QED
      BY <1>1, <1>4, <2>1, <3>1 DEF WorkerClaim, Claim
  <2>4. HandsBusy'
    BY <1>1, <1>4, <2>3, BusyKept DEF WorkerClaim, Claim
  <2> QED
    BY <2>2, <2>4
<1>5. CASE WorkerTake(w)
  <2>1. CASE TakeOne(w) /\ pc' = pc
    <3>1. Placed'
      BY <1>1, <1>5, <2>1, TakePlaced DEF WorkerTake, PlaceInv, life
    <3>2. HandsBusy'
      BY <1>1, <1>5, <2>1, BusyKept DEF WorkerTake, TakeOne
    <3> QED
      BY <3>1, <3>2
  <2>2. CASE pc' = [pc EXCEPT ![w] = "full"] /\ UNCHANGED <<hand, batch, free>>
    <3>1. HandsBusy'
      BY <1>1, <1>5, <2>2, BusyKept DEF WorkerTake
    <3> QED
      BY <1>5, <2>2, <3>1 DEF WorkerTake, PlaceInv, life
  <2> QED
    BY <1>5, <2>1, <2>2 DEF WorkerTake
<1>6. CASE WorkerLockPipe(w)
  <2>1. HandsBusy'
    BY <1>1, <1>6, BusyKept DEF WorkerLockPipe, HandOver
  <2> QED
    BY <1>6, <2>1 DEF WorkerLockPipe, PlaceInv, life
<1>7. CASE WorkerSent(w)
  <2>1. HandsBusy'
    BY <1>1, <1>7, BusyKept DEF WorkerSent, HandsBusy
  <2> QED
    BY <1>7, <2>1 DEF WorkerSent, PlaceInv, life
<1> QED
  BY <1>2, <1>3, <1>4, <1>5, <1>6, <1>7 DEF WorkerStep

\* A drain: it holds nodes from its claim to its return, and faults only when the
\* pool is gone.
LEMMA DrainerPlaces ==
  ASSUME PlaceInv, ~ProcessEnded, NEW d \in Drainer, DrainClaim(d) \/ DrainStep(d)
  PROVE  HandsBusy' /\ Placed'
<1> USE DEF Thread, DrainStates, Placed
<1>1. /\ TypeOK /\ HandsBusy
      /\ pc \in [Thread -> States] /\ hand \in [Thread -> Seq(Node)] /\ batch \in [Thread -> Batch]
      /\ d \in Thread /\ d \notin Worker /\ d \notin Producer
  BY ThreadsDisjoint DEF PlaceInv, LifetimeInv, TypeOK, PcOK
<1>2. CASE DrainClaim(d)
  <2>1. hand[d] = <<>> /\ batch[d] = <<>>
    BY <1>1, <1>2 DEF DrainClaim, HandsBusy
  <2>2. Placed'
    BY <1>1, <1>2, <2>1, ClaimPlaced DEF DrainClaim, PlaceInv, life
  <2>3. /\ pc'[d] \in {"idle", "drainTake", "faulted"} /\ batch'[d] = <<>>
        /\ hand'[d] # <<>> => pc'[d] \in {"drainTake", "faulted"}
        /\ pc'[d] = "faulted" => ~pool'
    <3>1. pending = <<>> => Reverse(pending) = <<>>
      BY ReverseElements DEF Reverse
    <3> QED
      BY <1>1, <1>2, <2>1, <3>1 DEF DrainClaim, Claim, life
  <2>4. HandsBusy'
    BY <1>1, <1>2, <2>3, BusyKept DEF DrainClaim, Claim
  <2> QED
    BY <2>2, <2>4
<1>3. CASE DrainTake(d)
  <2>1. Placed'
    BY <1>1, <1>3, TakePlaced DEF DrainTake, PlaceInv, life
  <2>2. HandsBusy'
    BY <1>1, <1>3, BusyKept DEF DrainTake, TakeOne
  <2> QED
    BY <2>1, <2>2
<1>4. CASE DrainFull(d)
  <2>1. HandsBusy'
    BY <1>1, <1>4, BusyKept DEF DrainFull
  <2> QED
    BY <1>4, <2>1 DEF DrainFull, PlaceInv, life
<1>5. CASE DrainLockPipe(d)
  <2>1. HandsBusy'
    BY <1>1, <1>5, BusyKept DEF DrainLockPipe, HandOver
  <2> QED
    BY <1>5, <2>1 DEF DrainLockPipe, PlaceInv, life
<1>6. CASE DrainSent(d)
  <2>1. batch[d] = <<>>
    BY <1>1, <1>6 DEF DrainSent, HandsBusy
  <2>2. /\ pc'[d] \in {"idle", "drainTake"} /\ batch'[d] = <<>>
        /\ hand'[d] # <<>> => pc'[d] = "drainTake"
        /\ \A u \in Thread \ {d} : hand'[u] = hand[u] /\ pc'[u] = pc[u] /\ batch'[u] = batch[u]
    BY <1>1, <1>6, <2>1 DEF DrainSent
  <2>3. HandsBusy'
    BY <1>1, <2>2, BusyKept
  <2>4. CASE dispatched[d] >= DrainMax
    <3>1. Placed'
      BY <1>1, <1>6, <2>4, ReturnPlaced DEF DrainSent, PlaceInv, life
    <3> QED
      BY <2>3, <3>1
  <2>5. CASE ~(dispatched[d] >= DrainMax)
    BY <1>6, <2>3, <2>5 DEF DrainSent, PlaceInv, life
  <2> QED
    BY <2>4, <2>5
<1> QED
  BY <1>2, <1>3, <1>4, <1>5, <1>6 DEF DrainStep

\* Nobody holds a node, or a batch, when the pool is not in use.
LEMMA UnusedMeansEmpty ==
  ASSUME PlaceInv, ~ProcessEnded,
         \A t \in Thread : pc[t] \notin LiveWorkerStates \cup SharedStates
  PROVE  \A t \in Thread : hand[t] = <<>> /\ batch[t] = <<>>
<1> SUFFICES ASSUME NEW t \in Thread PROVE hand[t] = <<>> /\ batch[t] = <<>>
  OBVIOUS
<1>1. pc[t] # "faulted"
  BY ThreadsDisjoint DEF ProcessEnded, PlaceInv, LifetimeInv, TypeOK, PcOK, Thread,
     SharedStates, DrainStates, LiveWorkerStates
<1> QED
  BY <1>1 DEF PlaceInv, HandsBusy, LiveWorkerStates, SharedStates, DrainStates

\* Initialize and Shutdown: a new pool is all free, and no hand holds a node of
\* the old one.
LEMMA ControllerPlaces ==
  ASSUME PlaceInv, ~ProcessEnded, NEW c \in Controller, ControllerCall(c) \/ ControllerStep(c)
  PROVE  HandsBusy' /\ Placed'
<1> USE DEF Thread, DrainStates, Placed
<1>1. /\ TypeOK /\ HandsBusy
      /\ pc \in [Thread -> States] /\ hand \in [Thread -> Seq(Node)] /\ batch \in [Thread -> Batch]
      /\ c \in Thread /\ c \notin Worker /\ c \notin Producer /\ c \notin Drainer
      /\ pc[c] \in {"idle", "joining", "openWait", "opening", "closing"}
  BY ThreadsDisjoint DEF PlaceInv, LifetimeInv, TypeOK, PcOK
<1>2. hand[c] = <<>> /\ batch[c] = <<>>
  BY <1>1 DEF HandsBusy
<1>3. CASE InitializeAgain(c)
  <2>1. HandsBusy'
    BY <1>1, <1>2, <1>3, BusyKept DEF InitializeAgain
  <2> QED
    BY <1>3, <2>1 DEF InitializeAgain, PlaceInv, life
<1>4. CASE InitializeBusy(c)
  <2>1. HandsBusy'
    BY <1>1, <1>2, <1>4, BusyKept DEF InitializeBusy
  <2> QED
    BY <1>4, <2>1 DEF InitializeBusy, PlaceInv, life
<1>5. CASE InitializeFailed(c)
  <2>1. HandsBusy'
    BY <1>1, <1>2, <1>5, BusyKept DEF InitializeFailed
  <2> QED
    BY <1>5, <2>1 DEF InitializeFailed, ReleaseResources
<1>6. CASE InitializeStarts(c)
  <2>0. \A t \in Thread : pc[t] \notin LiveWorkerStates \cup SharedStates
    BY <1>6, StoppedMeansUnused DEF InitializeStarts, BeginCall, PlaceInv
  <2>1. \A t \in Thread : hand'[t] = <<>> /\ batch'[t] = <<>>
    BY <1>6, <2>0, UnusedMeansEmpty DEF InitializeStarts
  <2>2. PICK w \in Worker : pc' = [pc EXCEPT ![c] = "openWait", ![w] = "top"]
    BY <1>6 DEF InitializeStarts
  <2>3. \A t \in Thread \ {c, w} : pc'[t] = pc[t]
    BY <1>1, <2>2
  <2>4. \A t \in Thread : t \in Producer \cup Drainer => pc'[t] = pc[t]
    BY <2>3, ThreadsDisjoint
  <2>5. HandsBusy'
    BY <2>0, <2>1, <2>4 DEF HandsBusy, ProcessEnded, SharedStates
  <2>6. free' = Node /\ pending' = <<>>
    BY <1>6 DEF InitializeStarts
  <2>7. Placed'
    BY <2>1, <2>6, NoElement
  <2> QED
    BY <2>5, <2>7
<1>7. CASE InitializeOpenPipe(c)
  <2>1. HandsBusy'
    BY <1>1, <1>2, <1>7, BusyKept DEF InitializeOpenPipe
  <2> QED
    BY <1>7, <2>1 DEF InitializeOpenPipe, PlaceInv, life
<1>8. CASE ShutdownStop(c)
  <2>1. HandsBusy'
    BY <1>1, <1>2, <1>8, BusyKept DEF ShutdownStop
  <2> QED
    BY <1>8, <2>1 DEF ShutdownStop, PlaceInv
<1>9. CASE ShutdownJoined(c)
  <2>1. HandsBusy'
    BY <1>1, <1>2, <1>9, BusyKept DEF ShutdownJoined
  <2> QED
    BY <1>9, <2>1 DEF ShutdownJoined, ReleaseResources
<1>10. CASE ShutdownTimedOut(c)
  <2>1. HandsBusy'
    BY <1>1, <1>2, <1>10, BusyKept DEF ShutdownTimedOut
  <2> QED
    BY <1>10, <2>1 DEF ShutdownTimedOut, PlaceInv, life
<1>11. CASE ShutdownStopped(c)
  <2>1. HandsBusy'
    BY <1>1, <1>2, <1>11, BusyKept DEF ShutdownStopped
  <2> QED
    BY <1>11, <2>1 DEF ShutdownStopped, ReleaseResources, PlaceInv
<1>12. CASE ShutdownClosePipe(c)
  <2>1. HandsBusy'
    BY <1>1, <1>2, <1>12, BusyKept DEF ShutdownClosePipe
  <2> QED
    BY <1>12, <2>1 DEF ShutdownClosePipe, PlaceInv, life
<1> QED
  BY <1>3, <1>4, <1>5, <1>6, <1>7, <1>8, <1>9, <1>10, <1>11, <1>12
     DEF ControllerCall, ControllerStep

\* Before anything is allocated nobody holds anything.
LEMMA PlaceInit == Init => PlaceInv
<1> SUFFICES ASSUME Init PROVE PlaceInv
  OBVIOUS
<1>1. HandsBusy
  BY ThreadsDisjoint DEF Init, HandsBusy, ProcessEnded, Thread
<1> QED
  BY <1>1, LifetimeInit DEF PlaceInv, Placed, Init

\* Every step keeps every node in its one place.
LEMMA PlaceStep == PlaceInv /\ [Next]_vars => PlaceInv'
<1> SUFFICES ASSUME PlaceInv, [Next]_vars PROVE PlaceInv'
  OBVIOUS
<1>1. LifetimeInv'
  BY LifetimeStep DEF PlaceInv
<1>2. CASE UNCHANGED vars
  BY <1>1, <1>2 DEF vars, PlaceInv, HandsBusy, Placed, ProcessEnded
<1>3. CASE ThreadStep
  BY <1>1, <1>3, ProducerPlaces, WorkerPlaces, DrainerPlaces, ControllerPlaces
     DEF ThreadStep, PlaceInv
<1> QED
  BY <1>2, <1>3 DEF Next, Rest

\* While the pool exists every node is in one list or one thread's hand, and in no
\* other: no event's memory gets two owners, and the pool never shrinks, however
\* pushes, claims and drains interleave (pipe.cpp: PublishHookEvent,
\* AsyncDispatchThread, DrainPendingHookEventsSynchronously).
THEOREM NodesStayPlaced == Spec => []NodesPartitioned
<1>1. PlaceInv => NodesPartitioned
  BY PlacedIsPartitioned DEF PlaceInv, LifetimeInv
<1> QED
  BY PlaceInit, PlaceStep, <1>1, PTL DEF Spec

-----------------------------------------------------------------------------
(* Every accepted event is accounted for once.  AcceptedOnce counts; what  *)
(* is inductive is that the places an event can be in are disjoint, that   *)
(* none repeats an event, and that a producer's next event is a new one.   *)

\* A node that carries an accepted event: on the list, or claimed.
Linked(n) == pool /\ (n \in ToSet(pending) \/ \E t \in Dispatcher : n \in ToSet(hand[t]))

Carried == {event[n] : n \in {m \in Node : Linked(m)}}
Batched == UNION {ToSet(batch[t]) : t \in Dispatcher}

\* The places make up what has arrived, and no two of them share an event.
Apart ==
  /\ ToSet(arrivals) = ToSet(handed) \cup lost \cup Batched \cup Carried
  /\ ToSet(handed) \cap lost = {} /\ ToSet(handed) \cap Batched = {}
  /\ ToSet(handed) \cap Carried = {} /\ lost \cap Batched = {}
  /\ lost \cap Carried = {} /\ Batched \cap Carried = {}

\* No place has an event twice.
Single ==
  /\ IsInjective(arrivals) /\ IsInjective(handed)
  /\ \A t \in Dispatcher : IsInjective(batch[t])
  /\ \A t, u \in Dispatcher : t # u => ToSet(batch[t]) \cap ToSet(batch[u]) = {}
  /\ \A m, n \in Node : Linked(m) /\ Linked(n) /\ event[m] = event[n] => m = n

\* The event a producer is about to push has not arrived.
Fresh ==
  \A e \in ToSet(arrivals) :
    /\ e[2] <= calls[e[1]]
    /\ pc[e[1]] \in {"calling", "push"} => e[2] < calls[e[1]]

EventInv == PlaceInv /\ Apart /\ Single /\ Fresh

\* Types the steps below rely on.
LEMMA EventTypes ==
  ASSUME PlaceInv
  PROVE  /\ TypeOK /\ pending \in Seq(Node) /\ ToSet(pending) \subseteq Node
         /\ \A t \in Thread : /\ hand[t] \in Seq(Node) /\ ToSet(hand[t]) \subseteq Node
                              /\ batch[t] \in Seq(Event \cup {NoEvent})
         /\ handed \in Seq(Event \cup {NoEvent}) /\ arrivals \in Seq(Event)
         /\ ToSet(arrivals) \subseteq Event
         /\ Dispatcher \subseteq Thread /\ Dispatcher \cap Producer = {}
         /\ Dispatcher \cap Controller = {}
BY ToSetType, ThreadsDisjoint DEF PlaceInv, LifetimeInv, TypeOK, Batch, Dispatcher, Thread

\* Numbers of calls that do not change keep events fresh.
LEMMA FreshKept ==
  ASSUME PlaceInv, Fresh, arrivals' = arrivals,
         \A p \in Producer : /\ calls'[p] = calls[p]
                             /\ pc'[p] \in {"calling", "push"} => pc[p] \in {"calling", "push"}
  PROVE  Fresh'
<1>1. \A e \in ToSet(arrivals) : e[1] \in Producer
  BY EventTypes DEF Event
<1> QED
  BY <1>1 DEF Fresh

\* A step that leaves events where they are keeps them accounted for.
LEMMA EventsStay ==
  ASSUME PlaceInv, Apart, Single, UNCHANGED <<arrivals, handed, lost, batch, event>>,
         \A n \in Node : Linked(n)' <=> Linked(n)
  PROVE  Apart' /\ Single'
<1>1. Carried' = Carried /\ Batched' = Batched
  BY DEF Carried, Batched
<1> QED
  BY <1>1 DEF Apart, Single

\* As long as lists and hands of dispatching threads stay, the same nodes are linked.
LEMMA LinkedStay ==
  ASSUME UNCHANGED <<pool, pending>>, \A t \in Dispatcher : hand'[t] = hand[t]
  PROVE  \A n \in Node : Linked(n)' <=> Linked(n)
BY DEF Linked

\* Claiming the list leaves the same nodes linked.
LEMMA ClaimLinks ==
  ASSUME PlaceInv, NEW t \in Dispatcher, Claim(t), hand[t] = <<>>, pool' = pool
  PROVE  \A n \in Node : Linked(n)' <=> Linked(n)
<1>1. /\ ToSet(hand'[t]) = ToSet(pending) /\ ToSet(pending') = {} /\ ToSet(hand[t]) = {}
      /\ \A u \in Dispatcher \ {t} : hand'[u] = hand[u]
  BY EventTypes, ReverseElements, NoElement DEF Claim, TypeOK
<1> QED
  BY <1>1 DEF Linked

\* A push adds an event that is new to those that arrived and those on the way.
LEMMA PushAccounted ==
  ASSUME EventInv, NEW p \in Producer, PublishPush(p)
  PROVE  Apart' /\ Single'
<1> DEFINE e == <<p, calls[p]>>
<1>1. /\ TypeOK /\ p \in Thread /\ p \notin Dispatcher /\ e \in Event
      /\ pc[p] = "push" /\ calls[p] \in Nat
  BY EventTypes DEF EventInv, TypeOK, PublishPush, Thread, Event
<1>2. e \notin ToSet(arrivals)
  BY <1>1, EventTypes DEF EventInv, Fresh, Event
<1>3. PICK n \in Node : hand[p] = <<n>>
  BY <1>1 DEF EventInv, PlaceInv, HandsBusy
<1>4. /\ event' = [event EXCEPT ![n] = e] /\ pending' = <<n>> \o pending
      /\ arrivals' = Append(arrivals, e)
      /\ UNCHANGED <<pool, handed, lost, batch>>
      /\ \A t \in Dispatcher : hand'[t] = hand[t]
  BY <1>1, <1>3, EventTypes DEF PublishPush, life, TypeOK, EventInv
<1>5. /\ ToSet(arrivals') = ToSet(arrivals) \cup {e}
      /\ IsInjective(arrivals) => IsInjective(arrivals')
  BY <1>1, <1>2, <1>4, EventTypes, AppendElements DEF EventInv
<1>6. ToSet(pending') = {n} \cup ToSet(pending)
  <2>1. <<n>> \in Seq(Node) /\ ToSet(<<n>>) = {n} /\ pending \in Seq(Node)
    BY OneElement, EventTypes DEF EventInv
  <2>2. \A r, s \in Seq(Node) : ToSet(r \o s) = ToSet(r) \cup ToSet(s)
    BY ConcatElements
  <2>3. ToSet(<<n>> \o pending) = ToSet(<<n>>) \cup ToSet(pending)
    BY <2>1, <2>2, Zenon
  <2> QED
    BY <1>4, <2>1, <2>3
<1>7. pool
  BY <1>1 DEF EventInv, PlaceInv, LifetimeInv, PoolOutlivesUse, SharedStates
<1>8. ~Linked(n)
  <2>1. n \in ToSet(hand[p])
    BY <1>3, OneElement
  <2> QED
    BY <1>1, <1>7, <2>1, EventTypes DEF EventInv, PlaceInv, Placed, Linked
<1>9. /\ \A m \in Node : Linked(m)' <=> Linked(m) \/ m = n
      /\ event'[n] = e /\ \A m \in Node \ {n} : event'[m] = event[m]
  BY <1>1, <1>4, <1>6, <1>7 DEF Linked, TypeOK
<1>10. Carried' = Carried \cup {e} /\ Batched' = Batched
  <2>1. \A m \in Node : Linked(m) => Linked(m)' /\ event'[m] = event[m]
    BY <1>8, <1>9
  <2>2. Linked(n)' /\ event'[n] = e
    BY <1>9
  <2>3. \A m \in Node : Linked(m)' => (Linked(m) /\ event'[m] = event[m]) \/ event'[m] = e
    BY <1>8, <1>9
  <2>4. Carried' \subseteq Carried \cup {e}
    BY <2>3 DEF Carried
  <2>5. Carried \cup {e} \subseteq Carried'
    BY <2>1, <2>2 DEF Carried
  <2> QED
    BY <1>4, <2>4, <2>5 DEF Batched
<1> HIDE DEF e
<1>11. Apart'
  BY <1>2, <1>4, <1>5, <1>10 DEF EventInv, Apart
<1>12. \A k, m \in Node : Linked(k)' /\ Linked(m)' /\ event'[k] = event'[m] => k = m
  <2>1. \A m \in Node : Linked(m) => event[m] # e
    BY <1>2 DEF EventInv, Apart, Carried
  <2> QED
    BY <1>8, <1>9, <2>1 DEF EventInv, Single
<1> QED
  BY <1>4, <1>5, <1>11, <1>12 DEF EventInv, Single

\* A take moves an event from its node to the batch.
LEMMA TakeAccounted ==
  ASSUME EventInv, NEW t \in Dispatcher, TakeOne(t), pool,
         UNCHANGED <<pool, pending, event, arrivals, handed, lost>>
  PROVE  Apart' /\ Single'
<1> DEFINE n == Head(hand[t])
           e == event[n]
<1>1. /\ TypeOK /\ t \in Thread /\ hand[t] \in Seq(Node) /\ hand[t] # <<>>
      /\ n \in Node /\ e \in Event \cup {NoEvent}
      /\ batch[t] \in Seq(Event \cup {NoEvent})
  BY EventTypes DEF EventInv, TypeOK, TakeOne
<1>2. /\ ToSet(hand[t]) = {n} \cup ToSet(hand'[t])
      /\ n \notin ToSet(hand'[t])
      /\ \A u \in Dispatcher \ {t} : hand'[u] = hand[u] /\ batch'[u] = batch[u]
  <2>1. hand' = [hand EXCEPT ![t] = Tail(hand[t])] /\ IsInjective(hand[t])
    BY <1>1 DEF TakeOne, EventInv, PlaceInv, Placed
  <2>2. hand'[t] = Tail(hand[t])
    BY <1>1, <2>1 DEF TypeOK
  <2>3. /\ ToSet(hand[t]) = {n} \cup ToSet(Tail(hand[t]))
        /\ n \notin ToSet(Tail(hand[t]))
    BY <1>1, <2>1, TailElements
  <2>4. \A u \in Dispatcher \ {t} : hand'[u] = hand[u] /\ batch'[u] = batch[u]
    BY <1>1, EventTypes DEF TakeOne, TypeOK, EventInv
  <2> QED
    BY <2>2, <2>3, <2>4
<1>3. batch'[t] = Append(batch[t], e)
  BY <1>1 DEF TakeOne, TypeOK
<1>4. Linked(n) /\ \A m \in Node : Linked(m)' <=> Linked(m) /\ m # n
  <2>1. n \notin ToSet(pending) /\ \A u \in Dispatcher \ {t} : n \notin ToSet(hand[u])
    BY <1>1, <1>2, EventTypes DEF EventInv, PlaceInv, Placed
  <2> QED
    BY <1>2, <2>1 DEF Linked
<1>5. e \in Carried /\ e \notin Batched /\ e \notin ToSet(batch[t])
  <2>1. e \in Carried
    BY <1>1, <1>4 DEF Carried
  <2> QED
    BY <2>1 DEF EventInv, Apart, Batched
<1>6. Carried' = Carried \ {e}
  <2>1. \A m \in Node : Linked(m)' <=> Linked(m) /\ event[m] # e
    BY <1>1, <1>4 DEF EventInv, Single
  <2> QED
    BY <2>1 DEF Carried
<1> HIDE DEF e, n
<1>7. ToSet(batch'[t]) = ToSet(batch[t]) \cup {e} /\ IsInjective(batch'[t])
  BY <1>1, <1>3, <1>5, AppendElements DEF EventInv, Single
<1>8. Batched' = Batched \cup {e}
  BY <1>2, <1>7 DEF Batched
<1>9. Apart'
  BY <1>5, <1>6, <1>8 DEF EventInv, Apart
<1>10. \A u, v \in Dispatcher : u # v => ToSet(batch'[u]) \cap ToSet(batch'[v]) = {}
  <2> SUFFICES ASSUME NEW u \in Dispatcher, NEW v \in Dispatcher, u # v
               PROVE  ToSet(batch'[u]) \cap ToSet(batch'[v]) = {}
    OBVIOUS
  <2>1. \A x \in Dispatcher : e \notin ToSet(batch[x])
    BY <1>5 DEF Batched
  <2> QED
    BY <1>2, <1>7, <2>1 DEF EventInv, Single
<1>11. \A u \in Dispatcher : IsInjective(batch'[u])
  BY <1>2, <1>7 DEF EventInv, Single
<1> QED
  BY <1>4, <1>9, <1>10, <1>11 DEF EventInv, Single

\* Handing over moves the events of a batch to the pipe.
LEMMA HandAccounted ==
  ASSUME EventInv, NEW t \in Dispatcher, HandOver(t),
         UNCHANGED <<pool, pending, hand, event, arrivals, lost>>
  PROVE  Apart' /\ Single'
<1>1. /\ TypeOK /\ t \in Thread
      /\ batch[t] \in Seq(Event \cup {NoEvent}) /\ handed \in Seq(Event \cup {NoEvent})
      /\ handed' = handed \o batch[t]
      /\ batch'[t] = <<>> /\ ToSet(batch'[t]) = {} /\ IsInjective(batch'[t])
      /\ \A u \in Dispatcher \ {t} : batch'[u] = batch[u]
  BY EventTypes, NoElement DEF EventInv, HandOver, TypeOK
<1>2. \A n \in Node : Linked(n)' <=> Linked(n)
  BY LinkedStay
<1>3. Carried' = Carried
  BY <1>2 DEF Carried
<1>4. ToSet(batch[t]) \subseteq Batched /\ Batched' = Batched \ ToSet(batch[t])
  <2>1. \A u \in Dispatcher \ {t} : ToSet(batch[u]) \cap ToSet(batch[t]) = {}
    BY DEF EventInv, Single
  <2> QED
    BY <1>1, <2>1 DEF Batched
<1>5. IsInjective(handed) /\ IsInjective(batch[t]) /\ ToSet(handed) \cap ToSet(batch[t]) = {}
  BY <1>4 DEF EventInv, Single, Apart
<1>6. ToSet(handed') = ToSet(handed) \cup ToSet(batch[t]) /\ IsInjective(handed')
  <2>1. \A r, s \in Seq(Event \cup {NoEvent}) :
          /\ ToSet(r \o s) = ToSet(r) \cup ToSet(s)
          /\ IsInjective(r) /\ IsInjective(s) /\ ToSet(r) \cap ToSet(s) = {}
               => IsInjective(r \o s)
    BY ConcatElements
  <2> QED
    BY <1>1, <1>5, <2>1, Zenon
<1>7. Apart'
  BY <1>3, <1>4, <1>6 DEF EventInv, Apart
<1>8. \A u, v \in Dispatcher : u # v => ToSet(batch'[u]) \cap ToSet(batch'[v]) = {}
  BY <1>1 DEF EventInv, Single
<1> QED
  BY <1>1, <1>2, <1>6, <1>7, <1>8 DEF EventInv, Single

\* A drain that gives up counts the events of its hand as lost.
LEMMA GiveUpAccounted ==
  ASSUME EventInv, NEW t \in Dispatcher, pool,
         hand' = [hand EXCEPT ![t] = <<>>], lost' = lost \cup EventsOf(hand[t]),
         UNCHANGED <<pool, pending, batch, event, arrivals, handed>>
  PROVE  Apart' /\ Single'
<1>1. /\ TypeOK /\ t \in Thread /\ ToSet(hand[t]) \subseteq Node
      /\ hand'[t] = <<>> /\ ToSet(hand'[t]) = {}
      /\ \A u \in Dispatcher \ {t} : hand'[u] = hand[u]
  BY EventTypes, NoElement DEF EventInv, TypeOK
<1>2. /\ \A n \in ToSet(hand[t]) : Linked(n)
      /\ \A m \in Node : Linked(m)' <=> Linked(m) /\ m \notin ToSet(hand[t])
  <2>1. \A n \in ToSet(hand[t]) :
          n \notin ToSet(pending) /\ \A u \in Dispatcher \ {t} : n \notin ToSet(hand[u])
    BY <1>1, EventTypes DEF EventInv, PlaceInv, Placed
  <2> QED
    BY <1>1, <2>1 DEF Linked
<1>3. /\ Carried' = Carried \ EventsOf(hand[t]) /\ EventsOf(hand[t]) \subseteq Carried
      /\ Batched' = Batched
  <2>1. \A m \in Node : Linked(m)' <=> Linked(m) /\ event[m] \notin EventsOf(hand[t])
    BY <1>1, <1>2 DEF EventInv, Single, EventsOf
  <2>2. EventsOf(hand[t]) \subseteq Carried
    BY <1>1, <1>2 DEF EventsOf, Carried
  <2> QED
    BY <2>1, <2>2 DEF Carried, Batched
<1>4. Apart'
  BY <1>3 DEF EventInv, Apart
<1> QED
  BY <1>2, <1>4 DEF EventInv, Single

\* Giving up the pool counts the events of the list as lost: with nobody using the
\* pool there are no others.
LEMMA ReleaseAccounted ==
  ASSUME EventInv, ~ProcessEnded,
         \A t \in Thread : pc[t] \notin LiveWorkerStates \cup SharedStates,
         lost' = IF pool THEN lost \cup EventsOf(pending) ELSE lost,
         \A n \in Node : ~Linked(n)',
         UNCHANGED <<batch, event, arrivals, handed>>
  PROVE  Apart' /\ Single'
<1>1. \A t \in Thread : hand[t] = <<>> /\ batch[t] = <<>>
  BY UnusedMeansEmpty DEF EventInv
<1>2. /\ \A t \in Dispatcher : ToSet(hand[t]) = {} /\ ToSet(batch[t]) = {}
      /\ ToSet(pending) \subseteq Node
  BY <1>1, EventTypes, NoElement DEF EventInv
<1>3. Batched = {} /\ Batched' = {} /\ Carried' = {}
  BY <1>2 DEF Batched, Carried
<1>4. Carried = IF pool THEN EventsOf(pending) ELSE {}
  BY <1>2 DEF Carried, Linked, EventsOf
<1>5. Apart'
  BY <1>3, <1>4 DEF EventInv, Apart
<1> QED
  BY <1>5 DEF EventInv, Single


\* A hook callback: its event is accepted with the push, and with nothing else.
LEMMA ProducerAccounted ==
  ASSUME EventInv, NEW p \in Producer, PublishCall(p) \/ ProducerStep(p)
  PROVE  Apart' /\ Single' /\ Fresh'
<1>1. /\ TypeOK /\ PlaceInv /\ p \in Thread /\ p \notin Dispatcher
      /\ pc \in [Thread -> States] /\ calls \in [Thread -> Nat] /\ Producer \subseteq Thread
      /\ hand \in [Thread -> Seq(Node)]
      /\ \A e \in ToSet(arrivals) : e[1] \in Producer /\ e[2] \in Nat
  BY EventTypes DEF EventInv, TypeOK, PcOK, Thread, Event
<1>2. CASE PublishCall(p)
  <2>1. Apart' /\ Single'
    BY <1>2, LinkedStay, EventsStay DEF PublishCall, EventInv, life
  <2>2. Fresh'
    <3>1. /\ calls'[p] = calls[p] + 1 /\ pc'[p] = "calling" /\ arrivals' = arrivals
          /\ \A q \in Producer \ {p} : calls'[q] = calls[q] /\ pc'[q] = pc[q]
      BY <1>1, <1>2 DEF PublishCall
    <3>2. calls[p] \in Nat
      BY <1>1
    <3>3. ASSUME NEW e \in ToSet(arrivals)
          PROVE  /\ e[2] <= calls'[e[1]]
                 /\ pc'[e[1]] \in {"calling", "push"} => e[2] < calls'[e[1]]
      <4>1. e[1] \in Producer /\ e[2] \in Nat /\ e[2] <= calls[e[1]] /\ calls[e[1]] \in Nat
        BY <1>1 DEF EventInv, Fresh
      <4>2. CASE e[1] = p
        BY <3>1, <4>1, <4>2
      <4>3. CASE e[1] # p
        BY <3>1, <4>1, <4>3 DEF EventInv, Fresh
      <4> QED
        BY <4>2, <4>3
    <3> QED
      BY <3>1, <3>3 DEF Fresh
  <2> QED
    BY <2>1, <2>2
<1>3. CASE PublishPop(p)
  <2>1. Fresh'
    BY <1>1, <1>3, FreshKept DEF PublishPop, EventInv
  <2>2. \A t \in Dispatcher : hand'[t] = hand[t]
    BY <1>1, <1>3, EventTypes DEF PublishPop
  <2>3. Apart' /\ Single'
    BY <1>3, <2>2, LinkedStay, EventsStay DEF PublishPop, EventInv, life
  <2> QED
    BY <2>1, <2>3
<1>4. CASE PublishShed(p)
  <2>1. Fresh'
    BY <1>1, <1>4, FreshKept DEF PublishShed, EventInv
  <2>2. Apart' /\ Single'
    BY <1>4, LinkedStay, EventsStay DEF PublishShed, EventInv, life
  <2> QED
    BY <2>1, <2>2
<1>5. CASE PublishPush(p)
  <2>1. Apart' /\ Single'
    BY <1>5, PushAccounted
  <2>2. /\ ToSet(arrivals') = ToSet(arrivals) \cup {<<p, calls[p]>>}
        /\ pc[p] = "push" /\ pc'[p] = "set" /\ calls' = calls /\ calls[p] \in Nat
        /\ \A q \in Producer \ {p} : pc'[q] = pc[q]
    <3>1. arrivals \in Seq(Event) /\ <<p, calls[p]>> \in Event
      BY <1>1, EventTypes DEF Event
    <3>2. \A s \in Seq(Event), e \in Event : ToSet(Append(s, e)) = ToSet(s) \cup {e}
      BY AppendElements
    <3>3. ToSet(Append(arrivals, <<p, calls[p]>>)) = ToSet(arrivals) \cup {<<p, calls[p]>>}
      BY <3>1, <3>2, Zenon
    <3> QED
      BY <1>1, <1>5, <3>3 DEF PublishPush
  <2>3. Fresh'
    BY <1>1, <2>2 DEF EventInv, Fresh
  <2> QED
    BY <2>1, <2>3
<1>6. CASE PublishSetEvent(p)
  <2>1. Fresh'
    BY <1>1, <1>6, FreshKept DEF PublishSetEvent, EventInv
  <2>2. Apart' /\ Single'
    BY <1>6, LinkedStay, EventsStay DEF PublishSetEvent, EventInv
  <2> QED
    BY <2>1, <2>2
<1> QED
  BY <1>2, <1>3, <1>4, <1>5, <1>6 DEF ProducerStep

\* What threads other than callbacks do makes no event stale.
LEMMA FreshElsewhere ==
  ASSUME EventInv, ~ProcessEnded,
         \/ \E w \in Worker : WorkerStep(w)
         \/ \E d \in Drainer : DrainClaim(d) \/ DrainStep(d)
         \/ \E c \in Controller : ControllerCall(c) \/ ControllerStep(c)
  PROVE  Fresh'
<1>1. /\ PlaceInv /\ pc \in [Thread -> States] /\ calls \in [Thread -> Nat]
      /\ Producer \subseteq Thread
      /\ \A p \in Producer : p \notin Worker /\ p \notin Drainer /\ p \notin Controller
  BY ThreadsDisjoint DEF EventInv, PlaceInv, LifetimeInv, TypeOK, PcOK, Thread
<1>2. CASE \E w \in Worker : WorkerStep(w)
  <2>1. PICK w \in Worker : WorkerStep(w)
    BY <1>2
  <2>2. calls' = calls /\ arrivals' = arrivals /\ \A p \in Producer : pc'[p] = pc[p]
    BY <1>1, <2>1 DEF WorkerStep, WorkerTop, WorkerWait, WorkerClaim, WorkerTake,
       WorkerLockPipe, WorkerSent
  <2> QED
    BY <1>1, <2>2, FreshKept DEF EventInv
<1>3. CASE \E d \in Drainer : DrainClaim(d) \/ DrainStep(d)
  <2>1. PICK d \in Drainer : DrainClaim(d) \/ DrainStep(d)
    BY <1>3
  <2>2. arrivals' = arrivals /\ \A p \in Producer : pc'[p] = pc[p] /\ calls'[p] = calls[p]
    BY <1>1, <2>1 DEF DrainStep, DrainClaim, DrainTake, DrainFull, DrainLockPipe, DrainSent
  <2> QED
    BY <1>1, <2>2, FreshKept DEF EventInv
<1>4. CASE \E c \in Controller : ControllerCall(c)
  <2>1. PICK c \in Controller : ControllerCall(c)
    BY <1>4
  <2>2. arrivals' = arrivals /\ \A p \in Producer : pc'[p] = pc[p] /\ calls'[p] = calls[p]
    BY <1>1, <2>1 DEF ControllerCall, BeginCall, InitializeAgain, InitializeBusy,
       InitializeFailed, InitializeStarts, ShutdownStop, ShutdownStopped
  <2> QED
    BY <1>1, <2>2, FreshKept DEF EventInv
<1>5. CASE \E c \in Controller : ControllerStep(c)
  <2>1. PICK c \in Controller : ControllerStep(c)
    BY <1>5
  <2>2. arrivals' = arrivals /\ \A p \in Producer : pc'[p] = pc[p] /\ calls'[p] = calls[p]
    BY <1>1, <2>1 DEF ControllerStep, InitializeOpenPipe, ShutdownJoined, ShutdownTimedOut,
       ShutdownClosePipe
  <2> QED
    BY <1>1, <2>2, FreshKept DEF EventInv
<1> QED
  BY <1>2, <1>3, <1>4, <1>5

\* The dispatch thread: from the list to its hand, its batch and the pipe.
LEMMA WorkerAccounted ==
  ASSUME EventInv, ~ProcessEnded, NEW w \in Worker, WorkerStep(w)
  PROVE  Apart' /\ Single'
<1>1. /\ TypeOK /\ PlaceInv /\ w \in Thread /\ w \in Dispatcher
      /\ pc[w] \in LiveWorkerStates => pool
  BY DEF EventInv, PlaceInv, LifetimeInv, PoolOutlivesUse, Thread, Dispatcher
<1>2. CASE WorkerTop(w)
  BY <1>1, <1>2, LinkedStay, EventsStay DEF WorkerTop, EventInv, life
<1>3. CASE WorkerWait(w)
  BY <1>1, <1>3, LinkedStay, EventsStay DEF WorkerWait, EventInv
<1>4. CASE WorkerClaim(w)
  <2>1. hand[w] = <<>>
    BY <1>1, <1>4 DEF WorkerClaim, PlaceInv, HandsBusy, DrainStates
  <2> QED
    BY <1>1, <1>4, <2>1, ClaimLinks, EventsStay DEF WorkerClaim, EventInv, life
<1>5. CASE WorkerTake(w)
  <2>1. CASE TakeOne(w) /\ pc' = pc
    BY <1>1, <1>5, <2>1, TakeAccounted DEF WorkerTake, LiveWorkerStates, life
  <2>2. CASE UNCHANGED <<hand, batch, free>>
    BY <1>1, <1>5, <2>2, LinkedStay, EventsStay DEF WorkerTake, EventInv, life
  <2> QED
    BY <1>5, <2>1, <2>2 DEF WorkerTake
<1>6. CASE WorkerLockPipe(w)
  BY <1>1, <1>6, HandAccounted DEF WorkerLockPipe, life
<1>7. CASE WorkerSent(w)
  BY <1>1, <1>7, LinkedStay, EventsStay DEF WorkerSent, EventInv, life
<1> QED
  BY <1>2, <1>3, <1>4, <1>5, <1>6, <1>7 DEF WorkerStep

\* A drain: the same way, and past its limit what is left is lost.
LEMMA DrainerAccounted ==
  ASSUME EventInv, ~ProcessEnded, NEW d \in Drainer, DrainClaim(d) \/ DrainStep(d)
  PROVE  Apart' /\ Single'
<1>1. /\ TypeOK /\ PlaceInv /\ d \in Thread /\ d \in Dispatcher
      /\ pc[d] \in SharedStates => pool
  BY DEF EventInv, PlaceInv, LifetimeInv, PoolOutlivesUse, Thread, Dispatcher
<1>2. CASE DrainClaim(d)
  <2>1. hand[d] = <<>>
    BY <1>1, <1>2 DEF DrainClaim, PlaceInv, HandsBusy, DrainStates
  <2> QED
    BY <1>1, <1>2, <2>1, ClaimLinks, EventsStay DEF DrainClaim, EventInv, life
<1>3. CASE DrainTake(d)
  BY <1>1, <1>3, TakeAccounted DEF DrainTake, SharedStates, DrainStates, life
<1>4. CASE DrainFull(d)
  BY <1>1, <1>4, LinkedStay, EventsStay DEF DrainFull, EventInv, life
<1>5. CASE DrainLockPipe(d)
  BY <1>1, <1>5, HandAccounted DEF DrainLockPipe, life
<1>6. CASE DrainSent(d)
  <2>1. CASE dispatched[d] >= DrainMax
    BY <1>1, <1>6, <2>1, GiveUpAccounted DEF DrainSent, SharedStates, DrainStates, life
  <2>2. CASE ~(dispatched[d] >= DrainMax)
    BY <1>1, <1>6, <2>2, LinkedStay, EventsStay DEF DrainSent, EventInv, life
  <2> QED
    BY <2>1, <2>2
<1> QED
  BY <1>2, <1>3, <1>4, <1>5, <1>6 DEF DrainStep

\* Initialize and Shutdown: a release counts what the list still links.
LEMMA ControllerAccounted ==
  ASSUME EventInv, ~ProcessEnded, NEW c \in Controller, ControllerCall(c) \/ ControllerStep(c)
  PROVE  Apart' /\ Single'
<1>1. /\ TypeOK /\ PlaceInv /\ LifetimeInv
      /\ ~pool' => \A n \in Node : ~Linked(n)'
  BY DEF EventInv, PlaceInv, LifetimeInv, Linked
<1>2. CASE InitializeAgain(c)
  BY <1>1, <1>2, LinkedStay, EventsStay DEF InitializeAgain, EventInv, life
<1>3. CASE InitializeBusy(c)
  BY <1>1, <1>3, LinkedStay, EventsStay DEF InitializeBusy, EventInv, life
<1>4. CASE InitializeFailed(c)
  <2>1. \A t \in Thread : pc[t] \notin LiveWorkerStates \cup SharedStates
    BY <1>1, <1>4, StoppedMeansUnused DEF InitializeFailed, BeginCall
  <2> QED
    BY <1>1, <1>4, <2>1, ReleaseAccounted DEF InitializeFailed, ReleaseResources
<1>5. CASE InitializeStarts(c)
  <2>1. \A t \in Thread : pc[t] \notin LiveWorkerStates \cup SharedStates
    BY <1>1, <1>5, StoppedMeansUnused DEF InitializeStarts, BeginCall
  <2>2. \A t \in Thread : hand'[t] = <<>>
    BY <1>1, <1>5, <2>1, UnusedMeansEmpty DEF InitializeStarts
  <2>3. ToSet(pending') = {} /\ \A t \in Dispatcher : ToSet(hand'[t]) = {}
    BY <1>1, <1>5, <2>2, NoElement, EventTypes DEF InitializeStarts
  <2>4. \A n \in Node : ~Linked(n)'
    BY <2>3 DEF Linked
  <2> QED
    BY <1>5, <2>1, <2>4, ReleaseAccounted DEF InitializeStarts
<1>6. CASE InitializeOpenPipe(c)
  BY <1>1, <1>6, LinkedStay, EventsStay DEF InitializeOpenPipe, EventInv, life
<1>7. CASE ShutdownStop(c)
  BY <1>1, <1>7, LinkedStay, EventsStay DEF ShutdownStop, EventInv
<1>8. CASE ShutdownJoined(c)
  <2>1. ThreadStopped /\ ~SharedHeld
    BY <1>1, <1>8 DEF ShutdownJoined, ThreadStopped, LifetimeInv, LockExclusion, ExclusiveHeld
  <2>2. \A t \in Thread : pc[t] \notin LiveWorkerStates \cup SharedStates
    BY <1>1, <2>1, StoppedMeansUnused
  <2> QED
    BY <1>1, <1>8, <2>2, ReleaseAccounted DEF ShutdownJoined, ReleaseResources
<1>9. CASE ShutdownTimedOut(c)
  BY <1>1, <1>9, LinkedStay, EventsStay DEF ShutdownTimedOut, EventInv, life
<1>10. CASE ShutdownStopped(c) /\ ThreadStopped
  <2>1. \A t \in Thread : pc[t] \notin LiveWorkerStates \cup SharedStates
    BY <1>1, <1>10, StoppedMeansUnused DEF ShutdownStopped, BeginCall
  <2> QED
    BY <1>1, <1>10, <2>1, ReleaseAccounted DEF ShutdownStopped, ReleaseResources
<1>11. CASE ShutdownStopped(c) /\ ~ThreadStopped
  BY <1>1, <1>11, LinkedStay, EventsStay DEF ShutdownStopped, EventInv
<1>12. CASE ShutdownClosePipe(c)
  BY <1>1, <1>12, LinkedStay, EventsStay DEF ShutdownClosePipe, EventInv, life
<1> QED
  BY <1>2, <1>3, <1>4, <1>5, <1>6, <1>7, <1>8, <1>9, <1>10, <1>11, <1>12
     DEF ControllerCall, ControllerStep

\* Nothing has arrived yet.
LEMMA EventInit == Init => EventInv
<1> SUFFICES ASSUME Init PROVE EventInv
  OBVIOUS
<1>1. /\ PlaceInv /\ ToSet(arrivals) = {} /\ ToSet(handed) = {} /\ lost = {} /\ ~pool
      /\ IsInjective(arrivals) /\ IsInjective(handed)
  BY PlaceInit, NoElement DEF Init
<1>2. \A t \in Dispatcher : ToSet(batch[t]) = {} /\ IsInjective(batch[t])
  BY NoElement DEF Init, Dispatcher, Thread
<1>3. Batched = {} /\ Carried = {}
  BY <1>1, <1>2 DEF Batched, Carried, Linked
<1> QED
  BY <1>1, <1>2, <1>3 DEF EventInv, Apart, Single, Fresh, Linked

\* Every step keeps every event accounted for.
LEMMA EventStep == EventInv /\ [Next]_vars => EventInv'
<1> SUFFICES ASSUME EventInv, [Next]_vars PROVE EventInv'
  OBVIOUS
<1>1. PlaceInv'
  BY PlaceStep DEF EventInv
<1>2. CASE UNCHANGED vars
  <2>1. Apart' /\ Single'
    BY <1>2, LinkedStay, EventsStay DEF vars, EventInv
  <2>2. Fresh'
    BY <1>2, FreshKept DEF vars, EventInv
  <2> QED
    BY <1>1, <2>1, <2>2 DEF EventInv
<1>3. CASE ThreadStep
  <2>1. CASE \E p \in Producer : PublishCall(p) \/ ProducerStep(p)
    BY <1>1, <2>1, ProducerAccounted DEF EventInv
  <2>2. CASE \E w \in Worker : WorkerStep(w)
    BY <1>1, <1>3, <2>2, WorkerAccounted, FreshElsewhere DEF EventInv, ThreadStep
  <2>3. CASE \E d \in Drainer : DrainClaim(d) \/ DrainStep(d)
    BY <1>1, <1>3, <2>3, DrainerAccounted, FreshElsewhere DEF EventInv, ThreadStep
  <2>4. CASE \E c \in Controller : ControllerCall(c) \/ ControllerStep(c)
    BY <1>1, <1>3, <2>4, ControllerAccounted, FreshElsewhere DEF EventInv, ThreadStep
  <2> QED
    BY <1>3, <2>1, <2>2, <2>3, <2>4 DEF ThreadStep
<1> QED
  BY <1>2, <1>3 DEF Next, Rest

\* A sequence without repetitions is as long as it has elements.
LEMMA LengthCounts ==
  ASSUME NEW S, NEW s \in Seq(S), IsInjective(s)
  PROVE  IsFiniteSet(ToSet(s)) /\ Cardinality(ToSet(s)) = Len(s)
<1>1. Len(s) \in Nat /\ DOMAIN s = 1 .. Len(s)
  OBVIOUS
<1>2. IsFiniteSet(1 .. Len(s)) /\ Cardinality(1 .. Len(s)) = Len(s)
  BY <1>1, FS_Interval
<1>3. s \in Bijection(1 .. Len(s), ToSet(s))
  <2>1. s \in [1 .. Len(s) -> ToSet(s)]
    BY <1>1 DEF ToSet
  <2> QED
    BY <1>1, <2>1 DEF Bijection, Injection, Surjection, IsInjective, ToSet
<1> QED
  BY <1>2, <1>3, FS_Bijection DEF ExistsBijection

\* What is in flight is what linked nodes and batches carry.
LEMMA InFlightPlaces ==
  ASSUME EventInv
  PROVE  InFlight = Carried \cup Batched
<1>1. /\ PlaceInv /\ TypeOK /\ ToSet(pending) \subseteq Node /\ Dispatcher \subseteq Thread
      /\ \A t \in Dispatcher : ToSet(hand[t]) \subseteq Node
  BY EventTypes DEF EventInv
<1>2. CASE pool
  <2>1. \A t \in Dispatcher : pc[t] # "faulted"
    BY <1>1, <1>2, ThreadsDisjoint
       DEF PlaceInv, HandsBusy, ProcessEnded, Dispatcher, TypeOK, PcOK, LiveWorkerStates
  <2>2. Carried = EventsOf(pending) \cup UNION {EventsOf(hand[t]) : t \in Dispatcher}
    <3>1. Carried \subseteq EventsOf(pending) \cup UNION {EventsOf(hand[t]) : t \in Dispatcher}
      BY DEF Carried, Linked, EventsOf
    <3>2. EventsOf(pending) \subseteq Carried
      BY <1>1, <1>2 DEF Carried, Linked, EventsOf
    <3>3. \A t \in Dispatcher : EventsOf(hand[t]) \subseteq Carried
      BY <1>1, <1>2 DEF Carried, Linked, EventsOf
    <3> QED
      BY <3>1, <3>2, <3>3
  <2>3. {u \in Dispatcher : pc[u] # "faulted"} = Dispatcher
    BY <2>1
  <2>4. \A e : e \in InFlight <=>
          \/ e \in EventsOf(pending)
          \/ \E t \in Dispatcher : e \in EventsOf(hand[t]) \/ e \in ToSet(batch[t])
    BY <1>2, <2>3 DEF InFlight
  <2>5. \A e : e \in Carried <=>
          e \in EventsOf(pending) \/ \E t \in Dispatcher : e \in EventsOf(hand[t])
    BY <2>2
  <2>6. \A e : e \in Batched <=> \E t \in Dispatcher : e \in ToSet(batch[t])
    BY DEF Batched
  <2>7. \A e : e \in InFlight <=> e \in Carried \/ e \in Batched
    BY <2>4, <2>5, <2>6
  <2> QED
    BY <2>7
<1>3. CASE ~pool
  <2>1. \A t \in Dispatcher : batch[t] = <<>>
    BY <1>1, <1>3, ThreadsDisjoint DEF PlaceInv, LifetimeInv, PoolOutlivesUse, HandsBusy,
       LiveWorkerStates, SharedStates, DrainStates
  <2>2. \A t \in Dispatcher : pc[t] # "faulted" => hand[t] = <<>>
    BY <1>1, <1>3, ThreadsDisjoint DEF PlaceInv, LifetimeInv, PoolOutlivesUse, HandsBusy,
       LiveWorkerStates, SharedStates, DrainStates
  <2>3. Carried = {} /\ Batched = {}
    BY <1>3, <2>1, NoElement DEF Carried, Linked, Batched
  <2>4. \A t \in Dispatcher : pc[t] # "faulted" => EventsOf(hand[t]) = {} /\ ToSet(batch[t]) = {}
    BY <2>1, <2>2, NoElement DEF EventsOf
  <2>5. InFlight = {}
    BY <1>3, <2>4 DEF InFlight
  <2> QED
    BY <2>3, <2>5
<1> QED
  BY <1>2, <1>3

\* With every place disjoint and free of repetitions, the counts add up.
LEMMA Counted == EventInv => AcceptedOnce
<1> SUFFICES ASSUME EventInv PROVE AcceptedOnce
  OBVIOUS
<1>1. ToSet(arrivals) = ToSet(handed) \cup lost \cup InFlight
  BY InFlightPlaces DEF EventInv, Apart
<1>2. /\ ToSet(handed) \cap lost = {}
      /\ (ToSet(handed) \cup lost) \cap InFlight = {}
  BY InFlightPlaces DEF EventInv, Apart
<1>3. /\ IsFiniteSet(ToSet(arrivals)) /\ Cardinality(ToSet(arrivals)) = Len(arrivals)
      /\ IsFiniteSet(ToSet(handed)) /\ Cardinality(ToSet(handed)) = Len(handed)
  BY LengthCounts, EventTypes DEF EventInv, Single
<1>4. IsFiniteSet(lost) /\ IsFiniteSet(InFlight) /\ IsFiniteSet(ToSet(handed) \cup lost)
  BY <1>1, <1>3, FS_Subset
<1>5. /\ Cardinality(lost) \in Nat /\ Cardinality(InFlight) \in Nat
      /\ Len(handed) \in Nat /\ Len(arrivals) \in Nat
  BY <1>4, FS_CardinalityType, EventTypes DEF EventInv
<1>6. Cardinality(ToSet(handed) \cup lost) = Len(handed) + Cardinality(lost)
  <2>1. Cardinality(ToSet(handed) \cup lost)
          = Cardinality(ToSet(handed)) + Cardinality(lost) - Cardinality({})
    BY <1>2, <1>3, <1>4, FS_Union
  <2> QED
    BY <1>3, <1>5, <2>1, FS_EmptySet
<1>7. Cardinality(ToSet(arrivals)) = Len(handed) + Cardinality(lost) + Cardinality(InFlight)
  <2>1. Cardinality((ToSet(handed) \cup lost) \cup InFlight)
          = Cardinality(ToSet(handed) \cup lost) + Cardinality(InFlight) - Cardinality({})
    BY <1>2, <1>4, FS_Union
  <2> QED
    BY <1>1, <1>5, <1>6, <2>1, FS_EmptySet
<1> QED
  BY <1>1, <1>3, <1>7 DEF AcceptedOnce

\* An event that PublishHookEvent accepted is in flight, handed to the pipe or counted
\* lost, and only one of these, through every interleaving of publishers, dispatch
\* thread, drains and restarts (pipe.cpp: PublishHookEvent, AsyncDispatchThread,
\* DrainPendingHookEventsSynchronously, ReleaseAsyncResourcesLocked).
THEOREM AcceptedEventsAccounted == Spec => []AcceptedOnce
BY EventInit, EventStep, Counted, PTL DEF Spec

-----------------------------------------------------------------------------
(* The order of events.  ArrivalOrderKept speaks of the pipe only; it is    *)
(* inductive together with the order of everything on its way there: what   *)
(* was handed over, then the batch, then the claim, then the pending list,  *)
(* whose head is the newest.  A drain claims the list past a dispatch       *)
(* thread that still works off its own claim, so order is kept up to the    *)
(* first drain.                                                             *)

NoDrainYet == \A d \in Drainer : calls[d] = 0

\* e was pushed before f.
Precedes(e, f) ==
  \E a, b \in DOMAIN arrivals : a < b /\ arrivals[a] = e /\ arrivals[b] = f

Before(E, F) == \A e \in E, f \in F : Precedes(e, f)

Ascending(events) ==
  \A i, j \in DOMAIN events : i < j => Precedes(events[i], events[j])
NodesAscend(nodes) ==
  \A i, j \in DOMAIN nodes : i < j => Precedes(event[nodes[i]], event[nodes[j]])
NodesDescend(nodes) ==
  \A i, j \in DOMAIN nodes : i < j => Precedes(event[nodes[j]], event[nodes[i]])

\* What a dispatch thread holds, between the pipe and the list.
ClaimOrdered(w) ==
  /\ NodesAscend(hand[w])
  /\ Before(ToSet(handed), EventsOf(hand[w]))
  /\ Before(ToSet(batch[w]), EventsOf(hand[w]))
  /\ Before(ToSet(batch[w]), EventsOf(pending))
  /\ Before(EventsOf(hand[w]), EventsOf(pending))

Ordered ==
  /\ Ascending(handed)
  /\ \A w \in Worker : Ascending(batch[w]) /\ Before(ToSet(handed), ToSet(batch[w]))
  /\ pool => /\ NodesDescend(pending) /\ Before(ToSet(handed), EventsOf(pending))
             /\ \A w \in Worker : ClaimOrdered(w)

OrderInv ==
  EventInv /\ (NoDrainYet => Ordered /\ \A d \in Drainer : pc[d] = "idle")

\* Appending a later event keeps the order.
LEMMA AppendAscends ==
  ASSUME NEW S, NEW s \in Seq(S), NEW e \in S, Ascending(s), Before(ToSet(s), {e})
  PROVE  Ascending(Append(s, e))
<1>1. /\ DOMAIN s = 1 .. Len(s) /\ Len(s) \in Nat
      /\ DOMAIN Append(s, e) = 1 .. (Len(s) + 1)
      /\ \A i \in 1 .. Len(s) : Append(s, e)[i] = s[i] /\ Precedes(s[i], e)
      /\ Append(s, e)[Len(s) + 1] = e
  BY DEF Before, ToSet
<1>2. \A i, j \in 1 .. (Len(s) + 1) : i < j =>
        i \in 1 .. Len(s) /\ (j \in 1 .. Len(s) \/ j = Len(s) + 1)
  BY <1>1
<1> QED
  BY <1>1, <1>2 DEF Ascending

\* So does appending later events in order.
LEMMA ConcatAscends ==
  ASSUME NEW S, NEW s \in Seq(S), NEW t \in Seq(S),
         Ascending(s), Ascending(t), Before(ToSet(s), ToSet(t))
  PROVE  Ascending(s \o t)
<1>1. /\ DOMAIN (s \o t) = 1 .. (Len(s) + Len(t))
      /\ DOMAIN s = 1 .. Len(s) /\ DOMAIN t = 1 .. Len(t) /\ Len(s) \in Nat /\ Len(t) \in Nat
      /\ \A i \in 1 .. Len(s) : (s \o t)[i] = s[i]
      /\ \A i \in 1 .. Len(t) : (s \o t)[Len(s) + i] = t[i]
  OBVIOUS
<1>2. \A i \in 1 .. (Len(s) + Len(t)) : i \in 1 .. Len(s)
        \/ (i - Len(s) \in 1 .. Len(t) /\ (s \o t)[i] = t[i - Len(s)])
  <2> SUFFICES ASSUME NEW i \in 1 .. (Len(s) + Len(t)), i \notin 1 .. Len(s)
               PROVE  i - Len(s) \in 1 .. Len(t) /\ (s \o t)[i] = t[i - Len(s)]
    OBVIOUS
  <2>1. i - Len(s) \in 1 .. Len(t) /\ Len(s) + (i - Len(s)) = i
    BY <1>1
  <2> QED
    BY <1>1, <2>1
<1>3. \A i \in 1 .. Len(s), j \in 1 .. Len(t) : Precedes(s[i], t[j])
  BY <1>1 DEF Before, ToSet
<1> SUFFICES ASSUME NEW i \in 1 .. (Len(s) + Len(t)), NEW j \in 1 .. (Len(s) + Len(t)), i < j
             PROVE  Precedes((s \o t)[i], (s \o t)[j])
  BY <1>1 DEF Ascending
<1>4. CASE j \in 1 .. Len(s)
  BY <1>1, <1>4 DEF Ascending
<1>5. CASE i \in 1 .. Len(s) /\ j \notin 1 .. Len(s)
  BY <1>1, <1>2, <1>3, <1>5
<1>6. CASE i \notin 1 .. Len(s) /\ j \notin 1 .. Len(s)
  <2>1. i - Len(s) < j - Len(s)
    BY <1>1
  <2> QED
    BY <1>1, <1>2, <1>6, <2>1 DEF Ascending
<1> QED
  BY <1>1, <1>4, <1>5, <1>6

\* The first node of a claim carries the oldest of its events.
LEMMA TailAscends ==
  ASSUME NEW s \in Seq(Node), s # <<>>, NodesAscend(s)
  PROVE  /\ NodesAscend(Tail(s)) /\ Before({event[Head(s)]}, EventsOf(Tail(s)))
         /\ EventsOf(s) = {event[Head(s)]} \cup EventsOf(Tail(s))
<1>1. /\ Head(s) = s[1] /\ DOMAIN s = 1 .. Len(s) /\ DOMAIN Tail(s) = 1 .. (Len(s) - 1)
      /\ Len(s) \in Nat \ {0}
      /\ \A i \in 1 .. (Len(s) - 1) : Tail(s)[i] = s[i + 1] /\ i + 1 \in 1 .. Len(s) /\ 1 < i + 1
  OBVIOUS
<1>2. \A i, j \in 1 .. (Len(s) - 1) : i < j => i + 1 < j + 1
  OBVIOUS
<1>3. NodesAscend(Tail(s))
  BY <1>1, <1>2 DEF NodesAscend
<1>4. \A i \in 1 .. (Len(s) - 1) : Precedes(event[Head(s)], event[Tail(s)[i]])
  BY <1>1 DEF NodesAscend
<1>5. Before({event[Head(s)]}, EventsOf(Tail(s)))
  BY <1>1, <1>4 DEF Before, EventsOf, ToSet
<1>6. ToSet(s) = {Head(s)} \cup ToSet(Tail(s))
  BY TailElements
<1> QED
  BY <1>3, <1>5, <1>6 DEF EventsOf

\* The list turned around is in the order of its pushes.
LEMMA ReverseAscends ==
  ASSUME NEW s \in Seq(Node), NodesDescend(s)
  PROVE  NodesAscend(Reverse(s)) /\ EventsOf(Reverse(s)) = EventsOf(s)
<1>1. /\ DOMAIN Reverse(s) = 1 .. Len(s) /\ DOMAIN s = 1 .. Len(s) /\ Len(s) \in Nat
      /\ \A i \in 1 .. Len(s) : Reverse(s)[i] = s[(Len(s) - i) + 1]
      /\ ToSet(Reverse(s)) = ToSet(s)
  BY ReverseElements DEF Reverse
<1>2. \A i, j \in 1 .. Len(s) : i < j =>
        /\ (Len(s) - i) + 1 \in 1 .. Len(s) /\ (Len(s) - j) + 1 \in 1 .. Len(s)
        /\ (Len(s) - j) + 1 < (Len(s) - i) + 1
  BY <1>1
<1> QED
  BY <1>1, <1>2 DEF NodesAscend, NodesDescend, EventsOf

\* The elements of a sequence behind a new first one keep their order.
LEMMA ConsElements ==
  ASSUME NEW n \in Node, NEW s \in Seq(Node)
  PROVE  LET r == <<n>> \o s
         IN \A i, j \in DOMAIN r : i < j =>
              /\ j - 1 \in DOMAIN s /\ r[j] = s[j - 1]
              /\ \/ r[i] = n
                 \/ i - 1 \in DOMAIN s /\ r[i] = s[i - 1] /\ i - 1 < j - 1
<1> DEFINE r == <<n>> \o s
<1>1. /\ DOMAIN r = 1 .. (1 + Len(s)) /\ DOMAIN s = 1 .. Len(s) /\ Len(s) \in Nat
      /\ r[1] = n
      /\ \A i \in 1 .. Len(s) : r[i + 1] = s[i]
  OBVIOUS
<1> HIDE DEF r
<1>2. \A i \in 1 .. (1 + Len(s)) : i = 1 \/ (i - 1 \in 1 .. Len(s) /\ r[i] = s[i - 1])
  <2> SUFFICES ASSUME NEW i \in 1 .. (1 + Len(s)), i # 1
               PROVE  i - 1 \in 1 .. Len(s) /\ r[i] = s[i - 1]
    OBVIOUS
  <2>1. i - 1 \in 1 .. Len(s) /\ (i - 1) + 1 = i
    BY <1>1
  <2> QED
    BY <1>1, <2>1
<1>3. \A i, j \in 1 .. (1 + Len(s)) : i < j => j # 1 /\ i - 1 < j - 1
  BY <1>1
<1>4. \A i, j \in DOMAIN r : i < j =>
        /\ j - 1 \in DOMAIN s /\ r[j] = s[j - 1]
        /\ r[i] = n \/ (i - 1 \in DOMAIN s /\ r[i] = s[i - 1] /\ i - 1 < j - 1)
  BY <1>1, <1>2, <1>3
<1> QED
  BY <1>4 DEF r

\* Only one dispatch thread is between its claim and its last batch.
LEMMA OneClaimant ==
  ASSUME PlaceInv, NEW w \in Worker, Live(w)
  PROVE  \A u \in Worker \ {w} : hand[u] = <<>> /\ batch[u] = <<>>
<1>1. \A u \in Worker \ {w} : ~Live(u)
  BY DEF PlaceInv, LifetimeInv, NoOrphanWorker
<1>2. \A u \in Worker : pc[u] \in {"absent", "exited"} \cup LiveWorkerStates /\ u \in Thread
  BY DEF PlaceInv, LifetimeInv, TypeOK, PcOK, Thread
<1> QED
  BY <1>1, <1>2 DEF Live, LiveWorkerStates, PlaceInv, HandsBusy, DrainStates

\* Nothing precedes and nothing follows an event that is not there.
LEMMA NothingBefore ==
  /\ ToSet(<<>>) = {} /\ EventsOf(<<>>) = {}
  /\ Ascending(<<>>) /\ NodesAscend(<<>>) /\ NodesDescend(<<>>)
  /\ \A E : Before({}, E) /\ Before(E, {})
<1>1. DOMAIN <<>> = {}
  BY NoElement DEF ToSet
<1> QED
  BY <1>1, NoElement DEF EventsOf, Ascending, NodesAscend, NodesDescend, Before

\* Steps that push nothing change no order.
LEMMA SameOrder ==
  ASSUME UNCHANGED <<arrivals, event>>
  PROVE  /\ \A E, F : Before(E, F)' <=> Before(E, F)
         /\ \A s : Ascending(s)' <=> Ascending(s)
         /\ \A s : NodesAscend(s)' <=> NodesAscend(s)
         /\ \A s : NodesDescend(s)' <=> NodesDescend(s)
         /\ \A s : EventsOf(s)' = EventsOf(s)
BY DEF Before, Ascending, NodesAscend, NodesDescend, EventsOf, Precedes

\* A step that moves no event keeps the order.
LEMMA OrderStays ==
  ASSUME Ordered, UNCHANGED <<arrivals, event, handed, pending>>,
         \A w \in Worker : hand'[w] = hand[w] /\ batch'[w] = batch[w],
         pool' => pool
  PROVE  Ordered'
BY SameOrder DEF Ordered, ClaimOrdered

\* A push adds the newest event.
LEMMA PushOrdered ==
  ASSUME EventInv, Ordered, NEW p \in Producer, PublishPush(p)
  PROVE  Ordered'
<1> DEFINE e == <<p, calls[p]>>
<1>1. /\ TypeOK /\ PlaceInv /\ p \in Thread /\ e \in Event /\ pc[p] = "push"
      /\ arrivals \in Seq(Event) /\ pending \in Seq(Node) /\ ToSet(pending) \subseteq Node
      /\ \A w \in Worker : w \in Dispatcher /\ w # p /\ w \in Thread /\ ToSet(hand[w]) \subseteq Node
  BY EventTypes, ThreadsDisjoint DEF EventInv, TypeOK, PublishPush, Thread, Event, Dispatcher
<1>2. PICK n \in Node : hand[p] = <<n>>
  BY <1>1 DEF PlaceInv, HandsBusy
<1>3. /\ event' = [event EXCEPT ![n] = e] /\ pending' = <<n>> \o pending
      /\ arrivals' = Append(arrivals, e)
      /\ UNCHANGED <<pool, handed, batch>>
      /\ \A w \in Worker : hand'[w] = hand[w]
  BY <1>1, <1>2 DEF PublishPush, life, TypeOK
<1>4. pool
  BY <1>1 DEF PlaceInv, LifetimeInv, PoolOutlivesUse, SharedStates
<1> HIDE DEF e
<1> DEFINE Q(f, g) == \E a, b \in DOMAIN arrivals' : a < b /\ arrivals'[a] = f /\ arrivals'[b] = g
<1>5. /\ \A f, g : Precedes(f, g) => Q(f, g)
      /\ \A f \in ToSet(arrivals) : Q(f, e)
      /\ \A f, g : Q(f, g) => Precedes(f, g)'
  <2>1. /\ DOMAIN arrivals = 1 .. Len(arrivals) /\ DOMAIN arrivals' = 1 .. (Len(arrivals) + 1)
        /\ \A i \in 1 .. Len(arrivals) : arrivals'[i] = arrivals[i] /\ i < Len(arrivals) + 1
        /\ arrivals'[Len(arrivals) + 1] = e
        /\ Len(arrivals) + 1 \in 1 .. (Len(arrivals) + 1)
        /\ \A i \in 1 .. Len(arrivals) : i \in 1 .. (Len(arrivals) + 1)
    BY <1>1, <1>3
  <2>2. \A f \in ToSet(arrivals) : \E i \in 1 .. Len(arrivals) : arrivals[i] = f
    BY <2>1 DEF ToSet
  <2>3. \A f, g : Precedes(f, g) => Q(f, g)
    BY <2>1, Zenon DEF Precedes
  <2>4. \A f \in ToSet(arrivals) : Q(f, e)
    BY <2>1, <2>2
  <2>5. \A f, g : Q(f, g) => Precedes(f, g)'
    BY Zenon DEF Precedes
  <2> QED
    BY <2>3, <2>4, <2>5
<1> HIDE DEF Q
<1>6. /\ n \notin ToSet(pending) /\ \A w \in Worker : n \notin ToSet(hand[w])
      /\ \A m \in Node \ {n} : event'[m] = event[m]
      /\ event'[n] = e
  <2>1. n \in ToSet(hand[p])
    BY <1>2, OneElement
  <2> QED
    BY <1>1, <1>3, <1>4, <2>1 DEF PlaceInv, Placed, TypeOK
<1>7. /\ EventsOf(pending) \subseteq ToSet(arrivals) /\ ToSet(handed) \subseteq ToSet(arrivals)
      /\ \A w \in Worker : /\ EventsOf(hand[w]) \subseteq ToSet(arrivals)
                           /\ ToSet(batch[w]) \subseteq ToSet(arrivals)
  <2>1. EventsOf(pending) \subseteq Carried /\ \A w \in Worker : EventsOf(hand[w]) \subseteq Carried
    BY <1>1, <1>4 DEF Carried, Linked, EventsOf
  <2>2. \A w \in Worker : ToSet(batch[w]) \subseteq Batched
    BY <1>1 DEF Batched
  <2> QED
    BY <2>1, <2>2 DEF EventInv, Apart
<1>8. /\ EventsOf(pending)' = EventsOf(pending) \cup {e}
      /\ \A w \in Worker : EventsOf(hand[w])' = EventsOf(hand[w])
  <2>1. \A r, s \in Seq(Node) : ToSet(r \o s) = ToSet(r) \cup ToSet(s)
    BY ConcatElements
  <2>2. <<n>> \in Seq(Node) /\ ToSet(<<n>>) = {n}
    BY OneElement
  <2>3. ToSet(pending') = {n} \cup ToSet(pending)
    BY <1>1, <1>3, <2>1, <2>2, Zenon
  <2>4. \A m \in ToSet(pending) : event'[m] = event[m]
    BY <1>1, <1>6
  <2>5. \A w \in Worker : \A m \in ToSet(hand[w]) : event'[m] = event[m]
    BY <1>1, <1>6
  <2>6. \A w \in Worker : EventsOf(hand[w])' = EventsOf(hand[w])
    BY <1>3, <2>5 DEF EventsOf
  <2>7. EventsOf(pending)' = EventsOf(pending) \cup {e}
    BY <1>6, <2>3, <2>4 DEF EventsOf
  <2> QED
    BY <2>6, <2>7
<1>9. Ascending(handed)' /\ \A w \in Worker : Ascending(batch[w])'
  <2>1. \A i, k \in DOMAIN handed : i < k => Q(handed[i], handed[k])
    BY <1>5 DEF Ordered, Ascending
  <2>2. \A w \in Worker : \A i, k \in DOMAIN batch[w] : i < k => Q(batch[w][i], batch[w][k])
    BY <1>5 DEF Ordered, Ascending
  <2> QED
    BY <1>3, <1>5, <2>1, <2>2 DEF Ascending
<1>10. \A w \in Worker : Before(ToSet(handed), ToSet(batch[w]))'
  <2>1. \A w \in Worker : \A f \in ToSet(handed), g \in ToSet(batch[w]) : Q(f, g)
    BY <1>5 DEF Ordered, Before
  <2> QED
    BY <1>3, <1>5, <2>1 DEF Before
<1>11. NodesDescend(pending)'
  <2>1. \A i \in DOMAIN pending : pending[i] \in ToSet(pending)
    BY DEF ToSet
  <2>2. \A i \in DOMAIN pending : pending[i] \in Node \ {n} /\ event'[pending[i]] = event[pending[i]]
    BY <1>1, <1>6, <2>1
  <2>3. NodesDescend(pending) /\ EventsOf(pending) \subseteq ToSet(arrivals)
    BY <1>4, <1>7 DEF Ordered
  <2>4. \A i, j \in DOMAIN pending : i < j => Q(event'[pending[j]], event'[pending[i]])
    BY <1>5, <2>2, <2>3 DEF NodesDescend
  <2>5. \A i \in DOMAIN pending : event[pending[i]] \in ToSet(arrivals)
    BY <2>1, <2>3 DEF EventsOf
  <2>6. \A i \in DOMAIN pending : Q(event'[pending[i]], e)
    BY <1>5, <2>2, <2>5
  <2>7. \A i, j \in DOMAIN pending' : i < j =>
          /\ j - 1 \in DOMAIN pending /\ pending'[j] = pending[j - 1]
          /\ \/ pending'[i] = n
             \/ i - 1 \in DOMAIN pending /\ pending'[i] = pending[i - 1] /\ i - 1 < j - 1
    BY <1>1, <1>3, ConsElements
  <2>8. \A i, j \in DOMAIN pending' : i < j => Q(event'[pending'[j]], event'[pending'[i]])
    BY <1>6, <2>4, <2>6, <2>7
  <2> QED
    BY <1>5, <2>8 DEF NodesDescend
<1>12. Before(ToSet(handed), EventsOf(pending))'
  <2>1. \A f \in ToSet(handed), g \in EventsOf(pending)' : Q(f, g)
    BY <1>4, <1>5, <1>7, <1>8 DEF Ordered, Before
  <2> QED
    BY <1>3, <1>5, <2>1 DEF Before
<1>13. ASSUME NEW w \in Worker PROVE ClaimOrdered(w)'
  <2>1. NodesAscend(hand[w])'
    <3>1. \A i \in DOMAIN hand[w] : hand[w][i] \in ToSet(hand[w])
      BY DEF ToSet
    <3>2. \A i \in DOMAIN hand[w] : event'[hand[w][i]] = event[hand[w][i]]
      BY <1>1, <1>6, <3>1
    <3>3. \A i, j \in DOMAIN hand[w] : i < j => Q(event'[hand[w][i]], event'[hand[w][j]])
      BY <1>4, <1>5, <3>2 DEF Ordered, ClaimOrdered, NodesAscend
    <3> QED
      BY <1>3, <1>5, <3>3 DEF NodesAscend
  <2>2. /\ \A f \in ToSet(handed), g \in EventsOf(hand[w]) : Q(f, g)
        /\ \A f \in ToSet(batch[w]), g \in EventsOf(hand[w]) : Q(f, g)
        /\ \A f \in ToSet(batch[w]), g \in EventsOf(pending) : Q(f, g)
        /\ \A f \in EventsOf(hand[w]), g \in EventsOf(pending) : Q(f, g)
    BY <1>4, <1>5 DEF Ordered, ClaimOrdered, Before
  <2>3. /\ \A f \in ToSet(batch[w]), g \in EventsOf(pending)' : Q(f, g)
        /\ \A f \in EventsOf(hand[w]), g \in EventsOf(pending)' : Q(f, g)
    BY <1>5, <1>7, <1>8, <2>2
  <2>4. /\ Before(ToSet(handed), EventsOf(hand[w]))' /\ Before(ToSet(batch[w]), EventsOf(hand[w]))'
    BY <1>3, <1>5, <1>8, <2>2 DEF Before
  <2>5. Before(ToSet(batch[w]), EventsOf(pending))' /\ Before(EventsOf(hand[w]), EventsOf(pending))'
    BY <1>3, <1>5, <1>8, <2>3 DEF Before
  <2> QED
    BY <2>1, <2>4, <2>5 DEF ClaimOrdered
<1> QED
  BY <1>9, <1>10, <1>11, <1>12, <1>13 DEF Ordered

\* The claim is the list in the order of its pushes.
LEMMA ClaimKeepsOrder ==
  ASSUME EventInv, Ordered, NEW w \in Worker, Live(w), Claim(w), hand[w] = <<>>, batch[w] = <<>>,
         UNCHANGED <<pool, event, batch, arrivals, handed>>
  PROVE  Ordered'
<1>1. /\ TypeOK /\ PlaceInv /\ pending \in Seq(Node) /\ w \in Thread /\ Worker \subseteq Thread
  BY EventTypes DEF EventInv, Thread
<1>2. /\ hand'[w] = Reverse(pending) /\ pending' = <<>>
      /\ \A u \in Worker \ {w} : hand'[u] = <<>> /\ batch[u] = <<>>
  <2>1. \A u \in Worker \ {w} : hand[u] = <<>> /\ batch[u] = <<>>
    BY <1>1, OneClaimant
  <2> QED
    BY <1>1, <2>1 DEF Claim, TypeOK
<1>3. ASSUME pool
      PROVE  /\ NodesDescend(pending') /\ Before(ToSet(handed), EventsOf(pending'))
             /\ NodesAscend(hand'[w]) /\ Before(ToSet(handed), EventsOf(hand'[w]))
  BY <1>1, <1>2, <1>3, ReverseAscends, NothingBefore DEF Ordered
<1>4. /\ EventsOf(pending') = {} /\ ToSet(batch[w]) = {}
      /\ \A u \in Worker \ {w} : EventsOf(hand'[u]) = {} /\ NodesAscend(hand'[u])
  BY <1>2, NothingBefore
<1>5. ASSUME pool, NEW u \in Worker
      PROVE  /\ NodesAscend(hand'[u])
             /\ Before(ToSet(handed), EventsOf(hand'[u]))
             /\ Before(ToSet(batch[u]), EventsOf(hand'[u]))
             /\ Before(ToSet(batch[u]), EventsOf(pending'))
             /\ Before(EventsOf(hand'[u]), EventsOf(pending'))
  <2>1. CASE u = w
    BY <1>3, <1>4, <1>5, <2>1, NothingBefore
  <2>2. CASE u # w
    BY <1>4, <2>2, NothingBefore
  <2> QED
    BY <2>1, <2>2
<1> QED
  BY <1>3, <1>5, SameOrder DEF Ordered, ClaimOrdered

\* The batch takes the oldest event of the claim.
LEMMA TakeKeepsOrder ==
  ASSUME EventInv, Ordered, NEW w \in Worker, pool, TakeOne(w),
         UNCHANGED <<pool, pending, event, arrivals, handed>>
  PROVE  Ordered'
<1> DEFINE n == Head(hand[w])
           e == event[n]
<1>1. /\ TypeOK /\ w \in Thread /\ Worker \subseteq Thread
      /\ hand[w] \in Seq(Node) /\ hand[w] # <<>>
      /\ n \in Node /\ e \in Event \cup {NoEvent}
      /\ batch[w] \in Seq(Event \cup {NoEvent})
  BY EventTypes DEF EventInv, TypeOK, TakeOne, Thread
<1>2. /\ hand'[w] = Tail(hand[w]) /\ batch'[w] = Append(batch[w], e)
      /\ \A u \in Worker \ {w} : hand'[u] = hand[u] /\ batch'[u] = batch[u]
  BY <1>1 DEF TakeOne, TypeOK
<1>3. /\ NodesDescend(pending) /\ Before(ToSet(handed), EventsOf(pending))
      /\ Ascending(handed) /\ Ascending(batch[w]) /\ Before(ToSet(handed), ToSet(batch[w]))
      /\ ClaimOrdered(w)
  BY DEF Ordered
<1>4. /\ NodesAscend(hand'[w]) /\ Before({e}, EventsOf(hand'[w]))
      /\ EventsOf(hand[w]) = {e} \cup EventsOf(hand'[w])
  BY <1>1, <1>2, <1>3, TailAscends DEF ClaimOrdered
<1>5. ToSet(batch'[w]) = ToSet(batch[w]) \cup {e}
  <2>1. \A s \in Seq(Event \cup {NoEvent}), x \in Event \cup {NoEvent} :
          ToSet(Append(s, x)) = ToSet(s) \cup {x}
    BY AppendElements
  <2> QED
    BY <1>1, <1>2, <2>1
<1> HIDE DEF n, e
<1>6. Ascending(batch'[w])
  <2>1. Before(ToSet(batch[w]), {e})
    BY <1>3, <1>4 DEF ClaimOrdered, Before
  <2>2. \A s \in Seq(Event \cup {NoEvent}), x \in Event \cup {NoEvent} :
          Ascending(s) /\ Before(ToSet(s), {x}) => Ascending(Append(s, x))
    BY AppendAscends
  <2> QED
    BY <1>1, <1>2, <1>3, <2>1, <2>2
<1>7. Before(ToSet(handed), ToSet(batch'[w])) /\ Before(ToSet(batch'[w]), EventsOf(pending))
  BY <1>3, <1>4, <1>5 DEF ClaimOrdered, Before
<1>8. /\ Before(ToSet(handed), EventsOf(hand'[w])) /\ Before(ToSet(batch'[w]), EventsOf(hand'[w]))
      /\ Before(EventsOf(hand'[w]), EventsOf(pending))
  BY <1>3, <1>4, <1>5 DEF ClaimOrdered, Before
<1>9. ASSUME NEW u \in Worker
      PROVE  /\ Ascending(batch'[u]) /\ Before(ToSet(handed), ToSet(batch'[u]))
             /\ NodesAscend(hand'[u])
             /\ Before(ToSet(handed), EventsOf(hand'[u]))
             /\ Before(ToSet(batch'[u]), EventsOf(hand'[u]))
             /\ Before(ToSet(batch'[u]), EventsOf(pending))
             /\ Before(EventsOf(hand'[u]), EventsOf(pending))
  <2>1. CASE u = w
    BY <1>4, <1>6, <1>7, <1>8, <2>1
  <2>2. CASE u # w
    BY <1>2, <2>2 DEF Ordered, ClaimOrdered
  <2> QED
    BY <2>1, <2>2
<1> QED
  BY <1>3, <1>9, SameOrder DEF Ordered, ClaimOrdered

\* The pipe takes the batch, which follows all it was given before.
LEMMA HandKeepsOrder ==
  ASSUME EventInv, Ordered, NEW w \in Worker, Live(w), HandOver(w),
         UNCHANGED <<pool, pending, hand, event, arrivals>>
  PROVE  Ordered'
<1>1. /\ TypeOK /\ PlaceInv /\ w \in Thread /\ Worker \subseteq Thread
      /\ batch[w] \in Seq(Event \cup {NoEvent}) /\ handed \in Seq(Event \cup {NoEvent})
  BY EventTypes DEF EventInv, Thread
<1>2. handed' = handed \o batch[w] /\ \A u \in Worker : batch'[u] = <<>>
  <2>1. \A u \in Worker \ {w} : batch[u] = <<>>
    BY <1>1, OneClaimant
  <2> QED
    BY <1>1, <2>1 DEF HandOver, TypeOK
<1>3. Ascending(handed) /\ Ascending(batch[w]) /\ Before(ToSet(handed), ToSet(batch[w]))
  BY DEF Ordered
<1>4. ToSet(handed') = ToSet(handed) \cup ToSet(batch[w]) /\ Ascending(handed')
  <2>1. \A r, s \in Seq(Event \cup {NoEvent}) :
          /\ ToSet(r \o s) = ToSet(r) \cup ToSet(s)
          /\ Ascending(r) /\ Ascending(s) /\ Before(ToSet(r), ToSet(s)) => Ascending(r \o s)
    BY ConcatElements, ConcatAscends
  <2> QED
    BY <1>1, <1>2, <1>3, <2>1, Zenon
<1>5. \A u \in Worker : Ascending(batch'[u]) /\ ToSet(batch'[u]) = {}
  BY <1>2, NothingBefore
<1>6. ASSUME pool
      PROVE  /\ NodesDescend(pending)
             /\ Before(ToSet(handed'), EventsOf(pending))
             /\ Before(ToSet(handed'), EventsOf(hand[w]))
             /\ \A u \in Worker : /\ NodesAscend(hand[u])
                                  /\ Before(EventsOf(hand[u]), EventsOf(pending))
  BY <1>4, <1>6 DEF Ordered, ClaimOrdered, Before
<1>7. \A u \in Worker \ {w} : EventsOf(hand[u]) = {}
  BY <1>1, OneClaimant, NothingBefore
<1>8. ASSUME pool, NEW u \in Worker PROVE Before(ToSet(handed'), EventsOf(hand[u]))
  BY <1>6, <1>7, <1>8, NothingBefore
<1>9. \A E : Before(E, {}) /\ Before({}, E)
  BY NothingBefore
<1> QED
  BY <1>4, <1>5, <1>6, <1>8, <1>9, SameOrder DEF Ordered, ClaimOrdered

\* A release, and a new pool, leave nothing behind what was handed over.
LEMMA ReleaseKeepsOrder ==
  ASSUME EventInv, Ordered, ~ProcessEnded,
         \A t \in Thread : pc[t] \notin LiveWorkerStates \cup SharedStates,
         pool' => pending' = <<>>,
         UNCHANGED <<batch, hand, event, arrivals, handed>>
  PROVE  Ordered'
<1>1. \A w \in Worker : hand[w] = <<>> /\ batch[w] = <<>>
  BY UnusedMeansEmpty DEF EventInv, Thread
<1>2. \A w \in Worker : /\ ToSet(batch'[w]) = {} /\ Ascending(batch'[w])
                        /\ EventsOf(hand'[w]) = {} /\ NodesAscend(hand'[w])
  BY <1>1, NothingBefore
<1>3. pool' => NodesDescend(pending') /\ EventsOf(pending') = {}
  BY NothingBefore
<1>4. \A E : Before(E, {}) /\ Before({}, E)
  BY NothingBefore
<1>5. Ascending(handed)
  BY DEF Ordered
<1> QED
  BY <1>2, <1>3, <1>4, <1>5, SameOrder DEF Ordered, ClaimOrdered

\* The dispatch thread keeps the order.
LEMMA WorkerOrdered ==
  ASSUME EventInv, Ordered, NEW w \in Worker, WorkerStep(w)
  PROVE  Ordered'
<1>1. /\ TypeOK /\ PlaceInv /\ w \in Thread
      /\ Live(w) => pool
  BY DEF EventInv, PlaceInv, LifetimeInv, PoolOutlivesUse, Thread, Live
<1>2. CASE WorkerTop(w)
  BY <1>2, OrderStays DEF WorkerTop, life
<1>3. CASE WorkerWait(w)
  BY <1>3, OrderStays DEF WorkerWait
<1>4. CASE WorkerClaim(w)
  <2>1. hand[w] = <<>> /\ batch[w] = <<>> /\ Live(w)
    BY <1>1, <1>4 DEF WorkerClaim, PlaceInv, HandsBusy, DrainStates, Live, LiveWorkerStates
  <2> QED
    BY <1>4, <2>1, ClaimKeepsOrder DEF WorkerClaim, life
<1>5. CASE WorkerTake(w)
  <2>1. CASE TakeOne(w) /\ pc' = pc
    BY <1>1, <1>5, <2>1, TakeKeepsOrder DEF WorkerTake, Live, LiveWorkerStates, life
  <2>2. CASE UNCHANGED <<hand, batch, free>>
    BY <1>5, <2>2, OrderStays DEF WorkerTake, life
  <2> QED
    BY <1>5, <2>1, <2>2 DEF WorkerTake
<1>6. CASE WorkerLockPipe(w)
  BY <1>6, HandKeepsOrder DEF WorkerLockPipe, Live, LiveWorkerStates, life
<1>7. CASE WorkerSent(w)
  BY <1>7, OrderStays DEF WorkerSent, life
<1> QED
  BY <1>2, <1>3, <1>4, <1>5, <1>6, <1>7 DEF WorkerStep

\* A hook callback keeps the order.
LEMMA ProducerOrdered ==
  ASSUME EventInv, Ordered, NEW p \in Producer, PublishCall(p) \/ ProducerStep(p)
  PROVE  Ordered'
<1>1. CASE PublishCall(p)
  BY <1>1, OrderStays DEF PublishCall, life
<1>2. CASE PublishPop(p)
  <2>1. TypeOK /\ \A w \in Worker : w \in Thread /\ w # p
    BY ThreadsDisjoint DEF EventInv, PlaceInv, LifetimeInv, Thread
  <2>2. \A w \in Worker : hand'[w] = hand[w]
    BY <1>2, <2>1 DEF PublishPop, TypeOK
  <2> QED
    BY <1>2, <2>2, OrderStays DEF PublishPop, life
<1>3. CASE PublishShed(p)
  BY <1>3, OrderStays DEF PublishShed, life
<1>4. CASE PublishPush(p)
  BY <1>4, PushOrdered
<1>5. CASE PublishSetEvent(p)
  BY <1>5, OrderStays DEF PublishSetEvent
<1> QED
  BY <1>1, <1>2, <1>3, <1>4, <1>5 DEF ProducerStep

\* Initialize and Shutdown keep the order.
LEMMA ControllerOrdered ==
  ASSUME EventInv, Ordered, ~ProcessEnded, NEW c \in Controller,
         ControllerCall(c) \/ ControllerStep(c)
  PROVE  Ordered'
<1>1. LifetimeInv /\ TypeOK
  BY DEF EventInv, PlaceInv, LifetimeInv
<1>2. CASE InitializeAgain(c)
  BY <1>2, OrderStays DEF InitializeAgain, life
<1>3. CASE InitializeBusy(c)
  BY <1>3, OrderStays DEF InitializeBusy, life
<1>4. CASE InitializeFailed(c) \/ InitializeStarts(c)
  <2>1. \A t \in Thread : pc[t] \notin LiveWorkerStates \cup SharedStates
    BY <1>1, <1>4, StoppedMeansUnused DEF InitializeFailed, InitializeStarts, BeginCall
  <2> QED
    BY <1>4, <2>1, ReleaseKeepsOrder DEF InitializeFailed, InitializeStarts
<1>5. CASE InitializeOpenPipe(c)
  BY <1>5, OrderStays DEF InitializeOpenPipe, life
<1>6. CASE ShutdownStop(c)
  BY <1>6, OrderStays DEF ShutdownStop
<1>7. CASE ShutdownJoined(c)
  BY <1>7, OrderStays DEF ShutdownJoined, ReleaseResources
<1>8. CASE ShutdownTimedOut(c)
  BY <1>8, OrderStays DEF ShutdownTimedOut, life
<1>9. CASE ShutdownStopped(c)
  BY <1>9, OrderStays DEF ShutdownStopped, ReleaseResources
<1>10. CASE ShutdownClosePipe(c)
  BY <1>10, OrderStays DEF ShutdownClosePipe, life
<1> QED
  BY <1>2, <1>3, <1>4, <1>5, <1>6, <1>7, <1>8, <1>9, <1>10
     DEF ControllerCall, ControllerStep

\* Before anything is pushed everything is in order.
LEMMA OrderInit == Init => OrderInv
<1> SUFFICES ASSUME Init PROVE OrderInv
  OBVIOUS
<1>1. EventInv
  BY EventInit
<1>2. \A d \in Drainer : pc[d] = "idle"
  BY ThreadsDisjoint DEF Init, Thread
<1>3. \A w \in Worker : batch[w] = <<>>
  BY DEF Init, Thread
<1>4. handed = <<>> /\ ~pool
  BY DEF Init
<1> QED
  BY <1>1, <1>2, <1>3, <1>4, NothingBefore DEF OrderInv, Ordered

\* Every step but a drain keeps the order of events.
LEMMA OrderStep == OrderInv /\ [Next]_vars => OrderInv'
<1> SUFFICES ASSUME OrderInv, [Next]_vars PROVE OrderInv'
  OBVIOUS
<1>1. EventInv' /\ EventInv
  BY EventStep DEF OrderInv
<1>2. /\ calls \in [Thread -> Nat] /\ pc \in [Thread -> States]
      /\ \A d \in Drainer : d \in Thread /\ d \notin Producer /\ d \notin Worker /\ d \notin Controller
  BY <1>1, ThreadsDisjoint DEF EventInv, PlaceInv, LifetimeInv, TypeOK, PcOK, Thread
<1>3. CASE UNCHANGED vars
  BY <1>1, <1>3, OrderStays DEF vars, OrderInv, NoDrainYet
<1>4. CASE ThreadStep /\ \E p \in Producer : PublishCall(p) \/ ProducerStep(p)
  <2>1. PICK p \in Producer : PublishCall(p) \/ ProducerStep(p)
    BY <1>4
  <2>2. \A d \in Drainer : calls'[d] = calls[d] /\ pc'[d] = pc[d]
    BY <1>2, <2>1 DEF PublishCall, ProducerStep, PublishPop, PublishShed, PublishPush,
       PublishSetEvent
  <2> QED
    BY <1>1, <2>1, <2>2, ProducerOrdered DEF OrderInv, NoDrainYet
<1>5. CASE ThreadStep /\ \E w \in Worker : WorkerStep(w)
  <2>1. PICK w \in Worker : WorkerStep(w)
    BY <1>5
  <2>2. \A d \in Drainer : calls'[d] = calls[d] /\ pc'[d] = pc[d]
    BY <1>2, <2>1 DEF WorkerStep, WorkerTop, WorkerWait, WorkerClaim, WorkerTake,
       WorkerLockPipe, WorkerSent
  <2> QED
    BY <1>1, <2>1, <2>2, WorkerOrdered DEF OrderInv, NoDrainYet
<1>6. CASE ThreadStep /\ \E d \in Drainer : DrainClaim(d) \/ DrainStep(d)
  <2>1. PICK d \in Drainer : DrainClaim(d) \/ DrainStep(d)
    BY <1>6
  <2>2. CASE DrainClaim(d)
    <3>1. calls'[d] = calls[d] + 1 /\ calls[d] \in Nat
      BY <1>2, <2>2 DEF DrainClaim
    <3>2. ~NoDrainYet'
      BY <3>1 DEF NoDrainYet
    <3> QED
      BY <1>1, <3>2 DEF OrderInv
  <2>3. CASE DrainStep(d)
    <3>1. pc[d] # "idle" /\ calls' = calls
      BY <2>3 DEF DrainStep, DrainTake, DrainFull, DrainLockPipe, DrainSent
    <3> QED
      BY <1>1, <3>1 DEF OrderInv, NoDrainYet
  <2> QED
    BY <2>1, <2>2, <2>3
<1>7. CASE ThreadStep /\ \E c \in Controller : ControllerCall(c) \/ ControllerStep(c)
  <2>1. PICK c \in Controller : ControllerCall(c) \/ ControllerStep(c)
    BY <1>7
  <2>2. \A d \in Drainer : calls'[d] = calls[d] /\ pc'[d] = pc[d]
    <3>1. CASE ControllerCall(c)
      <4>1. CASE InitializeStarts(c)
        BY <1>2, <4>1 DEF InitializeStarts, BeginCall
      <4> QED
        BY <1>2, <3>1, <4>1 DEF ControllerCall, BeginCall, InitializeAgain, InitializeBusy,
           InitializeFailed, ShutdownStop, ShutdownStopped
    <3>2. CASE ControllerStep(c)
      BY <1>2, <3>2 DEF ControllerStep, InitializeOpenPipe, ShutdownJoined, ShutdownTimedOut,
         ShutdownClosePipe
    <3> QED
      BY <2>1, <3>1, <3>2
  <2> QED
    BY <1>1, <1>7, <2>1, <2>2, ControllerOrdered DEF OrderInv, NoDrainYet, ThreadStep
<1> QED
  BY <1>3, <1>4, <1>5, <1>6, <1>7 DEF Next, Rest, ThreadStep

\* Until the first drain the pipe sees events in the order they were pushed, whatever
\* the dispatch thread, restarts and other publishers do between two of them (pipe.cpp:
\* PublishHookEvent, AsyncDispatchThread).  The run that checks ArrivalOrderKept has no
\* drain at all.
THEOREM OrderKeptUntilDrain == Spec => [](NoDrainYet => ArrivalOrderKept)
<1>1. OrderInv => (NoDrainYet => ArrivalOrderKept)
  BY DEF OrderInv, Ordered, Ascending, Precedes, ArrivalOrderKept
<1> QED
  BY OrderInit, OrderStep, <1>1, PTL DEF Spec

=============================================================================
