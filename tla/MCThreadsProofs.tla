----------------------------- MODULE MCThreadsProofs -----------------------------
(***************************************************************************)
(* Theorems about VehRing and about the instance MCThreads, for every set  *)
(* of threads, every size of the ring and every number of exceptions,      *)
(* registrations, calls and touches.                                       *)
(***************************************************************************)
EXTENDS MCThreads, Functions, FiniteSetTheorems, TLAPS

AnyNode == [pool : Nat \ {0}, number : 1..NodeMax]
AnySlot == [node : AnyNode, event : Event]

NodesIn(s)  == {x.node : x \in ToSet(s)}
EventsIn(s) == {x.event : x \in ToSet(s)}

OneNodeEach(s)  == \A i, j \in DOMAIN s : s[i].node = s[j].node => i = j
OneEventEach(s) == \A i, j \in DOMAIN s : s[i].event = s[j].event => i = j

-----------------------------------------------------------------------------
(* The invariant.  RingIntact and ReportedOnce count occurrences; what is   *)
(* inductive is where a node and an event can be at all.                   *)

RaiserStates == {"idle", "entry", "enqueue", "pop", "push", "signal", "faulted"}
WorkerStates == {"absent", "top", "wait", "claim", "dispatch", "residual", "exited", "faulted"}

\* The types the steps rely on; no node is of a pool yet to be allocated.
RingTypes ==
  /\ {listed, installed, ready, run, waker} \subseteq BOOLEAN
  /\ pools \in 0..CallMax /\ pool \in 0..pools
  /\ spare \subseteq AnyNode /\ queue \in Seq(AnySlot) /\ holds \in [Thread -> Seq(AnySlot)]
  /\ \A n \in spare \cup NodesIn(queue) : n.pool <= pools
  /\ \A t \in Thread : \A n \in NodesIn(holds[t]) : n.pool <= pools
  /\ at \in [Thread -> RaiserStates \cup WorkerStates]
  /\ \A r \in Raiser : at[r] \in RaiserStates
  /\ \A w \in Worker : at[w] \in WorkerStates
  /\ exc \in [Raiser -> [kind : Kinds \cup {"none"}, event : 0..RaiseMax]]
  /\ raised \in 0..RaiseMax
  /\ ctl \in {"idle", "listing", "promote", "join", "release"}
  /\ queued \subseteq Event /\ told \in [Event -> Nat] /\ tossed \subseteq Event

\* Nodes are held from the pop to the push, and from the claim to the last report.
HoldsBusy ==
  /\ \A r \in Raiser : holds[r] # <<>> => at[r] \in {"push", "faulted"}
  /\ \A w \in Worker : holds[w] # <<>> => at[w] \in {"dispatch", "faulted"}
  /\ \A w \in Worker : at[w] = "dispatch" => holds[w] # <<>>
  /\ \A r \in Raiser : at[r] = "push" =>
       Len(holds[r]) = 1 /\ Head(holds[r]).event = exc[r].event
  /\ \A t \in Thread : Len(holds[t]) <= NodeMax

\* A node is in one place at most; one of the present pool is in one.
NodesApart ==
  /\ OneNodeEach(queue) /\ \A t \in Thread : OneNodeEach(holds[t])
  /\ spare \cap NodesIn(queue) = {}
  /\ \A t \in Thread : NodesIn(holds[t]) \cap spare = {}
  /\ \A t \in Thread : NodesIn(holds[t]) \cap NodesIn(queue) = {}
  /\ \A t, u \in Thread : t # u => NodesIn(holds[t]) \cap NodesIn(holds[u]) = {}

NodesKept ==
  pool # 0 => \A n \in NodesOf(pool) :
    n \in spare \/ n \in NodesIn(queue) \/ \E t \in Thread : n \in NodesIn(holds[t])

\* An exception has its number, and has not been queued before its raiser pushes it.
EventsNew ==
  /\ \A e \in queued : e <= raised
  /\ \A r \in Raiser : at[r] # "idle" => exc[r].event \in 1..raised
  /\ \A r \in Raiser : at[r] \notin {"idle", "signal"} => exc[r].event \notin queued
  /\ \A r, q \in Raiser : r # q /\ at[r] # "idle" /\ at[q] # "idle" => exc[r].event # exc[q].event

\* A queued event is on the list, with one dispatch thread, or reported, and in one
\* of these places only; or it was discarded.
EventsApart ==
  /\ OneEventEach(queue) /\ \A w \in Worker : OneEventEach(holds[w])
  /\ EventsIn(queue) \subseteq queued
  /\ \A w \in Worker : EventsIn(holds[w]) \subseteq queued
  /\ \A e \in Event : told[e] \in {0, 1} /\ (told[e] = 1 => e \in queued)
  /\ \A e \in EventsIn(queue) : told[e] = 0
  /\ \A w \in Worker : \A e \in EventsIn(holds[w]) : told[e] = 0
  /\ \A w \in Worker : EventsIn(holds[w]) \cap EventsIn(queue) = {}
  /\ \A w, v \in Worker : w # v => EventsIn(holds[w]) \cap EventsIn(holds[v]) = {}

EventsKept ==
  \A e \in queued :
    \/ told[e] = 1 \/ e \in tossed \/ e \in EventsIn(queue)
    \/ \E w \in Worker : e \in EventsIn(holds[w])

RingInv ==
  RingTypes /\ HoldsBusy /\ NodesApart /\ NodesKept /\ EventsNew /\ EventsApart /\ EventsKept

-----------------------------------------------------------------------------
(* Lists of slots.                                                          *)

\* What a list holds, element by element.
LEMMA SlotsIn ==
  ASSUME NEW s \in Seq(AnySlot)
  PROVE  /\ ToSet(s) \subseteq AnySlot /\ NodesIn(s) \subseteq AnyNode /\ EventsIn(s) \subseteq Event
         /\ \A i \in DOMAIN s :
              /\ s[i] \in AnySlot /\ s[i] \in ToSet(s)
              /\ s[i].node \in NodesIn(s) /\ s[i].event \in EventsIn(s)
<1>1. \A i \in DOMAIN s : s[i] \in AnySlot
  OBVIOUS
<1>2. \A i \in DOMAIN s : s[i] \in ToSet(s)
  BY DEF ToSet
<1>3. ToSet(s) \subseteq AnySlot
  BY <1>1 DEF ToSet
<1>4. \A x \in AnySlot : x.node \in AnyNode /\ x.event \in Event
  BY DEF AnySlot
<1>5. \A x \in ToSet(s) : x.node \in NodesIn(s) /\ x.event \in EventsIn(s)
  BY DEF NodesIn, EventsIn
<1>6. NodesIn(s) \subseteq AnyNode /\ EventsIn(s) \subseteq Event
  BY <1>3, <1>4 DEF NodesIn, EventsIn
<1> QED
  BY <1>1, <1>2, <1>3, <1>5, <1>6

\* An empty list holds nothing.
LEMMA NoSlots ==
  /\ ToSet(<<>>) = {} /\ NodesIn(<<>>) = {} /\ EventsIn(<<>>) = {}
  /\ OneNodeEach(<<>>) /\ OneEventEach(<<>>) /\ Len(<<>>) = 0
BY DEF ToSet, NodesIn, EventsIn, OneNodeEach, OneEventEach

\* Turning a list around moves its slots and repeats none.
LEMMA ReverseSlots ==
  ASSUME NEW s \in Seq(AnySlot)
  PROVE  /\ Reverse(s) \in Seq(AnySlot) /\ Len(Reverse(s)) = Len(s)
         /\ NodesIn(Reverse(s)) = NodesIn(s) /\ EventsIn(Reverse(s)) = EventsIn(s)
         /\ OneNodeEach(s) => OneNodeEach(Reverse(s))
         /\ OneEventEach(s) => OneEventEach(Reverse(s))
<1>1. /\ Reverse(s) \in Seq(AnySlot) /\ Len(Reverse(s)) = Len(s) /\ Len(s) \in Nat
      /\ DOMAIN Reverse(s) = 1 .. Len(s) /\ DOMAIN s = 1 .. Len(s)
      /\ \A i \in 1 .. Len(s) : Reverse(s)[i] = s[(Len(s) - i) + 1]
  BY DEF Reverse
<1>2. \A i \in 1 .. Len(s) : (Len(s) - i) + 1 \in 1 .. Len(s) /\ (Len(s) - ((Len(s) - i) + 1)) + 1 = i
  OBVIOUS
<1>3. \A i, j \in 1 .. Len(s) : (Len(s) - i) + 1 = (Len(s) - j) + 1 => i = j
  OBVIOUS
<1>4. ToSet(Reverse(s)) = ToSet(s)
  <2>1. \A i \in 1 .. Len(s) : s[i] \in ToSet(Reverse(s))
    BY <1>1, <1>2 DEF ToSet
  <2>2. \A i \in 1 .. Len(s) : Reverse(s)[i] \in ToSet(s)
    BY <1>1, <1>2 DEF ToSet
  <2>3. ToSet(s) \subseteq ToSet(Reverse(s))
    BY <1>1, <2>1, Zenon DEF ToSet
  <2>4. ToSet(Reverse(s)) \subseteq ToSet(s)
    BY <1>1, <2>2, Zenon DEF ToSet
  <2> QED
    BY <2>3, <2>4
<1>5. ASSUME OneNodeEach(s) PROVE OneNodeEach(Reverse(s))
  <2> SUFFICES ASSUME NEW i \in 1 .. Len(s), NEW j \in 1 .. Len(s),
                      Reverse(s)[i].node = Reverse(s)[j].node
               PROVE  i = j
    BY <1>1 DEF OneNodeEach
  <2>1. PICK a, b \in 1 .. Len(s) :
          /\ a = (Len(s) - i) + 1 /\ b = (Len(s) - j) + 1
          /\ Reverse(s)[i] = s[a] /\ Reverse(s)[j] = s[b]
    BY <1>1, <1>2
  <2>2. s[a].node = s[b].node
    BY <2>1
  <2>3. a = b
    BY <1>1, <1>5, <2>2 DEF OneNodeEach
  <2> QED
    BY <1>3, <2>1, <2>3
<1>6. ASSUME OneEventEach(s) PROVE OneEventEach(Reverse(s))
  <2> SUFFICES ASSUME NEW i \in 1 .. Len(s), NEW j \in 1 .. Len(s),
                      Reverse(s)[i].event = Reverse(s)[j].event
               PROVE  i = j
    BY <1>1 DEF OneEventEach
  <2>1. PICK a, b \in 1 .. Len(s) :
          /\ a = (Len(s) - i) + 1 /\ b = (Len(s) - j) + 1
          /\ Reverse(s)[i] = s[a] /\ Reverse(s)[j] = s[b]
    BY <1>1, <1>2
  <2>2. s[a].event = s[b].event
    BY <2>1
  <2>3. a = b
    BY <1>1, <1>6, <2>2 DEF OneEventEach
  <2> QED
    BY <1>3, <2>1, <2>3
<1> QED
  BY <1>1, <1>4, <1>5, <1>6 DEF NodesIn, EventsIn

\* Taking the first slot leaves the others.
LEMMA TailSlots ==
  ASSUME NEW s \in Seq(AnySlot), s # <<>>
  PROVE  /\ Head(s) \in AnySlot /\ Tail(s) \in Seq(AnySlot) /\ Len(Tail(s)) = Len(s) - 1
         /\ NodesIn(s) = {Head(s).node} \cup NodesIn(Tail(s))
         /\ EventsIn(s) = {Head(s).event} \cup EventsIn(Tail(s))
         /\ OneNodeEach(s) => OneNodeEach(Tail(s)) /\ Head(s).node \notin NodesIn(Tail(s))
         /\ OneEventEach(s) => OneEventEach(Tail(s)) /\ Head(s).event \notin EventsIn(Tail(s))
<1>1. /\ Tail(s) \in Seq(AnySlot) /\ Head(s) = s[1] /\ Head(s) \in AnySlot
      /\ DOMAIN s = 1 .. Len(s) /\ DOMAIN Tail(s) = 1 .. (Len(s) - 1) /\ Len(s) \in Nat \ {0}
      /\ Len(Tail(s)) = Len(s) - 1
      /\ \A i \in 1 .. (Len(s) - 1) : Tail(s)[i] = s[i + 1]
  OBVIOUS
<1>2. \A i \in 1 .. Len(s) : i = 1 \/ (i - 1 \in 1 .. (Len(s) - 1) /\ s[i] = Tail(s)[i - 1])
  BY <1>1
<1>3. \A i \in 1 .. (Len(s) - 1) : i + 1 \in 1 .. Len(s) /\ i + 1 # 1
  BY <1>1
<1>4. \A i, j \in 1 .. (Len(s) - 1) : i + 1 = j + 1 => i = j
  BY <1>1
<1>5. ToSet(s) = {Head(s)} \cup ToSet(Tail(s))
  <2>1. \A i \in 1 .. Len(s) : s[i] \in {Head(s)} \cup ToSet(Tail(s))
    BY <1>1, <1>2 DEF ToSet
  <2>2. \A i \in 1 .. (Len(s) - 1) : Tail(s)[i] \in ToSet(s)
    BY <1>1, <1>3 DEF ToSet
  <2>3. Head(s) \in ToSet(s)
    BY <1>1 DEF ToSet
  <2>4. ToSet(s) \subseteq {Head(s)} \cup ToSet(Tail(s))
    BY <1>1, <2>1, Zenon DEF ToSet
  <2>5. ToSet(Tail(s)) \subseteq ToSet(s)
    BY <1>1, <2>2, Zenon DEF ToSet
  <2> QED
    BY <2>3, <2>4, <2>5
<1>6. ASSUME OneNodeEach(s) PROVE OneNodeEach(Tail(s)) /\ Head(s).node \notin NodesIn(Tail(s))
  <2>1. \A i \in 1 .. (Len(s) - 1) : Tail(s)[i].node # Head(s).node
    BY <1>1, <1>3, <1>6 DEF OneNodeEach
  <2>2. OneNodeEach(Tail(s))
    BY <1>1, <1>3, <1>4, <1>6 DEF OneNodeEach
  <2> QED
    BY <1>1, <2>1, <2>2 DEF NodesIn, ToSet
<1>7. ASSUME OneEventEach(s) PROVE OneEventEach(Tail(s)) /\ Head(s).event \notin EventsIn(Tail(s))
  <2>1. \A i \in 1 .. (Len(s) - 1) : Tail(s)[i].event # Head(s).event
    BY <1>1, <1>3, <1>7 DEF OneEventEach
  <2>2. OneEventEach(Tail(s))
    BY <1>1, <1>3, <1>4, <1>7 DEF OneEventEach
  <2> QED
    BY <1>1, <2>1, <2>2 DEF EventsIn, ToSet
<1> QED
  BY <1>1, <1>5, <1>6, <1>7 DEF NodesIn, EventsIn

\* A new first slot.
LEMMA ConsSlots ==
  ASSUME NEW x \in AnySlot, NEW s \in Seq(AnySlot)
  PROVE  /\ <<x>> \o s \in Seq(AnySlot)
         /\ NodesIn(<<x>> \o s) = {x.node} \cup NodesIn(s)
         /\ EventsIn(<<x>> \o s) = {x.event} \cup EventsIn(s)
         /\ OneNodeEach(s) /\ x.node \notin NodesIn(s) => OneNodeEach(<<x>> \o s)
         /\ OneEventEach(s) /\ x.event \notin EventsIn(s) => OneEventEach(<<x>> \o s)
<1> DEFINE r == <<x>> \o s
<1>1. /\ r \in Seq(AnySlot) /\ DOMAIN r = 1 .. (1 + Len(s)) /\ DOMAIN s = 1 .. Len(s) /\ Len(s) \in Nat
      /\ r[1] = x
      /\ \A i \in 1 .. Len(s) : r[i + 1] = s[i] /\ i + 1 \in 1 .. (1 + Len(s))
  OBVIOUS
<1> HIDE DEF r
<1>2. \A i \in 1 .. (1 + Len(s)) : i = 1 \/ (i - 1 \in 1 .. Len(s) /\ r[i] = s[i - 1])
  <2> SUFFICES ASSUME NEW i \in 1 .. (1 + Len(s)), i # 1
               PROVE  i - 1 \in 1 .. Len(s) /\ r[i] = s[i - 1]
    OBVIOUS
  <2>1. i - 1 \in 1 .. Len(s) /\ (i - 1) + 1 = i
    BY <1>1
  <2> QED
    BY <1>1, <2>1
<1>3. \A i, j \in 1 .. (1 + Len(s)) : i - 1 = j - 1 => i = j
  BY <1>1
<1>4. ToSet(r) = {x} \cup ToSet(s)
  <2>1. \A i \in 1 .. (1 + Len(s)) : r[i] \in {x} \cup ToSet(s)
    BY <1>1, <1>2 DEF ToSet
  <2>2. \A i \in 1 .. Len(s) : s[i] \in ToSet(r)
    BY <1>1 DEF ToSet
  <2>3. x \in ToSet(r)
    BY <1>1 DEF ToSet
  <2>4. ToSet(r) \subseteq {x} \cup ToSet(s)
    BY <1>1, <2>1, Zenon DEF ToSet
  <2>5. ToSet(s) \subseteq ToSet(r)
    BY <1>1, <2>2, Zenon DEF ToSet
  <2> QED
    BY <2>3, <2>4, <2>5
<1>5. ASSUME OneNodeEach(s), x.node \notin NodesIn(s) PROVE OneNodeEach(r)
  <2>1. \A i \in 1 .. Len(s) : s[i].node # x.node
    BY <1>1, <1>5, SlotsIn
  <2> SUFFICES ASSUME NEW i \in 1 .. (1 + Len(s)), NEW j \in 1 .. (1 + Len(s)),
                      r[i].node = r[j].node
               PROVE  i = j
    BY <1>1 DEF OneNodeEach
  <2>2. CASE i = 1 \/ j = 1
    BY <1>1, <1>2, <2>1, <2>2
  <2>3. CASE i # 1 /\ j # 1
    <3>1. PICK a, b \in 1 .. Len(s) :
            a = i - 1 /\ b = j - 1 /\ r[i] = s[a] /\ r[j] = s[b]
      BY <1>2, <2>3
    <3>2. s[a].node = s[b].node
      BY <3>1
    <3>3. a = b
      BY <1>1, <1>5, <3>2 DEF OneNodeEach
    <3> QED
      BY <1>3, <3>1, <3>3
  <2> QED
    BY <2>2, <2>3
<1>6. ASSUME OneEventEach(s), x.event \notin EventsIn(s) PROVE OneEventEach(r)
  <2>1. \A i \in 1 .. Len(s) : s[i].event # x.event
    BY <1>1, <1>6, SlotsIn
  <2> SUFFICES ASSUME NEW i \in 1 .. (1 + Len(s)), NEW j \in 1 .. (1 + Len(s)),
                      r[i].event = r[j].event
               PROVE  i = j
    BY <1>1 DEF OneEventEach
  <2>2. CASE i = 1 \/ j = 1
    BY <1>1, <1>2, <2>1, <2>2
  <2>3. CASE i # 1 /\ j # 1
    <3>1. PICK a, b \in 1 .. Len(s) :
            a = i - 1 /\ b = j - 1 /\ r[i] = s[a] /\ r[j] = s[b]
      BY <1>2, <2>3
    <3>2. s[a].event = s[b].event
      BY <3>1
    <3>3. a = b
      BY <1>1, <1>6, <3>2 DEF OneEventEach
    <3> QED
      BY <1>3, <3>1, <3>3
  <2> QED
    BY <2>2, <2>3
<1>7. NodesIn(r) = {x.node} \cup NodesIn(s) /\ EventsIn(r) = {x.event} \cup EventsIn(s)
  BY <1>4 DEF NodesIn, EventsIn
<1> QED
  BY <1>1, <1>5, <1>6, <1>7 DEF r

\* A list of one slot.
LEMMA OneSlot ==
  ASSUME NEW s \in Seq(AnySlot), Len(s) = 1
  PROVE  /\ s = <<Head(s)>> /\ Head(s) \in AnySlot
         /\ NodesIn(s) = {Head(s).node} /\ OneNodeEach(s)
<1>1. s = <<Head(s)>> /\ Head(s) \in AnySlot /\ DOMAIN s = {1} /\ s[1] = Head(s)
  OBVIOUS
<1> QED
  BY <1>1 DEF NodesIn, ToSet, OneNodeEach

\* The nodes of a pool.
LEMMA PoolNodes ==
  \A g \in Nat \ {0} : NodesOf(g) = {n \in AnyNode : n.pool = g}
<1> SUFFICES ASSUME NEW g \in Nat \ {0} PROVE NodesOf(g) = {n \in AnyNode : n.pool = g}
  OBVIOUS
<1>1. \A i \in 1..NodeMax : [pool |-> g, number |-> i] \in {n \in AnyNode : n.pool = g}
  BY DEF AnyNode
<1>2. \A n \in AnyNode : n.pool = g => n.number \in 1..NodeMax /\ n = [pool |-> g, number |-> n.number]
  BY DEF AnyNode
<1> QED
  BY <1>1, <1>2 DEF NodesOf

\* A list of different nodes of one pool is no longer than the pool.
LEMMA ListFits ==
  ASSUME NEW s \in Seq(AnySlot), OneNodeEach(s), \A x \in ToSet(s) : Alive(x)
  PROVE  Len(s) <= NodeMax
<1> DEFINE f == [i \in 1 .. Len(s) |-> s[i].node.number]
<1>1. Len(s) \in Nat /\ DOMAIN s = 1 .. Len(s) /\ NodeMax \in Nat
  BY RingBounds
<1>2. \A i \in 1 .. Len(s) :
        s[i].node \in AnyNode /\ s[i].node.number \in 1..NodeMax /\ s[i].node.pool = pool
  BY <1>1, SlotsIn DEF Alive, AnySlot, AnyNode
<1>3. \A i, j \in 1 .. Len(s) : s[i].node.number = s[j].node.number => s[i].node = s[j].node
  BY <1>2 DEF AnyNode
<1>4. f \in Injection(1 .. Len(s), 1..NodeMax)
  BY <1>1, <1>2, <1>3 DEF Injection, IsInjective, OneNodeEach
<1>5. /\ IsFiniteSet(1..NodeMax) /\ Cardinality(1..NodeMax) = NodeMax
      /\ Cardinality(1 .. Len(s)) = Len(s)
  <2>1. \A n \in Nat : IsFiniteSet(1..n) /\ Cardinality(1..n) = IF 1 > n THEN 0 ELSE n - 1 + 1
    BY FS_Interval
  <2>2. \A n \in Nat : (IF 1 > n THEN 0 ELSE n - 1 + 1) = n
    OBVIOUS
  <2> QED
    BY <1>1, <2>1, <2>2
<1>6. Cardinality(1 .. Len(s)) <= Cardinality(1..NodeMax)
  BY <1>4, <1>5, FS_Injection
<1> QED
  BY <1>5, <1>6

-----------------------------------------------------------------------------
(* The steps.                                                               *)

\* As long as lists and counts stay, nodes and events are where they were.
LEMMA PlacesStay ==
  ASSUME NodesApart, NodesKept, EventsApart, EventsKept,
         UNCHANGED <<spare, queue, holds, pool, queued, told>>, tossed \subseteq tossed'
  PROVE  NodesApart' /\ NodesKept' /\ EventsApart' /\ EventsKept'
BY DEF NodesApart, NodesKept, EventsApart, EventsKept, OneNodeEach, OneEventEach,
       NodesIn, EventsIn

\* What the steps take from the types.
LEMMA RingFacts ==
  ASSUME RingInv
  PROVE  /\ Raiser \subseteq Thread /\ Worker \subseteq Thread /\ Raiser \cap Worker = {}
         /\ \A t \in Thread : t \in Raiser \/ t \in Worker
         /\ at \in [Thread -> RaiserStates \cup WorkerStates]
         /\ holds \in [Thread -> Seq(AnySlot)] /\ queue \in Seq(AnySlot)
         /\ exc \in [Raiser -> [kind : Kinds \cup {"none"}, event : 0..RaiseMax]]
         /\ NoExc \in [kind : Kinds \cup {"none"}, event : 0..RaiseMax]
         /\ raised \in Nat /\ RaiseMax \in Nat /\ pools \in Nat /\ pool \in Nat
BY RaisersAreNoWorkers, RingBounds DEF RingInv, RingTypes, Thread, NoExc

\* A raiser that moves no node: on its way in, out, or past the ring.
LEMMA RaiserMoves ==
  ASSUME RingInv, NEW r \in Raiser,
         \/ PassOn(r) \/ Handle(r) \/ EnqueueRefused(r) \/ EnqueueChecked(r) \/ EnqueueSignal(r)
  PROVE  RingInv'
<1>1. /\ r \in Thread /\ r \notin Worker
      /\ UNCHANGED <<listed, installed, ring, lists, raised, ctl, past>> /\ waker' \in BOOLEAN
      /\ \A t \in Thread \ {r} : at'[t] = at[t]
      /\ \A q \in Raiser \ {r} : exc'[q] = exc[q]
      /\ exc' \in [Raiser -> [kind : Kinds \cup {"none"}, event : 0..RaiseMax]]
      /\ at' \in [Thread -> RaiserStates \cup WorkerStates]
      /\ at'[r] \in {"idle", "enqueue", "pop"}
      /\ at[r] \notin {"idle", "push", "faulted"}
      /\ at'[r] # "idle" => exc' = exc /\ at[r] # "signal"
  BY RingFacts DEF PassOn, Handle, EnqueueRefused, EnqueueChecked, EnqueueSignal, Done, GoTo,
     RingInv, RingTypes, RaiserStates, lists, ring
<1>2. RingTypes'
  BY <1>1, RingFacts DEF RingInv, RingTypes, RaiserStates, ring, lists, past, NodesIn
<1>3. HoldsBusy'
  <2>1. holds' = holds /\ holds[r] = <<>>
    BY <1>1 DEF lists, RingInv, HoldsBusy
  <2> QED
    BY <1>1, <2>1, RingFacts DEF RingInv, HoldsBusy
<1>4. EventsNew'
  <2>1. queued' = queued /\ raised' = raised
    BY <1>1 DEF past
  <2>2. \A q \in Raiser : at'[q] # "idle" => at[q] # "idle" /\ exc'[q] = exc[q]
    BY <1>1, RingFacts
  <2>3. \A q \in Raiser : at'[q] \notin {"idle", "signal"} => at[q] \notin {"idle", "signal"}
    BY <1>1, RingFacts
  <2> QED
    BY <2>1, <2>2, <2>3 DEF RingInv, EventsNew
<1>5. NodesApart' /\ NodesKept' /\ EventsApart' /\ EventsKept'
  BY <1>1, PlacesStay DEF RingInv, ring, lists, past
<1> QED
  BY <1>2, <1>3, <1>4, <1>5 DEF RingInv

\* An exception gets a number that was not there.
LEMMA RaiseMoves ==
  ASSUME RingInv, NEW r \in Raiser, Raise(r)
  PROVE  RingInv'
<1>1. /\ r \in Thread /\ r \notin Worker
      /\ UNCHANGED <<listed, installed, ring, waker, lists, ctl, past>>
      /\ raised' = raised + 1 /\ raised' \in 0..RaiseMax /\ raised < raised'
      /\ \A t \in Thread \ {r} : at'[t] = at[t]
      /\ \A q \in Raiser \ {r} : exc'[q] = exc[q]
      /\ at[r] = "idle"
  BY RingFacts DEF Raise, GoTo, RingInv, RingTypes
<1>2. /\ exc' \in [Raiser -> [kind : Kinds \cup {"none"}, event : 0..RaiseMax]]
      /\ at' \in [Thread -> RaiserStates \cup WorkerStates]
      /\ at'[r] = "idle" \/ (at'[r] = "entry" /\ exc'[r].event = raised')
  <2>1. CASE listed
    <3>1. PICK k \in Kinds : /\ exc' = [exc EXCEPT ![r] = [kind |-> k, event |-> raised']]
                             /\ at' = [at EXCEPT ![r] = "entry"]
      BY <2>1 DEF Raise, GoTo
    <3> QED
      BY <1>1, <3>1, RingFacts DEF RaiserStates
  <2>2. CASE ~listed
    BY <1>1, <2>2, RingFacts DEF Raise
  <2> QED
    BY <2>1, <2>2
<1>3. RingTypes'
  BY <1>1, <1>2, RingFacts DEF RingInv, RingTypes, RaiserStates, ring, lists, past, NodesIn
<1>4. HoldsBusy'
  <2>1. holds' = holds /\ holds[r] = <<>>
    BY <1>1 DEF lists, RingInv, HoldsBusy
  <2> QED
    BY <1>1, <1>2, <2>1, RingFacts DEF RingInv, HoldsBusy
<1>5. EventsNew'
  <2>1. queued' = queued /\ \A e \in queued : e <= raised /\ e \in Nat
    <3>1. queued' = queued
      BY <1>1 DEF past
    <3>2. queued \subseteq 1..RaiseMax /\ \A e \in queued : e <= raised
      BY DEF RingInv, EventsNew, RingTypes, Event
    <3> QED
      BY <3>1, <3>2
  <2>2. \A q \in Raiser : at[q] # "idle" => exc[q].event \in 1..raised
    BY DEF RingInv, EventsNew
  <2>3. raised' \in 1..raised' /\ raised' \notin queued /\ 1..raised \subseteq 1..raised'
        /\ raised' \notin 1..raised /\ \A e \in queued : e <= raised'
    BY <1>1, <2>1, RingFacts
  <2>4. \A q \in Raiser : at'[q] # "idle" =>
          \/ q # r /\ at'[q] = at[q] /\ exc'[q] = exc[q]
          \/ q = r /\ exc'[q].event = raised'
    BY <1>1, <1>2, RingFacts
  <2>5. \A q \in Raiser : at'[q] # "idle" => exc'[q].event \in 1..raised'
    BY <2>2, <2>3, <2>4
  <2>6. \A q \in Raiser : at'[q] \notin {"idle", "signal"} => exc'[q].event \notin queued
    BY <2>3, <2>4 DEF RingInv, EventsNew
  <2>7. \A p, q \in Raiser : p # q /\ at'[p] # "idle" /\ at'[q] # "idle" =>
          exc'[p].event # exc'[q].event
    BY <2>2, <2>3, <2>4 DEF RingInv, EventsNew
  <2> QED
    BY <2>1, <2>3, <2>5, <2>6, <2>7 DEF EventsNew
<1>6. NodesApart' /\ NodesKept' /\ EventsApart' /\ EventsKept'
  BY <1>1, PlacesStay DEF RingInv, ring, lists, past
<1> QED
  BY <1>3, <1>4, <1>5, <1>6 DEF RingInv

\* A dispatch thread that moves no node, and the end of the process.
LEMMA WorkerMoves ==
  ASSUME RingInv, NEW w \in Worker, WorkerTop(w) \/ WorkerWait(w)
  PROVE  RingInv'
<1>1. /\ w \in Thread /\ w \notin Raiser
      /\ UNCHANGED <<listed, installed, ring, lists, exc, raised, ctl, past>> /\ waker' \in BOOLEAN
      /\ \A t \in Thread \ {w} : at'[t] = at[t]
      /\ at' \in [Thread -> RaiserStates \cup WorkerStates]
      /\ at'[w] \in {"wait", "residual", "claim"} /\ at[w] \in {"top", "wait"}
  BY RingFacts DEF WorkerTop, WorkerWait, GoTo, RingInv, RingTypes, WorkerStates
<1>2. RingTypes'
  BY <1>1, RingFacts DEF RingInv, RingTypes, WorkerStates, ring, lists, past, NodesIn
<1>3. HoldsBusy'
  <2>1. holds' = holds /\ holds[w] = <<>>
    BY <1>1 DEF lists, RingInv, HoldsBusy
  <2> QED
    BY <1>1, <2>1, RingFacts DEF RingInv, HoldsBusy
<1>4. EventsNew'
  BY <1>1, RingFacts DEF RingInv, EventsNew, past
<1>5. NodesApart' /\ NodesKept' /\ EventsApart' /\ EventsKept'
  BY <1>1, PlacesStay DEF RingInv, ring, lists, past
<1> QED
  BY <1>2, <1>3, <1>4, <1>5 DEF RingInv

\* A thread that meets a released pool takes its nodes with it.
LEMMA FaultMoves ==
  ASSUME RingInv, NEW t \in Thread, Fault(t)
  PROVE  RingInv'
<1>1. /\ UNCHANGED <<listed, installed, ring, waker, lists, exc, raised, ctl, past>>
      /\ at' = [at EXCEPT ![t] = "faulted"]
      /\ at[t] \in {"claim", "residual", "push", "dispatch"}
  <2>1. ToSet(<<>>) = {}
    BY NoSlots
  <2> QED
    BY <2>1 DEF Fault, GoTo
<1>2. RingTypes'
  BY <1>1, RingFacts DEF RingInv, RingTypes, WorkerStates, RaiserStates, ring, lists, past, NodesIn
<1>3. HoldsBusy'
  BY <1>1, RingFacts DEF RingInv, HoldsBusy, lists
<1>4. EventsNew'
  <2>1. \A q \in Raiser : /\ at'[q] # "idle" => at[q] # "idle"
                          /\ at'[q] \notin {"idle", "signal"} => at[q] \notin {"idle", "signal"}
    BY <1>1, RingFacts
  <2> QED
    BY <1>1, <2>1 DEF RingInv, EventsNew, past
<1>5. NodesApart' /\ NodesKept' /\ EventsApart' /\ EventsKept'
  BY <1>1, PlacesStay DEF RingInv, ring, lists, past
<1> QED
  BY <1>2, <1>3, <1>4, <1>5 DEF RingInv

\* A controller's step that allocates no ring.
LEMMA ControllerMoves ==
  ASSUME RingInv,
         RegisterHandler \/ PromoteRemove \/ PromoteAdd \/ Unregister \/ Join \/ Release
  PROVE  RingInv'
<1>1. /\ UNCHANGED <<pools, lists, at, exc, raised, past>>
      /\ pool' \in {pool, 0}
      /\ {listed', installed', ready', run', waker'} \subseteq BOOLEAN
      /\ ctl' \in {"idle", "listing", "promote", "join", "release"}
  BY DEF RegisterHandler, PromoteRemove, PromoteAdd, Unregister, Join, Release, ring,
     RingInv, RingTypes
<1>2. RingTypes'
  BY <1>1, RingFacts DEF RingInv, RingTypes, lists, past, NodesIn
<1>3. HoldsBusy' /\ EventsNew'
  BY <1>1 DEF RingInv, HoldsBusy, EventsNew, lists, past
<1>4. NodesApart' /\ NodesKept' /\ EventsApart' /\ EventsKept'
  <2>1. CASE pool' = pool
    BY <1>1, <2>1, PlacesStay DEF RingInv, lists, past
  <2>2. CASE pool' = 0
    <3>1. NodesKept'
      BY <2>2 DEF NodesKept
    <3>2. NodesApart' /\ EventsApart' /\ EventsKept'
      BY <1>1 DEF RingInv, NodesApart, EventsApart, EventsKept, OneNodeEach, OneEventEach,
         NodesIn, EventsIn, lists, past
    <3> QED
      BY <3>1, <3>2
  <2> QED
    BY <1>1, <2>1, <2>2
<1> QED
  BY <1>2, <1>3, <1>4 DEF RingInv

\* The pop moves a node from the free list to the raiser.
LEMMA PopMoves ==
  ASSUME RingInv, NEW r \in Raiser, EnqueuePop(r)
  PROVE  RingInv'
<1>1. PICK n \in spare : /\ spare' = spare \ {n}
                         /\ holds' = [holds EXCEPT ![r] = <<Carrying(n, exc[r].event)>>]
  BY DEF EnqueuePop
<1> DEFINE x == Carrying(n, exc[r].event)
<1>2. /\ r \in Thread /\ r \notin Worker /\ at[r] = "pop" /\ holds[r] = <<>>
      /\ n \in AnyNode /\ n.pool <= pools
      /\ at' = [at EXCEPT ![r] = "push"]
      /\ UNCHANGED <<listed, installed, ring, waker, queue, exc, raised, ctl, past>>
      /\ exc[r].event \in Event /\ exc[r].event \notin queued
  <2>1. /\ at[r] = "pop" /\ at' = [at EXCEPT ![r] = "push"]
        /\ UNCHANGED <<listed, installed, ring, waker, queue, exc, raised, ctl, past>>
    BY DEF EnqueuePop, GoTo
  <2>2. exc[r].event \in 1..raised /\ exc[r].event \notin queued /\ 1..raised \subseteq Event
    <3>1. raised \in 0..RaiseMax
      BY DEF RingInv, RingTypes
    <3>2. exc[r].event \in 1..raised /\ exc[r].event \notin queued
      BY <2>1 DEF RingInv, EventsNew
    <3> QED
      BY <3>1, <3>2, RingBounds DEF Event
  <2>3. holds[r] = <<>> /\ r \in Thread /\ r \notin Worker
    BY <2>1, RingFacts DEF RingInv, HoldsBusy
  <2>4. n \in AnyNode /\ n.pool <= pools
    BY DEF RingInv, RingTypes
  <2> QED
    BY <2>1, <2>2, <2>3, <2>4
<1>3. x \in AnySlot /\ x.node = n /\ x.event = exc[r].event
  BY <1>2 DEF Carrying, AnySlot
<1>4. <<x>> \in Seq(AnySlot) /\ Len(<<x>>) = 1 /\ Head(<<x>>) = x
  BY <1>3
<1>5. /\ holds'[r] = <<x>> /\ NodesIn(holds'[r]) = {n} /\ OneNodeEach(holds'[r])
      /\ \A t \in Thread \ {r} : holds'[t] = holds[t]
      /\ holds' \in [Thread -> Seq(AnySlot)] /\ NodesIn(holds[r]) = {}
  BY <1>1, <1>2, <1>3, <1>4, OneSlot, NoSlots, RingFacts
<1> HIDE DEF x
<1>6. RingTypes'
  BY <1>1, <1>2, <1>5, RingFacts DEF RingInv, RingTypes, RaiserStates, ring, past, NodesIn
<1>7. HoldsBusy'
  <2>1. Len(holds'[r]) = 1 /\ Head(holds'[r]).event = exc'[r].event
    BY <1>2, <1>3, <1>4, <1>5
  <2>2. 1 <= NodeMax
    BY RingBounds
  <2> QED
    BY <1>2, <1>5, <2>1, <2>2, RingFacts DEF RingInv, HoldsBusy
<1>8. NodesApart' /\ NodesKept'
  <2>1. n \notin NodesIn(queue) /\ \A t \in Thread : n \notin NodesIn(holds[t])
    BY DEF RingInv, NodesApart
  <2>2. queue' = queue /\ pool' = pool
    BY <1>2 DEF ring
  <2>3. NodesApart'
    <3>1. /\ n \notin spare' /\ spare' \subseteq spare
          /\ \A t \in Thread \ {r} : NodesIn(holds'[t]) = NodesIn(holds[t]) /\ OneNodeEach(holds'[t])
      BY <1>1, <1>5 DEF RingInv, NodesApart
    <3>2. \A t, u \in Thread : t # u => NodesIn(holds'[t]) \cap NodesIn(holds'[u]) = {}
      <4> SUFFICES ASSUME NEW t \in Thread, NEW u \in Thread, t # u
                   PROVE  NodesIn(holds'[t]) \cap NodesIn(holds'[u]) = {}
        OBVIOUS
      <4>1. CASE t = r
        BY <1>5, <2>1, <3>1, <4>1
      <4>2. CASE u = r
        BY <1>5, <2>1, <3>1, <4>2
      <4>3. CASE t # r /\ u # r
        BY <3>1, <4>3 DEF RingInv, NodesApart
      <4> QED
        BY <4>1, <4>2, <4>3
    <3>3. OneNodeEach(queue') /\ NodesIn(queue') = NodesIn(queue)
      BY <2>2 DEF RingInv, NodesApart
    <3>4. \A t \in Thread : /\ OneNodeEach(holds'[t])
                            /\ NodesIn(holds'[t]) \cap spare' = {}
                            /\ NodesIn(holds'[t]) \cap NodesIn(queue) = {}
      BY <1>5, <2>1, <3>1 DEF RingInv, NodesApart
    <3>5. spare' \cap NodesIn(queue) = {}
      BY <3>1 DEF RingInv, NodesApart
    <3> QED
      BY <3>2, <3>3, <3>4, <3>5 DEF NodesApart
  <2>4. NodesKept'
    BY <1>1, <1>2, <1>5, <2>2 DEF RingInv, NodesKept, NodesIn
  <2> QED
    BY <2>3, <2>4
<1>9. EventsNew' /\ EventsApart' /\ EventsKept'
  <2>1. \A w \in Worker : holds'[w] = holds[w]
    BY <1>2, <1>5, RingFacts
  <2>2. EventsNew'
    BY <1>2, RingFacts DEF RingInv, EventsNew, past
  <2>3. EventsApart'
    BY <1>2, <2>1 DEF RingInv, EventsApart, EventsIn, OneEventEach, past
  <2>4. EventsKept'
    BY <1>2, <2>1 DEF RingInv, EventsKept, EventsIn, past
  <2> QED
    BY <2>2, <2>3, <2>4
<1> QED
  BY <1>6, <1>7, <1>8, <1>9 DEF RingInv

\* The push moves the node to the list, and its event with it.
LEMMA PushMoves ==
  ASSUME RingInv, NEW r \in Raiser, EnqueuePush(r)
  PROVE  RingInv'
<1> DEFINE x == Head(holds[r])
           e == exc[r].event
<1>1. /\ r \in Thread /\ r \notin Worker /\ at[r] = "push" /\ e \in Event
      /\ e \in 1..raised /\ e \notin queued
      /\ holds[r] \in Seq(AnySlot) /\ Len(holds[r]) = 1 /\ x.event = e
      /\ holds' = [holds EXCEPT ![r] = <<>>]
      /\ queued' = queued \cup {e} /\ at' = [at EXCEPT ![r] = "signal"]
      /\ UNCHANGED <<listed, installed, ring, waker, spare, exc, raised, ctl, told, tossed>>
  BY RingFacts DEF EnqueuePush, GoTo, RingInv, RingTypes, HoldsBusy, EventsNew, Event
<1>2. /\ holds[r] = <<x>> /\ x \in AnySlot /\ NodesIn(holds[r]) = {x.node}
      /\ queue' = <<x>> \o queue
  BY <1>1, OneSlot DEF EnqueuePush
<1> HIDE DEF x
<1>3. /\ holds'[r] = <<>> /\ NodesIn(holds'[r]) = {} /\ OneNodeEach(holds'[r]) /\ Len(holds'[r]) = 0
      /\ \A t \in Thread \ {r} : holds'[t] = holds[t]
      /\ holds' \in [Thread -> Seq(AnySlot)]
  BY <1>1, NoSlots, RingFacts
<1>4. x.node \notin NodesIn(queue) /\ OneNodeEach(queue) /\ x.event \notin EventsIn(queue)
      /\ OneEventEach(queue) /\ x.node.pool <= pools
  BY <1>1, <1>2 DEF RingInv, NodesApart, EventsApart, RingTypes
<1>5. /\ queue' \in Seq(AnySlot)
      /\ NodesIn(queue') = {x.node} \cup NodesIn(queue)
      /\ EventsIn(queue') = {e} \cup EventsIn(queue)
      /\ OneNodeEach(queue') /\ OneEventEach(queue')
  <2>1. \A y \in AnySlot, s \in Seq(AnySlot) :
          /\ <<y>> \o s \in Seq(AnySlot)
          /\ NodesIn(<<y>> \o s) = {y.node} \cup NodesIn(s)
          /\ EventsIn(<<y>> \o s) = {y.event} \cup EventsIn(s)
          /\ OneNodeEach(s) /\ y.node \notin NodesIn(s) => OneNodeEach(<<y>> \o s)
          /\ OneEventEach(s) /\ y.event \notin EventsIn(s) => OneEventEach(<<y>> \o s)
    BY ConsSlots
  <2>2. queue \in Seq(AnySlot)
    BY RingFacts
  <2> QED
    BY <1>1, <1>2, <1>4, <2>1, <2>2, Zenon
<1> HIDE DEF e
<1>6. RingTypes'
  <2>1. \A t \in Thread : NodesIn(holds'[t]) \subseteq NodesIn(holds[t])
    BY <1>3 DEF NodesIn
  <2>2. queued' \subseteq Event
    BY <1>1 DEF RingInv, RingTypes
  <2>3. /\ at' \in [Thread -> RaiserStates \cup WorkerStates] /\ at'[r] \in RaiserStates
        /\ \A w \in Worker : at'[w] = at[w]
        /\ \A q \in Raiser \ {r} : at'[q] = at[q]
    BY <1>1, RingFacts DEF RaiserStates
  <2>4. \A n \in spare' \cup NodesIn(queue') : n.pool <= pools'
    BY <1>1, <1>4, <1>5 DEF RingInv, RingTypes, ring
  <2>5. \A t \in Thread : \A n \in NodesIn(holds'[t]) : n.pool <= pools'
    BY <1>1, <2>1 DEF RingInv, RingTypes, ring
  <2> QED
    BY <1>1, <1>3, <1>5, <2>2, <2>3, <2>4, <2>5 DEF RingInv, RingTypes, ring
<1>7. HoldsBusy'
  BY <1>1, <1>3, RingFacts, RingBounds DEF RingInv, HoldsBusy
<1>8. NodesApart' /\ NodesKept'
  <2>1. \A t \in Thread \ {r} : x.node \notin NodesIn(holds[t])
    BY <1>1, <1>2 DEF RingInv, NodesApart
  <2>2. x.node \notin spare /\ spare' = spare /\ pool' = pool
    BY <1>1, <1>2 DEF RingInv, NodesApart, ring
  <2>3. \A t \in Thread : NodesIn(holds'[t]) = NodesIn(holds[t]) \ {x.node}
    BY <1>2, <1>3, <2>1 DEF NodesIn
  <2>4. NodesApart'
    BY <1>3, <1>5, <2>2, <2>3 DEF RingInv, NodesApart
  <2>5. NodesKept'
    BY <1>5, <2>2, <2>3 DEF RingInv, NodesKept
  <2> QED
    BY <2>4, <2>5
<1>9. EventsNew'
  <2>1. \A q \in Raiser \ {r} : exc[q].event # e \/ at[q] = "idle"
    BY <1>1 DEF RingInv, EventsNew, e
  <2>2. e <= raised
    BY <1>1, RingFacts
  <2>3. at'[r] = "signal" /\ \A q \in Raiser \ {r} : at'[q] = at[q]
    BY <1>1, RingFacts
  <2>4. \A q \in Raiser : at'[q] # "idle" => at[q] # "idle"
    BY <1>1, <2>3
  <2>5. \A q \in Raiser : at'[q] \notin {"idle", "signal"} => exc'[q].event \notin queued'
    BY <1>1, <2>1, <2>3 DEF RingInv, EventsNew
  <2> QED
    BY <1>1, <2>2, <2>4, <2>5 DEF RingInv, EventsNew
<1>10. EventsApart' /\ EventsKept'
  <2>1. \A w \in Worker : holds'[w] = holds[w]
    BY <1>1, <1>3, RingFacts
  <2>2. told' = told /\ tossed' = tossed /\ told[e] = 0 /\ \A w \in Worker : e \notin EventsIn(holds[w])
    BY <1>1 DEF RingInv, EventsApart
  <2>3. \A w \in Worker : EventsIn(holds'[w]) = EventsIn(holds[w]) /\ OneEventEach(holds'[w])
    BY <2>1 DEF RingInv, EventsApart
  <2>4. EventsApart'
    <3>1. \A w \in Worker :
            /\ EventsIn(holds'[w]) \subseteq queued'
            /\ \A f \in EventsIn(holds'[w]) : told'[f] = 0
            /\ EventsIn(holds'[w]) \cap EventsIn(queue') = {}
      BY <1>1, <1>5, <2>2, <2>3 DEF RingInv, EventsApart
    <3>2. \A w, v \in Worker : w # v => EventsIn(holds'[w]) \cap EventsIn(holds'[v]) = {}
      BY <2>3 DEF RingInv, EventsApart
    <3>3. EventsIn(queue') \subseteq queued' /\ \A f \in EventsIn(queue') : told'[f] = 0
      BY <1>1, <1>5, <2>2 DEF RingInv, EventsApart
    <3>4. \A f \in Event : told'[f] \in {0, 1} /\ (told'[f] = 1 => f \in queued')
      BY <1>1, <2>2 DEF RingInv, EventsApart
    <3> QED
      BY <1>5, <2>3, <3>1, <3>2, <3>3, <3>4 DEF EventsApart
  <2>5. EventsKept'
    BY <1>1, <1>5, <2>2, <2>3 DEF RingInv, EventsKept
  <2> QED
    BY <2>4, <2>5
<1> QED
  BY <1>6, <1>7, <1>8, <1>9, <1>10 DEF RingInv

\* The claim moves the list to the dispatch thread.
LEMMA ClaimMoves ==
  ASSUME RingInv, NEW w \in Worker, WorkerClaim(w)
  PROVE  RingInv'
<1>1. /\ w \in Thread /\ w \notin Raiser /\ at[w] = "claim" /\ holds[w] = <<>>
      /\ queue \in Seq(AnySlot)
      /\ holds' = [holds EXCEPT ![w] = Reverse(queue)] /\ queue' = <<>>
      /\ at' = [at EXCEPT ![w] = IF queue = <<>> THEN "top" ELSE "dispatch"]
      /\ \A s \in ToSet(queue) : Alive(s)
      /\ UNCHANGED <<listed, installed, ring, waker, spare, exc, raised, ctl, past>>
  BY RingFacts DEF WorkerClaim, GoTo, RingInv, HoldsBusy
<1>2. /\ holds'[w] = Reverse(queue) /\ holds'[w] \in Seq(AnySlot) /\ Len(holds'[w]) = Len(queue)
      /\ NodesIn(holds'[w]) = NodesIn(queue) /\ EventsIn(holds'[w]) = EventsIn(queue)
      /\ OneNodeEach(holds'[w]) /\ OneEventEach(holds'[w])
      /\ \A t \in Thread \ {w} : holds'[t] = holds[t]
  BY <1>1, ReverseSlots, RingFacts DEF RingInv, NodesApart, EventsApart
<1>3. /\ NodesIn(queue') = {} /\ EventsIn(queue') = {} /\ OneNodeEach(queue') /\ OneEventEach(queue')
      /\ NodesIn(holds[w]) = {} /\ EventsIn(holds[w]) = {}
      /\ queue' \in Seq(AnySlot)
  BY <1>1, NoSlots
<1>4. holds' \in [Thread -> Seq(AnySlot)]
  BY <1>1, <1>2, RingFacts
<1>5. Len(holds'[w]) <= NodeMax
  BY <1>1, <1>2, ListFits DEF RingInv, NodesApart
<1>6. queue # <<>> => holds'[w] # <<>>
  BY <1>1, <1>2
<1>7. holds'[w] # <<>> => queue # <<>>
  BY <1>1, <1>2
<1>8. RingTypes'
  <2>1. \A t \in Thread : \A n \in NodesIn(holds'[t]) : n.pool <= pools'
    BY <1>1, <1>2 DEF RingInv, RingTypes, ring
  <2>2. /\ at' \in [Thread -> RaiserStates \cup WorkerStates] /\ at'[w] \in WorkerStates
        /\ \A r \in Raiser : at'[r] = at[r]
        /\ \A v \in Worker \ {w} : at'[v] = at[v]
    BY <1>1, RingFacts DEF WorkerStates
  <2>3. \A n \in spare' \cup NodesIn(queue') : n.pool <= pools'
    BY <1>1, <1>3 DEF RingInv, RingTypes, ring
  <2> QED
    BY <1>1, <1>3, <1>4, <2>1, <2>2, <2>3 DEF RingInv, RingTypes, ring, past
<1>9. HoldsBusy'
  <2>1. at'[w] = (IF queue = <<>> THEN "top" ELSE "dispatch")
        /\ \A t \in Thread \ {w} : at'[t] = at[t]
    BY <1>1, RingFacts
  <2> QED
    BY <1>1, <1>2, <1>5, <1>6, <1>7, <2>1, RingFacts DEF RingInv, HoldsBusy
<1>10. EventsNew'
  <2>1. \A r \in Raiser : at'[r] = at[r]
    BY <1>1, RingFacts
  <2> QED
    BY <1>1, <2>1 DEF RingInv, EventsNew, past
<1>11. NodesApart' /\ NodesKept'
  <2>1. spare' = spare /\ pool' = pool
    BY <1>1 DEF ring
  <2>2. \A t \in Thread \ {w} : NodesIn(holds'[t]) = NodesIn(holds[t]) /\ OneNodeEach(holds'[t])
    BY <1>2 DEF RingInv, NodesApart
  <2>3. \A t, u \in Thread : t # u => NodesIn(holds'[t]) \cap NodesIn(holds'[u]) = {}
    <3> SUFFICES ASSUME NEW t \in Thread, NEW u \in Thread, t # u
                 PROVE  NodesIn(holds'[t]) \cap NodesIn(holds'[u]) = {}
      OBVIOUS
    <3>1. CASE t = w
      BY <1>2, <2>2, <3>1 DEF RingInv, NodesApart
    <3>2. CASE u = w
      BY <1>2, <2>2, <3>2 DEF RingInv, NodesApart
    <3>3. CASE t # w /\ u # w
      BY <2>2, <3>3 DEF RingInv, NodesApart
    <3> QED
      BY <3>1, <3>2, <3>3
  <2>4. \A t \in Thread : NodesIn(holds'[t]) \cap spare = {} /\ OneNodeEach(holds'[t])
    BY <1>2, <2>2 DEF RingInv, NodesApart
  <2>5. NodesApart'
    BY <1>3, <2>1, <2>3, <2>4 DEF NodesApart
  <2>6. NodesKept'
    BY <1>1, <1>2, <1>3, <2>1, <2>2 DEF RingInv, NodesKept
  <2> QED
    BY <2>5, <2>6
<1>12. EventsApart' /\ EventsKept'
  <2>1. told' = told /\ tossed' = tossed /\ queued' = queued
    BY <1>1 DEF past
  <2>2. \A v \in Worker \ {w} : EventsIn(holds'[v]) = EventsIn(holds[v]) /\ OneEventEach(holds'[v])
    BY <1>2, RingFacts DEF RingInv, EventsApart
  <2>3. \A u, v \in Worker : u # v => EventsIn(holds'[u]) \cap EventsIn(holds'[v]) = {}
    <3> SUFFICES ASSUME NEW u \in Worker, NEW v \in Worker, u # v
                 PROVE  EventsIn(holds'[u]) \cap EventsIn(holds'[v]) = {}
      OBVIOUS
    <3>1. CASE u = w
      BY <1>2, <2>2, <3>1 DEF RingInv, EventsApart
    <3>2. CASE v = w
      BY <1>2, <2>2, <3>2 DEF RingInv, EventsApart
    <3>3. CASE u # w /\ v # w
      BY <2>2, <3>3 DEF RingInv, EventsApart
    <3> QED
      BY <3>1, <3>2, <3>3
  <2>4. \A v \in Worker : /\ OneEventEach(holds'[v]) /\ EventsIn(holds'[v]) \subseteq queued
                          /\ \A e \in EventsIn(holds'[v]) : told[e] = 0
    BY <1>2, <2>2 DEF RingInv, EventsApart
  <2>5. EventsApart'
    BY <1>3, <2>1, <2>3, <2>4 DEF RingInv, EventsApart
  <2>6. EventsKept'
    BY <1>1, <1>2, <1>3, <2>1, <2>2 DEF RingInv, EventsKept
  <2> QED
    BY <2>5, <2>6
<1> QED
  BY <1>8, <1>9, <1>10, <1>11, <1>12 DEF RingInv

\* A dispatch reports the event and gives its node back.
LEMMA DispatchMoves ==
  ASSUME RingInv, NEW w \in Worker, WorkerDispatch(w)
  PROVE  RingInv'
<1> DEFINE x == Head(holds[w])
           n == x.node
           e == x.event
<1>1. /\ w \in Thread /\ w \notin Raiser /\ at[w] = "dispatch"
      /\ holds[w] \in Seq(AnySlot) /\ holds[w] # <<>>
      /\ told' = [told EXCEPT ![e] = @ + 1] /\ spare' = spare \cup {n}
      /\ holds' = [holds EXCEPT ![w] = Tail(holds[w])]
      /\ at' = [at EXCEPT ![w] = IF Len(holds[w]) = 1 THEN "top" ELSE "dispatch"]
      /\ UNCHANGED <<listed, installed, ring, waker, queue, exc, raised, ctl, queued, tossed>>
  BY RingFacts DEF WorkerDispatch, GoTo, RingInv, HoldsBusy
<1>2. /\ x \in AnySlot /\ n \in AnyNode /\ e \in Event
      /\ Tail(holds[w]) \in Seq(AnySlot) /\ Len(Tail(holds[w])) = Len(holds[w]) - 1
      /\ NodesIn(holds[w]) = {n} \cup NodesIn(Tail(holds[w])) /\ n \notin NodesIn(Tail(holds[w]))
      /\ EventsIn(holds[w]) = {e} \cup EventsIn(Tail(holds[w])) /\ e \notin EventsIn(Tail(holds[w]))
      /\ OneNodeEach(Tail(holds[w])) /\ OneEventEach(Tail(holds[w]))
      /\ Len(holds[w]) \in Nat
  <2>1. OneNodeEach(holds[w]) /\ OneEventEach(holds[w])
    BY <1>1 DEF RingInv, NodesApart, EventsApart
  <2>2. \A y \in AnySlot : y.node \in AnyNode /\ y.event \in Event
    BY DEF AnySlot
  <2>3. x \in AnySlot /\ Len(holds[w]) \in Nat
    BY <1>1, TailSlots
  <2> QED
    BY <1>1, <2>1, <2>2, <2>3, TailSlots
<1>3. /\ holds'[w] = Tail(holds[w]) /\ \A t \in Thread \ {w} : holds'[t] = holds[t]
      /\ holds' \in [Thread -> Seq(AnySlot)]
  BY <1>1, <1>2, RingFacts
<1>4. /\ told[e] = 0 /\ told'[e] = 1 /\ \A f \in Event \ {e} : told'[f] = told[f]
      /\ told' \in [Event -> Nat] /\ e \in queued
  <2>1. told \in [Event -> Nat]
    BY DEF RingInv, RingTypes
  <2>2. told[e] = 0 /\ e \in queued
    BY <1>2 DEF RingInv, EventsApart
  <2> QED
    BY <1>1, <1>2, <2>1, <2>2
<1> HIDE DEF e, n, x
<1>5. RingTypes'
  <2>1. n.pool <= pools
    BY <1>1, <1>2 DEF RingInv, RingTypes
  <2>2. \A t \in Thread : NodesIn(holds'[t]) \subseteq NodesIn(holds[t])
    BY <1>2, <1>3
  <2>3. /\ at' \in [Thread -> RaiserStates \cup WorkerStates] /\ at'[w] \in WorkerStates
        /\ \A r \in Raiser : at'[r] = at[r]
        /\ \A v \in Worker \ {w} : at'[v] = at[v]
    BY <1>1, RingFacts DEF WorkerStates
  <2>4. \A m \in spare' \cup NodesIn(queue') : m.pool <= pools'
    BY <1>1, <2>1 DEF RingInv, RingTypes, ring, NodesIn
  <2>5. \A t \in Thread : \A m \in NodesIn(holds'[t]) : m.pool <= pools'
    BY <1>1, <2>2 DEF RingInv, RingTypes, ring
  <2>6. spare' \subseteq AnyNode
    BY <1>1, <1>2 DEF RingInv, RingTypes
  <2> QED
    BY <1>1, <1>3, <1>4, <2>3, <2>4, <2>5, <2>6 DEF RingInv, RingTypes, ring
<1>6. HoldsBusy'
  <2>1. at'[w] = (IF Len(holds[w]) = 1 THEN "top" ELSE "dispatch")
        /\ \A t \in Thread \ {w} : at'[t] = at[t]
    BY <1>1, RingFacts
  <2>2. Len(holds[w]) = 1 <=> holds'[w] = <<>>
    <3>1. \A s \in Seq(AnySlot) : Len(s) = 0 <=> s = <<>>
      OBVIOUS
    <3>2. Len(holds'[w]) = 0 <=> holds'[w] = <<>>
      BY <1>2, <1>3, <3>1
    <3>3. Len(holds'[w]) = Len(holds[w]) - 1 /\ Len(holds[w]) \in Nat
      BY <1>2, <1>3
    <3> QED
      BY <3>2, <3>3
  <2>3. Len(holds'[w]) <= NodeMax
    <3>1. Len(holds[w]) <= NodeMax
      BY <1>1 DEF RingInv, HoldsBusy
    <3> QED
      BY <1>2, <1>3, <3>1, RingBounds
  <2> QED
    BY <1>1, <1>3, <2>1, <2>2, <2>3, RingFacts DEF RingInv, HoldsBusy
<1>7. EventsNew'
  <2>1. \A r \in Raiser : at'[r] = at[r]
    BY <1>1, RingFacts
  <2> QED
    BY <1>1, <2>1 DEF RingInv, EventsNew
<1>8. NodesApart' /\ NodesKept'
  <2>1. \A t \in Thread \ {w} : n \notin NodesIn(holds[t])
    BY <1>1, <1>2 DEF RingInv, NodesApart
  <2>2. n \notin NodesIn(queue) /\ queue' = queue /\ pool' = pool
    BY <1>1, <1>2 DEF RingInv, NodesApart, ring
  <2>3. \A t \in Thread : NodesIn(holds'[t]) = NodesIn(holds[t]) \ {n} /\ OneNodeEach(holds'[t])
    <3> SUFFICES ASSUME NEW t \in Thread
                 PROVE  NodesIn(holds'[t]) = NodesIn(holds[t]) \ {n} /\ OneNodeEach(holds'[t])
      OBVIOUS
    <3>1. CASE t = w
      BY <1>2, <1>3, <3>1
    <3>2. CASE t # w
      BY <1>3, <2>1, <3>2 DEF RingInv, NodesApart
    <3> QED
      BY <3>1, <3>2
  <2>4. NodesApart'
    BY <1>1, <2>2, <2>3 DEF RingInv, NodesApart
  <2>5. NodesKept'
    BY <1>1, <2>2, <2>3 DEF RingInv, NodesKept
  <2> QED
    BY <2>4, <2>5
<1>9. EventsApart' /\ EventsKept'
  <2>1. \A v \in Worker \ {w} : e \notin EventsIn(holds[v])
    BY <1>2 DEF RingInv, EventsApart
  <2>2. e \notin EventsIn(queue) /\ queue' = queue /\ queued' = queued /\ tossed' = tossed
    BY <1>1, <1>2 DEF RingInv, EventsApart
  <2>3. \A v \in Worker : EventsIn(holds'[v]) = EventsIn(holds[v]) \ {e} /\ OneEventEach(holds'[v])
    <3> SUFFICES ASSUME NEW v \in Worker
                 PROVE  EventsIn(holds'[v]) = EventsIn(holds[v]) \ {e} /\ OneEventEach(holds'[v])
      OBVIOUS
    <3>1. CASE v = w
      BY <1>2, <1>3, <3>1
    <3>2. CASE v # w
      <4>1. v \in Thread \ {w} /\ holds'[v] = holds[v] /\ OneEventEach(holds[v])
        BY <1>3, <3>2, RingFacts DEF RingInv, EventsApart
      <4> QED
        BY <2>1, <3>2, <4>1
    <3> QED
      BY <3>1, <3>2
  <2>4. EventsApart'
    <3>1. \A v \in Worker :
            /\ EventsIn(holds'[v]) \subseteq queued' /\ EventsIn(holds'[v]) \cap EventsIn(queue') = {}
            /\ EventsIn(holds[v]) \subseteq Event
      <4>1. queued \subseteq Event
        BY DEF RingInv, RingTypes
      <4> QED
        BY <2>2, <2>3, <4>1 DEF RingInv, EventsApart
    <3>2. \A v \in Worker : \A f \in EventsIn(holds'[v]) : told'[f] = 0
      BY <1>4, <2>3, <3>1 DEF RingInv, EventsApart
    <3>3. \A v, u \in Worker : v # u => EventsIn(holds'[v]) \cap EventsIn(holds'[u]) = {}
      BY <2>3 DEF RingInv, EventsApart
    <3>4. EventsIn(queue) \subseteq Event
      BY SlotsIn, RingFacts
    <3>5. EventsIn(queue') \subseteq queued' /\ \A f \in EventsIn(queue') : told'[f] = 0
      BY <1>4, <2>2, <3>4 DEF RingInv, EventsApart
    <3>6. \A f \in Event : told'[f] \in {0, 1} /\ (told'[f] = 1 => f \in queued')
      BY <1>4, <2>2 DEF RingInv, EventsApart
    <3>7. OneEventEach(queue')
      BY <2>2 DEF RingInv, EventsApart
    <3> QED
      BY <2>3, <3>1, <3>2, <3>3, <3>5, <3>6, <3>7 DEF EventsApart
  <2>5. EventsKept'
    <3>1. queued \subseteq Event
      BY DEF RingInv, RingTypes
    <3>2. \A f \in queued \ {e} : told'[f] = told[f]
      BY <1>4, <3>1
    <3>3. \A f \in queued \ {e} : f \in EventsIn(queue') <=> f \in EventsIn(queue)
      BY <2>2
    <3> QED
      BY <1>4, <2>2, <2>3, <3>2, <3>3 DEF RingInv, EventsKept
  <2> QED
    BY <2>4, <2>5
<1> QED
  BY <1>5, <1>6, <1>7, <1>8, <1>9 DEF RingInv

\* The residual drain discards what the list still holds.
LEMMA ResidualMoves ==
  ASSUME RingInv, NEW w \in Worker, WorkerResidual(w)
  PROVE  RingInv'
<1>1. /\ w \in Thread /\ w \notin Raiser /\ at[w] = "residual" /\ holds[w] = <<>>
      /\ spare' = spare \cup NodesIn(queue) /\ tossed' = tossed \cup EventsIn(queue)
      /\ queue' = <<>> /\ at' = [at EXCEPT ![w] = "exited"]
      /\ UNCHANGED <<listed, installed, ring, waker, holds, exc, raised, ctl, queued, told>>
  BY RingFacts DEF WorkerResidual, GoTo, RingInv, HoldsBusy, NodesIn, EventsIn
<1>2. /\ NodesIn(queue') = {} /\ EventsIn(queue') = {} /\ OneNodeEach(queue') /\ OneEventEach(queue')
      /\ queue' \in Seq(AnySlot)
      /\ NodesIn(queue) \subseteq AnyNode /\ EventsIn(queue) \subseteq Event
  BY <1>1, NoSlots, SlotsIn, RingFacts
<1>3. /\ \A t \in Thread : NodesIn(holds'[t]) = NodesIn(holds[t]) /\ OneNodeEach(holds'[t])
      /\ \A v \in Worker : EventsIn(holds'[v]) = EventsIn(holds[v]) /\ OneEventEach(holds'[v])
  BY <1>1 DEF RingInv, NodesApart, EventsApart
<1>4. RingTypes'
  <2>1. /\ at' \in [Thread -> RaiserStates \cup WorkerStates] /\ at'[w] \in WorkerStates
        /\ \A r \in Raiser : at'[r] = at[r]
        /\ \A v \in Worker \ {w} : at'[v] = at[v]
    BY <1>1, RingFacts DEF WorkerStates
  <2>2. \A m \in spare' \cup NodesIn(queue') : m.pool <= pools'
    BY <1>1, <1>2 DEF RingInv, RingTypes, ring
  <2>3. \A t \in Thread : \A m \in NodesIn(holds'[t]) : m.pool <= pools'
    BY <1>1, <1>3 DEF RingInv, RingTypes, ring
  <2>4. spare' \subseteq AnyNode /\ tossed' \subseteq Event
    BY <1>1, <1>2 DEF RingInv, RingTypes
  <2> QED
    BY <1>1, <1>2, <2>1, <2>2, <2>3, <2>4 DEF RingInv, RingTypes, ring
<1>5. HoldsBusy'
  <2>1. at'[w] = "exited" /\ \A t \in Thread \ {w} : at'[t] = at[t]
    BY <1>1, RingFacts
  <2> QED
    BY <1>1, <2>1, RingFacts DEF RingInv, HoldsBusy
<1>6. EventsNew'
  <2>1. \A r \in Raiser : at'[r] = at[r]
    BY <1>1, RingFacts
  <2> QED
    BY <1>1, <2>1 DEF RingInv, EventsNew
<1>7. NodesApart' /\ NodesKept'
  <2>1. NodesApart'
    BY <1>1, <1>2, <1>3 DEF RingInv, NodesApart
  <2>2. NodesKept'
    BY <1>1, <1>2, <1>3 DEF RingInv, NodesKept, ring
  <2> QED
    BY <2>1, <2>2
<1>8. EventsApart' /\ EventsKept'
  <2>1. EventsApart'
    BY <1>1, <1>2, <1>3 DEF RingInv, EventsApart
  <2>2. EventsKept'
    BY <1>1, <1>2, <1>3 DEF RingInv, EventsKept
  <2> QED
    BY <2>1, <2>2
<1> QED
  BY <1>4, <1>5, <1>6, <1>7, <1>8 DEF RingInv

\* A new ring has all its nodes on the free list, and none of them was anywhere.
LEMMA RegisterMoves ==
  ASSUME RingInv, RegisterRing
  PROVE  RingInv'
<1>1. /\ UNCHANGED <<listed, installed, holds, exc, raised, queued, told>>
      /\ pools' = pools + 1 /\ pools' \in 0..CallMax /\ ctl' = "listing" /\ pools' \in Nat \ {0}
  BY RingFacts, RingBounds DEF RegisterRing, RingInv, RingTypes
<1>2. CASE UNCHANGED <<tossed, ready, run, pool, spare, queue, waker, at>>
  <2>1. RingTypes'
    <3>1. \A m \in spare' \cup NodesIn(queue') : m.pool <= pools /\ m \in AnyNode
      BY <1>2, SlotsIn, RingFacts DEF RingInv, RingTypes, NodesIn
    <3>2. \A t \in Thread : \A m \in NodesIn(holds'[t]) : m.pool <= pools /\ m \in AnyNode
      BY <1>1, SlotsIn, RingFacts DEF RingInv, RingTypes, NodesIn
    <3>3. \A m \in AnyNode : m.pool \in Nat
      BY DEF AnyNode
    <3>4. pool' \in 0..pools' /\ \A k \in Nat : k <= pools => k <= pools'
      BY <1>1, <1>2, RingFacts DEF RingInv, RingTypes
    <3> QED
      BY <1>1, <1>2, <3>1, <3>2, <3>3, <3>4 DEF RingInv, RingTypes
  <2>2. HoldsBusy' /\ EventsNew'
    BY <1>1, <1>2 DEF RingInv, HoldsBusy, EventsNew
  <2>3. NodesApart' /\ NodesKept' /\ EventsApart' /\ EventsKept'
    BY <1>1, <1>2, PlacesStay DEF RingInv
  <2> QED
    BY <2>1, <2>2, <2>3 DEF RingInv
<1>3. ASSUME NEW w \in Worker,
             at[w] = "absent", at' = [at EXCEPT ![w] = "top"], ready' = TRUE, run' = TRUE,
             pool' = pools', spare' = NodesOf(pools'), queue' = <<>>,
             waker' = FALSE, tossed' = tossed \cup EventsIn(queue)
      PROVE  RingInv'
  <2>1. /\ NodesIn(queue') = {} /\ EventsIn(queue') = {} /\ OneNodeEach(queue') /\ OneEventEach(queue')
        /\ queue' \in Seq(AnySlot) /\ EventsIn(queue) \subseteq Event
    BY <1>3, NoSlots, SlotsIn, RingFacts
  <2>2. spare' = {m \in AnyNode : m.pool = pools'}
    BY <1>1, <1>3, PoolNodes
  <2>3. w \in Thread /\ w \notin Raiser /\ holds[w] = <<>>
    BY <1>3, RingFacts DEF RingInv, HoldsBusy
  <2>4. \A t \in Thread : \A m \in NodesIn(holds[t]) : m.pool <= pools /\ m.pool \in Nat
    <3>1. \A t \in Thread : NodesIn(holds[t]) \subseteq AnyNode
      BY SlotsIn, RingFacts
    <3> QED
      BY <3>1 DEF RingInv, RingTypes, AnyNode
  <2>5. \A t \in Thread : \A m \in NodesIn(holds[t]) : m.pool <= pools' /\ m \notin spare'
    BY <1>1, <2>2, <2>4, RingFacts
  <2>6. /\ \A t \in Thread : NodesIn(holds'[t]) = NodesIn(holds[t]) /\ OneNodeEach(holds'[t])
        /\ \A v \in Worker : EventsIn(holds'[v]) = EventsIn(holds[v]) /\ OneEventEach(holds'[v])
    BY <1>1 DEF RingInv, NodesApart, EventsApart
  <2>7. RingTypes'
    <3>1. /\ at' \in [Thread -> RaiserStates \cup WorkerStates] /\ at'[w] \in WorkerStates
          /\ \A r \in Raiser : at'[r] = at[r]
          /\ \A v \in Worker \ {w} : at'[v] = at[v]
      BY <1>3, <2>3, RingFacts DEF WorkerStates
    <3>2. spare' \subseteq AnyNode /\ \A m \in spare' \cup NodesIn(queue') : m.pool <= pools'
      BY <1>1, <2>1, <2>2
    <3>3. \A t \in Thread : \A m \in NodesIn(holds'[t]) : m.pool <= pools'
      BY <2>5, <2>6
    <3>4. pool' \in 0..pools' /\ tossed' \subseteq Event
      BY <1>1, <1>3, <2>1 DEF RingInv, RingTypes
    <3>5. {listed', installed', ready', run', waker'} \subseteq BOOLEAN
      BY <1>1, <1>3 DEF RingInv, RingTypes
    <3>6. \A r \in Raiser : at'[r] \in RaiserStates
      BY <3>1 DEF RingInv, RingTypes
    <3>7. \A v \in Worker : at'[v] \in WorkerStates
      <4>1. \A v \in Worker : at[v] \in WorkerStates
        BY DEF RingInv, RingTypes
      <4> QED
        BY <3>1, <4>1
    <3>8. /\ exc' \in [Raiser -> [kind : Kinds \cup {"none"}, event : 0..RaiseMax]]
          /\ holds' \in [Thread -> Seq(AnySlot)]
          /\ raised' \in 0..RaiseMax /\ queued' \subseteq Event /\ told' \in [Event -> Nat]
      BY <1>1 DEF RingInv, RingTypes
    <3> QED
      BY <1>1, <2>1, <3>1, <3>2, <3>3, <3>4, <3>5, <3>6, <3>7, <3>8 DEF RingTypes
  <2>8. HoldsBusy'
    <3>1. at'[w] = "top" /\ \A t \in Thread \ {w} : at'[t] = at[t]
      BY <1>3, <2>3, RingFacts
    <3> QED
      BY <1>1, <2>3, <3>1, RingFacts DEF RingInv, HoldsBusy
  <2>9. EventsNew'
    <3>1. \A r \in Raiser : at'[r] = at[r]
      BY <1>3, <2>3, RingFacts
    <3> QED
      BY <1>1, <3>1 DEF RingInv, EventsNew
  <2>10. NodesApart'
    BY <2>1, <2>5, <2>6 DEF RingInv, NodesApart
  <2>11. NodesKept'
    BY <1>3 DEF NodesKept
  <2>12. EventsApart'
    BY <1>1, <2>1, <2>6 DEF RingInv, EventsApart
  <2>13. EventsKept'
    BY <1>1, <1>3, <2>1, <2>6 DEF RingInv, EventsKept
  <2> QED
    BY <2>7, <2>8, <2>9, <2>10, <2>11, <2>12, <2>13 DEF RingInv
<1>4. \/ UNCHANGED <<tossed, ready, run, pool, spare, queue, waker, at>>
      \/ \E w \in Worker :
           /\ at[w] = "absent" /\ at' = [at EXCEPT ![w] = "top"]
           /\ ready' = TRUE /\ run' = TRUE
           /\ pool' = pools' /\ spare' = NodesOf(pools') /\ queue' = <<>>
           /\ waker' = FALSE /\ tossed' = tossed \cup EventsIn(queue)
  BY DEF RegisterRing, GoTo, EventsIn
<1> QED
  BY <1>2, <1>3, <1>4

\* There is no ring yet, and nothing in it.
LEMMA RingInit == Init => RingInv
<1> SUFFICES ASSUME Init PROVE RingInv
  OBVIOUS
<1>1. /\ Raiser \subseteq Thread /\ Worker \subseteq Thread /\ Raiser \cap Worker = {}
      /\ \A r \in Raiser : r \notin Worker
  BY RaisersAreNoWorkers DEF Thread
<1>2. /\ queue = <<>> /\ \A t \in Thread : holds[t] = <<>>
      /\ holds \in [Thread -> Seq(AnySlot)] /\ queue \in Seq(AnySlot)
      /\ \A r \in Raiser : at[r] = "idle"
      /\ \A w \in Worker : at[w] = "absent"
      /\ at \in [Thread -> RaiserStates \cup WorkerStates]
      /\ told \in [Event -> Nat] /\ \A e \in Event : told[e] = 0
      /\ pool = 0 /\ spare = {} /\ queued = {} /\ tossed = {}
  BY <1>1 DEF Init, RaiserStates, WorkerStates
<1>3. RingTypes
  <2>1. exc \in [Raiser -> [kind : Kinds \cup {"none"}, event : 0..RaiseMax]]
    BY RingBounds DEF Init, NoExc
  <2>2. /\ {listed, installed, ready, run, waker} \subseteq BOOLEAN
        /\ pools \in 0..CallMax /\ pool \in 0..pools /\ raised \in 0..RaiseMax
        /\ ctl \in {"idle", "listing", "promote", "join", "release"}
    <3>1. 0 \in 0..CallMax /\ 0 \in 0..RaiseMax /\ 0 \in 0..0
      BY RingBounds
    <3>2. listed = FALSE /\ installed = FALSE /\ ready = FALSE /\ run = FALSE /\ waker = FALSE
          /\ pools = 0 /\ pool = 0 /\ raised = 0 /\ ctl = "idle"
      BY DEF Init
    <3> QED
      BY <3>1, <3>2
  <2>3. /\ NodesIn(queue) = {} /\ \A t \in Thread : NodesIn(holds[t]) = {}
        /\ \A r \in Raiser : at[r] \in RaiserStates
        /\ \A w \in Worker : at[w] \in WorkerStates
    BY <1>2, NoSlots DEF RaiserStates, WorkerStates
  <2> QED
    BY <1>2, <2>1, <2>2, <2>3 DEF RingTypes
<1>4. HoldsBusy
  BY <1>1, <1>2, NoSlots, RingBounds DEF HoldsBusy
<1>5. NodesApart /\ NodesKept
  BY <1>2, NoSlots DEF NodesApart, NodesKept
<1>6. EventsNew /\ EventsApart /\ EventsKept
  BY <1>1, <1>2, NoSlots DEF EventsNew, EventsApart, EventsKept
<1> QED
  BY <1>3, <1>4, <1>5, <1>6 DEF RingInv

\* Every step keeps nodes and events in their places.
LEMMA RingStep == RingInv /\ [Next]_vars => RingInv'
<1> SUFFICES ASSUME RingInv, [Next]_vars PROVE RingInv'
  OBVIOUS
<1>1. CASE UNCHANGED vars
  <2>1. RingTypes'
    BY <1>1 DEF RingInv, RingTypes, vars, ring, lists, past, NodesIn
  <2>2. HoldsBusy' /\ EventsNew'
    BY <1>1 DEF RingInv, HoldsBusy, EventsNew, vars, lists, past
  <2>3. NodesApart' /\ NodesKept' /\ EventsApart' /\ EventsKept'
    BY <1>1, PlacesStay DEF RingInv, vars, ring, lists, past
  <2> QED
    BY <2>1, <2>2, <2>3 DEF RingInv
<1>2. CASE \E r \in Raiser : Raise(r) \/ RaiserStep(r)
  BY <1>2, RaiseMoves, RaiserMoves, PopMoves, PushMoves DEF RaiserStep
<1>3. CASE \E w \in Worker : WorkerStep(w)
  BY <1>3, WorkerMoves, ClaimMoves, DispatchMoves, ResidualMoves DEF WorkerStep
<1>4. CASE \E t \in Thread : Fault(t)
  BY <1>4, FaultMoves
<1>5. CASE ControllerStep
  BY <1>5, ControllerMoves, RegisterMoves DEF ControllerStep
<1> QED
  BY <1>1, <1>2, <1>3, <1>4, <1>5 DEF Next

-----------------------------------------------------------------------------
(* From the places to the counts.                                           *)

\* A set with at most one element is counted so.
LEMMA CountsOne ==
  ASSUME NEW S, \A x, y \in S : x = y
  PROVE  Cardinality(S) = IF S = {} THEN 0 ELSE 1
<1>1. CASE S = {}
  BY <1>1, FS_EmptySet
<1>2. CASE S # {}
  <2>1. PICK x : x \in S
    BY <1>2
  <2>2. S = {x}
    BY <2>1
  <2> QED
    BY <1>2, <2>2, FS_Singleton
<1> QED
  BY <1>1, <1>2

\* Every report has its type, and every node is of a pool that was allocated.
LEMMA RingTyped == RingInv => TypeOK
<1> SUFFICES ASSUME RingInv PROVE TypeOK
  OBVIOUS
<1> DEFINE Allocated == UNION {NodesOf(g) : g \in 1..pools}
<1>1. pools \in Nat
  BY RingFacts
<1>2. \A m \in AnyNode : m.pool <= pools => m \in Allocated
  <2> SUFFICES ASSUME NEW m \in AnyNode, m.pool <= pools PROVE m \in Allocated
    OBVIOUS
  <2>1. m.pool \in Nat \ {0} /\ m.pool \in 1..pools
    BY <1>1 DEF AnyNode
  <2>2. m \in NodesOf(m.pool)
    BY <2>1, PoolNodes
  <2> QED
    BY <2>1, <2>2
<1>3. spare \subseteq Allocated
  BY <1>2 DEF RingInv, RingTypes
<1>4. ASSUME NEW s \in Seq(AnySlot), \A m \in NodesIn(s) : m.pool <= pools, NEW x \in ToSet(s)
      PROVE  x.node \in Allocated /\ x.event \in Event
  <2>1. x \in AnySlot /\ x.node \in NodesIn(s)
    BY <1>4, SlotsIn DEF NodesIn
  <2>2. x.node \in AnyNode /\ x.event \in Event
    BY <2>1 DEF AnySlot
  <2> QED
    BY <1>2, <1>4, <2>1, <2>2
<1>5. \A x \in ToSet(queue) : x.node \in Allocated /\ x.event \in Event
  <2>1. queue \in Seq(AnySlot) /\ \A m \in NodesIn(queue) : m.pool <= pools
    BY DEF RingInv, RingTypes
  <2> QED
    BY <1>4, <2>1
<1>6. \A t \in Thread : \A x \in ToSet(holds[t]) : x.node \in Allocated /\ x.event \in Event
  <2>1. \A t \in Thread : holds[t] \in Seq(AnySlot) /\ \A m \in NodesIn(holds[t]) : m.pool <= pools
    BY DEF RingInv, RingTypes
  <2> QED
    BY <1>4, <2>1
<1>7. \A x \in ToSet(queue) \cup UNION {ToSet(holds[t]) : t \in Thread} :
        x.node \in Allocated /\ x.event \in Event
  BY <1>5, <1>6
<1> QED
  BY <1>3, <1>7 DEF RingInv, RingTypes, TypeOK

\* A private list is searched in full: it is no longer than the ring has nodes.
LEMMA HeldIndex ==
  ASSUME RingInv, NEW t \in Thread, NEW i \in DOMAIN holds[t]
  PROVE  i \in 1..NodeMax
<1>1. Len(holds[t]) <= NodeMax /\ holds[t] \in Seq(AnySlot)
  BY RingFacts DEF RingInv, HoldsBusy
<1> QED
  BY <1>1, RingBounds

\* RingIntact counts the places of a node, and finds one.
LEMMA NodeCounted ==
  ASSUME RingInv, pool # 0, NEW n \in NodesOf(pool)
  PROVE  Cardinality({p \in {"spare"} : n \in spare})
           + Cardinality({i \in DOMAIN queue : queue[i].node = n})
           + Cardinality({p \in Thread \X (1..NodeMax) :
                            p[2] \in DOMAIN holds[p[1]] /\ holds[p[1]][p[2]].node = n}) = 1
<1> DEFINE InSpare == {p \in {"spare"} : n \in spare}
           InQueue == {i \in DOMAIN queue : queue[i].node = n}
           InHands == {p \in Thread \X (1..NodeMax) :
                         p[2] \in DOMAIN holds[p[1]] /\ holds[p[1]][p[2]].node = n}
<1>1. queue \in Seq(AnySlot) /\ \A t \in Thread : holds[t] \in Seq(AnySlot)
  BY RingFacts
<1>2. /\ Cardinality(InSpare) = IF InSpare = {} THEN 0 ELSE 1
      /\ InSpare # {} <=> n \in spare
  <2>1. \A x, y \in InSpare : x = y
    OBVIOUS
  <2> QED
    BY <2>1, CountsOne
<1>3. /\ Cardinality(InQueue) = IF InQueue = {} THEN 0 ELSE 1
      /\ InQueue # {} <=> n \in NodesIn(queue)
  <2>1. \A x, y \in InQueue : x = y
    BY DEF RingInv, NodesApart, OneNodeEach
  <2>2. InQueue # {} <=> n \in NodesIn(queue)
    BY DEF NodesIn, ToSet
  <2> HIDE DEF InQueue
  <2> QED
    BY <2>1, <2>2, CountsOne
<1>4. \A p \in InHands : /\ p[1] \in Thread /\ p[2] \in DOMAIN holds[p[1]]
                         /\ holds[p[1]][p[2]].node = n /\ n \in NodesIn(holds[p[1]])
                         /\ p = <<p[1], p[2]>>
  BY DEF NodesIn, ToSet
<1>5. /\ Cardinality(InHands) = IF InHands = {} THEN 0 ELSE 1
      /\ InHands # {} <=> \E t \in Thread : n \in NodesIn(holds[t])
  <2>1. \A x, y \in InHands : x = y
    <3> SUFFICES ASSUME NEW x \in InHands, NEW y \in InHands PROVE x = y
      OBVIOUS
    <3> HIDE DEF InHands
    <3>1. x[1] = y[1]
      BY <1>4 DEF RingInv, NodesApart
    <3>2. x[2] = y[2]
      BY <1>4, <3>1 DEF RingInv, NodesApart, OneNodeEach
    <3> QED
      BY <1>4, <3>1, <3>2
  <2>2. ASSUME NEW t \in Thread, n \in NodesIn(holds[t]) PROVE InHands # {}
    <3>1. PICK i \in DOMAIN holds[t] : holds[t][i].node = n
      BY <2>2 DEF NodesIn, ToSet
    <3>2. i \in 1..NodeMax
      BY HeldIndex
    <3>3. <<t, i>> \in Thread \X (1..NodeMax) /\ <<t, i>>[1] = t /\ <<t, i>>[2] = i
      BY <3>2
    <3>4. <<t, i>> \in InHands
      BY <3>1, <3>3
    <3> QED
      BY <3>4
  <2> HIDE DEF InHands
  <2>3. InHands # {} => \E t \in Thread : n \in NodesIn(holds[t])
    BY <1>4
  <2> QED
    BY <2>1, <2>2, <2>3, CountsOne
<1> HIDE DEF InSpare, InQueue, InHands
<1>6. /\ n \in spare \/ n \in NodesIn(queue) \/ \E t \in Thread : n \in NodesIn(holds[t])
      /\ ~(n \in spare /\ n \in NodesIn(queue))
      /\ \A t \in Thread : n \in NodesIn(holds[t]) => n \notin spare /\ n \notin NodesIn(queue)
  BY DEF RingInv, NodesKept, NodesApart
<1>7. Cardinality(InSpare) + Cardinality(InQueue) + Cardinality(InHands) = 1
  BY <1>2, <1>3, <1>5, <1>6
<1> QED
  BY <1>7 DEF InSpare, InQueue, InHands

\* ReportedOnce counts the copies of an event, and finds one unless it was discarded.
LEMMA EventCounted ==
  ASSUME RingInv, NEW e \in queued
  PROVE  Copies(e) <= 1 /\ (Copies(e) = 0 => e \in tossed)
<1> DEFINE InQueue == {i \in DOMAIN queue : queue[i].event = e}
           InHands == {p \in Worker \X (1..NodeMax) :
                         p[2] \in DOMAIN holds[p[1]] /\ holds[p[1]][p[2]].event = e}
<1>1. queue \in Seq(AnySlot) /\ Worker \subseteq Thread
      /\ \A t \in Thread : holds[t] \in Seq(AnySlot)
  BY RingFacts
<1>3. /\ Cardinality(InQueue) = IF InQueue = {} THEN 0 ELSE 1
      /\ InQueue # {} <=> e \in EventsIn(queue)
  <2>1. \A x, y \in InQueue : x = y
    BY DEF RingInv, EventsApart, OneEventEach
  <2>2. InQueue # {} <=> e \in EventsIn(queue)
    BY DEF EventsIn, ToSet
  <2> HIDE DEF InQueue
  <2> QED
    BY <2>1, <2>2, CountsOne
<1>4. \A p \in InHands : /\ p[1] \in Worker /\ p[2] \in DOMAIN holds[p[1]]
                         /\ holds[p[1]][p[2]].event = e /\ e \in EventsIn(holds[p[1]])
                         /\ p = <<p[1], p[2]>>
  BY DEF EventsIn, ToSet
<1>5. /\ Cardinality(InHands) = IF InHands = {} THEN 0 ELSE 1
      /\ InHands # {} <=> \E w \in Worker : e \in EventsIn(holds[w])
  <2>1. \A x, y \in InHands : x = y
    <3> SUFFICES ASSUME NEW x \in InHands, NEW y \in InHands PROVE x = y
      OBVIOUS
    <3> HIDE DEF InHands
    <3>1. x[1] = y[1]
      BY <1>4 DEF RingInv, EventsApart
    <3>2. x[2] = y[2]
      BY <1>4, <3>1 DEF RingInv, EventsApart, OneEventEach
    <3> QED
      BY <1>4, <3>1, <3>2
  <2>2. ASSUME NEW w \in Worker, e \in EventsIn(holds[w]) PROVE InHands # {}
    <3>1. PICK i \in DOMAIN holds[w] : holds[w][i].event = e
      BY <2>2 DEF EventsIn, ToSet
    <3>2. i \in 1..NodeMax
      BY <1>1, HeldIndex
    <3>3. <<w, i>> \in Worker \X (1..NodeMax) /\ <<w, i>>[1] = w /\ <<w, i>>[2] = i
      BY <3>2
    <3>4. <<w, i>> \in InHands
      BY <3>1, <3>3
    <3> QED
      BY <3>4
  <2> HIDE DEF InHands
  <2>3. InHands # {} => \E w \in Worker : e \in EventsIn(holds[w])
    BY <1>4
  <2> QED
    BY <2>1, <2>2, <2>3, CountsOne
<1>6. Copies(e) = told[e] + Cardinality(InQueue) + Cardinality(InHands)
  BY DEF Copies
<1> HIDE DEF InQueue, InHands
<1>7. /\ told[e] = 1 \/ e \in tossed \/ e \in EventsIn(queue)
           \/ \E w \in Worker : e \in EventsIn(holds[w])
      /\ told[e] \in {0, 1} /\ (e \in EventsIn(queue) => told[e] = 0)
      /\ \A w \in Worker : e \in EventsIn(holds[w]) => told[e] = 0 /\ e \notin EventsIn(queue)
  BY DEF RingInv, RingTypes, EventsKept, EventsApart
<1> QED
  BY <1>3, <1>5, <1>6, <1>7

-----------------------------------------------------------------------------
(* Theorems.                                                                *)

\* Raisers that take and push nodes, dispatch threads that claim, report and give
\* back, and a handler that is registered and unregistered under them neither lose
\* a node of the ring nor have it in two places (VehRingEnqueue,
\* VehDispatchThreadProc and VehRingInit, ix.cpp).
THEOREM NodesAccounted == Spec => []RingIntact
<1>1. RingInv => RingIntact
  BY RingTyped, NodeCounted DEF RingIntact
<1> QED
  BY RingInit, RingStep, <1>1, PTL DEF Spec

\* An exception that the ring took is under way, or reported once and no more, or
\* was discarded by a stop or a restart of the ring (VehRingEnqueue, the dispatch
\* loop and the residual drain of VehDispatchThreadProc, ix.cpp).
THEOREM ReportsAccounted == Spec => []ReportedOnce
<1>1. RingInv => ReportedOnce
  BY EventCounted DEF ReportedOnce
<1> QED
  BY RingInit, RingStep, <1>1, PTL DEF Spec

-----------------------------------------------------------------------------
(* The composition.  Each part moves by its own steps or rests, so that the *)
(* theorems about a part hold of it.                                        *)

Turn == RingPart \/ PublisherPart \/ GatePart \/ RingRests

\* Only its own part moves the ring, the publisher, the gate.
LEMMA RingAlone == [Turn]_all => [Next]_vars
BY DEF Turn, all, RingPart, PublisherPart, GatePart, RingRests

LEMMA PublisherAlone == [Turn]_all => [Publisher!Next]_(Publisher!vars)
BY DEF Turn, all, RingPart, PublisherPart, GatePart, RingRests, publisherVars, Publisher!vars

LEMMA GateAlone == [Turn]_all => [Gate!Next]_(Gate!vars)
BY DEF Turn, all, RingPart, PublisherPart, GatePart, RingRests, gateVars, Gate!vars, Gate!gate

\* The ring's invariant is one of the composition.
LEMMA RingInvariant == MCSpec => []RingInv
<1>1. MCInit => RingInv
  BY RingInit DEF MCInit
<1>2. RingInv /\ [Turn]_all => RingInv'
  BY RingAlone, RingStep
<1> QED
  BY <1>1, <1>2, PTL DEF MCSpec, Turn

\* As NodesAccounted and ReportsAccounted, beside the publisher and the gate.
THEOREM ThreadsKeepNodes == MCSpec => []RingIntact
<1>1. RingInv => RingIntact
  BY RingTyped, NodeCounted DEF RingIntact
<1> QED
  BY <1>1, RingInvariant, PTL

THEOREM ThreadsReportOnce == MCSpec => []ReportedOnce
<1>1. RingInv => ReportedOnce
  BY EventCounted DEF ReportedOnce
<1> QED
  BY <1>1, RingInvariant, PTL

\* A slot of the launch gate belongs to one thread until that resumes.
THEOREM ThreadsOwnSlots == MCSpec => []GateIntact
<1>1. MCInit => Gate!Init
  BY DEF MCInit
<1>2. Gate!Spec => []Gate!GateIntact
  BY GateCast, Gate!SlotsAreOwn
<1> QED
  BY <1>1, <1>2, GateAlone, PTL DEF MCSpec, Turn, GateIntact, Gate!Spec

\* One thread opens the gate, and nobody goes on before the runtime is there.
THEOREM ThreadsHaveOneOpener == MCSpec => []OneInitializer
<1>1. MCInit => Gate!Init
  BY DEF MCInit
<1>2. Gate!Spec => []Gate!OneInitializer
  BY GateCast, Gate!OneThreadOpens
<1> QED
  BY <1>1, <1>2, GateAlone, PTL DEF MCSpec, Turn, OneInitializer, Gate!Spec

\* Every event that the publisher accepted is in flight, handed over once, or counted
\* lost.
THEOREM ThreadsAccountEvents == MCSpec => []AcceptedOnce
<1>1. MCInit => Publisher!Init
  BY DEF MCInit
<1>2. Publisher!Spec => []Publisher!AcceptedOnce
  BY PublisherCast, Publisher!AcceptedEventsAccounted
<1> QED
  BY <1>1, <1>2, PublisherAlone, PTL DEF MCSpec, Turn, AcceptedOnce, Publisher!Spec

=============================================================================
