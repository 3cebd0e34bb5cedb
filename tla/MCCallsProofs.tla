----------------------------- MODULE MCCallsProofs -----------------------------
(***************************************************************************)
(* Every invariant that MCCalls checks, for any number of threads, keys,   *)
(* handles, calls and any length of the queue and the rings.               *)
(*                                                                         *)
(* The queue: types and room (Booked), the order and the difference of its *)
(* newest events (QueueOrder), and a count of every call (Counting), which *)
(* needs how sums and queues change together.  The Winsock functions: what *)
(* holds until a hook comes or goes under a call (Calm, MarkUp), and what  *)
(* an undisturbed call has told (Seen).  The wrappers of other modules:    *)
(* where each call stands (Framed), what the ring knows of packages        *)
(* (RingPackages), and of handles (HttpInv).                               *)
(***************************************************************************)
EXTENDS MCCalls, FiniteSetTheorems, SequenceTheorems, TLAPS

-----------------------------------------------------------------------------
(* Numbers and sums.                                                       *)

BelowNat == OpToRel(<, Nat)

\* Any set of numbers that is not empty has a smallest member.
LEMMA Smallest ==
  ASSUME NEW T, T \subseteq Nat, T # {}
  PROVE  \E m \in T : \A n \in T : m <= n
<1>1. IsWellFoundedOn(BelowNat, Nat)
  BY NatLessThanWellFounded DEF BelowNat, OpToRel
<1>2. PICK x \in T : \A y \in T : <<y, x>> \notin BelowNat
  <2>1. \E x \in T : \A y \in T : ~ (<<y, x>> \in BelowNat)
    BY <1>1, WFMin
  <2> QED
    BY <2>1
<1>3. \A m, n \in Nat : m < n => <<m, n>> \in BelowNat
  BY DEF BelowNat, OpToRel
<1>4. \A y \in T : ~(y < x)
  BY <1>2, <1>3
<1> QED
  BY <1>4

\* Induction over the numbers, with a set in the place of a predicate.
LEMMA Induction ==
  ASSUME NEW P, 0 \in P, \A n \in Nat : n \in P => n + 1 \in P
  PROVE  Nat \subseteq P
<1> SUFFICES ASSUME Nat \ P # {} PROVE FALSE
  OBVIOUS
<1>1. PICK m \in Nat \ P : \A n \in Nat \ P : m <= n
  BY Smallest
<1>2. m # 0 /\ m - 1 \in Nat
  BY <1>1
<1>3. m - 1 \in P
  BY <1>1, <1>2
<1> QED
  BY <1>1, <1>2, <1>3

Chosen(s) == CHOOSE x \in s : TRUE
Step(f, g, s) == IF s = {} THEN 0 ELSE f[Chosen(s)] + g[s \ {Chosen(s)}]
Sums(f, S, g) == g = [s \in SUBSET S |-> Step(f, g, s)]

\* The sum of the community modules is a function defined by recursion on sets.
LEMMA SumIs ==
  ASSUME NEW f, NEW S
  PROVE  SumFunctionOnSet(f, S) = (CHOOSE g : Sums(f, S, g))[S]
BY DEF SumFunctionOnSet, FoldFunctionOnSet, MapThenFoldSet, Sums, Step, Chosen

\* A set without one of its members is smaller.
LEMMA Smaller ==
  ASSUME NEW S, IsFiniteSet(S), NEW s \in SUBSET S, s # {}
  PROVE  /\ Chosen(s) \in s /\ s \ {Chosen(s)} \in SUBSET S
         /\ Cardinality(s \ {Chosen(s)}) = Cardinality(s) - 1
         /\ Cardinality(s) \in Nat /\ Cardinality(s) # 0
<1>1. IsFiniteSet(s) /\ Chosen(s) \in s
  BY FS_Subset DEF Chosen
<1>2. Cardinality(s) \in Nat /\ Cardinality(s) # 0
  BY <1>1, FS_CardinalityType, FS_EmptySet
<1>3. Cardinality(s \ {Chosen(s)}) = Cardinality(s) - 1
  BY <1>1, FS_RemoveElement
<1> QED
  BY <1>1, <1>2, <1>3

\* Over the subsets of a finite set there is such a function.
LEMMA SumsExist ==
  ASSUME NEW S, IsFiniteSet(S), NEW f
  PROVE  \E g : Sums(f, S, g)
<1> DEFINE Upto(n, g) == \A s \in SUBSET S : Cardinality(s) <= n => g[s] = Step(f, g, s)
           P == {n \in Nat : \E g : g = [s \in SUBSET S |-> g[s]] /\ Upto(n, g)}
<1>0. \A s \in SUBSET S : Cardinality(s) \in Nat /\ (Cardinality(s) = 0 => s = {})
  BY FS_Subset, FS_CardinalityType, FS_EmptySet
<1>1. 0 \in P
  <2> DEFINE g == [s \in SUBSET S |-> 0]
  <2>1. g = [s \in SUBSET S |-> g[s]]
    OBVIOUS
  <2>2. Upto(0, g)
    BY <1>0 DEF Step
  <2> QED
    BY <2>1, <2>2
<1>2. ASSUME NEW n \in Nat, n \in P PROVE n + 1 \in P
  <2>1. PICK g : g = [s \in SUBSET S |-> g[s]] /\ Upto(n, g)
    BY <1>2
  <2> DEFINE h == [s \in SUBSET S |-> IF Cardinality(s) <= n THEN g[s] ELSE Step(f, g, s)]
  <2>2. \A s \in SUBSET S : Cardinality(s) <= n => g[s] = Step(f, g, s)
    BY <2>1
  <2>3. ASSUME NEW s \in SUBSET S, Cardinality(s) <= n + 1 PROVE h[s] = Step(f, h, s)
    <3>1. h[s] = Step(f, g, s)
      BY <2>2
    <3>2. CASE s = {}
      BY <3>1, <3>2 DEF Step
    <3>3. CASE s # {}
      <4>1. s \ {Chosen(s)} \in SUBSET S /\ Cardinality(s \ {Chosen(s)}) <= n
        BY <3>3, <2>3, Smaller
      <4>2. h[s \ {Chosen(s)}] = g[s \ {Chosen(s)}]
        BY <4>1
      <4> QED
        BY <3>1, <4>2 DEF Step
    <3> QED
      BY <3>2, <3>3
  <2>4. h = [s \in SUBSET S |-> h[s]]
    OBVIOUS
  <2> HIDE DEF h
  <2>5. Upto(n + 1, h)
    BY <2>3
  <2>6. n + 1 \in Nat
    OBVIOUS
  <2> HIDE DEF Upto
  <2> QED
    BY <2>4, <2>5, <2>6
<1> HIDE DEF P
<1>3. Cardinality(S) \in P
  BY <1>0, <1>1, <1>2, Induction
<1>4. PICK g : g = [s \in SUBSET S |-> g[s]] /\ Upto(Cardinality(S), g)
  BY <1>3 DEF P
<1>5. ASSUME NEW s \in SUBSET S PROVE Cardinality(s) <= Cardinality(S)
  BY FS_Subset
<1>6. \A s \in SUBSET S : g[s] = Step(f, g, s)
  BY <1>4, <1>5
<1> QED
  BY <1>4, <1>6, Zenon DEF Sums

\* Any two of them agree wherever both are defined.
LEMMA SumsAgree ==
  ASSUME NEW f, NEW S, IsFiniteSet(S), NEW T \in SUBSET S, NEW g, NEW h, Sums(f, S, g), Sums(f, T, h)
  PROVE  g[T] = h[T]
<1> DEFINE P == {n \in Nat : \A s \in SUBSET T : Cardinality(s) = n => g[s] = h[s]}
<1>0. /\ IsFiniteSet(T)
      /\ \A s \in SUBSET T : Cardinality(s) \in Nat /\ (Cardinality(s) = 0 => s = {})
  BY FS_Subset, FS_CardinalityType, FS_EmptySet
<1>1. \A s \in SUBSET T : g[s] = Step(f, g, s) /\ h[s] = Step(f, h, s)
  BY DEF Sums
<1>2. 0 \in P
  BY <1>0, <1>1 DEF Step
<1>3. ASSUME NEW n \in Nat, n \in P PROVE n + 1 \in P
  <2>1. ASSUME NEW s \in SUBSET T, Cardinality(s) = n + 1 PROVE g[s] = h[s]
    <3>1. CASE s = {}
      BY <1>1, <3>1 DEF Step
    <3>2. CASE s # {}
      <4>1. s \ {Chosen(s)} \in SUBSET T /\ Cardinality(s \ {Chosen(s)}) = n
        BY <1>0, <2>1, <3>2, Smaller
      <4>2. g[s \ {Chosen(s)}] = h[s \ {Chosen(s)}]
        BY <1>3, <4>1
      <4> QED
        BY <1>1, <4>2 DEF Step
    <3> QED
      BY <3>1, <3>2
  <2> QED
    BY <2>1
<1> HIDE DEF P
<1>4. Cardinality(T) \in P
  BY <1>0, <1>2, <1>3, Induction
<1> QED
  BY <1>4 DEF P

\* The sum over a set is what is left after taking one element out, and that element.
LEMMA SumStep ==
  ASSUME NEW f, NEW S, IsFiniteSet(S)
  PROVE  /\ SumFunctionOnSet(f, {}) = 0
         /\ S # {} => SumFunctionOnSet(f, S) = f[Chosen(S)] + SumFunctionOnSet(f, S \ {Chosen(S)})
<1> DEFINE G(T) == CHOOSE g : Sums(f, T, g)
<1>1. \A T \in SUBSET S : IsFiniteSet(T)
  BY FS_Subset
<1>2. \A T \in SUBSET S : Sums(f, T, G(T))
  BY <1>1, SumsExist
<1>3. \A T \in SUBSET S : SumFunctionOnSet(f, T) = G(T)[T]
  BY SumIs
<1> HIDE DEF G
<1>4. \A T \in SUBSET S : G(T)[T] = Step(f, G(T), T)
  BY <1>2 DEF Sums
<1>5. SumFunctionOnSet(f, {}) = 0
  BY <1>3, <1>4 DEF Step
<1>6. CASE S # {}
  <2>1. S \ {Chosen(S)} \in SUBSET S
    OBVIOUS
  <2>2. G(S)[S \ {Chosen(S)}] = G(S \ {Chosen(S)})[S \ {Chosen(S)}]
    BY <1>2, <2>1, SumsAgree
  <2> QED
    BY <1>3, <1>4, <1>5, <1>6, <2>1, <2>2 DEF Step
<1> QED
  BY <1>5, <1>6


\* Summands are numbers: so is the sum.
LEMMA SumNat ==
  ASSUME NEW f, NEW S, IsFiniteSet(S), \A x \in S : f[x] \in Nat
  PROVE  SumFunctionOnSet(f, S) \in Nat
<1> DEFINE P == {n \in Nat : \A T \in SUBSET S : Cardinality(T) = n => SumFunctionOnSet(f, T) \in Nat}
<1>0. \A T \in SUBSET S : IsFiniteSet(T) /\ Cardinality(T) \in Nat /\ (Cardinality(T) = 0 => T = {})
  BY FS_Subset, FS_CardinalityType, FS_EmptySet
<1>1. 0 \in P
  BY <1>0, SumStep
<1>2. ASSUME NEW n \in Nat, n \in P PROVE n + 1 \in P
  <2> SUFFICES ASSUME NEW T \in SUBSET S, Cardinality(T) = n + 1
               PROVE  SumFunctionOnSet(f, T) \in Nat
    OBVIOUS
  <2>1. T # {}
    BY FS_EmptySet
  <2>2. Chosen(T) \in T /\ T \ {Chosen(T)} \in SUBSET S /\ Cardinality(T \ {Chosen(T)}) = n
    BY <2>1, Smaller
  <2>3. SumFunctionOnSet(f, T \ {Chosen(T)}) \in Nat /\ f[Chosen(T)] \in Nat
    BY <1>2, <2>2
  <2> QED
    BY <1>0, <2>1, <2>3, SumStep
<1> HIDE DEF P
<1>3. Cardinality(S) \in P
  BY <1>0, <1>1, <1>2, Induction
<1> QED
  BY <1>3 DEF P

\* Any element may be taken out first.
LEMMA SumTakesOut ==
  ASSUME NEW f, NEW S, IsFiniteSet(S), \A x \in S : f[x] \in Nat
  PROVE  \A x \in S : SumFunctionOnSet(f, S) = f[x] + SumFunctionOnSet(f, S \ {x})
<1> DEFINE Fits(T) == \A x \in T : SumFunctionOnSet(f, T) = f[x] + SumFunctionOnSet(f, T \ {x})
           P == {n \in Nat : \A T \in SUBSET S : Cardinality(T) = n => Fits(T)}
<1>0. \A T \in SUBSET S : IsFiniteSet(T) /\ Cardinality(T) \in Nat /\ (Cardinality(T) = 0 => T = {})
  BY FS_Subset, FS_CardinalityType, FS_EmptySet
<1>1. 0 \in P
  BY <1>0
<1>2. ASSUME NEW n \in Nat, n \in P PROVE n + 1 \in P
  <2> SUFFICES ASSUME NEW T \in SUBSET S, Cardinality(T) = n + 1, NEW x \in T
               PROVE  SumFunctionOnSet(f, T) = f[x] + SumFunctionOnSet(f, T \ {x})
    OBVIOUS
  <2> DEFINE y == Chosen(T)
  <2>1. T # {} /\ y \in T
    BY Smaller
  <2>2. SumFunctionOnSet(f, T) = f[y] + SumFunctionOnSet(f, T \ {y})
    BY <1>0, <2>1, SumStep
  <2>3. ASSUME NEW z \in T
        PROVE  T \ {z} \in SUBSET S /\ Fits(T \ {z})
    <3>1. T \ {z} \in SUBSET S
      OBVIOUS
    <3>2. Cardinality(T \ {z}) = Cardinality(T) - 1
      BY <1>0, FS_RemoveElement
    <3>3. Cardinality(T \ {z}) = n
      BY <3>2
    <3> QED
      BY <1>2, <3>1, <3>3
  <2> HIDE DEF y
  <2>4. CASE x # y
    <3>1. (T \ {y}) \ {x} = (T \ {x}) \ {y} /\ x \in T \ {y} /\ y \in T \ {x}
      BY <2>4, <2>1
    <3>2. /\ SumFunctionOnSet(f, T \ {y}) = f[x] + SumFunctionOnSet(f, (T \ {y}) \ {x})
          /\ SumFunctionOnSet(f, T \ {x}) = f[y] + SumFunctionOnSet(f, (T \ {x}) \ {y})
      BY <2>1, <2>3, <3>1
    <3>3. (T \ {y}) \ {x} \in SUBSET S
      OBVIOUS
    <3>4. SumFunctionOnSet(f, (T \ {y}) \ {x}) \in Nat /\ f[x] \in Nat /\ f[y] \in Nat
      BY <1>0, <2>1, <3>3, SumNat
    <3> DEFINE c == SumFunctionOnSet(f, (T \ {y}) \ {x})
               a == SumFunctionOnSet(f, T \ {y})
               b == SumFunctionOnSet(f, T \ {x})
    <3>5. a = f[x] + c /\ b = f[y] + c /\ c \in Nat
      BY <3>1, <3>2, <3>4, Zenon
    <3>6. SumFunctionOnSet(f, T) = f[y] + a
      BY <2>2
    <3> HIDE DEF a, b, c
    <3>7. SumFunctionOnSet(f, T) = f[x] + b
      BY <3>4, <3>5, <3>6
    <3> QED
      BY <3>7 DEF b
  <2> QED
    BY <2>2, <2>4
<1> HIDE DEF P
<1>3. Cardinality(S) \in P
  BY <1>0, <1>1, <1>2, Induction
<1> QED
  BY <1>3 DEF P

\* Only the summands matter.
LEMMA SumCongruence ==
  ASSUME NEW f, NEW g, NEW S, IsFiniteSet(S), \A x \in S : f[x] = g[x]
  PROVE  SumFunctionOnSet(f, S) = SumFunctionOnSet(g, S)
<1> DEFINE P == {n \in Nat : \A T \in SUBSET S : Cardinality(T) = n =>
                               SumFunctionOnSet(f, T) = SumFunctionOnSet(g, T)}
<1>0. \A T \in SUBSET S : IsFiniteSet(T) /\ Cardinality(T) \in Nat /\ (Cardinality(T) = 0 => T = {})
  BY FS_Subset, FS_CardinalityType, FS_EmptySet
<1>1. 0 \in P
  BY <1>0, SumStep
<1>2. ASSUME NEW n \in Nat, n \in P PROVE n + 1 \in P
  <2> SUFFICES ASSUME NEW T \in SUBSET S, Cardinality(T) = n + 1
               PROVE  SumFunctionOnSet(f, T) = SumFunctionOnSet(g, T)
    OBVIOUS
  <2>1. T # {}
    BY FS_EmptySet
  <2>2. Chosen(T) \in T /\ T \ {Chosen(T)} \in SUBSET S /\ Cardinality(T \ {Chosen(T)}) = n
    BY <2>1, Smaller
  <2>3. SumFunctionOnSet(f, T \ {Chosen(T)}) = SumFunctionOnSet(g, T \ {Chosen(T)}) /\ f[Chosen(T)] = g[Chosen(T)]
    BY <1>2, <2>2
  <2> QED
    BY <1>0, <2>1, <2>3, SumStep
<1> HIDE DEF P
<1>3. Cardinality(S) \in P
  BY <1>0, <1>1, <1>2, Induction
<1> QED
  BY <1>3 DEF P

\* Of two sums one is as much more than the other as one summand is.
Balanced(a, b, p, q) == a \in Nat /\ b \in Nat /\ p \in Nat /\ q \in Nat /\ b + p = a + q

Summands(f, S) == \A y \in S : f[y] \in Nat
SameBut(f, g, S, x) == \A y \in S : y # x => f[y] = g[y]

\* One summand changes: so does the sum, by as much.
LEMMA SumChanges ==
  ASSUME NEW f, NEW g, NEW S, IsFiniteSet(S), NEW x \in S,
         Summands(f, S), Summands(g, S), SameBut(f, g, S, x)
  PROVE  SumFunctionOnSet(g, S) + f[x] = SumFunctionOnSet(f, S) + g[x]
<1> DEFINE a == SumFunctionOnSet(f, S)
           b == SumFunctionOnSet(g, S)
           c == SumFunctionOnSet(f, S \ {x})
<1> USE DEF Summands, SameBut
<1>1. IsFiniteSet(S \ {x})
  BY FS_Subset
<1>2. a = f[x] + c
  BY SumTakesOut
<1>3. b = g[x] + SumFunctionOnSet(g, S \ {x})
  BY SumTakesOut
<1>4. SumFunctionOnSet(g, S \ {x}) = c
  BY <1>1, SumCongruence
<1>5. c \in Nat
  BY <1>1, SumNat
<1> HIDE DEF a, b, c
<1>6. b = g[x] + c
  BY <1>3, <1>4
<1>7. b + f[x] = a + g[x]
  BY <1>2, <1>5, <1>6
<1> QED
  BY <1>7 DEF a, b

\* The sum over 1 .. n + 1 ends with the summand at n + 1, and starts with that at 1.
LEMMA SumOfRange ==
  ASSUME NEW f, NEW n \in Nat, \A i \in 1..(n + 1) : f[i] \in Nat
  PROVE  /\ SumFunctionOnSet(f, 1..0) = 0
         /\ SumFunctionOnSet(f, 1..(n + 1)) = f[n + 1] + SumFunctionOnSet(f, 1..n)
<1>1. IsFiniteSet(1..(n + 1)) /\ (1..(n + 1)) \ {n + 1} = 1..n /\ n + 1 \in 1..(n + 1) /\ 1..0 = {}
  BY FS_Interval
<1>2. SumFunctionOnSet(f, 1..(n + 1)) = f[n + 1] + SumFunctionOnSet(f, 1..n)
  BY <1>1, SumTakesOut
<1> QED
  BY <1>1, <1>2, SumStep

\* A sum over a sequence is its first term and the sum over the rest.
LEMMA SumShifts ==
  ASSUME NEW f, NEW g, NEW n \in Nat, \A i \in 1..(n + 1) : f[i] \in Nat,
         \A i \in 1..n : g[i] = f[i + 1]
  PROVE  SumFunctionOnSet(f, 1..(n + 1)) = f[1] + SumFunctionOnSet(g, 1..n)
<1> DEFINE P == {k \in Nat : k <= n => SumFunctionOnSet(f, 1..(k + 1)) = f[1] + SumFunctionOnSet(g, 1..k)}
<1>1. 0 \in P
  <2>1. SumFunctionOnSet(f, 1..1) = f[1] + SumFunctionOnSet(f, 1..0) /\ SumFunctionOnSet(f, 1..0) = 0
    <3>1. \A i \in 1..(0 + 1) : f[i] \in Nat
      OBVIOUS
    <3>2. SumFunctionOnSet(f, 1..(0 + 1)) = f[0 + 1] + SumFunctionOnSet(f, 1..0)
      BY ONLY <3>1, 0 \in Nat, SumOfRange
    <3>3. SumFunctionOnSet(f, 1..0) = 0
      BY ONLY <3>1, 0 \in Nat, SumOfRange
    <3> QED
      BY <3>2, <3>3
  <2>2. 1..0 = {} /\ SumFunctionOnSet(g, {}) = 0
    <3>1. SumFunctionOnSet(g, {}) = 0
      BY FS_EmptySet, SumStep
    <3> QED
      BY <3>1
  <2> QED
    BY <2>1, <2>2
<1>2. ASSUME NEW k \in Nat, k \in P PROVE k + 1 \in P
  <2> SUFFICES ASSUME k + 1 <= n
               PROVE  SumFunctionOnSet(f, 1..(k + 2)) = f[1] + SumFunctionOnSet(g, 1..(k + 1))
    OBVIOUS
  <2>1. SumFunctionOnSet(f, 1..(k + 1)) = f[1] + SumFunctionOnSet(g, 1..k)
    BY <1>2
  <2>2. \A i \in 1..((k + 1) + 1) : f[i] \in Nat
    OBVIOUS
  <2>3. SumFunctionOnSet(f, 1..((k + 1) + 1)) = f[(k + 1) + 1] + SumFunctionOnSet(f, 1..(k + 1))
    <3>1. k + 1 \in Nat
      OBVIOUS
    <3> QED
      BY ONLY <2>2, <3>1, SumOfRange
  <2>4. \A i \in 1..(k + 1) : g[i] \in Nat
    OBVIOUS
  <2>5. SumFunctionOnSet(g, 1..(k + 1)) = g[k + 1] + SumFunctionOnSet(g, 1..k)
    BY <2>4, SumOfRange
  <2>6. SumFunctionOnSet(g, 1..k) \in Nat
    <3>1. IsFiniteSet(1..k) /\ \A i \in 1..k : g[i] \in Nat
      BY <2>4, FS_Interval
    <3> QED
      BY ONLY <3>1, SumNat
  <2>7. g[k + 1] = f[(k + 1) + 1] /\ g[k + 1] \in Nat /\ f[1] \in Nat /\ (k + 1) + 1 = k + 2
    BY <2>2
  <2> DEFINE a == SumFunctionOnSet(f, 1..(k + 2))
             b == SumFunctionOnSet(f, 1..(k + 1))
             c == SumFunctionOnSet(g, 1..(k + 1))
             d == SumFunctionOnSet(g, 1..k)
  <2>8. a = g[k + 1] + b
    BY <2>3, <2>7
  <2>9. b = f[1] + d /\ c = g[k + 1] + d /\ d \in Nat
    BY <2>1, <2>5, <2>6
  <2> HIDE DEF a, b, c, d
  <2>10. a = f[1] + c
    BY <2>7, <2>8, <2>9
  <2> QED
    BY <2>10 DEF a, c
<1> HIDE DEF P
<1>3. n \in P
  BY <1>1, <1>2, Induction
<1> QED
  BY <1>3 DEF P

-----------------------------------------------------------------------------
(* The queue of events.                                                    *)

\* What the assumptions say of the queue's limits.
LEMMA Limits ==
  /\ QueueMax \in Nat /\ QueueMax >= 1 /\ ScanMax \in Nat /\ ScanMax >= 1
  /\ RepeatLimit \in Nat /\ RepeatLimit >= 1 /\ MaxCalls \in Nat /\ MaxShutdowns \in Nat
BY LimitsArePositive

\* The sums of the instance of HookQueue are those of this module.
LEMMA QueueSum ==
  ASSUME NEW f
  PROVE  /\ \A S : Queue!SumFunctionOnSet(f, S) = SumFunctionOnSet(f, S)
         /\ Queue!SumFunction(f) = SumFunctionOnSet(f, DOMAIN f)
<1>1. \A S : Queue!SumFunctionOnSet(f, S) = SumFunctionOnSet(f, S)
  BY DEF SumFunctionOnSet, FoldFunctionOnSet, MapThenFoldSet, Queue!SumFunctionOnSet,
         Queue!FoldFunctionOnSet, Queue!MapThenFoldSet
<1> QED
  BY <1>1 DEF Queue!SumFunction

\* So are its cardinalities.
LEMMA QueueCardinality ==
  ASSUME NEW S
  PROVE  Queue!Cardinality(S) = Cardinality(S)
BY Zenon DEF Cardinality, Queue!Cardinality

\* What an event adds to the count of a key.
Weight(e, key) == IF e.key = key THEN e.count ELSE 0
Weights(s, key) == [i \in DOMAIN s |-> Weight(s[i], key)]

\* The calls of a key in a sequence of events, as a sum of weights.
LEMMA CountIs ==
  ASSUME NEW E, NEW s \in Seq(E), NEW key
  PROVE  Queue!CountOf(s, key) = SumFunctionOnSet(Weights(s, key), 1..Len(s))
<1>1. DOMAIN s = 1..Len(s)
  OBVIOUS
<1>2. Queue!CountOf(s, key) = Queue!SumFunction(Weights(s, key))
  BY Zenon DEF Queue!CountOf, Weights, Weight
<1>3. DOMAIN Weights(s, key) = 1..Len(s)
  BY <1>1 DEF Weights
<1> QED
  BY <1>2, <1>3, QueueSum

Counted(E) == \A e \in E : e.count \in Nat

\* The weights are numbers, and there are finitely many.
LEMMA WeightsAreNumbers ==
  ASSUME NEW E, Counted(E), NEW s \in Seq(E), NEW key
  PROVE  /\ \A i \in 1..Len(s) : Weights(s, key)[i] = Weight(s[i], key) /\ Weight(s[i], key) \in Nat
         /\ IsFiniteSet(1..Len(s)) /\ Len(s) \in Nat
<1>1. Len(s) \in Nat /\ DOMAIN s = 1..Len(s) /\ \A i \in 1..Len(s) : s[i] \in E
  OBVIOUS
<1> QED
  BY <1>1, FS_Interval DEF Counted, Weights, Weight

\* The calls of a key in a sequence of events are a number.
LEMMA CountNat ==
  ASSUME NEW E, Counted(E), NEW s \in Seq(E), NEW key
  PROVE  Queue!CountOf(s, key) \in Nat
BY CountIs, WeightsAreNumbers, SumNat

\* There are none in the empty sequence.
LEMMA CountOfNothing ==
  ASSUME NEW key
  PROVE  Queue!CountOf(<<>>, key) = 0
<1>1. <<>> \in Seq({}) /\ 1..Len(<<>>) = {}
  OBVIOUS
<1>2. SumFunctionOnSet(Weights(<<>>, key), {}) = 0
  BY FS_EmptySet, SumStep
<1> QED
  BY <1>1, <1>2, CountIs

\* An event that is appended adds its repetitions, if it is of the key.
LEMMA CountAppended ==
  ASSUME NEW E, Counted(E), NEW s \in Seq(E), NEW e \in E, NEW key
  PROVE  Queue!CountOf(Append(s, e), key) = Queue!CountOf(s, key) + Weight(e, key)
<1> DEFINE r == Append(s, e)
           n == Len(s)
<1>1. r \in Seq(E) /\ n \in Nat /\ Len(r) = n + 1 /\ r[n + 1] = e /\ \A i \in 1..n : r[i] = s[i]
  OBVIOUS
<1> HIDE DEF r
<1>0. IsFiniteSet(1..n)
  BY FS_Interval
<1>2. \A i \in 1..(n + 1) : Weights(r, key)[i] = Weight(r[i], key) /\ Weight(r[i], key) \in Nat
  BY <1>1, WeightsAreNumbers
<1>3. \A i \in 1..n : Weights(s, key)[i] = Weight(s[i], key) /\ Weight(s[i], key) \in Nat
  BY WeightsAreNumbers
<1> HIDE DEF n
<1>4. SumFunctionOnSet(Weights(r, key), 1..(n + 1))
        = Weights(r, key)[n + 1] + SumFunctionOnSet(Weights(r, key), 1..n)
  BY <1>1, <1>2, SumOfRange
<1>5. SumFunctionOnSet(Weights(r, key), 1..n) = SumFunctionOnSet(Weights(s, key), 1..n)
  <2>1. \A i \in 1..n : Weights(r, key)[i] = Weights(s, key)[i]
    BY <1>1, <1>2, <1>3
  <2> QED
    BY <1>0, <2>1, SumCongruence
<1>6. SumFunctionOnSet(Weights(s, key), 1..n) \in Nat
  BY <1>0, <1>3, SumNat
<1>7. /\ Queue!CountOf(r, key) = SumFunctionOnSet(Weights(r, key), 1..(n + 1))
      /\ Queue!CountOf(s, key) = SumFunctionOnSet(Weights(s, key), 1..n)
  BY <1>1, CountIs DEF n
<1>8. Weights(r, key)[n + 1] = Weight(e, key) /\ Weight(e, key) \in Nat
  BY <1>1, <1>2
<1>9. Queue!CountOf(r, key) = Queue!CountOf(s, key) + Weight(e, key)
  BY <1>4, <1>5, <1>6, <1>7, <1>8
<1> QED
  BY <1>9 DEF r

\* An event that is taken from the front takes its repetitions away.
LEMMA CountOfTail ==
  ASSUME NEW E, Counted(E), NEW s \in Seq(E), s # <<>>, NEW key
  PROVE  Queue!CountOf(s, key) = Weight(Head(s), key) + Queue!CountOf(Tail(s), key)
<1> DEFINE r == Tail(s)
           n == Len(s) - 1
<1>1. r \in Seq(E) /\ n \in Nat /\ Len(s) = n + 1 /\ Len(r) = n /\ Head(s) = s[1]
      /\ \A i \in 1..n : r[i] = s[i + 1]
  OBVIOUS
<1> HIDE DEF r
<1>2. \A i \in 1..n : Weights(r, key)[i] = Weight(r[i], key)
  BY <1>1, WeightsAreNumbers
<1>3. \A i \in 1..(n + 1) : Weights(s, key)[i] = Weight(s[i], key) /\ Weight(s[i], key) \in Nat
  BY <1>1, WeightsAreNumbers
<1>4. /\ Queue!CountOf(s, key) = SumFunctionOnSet(Weights(s, key), 1..(n + 1))
      /\ Queue!CountOf(r, key) = SumFunctionOnSet(Weights(r, key), 1..n)
  BY <1>1, CountIs
<1> HIDE DEF n
<1>5. \A i \in 1..n : Weights(r, key)[i] = Weights(s, key)[i + 1]
  BY <1>1, <1>2, <1>3
<1>6. \A i \in 1..(n + 1) : Weights(s, key)[i] \in Nat
  BY <1>3
<1>7. SumFunctionOnSet(Weights(s, key), 1..(n + 1))
        = Weights(s, key)[1] + SumFunctionOnSet(Weights(r, key), 1..n)
  BY <1>1, <1>5, <1>6, SumShifts
<1>8. Weights(s, key)[1] = Weight(Head(s), key)
  BY <1>1, <1>3
<1> QED
  BY <1>4, <1>7, <1>8 DEF r

\* An event put in another's place adds its own and takes the other's away.
LEMMA CountReplaced ==
  ASSUME NEW E, Counted(E), NEW s \in Seq(E), NEW i \in 1..Len(s), NEW e \in E, NEW key
  PROVE  Balanced(Queue!CountOf(s, key), Queue!CountOf([s EXCEPT ![i] = e], key),
                  Weight(s[i], key), Weight(e, key))
<1> DEFINE r == [s EXCEPT ![i] = e]
           n == Len(s)
<1>1. r \in Seq(E) /\ n \in Nat /\ Len(r) = n /\ r[i] = e /\ \A j \in (1..n) \ {i} : r[j] = s[j]
  OBVIOUS
<1> HIDE DEF r
<1>2. \A j \in 1..n : Weights(r, key)[j] = Weight(r[j], key) /\ Weight(r[j], key) \in Nat
  BY <1>1, WeightsAreNumbers
<1>3. \A j \in 1..n : Weights(s, key)[j] = Weight(s[j], key) /\ Weight(s[j], key) \in Nat
  BY WeightsAreNumbers
<1>4. /\ Queue!CountOf(s, key) = SumFunctionOnSet(Weights(s, key), 1..n)
      /\ Queue!CountOf(r, key) = SumFunctionOnSet(Weights(r, key), 1..n)
  BY <1>1, CountIs
<1>5. i \in 1..n /\ IsFiniteSet(1..n)
  BY FS_Interval
<1> HIDE DEF n
<1>6. \A j \in (1..n) \ {i} : Weights(s, key)[j] = Weights(r, key)[j]
  BY <1>1, <1>2, <1>3
<1>7. SumFunctionOnSet(Weights(r, key), 1..n) + Weights(s, key)[i]
        = SumFunctionOnSet(Weights(s, key), 1..n) + Weights(r, key)[i]
  <2> DEFINE f == Weights(s, key)
             g == Weights(r, key)
             S == 1..n
  <2>1. IsFiniteSet(S) /\ i \in S
    BY <1>5
  <2>2. Summands(f, S) /\ Summands(g, S) /\ SameBut(f, g, S, i)
    BY <1>2, <1>3, <1>6 DEF Summands, SameBut
  <2> HIDE DEF f, g, S
  <2>3. SumFunctionOnSet(g, S) + f[i] = SumFunctionOnSet(f, S) + g[i]
    BY <2>1, <2>2, SumChanges
  <2> QED
    BY <2>3 DEF f, g, S
<1>8. /\ Queue!CountOf(r, key) \in Nat /\ Queue!CountOf(s, key) \in Nat
      /\ Weight(e, key) \in Nat /\ Weight(s[i], key) \in Nat
  BY <1>1, <1>2, <1>3, <1>5, CountNat
<1>9. Balanced(Queue!CountOf(s, key), Queue!CountOf(r, key), Weight(s[i], key), Weight(e, key))
  BY <1>1, <1>2, <1>3, <1>4, <1>5, <1>7, <1>8 DEF Balanced
<1> QED
  BY <1>9 DEF r

\* A total over a finite domain is a number.
LEMMA TotalIsNumber ==
  ASSUME NEW S, IsFiniteSet(S), NEW f \in [S -> Nat]
  PROVE  Queue!SumFunction(f) \in Nat
<1>1. DOMAIN f = S /\ \A x \in S : f[x] \in Nat
  OBVIOUS
<1>2. Queue!SumFunction(f) = SumFunctionOnSet(f, S)
  BY <1>1, QueueSum
<1> QED
  BY <1>1, <1>2, SumNat

\* It changes by as much as the one term that changes.
LEMMA TotalChanges ==
  ASSUME NEW S, IsFiniteSet(S), NEW f \in [S -> Nat], NEW g \in [S -> Nat], NEW x \in S,
         SameBut(f, g, S, x)
  PROVE  Balanced(Queue!SumFunction(f), Queue!SumFunction(g), f[x], g[x])
<1>1. Queue!SumFunction(f) = SumFunctionOnSet(f, S) /\ Queue!SumFunction(g) = SumFunctionOnSet(g, S)
  <2>1. DOMAIN f = S /\ DOMAIN g = S
    OBVIOUS
  <2> QED
    BY <2>1, QueueSum
<1>2. Summands(f, S) /\ Summands(g, S)
  BY DEF Summands
<1>3. Queue!SumFunction(f) \in Nat /\ Queue!SumFunction(g) \in Nat
  BY TotalIsNumber
<1>4. SumFunctionOnSet(g, S) + f[x] = SumFunctionOnSet(f, S) + g[x]
  BY <1>2, SumChanges
<1> QED
  BY <1>1, <1>3, <1>4 DEF Balanced

\* It is zero when every term is.
LEMMA TotalOfNothing ==
  ASSUME NEW S, IsFiniteSet(S), NEW f \in [S -> Nat], \A x \in S : f[x] = 0
  PROVE  Queue!SumFunction(f) = 0
<1> DEFINE P == {n \in Nat : \A T \in SUBSET S : Cardinality(T) = n => SumFunctionOnSet(f, T) = 0}
<1>0. \A T \in SUBSET S : IsFiniteSet(T) /\ Cardinality(T) \in Nat /\ (Cardinality(T) = 0 => T = {})
  BY FS_Subset, FS_CardinalityType, FS_EmptySet
<1>1. 0 \in P
  BY <1>0, SumStep
<1>2. ASSUME NEW n \in Nat, n \in P PROVE n + 1 \in P
  <2> SUFFICES ASSUME NEW T \in SUBSET S, Cardinality(T) = n + 1
               PROVE  SumFunctionOnSet(f, T) = 0
    OBVIOUS
  <2>1. T # {}
    <3>1. Cardinality({}) = 0 /\ n + 1 # 0
      BY FS_EmptySet
    <3> QED
      BY <3>1
  <2>2. Chosen(T) \in T /\ T \ {Chosen(T)} \in SUBSET S /\ Cardinality(T \ {Chosen(T)}) = n
    BY <2>1, Smaller
  <2>3. SumFunctionOnSet(f, T \ {Chosen(T)}) = 0 /\ f[Chosen(T)] = 0
    BY <1>2, <2>2
  <2>4. SumFunctionOnSet(f, T) = f[Chosen(T)] + SumFunctionOnSet(f, T \ {Chosen(T)})
    BY <1>0, <2>1, SumStep
  <2> QED
    BY <2>3, <2>4
<1> HIDE DEF P
<1>3. Cardinality(S) \in P
  BY <1>0, <1>1, <1>2, Induction
<1>4. DOMAIN f = S
  OBVIOUS
<1> QED
  BY <1>3, <1>4, QueueSum DEF P

\* What the assumptions say of threads and keys.
LEMMA ThreadsKnown ==
  /\ IsFiniteSet(Key) /\ IsFiniteSet(Queue!Recorder) /\ IsFiniteSet(Queue!Flusher)
  /\ Loop \notin Queue!Recorder /\ TerminateKey \in Key
<1>1. IsFiniteSet({Loop})
  BY FS_Singleton
<1> QED
  BY <1>1, FS_Union, ThreadsDistinct, KeysClassified DEF Queue!Recorder, Queue!Flusher

-----------------------------------------------------------------------------
(* What the steps of the queue do to its events.                           *)

Events == Queue!EventRecord

\* The events of the queue have counts.
LEMMA EventsCounted == Counted(Events)
BY Limits DEF Counted, Events, Queue!EventRecord

\* A call is counted by a repeat of an event, by none, or by an event of its own,
\* which is appended, takes a dull one's place or that of the oldest.
Repeated(key, i) ==
  /\ i \in DOMAIN queue /\ queue[i].key = key /\ queue[i].count # RepeatLimit
  /\ queue' = [queue EXCEPT ![i].count = @ + 1]
  /\ forgotten' = forgotten

Saturated(key) ==
  /\ queue' = queue
  /\ forgotten' = [forgotten EXCEPT ![key] = @ + 1]

Appended(e) ==
  /\ Len(queue) < QueueMax
  /\ queue' = Append(queue, e) /\ forgotten' = forgotten

Replaced(e, i) ==
  /\ i \in DOMAIN queue
  /\ queue' = [queue EXCEPT ![i] = e]
  /\ forgotten' = [forgotten EXCEPT ![queue[i].key] = @ + queue[i].count]

Shifted(e) ==
  /\ queue # <<>> /\ Len(queue) >= QueueMax
  /\ queue' = Append(Tail(queue), e)
  /\ forgotten' = [forgotten EXCEPT ![Head(queue).key] = @ + Head(queue).count]

OwnEvent(key, e) == e.key = key /\ e.count = 1 /\ e.first = Queue!Recorded + 1

\* No event of this key, if it may be merged, is among the newest ScanMax.
Alone(key) == key \notin Unmergeable =>
                \A i \in DOMAIN queue : queue[i].key = key => ~(i > Len(queue) - ScanMax)

\* What recording a call does to the queue: it counts up, appends, replaces or displaces (controller.cpp).
LEMMA EnqueueCases ==
  ASSUME Queue!TypeOK, NEW t, NEW c \in Queue!Call, Queue!Enqueue(t, c),
         Queue!Recorded + 1 \in 1..MaxCalls
  PROVE  \/ (\E i \in DOMAIN queue : Repeated(c[1], i)) \/ Saturated(c[1])
         \/ \E e \in Events :
              /\ OwnEvent(c[1], e) /\ Alone(c[1])
              /\ Appended(e) \/ (\E i \in DOMAIN queue : Replaced(e, i)) \/ Shifted(e)
<1>1. c[1] \in Key /\ c[2] \in BOOLEAN
  BY DEF Queue!Call
<1>2. queue \in Seq(Events)
  BY DEF Queue!TypeOK, Events
<1>3. CASE \E i \in Queue!Twins(c[1]) : Queue!Absorb(c, i)
  <2> PICK i \in Queue!Twins(c[1]) : Queue!Absorb(c, i)
    BY <1>3
  <2>1. i \in DOMAIN queue /\ queue[i].key = c[1]
    BY DEF Queue!Twins
  <2>2. CASE queue[i].count = RepeatLimit
    BY <2>2 DEF Queue!Absorb, Saturated
  <2>3. CASE queue[i].count # RepeatLimit
    <3>1. queue' = [queue EXCEPT ![i].count = @ + 1] /\ forgotten' = forgotten
      BY <2>3 DEF Queue!Absorb
    <3>2. Repeated(c[1], i)
      BY <2>1, <2>3, <3>1 DEF Repeated
    <3> QED
      BY <2>1, <3>2
  <2> QED
    BY <2>2, <2>3
<1>4. CASE Queue!Twins(c[1]) = {} /\ Queue!Admit(Queue!NewEvent(c))
  <2> DEFINE e == Queue!NewEvent(c)
  <2>1. e \in Events /\ OwnEvent(c[1], e)
    BY <1>1, Limits DEF Events, Queue!EventRecord, Queue!NewEvent, OwnEvent
  <2>2. Alone(c[1])
    BY <1>4 DEF Alone, Queue!Twins
  <2> HIDE DEF e
  <2>3. Queue!Admit(e)
    BY <1>4 DEF e
  <2>4. CASE Len(queue) < QueueMax
    BY <2>1, <2>2, <2>3, <2>4 DEF Queue!Admit, Appended
  <2>5. CASE ~(Len(queue) < QueueMax)
    <3>1. Queue!Displace(e) /\ Len(queue) >= QueueMax /\ queue # <<>>
      BY <1>2, <2>3, <2>5, Limits DEF Queue!Admit
    <3>2. Shifted(e) \/ \E i \in DOMAIN queue : Replaced(e, i)
      BY <3>1 DEF Queue!Displace, Queue!Forget, Shifted, Replaced
    <3> QED
      BY <2>1, <2>2, <3>2
  <2> QED
    BY <2>4, <2>5
<1> QED
  BY <1>3, <1>4 DEF Queue!Enqueue

-----------------------------------------------------------------------------
(* Types, and the calls that there is room for.                            *)

Booked == Queue!Recorded + Cardinality(Queue!Capturing) <= MaxCalls

\* The steps of the queue, one by one.
LEMMA QueueSteps ==
  ASSUME [Queue!Next]_Queue!vars
  PROVE  \/ UNCHANGED Queue!vars
         \/ \E t \in Queue!Recorder : Queue!EnterHook(t)
         \/ \E t \in Queue!Recorder : Queue!LeaveHook(t)
         \/ \E t \in Queue!Recorder, c \in Queue!Call : Queue!Enqueue(t, c)
         \/ \E t \in Queue!Recorder : Queue!Signal(t)
         \/ \E f \in Queue!Flusher : Queue!Swap(f)
         \/ \E f \in Queue!Flusher : Queue!Publish(f)
         \/ \E f \in Queue!Flusher : Queue!FlushDone(f)
         \/ Queue!LoopStarts \/ Queue!LoopWakes
         \/ Queue!Initialize \/ Queue!ShutdownRemovesHook \/ Queue!ShutdownClears
BY Zenon DEF Queue!Next, Queue!RecorderStep, Queue!FlusherStep, Queue!LoopStep,
             Queue!Flusher

\* How many calls have been recorded is a number.
LEMMA RecordedIsNumber ==
  ASSUME Queue!TypeOK
  PROVE  Queue!Recorded \in Nat
<1>1. recorded \in [Key -> Nat] /\ IsFiniteSet(Key)
  BY ThreadsKnown DEF Queue!TypeOK
<1> QED
  BY <1>1, TotalIsNumber DEF Queue!Recorded

\* It grows by one with each call.
LEMMA RecordedGrows ==
  ASSUME Queue!TypeOK, NEW k \in Key, recorded' = [recorded EXCEPT ![k] = @ + 1]
  PROVE  Queue!Recorded' = Queue!Recorded + 1
<1> DEFINE g == [recorded EXCEPT ![k] = @ + 1]
<1>1. recorded \in [Key -> Nat] /\ IsFiniteSet(Key) /\ recorded[k] \in Nat
  BY ThreadsKnown DEF Queue!TypeOK
<1>2. g \in [Key -> Nat] /\ g[k] = recorded[k] + 1 /\ SameBut(recorded, g, Key, k)
  BY <1>1 DEF SameBut
<1>3. Queue!Recorded' = Queue!SumFunction(g) /\ Queue!Recorded = Queue!SumFunction(recorded)
  BY DEF Queue!Recorded
<1> HIDE DEF g
<1>4. Balanced(Queue!Recorded, Queue!Recorded', recorded[k], g[k])
  BY <1>1, <1>2, <1>3, TotalChanges
<1> QED
  BY <1>1, <1>2, <1>4 DEF Balanced

\* Finitely many threads are about to record.
LEMMA CapturingIsFinite ==
  /\ IsFiniteSet(Queue!Capturing) /\ Cardinality(Queue!Capturing) \in Nat
  /\ \A t \in Queue!Recorder :
       /\ t \in Queue!Capturing =>
            /\ Cardinality(Queue!Capturing \ {t}) = Cardinality(Queue!Capturing) - 1
            /\ Cardinality(Queue!Capturing) >= 1
       /\ t \notin Queue!Capturing =>
            Cardinality(Queue!Capturing \cup {t}) = Cardinality(Queue!Capturing) + 1
<1>1. IsFiniteSet(Queue!Capturing)
  <2>1. Queue!Capturing \subseteq Queue!Recorder
    BY DEF Queue!Capturing
  <2> QED
    BY <2>1, ThreadsKnown, FS_Subset
<1>2. Cardinality(Queue!Capturing) \in Nat
  BY <1>1, FS_CardinalityType
<1>3. ASSUME NEW t \in Queue!Capturing
      PROVE  /\ Cardinality(Queue!Capturing \ {t}) = Cardinality(Queue!Capturing) - 1
             /\ Cardinality(Queue!Capturing) >= 1
  <2>1. Cardinality(Queue!Capturing \ {t}) = Cardinality(Queue!Capturing) - 1
    BY <1>1, FS_RemoveElement
  <2>2. Cardinality(Queue!Capturing) # 0
    BY <1>1, FS_EmptySet
  <2> QED
    BY <1>2, <2>1, <2>2
<1>4. ASSUME NEW t, t \notin Queue!Capturing
      PROVE  Cardinality(Queue!Capturing \cup {t}) = Cardinality(Queue!Capturing) + 1
  BY <1>1, <1>4, FS_AddElement
<1> QED
  BY <1>1, <1>2, <1>3, <1>4

Labels == {"absent", "idle", "capture", "signal", "swap", "publish", "wait", "ended"}

\* Who moves and does not begin a capture leaves the others capturing.
LEMMA CapturingMoves ==
  ASSUME pc \in [Queue!Thread -> Labels], NEW t \in Queue!Thread, NEW x \in Labels,
         pc' = [pc EXCEPT ![t] = x]
  PROVE  /\ pc' \in [Queue!Thread -> Labels]
         /\ x # "capture" => Queue!Capturing' = Queue!Capturing \ {t}
         /\ x = "capture" /\ t \in Queue!Recorder => Queue!Capturing' = Queue!Capturing \cup {t}
<1>1. \A u \in Queue!Recorder : u \in Queue!Thread
  BY DEF Queue!Thread
<1>2. \A u \in Queue!Thread : pc'[u] = IF u = t THEN x ELSE pc[u]
  OBVIOUS
<1> QED
  BY <1>1, <1>2 DEF Queue!Capturing

\* The queue begins with its types.
LEMMA InitTypedQueue ==
  ASSUME Queue!Init
  PROVE  Queue!TypeOK /\ Booked
<1>1. Queue!TypeOK
  <2>1. <<>> \in Seq(Queue!EventRecord) /\ Len(<<>>) = 0
    OBVIOUS
  <2>2. pc \in [Queue!Thread -> Labels]
    BY DEF Queue!Init, Labels
  <2>3. /\ hand \in [Queue!Flusher -> Seq(Queue!EventRecord)]
        /\ recorded \in [Key -> Nat] /\ reported \in [Key -> Nat] /\ forgotten \in [Key -> Nat]
        /\ own \in [Terminator -> Nat]
    BY <2>1 DEF Queue!Init
  <2>4. /\ installed \in BOOLEAN /\ ready \in BOOLEAN /\ stopping \in BOOLEAN /\ shutdowns \in Nat
        /\ workEvent \in {"null", "clear", "set"} /\ queue = <<>>
    BY DEF Queue!Init
  <2> QED
    BY <2>1, <2>2, <2>3, <2>4, Limits DEF Queue!TypeOK, Labels
<1>2. Queue!Recorded = 0
  <2>1. recorded \in [Key -> Nat] /\ (\A k \in Key : recorded[k] = 0) /\ IsFiniteSet(Key)
    BY ThreadsKnown DEF Queue!Init
  <2> QED
    BY ONLY <2>1, TotalOfNothing DEF Queue!Recorded
<1>3. Queue!Capturing = {}
  BY DEF Queue!Init, Queue!Capturing, Queue!Recorder, Queue!Thread
<1> QED
  BY <1>1, <1>2, <1>3, FS_EmptySet, Limits DEF Booked

\* A thread that is about to record has its call among those the bound allows.
LEMMA RoomForOneMore ==
  ASSUME Queue!TypeOK, Booked, NEW t \in Queue!Recorder, pc[t] = "capture"
  PROVE  /\ Queue!Recorded + 1 \in 1..MaxCalls /\ Queue!Recorded \in Nat
         /\ Queue!Recorded + 1 + Cardinality(Queue!Capturing \ {t}) <= MaxCalls
<1>1. t \in Queue!Capturing
  BY DEF Queue!Capturing
<1> DEFINE n == Cardinality(Queue!Capturing)
           m == Cardinality(Queue!Capturing \ {t})
<1>2. m = n - 1 /\ n >= 1 /\ n \in Nat
  BY <1>1, CapturingIsFinite
<1> DEFINE r == Queue!Recorded
<1>3. r \in Nat /\ r + n <= MaxCalls /\ MaxCalls \in Nat
  BY RecordedIsNumber, Limits DEF Booked
<1> HIDE DEF n, m, r
<1>4. r + 1 \in 1..MaxCalls /\ r \in Nat /\ r + 1 + m <= MaxCalls
  BY <1>2, <1>3
<1> QED
  BY <1>4 DEF r, m

\* The queue keeps its type and its size, and nothing is lost of what is handed on.
QueueTyped == queue \in Seq(Events) /\ Len(queue) <= QueueMax
CountsTyped == recorded \in [Key -> Nat] /\ forgotten \in [Key -> Nat] /\ reported \in [Key -> Nat]
HandsTyped == hand \in [Queue!Flusher -> Seq(Events)]

\* The types of an event's fields.
LEMMA EventParts ==
  ASSUME NEW e \in Events
  PROVE  e.key \in Key /\ e.count \in 1..RepeatLimit /\ e.count \in Nat /\ e.first \in Nat
BY Limits DEF Events, Queue!EventRecord

\* An event counted up below the limit is an event.
LEMMA RepeatedTyped ==
  ASSUME NEW s \in Seq(Events), NEW i \in DOMAIN s, s[i].count # RepeatLimit
  PROVE  /\ [s EXCEPT ![i].count = @ + 1] = [s EXCEPT ![i] = [s[i] EXCEPT !.count = @ + 1]]
         /\ [s[i] EXCEPT !.count = @ + 1] \in Events
<1>1. s[i] \in Events
  OBVIOUS
<1>2. [s[i] EXCEPT !.count = @ + 1] \in Events
  <2> DEFINE e == s[i]
  <2>1. e \in Events /\ e.count # RepeatLimit
    BY <1>1
  <2> HIDE DEF e
  <2>2. e.count + 1 \in 1..RepeatLimit
    <3>1. e.count \in 1..RepeatLimit
      BY <2>1, EventParts
    <3> QED
      BY <2>1, <3>1, Limits
  <2>3. [e EXCEPT !.count = e.count + 1] \in Events
    BY <2>1, <2>2 DEF Events, Queue!EventRecord
  <2> QED
    BY <2>3 DEF e
<1> QED
  BY <1>2

\* Recording a call keeps the types of the queue.
LEMMA QueueTypedStep ==
  ASSUME Queue!TypeOK, NEW t, NEW c \in Queue!Call, Queue!Enqueue(t, c),
         Queue!Recorded + 1 \in 1..MaxCalls
  PROVE  QueueTyped' /\ forgotten' \in [Key -> Nat]
<1>1. queue \in Seq(Events) /\ Len(queue) <= QueueMax /\ forgotten \in [Key -> Nat]
  BY DEF Queue!TypeOK, Events
<1>2. c[1] \in Key
  BY DEF Queue!Call
<1>3. ASSUME NEW i \in DOMAIN queue PROVE queue[i] \in Events
  BY <1>1
<1>4. ASSUME NEW i \in DOMAIN queue, Repeated(c[1], i) PROVE QueueTyped' /\ forgotten' \in [Key -> Nat]
  <2> DEFINE e == [queue[i] EXCEPT !.count = @ + 1]
  <2>1. queue' = [queue EXCEPT ![i] = e] /\ e \in Events
    BY <1>1, <1>4, RepeatedTyped DEF Repeated
  <2> HIDE DEF e
  <2>2. forgotten' \in [Key -> Nat]
    BY <1>1, <1>4 DEF Repeated
  <2> QED
    BY <1>1, <2>1, <2>2 DEF QueueTyped
<1>5. CASE Saturated(c[1])
  BY <1>1, <1>2, <1>5 DEF Saturated, QueueTyped
<1>6. ASSUME NEW e \in Events, Appended(e) PROVE QueueTyped' /\ forgotten' \in [Key -> Nat]
  <2>1. Append(queue, e) \in Seq(Events) /\ Len(Append(queue, e)) = Len(queue) + 1
    BY <1>1
  <2>2. Len(queue) \in Nat /\ QueueMax \in Nat
    BY <1>1, Limits
  <2> QED
    BY <1>1, <1>6, <2>1, <2>2 DEF Appended, QueueTyped
<1>7. ASSUME NEW e \in Events, NEW i \in DOMAIN queue, Replaced(e, i)
      PROVE  QueueTyped' /\ forgotten' \in [Key -> Nat]
  <2>1. queue' \in Seq(Events) /\ Len(queue') = Len(queue)
    BY <1>1, <1>7 DEF Replaced
  <2>2. queue[i].key \in Key /\ queue[i].count \in Nat
    BY <1>3, EventParts
  <2> QED
    BY <1>1, <1>7, <2>1, <2>2 DEF Replaced, QueueTyped
<1>8. ASSUME NEW e \in Events, Shifted(e) PROVE QueueTyped' /\ forgotten' \in [Key -> Nat]
  <2>1. queue # <<>> /\ queue' = Append(Tail(queue), e)
    BY <1>8 DEF Shifted
  <2>2. queue' \in Seq(Events) /\ Len(queue') = Len(queue) /\ Head(queue) \in Events
    BY <1>1, <2>1
  <2>3. Head(queue).key \in Key /\ Head(queue).count \in Nat
    BY <2>2, EventParts
  <2> QED
    BY <1>1, <1>8, <2>2, <2>3 DEF Shifted, QueueTyped
<1> QED
  BY <1>4, <1>5, <1>6, <1>7, <1>8, EnqueueCases

FlagsTyped ==
  /\ installed \in BOOLEAN /\ ready \in BOOLEAN /\ stopping \in BOOLEAN /\ shutdowns \in Nat
  /\ workEvent \in {"null", "clear", "set"}
OwnTyped == own \in [Terminator -> Nat]
PcTyped == pc \in [Queue!Thread -> Labels]

\* The type invariant of the queue, part by part.
LEMMA TypesAre ==
  Queue!TypeOK <=> FlagsTyped /\ OwnTyped /\ PcTyped /\ QueueTyped /\ CountsTyped /\ HandsTyped
BY DEF Queue!TypeOK, FlagsTyped, OwnTyped, PcTyped, QueueTyped, CountsTyped, HandsTyped,
       Events, Labels

\* And of the next state.
LEMMA TypesAreNext ==
  Queue!TypeOK' <=> FlagsTyped' /\ OwnTyped' /\ PcTyped' /\ QueueTyped' /\ CountsTyped' /\ HandsTyped'
BY DEF Queue!TypeOK, FlagsTyped, OwnTyped, PcTyped, QueueTyped, CountsTyped, HandsTyped,
       Events, Labels

\* Who moves on without a call of his own keeps the room that was there.
LEMMA BookedKept ==
  ASSUME Queue!TypeOK, Booked, NEW t \in Queue!Thread, NEW x \in Labels \ {"capture"},
         pc' = [pc EXCEPT ![t] = x], recorded' = recorded
  PROVE  Booked' /\ PcTyped'
<1>1. pc \in [Queue!Thread -> Labels]
  BY TypesAre DEF PcTyped
<1>2. PcTyped' /\ Queue!Capturing' = Queue!Capturing \ {t}
  BY <1>1, CapturingMoves DEF PcTyped
<1>3. Cardinality(Queue!Capturing \ {t}) <= Cardinality(Queue!Capturing)
       /\ Cardinality(Queue!Capturing \ {t}) \in Nat
  BY CapturingIsFinite, FS_Subset, FS_CardinalityType
<1>4. Queue!Recorded' = Queue!Recorded
  BY DEF Queue!Recorded
<1>5. Queue!Recorded \in Nat /\ Cardinality(Queue!Capturing) \in Nat /\ MaxCalls \in Nat
  BY RecordedIsNumber, CapturingIsFinite, Limits
<1> DEFINE a == Cardinality(Queue!Capturing \ {t})
           b == Cardinality(Queue!Capturing)
           r == Queue!Recorded
<1>6. r + b <= MaxCalls
  BY DEF Booked
<1> HIDE DEF a, b, r
<1>7. r + a <= MaxCalls
  BY <1>3, <1>5, <1>6 DEF a, b, r
<1> QED
  BY <1>2, <1>4, <1>7 DEF Booked, a, r

\* Every step of the queue keeps its types.
LEMMA NextTypedQueue ==
  ASSUME Queue!TypeOK, Booked, [Queue!Next]_Queue!vars
  PROVE  Queue!TypeOK' /\ Booked'
<1>1. FlagsTyped /\ OwnTyped /\ PcTyped /\ QueueTyped /\ CountsTyped /\ HandsTyped
  BY TypesAre
<1>2. /\ \A t \in Queue!Recorder : t \in Queue!Thread
      /\ \A f \in Queue!Flusher : f \in Queue!Thread
      /\ Loop \in Queue!Thread
  BY DEF Queue!Thread, Queue!Flusher, Queue!Recorder
<1>3. \A t \in Queue!Recorder : Queue!AfterRecording(t) \in {"swap", "idle"}
  BY DEF Queue!AfterRecording
<1>4. \A x \in {"swap", "idle", "signal", "publish", "wait", "ended"} : x \in Labels \ {"capture"}
  BY DEF Labels
<1>5. CASE UNCHANGED Queue!vars
  <2>1. UNCHANGED <<installed, ready, stopping, shutdowns, queue, workEvent, pc, hand, recorded, own,
                    reported, forgotten>>
    BY <1>5 DEF Queue!vars, Queue!hook
  <2>2. Queue!Recorded' = Queue!Recorded /\ Queue!Capturing' = Queue!Capturing
    BY <2>1 DEF Queue!Recorded, Queue!Capturing
  <2> QED
    BY <1>1, <2>1, <2>2, TypesAreNext
       DEF Booked, FlagsTyped, OwnTyped, PcTyped, QueueTyped, CountsTyped, HandsTyped
<1>6. ASSUME NEW t \in Queue!Recorder, Queue!EnterHook(t) PROVE Queue!TypeOK' /\ Booked'
  <2>1. /\ pc[t] = "idle" /\ Queue!Recorded + Cardinality(Queue!Capturing) < MaxCalls
        /\ pc' = [pc EXCEPT ![t] = "capture"]
        /\ UNCHANGED <<installed, ready, stopping, shutdowns, queue, workEvent, hand, recorded, own,
                       reported, forgotten>>
    BY <1>6, QueueCardinality DEF Queue!EnterHook, Queue!hook
  <2>2. PcTyped' /\ Queue!Capturing' = Queue!Capturing \cup {t}
    BY <1>1, <1>2, <2>1, CapturingMoves DEF PcTyped, Labels
  <2>3. t \notin Queue!Capturing
    BY <2>1 DEF Queue!Capturing
  <2>4. Queue!Recorded' = Queue!Recorded
    BY <2>1 DEF Queue!Recorded
  <2> DEFINE a == Cardinality(Queue!Capturing)
             b == Cardinality(Queue!Capturing \cup {t})
             r == Queue!Recorded
  <2>5. b = a + 1 /\ a \in Nat /\ r \in Nat /\ MaxCalls \in Nat /\ r + a < MaxCalls
    BY <2>1, <2>3, CapturingIsFinite, RecordedIsNumber, Limits
  <2> HIDE DEF a, b, r
  <2>6. r + b <= MaxCalls
    BY <2>5
  <2>7. Booked'
    BY <2>2, <2>4, <2>6 DEF Booked, b, r
  <2> QED
    BY <1>1, <2>1, <2>2, <2>7, TypesAreNext
       DEF FlagsTyped, OwnTyped, QueueTyped, CountsTyped, HandsTyped
<1>7. ASSUME NEW t \in Queue!Recorder, Queue!LeaveHook(t) PROVE Queue!TypeOK' /\ Booked'
  <2>1. /\ pc' = [pc EXCEPT ![t] = Queue!AfterRecording(t)]
        /\ UNCHANGED <<installed, ready, stopping, shutdowns, queue, workEvent, hand, recorded, own,
                       reported, forgotten>>
    BY <1>7 DEF Queue!LeaveHook, Queue!hook
  <2>2. Booked' /\ PcTyped'
    BY <1>2, <1>3, <1>4, <2>1, BookedKept
  <2> QED
    BY <1>1, <2>1, <2>2, TypesAreNext
       DEF FlagsTyped, OwnTyped, QueueTyped, CountsTyped, HandsTyped
<1>8. ASSUME NEW t \in Queue!Recorder, NEW c \in Queue!Call, Queue!Enqueue(t, c)
      PROVE  Queue!TypeOK' /\ Booked'
  <2>1. /\ pc[t] = "capture" /\ recorded' = [recorded EXCEPT ![c[1]] = @ + 1]
        /\ own' = IF t \in Terminator THEN [own EXCEPT ![t] = Queue!Recorded + 1] ELSE own
        /\ \E x \in {"swap", "idle", "signal"} : pc' = [pc EXCEPT ![t] = x]
        /\ UNCHANGED <<installed, ready, stopping, shutdowns, workEvent, hand, reported>>
    BY <1>3, <1>8 DEF Queue!Enqueue, Queue!hook
  <2>2. PICK x \in {"swap", "idle", "signal"} : pc' = [pc EXCEPT ![t] = x]
    BY <2>1
  <2>3. c[1] \in Key
    BY DEF Queue!Call
  <2>4. /\ Queue!Recorded + 1 \in 1..MaxCalls /\ Queue!Recorded \in Nat
        /\ Queue!Recorded + 1 + Cardinality(Queue!Capturing \ {t}) <= MaxCalls
    BY <2>1, RoomForOneMore
  <2>5. QueueTyped' /\ forgotten' \in [Key -> Nat]
    BY <1>8, <2>4, QueueTypedStep
  <2>6. PcTyped' /\ Queue!Capturing' = Queue!Capturing \ {t}
    <3>1. x \in Labels /\ x # "capture"
      BY <1>4
    <3> QED
      BY <1>1, <1>2, <2>2, <3>1, CapturingMoves DEF PcTyped
  <2>7. Queue!Recorded' = Queue!Recorded + 1
    BY <2>1, <2>3, RecordedGrows
  <2>8. Booked'
    BY <2>4, <2>6, <2>7 DEF Booked
  <2>9. OwnTyped'
    <3>1. Queue!Recorded + 1 \in Nat
      BY <2>4
    <3> QED
      BY <1>1, <2>1, <3>1 DEF OwnTyped
  <2>10. CountsTyped'
    <3>1. recorded \in [Key -> Nat] /\ recorded[c[1]] + 1 \in Nat
      BY <1>1, <2>3 DEF CountsTyped
    <3>2. recorded' \in [Key -> Nat]
      BY <2>1, <3>1
    <3> QED
      BY <1>1, <2>1, <2>5, <3>2 DEF CountsTyped
  <2> QED
    BY <1>1, <2>1, <2>5, <2>6, <2>8, <2>9, <2>10, TypesAreNext DEF FlagsTyped, HandsTyped
<1>9. ASSUME NEW t \in Queue!Recorder, Queue!Signal(t) PROVE Queue!TypeOK' /\ Booked'
  <2>1. /\ pc' = [pc EXCEPT ![t] = Queue!AfterRecording(t)]
        /\ workEvent' \in {"null", "set"}
        /\ UNCHANGED <<installed, ready, stopping, shutdowns, queue, hand, recorded, own,
                       reported, forgotten>>
    BY <1>9 DEF Queue!Signal, Queue!hook
  <2>2. Booked' /\ PcTyped'
    BY <1>2, <1>3, <1>4, <2>1, BookedKept
  <2> QED
    BY <1>1, <2>1, <2>2, TypesAreNext
       DEF FlagsTyped, OwnTyped, QueueTyped, CountsTyped, HandsTyped
<1>10. ASSUME NEW f \in Queue!Flusher, Queue!Swap(f) PROVE Queue!TypeOK' /\ Booked'
  <2>1. /\ pc' = [pc EXCEPT ![f] = "publish"] /\ hand' = [hand EXCEPT ![f] = queue] /\ queue' = <<>>
        /\ UNCHANGED <<installed, ready, stopping, shutdowns, workEvent, recorded, own,
                       reported, forgotten>>
    BY <1>10 DEF Queue!Swap, Queue!hook
  <2>2. Booked' /\ PcTyped'
    BY <1>2, <1>4, <2>1, BookedKept
  <2>3. QueueTyped'
    <3>1. <<>> \in Seq(Events) /\ Len(<<>>) = 0
      OBVIOUS
    <3> QED
      BY <2>1, <3>1, Limits DEF QueueTyped
  <2>4. HandsTyped'
    BY <1>1, <2>1 DEF HandsTyped, QueueTyped
  <2> QED
    BY <1>1, <2>1, <2>2, <2>3, <2>4, TypesAreNext DEF FlagsTyped, OwnTyped, CountsTyped
<1>11. ASSUME NEW f \in Queue!Flusher, Queue!Publish(f) PROVE Queue!TypeOK' /\ Booked'
  <2>1. /\ hand[f] # <<>> /\ hand' = [hand EXCEPT ![f] = Tail(@)]
        /\ reported' = [reported EXCEPT ![Head(hand[f]).key] = @ + Head(hand[f]).count]
        /\ UNCHANGED <<installed, ready, stopping, shutdowns, queue, workEvent, pc, recorded, own,
                       forgotten>>
    BY <1>11 DEF Queue!Publish, Queue!Report, Queue!hook
  <2>2. hand[f] \in Seq(Events) /\ Tail(hand[f]) \in Seq(Events) /\ Head(hand[f]) \in Events
    BY <1>1, <2>1 DEF HandsTyped
  <2>3. Head(hand[f]).key \in Key /\ Head(hand[f]).count \in Nat
    BY <2>2, EventParts
  <2>4. HandsTyped'
    BY <1>1, <2>1, <2>2 DEF HandsTyped
  <2>5. CountsTyped'
    BY <1>1, <2>1, <2>3 DEF CountsTyped
  <2>6. Booked'
    BY <2>1 DEF Booked, Queue!Recorded, Queue!Capturing
  <2> QED
    BY <1>1, <2>1, <2>4, <2>5, <2>6, TypesAreNext
       DEF FlagsTyped, OwnTyped, PcTyped, QueueTyped
<1>12. ASSUME NEW f \in Queue!Flusher, Queue!FlushDone(f) PROVE Queue!TypeOK' /\ Booked'
  <2>1. /\ pc' = [pc EXCEPT ![f] = IF f = Loop THEN "wait" ELSE "ended"]
        /\ UNCHANGED <<installed, ready, stopping, shutdowns, queue, workEvent, hand, recorded, own,
                       reported, forgotten>>
    BY <1>12 DEF Queue!FlushDone, Queue!hook
  <2>2. Booked' /\ PcTyped'
    BY <1>2, <1>4, <2>1, BookedKept
  <2> QED
    BY <1>1, <2>1, <2>2, TypesAreNext
       DEF FlagsTyped, OwnTyped, QueueTyped, CountsTyped, HandsTyped
<1>13. CASE Queue!LoopStarts \/ Queue!LoopWakes
  <2>1. /\ pc' = [pc EXCEPT ![Loop] = "swap"] /\ workEvent' = "clear"
        /\ UNCHANGED <<installed, ready, stopping, shutdowns, queue, hand, recorded, own,
                       reported, forgotten>>
    BY <1>13 DEF Queue!LoopStarts, Queue!LoopWakes, Queue!hook
  <2>2. Booked' /\ PcTyped'
    BY <1>2, <1>4, <2>1, BookedKept
  <2> QED
    BY <1>1, <2>1, <2>2, TypesAreNext
       DEF FlagsTyped, OwnTyped, QueueTyped, CountsTyped, HandsTyped
<1>14. CASE Queue!Initialize \/ Queue!ShutdownRemovesHook
  <2>1. /\ FlagsTyped'
        /\ UNCHANGED <<queue, pc, hand, recorded, own, reported, forgotten>>
    <3>1. CASE Queue!Initialize
      BY <1>1, <3>1 DEF Queue!Initialize, FlagsTyped
    <3>2. CASE Queue!ShutdownRemovesHook
      <4>1. /\ installed' = FALSE /\ stopping' = TRUE /\ shutdowns' = shutdowns + 1
            /\ UNCHANGED <<ready, queue, workEvent, pc, hand, recorded, own, reported, forgotten>>
        BY <3>2 DEF Queue!ShutdownRemovesHook
      <4>2. shutdowns + 1 \in Nat
        BY <1>1 DEF FlagsTyped
      <4> QED
        BY <1>1, <4>1, <4>2, Zenon DEF FlagsTyped
    <3> QED
      BY <1>14, <3>1, <3>2
  <2>2. Booked'
    BY <2>1 DEF Booked, Queue!Recorded, Queue!Capturing
  <2> QED
    BY <1>1, <2>1, <2>2, TypesAreNext
       DEF OwnTyped, PcTyped, QueueTyped, CountsTyped, HandsTyped
<1>15. CASE Queue!ShutdownClears
  <2>1. /\ forgotten' = [k \in Key |-> forgotten[k] + Queue!CountOf(queue, k)]
        /\ queue' = <<>> /\ ready' = FALSE /\ stopping' = FALSE
        /\ UNCHANGED <<installed, shutdowns, workEvent, pc, hand, recorded, own, reported>>
    BY <1>15 DEF Queue!ShutdownClears
  <2>2. \A k \in Key : Queue!CountOf(queue, k) \in Nat
    BY <1>1, EventsCounted, CountNat DEF QueueTyped
  <2>3. CountsTyped'
    BY <1>1, <2>1, <2>2 DEF CountsTyped
  <2>4. QueueTyped'
    <3>1. <<>> \in Seq(Events) /\ Len(<<>>) = 0
      OBVIOUS
    <3> QED
      BY <2>1, <3>1, Limits DEF QueueTyped
  <2>5. Booked'
    BY <2>1 DEF Booked, Queue!Recorded, Queue!Capturing
  <2> QED
    BY <1>1, <2>1, <2>3, <2>4, <2>5, TypesAreNext
       DEF FlagsTyped, OwnTyped, PcTyped, HandsTyped
<1> QED
  BY <1>5, <1>6, <1>7, <1>8, <1>9, <1>10, <1>11, <1>12, <1>13, <1>14, <1>15, QueueSteps

-----------------------------------------------------------------------------
(* The newest events are pairwise different, and an own event is taken.     *)

Sparse(s) ==
  \A i, j \in DOMAIN s :
    i < j /\ s[i].key = s[j].key /\ s[i].key \notin Unmergeable => i <= Len(s) - ScanMax

Unlike(s, e) == e.key \notin Unmergeable =>
                  \A i \in DOMAIN s : s[i].key = e.key => ~(i > Len(s) - ScanMax)

Later(s, n) == \A i \in DOMAIN s : s[i].first > n

\* Appending an event unlike the newest keeps them pairwise different, and newer than n.
LEMMA AppendedEvent ==
  ASSUME NEW E, NEW s \in Seq(E), NEW e \in E, NEW n \in Nat, ScanMax \in Nat
  PROVE  /\ Sparse(s) /\ Unlike(s, e) => Sparse(Append(s, e))
         /\ Later(s, n) /\ e.first > n => Later(Append(s, e), n)
<1> DEFINE r == Append(s, e)
<1>1. /\ Len(s) \in Nat /\ Len(r) = Len(s) + 1 /\ DOMAIN s = 1..Len(s) /\ DOMAIN r = 1..(Len(s) + 1)
      /\ r[Len(s) + 1] = e /\ \A i \in 1..Len(s) : r[i] = s[i]
  OBVIOUS
<1> HIDE DEF r
<1>2. ASSUME Sparse(s), Unlike(s, e), NEW i \in DOMAIN r, NEW j \in DOMAIN r,
             i < j, r[i].key = r[j].key, r[i].key \notin Unmergeable
      PROVE  i <= Len(r) - ScanMax
  <2>1. i \in 1..Len(s) /\ r[i] = s[i]
    BY <1>1, <1>2
  <2>2. CASE j \in 1..Len(s)
    <3>1. i <= Len(s) - ScanMax
      BY <1>1, <1>2, <2>1, <2>2 DEF Sparse
    <3> QED
      BY <1>1, <2>1, <3>1
  <2>3. CASE j = Len(s) + 1
    <3>1. ~(i > Len(s) - ScanMax)
      BY <1>1, <1>2, <2>1, <2>3 DEF Unlike
    <3> QED
      BY <1>1, <2>1, <3>1
  <2> QED
    BY <1>1, <2>2, <2>3
<1>3. Later(s, n) /\ e.first > n => Later(r, n)
  BY <1>1 DEF Later
<1> QED
  BY <1>2, <1>3 DEF Sparse, r

\* So does appending one as the oldest is given up.
LEMMA ShiftedEvent ==
  ASSUME NEW E, NEW s \in Seq(E), s # <<>>, NEW e \in E, NEW n \in Nat, ScanMax \in Nat
  PROVE  /\ Sparse(s) /\ Unlike(s, e) => Sparse(Append(Tail(s), e))
         /\ Later(s, n) /\ e.first > n => Later(Append(Tail(s), e), n)
<1> DEFINE r == Append(Tail(s), e)
           m == Len(s)
<1>1. /\ m \in Nat /\ m >= 1 /\ Len(r) = m /\ DOMAIN s = 1..m /\ DOMAIN r = 1..m
      /\ r[m] = e /\ \A i \in 1..(m - 1) : r[i] = s[i + 1]
  OBVIOUS
<1> HIDE DEF r, m
<1>2. ASSUME Sparse(s), Unlike(s, e), NEW i \in DOMAIN r, NEW j \in DOMAIN r,
             i < j, r[i].key = r[j].key, r[i].key \notin Unmergeable
      PROVE  i <= Len(r) - ScanMax
  <2>1. i \in 1..(m - 1) /\ r[i] = s[i + 1] /\ i + 1 \in 1..m
    BY <1>1, <1>2
  <2>2. CASE j \in 1..(m - 1)
    <3>1. r[j] = s[j + 1] /\ j + 1 \in 1..m /\ i + 1 < j + 1
      BY <1>1, <1>2, <2>1, <2>2
    <3>2. i + 1 <= m - ScanMax
      BY <1>1, <1>2, <2>1, <3>1 DEF Sparse, m
    <3> QED
      BY <1>1, <2>1, <3>2
  <2>3. CASE j = m
    <3>1. ~(i + 1 > m - ScanMax)
      BY <1>1, <1>2, <2>1, <2>3 DEF Unlike, m
    <3> QED
      BY <1>1, <2>1, <3>1
  <2> QED
    BY <1>1, <2>2, <2>3
<1>3. Later(s, n) /\ e.first > n => Later(r, n)
  <2> SUFFICES ASSUME Later(s, n), e.first > n, NEW i \in 1..m PROVE r[i].first > n
    BY <1>1 DEF Later
  <2>1. CASE i = m
    BY <1>1, <2>1
  <2>2. CASE i \in 1..(m - 1)
    <3>1. i + 1 \in DOMAIN s /\ r[i] = s[i + 1]
      BY <1>1, <2>2
    <3> QED
      BY <3>1 DEF Later
  <2> QED
    BY <1>1, <2>1, <2>2
<1> QED
  BY <1>2, <1>3 DEF Sparse, r

\* So does putting one in another's place.
LEMMA ReplacedEvent ==
  ASSUME NEW E, NEW s \in Seq(E), NEW k \in DOMAIN s, NEW e \in E, NEW n \in Nat, ScanMax \in Nat
  PROVE  /\ Sparse(s) /\ Unlike(s, e) => Sparse([s EXCEPT ![k] = e])
         /\ Sparse(s) /\ s[k].key = e.key => Sparse([s EXCEPT ![k] = e])
         /\ Later(s, n) /\ e.first > n => Later([s EXCEPT ![k] = e], n)
<1> DEFINE r == [s EXCEPT ![k] = e]
           m == Len(s)
<1>1. /\ m \in Nat /\ Len(r) = m /\ DOMAIN s = 1..m /\ DOMAIN r = 1..m /\ k \in 1..m
      /\ r[k] = e /\ \A i \in 1..m : i # k => r[i] = s[i]
  OBVIOUS
<1> HIDE DEF r, m
<1>2. ASSUME Sparse(s), Unlike(s, e), NEW i \in DOMAIN r, NEW j \in DOMAIN r,
             i < j, r[i].key = r[j].key, r[i].key \notin Unmergeable
      PROVE  i <= Len(r) - ScanMax
  <2>1. CASE i = k
    <3>1. s[j].key = e.key /\ e.key \notin Unmergeable /\ j \in DOMAIN s
      BY <1>1, <1>2, <2>1
    <3>2. ~(j > m - ScanMax)
      BY <1>2, <3>1 DEF Unlike, m
    <3> QED
      BY <1>1, <1>2, <3>2
  <2>2. CASE j = k
    <3>1. s[i].key = e.key /\ e.key \notin Unmergeable /\ i \in DOMAIN s
      BY <1>1, <1>2, <2>2
    <3>2. ~(i > m - ScanMax)
      BY <1>2, <3>1 DEF Unlike, m
    <3> QED
      BY <1>1, <1>2, <3>2
  <2>3. CASE i # k /\ j # k
    <3>1. r[i] = s[i] /\ r[j] = s[j]
      BY <1>1, <2>3
    <3> QED
      BY <1>1, <1>2, <3>1 DEF Sparse, m
  <2> QED
    BY <2>1, <2>2, <2>3
<1>3. ASSUME Sparse(s), s[k].key = e.key PROVE Sparse(r)
  <2>1. \A i \in 1..m : r[i].key = s[i].key
    BY <1>1, <1>3
  <2> QED
    BY <1>1, <1>3, <2>1 DEF Sparse, m
<1>4. Later(s, n) /\ e.first > n => Later(r, n)
  BY <1>1 DEF Later
<1> QED
  BY <1>2, <1>3, <1>4 DEF Sparse, r

\* Whatever a call does to the queue, it stays sparse and as young as it was.
LEMMA EnqueueKeeps ==
  ASSUME Queue!TypeOK, NEW t, NEW c \in Queue!Call, Queue!Enqueue(t, c),
         Queue!Recorded + 1 \in 1..MaxCalls, NEW n \in Nat, n <= Queue!Recorded
  PROVE  /\ Sparse(queue) => Sparse(queue')
         /\ Later(queue, n) => Later(queue', n)
<1>1. queue \in Seq(Events) /\ ScanMax \in Nat
  BY Limits DEF Queue!TypeOK, Events
<1>2. ASSUME NEW i \in DOMAIN queue, Repeated(c[1], i)
      PROVE  (Sparse(queue) => Sparse(queue')) /\ (Later(queue, n) => Later(queue', n))
  <2> DEFINE e == [queue[i] EXCEPT !.count = @ + 1]
  <2>1. queue' = [queue EXCEPT ![i] = e] /\ e \in Events
    BY <1>1, <1>2, RepeatedTyped DEF Repeated
  <2>2. e.key = queue[i].key /\ e.first = queue[i].first
    <3>1. queue[i] \in Events
      BY <1>1
    <3> QED
      BY <3>1 DEF Events, Queue!EventRecord
  <2> HIDE DEF e
  <2>3. Later(queue, n) => e.first > n
    BY <2>2 DEF Later
  <2> QED
    BY <1>1, <2>1, <2>2, <2>3, ReplacedEvent
<1>3. CASE Saturated(c[1])
  BY <1>3 DEF Saturated
<1>4. ASSUME NEW e \in Events, OwnEvent(c[1], e), Alone(c[1]),
             Appended(e) \/ (\E i \in DOMAIN queue : Replaced(e, i)) \/ Shifted(e)
      PROVE  (Sparse(queue) => Sparse(queue')) /\ (Later(queue, n) => Later(queue', n))
  <2>1. Unlike(queue, e)
    BY <1>4 DEF OwnEvent, Alone, Unlike
  <2>2. e.first > n
    <3> DEFINE r == Queue!Recorded
    <3>1. e.first = r + 1 /\ n <= r /\ r + 1 \in 1..MaxCalls /\ r \in Nat
      BY <1>4, RecordedIsNumber DEF OwnEvent
    <3> HIDE DEF r
    <3> QED
      BY <3>1
  <2>3. CASE Appended(e)
    BY <1>1, <2>1, <2>2, <2>3, AppendedEvent DEF Appended
  <2>4. ASSUME NEW i \in DOMAIN queue, Replaced(e, i)
        PROVE  (Sparse(queue) => Sparse(queue')) /\ (Later(queue, n) => Later(queue', n))
    BY <1>1, <2>1, <2>2, <2>4, ReplacedEvent DEF Replaced
  <2>5. CASE Shifted(e)
    BY <1>1, <2>1, <2>2, <2>5, ShiftedEvent DEF Shifted
  <2> QED
    BY <1>4, <2>3, <2>4, <2>5
<1> QED
  BY <1>2, <1>3, <1>4, EnqueueCases

\* A terminator's own call is among those recorded; once it has taken the queue, only
\* younger events follow.
OwnTaken ==
  \A t \in Terminator :
    /\ own[t] <= Queue!Recorded
    /\ pc[t] \in {"publish", "ended"} => Later(queue, own[t])

\* Only who publishes has events in hand.
HandsFree == \A f \in Queue!Flusher : pc[f] # "publish" => hand[f] = <<>>

QueueOrder == Sparse(queue) /\ OwnTaken /\ HandsFree

\* An empty queue has no two equal events.
LEMMA NothingIsSparse ==
  ASSUME NEW n
  PROVE  Sparse(<<>>) /\ Later(<<>>, n)
BY DEF Sparse, Later

\* The queue begins empty.
LEMMA InitQueueOrder ==
  ASSUME Queue!Init
  PROVE  QueueOrder
<1>1. queue = <<>> /\ \A f \in Queue!Flusher : hand[f] = <<>>
  BY DEF Queue!Init
<1>2. \A t \in Terminator : own[t] = 0
  BY DEF Queue!Init
<1>3. Queue!Recorded \in Nat
  BY InitTypedQueue, RecordedIsNumber
<1> DEFINE r == Queue!Recorded
<1>4. 0 <= r
  BY <1>3
<1> HIDE DEF r
<1> QED
  BY <1>1, <1>2, <1>4, NothingIsSparse DEF QueueOrder, OwnTaken, HandsFree, r

\* Every step of the queue keeps its newest events different, and takes a process's own.
LEMMA NextQueueOrder ==
  ASSUME Queue!TypeOK, Booked, QueueOrder, [Queue!Next]_Queue!vars
  PROVE  QueueOrder'
<1>1. OwnTyped /\ PcTyped /\ QueueTyped /\ HandsTyped
  BY TypesAre
<1>2. /\ \A t \in Queue!Recorder : t \in Queue!Thread
      /\ \A f \in Queue!Flusher : f \in Queue!Thread
      /\ \A t \in Terminator : t \in Queue!Thread /\ t \in Queue!Flusher /\ t # Loop
      /\ Loop \in Queue!Thread
  BY ThreadsDistinct DEF Queue!Thread, Queue!Flusher, Queue!Recorder
<1>3. Sparse(queue) /\ OwnTaken /\ HandsFree
  BY DEF QueueOrder
<1>4. \A t \in Queue!Recorder : Queue!AfterRecording(t) \in {"swap", "idle"}
  BY DEF Queue!AfterRecording
<1>5. pc \in [Queue!Thread -> Labels]
  BY <1>1 DEF PcTyped
<1>6. ASSUME NEW t \in Queue!Thread, NEW x \in {"swap", "idle", "signal", "capture"},
             pc[t] # "publish", pc' = [pc EXCEPT ![t] = x], UNCHANGED <<queue, hand, own, recorded>>
      PROVE  QueueOrder'
  <2>1. \A u \in Queue!Thread : pc'[u] = IF u = t THEN x ELSE pc[u]
    BY <1>5, <1>6
  <2>2. HandsFree'
    BY <1>2, <1>3, <1>6, <2>1 DEF HandsFree
  <2>3. OwnTaken'
    <3>1. Queue!Recorded' = Queue!Recorded
      BY <1>6 DEF Queue!Recorded
    <3> QED
      BY <1>2, <1>3, <1>6, <2>1, <3>1, Zenon DEF OwnTaken
  <2> QED
    BY <1>3, <1>6, <2>2, <2>3 DEF QueueOrder
<1>7. ASSUME UNCHANGED <<pc, hand, own, recorded>>, queue' = queue \/ queue' = <<>>
      PROVE  QueueOrder'
  <2>1. Queue!Recorded' = Queue!Recorded
    BY <1>7 DEF Queue!Recorded
  <2> QED
    BY <1>3, <1>7, <2>1, NothingIsSparse, Zenon DEF QueueOrder, OwnTaken, HandsFree
<1>8. CASE UNCHANGED Queue!vars
  BY <1>7, <1>8 DEF Queue!vars, Queue!hook
<1>9. ASSUME NEW t \in Queue!Recorder, Queue!EnterHook(t) \/ Queue!LeaveHook(t) \/ Queue!Signal(t)
      PROVE  QueueOrder'
  <2>1. /\ pc[t] # "publish"
        /\ \E x \in {"swap", "idle", "signal", "capture"} : pc' = [pc EXCEPT ![t] = x]
        /\ UNCHANGED <<queue, hand, own, recorded>>
    BY <1>4, <1>9 DEF Queue!EnterHook, Queue!LeaveHook, Queue!Signal, Queue!hook
  <2> QED
    BY <1>2, <1>6, <2>1
<1>10. ASSUME NEW t \in Queue!Recorder, NEW c \in Queue!Call, Queue!Enqueue(t, c)
       PROVE  QueueOrder'
  <2>1. /\ pc[t] = "capture" /\ recorded' = [recorded EXCEPT ![c[1]] = @ + 1]
        /\ own' = IF t \in Terminator THEN [own EXCEPT ![t] = Queue!Recorded + 1] ELSE own
        /\ \E x \in {"swap", "idle", "signal"} : pc' = [pc EXCEPT ![t] = x]
        /\ hand' = hand
    BY <1>4, <1>10 DEF Queue!Enqueue, Queue!hook
  <2>2. PICK x \in {"swap", "idle", "signal"} : pc' = [pc EXCEPT ![t] = x]
    BY <2>1
  <2>3. Queue!Recorded + 1 \in 1..MaxCalls /\ Queue!Recorded \in Nat
    BY <2>1, RoomForOneMore
  <2>4. c[1] \in Key
    BY DEF Queue!Call
  <2>5. Queue!Recorded' = Queue!Recorded + 1
    BY <2>1, <2>4, RecordedGrows
  <2>6. \A u \in Queue!Thread : pc'[u] = IF u = t THEN x ELSE pc[u]
    BY <1>5, <2>2
  <2>7. HandsFree'
    BY <1>2, <1>3, <2>1, <2>6 DEF HandsFree
  <2>8. Sparse(queue')
    <3>1. 0 \in Nat /\ 0 <= Queue!Recorded
      BY <2>3
    <3> QED
      BY <1>3, <1>10, <2>3, <3>1, EnqueueKeeps
  <2>9. ASSUME NEW u \in Terminator
        PROVE  /\ own'[u] <= Queue!Recorded'
               /\ pc'[u] \in {"publish", "ended"} => Later(queue', own'[u])
    <3>1. own[u] \in Nat /\ own[u] <= Queue!Recorded
      BY <1>1, <1>3 DEF OwnTyped, OwnTaken
    <3>2. CASE u = t
      <4>1. own'[u] = Queue!Recorded + 1
        BY <1>1, <2>1, <3>2 DEF OwnTyped
      <4>2. pc'[u] \notin {"publish", "ended"}
        BY <1>2, <2>6, <3>2
      <4> QED
        BY <2>3, <2>5, <4>1, <4>2
    <3>3. CASE u # t
      <4>1. own'[u] = own[u] /\ pc'[u] = pc[u]
        BY <1>1, <1>2, <2>1, <2>6, <3>3 DEF OwnTyped
      <4>2. pc[u] \in {"publish", "ended"} => Later(queue, own[u])
        BY <1>3 DEF OwnTaken
      <4>3. pc[u] \in {"publish", "ended"} => Later(queue', own[u])
        BY <1>10, <2>3, <3>1, <4>2, EnqueueKeeps
      <4>4. own[u] <= Queue!Recorded + 1
        BY <2>3, <3>1
      <4> QED
        BY <2>5, <4>1, <4>3, <4>4
    <3> QED
      BY <3>2, <3>3
  <2> QED
    BY <2>7, <2>8, <2>9 DEF QueueOrder, OwnTaken
<1>11. ASSUME NEW f \in Queue!Flusher, Queue!Swap(f) PROVE QueueOrder'
  <2>1. /\ pc' = [pc EXCEPT ![f] = "publish"] /\ hand' = [hand EXCEPT ![f] = queue] /\ queue' = <<>>
        /\ UNCHANGED <<recorded, own>>
    BY <1>11 DEF Queue!Swap
  <2>2. \A u \in Queue!Thread : pc'[u] = IF u = f THEN "publish" ELSE pc[u]
    BY <1>5, <2>1
  <2>3. \A u \in Queue!Flusher : u # f => hand'[u] = hand[u]
    BY <1>1, <2>1 DEF HandsTyped
  <2>4. Queue!Recorded' = Queue!Recorded
    BY <2>1 DEF Queue!Recorded
  <2>5. HandsFree'
    BY <1>2, <1>3, <2>2, <2>3 DEF HandsFree
  <2>6. OwnTaken'
    BY <1>3, <2>1, <2>4, NothingIsSparse, Zenon DEF OwnTaken
  <2> QED
    BY <2>1, <2>5, <2>6, NothingIsSparse DEF QueueOrder
<1>12. ASSUME NEW f \in Queue!Flusher, Queue!Publish(f) PROVE QueueOrder'
  <2>1. /\ pc[f] = "publish" /\ hand' = [hand EXCEPT ![f] = Tail(@)]
        /\ UNCHANGED <<queue, pc, recorded, own>>
    BY <1>12 DEF Queue!Publish, Queue!Report
  <2>2. \A u \in Queue!Flusher : u # f => hand'[u] = hand[u]
    BY <1>1, <2>1 DEF HandsTyped
  <2>3. Queue!Recorded' = Queue!Recorded
    BY <2>1 DEF Queue!Recorded
  <2>4. HandsFree'
    BY <1>2, <1>3, <2>1, <2>2 DEF HandsFree
  <2>5. OwnTaken'
    BY <1>3, <2>1, <2>3, Zenon DEF OwnTaken
  <2> QED
    BY <1>3, <2>1, <2>4, <2>5 DEF QueueOrder
<1>13. ASSUME NEW f \in Queue!Flusher, Queue!FlushDone(f) PROVE QueueOrder'
  <2>1. /\ pc[f] = "publish" /\ hand[f] = <<>>
        /\ pc' = [pc EXCEPT ![f] = IF f = Loop THEN "wait" ELSE "ended"]
        /\ UNCHANGED <<queue, hand, recorded, own>>
    BY <1>13 DEF Queue!FlushDone
  <2>2. \A u \in Queue!Thread : pc'[u] = IF u = f THEN (IF f = Loop THEN "wait" ELSE "ended") ELSE pc[u]
    BY <1>5, <2>1
  <2>3. Queue!Recorded' = Queue!Recorded
    BY <2>1 DEF Queue!Recorded
  <2>4. HandsFree'
    BY <1>2, <1>3, <2>1, <2>2 DEF HandsFree
  <2>5. \A u \in Terminator : pc'[u] \in {"publish", "ended"} => pc[u] \in {"publish", "ended"}
    BY <1>2, <2>1, <2>2
  <2>6. OwnTaken'
    BY <1>3, <2>1, <2>3, <2>5, Zenon DEF OwnTaken
  <2> QED
    BY <1>3, <2>1, <2>4, <2>6 DEF QueueOrder
<1>14. CASE Queue!LoopStarts \/ Queue!LoopWakes
  <2>1. /\ pc[Loop] # "publish" /\ pc' = [pc EXCEPT ![Loop] = "swap"]
        /\ UNCHANGED <<queue, hand, own, recorded>>
    BY <1>14 DEF Queue!LoopStarts, Queue!LoopWakes
  <2> QED
    BY <1>2, <1>6, <2>1
<1>15. CASE Queue!Initialize \/ Queue!ShutdownRemovesHook \/ Queue!ShutdownClears
  BY <1>7, <1>15 DEF Queue!Initialize, Queue!ShutdownRemovesHook, Queue!ShutdownClears
<1> QED
  BY <1>8, <1>9, <1>10, <1>11, <1>12, <1>13, <1>14, <1>15, QueueSteps

-----------------------------------------------------------------------------
(* Every call is counted once.                                             *)

One(k, key) == IF k = key THEN 1 ELSE 0

\* The weight of an event for a key is its count or zero.
LEMMA WeightOf ==
  ASSUME NEW e \in Events, NEW k
  PROVE  Weight(e, k) \in Nat /\ Weight(e, k) = IF e.key = k THEN e.count ELSE 0
BY EventParts DEF Weight

\* Leaving the queue for the forgotten changes nothing of what an event counts.
LEMMA ForgottenMore ==
  ASSUME NEW f \in [Key -> Nat], NEW e \in Events, NEW k \in Key
  PROVE  [f EXCEPT ![e.key] = @ + e.count][k] = f[k] + Weight(e, k)
<1>1. e.key \in Key /\ e.count \in Nat /\ f[k] \in Nat
  BY EventParts
<1> QED
  BY <1>1 DEF Weight

\* Recording a call adds one to what is queued or given up, whatever happens to the event.
LEMMA EnqueueCounts ==
  ASSUME Queue!TypeOK, NEW t, NEW c \in Queue!Call, Queue!Enqueue(t, c),
         Queue!Recorded + 1 \in 1..MaxCalls, NEW k \in Key
  PROVE  Queue!CountOf(queue', k) + forgotten'[k]
           = Queue!CountOf(queue, k) + forgotten[k] + One(k, c[1])
<1>1. queue \in Seq(Events) /\ forgotten \in [Key -> Nat] /\ c[1] \in Key /\ forgotten[k] \in Nat
  BY DEF Queue!TypeOK, Events, Queue!Call
<1>2. Queue!CountOf(queue, k) \in Nat
  BY <1>1, EventsCounted, CountNat
<1> DEFINE a == Queue!CountOf(queue, k)
           b == Queue!CountOf(queue', k)
           f == forgotten[k]
           g == forgotten'[k]
<1>3. ASSUME NEW i \in DOMAIN queue, Repeated(c[1], i) PROVE b + g = a + f + One(k, c[1])
  <2> DEFINE e == [queue[i] EXCEPT !.count = @ + 1]
  <2>1. queue' = [queue EXCEPT ![i] = e] /\ e \in Events /\ queue[i] \in Events /\ i \in 1..Len(queue)
    BY <1>1, <1>3, RepeatedTyped DEF Repeated
  <2>2. e.key = queue[i].key /\ e.count = queue[i].count + 1 /\ queue[i].key = c[1]
    BY <1>3, <2>1 DEF Events, Queue!EventRecord, Repeated
  <2> HIDE DEF e
  <2>3. Balanced(a, b, Weight(queue[i], k), Weight(e, k))
    BY <1>1, <2>1, EventsCounted, CountReplaced
  <2>4. b \in Nat
    BY <2>3 DEF Balanced
  <2>5. Weight(e, k) = Weight(queue[i], k) + One(k, c[1]) /\ Weight(queue[i], k) \in Nat
    BY <2>1, <2>2, EventParts DEF Weight, One
  <2>6. g = f
    BY <1>3 DEF Repeated
  <2> HIDE DEF a, b, f, g
  <2>7. a \in Nat /\ f \in Nat /\ One(k, c[1]) \in Nat
    BY <1>1, <1>2 DEF a, f, One
  <2> DEFINE w == Weight(queue[i], k)
             v == Weight(e, k)
             o == One(k, c[1])
  <2>8. b + w = a + v /\ v = w + o /\ w \in Nat /\ o \in Nat
    BY <2>3, <2>5, <2>7 DEF Balanced
  <2> HIDE DEF w, v, o
  <2>9. b + g = a + f + o
    BY <2>4, <2>6, <2>7, <2>8
  <2> QED
    BY <2>9 DEF o
<1>4. CASE Saturated(c[1])
  <2>1. b = a
    BY <1>4 DEF Saturated
  <2>2. g = f + One(k, c[1])
    BY <1>1, <1>4 DEF Saturated, One
  <2> HIDE DEF a, b, f, g
  <2>3. a \in Nat /\ f \in Nat /\ One(k, c[1]) \in Nat
    BY <1>1, <1>2 DEF a, f, One
  <2> QED
    BY <2>1, <2>2, <2>3 DEF a, b, f, g
<1>5. ASSUME NEW e \in Events, OwnEvent(c[1], e),
             Appended(e) \/ (\E i \in DOMAIN queue : Replaced(e, i)) \/ Shifted(e)
      PROVE  b + g = a + f + One(k, c[1])
  <2>1. Weight(e, k) = One(k, c[1]) /\ One(k, c[1]) \in Nat
    BY <1>5 DEF OwnEvent, Weight, One
  <2> DEFINE v == Weight(e, k)
  <2>2. CASE Appended(e)
    <3>1. b = a + v /\ g = f
      BY <1>1, <2>2, EventsCounted, CountAppended DEF Appended
    <3> HIDE DEF a, b, f, g, v
    <3>2. a \in Nat /\ f \in Nat /\ v \in Nat /\ v = One(k, c[1])
      BY <1>1, <1>2, <2>1 DEF a, f, v
    <3> QED
      BY <3>1, <3>2
  <2>3. ASSUME NEW i \in DOMAIN queue, Replaced(e, i) PROVE b + g = a + f + One(k, c[1])
    <3>1. queue' = [queue EXCEPT ![i] = e] /\ queue[i] \in Events /\ i \in 1..Len(queue)
      BY <1>1, <2>3 DEF Replaced
    <3> DEFINE w == Weight(queue[i], k)
    <3>2. Balanced(a, b, w, v)
      BY <1>1, <3>1, EventsCounted, CountReplaced
    <3>3. g = f + w
      BY <1>1, <2>3, <3>1, ForgottenMore DEF Replaced
    <3> HIDE DEF a, b, f, g, v, w
    <3>4. f \in Nat /\ v = One(k, c[1])
      BY <1>1, <2>1 DEF f, v
    <3> QED
      BY <3>2, <3>3, <3>4 DEF Balanced
  <2>4. CASE Shifted(e)
    <3>1. queue' = Append(Tail(queue), e) /\ queue # <<>>
      BY <2>4 DEF Shifted
    <3>2. Tail(queue) \in Seq(Events) /\ Head(queue) \in Events
      BY <1>1, <3>1
    <3> DEFINE w == Weight(Head(queue), k)
               d == Queue!CountOf(Tail(queue), k)
    <3>3. a = w + d /\ d \in Nat
      BY <1>1, <3>1, <3>2, EventsCounted, CountOfTail, CountNat
    <3>4. b = d + v
      BY <3>1, <3>2, EventsCounted, CountAppended
    <3>5. g = f + w
      BY <1>1, <2>4, <3>2, ForgottenMore DEF Shifted
    <3>6. w \in Nat
      BY <3>2, WeightOf
    <3> HIDE DEF a, b, f, g, v, w, d
    <3>7. f \in Nat /\ v \in Nat /\ v = One(k, c[1])
      BY <1>1, <2>1 DEF f, v
    <3> QED
      BY <3>3, <3>4, <3>5, <3>6, <3>7
  <2> QED
    BY <1>5, <2>2, <2>3, <2>4
<1> QED
  BY <1>3, <1>4, <1>5, EnqueueCases

\* What the flushers hold changes by what one of them takes or publishes.
LEMMA HandsChange ==
  ASSUME hand \in [Queue!Flusher -> Seq(Events)], NEW f \in Queue!Flusher, NEW s \in Seq(Events),
         hand' = [hand EXCEPT ![f] = s], NEW k \in Key
  PROVE  Balanced(Queue!InHands(k), Queue!InHands(k)', Queue!CountOf(hand[f], k), Queue!CountOf(s, k))
<1> DEFINE g == [u \in Queue!Flusher |-> Queue!CountOf(hand[u], k)]
           h == [u \in Queue!Flusher |-> Queue!CountOf(hand'[u], k)]
<1>1. hand' \in [Queue!Flusher -> Seq(Events)] /\ hand'[f] = s
      /\ \A u \in Queue!Flusher : u # f => hand'[u] = hand[u]
  OBVIOUS
<1>2. \A u \in Queue!Flusher : Queue!CountOf(hand[u], k) \in Nat /\ Queue!CountOf(hand'[u], k) \in Nat
  BY <1>1, EventsCounted, CountNat
<1>3. g \in [Queue!Flusher -> Nat] /\ h \in [Queue!Flusher -> Nat]
      /\ g[f] = Queue!CountOf(hand[f], k) /\ h[f] = Queue!CountOf(s, k)
  BY <1>1, <1>2
<1>4. SameBut(g, h, Queue!Flusher, f)
  BY <1>1 DEF SameBut
<1>5. Queue!InHands(k) = Queue!SumFunction(g) /\ Queue!InHands(k)' = Queue!SumFunction(h)
  BY DEF Queue!InHands
<1> HIDE DEF g, h
<1>6. Balanced(Queue!SumFunction(g), Queue!SumFunction(h), g[f], h[f])
  BY <1>3, <1>4, ThreadsKnown, TotalChanges
<1> QED
  BY <1>3, <1>5, <1>6

\* What the flushers hold is a number of calls.
LEMMA InHandsIsNumber ==
  ASSUME hand \in [Queue!Flusher -> Seq(Events)], NEW k
  PROVE  Queue!InHands(k) \in Nat
<1> DEFINE g == [u \in Queue!Flusher |-> Queue!CountOf(hand[u], k)]
<1>1. g \in [Queue!Flusher -> Nat]
  BY EventsCounted, CountNat
<1> HIDE DEF g
<1>2. Queue!SumFunction(g) \in Nat
  BY <1>1, ThreadsKnown, TotalIsNumber
<1> QED
  BY <1>2 DEF Queue!InHands, g

Counting == Queue!EveryCallCountedOnce

\* Nothing is recorded and nothing is anywhere.
LEMMA InitCounting ==
  ASSUME Queue!Init
  PROVE  Counting
<1> SUFFICES ASSUME NEW k \in Key PROVE Queue!Accounted(k) = recorded[k]
  BY DEF Counting, Queue!EveryCallCountedOnce
<1>1. queue = <<>> /\ recorded[k] = 0 /\ reported[k] = 0 /\ forgotten[k] = 0
      /\ \A f \in Queue!Flusher : hand[f] = <<>>
  BY DEF Queue!Init
<1>2. Queue!InHands(k) = 0
  <2> DEFINE g == [u \in Queue!Flusher |-> Queue!CountOf(hand[u], k)]
  <2>1. g \in [Queue!Flusher -> Nat] /\ \A u \in Queue!Flusher : g[u] = 0
    BY <1>1, CountOfNothing
  <2> HIDE DEF g
  <2>2. Queue!SumFunction(g) = 0
    BY <2>1, ThreadsKnown, TotalOfNothing
  <2> QED
    BY <2>2 DEF Queue!InHands, g
<1>3. Queue!CountOf(queue, k) = 0
  BY <1>1, CountOfNothing
<1> QED
  BY <1>1, <1>2, <1>3 DEF Queue!Accounted

\* Every step of the queue moves calls without losing or doubling one.
LEMMA NextCounting ==
  ASSUME Queue!TypeOK, Booked, HandsFree, Counting, [Queue!Next]_Queue!vars
  PROVE  Counting'
<1>1. OwnTyped /\ PcTyped /\ QueueTyped /\ HandsTyped /\ CountsTyped
  BY TypesAre
<1>2. queue \in Seq(Events) /\ hand \in [Queue!Flusher -> Seq(Events)]
  BY <1>1 DEF QueueTyped, HandsTyped
<1> SUFFICES ASSUME NEW k \in Key PROVE Queue!Accounted(k)' = recorded'[k]
  BY DEF Counting, Queue!EveryCallCountedOnce
<1> DEFINE a == Queue!CountOf(queue, k)
           h == Queue!InHands(k)
           r == reported[k]
           f == forgotten[k]
           n == recorded[k]
<1>3. a + h + r + f = n
  BY DEF Counting, Queue!EveryCallCountedOnce, Queue!Accounted
<1>4. a \in Nat /\ h \in Nat /\ r \in Nat /\ f \in Nat /\ n \in Nat
  BY <1>1, <1>2, EventsCounted, CountNat, InHandsIsNumber DEF CountsTyped
<1>5. Queue!Accounted(k)' = Queue!CountOf(queue', k) + Queue!InHands(k)' + reported'[k] + forgotten'[k]
  BY DEF Queue!Accounted
<1>6. hand' = hand => Queue!InHands(k)' = h
  BY DEF Queue!InHands
<1>7. ASSUME UNCHANGED <<queue, hand, recorded, reported, forgotten>>
      PROVE  Queue!Accounted(k)' = recorded'[k]
  BY <1>3, <1>5, <1>6, <1>7
<1>8. CASE UNCHANGED Queue!vars
  BY <1>7, <1>8 DEF Queue!vars, Queue!hook
<1>9. ASSUME NEW t \in Queue!Recorder, Queue!EnterHook(t) \/ Queue!LeaveHook(t) \/ Queue!Signal(t)
      PROVE  Queue!Accounted(k)' = recorded'[k]
  BY <1>7, <1>9 DEF Queue!EnterHook, Queue!LeaveHook, Queue!Signal
<1>10. ASSUME NEW t \in Queue!Recorder, NEW c \in Queue!Call, Queue!Enqueue(t, c)
       PROVE  Queue!Accounted(k)' = recorded'[k]
  <2>1. pc[t] = "capture" /\ recorded' = [recorded EXCEPT ![c[1]] = @ + 1] /\ hand' = hand
        /\ reported' = reported
    BY <1>10 DEF Queue!Enqueue
  <2>2. Queue!Recorded + 1 \in 1..MaxCalls
    BY <2>1, RoomForOneMore
  <2>3. c[1] \in Key
    BY DEF Queue!Call
  <2> DEFINE b == Queue!CountOf(queue', k)
             g == forgotten'[k]
             o == One(k, c[1])
  <2>4. b + g = a + f + o
    BY <1>10, <2>2, EnqueueCounts
  <2>5. b \in Nat /\ g \in Nat
    <3>1. queue' \in Seq(Events) /\ forgotten' \in [Key -> Nat]
      BY <1>10, <2>2, QueueTypedStep DEF QueueTyped
    <3> QED
      BY <3>1, EventsCounted, CountNat
  <2>6. recorded'[k] = n + o /\ o \in Nat
    BY <1>1, <2>1, <2>3 DEF CountsTyped, One
  <2>7. Queue!InHands(k)' = h /\ reported'[k] = r
    BY <1>6, <2>1
  <2> HIDE DEF a, h, r, f, n, b, g, o
  <2>8. b + h + r + g = n + o
    BY <1>3, <1>4, <2>4, <2>5, <2>6
  <2> QED
    BY <1>5, <2>6, <2>7, <2>8 DEF b, g
<1>11. ASSUME NEW u \in Queue!Flusher, Queue!Swap(u) PROVE Queue!Accounted(k)' = recorded'[k]
  <2>1. /\ pc[u] = "swap" /\ hand' = [hand EXCEPT ![u] = queue] /\ queue' = <<>>
        /\ UNCHANGED <<recorded, reported, forgotten>>
    BY <1>11 DEF Queue!Swap
  <2>2. Queue!CountOf(hand[u], k) = 0 /\ Queue!CountOf(queue', k) = 0
    BY <2>1, CountOfNothing DEF HandsFree
  <2>3. Balanced(h, Queue!InHands(k)', Queue!CountOf(hand[u], k), a)
    BY <1>2, <2>1, HandsChange
  <2> HIDE DEF a, h, r, f, n
  <2>4. Queue!InHands(k)' = h + a
    BY <1>4, <2>2, <2>3 DEF Balanced
  <2>5. reported'[k] = r /\ forgotten'[k] = f /\ recorded'[k] = n
    BY <2>1 DEF r, f, n
  <2> QED
    BY <1>3, <1>4, <1>5, <2>2, <2>4, <2>5
<1>12. ASSUME NEW u \in Queue!Flusher, Queue!Publish(u) PROVE Queue!Accounted(k)' = recorded'[k]
  <2>1. /\ hand[u] # <<>> /\ hand' = [hand EXCEPT ![u] = Tail(@)]
        /\ reported' = [reported EXCEPT ![Head(hand[u]).key] = @ + Head(hand[u]).count]
        /\ UNCHANGED <<queue, recorded, forgotten>>
    BY <1>12 DEF Queue!Publish, Queue!Report
  <2>2. hand[u] \in Seq(Events) /\ Tail(hand[u]) \in Seq(Events) /\ Head(hand[u]) \in Events
    BY <1>2, <2>1
  <2> DEFINE d == Queue!CountOf(Tail(hand[u]), k)
             e == Queue!CountOf(hand[u], k)
             w == Weight(Head(hand[u]), k)
  <2>3. Balanced(h, Queue!InHands(k)', e, d)
    BY <1>2, <2>1, <2>2, HandsChange
  <2>4. e = w + d
    BY <2>1, <2>2, EventsCounted, CountOfTail
  <2>5. reported'[k] = r + w /\ w \in Nat
    BY <1>1, <2>1, <2>2, ForgottenMore, WeightOf DEF CountsTyped
  <2>6. forgotten'[k] = f /\ recorded'[k] = n /\ Queue!CountOf(queue', k) = a
    BY <2>1
  <2> DEFINE m == Queue!InHands(k)'
  <2> HIDE DEF a, h, r, f, n, d, e, w, m
  <2>7. h = m + w /\ m \in Nat
    BY <1>4, <2>3, <2>4, <2>5 DEF Balanced, m
  <2>8. a + m + (r + w) + f = n
    BY <1>3, <1>4, <2>5, <2>7
  <2> QED
    BY <1>5, <2>5, <2>6, <2>8 DEF m
<1>13. ASSUME NEW u \in Queue!Flusher, Queue!FlushDone(u) PROVE Queue!Accounted(k)' = recorded'[k]
  BY <1>7, <1>13 DEF Queue!FlushDone
<1>14. CASE Queue!LoopStarts \/ Queue!LoopWakes \/ Queue!Initialize \/ Queue!ShutdownRemovesHook
  BY <1>7, <1>14 DEF Queue!LoopStarts, Queue!LoopWakes, Queue!Initialize,
                     Queue!ShutdownRemovesHook
<1>15. CASE Queue!ShutdownClears
  <2>1. /\ forgotten' = [x \in Key |-> forgotten[x] + Queue!CountOf(queue, x)]
        /\ queue' = <<>> /\ UNCHANGED <<hand, recorded, reported>>
    BY <1>15 DEF Queue!ShutdownClears
  <2>2. Queue!CountOf(queue', k) = 0 /\ forgotten'[k] = f + a /\ reported'[k] = r /\ recorded'[k] = n
    BY <2>1, CountOfNothing
  <2>3. Queue!InHands(k)' = h
    BY <1>6, <2>1
  <2> HIDE DEF a, h, r, f, n
  <2> QED
    BY <1>3, <1>4, <1>5, <2>2, <2>3
<1> QED
  BY <1>8, <1>9, <1>10, <1>11, <1>12, <1>13, <1>14, <1>15, QueueSteps

-----------------------------------------------------------------------------
(* The Winsock functions: frames of wrappers.                              *)

Ats == {"enter", "raise", "report", "lift", "restore", "through", "call", "inside", "crashed",
        "back", "after", "leave"}
Frames == [at : Ats, io : Seq(Nat), up : BOOLEAN, via : {"none", "export", "gate"}, lifted : BOOLEAN,
           got : Nat]

\* What the wrapper of any Winsock function can be.
LEMMA WrapperKnown ==
  ASSUME fn \in Exercised
  PROVE  /\ Winsock!W.when \in {"before", "after"}
         /\ Winsock!W.holds \in BOOLEAN /\ (Winsock!W.holds => Winsock!W.when = "before")
<1>1. fn \in DOMAIN Winsock!HookEntries
  BY FunctionsKnown
<1>2. /\ Winsock!Wrapper("before").when = "before" /\ Winsock!Wrapper("before").holds = FALSE
      /\ Winsock!Wrapper("after").when = "after" /\ Winsock!Wrapper("after").holds = FALSE
      /\ Winsock!Vectored(Winsock!Wrapper("before")).when = "before"
      /\ Winsock!Vectored(Winsock!Wrapper("before")).holds = FALSE
      /\ Winsock!Vectored(Winsock!Wrapper("after")).when = "after"
      /\ Winsock!Vectored(Winsock!Wrapper("after")).holds = FALSE
      /\ Winsock!Holding(Winsock!Wrapper("before")).when = "before"
      /\ Winsock!Holding(Winsock!Wrapper("before")).holds = TRUE
  BY DEF Winsock!Wrapper, Winsock!Vectored, Winsock!Holding
<1>3. Winsock!W \in {Winsock!Wrapper("before"), Winsock!Wrapper("after"),
                     Winsock!Vectored(Winsock!Wrapper("before")),
                     Winsock!Vectored(Winsock!Wrapper("after")),
                     Winsock!Holding(Winsock!Wrapper("before"))}
  BY <1>1 DEF Winsock!W, Winsock!HookEntries, Winsock!WsasendHook, Winsock!WsarecvHook,
              Winsock!SendHook, Winsock!RecvHook, Winsock!ConnectHook,
              Winsock!WsaConnectHook, Winsock!GetAddrInfoWHook, Winsock!GetAddrInfoAHook,
              Winsock!DnsQueryWHook, Winsock!DnsQueryAHook
<1> QED
  BY <1>2, <1>3

\* A sequence with another last element.
LEMMA TopChanged ==
  ASSUME NEW F, NEW s \in Seq(F), s # <<>>, NEW f \in F
  PROVE  LET r == [s EXCEPT ![Len(s)] = f] IN
         /\ r \in Seq(F) /\ Len(r) = Len(s) /\ DOMAIN r = DOMAIN s /\ r # <<>>
         /\ Len(s) \in DOMAIN s /\ s[Len(s)] \in F
         /\ r[Len(s)] = f /\ \A i \in DOMAIN s : i # Len(s) => r[i] = s[i]
<1>1. Len(s) \in 1..Len(s) /\ DOMAIN s = 1..Len(s) /\ Len(s) \in Nat
  OBVIOUS
<1> QED
  BY <1>1

\* A sequence with one element more.
LEMMA FramePushed ==
  ASSUME NEW F, NEW s \in Seq(F), NEW f \in F
  PROVE  LET r == Append(s, f) IN
         /\ r \in Seq(F) /\ Len(r) = Len(s) + 1 /\ r # <<>> /\ Len(s) \in Nat
         /\ DOMAIN r = DOMAIN s \cup {Len(r)} /\ r[Len(r)] = f /\ \A i \in DOMAIN s : r[i] = s[i]
<1>1. Len(s) \in Nat /\ DOMAIN s = 1..Len(s) /\ 1..(Len(s) + 1) = 1..Len(s) \cup {Len(s) + 1}
  OBVIOUS
<1> QED
  BY <1>1

\* A sequence without its last element.
LEMMA FramePopped ==
  ASSUME NEW F, NEW s \in Seq(F), s # <<>>
  PROVE  LET r == SubSeq(s, 1, Len(s) - 1) IN
         /\ r \in Seq(F) /\ Len(r) = Len(s) - 1 /\ Len(s) \in Nat /\ Len(s) >= 1
         /\ DOMAIN r = DOMAIN s \ {Len(s)} /\ \A i \in DOMAIN r : r[i] = s[i]
<1>1. Len(s) \in Nat /\ Len(s) >= 1 /\ DOMAIN s = 1..Len(s) /\ 1..(Len(s) - 1) = (1..Len(s)) \ {Len(s)}
  OBVIOUS
<1>2. \A i \in 1..(Len(s) - 1) : SubSeq(s, 1, Len(s) - 1)[i] = s[i]
  OBVIOUS
<1>3. SubSeq(s, 1, Len(s) - 1) \in Seq(F) /\ Len(SubSeq(s, 1, Len(s) - 1)) = Len(s) - 1
  <2>1. 1 \in 1..(Len(s) + 1) /\ Len(s) - 1 \in 0..Len(s) /\ (Len(s) - 1) - 1 + 1 = Len(s) - 1
    BY <1>1
  <2> QED
    BY <1>1, <2>1, SubSeqProperties
<1> QED
  BY <1>1, <1>2, <1>3

-----------------------------------------------------------------------------
(* What was received fills the buffers to the byte.                        *)

\* The sums of the instance of WinsockHooks are those of this module.
LEMMA SocketSum ==
  ASSUME NEW f
  PROVE  /\ \A S : Winsock!SumFunctionOnSet(f, S) = SumFunctionOnSet(f, S)
         /\ Winsock!Total(f) = SumFunctionOnSet(f, DOMAIN f)
<1>1. \A S : Winsock!SumFunctionOnSet(f, S) = SumFunctionOnSet(f, S)
  BY DEF SumFunctionOnSet, FoldFunctionOnSet, MapThenFoldSet, Winsock!SumFunctionOnSet,
         Winsock!FoldFunctionOnSet, Winsock!MapThenFoldSet
<1> QED
  BY <1>1 DEF Winsock!SumFunction, Winsock!Total

\* The bytes of a call's buffers are a number.
LEMMA TotalIs ==
  ASSUME NEW io \in Seq(Nat)
  PROVE  /\ Winsock!Total(io) = SumFunctionOnSet(io, 1..Len(io)) /\ Winsock!Total(io) \in Nat
         /\ io = <<>> => Winsock!Total(io) = 0
<1>1. DOMAIN io = 1..Len(io) /\ Len(io) \in Nat /\ \A i \in 1..Len(io) : io[i] \in Nat
  OBVIOUS
<1>2. IsFiniteSet(1..Len(io))
  BY <1>1, FS_Interval
<1>3. SumFunctionOnSet(io, 1..Len(io)) \in Nat
  BY <1>1, <1>2, SumNat
<1>4. Winsock!Total(io) = SumFunctionOnSet(io, 1..Len(io))
  BY <1>1, SocketSum
<1>5. io = <<>> => 1..Len(io) = {}
  OBVIOUS
<1> QED
  BY <1>2, <1>3, <1>4, <1>5, SumStep

\* What is left of the bytes after the first i buffers.
Rest(io, got, i) == LET full == SumFunctionOnSet(io, 1..i) IN IF full < got THEN got - full ELSE 0

\* What each buffer was filled with, as a difference of what remained before it and after.
LEMMA FilledIs ==
  ASSUME NEW io \in Seq(Nat), NEW got \in Nat
  PROVE  /\ DOMAIN Winsock!Filled(io, got) = 1..Len(io)
         /\ \A i \in 1..Len(io) : Winsock!Filled(io, got)[i] = Rest(io, got, i - 1) - Rest(io, got, i)
<1>1. DOMAIN io = 1..Len(io)
  OBVIOUS
<1>2. \A i : SumFunctionOnSet(io, 1..i) = Winsock!SumFunctionOnSet(io, 1..i)
  BY SocketSum
<1>3. Winsock!Filled(io, got) = [i \in DOMAIN io |-> Rest(io, got, i - 1) - Rest(io, got, i)]
  BY <1>2 DEF Winsock!Filled, Rest
<1> QED
  BY <1>1, <1>3

\* What remains of the bytes received shrinks from buffer to buffer, to nothing.
LEMMA RestShrinks ==
  ASSUME NEW io \in Seq(Nat), NEW got \in Nat
  PROVE  /\ Rest(io, got, 0) = got
         /\ \A i \in 0..Len(io) : Rest(io, got, i) \in Nat
         /\ \A i \in 1..Len(io) : Rest(io, got, i - 1) - Rest(io, got, i) \in Nat
         /\ got <= Winsock!Total(io) => Rest(io, got, Len(io)) = 0
<1> DEFINE full(i) == SumFunctionOnSet(io, 1..i)
<1>1. DOMAIN io = 1..Len(io) /\ Len(io) \in Nat /\ \A i \in 1..Len(io) : io[i] \in Nat
  OBVIOUS
<1>2. full(0) = 0
  <2>1. 1..0 = {} /\ SumFunctionOnSet(io, {}) = 0
    <3>1. SumFunctionOnSet(io, {}) = 0
      BY FS_EmptySet, SumStep
    <3> QED
      BY <3>1
  <2> QED
    BY <2>1
<1>3. ASSUME NEW i \in 0..Len(io) PROVE full(i) \in Nat
  <2>1. IsFiniteSet(1..i) /\ \A j \in 1..i : io[j] \in Nat
    <3>1. IsFiniteSet(1..i)
      BY <1>1, FS_Interval
    <3>2. \A j \in 1..i : io[j] \in Nat
      BY <1>1
    <3> QED
      BY <3>1, <3>2
  <2> QED
    BY <2>1, SumNat
<1>4. ASSUME NEW i \in 1..Len(io) PROVE full(i) = io[i] + full(i - 1) /\ io[i] \in Nat
  <2>1. i - 1 \in Nat /\ (i - 1) + 1 = i /\ \A j \in 1..((i - 1) + 1) : io[j] \in Nat
    BY <1>1
  <2>2. SumFunctionOnSet(io, 1..((i - 1) + 1)) = io[(i - 1) + 1] + SumFunctionOnSet(io, 1..(i - 1))
    BY ONLY <2>1, SumOfRange
  <2> QED
    BY <1>1, <2>1, <2>2
<1>5. got <= Winsock!Total(io) => got <= full(Len(io))
  BY TotalIs
<1>6. \A i : Rest(io, got, i) = IF full(i) < got THEN got - full(i) ELSE 0
  BY DEF Rest
<1> HIDE DEF full
<1>7. Rest(io, got, 0) = got
  BY <1>2, <1>6
<1>8. \A i \in 0..Len(io) : Rest(io, got, i) \in Nat
  BY <1>3, <1>6
<1>9. ASSUME NEW i \in 1..Len(io) PROVE Rest(io, got, i - 1) - Rest(io, got, i) \in Nat
  <2>1. full(i) = io[i] + full(i - 1) /\ io[i] \in Nat /\ full(i - 1) \in Nat
    <3>1. i - 1 \in 0..Len(io)
      BY <1>1
    <3> QED
      BY <1>3, <1>4, <3>1
  <2> QED
    BY <1>6, <2>1
<1>10. got <= Winsock!Total(io) => Rest(io, got, Len(io)) = 0
  <2>1. full(Len(io)) \in Nat
    BY <1>1, <1>3
  <2> QED
    BY <1>5, <1>6, <2>1
<1> QED
  BY <1>7, <1>8, <1>9, <1>10

\* The buffers take as many bytes as were given back, whatever their lengths.
LEMMA FilledAddsUp ==
  ASSUME NEW io \in Seq(Nat), NEW got \in Nat
  PROVE  /\ Winsock!Total(Winsock!Filled(io, got)) \in Nat
         /\ got <= Winsock!Total(io) => Winsock!Total(Winsock!Filled(io, got)) = got
<1> DEFINE f == Winsock!Filled(io, got)
           n == Len(io)
           r(i) == Rest(io, got, i)
           P == {k \in Nat : k <= n => SumFunctionOnSet(f, 1..k) + r(k) = got}
<1>1. DOMAIN f = 1..n /\ n \in Nat /\ \A i \in 1..n : f[i] = r(i - 1) - r(i) /\ f[i] \in Nat
  <2>1. DOMAIN f = 1..n /\ \A i \in 1..n : f[i] = r(i - 1) - r(i)
    BY FilledIs
  <2>2. \A i \in 1..n : r(i - 1) - r(i) \in Nat
    BY RestShrinks
  <2>3. n \in Nat
    OBVIOUS
  <2> HIDE DEF f, n, r
  <2> QED
    BY <2>1, <2>2, <2>3
<1>2. Winsock!Total(f) = SumFunctionOnSet(f, 1..n)
  BY <1>1, SocketSum
<1>3. r(0) = got /\ \A i \in 0..n : r(i) \in Nat
  BY RestShrinks
<1>4. got <= Winsock!Total(io) => r(n) = 0
  BY RestShrinks
<1> HIDE DEF f, n, r
<1>5. \A k \in 0..n : SumFunctionOnSet(f, 1..k) \in Nat
  <2> TAKE k \in 0..n
  <2>1. IsFiniteSet(1..k)
    BY <1>1, FS_Interval
  <2>2. \A j \in 1..k : f[j] \in Nat
    BY <1>1
  <2> QED
    BY <2>1, <2>2, SumNat
<1>6. 0 \in P
  <2>1. SumFunctionOnSet(f, {}) = 0 /\ 1..0 = {}
    <3>1. SumFunctionOnSet(f, {}) = 0
      BY FS_EmptySet, SumStep
    <3> QED
      BY <3>1
  <2> QED
    BY <1>3, <2>1
<1>7. ASSUME NEW k \in Nat, k \in P PROVE k + 1 \in P
  <2> SUFFICES ASSUME k + 1 <= n PROVE SumFunctionOnSet(f, 1..(k + 1)) + r(k + 1) = got
    OBVIOUS
  <2> DEFINE a == SumFunctionOnSet(f, 1..k)
             b == SumFunctionOnSet(f, 1..(k + 1))
  <2>1. a + r(k) = got /\ k \in 0..n /\ k + 1 \in 1..n /\ k + 1 \in 0..n
    BY <1>1, <1>7
  <2>2. \A i \in 1..(k + 1) : f[i] \in Nat
    BY <1>1
  <2>3. b = f[k + 1] + a
    BY <2>2, SumOfRange
  <2>4. f[k + 1] = r(k) - r(k + 1)
    <3>1. (k + 1) - 1 = k
      OBVIOUS
    <3> QED
      BY <1>1, <2>1, <3>1
  <2>5. a \in Nat /\ r(k) \in Nat /\ r(k + 1) \in Nat
    BY <1>3, <1>5, <2>1
  <2> HIDE DEF a, b
  <2>6. b + r(k + 1) = got
    BY <2>1, <2>3, <2>4, <2>5
  <2> QED
    BY <2>6 DEF b
<1> HIDE DEF P
<1>8. n \in P
  BY <1>1, <1>6, <1>7, Induction
<1>9. SumFunctionOnSet(f, 1..n) + r(n) = got /\ SumFunctionOnSet(f, 1..n) \in Nat /\ n \in 0..n
  BY <1>1, <1>5, <1>8 DEF P
<1> QED
  BY <1>2, <1>4, <1>9 DEF f

-----------------------------------------------------------------------------
(* Types of the Winsock functions.                                         *)

Stages == {"idle", "inline", "write", "track", "tables", "unpatch", "clear"}
Installers == {"loop", "loader"}
Copies == {"none", "own", "jump"}

StacksTyped == stack \in [User -> Seq(Frames)] /\ \A t \in User : Len(stack[t]) <= WrapMax

FlagsAreFlags ==
  /\ told \in BOOLEAN /\ hooked \in BOOLEAN /\ mark \in BOOLEAN
  /\ disturbed \in BOOLEAN /\ unprotected \in BOOLEAN

CodeTyped ==
  /\ fn \in Exercised /\ bytes \in {"own", "jump"}
  /\ patch \in [active : BOOLEAN, saved : Copies, gate : Copies]
  /\ original \in {"none", "export", "gate"}

TablesTyped ==
  /\ import \in [Winsock!Module -> {"hook", "export", "gate"}]
  /\ remembered \in [Winsock!Module -> {"none", "export", "gate"}]
  /\ present \subseteq Winsock!Module
  /\ stage \in [Installers -> Stages]

SockTyped ==
  /\ StacksTyped /\ FlagsAreFlags /\ CodeTyped /\ TablesTyped
  /\ sockReported \in [User -> Nat] /\ alone \in [User -> BOOLEAN]

\* The parts make up the type invariant of WinsockHooks.
LEMMA SockTypes ==
  ASSUME SockTyped
  PROVE  Winsock!TypeOK
BY DEF SockTyped, StacksTyped, FlagsAreFlags, CodeTyped, TablesTyped, Copies,
       Winsock!TypeOK, Winsock!None

\* A call begins as a frame.
LEMMA FrameTyped ==
  ASSUME NEW io \in Seq(Nat)
  PROVE  Winsock!Frame(io) \in Frames
BY DEF Winsock!Frame, Frames, Ats, Winsock!None

\* The buffers of a call have lengths.
LEMMA InputsTyped ==
  ASSUME NEW io \in Winsock!Inputs
  PROVE  io \in Seq(Nat)
<1>1. PICK n \in Nat : io \in [1..n -> Lengths]
  BY SocketsBounded DEF Winsock!Inputs
<1>2. io \in [1..n -> Nat]
  BY <1>1, SocketsBounded
<1> QED
  BY <1>2, SeqDef

\* The innermost frame is replaced: nothing else of the stacks changes.
LEMMA Becoming ==
  ASSUME StacksTyped, NEW t \in User, stack[t] # <<>>, NEW f \in Frames, Winsock!Become(t, f)
  PROVE  /\ StacksTyped' /\ \A u \in User : u # t => stack'[u] = stack[u]
         /\ Len(stack'[t]) = Len(stack[t]) /\ stack'[t] # <<>>
         /\ Len(stack[t]) \in DOMAIN stack[t] /\ DOMAIN stack'[t] = DOMAIN stack[t]
         /\ stack'[t][Len(stack[t])] = f
         /\ \A i \in DOMAIN stack[t] : i # Len(stack[t]) => stack'[t][i] = stack[t][i]
<1> DEFINE s == stack[t]
           r == [s EXCEPT ![Len(s)] = f]
<1>1. s \in Seq(Frames) /\ Len(s) <= WrapMax
  BY DEF StacksTyped
<1>2. stack' = [stack EXCEPT ![t] = r]
  BY DEF Winsock!Become
<1>3. /\ r \in Seq(Frames) /\ Len(r) = Len(s) /\ DOMAIN r = DOMAIN s /\ r # <<>>
      /\ Len(s) \in DOMAIN s /\ r[Len(s)] = f /\ \A i \in DOMAIN s : i # Len(s) => r[i] = s[i]
  BY <1>1, TopChanged
<1> HIDE DEF r
<1>4. stack'[t] = r /\ \A u \in User : u # t => stack'[u] = stack[u]
  BY <1>2 DEF StacksTyped
<1>5. stack' \in [User -> Seq(Frames)]
  BY <1>2, <1>3 DEF StacksTyped
<1>6. \A u \in User : Len(stack'[u]) <= WrapMax
  BY <1>1, <1>3, <1>4 DEF StacksTyped
<1> QED
  BY <1>3, <1>4, <1>5, <1>6 DEF StacksTyped

\* The stack of one thread without its last frame.
LEMMA Popping ==
  ASSUME StacksTyped, NEW t \in User, stack[t] # <<>>,
         stack' = [stack EXCEPT ![t] = SubSeq(@, 1, Len(@) - 1)]
  PROVE  /\ StacksTyped' /\ \A u \in User : u # t => stack'[u] = stack[u]
         /\ Len(stack[t]) \in DOMAIN stack[t]
         /\ DOMAIN stack'[t] = DOMAIN stack[t] \ {Len(stack[t])}
         /\ \A i \in DOMAIN stack'[t] : stack'[t][i] = stack[t][i]
<1> DEFINE s == stack[t]
           r == SubSeq(s, 1, Len(s) - 1)
<1>1. s \in Seq(Frames) /\ Len(s) <= WrapMax /\ WrapMax \in Nat
  BY SocketsBounded DEF StacksTyped
<1>2. stack' = [stack EXCEPT ![t] = r]
  OBVIOUS
<1>3. /\ r \in Seq(Frames) /\ Len(r) = Len(s) - 1 /\ Len(s) \in Nat /\ Len(s) >= 1
      /\ DOMAIN r = DOMAIN s \ {Len(s)} /\ \A i \in DOMAIN r : r[i] = s[i]
  BY <1>1, FramePopped
<1>4. Len(s) \in DOMAIN s
  BY <1>1, <1>3
<1> HIDE DEF r
<1>5. stack'[t] = r /\ \A u \in User : u # t => stack'[u] = stack[u]
  BY <1>2 DEF StacksTyped
<1>6. stack' \in [User -> Seq(Frames)]
  BY <1>2, <1>3 DEF StacksTyped
<1>7. Len(r) <= WrapMax
  BY <1>1, <1>3
<1>8. \A u \in User : Len(stack'[u]) <= WrapMax
  BY <1>5, <1>7 DEF StacksTyped
<1> QED
  BY <1>3, <1>4, <1>5, <1>6, <1>8 DEF StacksTyped

\* One frame more, and the one below it replaced.
Grown(t, g, f) ==
  /\ \A u \in User : u # t => stack'[u] = stack[u]
  /\ stack'[t] # <<>> /\ stack'[t][Len(stack[t]) + 1] = f /\ stack'[t][Len(stack[t])] = g
  /\ DOMAIN stack'[t] = DOMAIN stack[t] \cup {Len(stack[t]) + 1} /\ Len(stack[t]) \in DOMAIN stack[t]
  /\ Len(stack'[t]) = Len(stack[t]) + 1
  /\ \A i \in DOMAIN stack[t] : i # Len(stack[t]) => stack'[t][i] = stack[t][i]

\* The stack of one thread with one frame more.
LEMMA Pushing ==
  ASSUME StacksTyped, NEW t \in User, stack[t] # <<>>, Len(stack[t]) # WrapMax,
         NEW g \in Frames, NEW f \in Frames,
         stack' = [stack EXCEPT ![t] = Append([@ EXCEPT ![Len(@)] = g], f)]
  PROVE  StacksTyped' /\ Grown(t, g, f)
<1> DEFINE s == stack[t]
           p == [s EXCEPT ![Len(s)] = g]
           r == Append(p, f)
<1>1. s \in Seq(Frames) /\ Len(s) <= WrapMax /\ WrapMax \in Nat
  BY SocketsBounded DEF StacksTyped
<1>2. stack' = [stack EXCEPT ![t] = r]
  OBVIOUS
<1>3. /\ p \in Seq(Frames) /\ Len(p) = Len(s) /\ DOMAIN p = DOMAIN s
      /\ Len(s) \in DOMAIN s /\ p[Len(s)] = g /\ \A i \in DOMAIN s : i # Len(s) => p[i] = s[i]
  BY <1>1, TopChanged
<1> HIDE DEF p
<1>4. /\ r \in Seq(Frames) /\ Len(r) = Len(p) + 1 /\ r # <<>> /\ Len(p) \in Nat
      /\ DOMAIN r = DOMAIN p \cup {Len(r)} /\ r[Len(r)] = f /\ \A i \in DOMAIN p : r[i] = p[i]
  BY <1>3, FramePushed
<1> HIDE DEF r
<1>5. stack'[t] = r /\ \A u \in User : u # t => stack'[u] = stack[u]
  BY <1>2 DEF StacksTyped
<1>6. stack' \in [User -> Seq(Frames)]
  BY <1>2, <1>4 DEF StacksTyped
<1>7. Len(r) <= WrapMax
  BY <1>1, <1>3, <1>4
<1>8. \A u \in User : Len(stack'[u]) <= WrapMax
  BY <1>5, <1>7 DEF StacksTyped
<1>9. Grown(t, g, f)
  BY <1>3, <1>4, <1>5 DEF Grown
<1> QED
  BY <1>6, <1>8, <1>9 DEF StacksTyped

\* A call begins for a thread that is in none.
LEMMA Beginning ==
  ASSUME StacksTyped, NEW t \in User, NEW f \in Frames, stack' = [stack EXCEPT ![t] = <<f>>]
  PROVE  /\ StacksTyped' /\ \A u \in User : u # t => stack'[u] = stack[u]
         /\ stack'[t] = <<f>> /\ DOMAIN stack'[t] = {1} /\ stack'[t][1] = f /\ Len(stack'[t]) = 1
<1>1. <<f>> \in Seq(Frames) /\ Len(<<f>>) = 1 /\ DOMAIN <<f>> = {1} /\ 1 <= WrapMax
  BY SocketsBounded
<1>2. stack'[t] = <<f>> /\ \A u \in User : u # t => stack'[u] = stack[u]
  BY DEF StacksTyped
<1>3. stack' \in [User -> Seq(Frames)]
  BY <1>1 DEF StacksTyped
<1>4. \A u \in User : Len(stack'[u]) <= WrapMax
  BY <1>1, <1>2 DEF StacksTyped
<1> QED
  BY <1>1, <1>2, <1>3, <1>4 DEF StacksTyped


-----------------------------------------------------------------------------
(* What the steps of a call make of its innermost wrapper.                 *)

\* The innermost frame of a thread is one.
LEMMA TopTyped ==
  ASSUME StacksTyped, NEW t \in User, stack[t] # <<>>
  PROVE  Winsock!Top(t) \in Frames /\ Len(stack[t]) \in DOMAIN stack[t]
<1>1. stack[t] \in Seq(Frames)
  BY DEF StacksTyped
<1> QED
  BY <1>1, TopChanged DEF Winsock!Top

\* f becomes g: where it is now, whether it holds the mark, how it calls on, whether it
\* has lifted the jump, and what the call gave back.
Turns(f, g, at, up, via, lifted, got) ==
  /\ g \in Frames /\ g.io = f.io /\ g.at = at /\ g.up = up /\ g.via = via /\ g.lifted = lifted
  /\ g.got = got

\* The innermost frame of one thread becomes another.
LEMMA FrameChanged ==
  ASSUME NEW f \in Frames, NEW at \in Ats, NEW up \in BOOLEAN, NEW via \in {"none", "export", "gate"},
         NEW lifted \in BOOLEAN, NEW got \in Nat
  PROVE  /\ Turns(f, [f EXCEPT !.at = at], at, f.up, f.via, f.lifted, f.got)
         /\ Turns(f, [f EXCEPT !.up = up, !.at = at], at, up, f.via, f.lifted, f.got)
         /\ Turns(f, [f EXCEPT !.via = via, !.at = at], at, f.up, via, f.lifted, f.got)
         /\ Turns(f, [f EXCEPT !.lifted = lifted, !.at = at], at, f.up, f.via, lifted, f.got)
         /\ Turns(f, [f EXCEPT !.got = got, !.at = at], at, f.up, f.via, f.lifted, got)
BY DEF Frames, Turns

\* A step inside a call that leaves the code, the hooks and the installers alone.
Settled == UNCHANGED <<fn, told, hooked, patch, original, import, remembered, present, stage, socketCalls,
                       sockReported, alone, disturbed>>

\* The wrapper is entered.
LEMMA EnterTurns ==
  ASSUME SockTyped, NEW t \in User, Winsock!Enter(t)
  PROVE  LET f == Winsock!Top(t) IN
         /\ stack[t] # <<>> /\ f.at = "enter" /\ UNCHANGED <<bytes, mark, unprotected>> /\ Settled
         /\ \E at \in {"raise", "lift"}, g \in Frames :
              /\ Turns(f, g, at, f.up, f.via, f.lifted, f.got) /\ Winsock!Become(t, g)
              /\ at = "raise" <=> Winsock!W.when = "before" /\ ~mark /\ (Winsock!Worth(t) \/ Winsock!W.holds)
<1> DEFINE at == IF Winsock!W.when = "before" /\ ~mark /\ (Winsock!Worth(t) \/ Winsock!W.holds)
                 THEN "raise" ELSE "lift"
           f == Winsock!Top(t)
<1>1. /\ stack[t] # <<>> /\ f.at = "enter" /\ Winsock!Become(t, [f EXCEPT !.at = at])
      /\ UNCHANGED <<bytes, mark, unprotected>> /\ Settled
  BY DEF Winsock!Enter, Winsock!At, Winsock!Goes, Winsock!Quiet, Winsock!state, Winsock!own,
         Winsock!tables, Winsock!past, Settled
<1>2. f \in Frames /\ at \in Ats /\ at \in {"raise", "lift"}
  BY <1>1, TopTyped DEF SockTyped, Ats
<1>3. at = "raise" <=> Winsock!W.when = "before" /\ ~mark /\ (Winsock!Worth(t) \/ Winsock!W.holds)
  OBVIOUS
<1> HIDE DEF at, f
<1>4. Turns(f, [f EXCEPT !.at = at], at, f.up, f.via, f.lifted, f.got)
  BY <1>2, FrameChanged
<1>5. [f EXCEPT !.at = at] \in Frames
  BY <1>4 DEF Turns
<1> QED
  BY <1>1, <1>2, <1>3, <1>4, <1>5 DEF f

\* It raises its mark.
LEMMA RaiseTurns ==
  ASSUME SockTyped, NEW t \in User, Winsock!RaiseMark(t)
  PROVE  LET f == Winsock!Top(t) IN
         /\ stack[t] # <<>> /\ f.at = "raise" /\ mark' = TRUE /\ UNCHANGED <<bytes, unprotected>> /\ Settled
         /\ \E at \in {"report", "lift"}, g \in Frames :
              /\ Turns(f, g, at, TRUE, f.via, f.lifted, f.got) /\ Winsock!Become(t, g)
              /\ at = "report" <=> Winsock!Worth(t)
<1> DEFINE at == IF Winsock!Worth(t) THEN "report" ELSE "lift"
           f == Winsock!Top(t)
<1>1. /\ stack[t] # <<>> /\ f.at = "raise" /\ Winsock!Become(t, [f EXCEPT !.up = TRUE, !.at = at])
      /\ mark' = TRUE /\ UNCHANGED <<bytes, unprotected>> /\ Settled
  BY DEF Winsock!RaiseMark, Winsock!At, Winsock!Quiet, Winsock!state, Winsock!own,
         Winsock!tables, Winsock!past, Settled
<1>2. f \in Frames /\ at \in Ats /\ at \in {"report", "lift"} /\ TRUE \in BOOLEAN
  BY <1>1, TopTyped DEF SockTyped, Ats
<1>3. at = "report" <=> Winsock!Worth(t)
  OBVIOUS
<1> HIDE DEF at, f
<1>4. Turns(f, [f EXCEPT !.up = TRUE, !.at = at], at, TRUE, f.via, f.lifted, f.got)
  BY <1>2, FrameChanged
<1>5. [f EXCEPT !.up = TRUE, !.at = at] \in Frames
  BY <1>4 DEF Turns
<1> QED
  BY <1>1, <1>2, <1>3, <1>4, <1>5 DEF f

\* It tells its callback.
LEMMA ReportTurns ==
  ASSUME SockTyped, NEW t \in User, Winsock!Report(t)
  PROVE  LET f == Winsock!Top(t) IN
         /\ stack[t] # <<>> /\ f.at = "report" /\ mark' = (mark /\ Winsock!W.holds)
         /\ sockReported' = [sockReported EXCEPT ![t] = @ + Winsock!Total(Winsock!Due(t))]
         /\ UNCHANGED <<fn, told, hooked, bytes, patch, original, import, remembered, present, stage,
                        socketCalls, alone, disturbed, unprotected>>
         /\ \E at \in {"lift", "leave"}, g \in Frames :
              /\ Turns(f, g, at, Winsock!W.holds, f.via, f.lifted, f.got) /\ Winsock!Become(t, g)
              /\ at = "lift" <=> Winsock!W.when = "before"
<1> DEFINE at == IF Winsock!W.when = "before" THEN "lift" ELSE "leave"
           f == Winsock!Top(t)
           up == Winsock!W.holds
<1>1. /\ stack[t] # <<>> /\ f.at = "report" /\ Winsock!Become(t, [f EXCEPT !.up = up, !.at = at])
      /\ mark' = (mark /\ up) /\ sockReported' = [sockReported EXCEPT ![t] = @ + Winsock!Total(Winsock!Due(t))]
      /\ UNCHANGED <<fn, told, hooked, bytes, patch, original, import, remembered, present, stage,
                        socketCalls, alone, disturbed, unprotected>>
  BY DEF Winsock!Report, Winsock!At, Winsock!Quiet, Winsock!state, Winsock!own,
         Winsock!tables, Winsock!past
<1>2. f \in Frames /\ at \in Ats /\ at \in {"lift", "leave"}
  BY <1>1, TopTyped DEF SockTyped, Ats
<1>3. at = "lift" <=> Winsock!W.when = "before"
  OBVIOUS
<1>4. up \in BOOLEAN
  BY WrapperKnown DEF SockTyped, CodeTyped
<1> HIDE DEF at, f, up
<1>5. Turns(f, [f EXCEPT !.up = up, !.at = at], at, up, f.via, f.lifted, f.got)
  BY <1>2, <1>4, FrameChanged
<1>6. [f EXCEPT !.up = up, !.at = at] \in Frames
  BY <1>5 DEF Turns
<1> QED
  BY <1>1, <1>2, <1>3, <1>5, <1>6 DEF f, up

\* It looks for what to call.
LEMMA LiftTurns ==
  ASSUME SockTyped, NEW t \in User, Winsock!Lift(t)
  PROVE  LET f == Winsock!Top(t) IN
         /\ stack[t] # <<>> /\ f.at = "lift" /\ UNCHANGED <<bytes, mark, unprotected>> /\ Settled
         /\ \E at \in {"leave", "restore", "through"}, g \in Frames :
              /\ Turns(f, g, at, f.up, original, f.lifted, f.got) /\ Winsock!Become(t, g)
              /\ at = IF original = "none" THEN "leave" ELSE IF patch.active THEN "restore" ELSE "through"
<1> DEFINE at == IF original = "none" THEN "leave" ELSE IF patch.active THEN "restore" ELSE "through"
           f == Winsock!Top(t)
<1>1. /\ stack[t] # <<>> /\ f.at = "lift" /\ Winsock!Become(t, [f EXCEPT !.via = original, !.at = at])
      /\ UNCHANGED <<bytes, mark, unprotected>> /\ Settled
  BY DEF Winsock!Lift, Winsock!At, Winsock!Quiet, Winsock!state, Winsock!own,
         Winsock!tables, Winsock!past, Winsock!None, Settled
<1>2. f \in Frames /\ at \in Ats /\ at \in {"leave", "restore", "through"}
  BY <1>1, TopTyped DEF SockTyped, Ats
<1>3. original \in {"none", "export", "gate"}
  BY DEF SockTyped, CodeTyped
<1>4. at = IF original = "none" THEN "leave" ELSE IF patch.active THEN "restore" ELSE "through"
  OBVIOUS
<1> HIDE DEF at, f
<1>5. Turns(f, [f EXCEPT !.via = original, !.at = at], at, f.up, original, f.lifted, f.got)
  BY <1>2, <1>3, FrameChanged
<1>6. [f EXCEPT !.via = original, !.at = at] \in Frames
  BY <1>5 DEF Turns
<1> QED
  BY <1>1, <1>2, <1>4, <1>5, <1>6 DEF f

\* It lifts the jump.
LEMMA RestoreTurns ==
  ASSUME SockTyped, NEW t \in User, Winsock!Restore(t)
  PROVE  LET f == Winsock!Top(t) IN
         /\ stack[t] # <<>> /\ f.at = "restore" /\ UNCHANGED mark /\ Settled
         /\ \E g \in Frames :
              /\ Winsock!Become(t, g)
              /\ \/ /\ bytes' = patch.saved /\ UNCHANGED unprotected
                    /\ Turns(f, g, "call", f.up, f.via, TRUE, f.got)
                 \/ /\ unprotected' = TRUE /\ UNCHANGED bytes
                    /\ Turns(f, g, "through", f.up, f.via, f.lifted, f.got)
<1> DEFINE f == Winsock!Top(t)
           g == [f EXCEPT !.lifted = TRUE, !.at = "call"]
           h == [f EXCEPT !.at = "through"]
<1>1. /\ stack[t] # <<>> /\ f.at = "restore" /\ UNCHANGED mark /\ Settled
      /\ \/ bytes' = patch.saved /\ UNCHANGED unprotected /\ Winsock!Become(t, g)
         \/ unprotected' = TRUE /\ UNCHANGED bytes /\ Winsock!Become(t, h)
  BY DEF Winsock!Restore, Winsock!At, Winsock!Goes, Winsock!state, Winsock!own,
         Winsock!tables, Settled
<1>2. f \in Frames /\ {"call", "through"} \subseteq Ats /\ TRUE \in BOOLEAN
  BY <1>1, TopTyped DEF SockTyped, Ats
<1>3. Turns(f, g, "call", f.up, f.via, TRUE, f.got)
  BY <1>2, FrameChanged
<1>4. Turns(f, h, "through", f.up, f.via, f.lifted, f.got)
  BY <1>2, FrameChanged
<1>5. g \in Frames /\ h \in Frames
  BY <1>3, <1>4 DEF Turns
<1> HIDE DEF f, g, h
<1> QED
  BY <1>1, <1>3, <1>4, <1>5 DEF f

\* It puts the jump back.
LEMMA ReinstallTurns ==
  ASSUME SockTyped, NEW t \in User, Winsock!Reinstall(t)
  PROVE  LET f == Winsock!Top(t) IN
         /\ stack[t] # <<>> /\ f.at = "back" /\ UNCHANGED mark /\ Settled
         /\ (bytes' = "jump" /\ UNCHANGED unprotected) \/ (unprotected' = TRUE /\ UNCHANGED bytes)
         /\ \E g \in Frames : Winsock!Become(t, g) /\ Turns(f, g, "after", f.up, f.via, FALSE, f.got)
<1> DEFINE f == Winsock!Top(t)
           g == [f EXCEPT !.lifted = FALSE, !.at = "after"]
<1>1. /\ stack[t] # <<>> /\ f.at = "back" /\ UNCHANGED mark /\ Settled
      /\ (bytes' = "jump" /\ UNCHANGED unprotected) \/ (unprotected' = TRUE /\ UNCHANGED bytes)
      /\ Winsock!Become(t, g)
  BY DEF Winsock!Reinstall, Winsock!At, Winsock!state, Winsock!own, Winsock!tables, Settled
<1>2. f \in Frames /\ "after" \in Ats /\ FALSE \in BOOLEAN
  BY <1>1, TopTyped DEF SockTyped, Ats
<1>3. Turns(f, g, "after", f.up, f.via, FALSE, f.got)
  BY <1>2, FrameChanged
<1>4. g \in Frames
  BY <1>3 DEF Turns
<1> HIDE DEF f, g
<1> QED
  BY <1>1, <1>3, <1>4 DEF f

\* The original returns.
LEMMA ReturnTurns ==
  ASSUME SockTyped, NEW t \in User, Winsock!Return(t)
  PROVE  LET f == Winsock!Top(t) IN
         /\ stack[t] # <<>> /\ f.at = "inside" /\ UNCHANGED <<bytes, mark, unprotected>> /\ Settled
         /\ \E got \in Nat, g \in Frames :
              /\ got <= IF Winsock!W.when = "before" THEN 0 ELSE Winsock!Total(f.io)
              /\ Winsock!Become(t, g)
              /\ Turns(f, g, IF f.lifted THEN "back" ELSE "after", f.up, f.via, f.lifted, got)
<1> DEFINE f == Winsock!Top(t)
           at == IF f.lifted THEN "back" ELSE "after"
           all_ == IF Winsock!W.when = "before" THEN 0 ELSE Winsock!Total(f.io)
<1>1. /\ stack[t] # <<>> /\ f.at = "inside" /\ UNCHANGED <<bytes, mark, unprotected>> /\ Settled
      /\ \E got \in 0..all_ : Winsock!Become(t, [f EXCEPT !.got = got, !.at = at])
  BY DEF Winsock!Return, Winsock!At, Winsock!Quiet, Winsock!state, Winsock!own,
         Winsock!tables, Winsock!past, Settled
<1>2. f \in Frames /\ at \in Ats
  BY <1>1, TopTyped DEF SockTyped, Ats
<1>3. all_ \in Nat
  <2>1. f.io \in Seq(Nat)
    BY <1>2 DEF Frames
  <2> QED
    BY <2>1, TotalIs
<1>4. PICK got \in 0..all_ : Winsock!Become(t, [f EXCEPT !.got = got, !.at = at])
  BY <1>1
<1>5. got \in Nat /\ got <= all_
  BY <1>3
<1> HIDE DEF f, at
<1>6. Turns(f, [f EXCEPT !.got = got, !.at = at], at, f.up, f.via, f.lifted, got)
  BY <1>2, <1>5, FrameChanged
<1>7. [f EXCEPT !.got = got, !.at = at] \in Frames
  BY <1>6 DEF Turns
<1> QED
  BY <1>1, <1>4, <1>5, <1>6, <1>7 DEF f, at

\* It decides whether there is anything to tell.
LEMMA AfterTurns ==
  ASSUME SockTyped, NEW t \in User, Winsock!After(t)
  PROVE  LET f == Winsock!Top(t) IN
         /\ stack[t] # <<>> /\ f.at = "after" /\ UNCHANGED <<bytes, mark, unprotected>> /\ Settled
         /\ \E at \in {"raise", "leave"}, g \in Frames :
              /\ Turns(f, g, at, f.up, f.via, f.lifted, f.got) /\ Winsock!Become(t, g)
              /\ at = "raise" <=> Winsock!W.when = "after" /\ f.got > 0 /\ ~mark /\ Winsock!Worth(t)
<1> DEFINE f == Winsock!Top(t)
           at == IF Winsock!W.when = "after" /\ f.got > 0 /\ ~mark /\ Winsock!Worth(t) THEN "raise" ELSE "leave"
<1>1. /\ stack[t] # <<>> /\ f.at = "after" /\ Winsock!Become(t, [f EXCEPT !.at = at])
      /\ UNCHANGED <<bytes, mark, unprotected>> /\ Settled
  BY DEF Winsock!After, Winsock!At, Winsock!Goes, Winsock!Quiet, Winsock!state, Winsock!own,
         Winsock!tables, Winsock!past, Settled
<1>2. f \in Frames /\ at \in Ats /\ at \in {"raise", "leave"}
  BY <1>1, TopTyped DEF SockTyped, Ats
<1>3. at = "raise" <=> Winsock!W.when = "after" /\ f.got > 0 /\ ~mark /\ Winsock!Worth(t)
  OBVIOUS
<1> HIDE DEF at, f
<1>4. Turns(f, [f EXCEPT !.at = at], at, f.up, f.via, f.lifted, f.got)
  BY <1>2, FrameChanged
<1>5. [f EXCEPT !.at = at] \in Frames
  BY <1>4 DEF Turns
<1> QED
  BY <1>1, <1>2, <1>3, <1>4, <1>5 DEF f

\* A call reaches the function itself, or one more wrapper under the same thread.
Nested(t, f, h) ==
  stack' = [stack EXCEPT ![t] = Append([@ EXCEPT ![Len(@)] = f], h)]

\* Where a call through a pointer arrives.
LEMMA Reaching ==
  ASSUME SockTyped, NEW t \in User, stack[t] # <<>>, NEW code, Winsock!Reach(t, code)
  PROVE  LET f == Winsock!Top(t) IN
         \E g \in Frames :
            \/ Turns(f, g, "inside", f.up, f.via, f.lifted, f.got) /\ Winsock!Become(t, g) /\ code = "own"
            \/ Turns(f, g, "crashed", f.up, f.via, f.lifted, f.got) /\ Winsock!Become(t, g) /\ code # "own"
            \/ /\ Turns(f, g, "inside", f.up, f.via, f.lifted, f.got) /\ code # "own"
               /\ Len(stack[t]) # WrapMax /\ Nested(t, g, Winsock!Frame(f.io)) /\ Winsock!Frame(f.io) \in Frames
<1> DEFINE f == Winsock!Top(t)
           g == [f EXCEPT !.at = "inside"]
           h == [f EXCEPT !.at = "crashed"]
<1>1. f \in Frames /\ {"inside", "crashed"} \subseteq Ats /\ f = stack[t][Len(stack[t])]
  BY TopTyped DEF SockTyped, Ats, Winsock!Top
<1>2. /\ Turns(f, g, "inside", f.up, f.via, f.lifted, f.got) /\ g \in Frames
      /\ Turns(f, h, "crashed", f.up, f.via, f.lifted, f.got) /\ h \in Frames
  <2>1. Turns(f, g, "inside", f.up, f.via, f.lifted, f.got)
    BY <1>1, FrameChanged
  <2>2. Turns(f, h, "crashed", f.up, f.via, f.lifted, f.got)
    BY <1>1, FrameChanged
  <2> QED
    BY <2>1, <2>2 DEF Turns
<1>3. Winsock!Frame(f.io) \in Frames
  BY <1>1, FrameTyped DEF Frames
<1>4. CASE code = "own"
  BY <1>2, <1>4 DEF Winsock!Reach, Winsock!Goes
<1>5. CASE code # "own" /\ Len(stack[t]) = WrapMax
  BY <1>2, <1>5 DEF Winsock!Reach, Winsock!Goes
<1>6. CASE code # "own" /\ Len(stack[t]) # WrapMax
  <2>1. stack' = [stack EXCEPT ![t] = Append([@ EXCEPT ![Len(@)].at = "inside"], Winsock!Frame(f.io))]
    BY <1>6 DEF Winsock!Reach
  <2>2. [stack[t] EXCEPT ![Len(stack[t])].at = "inside"] = [stack[t] EXCEPT ![Len(stack[t])] = g]
    BY <1>1
  <2>3. Nested(t, g, Winsock!Frame(f.io))
    BY <2>1, <2>2 DEF Nested
  <2> QED
    BY <1>2, <1>3, <1>6, <2>3
<1> QED
  BY <1>4, <1>5, <1>6

\* The wrapper calls the original, or its gate.
LEMMA CallTurns ==
  ASSUME SockTyped, NEW t \in User, Winsock!CallTarget(t) \/ Winsock!CallGate(t)
  PROVE  LET f == Winsock!Top(t) IN
         /\ stack[t] # <<>> /\ f.at \in {"call", "through"} /\ UNCHANGED <<bytes, mark, unprotected>> /\ Settled
         /\ \E code \in {bytes, patch.gate}, g \in Frames :
            /\ f.at = "call" \/ f.via = "export" => code = bytes
            /\ \/ Turns(f, g, "inside", f.up, f.via, f.lifted, f.got) /\ Winsock!Become(t, g) /\ code = "own"
               \/ Turns(f, g, "crashed", f.up, f.via, f.lifted, f.got) /\ Winsock!Become(t, g) /\ code # "own"
               \/ /\ Turns(f, g, "inside", f.up, f.via, f.lifted, f.got) /\ code # "own"
                  /\ Len(stack[t]) # WrapMax /\ Nested(t, g, Winsock!Frame(f.io)) /\ Winsock!Frame(f.io) \in Frames
<1> DEFINE f == Winsock!Top(t)
<1>1. CASE Winsock!CallTarget(t)
  <2>1. /\ stack[t] # <<>> /\ f.at \in {"call", "through"} /\ Winsock!Reach(t, bytes)
        /\ UNCHANGED <<bytes, mark, unprotected>> /\ Settled
    BY <1>1 DEF Winsock!CallTarget, Winsock!At, Winsock!Quiet, Winsock!state, Winsock!own,
                Winsock!tables, Winsock!past, Settled
  <2> HIDE DEF f
  <2>2. bytes \in {bytes, patch.gate} /\ (f.at = "call" \/ f.via = "export" => bytes = bytes)
    OBVIOUS
  <2> QED
    BY <2>1, <2>2, Reaching DEF f
<1>2. CASE Winsock!CallGate(t)
  <2>1. /\ stack[t] # <<>> /\ f.at = "through" /\ f.via = "gate" /\ Winsock!Reach(t, patch.gate)
        /\ UNCHANGED <<bytes, mark, unprotected>> /\ Settled
    BY <1>2 DEF Winsock!CallGate, Winsock!At, Winsock!Quiet, Winsock!state, Winsock!own,
                Winsock!tables, Winsock!past, Settled
  <2> HIDE DEF f
  <2>2. f.at \in {"call", "through"} /\ ~(f.at = "call" \/ f.via = "export")
    BY <2>1
  <2> QED
    BY <2>1, <2>2, Reaching DEF f
<1> QED
  BY <1>1, <1>2

\* The wrapper returns.
LEMMA LeaveTurns ==
  ASSUME SockTyped, NEW t \in User, Winsock!Leave(t)
  PROVE  /\ stack[t] # <<>> /\ Winsock!Top(t).at = "leave" /\ mark' = (mark /\ ~Winsock!Top(t).up)
         /\ stack' = [stack EXCEPT ![t] = SubSeq(@, 1, Len(@) - 1)]
         /\ UNCHANGED <<bytes, unprotected>> /\ Settled
BY DEF Winsock!Leave, Winsock!At, Winsock!Quiet, Winsock!state, Winsock!own, Winsock!tables,
       Winsock!past, Settled

\* The program calls.
LEMMA CallBegins ==
  ASSUME SockTyped, NEW t \in User, Winsock!ProgramCall(t)
  PROVE  /\ stack[t] = <<>> /\ (bytes = "jump" \/ \E m \in present : import[m] = "hook")
         /\ \E io \in Seq(Nat) : /\ Winsock!Frame(io) \in Frames
                                 /\ stack' = [stack EXCEPT ![t] = <<Winsock!Frame(io)>>]
         /\ sockReported' = [sockReported EXCEPT ![t] = 0]
         /\ alone' = [u \in User |-> u = t /\ \A v \in User \ {t} : stack[v] = <<>>]
         /\ disturbed' = (disturbed \/ \E a \in Installers : stage[a] \notin {"idle", "inline"})
         /\ UNCHANGED <<fn, told, hooked, mark, bytes, patch, original, import, remembered, present, stage,
                        unprotected>>
<1>1. PICK io \in Winsock!Inputs : stack' = [stack EXCEPT ![t] = <<Winsock!Frame(io)>>]
  BY DEF Winsock!ProgramCall
<1>2. io \in Seq(Nat) /\ Winsock!Frame(io) \in Frames
  BY InputsTyped, FrameTyped
<1> QED
  BY <1>1, <1>2 DEF Winsock!ProgramCall, Winsock!state, Winsock!own, Winsock!tables,
                    Winsock!Installer, Installers

-----------------------------------------------------------------------------
(* The types are kept.                                                     *)

\* The Winsock functions begin with their types.
LEMMA InitSockTyped ==
  ASSUME Winsock!Init
  PROVE  SockTyped
<1>1. <<>> \in Seq(Frames) /\ Len(<<>>) = 0 /\ 0 <= WrapMax
  BY SocketsBounded
<1>2. StacksTyped
  BY <1>1 DEF Winsock!Init, StacksTyped
<1>3. FlagsAreFlags /\ CodeTyped
  BY DEF Winsock!Init, FlagsAreFlags, CodeTyped, Winsock!NoPatch, Winsock!None, Copies
<1>4. TablesTyped
  BY DEF Winsock!Init, TablesTyped, Winsock!Module, Winsock!None, Winsock!Installer, Stages,
         Installers
<1> QED
  BY <1>2, <1>3, <1>4 DEF Winsock!Init, SockTyped

\* What was told stays a number.
LEMMA ReportedTyped ==
  ASSUME SockTyped, NEW t \in User, Winsock!Report(t)
  PROVE  sockReported' \in [User -> Nat]
<1>1. /\ stack[t] # <<>> /\ sockReported' = [sockReported EXCEPT ![t] = @ + Winsock!Total(Winsock!Due(t))]
  BY ReportTurns
<1>2. Winsock!Top(t) \in Frames
  BY <1>1, TopTyped DEF SockTyped
<1>3. Winsock!Top(t).io \in Seq(Nat) /\ Winsock!Top(t).got \in Nat
  BY <1>2 DEF Frames
<1>4. Winsock!Total(Winsock!Due(t)) \in Nat
  BY <1>3, TotalIs, FilledAddsUp DEF Winsock!Due
<1> HIDE DEF Winsock!Total, Winsock!Due
<1>5. sockReported \in [User -> Nat]
  BY DEF SockTyped
<1> QED
  BY <1>1, <1>4, <1>5

\* A step of a call moves its frame, the bytes of the function and the mark.
LEMMA SettledTyped ==
  ASSUME SockTyped, StacksTyped', Settled, bytes' \in {"own", "jump"}, mark' \in BOOLEAN, unprotected' \in BOOLEAN
  PROVE  SockTyped'
<1>1. UNCHANGED <<fn, told, hooked, patch, original, import, remembered, present, stage, sockReported, alone,
                  disturbed>>
  BY DEF Settled
<1>2. FlagsAreFlags'
  BY <1>1 DEF FlagsAreFlags, SockTyped
<1>3. CodeTyped'
  BY <1>1 DEF CodeTyped, SockTyped
<1>4. TablesTyped'
  BY <1>1 DEF TablesTyped, SockTyped, Winsock!Module
<1> QED
  BY <1>1, <1>2, <1>3, <1>4 DEF SockTyped

\* The steps of a call keep the types.
LEMMA ClientTyped ==
  ASSUME SockTyped, NEW t \in User, Winsock!ClientStep(t), Winsock!Restore(t) => patch.saved = "own"
  PROVE  SockTyped'
<1>1. StacksTyped /\ bytes \in {"own", "jump"} /\ mark \in BOOLEAN /\ unprotected \in BOOLEAN
  BY DEF SockTyped, FlagsAreFlags, CodeTyped
<1>2. ASSUME stack[t] # <<>>, NEW g \in Frames, Winsock!Become(t, g) PROVE StacksTyped'
  BY <1>1, <1>2, Becoming
<1>3. CASE Winsock!ProgramCall(t)
  <2>1. /\ UNCHANGED <<fn, told, hooked, mark, bytes, patch, original, import, remembered, present, stage,
                        unprotected>>
        /\ sockReported' = [sockReported EXCEPT ![t] = 0]
        /\ alone' = [u \in User |-> u = t /\ \A v \in User \ {t} : stack[v] = <<>>]
        /\ disturbed' = (disturbed \/ \E a \in Installers : stage[a] \notin {"idle", "inline"})
    BY <1>3, CallBegins
  <2>2. StacksTyped'
    BY <1>1, <1>3, CallBegins, Beginning
  <2>3. FlagsAreFlags'
    BY <2>1 DEF FlagsAreFlags, SockTyped
  <2>4. CodeTyped'
    BY <2>1 DEF CodeTyped, SockTyped
  <2>5. TablesTyped'
    BY <2>1 DEF TablesTyped, SockTyped, Winsock!Module
  <2>6. sockReported' \in [User -> Nat] /\ alone' \in [User -> BOOLEAN]
    BY <2>1 DEF SockTyped
  <2> QED
    BY <2>2, <2>3, <2>4, <2>5, <2>6 DEF SockTyped
<1>4. CASE Winsock!Enter(t)
  BY <1>1, <1>2, <1>4, EnterTurns, SettledTyped
<1>5. CASE Winsock!RaiseMark(t)
  BY <1>1, <1>2, <1>5, RaiseTurns, SettledTyped
<1>6. CASE Winsock!Report(t)
  <2>1. /\ mark' = (mark /\ Winsock!W.holds) /\ StacksTyped'
        /\ UNCHANGED <<fn, told, hooked, bytes, patch, original, import, remembered, present, stage,
                        alone, disturbed, unprotected>>
    BY <1>2, <1>6, ReportTurns
  <2>2. mark' \in BOOLEAN
    BY <2>1
  <2>3. FlagsAreFlags'
    BY <2>1, <2>2 DEF FlagsAreFlags, SockTyped
  <2>4. CodeTyped'
    BY <2>1 DEF CodeTyped, SockTyped
  <2>5. TablesTyped'
    BY <2>1 DEF TablesTyped, SockTyped, Winsock!Module
  <2>6. sockReported' \in [User -> Nat] /\ alone' \in [User -> BOOLEAN]
    BY <1>6, <2>1, ReportedTyped DEF SockTyped
  <2> QED
    BY <2>1, <2>3, <2>4, <2>5, <2>6 DEF SockTyped
<1>7. CASE Winsock!Lift(t)
  BY <1>1, <1>2, <1>7, LiftTurns, SettledTyped
<1>8. CASE Winsock!Restore(t)
  <2>1. PICK g \in Frames :
              /\ Winsock!Become(t, g)
              /\ \/ bytes' = patch.saved /\ UNCHANGED unprotected
                 \/ unprotected' = TRUE /\ UNCHANGED bytes
    BY <1>8, RestoreTurns
  <2>2. stack[t] # <<>> /\ UNCHANGED mark /\ Settled
    BY <1>8, RestoreTurns
  <2>3. StacksTyped' /\ mark' \in BOOLEAN /\ unprotected' \in BOOLEAN
    BY <1>1, <1>2, <2>1, <2>2
  <2>4. bytes' \in {"own", "jump"}
    BY <1>1, <1>8, <2>1
  <2> QED
    BY <2>2, <2>3, <2>4, SettledTyped
<1>9. CASE Winsock!CallTarget(t) \/ Winsock!CallGate(t)
  <2>1. stack[t] # <<>> /\ UNCHANGED <<bytes, mark, unprotected>> /\ Settled
    BY <1>9, CallTurns
  <2>2. PICK g \in Frames :
            \/ Winsock!Become(t, g)
            \/ /\ Len(stack[t]) # WrapMax /\ Winsock!Frame(Winsock!Top(t).io) \in Frames
               /\ Nested(t, g, Winsock!Frame(Winsock!Top(t).io))
    BY <1>9, CallTurns
  <2>3. StacksTyped'
    BY <1>1, <1>2, <2>1, <2>2, Pushing DEF Nested
  <2> QED
    BY <1>1, <2>1, <2>3, SettledTyped
<1>10. CASE Winsock!Return(t)
  BY <1>1, <1>2, <1>10, ReturnTurns, SettledTyped
<1>11. CASE Winsock!Reinstall(t)
  <2>1. /\ stack[t] # <<>> /\ UNCHANGED mark /\ Settled /\ bytes' \in {"own", "jump"} /\ unprotected' \in BOOLEAN
    BY <1>1, <1>11, ReinstallTurns
  <2>2. StacksTyped'
    BY <1>2, <1>11, ReinstallTurns
  <2> QED
    BY <1>1, <2>1, <2>2, SettledTyped
<1>12. CASE Winsock!After(t)
  BY <1>1, <1>2, <1>12, AfterTurns, SettledTyped
<1>13. CASE Winsock!Leave(t)
  <2>1. stack[t] # <<>> /\ UNCHANGED <<bytes, unprotected>> /\ Settled /\ mark' \in BOOLEAN
    BY <1>13, LeaveTurns
  <2>2. StacksTyped'
    BY <1>1, <1>13, LeaveTurns, Popping
  <2> QED
    BY <1>1, <2>1, <2>2, SettledTyped
<1> QED
  BY <1>3, <1>4, <1>5, <1>6, <1>7, <1>8, <1>9, <1>10, <1>11, <1>12, <1>13
     DEF Winsock!ClientStep

\* What the steps of the installers change besides the copies, the tables and their places.
InstallerMoves == UNCHANGED <<fn, mark, stack, socketCalls, sockReported, unprotected>>

\* The steps that install and remove the hooks keep the types.
LEMMA InstallerTyped ==
  ASSUME SockTyped, StacksTyped, InstallerMoves, alone' = [t \in User |-> FALSE],
         told' \in BOOLEAN, hooked' \in BOOLEAN, disturbed' \in BOOLEAN,
         bytes' \in {"own", "jump"}, patch' \in [active : BOOLEAN, saved : Copies, gate : Copies],
         original' \in {"none", "export", "gate"},
         import' \in [Winsock!Module -> {"hook", "export", "gate"}],
         remembered' \in [Winsock!Module -> {"none", "export", "gate"}],
         present' \subseteq Winsock!Module,
         NEW a, NEW x \in Stages, stage' = [stage EXCEPT ![a] = x]
  PROVE  SockTyped'
<1>1. StacksTyped'
  BY DEF InstallerMoves, StacksTyped
<1>2. FlagsAreFlags'
  BY DEF InstallerMoves, SockTyped, FlagsAreFlags
<1>3. CodeTyped'
  BY DEF InstallerMoves, SockTyped, CodeTyped
<1>4. stage' \in [Installers -> Stages]
  BY DEF SockTyped, TablesTyped
<1>5. TablesTyped'
  BY <1>4 DEF TablesTyped, Winsock!Module
<1>6. sockReported' \in [User -> Nat] /\ alone' \in [User -> BOOLEAN]
  BY DEF InstallerMoves, SockTyped
<1> QED
  BY <1>1, <1>2, <1>3, <1>5, <1>6 DEF SockTyped

\* Each step of an installer, with what it leaves alone spelt out.
LEMMA SetHookMoves ==
  ASSUME Winsock!SetHook
  PROVE  /\ stage["loop"] = "idle" /\ ~hooked /\ told' = TRUE
         /\ remembered' = [m \in Winsock!Module |-> "none"]
         /\ patch' = [active |-> FALSE, saved |-> "none", gate |-> "none"]
         /\ stage' = [stage EXCEPT !["loop"] = "tables"] /\ alone' = [t \in User |-> FALSE]
         /\ UNCHANGED <<hooked, bytes, original, import, present, disturbed>> /\ InstallerMoves
BY DEF Winsock!SetHook, Winsock!Moves, Winsock!Stirs, Winsock!Rest, Winsock!thread,
       Winsock!None, Winsock!NoPatch, InstallerMoves

\* A module is loaded.
LEMMA LoadMoves ==
  ASSUME NEW m, Winsock!Load(m)
  PROVE  /\ stage["loader"] = "idle" /\ present' = present \cup {m}
         /\ \/ hooked /\ stage' = [stage EXCEPT !["loader"] = "tables"]
            \/ UNCHANGED stage
         /\ disturbed' = (disturbed \/ stage["loop"] \in {"unpatch", "clear"}) /\ alone' = [t \in User |-> FALSE]
         /\ UNCHANGED <<told, hooked, bytes, patch, original, import, remembered>> /\ InstallerMoves
BY DEF Winsock!Load, Winsock!Moves, Winsock!Stirs, Winsock!Rest, Winsock!thread,
       Winsock!own, InstallerMoves

\* The import tables are patched.
LEMMA PatchTablesMoves ==
  ASSUME NEW a, Winsock!PatchTables(a)
  PROVE  /\ stage[a] = "tables"
         /\ \E P \in SUBSET present :
              /\ \A m \in P : import[m] # "hook"
              /\ import' = [m \in Winsock!Module |-> IF m \in P THEN "hook" ELSE import[m]]
              /\ remembered' = [m \in Winsock!Module |->
                                  IF m \in P /\ remembered[m] = "none" THEN import[m] ELSE remembered[m]]
              /\ \/ UNCHANGED original
                 \/ original = "none" /\ \E m \in P : original' = import[m]
         /\ hooked' = (hooked \/ a = "loop")
         /\ stage' = [stage EXCEPT ![a] = "inline"] /\ alone' = [t \in User |-> FALSE]
         /\ UNCHANGED <<told, bytes, patch, present, disturbed>> /\ InstallerMoves
<1> DEFINE P == {m \in IF a = "loop" THEN present ELSE present \cap Late : import[m] # "hook"}
<1>1. P \in SUBSET present /\ \A m \in P : import[m] # "hook"
  OBVIOUS
<1>2. /\ import' = [m \in Winsock!Module |-> IF m \in P THEN "hook" ELSE import[m]]
      /\ remembered' = [m \in Winsock!Module |->
                                  IF m \in P /\ remembered[m] = "none" THEN import[m] ELSE remembered[m]]
      /\ IF original = "none" /\ P # {} THEN \E m \in P : original' = import[m] ELSE UNCHANGED original
      /\ stage[a] = "tables" /\ hooked' = (hooked \/ a = "loop")
      /\ stage' = [stage EXCEPT ![a] = "inline"] /\ alone' = [t \in User |-> FALSE]
      /\ UNCHANGED <<told, bytes, patch, present, disturbed>> /\ InstallerMoves
  BY DEF Winsock!PatchTables, Winsock!Moves, Winsock!Stirs, Winsock!Rest, Winsock!thread,
         Winsock!None, InstallerMoves
<1> HIDE DEF P
<1> QED
  BY <1>1, <1>2

\* There is nothing to patch, or it is patched already.
LEMMA InlineSkipMoves ==
  ASSUME NEW a, Winsock!InlineSkip(a)
  PROVE  /\ stage[a] = "inline" /\ original' = IF patch.active /\ hooked THEN "gate" ELSE original
         /\ stage' = [stage EXCEPT ![a] = "idle"] /\ alone' = [t \in User |-> FALSE]
         /\ UNCHANGED <<told, hooked, bytes, patch, import, remembered, present, disturbed>> /\ InstallerMoves
BY DEF Winsock!InlineSkip, Winsock!Moves, Winsock!Stirs, Winsock!Rest, Winsock!thread,
       Winsock!tables, InstallerMoves

\* A function is found that can be patched.
LEMMA InlineCheckedMoves ==
  ASSUME NEW a, Winsock!InlineChecked(a)
  PROVE  /\ stage[a] = "inline" /\ ~patch.active /\ bytes = "own" /\ hooked
         /\ disturbed' = (disturbed \/ (\E t \in User : stack[t] # <<>>)
                                    \/ \E b \in Installers : stage[b] \in {"write", "track", "unpatch", "clear"})
         /\ stage' = [stage EXCEPT ![a] = "write"] /\ alone' = [t \in User |-> FALSE]
         /\ UNCHANGED <<told, hooked, bytes, patch, original, import, remembered, present>> /\ InstallerMoves
BY DEF Winsock!InlineChecked, Winsock!Moves, Winsock!Stirs, Winsock!Rest, Winsock!thread,
       Winsock!tables, Winsock!own, Winsock!Running, Winsock!Installer, Installers,
       InstallerMoves

\* The jump is written.
LEMMA WriteJumpMoves ==
  ASSUME NEW a, Winsock!WriteJump(a)
  PROVE  /\ stage[a] = "write" /\ patch' = [active |-> FALSE, saved |-> bytes, gate |-> bytes] /\ bytes' = "jump"
         /\ stage' = [stage EXCEPT ![a] = "track"] /\ alone' = [t \in User |-> FALSE]
         /\ UNCHANGED <<told, hooked, original, import, remembered, present, disturbed>> /\ InstallerMoves
BY DEF Winsock!WriteJump, Winsock!Moves, Winsock!Stirs, Winsock!Rest, Winsock!thread,
       Winsock!tables, InstallerMoves

\* The patch is remembered.
LEMMA TrackMoves ==
  ASSUME NEW a, Winsock!TrackInlinePatch(a)
  PROVE  /\ stage[a] = "track" /\ original' = "gate" /\ patch' = [patch EXCEPT !.active = TRUE]
         /\ stage' = [stage EXCEPT ![a] = "idle"] /\ alone' = [t \in User |-> FALSE]
         /\ UNCHANGED <<told, hooked, bytes, import, remembered, present, disturbed>> /\ InstallerMoves
BY DEF Winsock!TrackInlinePatch, Winsock!Moves, Winsock!Stirs, Winsock!Rest, Winsock!thread,
       Winsock!tables, InstallerMoves

\* A hook is removed from the tables.
LEMMA RemoveHookMoves ==
  ASSUME Winsock!RemoveHook
  PROVE  /\ stage["loop"] = "idle" /\ hooked
         /\ import' = [m \in Winsock!Module |-> IF m \notin present THEN import[m]
                                 ELSE IF remembered[m] # "none" THEN remembered[m]
                                 ELSE IF original # "none" THEN original ELSE import[m]]
         /\ disturbed' = (disturbed \/ (\E t \in User : stack[t] # <<>>) \/ stage["loader"] # "idle"
                                    \/ \E m \in present : remembered[m] = "none")
         /\ stage' = [stage EXCEPT !["loop"] = "unpatch"] /\ alone' = [t \in User |-> FALSE]
         /\ UNCHANGED <<told, hooked, bytes, patch, original, remembered, present>> /\ InstallerMoves
BY DEF Winsock!RemoveHook, Winsock!Moves, Winsock!Stirs, Winsock!Rest, Winsock!thread,
       Winsock!own, Winsock!Running, Winsock!None, InstallerMoves

\* The jumps are taken out.
LEMMA RemoveInlineMoves ==
  ASSUME Winsock!RemoveInlineHooks
  PROVE  /\ stage["loop"] = "unpatch"
         /\ IF patch.active
            THEN /\ bytes' = patch.saved /\ original' = "none"
                 /\ patch' = [active |-> FALSE, saved |-> "none", gate |-> "none"]
            ELSE UNCHANGED <<bytes, patch, original>>
         /\ stage' = [stage EXCEPT !["loop"] = "clear"] /\ alone' = [t \in User |-> FALSE]
         /\ UNCHANGED <<told, hooked, import, remembered, present, disturbed>> /\ InstallerMoves
BY DEF Winsock!RemoveInlineHooks, Winsock!Moves, Winsock!Stirs, Winsock!Rest,
       Winsock!thread, Winsock!own, Winsock!tables, Winsock!None, Winsock!NoPatch,
       InstallerMoves

\* Removing is done.
LEMMA RemoveDoneMoves ==
  ASSUME Winsock!RemoveDone
  PROVE  /\ stage["loop"] = "clear" /\ told' = FALSE /\ hooked' = FALSE
         /\ remembered' = [m \in Winsock!Module |-> "none"]
         /\ stage' = [stage EXCEPT !["loop"] = "idle"] /\ alone' = [t \in User |-> FALSE]
         /\ UNCHANGED <<bytes, patch, original, import, present, disturbed>> /\ InstallerMoves
BY DEF Winsock!RemoveDone, Winsock!Moves, Winsock!Stirs, Winsock!Rest, Winsock!thread,
       Winsock!own, Winsock!None, InstallerMoves

-----------------------------------------------------------------------------
(* What holds until a hook comes or goes under a call.                      *)

NoneRuns == \A t \in User : stack[t] = <<>>

\* One installer writes at a time, nobody removes meanwhile, and no call runs.
OneWrites ==
  \A a \in Installers : stage[a] \in {"write", "track"} =>
    /\ hooked /\ ~patch.active /\ NoneRuns
    /\ \A b \in Installers \ {a} : stage[b] \notin {"write", "track", "unpatch", "clear"}
    /\ stage[a] = "write" => bytes = "own"
    /\ stage[a] = "track" => bytes = "jump" /\ patch.saved = "own" /\ patch.gate = "own"

\* The loader hook only refreshes hooks that are in place and stay.
LoaderRefreshes ==
  /\ stage["loader"] \notin {"unpatch", "clear"}
  /\ stage["loader"] # "idle" => hooked /\ stage["loop"] \notin {"unpatch", "clear"}

\* Without hooks the code and the imports are the program's, and no wrapper is met.
HookedFirst ==
  /\ stage["loop"] = "tables" => ~hooked
  /\ stage["loop"] \in {"unpatch", "clear"} => hooked
  /\ ~hooked \/ stage["loop"] \in {"unpatch", "clear"} =>
       NoneRuns /\ \A m \in Winsock!Module : import[m] = "export"
  /\ ~hooked \/ stage["loop"] = "clear" => ~patch.active /\ bytes = "own"

\* The tables hold what they held before, or the hook.
TablesKnown ==
  \A m \in Winsock!Module :
    import[m] \in {"hook", "export"} /\ remembered[m] \in {"none", "export"} /\ (m \notin present => import[m] = "export")

\* The copies are of the function's own bytes.
CopyKnown ==
  /\ patch.saved # "jump" /\ patch.gate # "jump"
  /\ patch.active => patch.saved = "own" /\ patch.gate = "own" /\ original = "gate"
  /\ ~patch.active => /\ original \in {"none", "export"}
                      /\ bytes = "own" \/ \E a \in Installers : stage[a] = "track"

\* The jump is lifted only where there is one, and only around the call.
FrameFits(f) ==
  /\ f.at \in {"restore", "back"} \/ f.lifted => patch.active
  /\ f.lifted => f.at \in {"call", "inside", "crashed", "back"}

FramesFit == \A t \in User : \A i \in DOMAIN stack[t] : FrameFits(stack[t][i])

JumpIsBack ==
  patch.active /\ ~unprotected =>
    bytes = "jump" \/ \E t \in User : \E i \in DOMAIN stack[t] : stack[t][i].lifted

Places == OneWrites /\ LoaderRefreshes /\ HookedFirst
Calm   == Places /\ TablesKnown /\ CopyKnown /\ FramesFit /\ JumpIsBack

\* Before any hook the code and the tables are the program's.
LEMMA InitCalm ==
  ASSUME Winsock!Init
  PROVE  Calm
<1>1. /\ hooked = FALSE /\ bytes = "own" /\ patch = [active |-> FALSE, saved |-> "none", gate |-> "none"]
      /\ original = "none" /\ \A m \in Winsock!Module : import[m] = "export" /\ remembered[m] = "none"
      /\ \A a \in Installers : stage[a] = "idle"
      /\ \A t \in User : stack[t] = <<>>
  BY DEF Winsock!Init, Winsock!NoPatch, Winsock!None, Winsock!Installer, Installers
<1>2. NoneRuns
  BY <1>1 DEF NoneRuns
<1>3. Places
  BY <1>1, <1>2 DEF Places, OneWrites, LoaderRefreshes, HookedFirst, Installers
<1>4. TablesKnown /\ CopyKnown /\ JumpIsBack
  BY <1>1 DEF TablesKnown, CopyKnown, JumpIsBack
<1>5. FramesFit
  BY <1>1 DEF FramesFit
<1> QED
  BY <1>3, <1>4, <1>5 DEF Calm

\* A place that only one installer changes.
LEMMA StageMoves ==
  ASSUME TablesTyped, NEW a \in Installers, NEW x \in Stages, stage' = [stage EXCEPT ![a] = x]
  PROVE  stage'[a] = x /\ \A b \in Installers : b # a => stage'[b] = stage[b]
BY DEF TablesTyped

\* A thread in no call is in order.
LEMMA NoFramesFit ==
  ASSUME NoneRuns, UNCHANGED stack
  PROVE  NoneRuns' /\ FramesFit'
<1>1. \A t \in User : stack'[t] = <<>>
  BY DEF NoneRuns
<1>2. NoneRuns'
  BY <1>1 DEF NoneRuns
<1>3. FramesFit'
  BY <1>1 DEF FramesFit
<1> QED
  BY <1>2, <1>3

\* Setting the hook keeps all this.
LEMMA SetHookKeeps ==
  ASSUME SockTyped, Calm, Winsock!SetHook
  PROVE  SockTyped' /\ Calm'
<1>1. /\ stage["loop"] = "idle" /\ ~hooked /\ told' = TRUE
      /\ remembered' = [m \in Winsock!Module |-> "none"] /\ patch' = [active |-> FALSE, saved |-> "none", gate |-> "none"]
      /\ stage' = [stage EXCEPT !["loop"] = "tables"] /\ alone' = [t \in User |-> FALSE]
      /\ UNCHANGED <<hooked, bytes, original, import, present, disturbed>> /\ InstallerMoves
  BY SetHookMoves
<1>2. Places /\ TablesKnown /\ CopyKnown /\ TablesTyped /\ StacksTyped
  BY DEF Calm, SockTyped
<1>3. stage'["loop"] = "tables" /\ stage'["loader"] = stage["loader"] /\ stage["loader"] = "idle"
  BY <1>1, <1>2, StageMoves DEF Installers, Stages, Places, LoaderRefreshes
<1>4. NoneRuns /\ ~patch.active /\ bytes = "own" /\ \A m \in Winsock!Module : import[m] = "export"
  BY <1>1, <1>2 DEF Places, HookedFirst
<1>5. UNCHANGED <<stack, unprotected>>
  BY <1>1 DEF InstallerMoves
<1>6. NoneRuns' /\ FramesFit'
  BY <1>4, <1>5, NoFramesFit
<1>7. Places'
  BY <1>1, <1>3, <1>4, <1>6
     DEF Places, OneWrites, LoaderRefreshes, HookedFirst, Installers, Winsock!Module
<1>8. TablesKnown'
  BY <1>1, <1>2 DEF TablesKnown, Winsock!Module
<1>9. CopyKnown' /\ JumpIsBack'
  BY <1>1, <1>2, <1>4 DEF CopyKnown, JumpIsBack
<1>10. SockTyped'
  <2>1. /\ hooked \in BOOLEAN /\ disturbed \in BOOLEAN /\ original \in {"none", "export", "gate"}
        /\ bytes \in {"own", "jump"}
        /\ import \in [Winsock!Module -> {"hook", "export", "gate"}] /\ present \subseteq Winsock!Module
    BY DEF SockTyped, FlagsAreFlags, CodeTyped, TablesTyped
  <2>2. /\ patch' \in [active : BOOLEAN, saved : Copies, gate : Copies] /\ "tables" \in Stages
        /\ remembered' \in [Winsock!Module -> {"none", "export", "gate"}]
    BY <1>1 DEF Copies, Stages
  <2> QED
    BY <1>1, <1>2, <2>1, <2>2, InstallerTyped
<1> QED
  BY <1>6, <1>7, <1>8, <1>9, <1>10 DEF Calm

\* Loading a module keeps it.
LEMMA LoadKeeps ==
  ASSUME SockTyped, Calm, NEW m \in Late, Winsock!Load(m)
  PROVE  SockTyped' /\ (disturbed' \/ Calm')
<1>1. /\ stage["loader"] = "idle" /\ present' = present \cup {m}
      /\ (hooked /\ stage' = [stage EXCEPT !["loader"] = "tables"]) \/ UNCHANGED stage
      /\ disturbed' = (disturbed \/ stage["loop"] \in {"unpatch", "clear"}) /\ alone' = [t \in User |-> FALSE]
      /\ UNCHANGED <<told, hooked, bytes, patch, original, import, remembered>> /\ InstallerMoves
  BY LoadMoves
<1>2. Places /\ TablesKnown /\ CopyKnown /\ TablesTyped /\ StacksTyped /\ FramesFit /\ JumpIsBack
  BY DEF Calm, SockTyped
<1>3. PICK x \in {"idle", "tables"} : stage' = [stage EXCEPT !["loader"] = x] /\ (x = "tables" => hooked)
  <2>1. CASE UNCHANGED stage
    <3>1. stage = [stage EXCEPT !["loader"] = "idle"]
      BY <1>1, <1>2 DEF TablesTyped
    <3> QED
      BY <2>1, <3>1
  <2>2. CASE hooked /\ stage' = [stage EXCEPT !["loader"] = "tables"]
    BY <2>2
  <2> QED
    BY <1>1, <2>1, <2>2
<1>4. stage'["loader"] = x /\ stage'["loop"] = stage["loop"] /\ x \in Stages
  BY <1>2, <1>3, StageMoves DEF Installers, Stages
<1>5. UNCHANGED <<stack, unprotected>>
  BY <1>1 DEF InstallerMoves
<1>6. NoneRuns' <=> NoneRuns
  BY <1>5 DEF NoneRuns
<1>7. ASSUME ~disturbed' PROVE Places'
  <2>1. stage["loop"] \notin {"unpatch", "clear"}
    BY <1>1, <1>7
  <2>2. LoaderRefreshes'
    BY <1>1, <1>2, <1>3, <1>4, <2>1 DEF Places, LoaderRefreshes
  <2>3. HookedFirst'
    BY <1>1, <1>2, <1>4, <1>6, <2>1 DEF Places, HookedFirst, Winsock!Module
  <2>4. OneWrites'
    BY <1>1, <1>2, <1>3, <1>4, <1>6, <2>1 DEF Places, OneWrites, Installers
  <2> QED
    BY <2>2, <2>3, <2>4 DEF Places
<1>8. TablesKnown'
  BY <1>1, <1>2 DEF TablesKnown, Winsock!Module
<1>9. FramesFit' /\ JumpIsBack'
  BY <1>1, <1>2, <1>5 DEF FramesFit, FrameFits, JumpIsBack
<1>10. CopyKnown'
  BY <1>1, <1>2, <1>4 DEF CopyKnown, Installers
<1>11. SockTyped'
  <2>1. /\ told \in BOOLEAN /\ hooked \in BOOLEAN /\ disturbed' \in BOOLEAN /\ original \in {"none", "export", "gate"}
        /\ bytes \in {"own", "jump"} /\ patch \in [active : BOOLEAN, saved : Copies, gate : Copies]
        /\ import \in [Winsock!Module -> {"hook", "export", "gate"}]
        /\ remembered \in [Winsock!Module -> {"none", "export", "gate"}] /\ present' \subseteq Winsock!Module
    BY <1>1 DEF SockTyped, FlagsAreFlags, CodeTyped, TablesTyped, Winsock!Module
  <2> QED
    BY <1>1, <1>2, <1>3, <1>4, <2>1, InstallerTyped
<1> QED
  BY <1>7, <1>8, <1>9, <1>10, <1>11 DEF Calm

\* Patching the tables keeps it.
LEMMA PatchTablesKeeps ==
  ASSUME SockTyped, Calm, NEW a \in Installers, Winsock!PatchTables(a)
  PROVE  SockTyped' /\ Calm'
<1>1. /\ stage[a] = "tables" /\ hooked' = (hooked \/ a = "loop")
      /\ stage' = [stage EXCEPT ![a] = "inline"] /\ alone' = [t \in User |-> FALSE]
      /\ UNCHANGED <<told, bytes, patch, present, disturbed>> /\ InstallerMoves
  BY PatchTablesMoves
<1>2. PICK P \in SUBSET present :
              /\ \A m \in P : import[m] # "hook"
              /\ import' = [m \in Winsock!Module |-> IF m \in P THEN "hook" ELSE import[m]]
              /\ remembered' = [m \in Winsock!Module |->
                                  IF m \in P /\ remembered[m] = "none" THEN import[m] ELSE remembered[m]]
              /\ \/ UNCHANGED original
                 \/ original = "none" /\ \E m \in P : original' = import[m]
  BY PatchTablesMoves
<1>3. Places /\ TablesKnown /\ CopyKnown /\ TablesTyped /\ StacksTyped /\ FramesFit /\ JumpIsBack
  BY DEF Calm, SockTyped
<1>4. stage'[a] = "inline" /\ \A b \in Installers : b # a => stage'[b] = stage[b]
  BY <1>1, <1>3, StageMoves DEF Stages
<1>5. UNCHANGED <<stack, unprotected>>
  BY <1>1 DEF InstallerMoves
<1>6. (NoneRuns' <=> NoneRuns) /\ hooked'
  <2>1. stage["loop"] # "tables" => hooked
    BY <1>1, <1>3 DEF Places, LoaderRefreshes, Installers
  <2> QED
    BY <1>1, <1>3, <1>5, <2>1 DEF NoneRuns, Places, LoaderRefreshes, Installers
<1>7. stage["loop"] \notin {"unpatch", "clear"} /\ stage'["loop"] \notin {"unpatch", "clear", "tables"}
  BY <1>1, <1>3, <1>4 DEF Places, LoaderRefreshes, HookedFirst, Installers
<1>8. Places'
  <2>1. LoaderRefreshes' /\ HookedFirst'
    BY <1>1, <1>3, <1>4, <1>6, <1>7 DEF Places, LoaderRefreshes, HookedFirst, Installers
  <2>2. OneWrites'
    BY <1>1, <1>3, <1>4, <1>6 DEF Places, OneWrites
  <2> QED
    BY <2>1, <2>2 DEF Places
<1>9. \A m \in P : import[m] = "export" /\ m \in present /\ m \in Winsock!Module
  BY <1>2, <1>3 DEF TablesKnown, TablesTyped
<1>10. TablesKnown'
  BY <1>1, <1>2, <1>3, <1>9 DEF TablesKnown, Winsock!Module
<1>11. FramesFit' /\ JumpIsBack'
  BY <1>1, <1>3, <1>5 DEF FramesFit, FrameFits, JumpIsBack
<1>12. CopyKnown'
  <2>1. original' = original \/ (original = "none" /\ original' = "export")
    BY <1>2, <1>9
  <2>2. \A b \in Installers : stage[b] = "track" => stage'[b] = "track"
    BY <1>1, <1>4
  <2> QED
    BY <1>1, <1>3, <2>1, <2>2 DEF CopyKnown
<1>13. SockTyped'
  <2>1. /\ told \in BOOLEAN /\ hooked' \in BOOLEAN /\ disturbed \in BOOLEAN
        /\ bytes \in {"own", "jump"} /\ patch \in [active : BOOLEAN, saved : Copies, gate : Copies]
        /\ present \subseteq Winsock!Module /\ "inline" \in Stages
    BY <1>1 DEF SockTyped, FlagsAreFlags, CodeTyped, TablesTyped, Stages
  <2>2. original' \in {"none", "export", "gate"}
    BY <1>2, <1>9 DEF SockTyped, CodeTyped
  <2>3. import' \in [Winsock!Module -> {"hook", "export", "gate"}]
    BY <1>2, <1>3 DEF TablesTyped
  <2>4. remembered' \in [Winsock!Module -> {"none", "export", "gate"}]
    BY <1>2, <1>3, <1>9 DEF TablesTyped
  <2> QED
    BY <1>1, <1>3, <2>1, <2>2, <2>3, <2>4, InstallerTyped
<1> QED
  BY <1>8, <1>10, <1>11, <1>12, <1>13 DEF Calm

\* Having nothing to patch keeps it.
LEMMA InlineSkipKeeps ==
  ASSUME SockTyped, Calm, NEW a \in Installers, Winsock!InlineSkip(a)
  PROVE  SockTyped' /\ Calm'
<1>1. /\ stage[a] = "inline" /\ original' = (IF patch.active /\ hooked THEN "gate" ELSE original)
      /\ stage' = [stage EXCEPT ![a] = "idle"] /\ alone' = [t \in User |-> FALSE]
      /\ UNCHANGED <<told, hooked, bytes, patch, import, remembered, present, disturbed>> /\ InstallerMoves
  BY InlineSkipMoves
<1>2. Places /\ TablesKnown /\ CopyKnown /\ TablesTyped /\ StacksTyped /\ FramesFit /\ JumpIsBack
  BY DEF Calm, SockTyped
<1>3. stage'[a] = "idle" /\ \A b \in Installers : b # a => stage'[b] = stage[b]
  BY <1>1, <1>2, StageMoves DEF Stages
<1>4. UNCHANGED <<stack, unprotected>>
  BY <1>1 DEF InstallerMoves
<1>5. (NoneRuns' <=> NoneRuns) /\ original' = original
  BY <1>1, <1>2, <1>4 DEF NoneRuns, CopyKnown
<1>6. Places'
  <2>1. LoaderRefreshes' /\ HookedFirst'
    BY <1>1, <1>2, <1>3, <1>5
       DEF Places, LoaderRefreshes, HookedFirst, Installers, Winsock!Module
  <2>2. OneWrites'
    BY <1>1, <1>2, <1>3, <1>5 DEF Places, OneWrites
  <2> QED
    BY <2>1, <2>2 DEF Places
<1>7. TablesKnown' /\ FramesFit' /\ JumpIsBack'
  BY <1>1, <1>2, <1>4 DEF TablesKnown, FramesFit, FrameFits, JumpIsBack, Winsock!Module
<1>8. CopyKnown'
  BY <1>1, <1>2, <1>3, <1>5 DEF CopyKnown
<1>9. SockTyped'
  <2>1. /\ told \in BOOLEAN /\ hooked \in BOOLEAN /\ disturbed \in BOOLEAN /\ original \in {"none", "export", "gate"}
        /\ bytes \in {"own", "jump"} /\ patch \in [active : BOOLEAN, saved : Copies, gate : Copies]
        /\ import \in [Winsock!Module -> {"hook", "export", "gate"}] /\ "idle" \in Stages
        /\ remembered \in [Winsock!Module -> {"none", "export", "gate"}] /\ present \subseteq Winsock!Module
    BY DEF SockTyped, FlagsAreFlags, CodeTyped, TablesTyped, Stages
  <2> QED
    BY <1>1, <1>2, <1>5, <2>1, InstallerTyped
<1> QED
  BY <1>6, <1>7, <1>8, <1>9 DEF Calm

\* Checking a function keeps it.
LEMMA InlineCheckedKeeps ==
  ASSUME SockTyped, Calm, NEW a \in Installers, Winsock!InlineChecked(a)
  PROVE  SockTyped' /\ (disturbed' \/ Calm')
<1>1. /\ stage[a] = "inline" /\ ~patch.active /\ bytes = "own" /\ hooked
      /\ disturbed' = (disturbed \/ (\E t \in User : stack[t] # <<>>)
                                 \/ \E b \in Installers : stage[b] \in {"write", "track", "unpatch", "clear"})
      /\ stage' = [stage EXCEPT ![a] = "write"] /\ alone' = [t \in User |-> FALSE]
      /\ UNCHANGED <<told, hooked, bytes, patch, original, import, remembered, present>> /\ InstallerMoves
  BY InlineCheckedMoves
<1>2. Places /\ TablesKnown /\ CopyKnown /\ TablesTyped /\ StacksTyped /\ FramesFit /\ JumpIsBack
  BY DEF Calm, SockTyped
<1>3. stage'[a] = "write" /\ \A b \in Installers : b # a => stage'[b] = stage[b]
  BY <1>1, <1>2, StageMoves DEF Stages
<1>4. UNCHANGED <<stack, unprotected>>
  BY <1>1 DEF InstallerMoves
<1>5. NoneRuns' <=> NoneRuns
  BY <1>4 DEF NoneRuns
<1>6. ASSUME ~disturbed' PROVE Places'
  <2>1. NoneRuns /\ \A b \in Installers : stage[b] \notin {"write", "track", "unpatch", "clear"}
    BY <1>1, <1>6 DEF NoneRuns
  <2>2. LoaderRefreshes' /\ HookedFirst'
    BY <1>1, <1>2, <1>3, <1>5, <2>1
       DEF Places, LoaderRefreshes, HookedFirst, Installers, Winsock!Module
  <2>3. OneWrites'
    BY <1>1, <1>3, <1>5, <2>1 DEF OneWrites
  <2> QED
    BY <2>2, <2>3 DEF Places
<1>7. TablesKnown' /\ FramesFit' /\ JumpIsBack'
  BY <1>1, <1>2, <1>4 DEF TablesKnown, FramesFit, FrameFits, JumpIsBack, Winsock!Module
<1>8. CopyKnown'
  BY <1>1, <1>2, <1>3 DEF CopyKnown
<1>9. SockTyped'
  <2>1. /\ told \in BOOLEAN /\ hooked \in BOOLEAN /\ disturbed' \in BOOLEAN /\ original \in {"none", "export", "gate"}
        /\ bytes \in {"own", "jump"} /\ patch \in [active : BOOLEAN, saved : Copies, gate : Copies]
        /\ import \in [Winsock!Module -> {"hook", "export", "gate"}] /\ "write" \in Stages
        /\ remembered \in [Winsock!Module -> {"none", "export", "gate"}] /\ present \subseteq Winsock!Module
    BY <1>1 DEF SockTyped, FlagsAreFlags, CodeTyped, TablesTyped, Stages
  <2> QED
    BY <1>1, <1>2, <2>1, InstallerTyped
<1> QED
  BY <1>6, <1>7, <1>8, <1>9 DEF Calm

\* Writing the jump keeps it.
LEMMA WriteJumpKeeps ==
  ASSUME SockTyped, Calm, NEW a \in Installers, Winsock!WriteJump(a)
  PROVE  SockTyped' /\ Calm'
<1>1. /\ stage[a] = "write" /\ patch' = [active |-> FALSE, saved |-> bytes, gate |-> bytes] /\ bytes' = "jump"
      /\ stage' = [stage EXCEPT ![a] = "track"] /\ alone' = [t \in User |-> FALSE]
      /\ UNCHANGED <<told, hooked, original, import, remembered, present, disturbed>> /\ InstallerMoves
  BY WriteJumpMoves
<1>2. Places /\ TablesKnown /\ CopyKnown /\ TablesTyped /\ StacksTyped
  BY DEF Calm, SockTyped
<1>3. stage'[a] = "track" /\ \A b \in Installers : b # a => stage'[b] = stage[b]
  BY <1>1, <1>2, StageMoves DEF Stages
<1>4. UNCHANGED <<stack, unprotected>>
  BY <1>1 DEF InstallerMoves
<1>5. /\ hooked /\ ~patch.active /\ NoneRuns /\ bytes = "own"
      /\ \A b \in Installers \ {a} : stage[b] \notin {"write", "track", "unpatch", "clear"}
  BY <1>1, <1>2 DEF Places, OneWrites
<1>6. NoneRuns' /\ FramesFit'
  BY <1>4, <1>5, NoFramesFit
<1>7. patch'.active = FALSE /\ patch'.saved = "own" /\ patch'.gate = "own"
  BY <1>1, <1>5
<1>8. Places'
  <2>1. LoaderRefreshes' /\ HookedFirst'
    BY <1>1, <1>2, <1>3, <1>5, <1>6
       DEF Places, LoaderRefreshes, HookedFirst, Installers, Winsock!Module
  <2>2. OneWrites'
    BY <1>1, <1>3, <1>5, <1>6, <1>7 DEF OneWrites
  <2> QED
    BY <2>1, <2>2 DEF Places
<1>9. TablesKnown'
  BY <1>1, <1>2 DEF TablesKnown, Winsock!Module
<1>10. CopyKnown' /\ JumpIsBack'
  BY <1>1, <1>2, <1>3, <1>5, <1>7 DEF CopyKnown, JumpIsBack
<1>11. SockTyped'
  <2>1. /\ told \in BOOLEAN /\ hooked \in BOOLEAN /\ disturbed \in BOOLEAN /\ original \in {"none", "export", "gate"}
        /\ bytes' \in {"own", "jump"} /\ patch' \in [active : BOOLEAN, saved : Copies, gate : Copies]
        /\ import \in [Winsock!Module -> {"hook", "export", "gate"}] /\ "track" \in Stages
        /\ remembered \in [Winsock!Module -> {"none", "export", "gate"}] /\ present \subseteq Winsock!Module
    BY <1>1, <1>5 DEF SockTyped, FlagsAreFlags, CodeTyped, TablesTyped, Stages, Copies
  <2> QED
    BY <1>1, <1>2, <2>1, InstallerTyped
<1> QED
  BY <1>6, <1>8, <1>9, <1>10, <1>11 DEF Calm

\* Remembering the patch keeps it.
LEMMA TrackKeeps ==
  ASSUME SockTyped, Calm, NEW a \in Installers, Winsock!TrackInlinePatch(a)
  PROVE  SockTyped' /\ Calm'
<1>1. /\ stage[a] = "track" /\ original' = "gate" /\ patch' = [patch EXCEPT !.active = TRUE]
      /\ stage' = [stage EXCEPT ![a] = "idle"] /\ alone' = [t \in User |-> FALSE]
      /\ UNCHANGED <<told, hooked, bytes, import, remembered, present, disturbed>> /\ InstallerMoves
  BY TrackMoves
<1>2. Places /\ TablesKnown /\ CopyKnown /\ TablesTyped /\ StacksTyped /\ CodeTyped
  BY DEF Calm, SockTyped
<1>3. stage'[a] = "idle" /\ \A b \in Installers : b # a => stage'[b] = stage[b]
  BY <1>1, <1>2, StageMoves DEF Stages
<1>4. UNCHANGED <<stack, unprotected>>
  BY <1>1 DEF InstallerMoves
<1>5. /\ hooked /\ NoneRuns /\ bytes = "jump" /\ patch.saved = "own" /\ patch.gate = "own"
      /\ \A b \in Installers \ {a} : stage[b] \notin {"write", "track", "unpatch", "clear"}
  BY <1>1, <1>2 DEF Places, OneWrites
<1>6. NoneRuns' /\ FramesFit'
  BY <1>4, <1>5, NoFramesFit
<1>7. /\ patch' \in [active : BOOLEAN, saved : Copies, gate : Copies]
      /\ patch'.active = TRUE /\ patch'.saved = "own" /\ patch'.gate = "own"
  BY <1>1, <1>2, <1>5 DEF CodeTyped
<1>8. Places'
  <2>1. LoaderRefreshes' /\ HookedFirst'
    BY <1>1, <1>2, <1>3, <1>5, <1>6
       DEF Places, LoaderRefreshes, HookedFirst, Installers, Winsock!Module
  <2>2. OneWrites'
    BY <1>1, <1>3, <1>5, <1>6 DEF OneWrites
  <2> QED
    BY <2>1, <2>2 DEF Places
<1>9. TablesKnown'
  BY <1>1, <1>2 DEF TablesKnown, Winsock!Module
<1>10. CopyKnown' /\ JumpIsBack'
  BY <1>1, <1>5, <1>7 DEF CopyKnown, JumpIsBack
<1>11. SockTyped'
  <2>1. /\ told \in BOOLEAN /\ hooked \in BOOLEAN /\ disturbed \in BOOLEAN /\ original' \in {"none", "export", "gate"}
        /\ bytes \in {"own", "jump"}
        /\ import \in [Winsock!Module -> {"hook", "export", "gate"}] /\ "idle" \in Stages
        /\ remembered \in [Winsock!Module -> {"none", "export", "gate"}] /\ present \subseteq Winsock!Module
    BY <1>1 DEF SockTyped, FlagsAreFlags, CodeTyped, TablesTyped, Stages
  <2> QED
    BY <1>1, <1>2, <1>7, <2>1, InstallerTyped
<1> QED
  BY <1>6, <1>8, <1>9, <1>10, <1>11 DEF Calm

\* Removing the hook from the tables keeps it.
LEMMA RemoveHookKeeps ==
  ASSUME SockTyped, Calm, Winsock!RemoveHook
  PROVE  SockTyped' /\ (disturbed' \/ Calm')
<1>1. /\ stage["loop"] = "idle" /\ hooked
      /\ import' = [m \in Winsock!Module |-> IF m \notin present THEN import[m]
                                 ELSE IF remembered[m] # "none" THEN remembered[m]
                                 ELSE IF original # "none" THEN original ELSE import[m]]
      /\ disturbed' = (disturbed \/ (\E t \in User : stack[t] # <<>>) \/ stage["loader"] # "idle"
                                 \/ \E m \in present : remembered[m] = "none")
      /\ stage' = [stage EXCEPT !["loop"] = "unpatch"] /\ alone' = [t \in User |-> FALSE]
      /\ UNCHANGED <<told, hooked, bytes, patch, original, remembered, present>> /\ InstallerMoves
  BY RemoveHookMoves
<1>2. Places /\ TablesKnown /\ CopyKnown /\ TablesTyped /\ StacksTyped /\ CodeTyped /\ FramesFit /\ JumpIsBack
  BY DEF Calm, SockTyped
<1>3. stage'["loop"] = "unpatch" /\ stage'["loader"] = stage["loader"]
  BY <1>1, <1>2, StageMoves DEF Stages, Installers
<1>4. UNCHANGED <<stack, unprotected>>
  BY <1>1 DEF InstallerMoves
<1>5. NoneRuns' <=> NoneRuns
  BY <1>4 DEF NoneRuns
<1>6. ASSUME ~disturbed' PROVE Calm'
  <2>1. NoneRuns /\ stage["loader"] = "idle" /\ \A m \in present : remembered[m] # "none"
    BY <1>1, <1>6 DEF NoneRuns
  <2>2. \A m \in Winsock!Module : import'[m] = "export"
    BY <1>1, <1>2, <2>1 DEF TablesKnown
  <2>3. Places'
    BY <1>1, <1>3, <1>5, <2>1, <2>2
       DEF Places, OneWrites, LoaderRefreshes, HookedFirst, Installers, Winsock!Module
  <2>4. TablesKnown'
    BY <1>1, <1>2, <2>2 DEF TablesKnown, Winsock!Module
  <2>5. CopyKnown'
    BY <1>1, <1>2, <1>3, <2>1 DEF CopyKnown, Installers
  <2>6. FramesFit' /\ JumpIsBack'
    BY <1>1, <1>2, <1>4 DEF FramesFit, FrameFits, JumpIsBack
  <2> QED
    BY <2>3, <2>4, <2>5, <2>6 DEF Calm
<1>7. SockTyped'
  <2>1. /\ told \in BOOLEAN /\ hooked \in BOOLEAN /\ disturbed' \in BOOLEAN /\ original \in {"none", "export", "gate"}
        /\ bytes \in {"own", "jump"} /\ patch \in [active : BOOLEAN, saved : Copies, gate : Copies]
        /\ remembered \in [Winsock!Module -> {"none", "export", "gate"}] /\ present \subseteq Winsock!Module
        /\ "unpatch" \in Stages
    BY <1>1 DEF SockTyped, FlagsAreFlags, CodeTyped, TablesTyped, Stages
  <2>2. import' \in [Winsock!Module -> {"hook", "export", "gate"}]
    BY <1>1, <1>2 DEF TablesTyped, CodeTyped
  <2> QED
    BY <1>1, <1>2, <2>1, <2>2, InstallerTyped
<1> QED
  BY <1>6, <1>7

\* Taking the jumps out keeps it.
LEMMA RemoveInlineKeeps ==
  ASSUME SockTyped, Calm, Winsock!RemoveInlineHooks
  PROVE  SockTyped' /\ Calm'
<1>1. /\ stage["loop"] = "unpatch"
      /\ IF patch.active
            THEN /\ bytes' = patch.saved /\ original' = "none"
                 /\ patch' = [active |-> FALSE, saved |-> "none", gate |-> "none"]
            ELSE UNCHANGED <<bytes, patch, original>>
      /\ stage' = [stage EXCEPT !["loop"] = "clear"] /\ alone' = [t \in User |-> FALSE]
      /\ UNCHANGED <<told, hooked, import, remembered, present, disturbed>> /\ InstallerMoves
  BY RemoveInlineMoves
<1>2. Places /\ TablesKnown /\ CopyKnown /\ TablesTyped /\ StacksTyped /\ CodeTyped
  BY DEF Calm, SockTyped
<1>3. stage'["loop"] = "clear" /\ stage'["loader"] = stage["loader"] /\ stage["loader"] = "idle"
  BY <1>1, <1>2, StageMoves DEF Stages, Installers, Places, LoaderRefreshes
<1>4. UNCHANGED <<stack, unprotected>>
  BY <1>1 DEF InstallerMoves
<1>5. hooked /\ NoneRuns /\ \A m \in Winsock!Module : import[m] = "export"
  BY <1>1, <1>2 DEF Places, HookedFirst
<1>6. NoneRuns' /\ FramesFit'
  BY <1>4, <1>5, NoFramesFit
<1>7. /\ patch' \in [active : BOOLEAN, saved : Copies, gate : Copies] /\ bytes' = "own"
      /\ patch'.active = FALSE /\ patch'.saved # "jump" /\ patch'.gate # "jump" /\ original' \in {"none", "export"}
  <2>1. CASE patch.active
    <3>1. bytes' = "own" /\ original' = "none" /\ patch' = [active |-> FALSE, saved |-> "none", gate |-> "none"]
      BY <1>1, <1>2, <2>1 DEF CopyKnown
    <3> QED
      BY <3>1 DEF Copies
  <2>2. CASE ~patch.active
    <3>1. bytes = "own"
      BY <1>1, <1>2, <1>3, <2>2 DEF CopyKnown, Installers
    <3> QED
      BY <1>1, <1>2, <2>2, <3>1 DEF CopyKnown, CodeTyped
  <2> QED
    BY <2>1, <2>2
<1>8. Places'
  BY <1>1, <1>3, <1>5, <1>6, <1>7
     DEF Places, OneWrites, LoaderRefreshes, HookedFirst, Installers, Winsock!Module
<1>9. TablesKnown'
  BY <1>1, <1>2 DEF TablesKnown, Winsock!Module
<1>10. CopyKnown' /\ JumpIsBack'
  BY <1>7 DEF CopyKnown, JumpIsBack
<1>11. SockTyped'
  <2>1. /\ told \in BOOLEAN /\ hooked \in BOOLEAN /\ disturbed \in BOOLEAN /\ original' \in {"none", "export", "gate"}
        /\ bytes' \in {"own", "jump"} /\ "clear" \in Stages
        /\ import \in [Winsock!Module -> {"hook", "export", "gate"}]
        /\ remembered \in [Winsock!Module -> {"none", "export", "gate"}] /\ present \subseteq Winsock!Module
    BY <1>7 DEF SockTyped, FlagsAreFlags, CodeTyped, TablesTyped, Stages
  <2> QED
    BY <1>1, <1>2, <1>7, <2>1, InstallerTyped
<1> QED
  BY <1>6, <1>8, <1>9, <1>10, <1>11 DEF Calm

\* Being done keeps it.
LEMMA RemoveDoneKeeps ==
  ASSUME SockTyped, Calm, Winsock!RemoveDone
  PROVE  SockTyped' /\ Calm'
<1>1. /\ stage["loop"] = "clear" /\ told' = FALSE /\ hooked' = FALSE
      /\ remembered' = [m \in Winsock!Module |-> "none"]
      /\ stage' = [stage EXCEPT !["loop"] = "idle"] /\ alone' = [t \in User |-> FALSE]
      /\ UNCHANGED <<bytes, patch, original, import, present, disturbed>> /\ InstallerMoves
  BY RemoveDoneMoves
<1>2. Places /\ TablesKnown /\ CopyKnown /\ TablesTyped /\ StacksTyped /\ CodeTyped
  BY DEF Calm, SockTyped
<1>3. stage'["loop"] = "idle" /\ stage'["loader"] = stage["loader"] /\ stage["loader"] = "idle"
  BY <1>1, <1>2, StageMoves DEF Stages, Installers, Places, LoaderRefreshes
<1>4. UNCHANGED <<stack, unprotected>>
  BY <1>1 DEF InstallerMoves
<1>5. /\ NoneRuns /\ ~patch.active /\ bytes = "own" /\ \A m \in Winsock!Module : import[m] = "export"
  BY <1>1, <1>2 DEF Places, HookedFirst
<1>6. NoneRuns' /\ FramesFit'
  BY <1>4, <1>5, NoFramesFit
<1>7. Places'
  BY <1>1, <1>3, <1>5, <1>6
     DEF Places, OneWrites, LoaderRefreshes, HookedFirst, Installers, Winsock!Module
<1>8. TablesKnown'
  BY <1>1, <1>2 DEF TablesKnown, Winsock!Module
<1>9. CopyKnown' /\ JumpIsBack'
  BY <1>1, <1>2, <1>5 DEF CopyKnown, JumpIsBack
<1>10. SockTyped'
  <2>1. /\ disturbed \in BOOLEAN /\ original \in {"none", "export", "gate"}
        /\ bytes \in {"own", "jump"} /\ "idle" \in Stages
        /\ patch \in [active : BOOLEAN, saved : Copies, gate : Copies]
        /\ import \in [Winsock!Module -> {"hook", "export", "gate"}] /\ present \subseteq Winsock!Module
    BY DEF SockTyped, FlagsAreFlags, CodeTyped, TablesTyped, Stages
  <2>2. told' \in BOOLEAN /\ hooked' \in BOOLEAN /\ remembered' \in [Winsock!Module -> {"none", "export", "gate"}]
    BY <1>1
  <2> QED
    BY <1>1, <1>2, <2>1, <2>2, InstallerTyped
<1> QED
  BY <1>6, <1>7, <1>8, <1>9, <1>10 DEF Calm

-----------------------------------------------------------------------------
(* The calls keep it.                                                      *)

Copied == UNCHANGED <<hooked, patch, original, import, remembered, present, stage>>

SomeLifted == \E t \in User : \E i \in DOMAIN stack[t] : stack[t][i].lifted
MarkUp     == mark => \E t \in User : \E i \in DOMAIN stack[t] : stack[t][i].up

\* While a call runs no installer is between its looks and its writes.
LEMMA RunningCalm ==
  ASSUME Calm, NEW t \in User, stack[t] # <<>>
  PROVE  /\ hooked /\ stage["loop"] \notin {"unpatch", "clear"}
         /\ \A a \in Installers : stage[a] \notin {"write", "track"}
BY DEF Calm, Places, OneWrites, HookedFirst, NoneRuns

\* While no installer writes and nobody removes, the tables and the copies stay.
LEMMA PlacesKept ==
  ASSUME Calm, hooked, stage["loop"] \notin {"unpatch", "clear"},
         \A a \in Installers : stage[a] \notin {"write", "track"}, Copied
  PROVE  Places' /\ TablesKnown'
<1>1. Places /\ TablesKnown
  BY DEF Calm
<1>2. Places'
  BY <1>1 DEF Places, OneWrites, LoaderRefreshes, HookedFirst, Copied
<1>3. TablesKnown'
  BY <1>1 DEF TablesKnown, Copied, Winsock!Module
<1> QED
  BY <1>2, <1>3

\* A call that moves on keeps it, if the jump stays or comes back.
LEMMA TurnKeeps ==
  ASSUME SockTyped, Calm, Copied, NEW t \in User, stack[t] # <<>>, NEW g \in Frames, Winsock!Become(t, g),
         FrameFits(g), bytes' = bytes \/ patch.active,
         \/ patch.active /\ ~unprotected' => bytes' = "jump" \/ g.lifted
         \/ UNCHANGED <<bytes, unprotected>> /\ (Winsock!Top(t).lifted => g.lifted)
  PROVE  Calm'
<1>1. /\ \A u \in User : u # t => stack'[u] = stack[u]
      /\ Len(stack[t]) \in DOMAIN stack[t] /\ DOMAIN stack'[t] = DOMAIN stack[t]
      /\ stack'[t][Len(stack[t])] = g
      /\ \A i \in DOMAIN stack[t] : i # Len(stack[t]) => stack'[t][i] = stack[t][i]
  BY Becoming DEF SockTyped
<1>2. CopyKnown /\ FramesFit /\ JumpIsBack
  BY DEF Calm
<1>3. Places' /\ TablesKnown'
  BY RunningCalm, PlacesKept
<1>4. CopyKnown'
  <2>1. \A a \in Installers : stage[a] # "track"
    BY RunningCalm
  <2> QED
    BY <1>2, <2>1 DEF CopyKnown, Copied
<1>5. FramesFit'
  <2>1. \A f : FrameFits(f)' <=> FrameFits(f)
    BY DEF FrameFits, Copied
  <2>2. \A u \in User : \A i \in DOMAIN stack'[u] : FrameFits(stack'[u][i])
    BY <1>1, <1>2 DEF FramesFit
  <2> QED
    BY <2>2 DEF FramesFit, FrameFits, Copied
<1>6. SomeLifted /\ (Winsock!Top(t).lifted => g.lifted) => SomeLifted'
  <2> SUFFICES ASSUME NEW u \in User, NEW i \in DOMAIN stack[u], stack[u][i].lifted,
                      Winsock!Top(t).lifted => g.lifted
               PROVE  SomeLifted'
    BY DEF SomeLifted
  <2>1. CASE u = t /\ i = Len(stack[t])
    BY <1>1, <2>1 DEF SomeLifted, Winsock!Top
  <2>2. CASE ~(u = t /\ i = Len(stack[t]))
    BY <1>1, <2>2 DEF SomeLifted
  <2> QED
    BY <2>1, <2>2
<1>7. g.lifted => SomeLifted'
  BY <1>1 DEF SomeLifted
<1>8. JumpIsBack <=> (patch.active /\ ~unprotected => bytes = "jump" \/ SomeLifted)
  BY DEF JumpIsBack, SomeLifted
<1>9. JumpIsBack' <=> (patch'.active /\ ~unprotected' => bytes' = "jump" \/ SomeLifted')
  BY DEF JumpIsBack, SomeLifted
<1>10. patch' = patch
  BY DEF Copied
<1>11. JumpIsBack'
  BY <1>2, <1>6, <1>7, <1>8, <1>9, <1>10
<1> QED
  BY <1>3, <1>4, <1>5, <1>11 DEF Calm

\* And the mark is up as it should be.
LEMMA TurnMarks ==
  ASSUME SockTyped, MarkUp, NEW t \in User, stack[t] # <<>>, NEW g \in Frames, Winsock!Become(t, g),
         mark' => g.up \/ (mark /\ (Winsock!Top(t).up => g.up))
  PROVE  MarkUp'
<1>1. /\ \A u \in User : u # t => stack'[u] = stack[u]
      /\ Len(stack[t]) \in DOMAIN stack[t] /\ DOMAIN stack'[t] = DOMAIN stack[t]
      /\ stack'[t][Len(stack[t])] = g
      /\ \A i \in DOMAIN stack[t] : i # Len(stack[t]) => stack'[t][i] = stack[t][i]
  BY Becoming DEF SockTyped
<1> SUFFICES ASSUME mark' PROVE \E u \in User : \E i \in DOMAIN stack'[u] : stack'[u][i].up
  BY DEF MarkUp
<1>2. CASE g.up
  BY <1>1, <1>2
<1>3. CASE mark /\ (Winsock!Top(t).up => g.up)
  <2>1. PICK u \in User : \E i \in DOMAIN stack[u] : stack[u][i].up
    BY <1>3 DEF MarkUp
  <2>2. PICK i \in DOMAIN stack[u] : stack[u][i].up
    BY <2>1
  <2>3. CASE u = t /\ i = Len(stack[t])
    BY <1>1, <1>3, <2>2, <2>3 DEF Winsock!Top
  <2>4. CASE ~(u = t /\ i = Len(stack[t]))
    BY <1>1, <2>2, <2>4
  <2> QED
    BY <2>3, <2>4
<1> QED
  BY <1>2, <1>3

\* One more wrapper under the call.
LEMMA NestKeeps ==
  ASSUME SockTyped, Calm, MarkUp, Copied, NEW t \in User, stack[t] # <<>>, Len(stack[t]) # WrapMax,
         NEW g \in Frames, NEW h \in Frames, Nested(t, g, h), FrameFits(g), FrameFits(h),
         UNCHANGED <<bytes, mark, unprotected>>,
         Winsock!Top(t).lifted => g.lifted, Winsock!Top(t).up => g.up
  PROVE  Calm' /\ MarkUp'
<1>1. /\ \A u \in User : u # t => stack'[u] = stack[u]
      /\ stack'[t][Len(stack[t]) + 1] = h /\ stack'[t][Len(stack[t])] = g
      /\ DOMAIN stack'[t] = DOMAIN stack[t] \cup {Len(stack[t]) + 1} /\ Len(stack[t]) \in DOMAIN stack[t]
      /\ \A i \in DOMAIN stack[t] : i # Len(stack[t]) => stack'[t][i] = stack[t][i]
  <2>1. StacksTyped
    BY DEF SockTyped
  <2>2. stack' = [stack EXCEPT ![t] = Append([@ EXCEPT ![Len(@)] = g], h)]
    BY DEF Nested
  <2>3. Grown(t, g, h)
    BY <2>1, <2>2, Pushing
  <2> QED
    BY <2>3 DEF Grown
<1>2. CopyKnown /\ FramesFit /\ JumpIsBack
  BY DEF Calm
<1>3. Places' /\ TablesKnown'
  BY RunningCalm, PlacesKept
<1>4. CopyKnown'
  BY <1>2 DEF CopyKnown, Copied
<1> DEFINE n == Len(stack[t])
           n1 == Len(stack[t]) + 1
<1> HIDE DEF n1
<1>5. FramesFit'
  <2>1. stack'[t][n1] = h /\ DOMAIN stack'[t] = DOMAIN stack[t] \cup {n1}
    BY <1>1 DEF n1
  <2>2. \A u \in User : \A i \in DOMAIN stack'[u] : FrameFits(stack'[u][i])
    BY <1>1, <1>2, <2>1 DEF FramesFit
  <2> QED
    BY <2>2 DEF FramesFit, FrameFits, Copied
<1>6. ASSUME NEW u \in User, NEW i \in DOMAIN stack[u]
      PROVE  /\ i \in DOMAIN stack'[u] /\ (stack[u][i].lifted => stack'[u][i].lifted)
             /\ (stack[u][i].up => stack'[u][i].up)
  <2>1. CASE u = t /\ i = n
    BY <1>1, <2>1 DEF Winsock!Top
  <2>2. CASE ~(u = t /\ i = n)
    BY <1>1, <2>2
  <2> QED
    BY <2>1, <2>2
<1>7. JumpIsBack'
  BY <1>2, <1>6 DEF JumpIsBack, Copied
<1>8. MarkUp'
  BY <1>6 DEF MarkUp
<1> QED
  BY <1>3, <1>4, <1>5, <1>7, <1>8 DEF Calm

\* A call that returns keeps it.
LEMMA LeaveKeeps ==
  ASSUME SockTyped, Calm, MarkUp, NEW t \in User, Winsock!Leave(t)
  PROVE  Calm' /\ MarkUp'
<1>1. /\ stack[t] # <<>> /\ Winsock!Top(t).at = "leave" /\ mark' = (mark /\ ~Winsock!Top(t).up)
      /\ stack' = [stack EXCEPT ![t] = SubSeq(@, 1, Len(@) - 1)]
      /\ UNCHANGED <<bytes, unprotected>> /\ Settled
  BY LeaveTurns
<1>2. /\ \A u \in User : u # t => stack'[u] = stack[u]
      /\ Len(stack[t]) \in DOMAIN stack[t] /\ DOMAIN stack'[t] = DOMAIN stack[t] \ {Len(stack[t])}
      /\ \A i \in DOMAIN stack'[t] : stack'[t][i] = stack[t][i]
  BY <1>1, Popping DEF SockTyped
<1>3. CopyKnown /\ FramesFit /\ JumpIsBack /\ Copied
  BY <1>1 DEF Calm, Settled, Copied
<1>4. Places' /\ TablesKnown'
  BY <1>1, <1>3, RunningCalm, PlacesKept
<1>5. CopyKnown'
  BY <1>1, <1>3 DEF CopyKnown, Copied
<1>6. FramesFit'
  <2>1. \A u \in User : \A i \in DOMAIN stack'[u] : FrameFits(stack'[u][i])
    BY <1>2, <1>3 DEF FramesFit
  <2> QED
    BY <1>3, <2>1 DEF FramesFit, FrameFits, Copied
<1>7. ~Winsock!Top(t).lifted
  BY <1>1, <1>2, <1>3 DEF FramesFit, FrameFits, Winsock!Top
<1>8. ASSUME NEW u \in User, NEW i \in DOMAIN stack[u], ~(u = t /\ i = Len(stack[t]))
      PROVE  i \in DOMAIN stack'[u] /\ stack'[u][i] = stack[u][i]
  BY <1>2, <1>8
<1>9. JumpIsBack'
  BY <1>1, <1>3, <1>7, <1>8 DEF JumpIsBack, Copied, Winsock!Top
<1>10. MarkUp'
  BY <1>1, <1>8 DEF MarkUp, Winsock!Top
<1> QED
  BY <1>4, <1>5, <1>6, <1>9, <1>10 DEF Calm

\* A call that begins keeps it.
LEMMA BeginKeeps ==
  ASSUME SockTyped, Calm, MarkUp, NEW t \in User, Winsock!ProgramCall(t)
  PROVE  (disturbed' \/ Calm') /\ MarkUp'
<1>1. /\ stack[t] = <<>> /\ (bytes = "jump" \/ \E m \in present : import[m] = "hook")
      /\ disturbed' = (disturbed \/ \E a \in Installers : stage[a] \notin {"idle", "inline"})
      /\ UNCHANGED <<hooked, mark, bytes, patch, original, import, remembered, present, stage, unprotected>>
  BY CallBegins
<1>2. PICK io \in Seq(Nat) : /\ Winsock!Frame(io) \in Frames
                             /\ stack' = [stack EXCEPT ![t] = <<Winsock!Frame(io)>>]
  BY CallBegins
<1> DEFINE h == Winsock!Frame(io)
<1>3. /\ \A u \in User : u # t => stack'[u] = stack[u]
      /\ DOMAIN stack'[t] = {1} /\ stack'[t][1] = h
  BY <1>2, Beginning DEF SockTyped
<1>4. FrameFits(h)
  BY DEF FrameFits, Winsock!Frame
<1>5. CopyKnown /\ FramesFit /\ JumpIsBack /\ Copied /\ Places
  BY <1>1 DEF Calm, Copied
<1>6. DOMAIN stack[t] = {}
  BY <1>1
<1>7. ASSUME NEW u \in User, NEW i \in DOMAIN stack[u]
      PROVE  i \in DOMAIN stack'[u] /\ stack'[u][i] = stack[u][i]
  BY <1>3, <1>6
<1> HIDE DEF h
<1>8. FramesFit'
  <2>1. \A u \in User : \A i \in DOMAIN stack'[u] : FrameFits(stack'[u][i])
    BY <1>3, <1>4, <1>5 DEF FramesFit
  <2> QED
    BY <1>5, <2>1 DEF FramesFit, FrameFits, Copied
<1>9. CopyKnown' /\ JumpIsBack' /\ MarkUp'
  <2>1. CopyKnown'
    BY <1>1, <1>5 DEF CopyKnown, Copied
  <2>2. JumpIsBack'
    BY <1>1, <1>5, <1>7 DEF JumpIsBack
  <2>3. MarkUp'
    BY <1>1, <1>7 DEF MarkUp
  <2> QED
    BY <2>1, <2>2, <2>3
<1>10. ASSUME ~disturbed' PROVE Places' /\ TablesKnown'
  <2>1. \A a \in Installers : stage[a] \in {"idle", "inline"}
    BY <1>1, <1>10
  <2>2. hooked
    BY <1>1, <1>5 DEF Places, HookedFirst, SockTyped, TablesTyped
  <2> QED
    BY <1>5, <2>1, <2>2, PlacesKept DEF Installers
<1> QED
  BY <1>8, <1>9, <1>10 DEF Calm

\* The innermost call is in order.
LEMMA TopFits ==
  ASSUME SockTyped, Calm, NEW t \in User, stack[t] # <<>>
  PROVE  FrameFits(Winsock!Top(t))
<1>1. Len(stack[t]) \in DOMAIN stack[t]
  BY TopTyped DEF SockTyped
<1> QED
  BY <1>1 DEF Calm, FramesFit, Winsock!Top

\* A step that changes nothing but where the innermost wrapper is, and the mark.
LEMMA PlainKeeps ==
  ASSUME SockTyped, Calm, MarkUp, Copied, NEW t \in User, stack[t] # <<>>, NEW g \in Frames, Winsock!Become(t, g),
         g.lifted = Winsock!Top(t).lifted, g.lifted => g.at \in {"call", "inside", "crashed", "back"},
         g.at \in {"restore", "back"} => patch.active,
         UNCHANGED <<bytes, unprotected>>,
         mark' => g.up \/ (mark /\ (Winsock!Top(t).up => g.up))
  PROVE  Calm' /\ MarkUp'
<1>1. FrameFits(g)
  BY TopFits DEF FrameFits
<1>2. Calm'
  BY <1>1, TurnKeeps
<1> QED
  BY <1>2, TurnMarks

\* Every step of a call keeps it.
LEMMA ClientKeeps ==
  ASSUME SockTyped, Calm, MarkUp, NEW t \in User, Winsock!ClientStep(t)
  PROVE  SockTyped' /\ (disturbed' \/ Calm') /\ MarkUp'
<1> DEFINE f == Winsock!Top(t)
<1>1. ASSUME stack[t] # <<>>
      PROVE  f.at \in {"restore", "back"} \/ f.lifted => patch.active
  BY <1>1, TopFits DEF FrameFits
<1>2. ASSUME stack[t] # <<>>
      PROVE  f.lifted => f.at \in {"call", "inside", "crashed", "back"}
  BY <1>2, TopFits DEF FrameFits
<1>3. patch.active => patch.saved = "own"
  BY DEF Calm, CopyKnown
<1>4. SockTyped'
  <2>1. Winsock!Restore(t) => patch.saved = "own"
    BY <1>1, <1>3, RestoreTurns
  <2> QED
    BY <2>1, ClientTyped
<1>5. Settled => Copied
  BY DEF Settled, Copied
<1> HIDE DEF f
<1>6. CASE Winsock!ProgramCall(t)
  BY <1>4, <1>6, BeginKeeps
<1>7. CASE Winsock!Enter(t)
  <2>1. stack[t] # <<>> /\ f.at = "enter" /\ UNCHANGED <<bytes, mark, unprotected>> /\ Settled
    BY <1>7, EnterTurns DEF f
  <2>2. PICK at \in {"raise", "lift"}, g \in Frames :
              Turns(f, g, at, f.up, f.via, f.lifted, f.got) /\ Winsock!Become(t, g)
    BY <1>7, EnterTurns DEF f
  <2>3. g.up = f.up /\ g.lifted = f.lifted /\ g.at = at /\ ~f.lifted
    BY <1>2, <2>1, <2>2 DEF Turns
  <2>4. Calm' /\ MarkUp'
    BY <1>5, <2>1, <2>2, <2>3, PlainKeeps DEF f
  <2> QED
    BY <1>4, <2>4
<1>8. CASE Winsock!RaiseMark(t)
  <2>1. stack[t] # <<>> /\ f.at = "raise" /\ UNCHANGED <<bytes, unprotected>> /\ Settled
    BY <1>8, RaiseTurns DEF f
  <2>2. PICK at \in {"report", "lift"}, g \in Frames :
              Turns(f, g, at, TRUE, f.via, f.lifted, f.got) /\ Winsock!Become(t, g)
    BY <1>8, RaiseTurns DEF f
  <2>3. g.up /\ g.lifted = f.lifted /\ g.at = at /\ ~f.lifted
    BY <1>2, <2>1, <2>2 DEF Turns
  <2>4. Calm' /\ MarkUp'
    BY <1>5, <2>1, <2>2, <2>3, PlainKeeps DEF f
  <2> QED
    BY <1>4, <2>4
<1>9. CASE Winsock!Report(t)
  <2>1. stack[t] # <<>> /\ f.at = "report" /\ mark' = (mark /\ Winsock!W.holds)
    BY <1>9, ReportTurns DEF f
  <2>2. UNCHANGED <<hooked, bytes, patch, original, import, remembered, present, stage, unprotected>>
    BY <1>9, ReportTurns
  <2>3. PICK at \in {"lift", "leave"}, g \in Frames :
              Turns(f, g, at, Winsock!W.holds, f.via, f.lifted, f.got) /\ Winsock!Become(t, g)
    BY <1>9, ReportTurns DEF f
  <2>4. g.up = Winsock!W.holds /\ g.lifted = f.lifted /\ g.at = at /\ ~f.lifted
    BY <1>2, <2>1, <2>3 DEF Turns
  <2>5. Copied
    BY <2>2 DEF Copied
  <2>6. Calm' /\ MarkUp'
    BY <2>1, <2>2, <2>3, <2>4, <2>5, PlainKeeps DEF f
  <2> QED
    BY <1>4, <2>6
<1>10. CASE Winsock!Lift(t)
  <2>1. stack[t] # <<>> /\ f.at = "lift" /\ UNCHANGED <<bytes, mark, unprotected>> /\ Settled
    BY <1>10, LiftTurns DEF f
  <2>2. PICK at \in {"leave", "restore", "through"}, g \in Frames :
              /\ Turns(f, g, at, f.up, original, f.lifted, f.got) /\ Winsock!Become(t, g)
              /\ at = IF original = "none" THEN "leave" ELSE IF patch.active THEN "restore" ELSE "through"
    BY <1>10, LiftTurns DEF f
  <2>3. g.up = f.up /\ g.lifted = f.lifted /\ g.at = at /\ ~f.lifted /\ (at = "restore" => patch.active)
    BY <1>2, <2>1, <2>2 DEF Turns
  <2>4. Calm' /\ MarkUp'
    BY <1>5, <2>1, <2>2, <2>3, PlainKeeps DEF f
  <2> QED
    BY <1>4, <2>4
<1>11. CASE Winsock!Restore(t)
  <2>1. stack[t] # <<>> /\ f.at = "restore" /\ UNCHANGED mark /\ Settled
    BY <1>11, RestoreTurns DEF f
  <2>2. PICK g \in Frames :
              /\ Winsock!Become(t, g)
              /\ \/ /\ bytes' = patch.saved /\ UNCHANGED unprotected
                    /\ Turns(f, g, "call", f.up, f.via, TRUE, f.got)
                 \/ /\ unprotected' = TRUE /\ UNCHANGED bytes
                    /\ Turns(f, g, "through", f.up, f.via, f.lifted, f.got)
    BY <1>11, RestoreTurns DEF f
  <2>3. patch.active /\ ~f.lifted
    BY <1>1, <1>2, <2>1
  <2>4. g.up = f.up /\ FrameFits(g) /\ (g.lifted \/ unprotected')
    BY <2>2, <2>3 DEF Turns, FrameFits
  <2>5. Calm'
    BY <1>5, <2>1, <2>2, <2>3, <2>4, TurnKeeps
  <2>6. MarkUp'
    BY <2>1, <2>2, <2>4, TurnMarks DEF f
  <2> QED
    BY <1>4, <2>5, <2>6
<1>12. CASE Winsock!CallTarget(t) \/ Winsock!CallGate(t)
  <2>1. stack[t] # <<>> /\ f.at \in {"call", "through"} /\ UNCHANGED <<bytes, mark, unprotected>> /\ Settled
    BY <1>12, CallTurns DEF f
  <2>2. PICK g \in Frames :
            \/ /\ \E at \in {"inside", "crashed"} : Turns(f, g, at, f.up, f.via, f.lifted, f.got)
               /\ Winsock!Become(t, g)
            \/ /\ Turns(f, g, "inside", f.up, f.via, f.lifted, f.got)
               /\ Len(stack[t]) # WrapMax /\ Nested(t, g, Winsock!Frame(f.io)) /\ Winsock!Frame(f.io) \in Frames
    BY <1>12, CallTurns DEF f
  <2>3. g.up = f.up /\ g.lifted = f.lifted /\ g.at \in {"inside", "crashed"}
    BY <2>2 DEF Turns
  <2>4. CASE Winsock!Become(t, g)
    <3>1. Calm' /\ MarkUp'
      BY <1>5, <2>1, <2>3, <2>4, PlainKeeps DEF f
    <3> QED
      BY <1>4, <3>1
  <2>5. CASE /\ Len(stack[t]) # WrapMax /\ Nested(t, g, Winsock!Frame(f.io)) /\ Winsock!Frame(f.io) \in Frames
    <3>1. FrameFits(g) /\ FrameFits(Winsock!Frame(f.io))
      BY <1>1, <2>1, <2>3 DEF FrameFits, Winsock!Frame
    <3>2. Calm' /\ MarkUp'
      BY <1>5, <2>1, <2>3, <2>5, <3>1, NestKeeps DEF f
    <3> QED
      BY <1>4, <3>2
  <2> QED
    BY <2>2, <2>4, <2>5
<1>13. CASE Winsock!Return(t)
  <2>1. stack[t] # <<>> /\ f.at = "inside" /\ UNCHANGED <<bytes, mark, unprotected>> /\ Settled
    BY <1>13, ReturnTurns DEF f
  <2>2. PICK got \in Nat, g \in Frames :
              /\ Winsock!Become(t, g)
              /\ Turns(f, g, IF f.lifted THEN "back" ELSE "after", f.up, f.via, f.lifted, got)
    BY <1>13, ReturnTurns DEF f
  <2>3. g.up = f.up /\ g.lifted = f.lifted /\ g.at = (IF f.lifted THEN "back" ELSE "after")
    BY <2>2 DEF Turns
  <2>4. (g.lifted => g.at = "back") /\ (g.at \in {"restore", "back"} => patch.active)
    BY <1>1, <2>1, <2>3
  <2>5. Calm' /\ MarkUp'
    BY <1>5, <2>1, <2>2, <2>3, <2>4, PlainKeeps DEF f
  <2> QED
    BY <1>4, <2>5
<1>14. CASE Winsock!Reinstall(t)
  <2>1. /\ stack[t] # <<>> /\ f.at = "back" /\ UNCHANGED mark /\ Settled
        /\ (bytes' = "jump" /\ UNCHANGED unprotected) \/ (unprotected' = TRUE /\ UNCHANGED bytes)
    BY <1>14, ReinstallTurns DEF f
  <2>2. PICK g \in Frames : Winsock!Become(t, g) /\ Turns(f, g, "after", f.up, f.via, FALSE, f.got)
    BY <1>14, ReinstallTurns DEF f
  <2>3. patch.active /\ g.up = f.up /\ FrameFits(g)
    BY <1>1, <2>1, <2>2 DEF Turns, FrameFits
  <2>4. Calm'
    BY <1>5, <2>1, <2>2, <2>3, TurnKeeps
  <2>5. MarkUp'
    BY <2>1, <2>2, <2>3, TurnMarks DEF f
  <2> QED
    BY <1>4, <2>4, <2>5
<1>15. CASE Winsock!After(t)
  <2>1. stack[t] # <<>> /\ f.at = "after" /\ UNCHANGED <<bytes, mark, unprotected>> /\ Settled
    BY <1>15, AfterTurns DEF f
  <2>2. PICK at \in {"raise", "leave"}, g \in Frames :
              Turns(f, g, at, f.up, f.via, f.lifted, f.got) /\ Winsock!Become(t, g)
    BY <1>15, AfterTurns DEF f
  <2>3. g.up = f.up /\ g.lifted = f.lifted /\ g.at = at /\ ~f.lifted
    BY <1>2, <2>1, <2>2 DEF Turns
  <2>4. Calm' /\ MarkUp'
    BY <1>5, <2>1, <2>2, <2>3, PlainKeeps DEF f
  <2> QED
    BY <1>4, <2>4
<1>16. CASE Winsock!Leave(t)
  BY <1>4, <1>16, LeaveKeeps
<1> QED
  BY <1>6, <1>7, <1>8, <1>9, <1>10, <1>11, <1>12, <1>13, <1>14, <1>15, <1>16
     DEF Winsock!ClientStep

SockInv == SockTyped /\ (disturbed \/ Calm) /\ MarkUp

\* All of it holds before anything happens.
LEMMA InitSock ==
  ASSUME Winsock!Init
  PROVE  SockInv
<1>1. MarkUp
  BY DEF Winsock!Init, MarkUp
<1> QED
  BY <1>1, InitSockTyped, InitCalm DEF SockInv

\* Every step of the Winsock functions keeps it.
LEMMA NextSock ==
  ASSUME SockInv, [Winsock!Next]_Winsock!vars
  PROVE  SockInv'
<1>1. SockTyped /\ (disturbed \/ Calm) /\ MarkUp
  BY DEF SockInv
<1>2. CASE UNCHANGED Winsock!vars
  <2>1. UNCHANGED <<fn, told, hooked, mark, bytes, patch, original, import, remembered, present, stage,
                    stack, sockReported, alone, disturbed, unprotected>>
    BY <1>2 DEF Winsock!vars, Winsock!state, Winsock!own, Winsock!tables, Winsock!thread,
                Winsock!past
  <2>2. SockTyped'
    BY <1>1, <2>1 DEF SockTyped, StacksTyped, FlagsAreFlags, CodeTyped, TablesTyped,
                      Winsock!Module
  <2>3. Calm => Calm'
    BY <2>1 DEF Calm, Places, OneWrites, LoaderRefreshes, HookedFirst, NoneRuns,
                TablesKnown, CopyKnown, FramesFit, FrameFits, JumpIsBack, Winsock!Module
  <2>4. MarkUp'
    BY <1>1, <2>1 DEF MarkUp
  <2> QED
    BY <1>1, <2>1, <2>2, <2>3, <2>4 DEF SockInv
<1>3. CASE Winsock!Next
  <2>1. Calm
    BY <1>1, <1>3 DEF Winsock!Next
  <2>2. ASSUME InstallerMoves PROVE MarkUp'
    BY <1>1, <2>2 DEF InstallerMoves, MarkUp
  <2>3. ASSUME NEW t \in User, Winsock!ClientStep(t) PROVE SockInv'
    BY <1>1, <2>1, <2>3, ClientKeeps DEF SockInv
  <2>4. ASSUME NEW a \in Installers, Winsock!InstallStep(a) PROVE SockInv'
    <3>1. CASE Winsock!PatchTables(a)
      BY <1>1, <2>1, <2>2, <3>1, PatchTablesMoves, PatchTablesKeeps DEF SockInv
    <3>2. CASE Winsock!InlineSkip(a)
      BY <1>1, <2>1, <2>2, <3>2, InlineSkipMoves, InlineSkipKeeps DEF SockInv
    <3>3. CASE Winsock!InlineChecked(a)
      BY <1>1, <2>1, <2>2, <3>3, InlineCheckedMoves, InlineCheckedKeeps DEF SockInv
    <3>4. CASE Winsock!WriteJump(a)
      BY <1>1, <2>1, <2>2, <3>4, WriteJumpMoves, WriteJumpKeeps DEF SockInv
    <3>5. CASE Winsock!TrackInlinePatch(a)
      BY <1>1, <2>1, <2>2, <3>5, TrackMoves, TrackKeeps DEF SockInv
    <3> QED
      BY <2>4, <3>1, <3>2, <3>3, <3>4, <3>5 DEF Winsock!InstallStep
  <2>5. CASE Winsock!SetHook
    BY <1>1, <2>1, <2>2, <2>5, SetHookMoves, SetHookKeeps DEF SockInv
  <2>6. CASE Winsock!RemoveHook
    BY <1>1, <2>1, <2>2, <2>6, RemoveHookMoves, RemoveHookKeeps DEF SockInv
  <2>7. CASE Winsock!RemoveInlineHooks
    BY <1>1, <2>1, <2>2, <2>7, RemoveInlineMoves, RemoveInlineKeeps DEF SockInv
  <2>8. CASE Winsock!RemoveDone
    BY <1>1, <2>1, <2>2, <2>8, RemoveDoneMoves, RemoveDoneKeeps DEF SockInv
  <2>9. ASSUME NEW m \in Late, Winsock!Load(m) PROVE SockInv'
    BY <1>1, <2>1, <2>2, <2>9, LoadMoves, LoadKeeps DEF SockInv
  <2> QED
    BY <1>3, <2>3, <2>4, <2>5, <2>6, <2>7, <2>8, <2>9
       DEF Winsock!Next, Winsock!Installer, Installers
<1> QED
  BY <1>2, <1>3

\* What the invariant says of types, the jump, the original and the mark.
LEMMA SockPromises ==
  ASSUME SockInv
  PROVE  /\ Winsock!TypeOK /\ Winsock!JumpComesBack
         /\ Winsock!OriginalIsCallable /\ Winsock!RemovedWithoutTrace /\ Winsock!MarkComesDown
<1>1. SockTyped /\ (disturbed \/ Calm) /\ MarkUp
  BY DEF SockInv
<1>2. Winsock!TypeOK
  BY <1>1, SockTypes
<1>3. Winsock!JumpComesBack
  BY <1>1 DEF Calm, JumpIsBack, Winsock!JumpComesBack, Winsock!Undisturbed
<1>4. Winsock!OriginalIsCallable
  BY <1>1 DEF Calm, CopyKnown, Winsock!OriginalIsCallable
<1>5. Winsock!RemovedWithoutTrace
  BY <1>1 DEF Calm, Places, HookedFirst, Winsock!RemovedWithoutTrace, Winsock!Undisturbed
<1>6. Winsock!MarkComesDown
  BY <1>1 DEF MarkUp, Winsock!MarkComesDown
<1> QED
  BY <1>2, <1>3, <1>4, <1>5, <1>6

-----------------------------------------------------------------------------
(* A call during which nothing else happens.                               *)

Undistracted(t) == alone[t] /\ told /\ ~disturbed /\ ~unprotected /\ stack[t] # <<>>

\* How it calls on: over no jump.
SeenCode(f, lifts, code) ==
  /\ f.at = "through" => f.via = "export" /\ ~lifts
  /\ f.lifted => code = "own"
  /\ f.at = "call" => f.lifted

\* What has been reported of it, r, when the wrapper reports before the call.
SeenBefore(f, r) ==
  /\ r = IF f.at \in {"enter", "raise", "report"} THEN 0 ELSE Winsock!Total(f.io)
  /\ f.at = "enter" => ~f.up

\* And when it reports after the call.
SeenAfter(f, r) ==
  /\ r = IF f.at = "leave" THEN f.got ELSE 0
  /\ f.at \in {"enter", "lift"} => f.got = 0
  /\ f.got <= Winsock!Total(f.io)
  /\ f.at \notin {"raise", "report", "leave"} => ~f.up
  /\ f.at \in {"raise", "report"} => f.io # <<>>

SeenFrame(f, r, when, lifts, code) ==
  /\ SeenCode(f, lifts, code)
  /\ when = "before" => SeenBefore(f, r)
  /\ when = "after" => SeenAfter(f, r)

OnlyOne(t) == (\A u \in User : u # t => stack[u] = <<>>) /\ Len(stack[t]) = 1

Seen ==
  \A t \in User : Undistracted(t) =>
    OnlyOne(t) /\ SeenFrame(Winsock!Top(t), sockReported[t], Winsock!W.when, patch.active, bytes)

\* No call is under way.
LEMMA InitSeen ==
  ASSUME Winsock!Init
  PROVE  Seen
BY DEF Winsock!Init, Seen, Undistracted

\* Alone under its mark: no mark is up that the call has not raised.
LEMMA OwnMark ==
  ASSUME SockTyped, MarkUp, NEW t \in User, OnlyOne(t), mark
  PROVE  Winsock!Top(t).up
<1>1. PICK u \in User : \E i \in DOMAIN stack[u] : stack[u][i].up
  BY DEF MarkUp
<1>2. PICK i \in DOMAIN stack[u] : stack[u][i].up
  BY <1>1
<1>3. u = t
  BY DEF OnlyOne
<1>4. stack[t] \in Seq(Frames) /\ Len(stack[t]) = 1
  BY DEF SockTyped, StacksTyped, OnlyOne
<1>5. i = Len(stack[t])
  BY <1>2, <1>3, <1>4
<1> QED
  BY <1>2, <1>3, <1>5 DEF Winsock!Top

\* A step of the call itself that replaces its one frame.
LEMMA SeenTurns ==
  ASSUME SockTyped, NEW t \in User, OnlyOne(t), NEW g \in Frames, stack[t] # <<>>, Winsock!Become(t, g),
         alone' = alone, UNCHANGED fn,
         SeenFrame(g, sockReported'[t], Winsock!W.when, patch'.active, bytes')
  PROVE  Seen'
<1>1. /\ \A u \in User : u # t => stack'[u] = stack[u]
      /\ Len(stack'[t]) = Len(stack[t]) /\ stack'[t][Len(stack[t])] = g
  BY Becoming DEF SockTyped
<1>2. OnlyOne(t)' /\ Winsock!Top(t)' = g
  BY <1>1 DEF OnlyOne, Winsock!Top
<1>3. Winsock!W' = Winsock!W
  BY DEF Winsock!W
<1>4. ASSUME NEW u \in User, Undistracted(u)' PROVE u = t
  BY <1>2, <1>4 DEF Undistracted, OnlyOne
<1> SUFFICES ASSUME NEW u \in User, Undistracted(u)'
             PROVE  OnlyOne(u)' /\ SeenFrame(Winsock!Top(u)', sockReported'[u], Winsock!W'.when, patch'.active, bytes')
  BY DEF Seen
<1> QED
  BY <1>2, <1>3, <1>4

\* Everything else that keeps a call undistracted leaves all of it alone.
LEMMA SeenStays ==
  ASSUME Seen, \A t \in User : Undistracted(t)' => Undistracted(t),
         UNCHANGED <<fn, stack, sockReported, patch, bytes>>
  PROVE  Seen'
<1>1. Winsock!W' = Winsock!W /\ patch'.active = patch.active
  BY DEF Winsock!W
<1>2. \A t \in User : (OnlyOne(t)' <=> OnlyOne(t)) /\ Winsock!Top(t)' = Winsock!Top(t)
  BY DEF OnlyOne, Winsock!Top
<1> SUFFICES ASSUME NEW u \in User, Undistracted(u)'
             PROVE  OnlyOne(u)' /\ SeenFrame(Winsock!Top(u)', sockReported'[u], Winsock!W'.when, patch'.active, bytes')
  BY DEF Seen
<1>3. OnlyOne(u) /\ SeenFrame(Winsock!Top(u), sockReported[u], Winsock!W.when, patch.active, bytes)
  BY DEF Seen
<1> QED
  BY <1>1, <1>2, <1>3

\* Of a call that something happened under, nothing is claimed.
LEMMA Distracted ==
  ASSUME Seen, NEW t \in User, stack[t] # <<>>, ~Undistracted(t), \A u \in User : u # t => stack'[u] = stack[u],
         UNCHANGED <<alone, told, disturbed>>, unprotected => unprotected'
  PROVE  Seen'
<1> SUFFICES ASSUME NEW u \in User, Undistracted(u)' PROVE FALSE
  BY DEF Seen
<1>1. CASE u = t
  BY <1>1 DEF Undistracted
<1>2. CASE u # t
  <2>1. Undistracted(u)
    BY <1>2 DEF Undistracted
  <2> QED
    BY <1>2, <2>1 DEF Seen, OnlyOne
<1> QED
  BY <1>1, <1>2

\* Nor once a page could not be made writable.
LEMMA Unprotected ==
  ASSUME unprotected'
  PROVE  Seen'
BY DEF Seen, Undistracted

\* A call that begins has told nothing.
LEMMA BeginSeen ==
  ASSUME SockTyped, NEW t \in User, Winsock!ProgramCall(t)
  PROVE  Seen'
<1>1. /\ sockReported' = [sockReported EXCEPT ![t] = 0]
      /\ alone' = [u \in User |-> u = t /\ \A v \in User \ {t} : stack[v] = <<>>]
      /\ UNCHANGED fn
  BY CallBegins
<1>2. PICK io \in Seq(Nat) : /\ Winsock!Frame(io) \in Frames
                             /\ stack' = [stack EXCEPT ![t] = <<Winsock!Frame(io)>>]
  BY CallBegins
<1> DEFINE g == Winsock!Frame(io)
<1>3. /\ \A u \in User : u # t => stack'[u] = stack[u]
      /\ stack'[t][1] = g /\ Len(stack'[t]) = 1
  BY <1>2, Beginning DEF SockTyped
<1>4. /\ g.at = "enter" /\ g.io = io /\ ~g.up /\ ~g.lifted /\ g.got = 0
  BY DEF Winsock!Frame
<1>5. sockReported'[t] = 0
  BY <1>1 DEF SockTyped
<1>6. 0 <= Winsock!Total(io)
  BY TotalIs
<1> HIDE DEF g
<1>7. SeenFrame(g, 0, Winsock!W.when, patch'.active, bytes')
  BY <1>4, <1>6 DEF SeenFrame, SeenCode, SeenBefore, SeenAfter
<1>8. Winsock!W' = Winsock!W /\ Winsock!Top(t)' = g
  BY <1>1, <1>3 DEF Winsock!W, Winsock!Top
<1> SUFFICES ASSUME NEW u \in User, Undistracted(u)'
             PROVE  OnlyOne(u)' /\ SeenFrame(Winsock!Top(u)', sockReported'[u], Winsock!W'.when, patch'.active, bytes')
  BY DEF Seen
<1>9. u = t /\ \A v \in User \ {t} : stack[v] = <<>>
  BY <1>1 DEF Undistracted
<1>10. OnlyOne(t)'
  BY <1>3, <1>9 DEF OnlyOne
<1> QED
  BY <1>5, <1>7, <1>8, <1>9, <1>10

\* A call that returns is no longer looked at.
LEMMA LeaveSeen ==
  ASSUME SockTyped, Seen, NEW t \in User, Winsock!Leave(t)
  PROVE  Seen'
<1>1. /\ stack[t] # <<>> /\ stack' = [stack EXCEPT ![t] = SubSeq(@, 1, Len(@) - 1)]
      /\ UNCHANGED <<bytes, unprotected>> /\ Settled
  BY LeaveTurns
<1>2. \A u \in User : u # t => stack'[u] = stack[u]
  BY <1>1, Popping DEF SockTyped
<1>3. CASE ~Undistracted(t)
  BY <1>1, <1>2, <1>3, Distracted DEF Settled
<1>4. CASE Undistracted(t)
  <2>1. OnlyOne(t)
    BY <1>4 DEF Seen
  <2>2. stack'[t] = <<>>
    <3>1. stack'[t] = SubSeq(stack[t], 1, Len(stack[t]) - 1)
      BY <1>1 DEF SockTyped, StacksTyped
    <3>2. stack[t] \in Seq(Frames) /\ Len(stack[t]) = 1
      BY <2>1 DEF SockTyped, StacksTyped, OnlyOne
    <3> QED
      BY <3>1, <3>2
  <2>3. \A u \in User : stack'[u] = <<>>
    BY <1>2, <2>1, <2>2 DEF OnlyOne
  <2> QED
    BY <2>3 DEF Seen, Undistracted
<1> QED
  BY <1>3, <1>4

\* It reaches the original with the jump lifted, or through the gate.
LEMMA CallSeen ==
  ASSUME SockTyped, Calm, Seen, NEW t \in User, Winsock!CallTarget(t) \/ Winsock!CallGate(t)
  PROVE  Seen'
<1> DEFINE f == Winsock!Top(t)
<1> HIDE DEF f
<1>1. stack[t] # <<>> /\ f.at \in {"call", "through"} /\ UNCHANGED <<bytes, mark, unprotected>> /\ Settled
  BY CallTurns DEF f
<1>2. PICK code \in {bytes, patch.gate}, g \in Frames :
            /\ f.at = "call" \/ f.via = "export" => code = bytes
            /\ \/ Turns(f, g, "inside", f.up, f.via, f.lifted, f.got) /\ Winsock!Become(t, g) /\ code = "own"
               \/ Turns(f, g, "crashed", f.up, f.via, f.lifted, f.got) /\ Winsock!Become(t, g) /\ code # "own"
               \/ /\ Turns(f, g, "inside", f.up, f.via, f.lifted, f.got) /\ code # "own"
                  /\ Len(stack[t]) # WrapMax /\ Nested(t, g, Winsock!Frame(f.io)) /\ Winsock!Frame(f.io) \in Frames
  BY CallTurns DEF f
<1>3. CASE Undistracted(t)
  <2>1. OnlyOne(t) /\ SeenFrame(f, sockReported[t], Winsock!W.when, patch.active, bytes)
    BY <1>3 DEF Seen, f
  <2>2. f.at = "call" \/ f.via = "export"
    BY <1>1, <2>1 DEF SeenFrame, SeenCode
  <2>3. bytes = "own"
    <3>1. CASE f.at = "call"
      BY <2>1, <3>1 DEF SeenFrame, SeenCode
    <3>2. CASE f.at = "through"
      <4>1. ~patch.active
        BY <2>1, <3>2 DEF SeenFrame, SeenCode
      <4>2. \A a \in Installers : stage[a] # "track"
        BY <1>1, RunningCalm
      <4> QED
        BY <4>1, <4>2 DEF Calm, CopyKnown
    <3> QED
      BY <1>1, <3>1, <3>2
  <2>4. Turns(f, g, "inside", f.up, f.via, f.lifted, f.got) /\ Winsock!Become(t, g)
    BY <1>2, <2>2, <2>3
  <2>5. patch'.active = patch.active /\ bytes' = bytes /\ sockReported' = sockReported /\ alone' = alone /\ fn' = fn
    BY <1>1 DEF Settled
  <2>6. SeenFrame(g, sockReported[t], Winsock!W.when, patch.active, bytes)
    BY <1>1, <2>1, <2>4 DEF Turns, SeenFrame, SeenCode, SeenBefore, SeenAfter
  <2> QED
    BY <1>1, <2>1, <2>4, <2>5, <2>6, SeenTurns
<1>4. CASE ~Undistracted(t)
  <2>1. \A u \in User : u # t => stack'[u] = stack[u]
    <3>1. StacksTyped
      BY DEF SockTyped
    <3>2. CASE Winsock!Become(t, g)
      BY <1>1, <3>1, <3>2, Becoming
    <3>3. CASE Len(stack[t]) # WrapMax /\ Nested(t, g, Winsock!Frame(f.io)) /\ Winsock!Frame(f.io) \in Frames
      <4>1. Grown(t, g, Winsock!Frame(f.io))
        BY <1>1, <3>1, <3>3, Pushing DEF Nested
      <4> QED
        BY <4>1 DEF Grown
    <3> QED
      BY <1>2, <3>2, <3>3
  <2> QED
    BY <1>1, <1>4, <2>1, Distracted DEF Settled
<1> QED
  BY <1>3, <1>4

\* The steps that replace the frame: enough to look at a call that is undistracted.
LEMMA ReplacedSeen ==
  ASSUME SockTyped, Seen, NEW t \in User, stack[t] # <<>>, NEW g \in Frames, Winsock!Become(t, g),
         UNCHANGED <<fn, told, alone, disturbed>>, unprotected => unprotected',
         Undistracted(t) /\ OnlyOne(t) /\ ~unprotected'
           /\ SeenFrame(Winsock!Top(t), sockReported[t], Winsock!W.when, patch.active, bytes)
             => SeenFrame(g, sockReported'[t], Winsock!W.when, patch'.active, bytes')
  PROVE  Seen'
<1>1. \A u \in User : u # t => stack'[u] = stack[u]
  BY Becoming DEF SockTyped
<1>2. CASE ~Undistracted(t)
  BY <1>1, <1>2, Distracted
<1>3. CASE unprotected'
  BY <1>3, Unprotected
<1>4. CASE Undistracted(t) /\ ~unprotected'
  <2>1. OnlyOne(t) /\ SeenFrame(Winsock!Top(t), sockReported[t], Winsock!W.when, patch.active, bytes)
    BY <1>4 DEF Seen
  <2> QED
    BY <1>4, <2>1, SeenTurns
<1> QED
  BY <1>2, <1>3, <1>4

\* Every step of a call that nothing disturbs tells it as is due.
LEMMA ClientSeen ==
  ASSUME SockTyped, Calm, MarkUp, Seen, NEW t \in User, Winsock!ClientStep(t)
  PROVE  Seen'
<1> DEFINE f == Winsock!Top(t)
           r == sockReported[t]
           when == Winsock!W.when
<1>1. ASSUME stack[t] # <<>>
      PROVE  f \in Frames /\ f.io \in Seq(Nat) /\ Winsock!Total(f.io) \in Nat
             /\ (f.io = <<>> => Winsock!Total(f.io) = 0) /\ f.got \in Nat
             /\ (f.lifted => f.at \in {"call", "inside", "crashed", "back"})
             /\ (f.at = "restore" => patch.active)
  <2>1. f \in Frames
    BY <1>1, TopTyped DEF SockTyped
  <2>2. f.io \in Seq(Nat) /\ f.got \in Nat
    BY <2>1 DEF Frames
  <2>3. FrameFits(f)
    BY <1>1, TopFits
  <2> QED
    BY <2>1, <2>2, <2>3, TotalIs DEF FrameFits
<1>2. when \in {"before", "after"} /\ Winsock!W.holds \in BOOLEAN /\ (Winsock!W.holds => when = "before")
  BY WrapperKnown DEF SockTyped, CodeTyped
<1>3. OnlyOne(t) /\ mark => f.up
  BY OwnMark DEF SockTyped
<1>4. Undistracted(t) => (Winsock!Worth(t) <=> f.io # <<>>)
  BY DEF Undistracted, Winsock!Worth
<1>5. sockReported \in [User -> Nat]
  BY DEF SockTyped
<1>6. /\ patch.active => patch.saved = "own" /\ original = "gate"
      /\ ~patch.active => original \in {"none", "export"}
  BY DEF Calm, CopyKnown
<1> HIDE DEF f, r, when
<1>7. CASE Winsock!ProgramCall(t)
  BY <1>7, BeginSeen
<1>8. CASE Winsock!Enter(t)
  <2>1. stack[t] # <<>> /\ f.at = "enter" /\ UNCHANGED <<bytes, mark, unprotected>> /\ Settled
    BY <1>8, EnterTurns DEF f
  <2>2. PICK at \in {"raise", "lift"}, g \in Frames :
              /\ Turns(f, g, at, f.up, f.via, f.lifted, f.got) /\ Winsock!Become(t, g)
              /\ at = "raise" <=> when = "before" /\ ~mark /\ (Winsock!Worth(t) \/ Winsock!W.holds)
    BY <1>8, EnterTurns DEF f, when
  <2>3. /\ g.io = f.io /\ g.at = at /\ g.up = f.up /\ g.lifted = f.lifted /\ g.got = f.got
    BY <2>2 DEF Turns
  <2>4. ASSUME Undistracted(t), OnlyOne(t), SeenFrame(f, r, when, patch.active, bytes)
        PROVE  SeenFrame(g, r, when, patch.active, bytes)
    <3>1. SeenCode(g, patch.active, bytes)
      BY <1>1, <2>1, <2>2, <2>3 DEF SeenCode
    <3>2. CASE when = "before"
      <4>1. r = 0 /\ ~f.up
        BY <2>1, <2>4, <3>2 DEF SeenFrame, SeenBefore
      <4>2. at = "lift" => Winsock!Total(f.io) = 0
        BY <1>1, <1>3, <1>4, <2>1, <2>2, <2>4, <3>2, <4>1
      <4>3. SeenBefore(g, r)
        BY <2>2, <2>3, <4>1, <4>2 DEF SeenBefore
      <4> QED
        BY <3>1, <3>2, <4>3 DEF SeenFrame
    <3>3. CASE when = "after"
      <4>1. at = "lift"
        BY <2>2, <3>3
      <4>2. SeenAfter(g, r)
        BY <2>1, <2>3, <2>4, <3>3, <4>1 DEF SeenFrame, SeenAfter
      <4> QED
        BY <3>1, <3>3, <4>2 DEF SeenFrame
    <3> QED
      BY <1>2, <3>2, <3>3
  <2> QED
    BY <2>1, <2>2, <2>4, ReplacedSeen DEF Settled, f, r, when
<1>9. CASE Winsock!RaiseMark(t)
  <2>1. stack[t] # <<>> /\ f.at = "raise" /\ UNCHANGED <<bytes, unprotected>> /\ Settled
    BY <1>9, RaiseTurns DEF f
  <2>2. PICK at \in {"report", "lift"}, g \in Frames :
              /\ Turns(f, g, at, TRUE, f.via, f.lifted, f.got) /\ Winsock!Become(t, g)
              /\ at = "report" <=> Winsock!Worth(t)
    BY <1>9, RaiseTurns DEF f
  <2>3. g.io = f.io /\ g.at = at /\ g.lifted = f.lifted /\ g.got = f.got
    BY <2>2 DEF Turns
  <2>4. ASSUME Undistracted(t), SeenFrame(f, r, when, patch.active, bytes)
        PROVE  SeenFrame(g, r, when, patch.active, bytes)
    <3>1. SeenCode(g, patch.active, bytes)
      BY <1>1, <2>1, <2>2, <2>3 DEF SeenCode
    <3>2. at = "lift" => Winsock!Total(f.io) = 0 /\ f.io = <<>>
      BY <1>1, <1>4, <2>1, <2>2, <2>4
    <3>3. when = "before" => SeenBefore(g, r)
      BY <2>1, <2>2, <2>3, <2>4, <3>2 DEF SeenFrame, SeenBefore
    <3>4. when = "after" => SeenAfter(g, r)
      BY <2>1, <2>2, <2>3, <2>4, <3>2 DEF SeenFrame, SeenAfter
    <3> QED
      BY <3>1, <3>3, <3>4 DEF SeenFrame
  <2> QED
    BY <2>1, <2>2, <2>4, ReplacedSeen DEF Settled, f, r, when
<1>10. CASE Winsock!Report(t)
  <2>1. /\ stack[t] # <<>> /\ f.at = "report"
        /\ sockReported' = [sockReported EXCEPT ![t] = @ + Winsock!Total(Winsock!Due(t))]
        /\ UNCHANGED <<fn, told, bytes, patch, alone, disturbed, unprotected>>
    BY <1>10, ReportTurns DEF f
  <2>2. PICK at \in {"lift", "leave"}, g \in Frames :
              /\ Turns(f, g, at, Winsock!W.holds, f.via, f.lifted, f.got) /\ Winsock!Become(t, g)
              /\ at = "lift" <=> when = "before"
    BY <1>10, ReportTurns DEF f, when
  <2>3. g.io = f.io /\ g.at = at /\ g.lifted = f.lifted /\ g.got = f.got /\ g.up = Winsock!W.holds
    BY <2>2 DEF Turns
  <2> DEFINE q == Winsock!Total(Winsock!Due(t))
  <2>4. sockReported'[t] = r + q /\ q \in Nat
    <3>1. q \in Nat
      BY <1>1, <2>1, TotalIs, FilledAddsUp DEF Winsock!Due, f
    <3> QED
      BY <1>5, <2>1, <3>1 DEF r
  <2>5. ASSUME SeenFrame(f, r, when, patch.active, bytes)
        PROVE  SeenFrame(g, r + q, when, patch.active, bytes)
    <3>1. SeenCode(g, patch.active, bytes)
      BY <1>1, <2>1, <2>2, <2>3 DEF SeenCode
    <3>2. CASE when = "before"
      <4>1. r = 0 /\ q = Winsock!Total(f.io) /\ at = "lift"
        BY <2>1, <2>2, <2>5, <3>2 DEF SeenFrame, SeenBefore, Winsock!Due, f, when
      <4>2. r + q = Winsock!Total(f.io)
        BY <1>1, <2>1, <4>1
      <4>3. SeenBefore(g, r + q)
        BY <2>3, <4>1, <4>2 DEF SeenBefore
      <4> QED
        BY <3>1, <3>2, <4>3 DEF SeenFrame
    <3>3. CASE when = "after"
      <4>1. SeenAfter(f, r) /\ at = "leave"
        BY <2>2, <2>5, <3>3 DEF SeenFrame
      <4>2. q = Winsock!Total(Winsock!Filled(f.io, f.got))
        BY <3>3 DEF Winsock!Due, f, when
      <4>3. f.io \in Seq(Nat) /\ f.got \in Nat /\ f.got <= Winsock!Total(f.io)
        BY <1>1, <2>1, <4>1 DEF SeenAfter
      <4>4. r = 0 /\ q = f.got
        BY <2>1, <4>1, <4>2, <4>3, FilledAddsUp DEF SeenAfter
      <4>5. r + q = f.got
        BY <4>3, <4>4
      <4>6. SeenAfter(g, r + q)
        BY <2>3, <4>1, <4>5 DEF SeenAfter
      <4> QED
        BY <3>1, <3>3, <4>6 DEF SeenFrame
    <3> QED
      BY <1>2, <3>2, <3>3
  <2>6. SeenFrame(f, r, when, patch.active, bytes) => SeenFrame(g, sockReported'[t], when, patch'.active, bytes')
    BY <2>1, <2>4, <2>5
  <2> QED
    BY <2>1, <2>2, <2>6, ReplacedSeen DEF f, r, when
<1>11. CASE Winsock!Lift(t)
  <2>1. stack[t] # <<>> /\ f.at = "lift" /\ UNCHANGED <<bytes, mark, unprotected>> /\ Settled
    BY <1>11, LiftTurns DEF f
  <2>2. PICK at \in {"leave", "restore", "through"}, g \in Frames :
              /\ Turns(f, g, at, f.up, original, f.lifted, f.got) /\ Winsock!Become(t, g)
              /\ at = IF original = "none" THEN "leave" ELSE IF patch.active THEN "restore" ELSE "through"
    BY <1>11, LiftTurns DEF f
  <2>3. g.io = f.io /\ g.at = at /\ g.up = f.up /\ g.lifted = f.lifted /\ g.got = f.got /\ g.via = original
    BY <2>2 DEF Turns
  <2>4. ASSUME SeenFrame(f, r, when, patch.active, bytes)
        PROVE  SeenFrame(g, r, when, patch.active, bytes)
    <3>1. SeenCode(g, patch.active, bytes)
      BY <1>1, <1>6, <2>1, <2>2, <2>3 DEF SeenCode
    <3>2. when = "before" => SeenBefore(g, r)
      BY <2>1, <2>2, <2>3, <2>4 DEF SeenFrame, SeenBefore
    <3>3. when = "after" => SeenAfter(g, r)
      BY <2>1, <2>2, <2>3, <2>4 DEF SeenFrame, SeenAfter
    <3> QED
      BY <3>1, <3>2, <3>3 DEF SeenFrame
  <2> QED
    BY <2>1, <2>2, <2>4, ReplacedSeen DEF Settled, f, r, when
<1>12. CASE Winsock!Restore(t)
  <2>1. stack[t] # <<>> /\ f.at = "restore" /\ UNCHANGED mark /\ Settled
    BY <1>12, RestoreTurns DEF f
  <2>2. PICK g \in Frames :
              /\ Winsock!Become(t, g)
              /\ \/ /\ bytes' = patch.saved /\ UNCHANGED unprotected
                    /\ Turns(f, g, "call", f.up, f.via, TRUE, f.got)
                 \/ /\ unprotected' = TRUE /\ UNCHANGED bytes
                    /\ Turns(f, g, "through", f.up, f.via, f.lifted, f.got)
    BY <1>12, RestoreTurns DEF f
  <2>3. ASSUME SeenFrame(f, r, when, patch.active, bytes), ~unprotected'
        PROVE  SeenFrame(g, r, when, patch.active, bytes')
    <3>1. Turns(f, g, "call", f.up, f.via, TRUE, f.got) /\ bytes' = "own"
      BY <1>1, <1>6, <2>1, <2>2, <2>3
    <3>2. g.io = f.io /\ g.at = "call" /\ g.up = f.up /\ g.lifted /\ g.got = f.got
      BY <3>1 DEF Turns
    <3>3. SeenCode(g, patch.active, bytes')
      BY <3>1, <3>2 DEF SeenCode
    <3>4. when = "before" => SeenBefore(g, r)
      BY <2>1, <2>3, <3>2 DEF SeenFrame, SeenBefore
    <3>5. when = "after" => SeenAfter(g, r)
      BY <2>1, <2>3, <3>2 DEF SeenFrame, SeenAfter
    <3> QED
      BY <3>3, <3>4, <3>5 DEF SeenFrame
  <2>4. unprotected => unprotected'
    BY <2>2
  <2> QED
    BY <2>1, <2>2, <2>3, <2>4, ReplacedSeen DEF Settled, f, r, when
<1>13. CASE Winsock!CallTarget(t) \/ Winsock!CallGate(t)
  BY <1>13, CallSeen
<1>14. CASE Winsock!Return(t)
  <2>1. stack[t] # <<>> /\ f.at = "inside" /\ UNCHANGED <<bytes, mark, unprotected>> /\ Settled
    BY <1>14, ReturnTurns DEF f
  <2>2. PICK got \in Nat, g \in Frames :
              /\ got <= IF when = "before" THEN 0 ELSE Winsock!Total(f.io)
              /\ Winsock!Become(t, g)
              /\ Turns(f, g, IF f.lifted THEN "back" ELSE "after", f.up, f.via, f.lifted, got)
    BY <1>14, ReturnTurns DEF f, when
  <2>3. g.io = f.io /\ g.at \in {"back", "after"} /\ g.up = f.up /\ g.lifted = f.lifted /\ g.got = got
    BY <2>2 DEF Turns
  <2>4. ASSUME SeenFrame(f, r, when, patch.active, bytes)
        PROVE  SeenFrame(g, r, when, patch.active, bytes)
    <3>1. SeenCode(g, patch.active, bytes)
      BY <2>3, <2>4 DEF SeenFrame, SeenCode
    <3>2. when = "before" => SeenBefore(g, r)
      BY <2>1, <2>3, <2>4 DEF SeenFrame, SeenBefore
    <3>3. when = "after" => SeenAfter(g, r)
      BY <2>1, <2>2, <2>3, <2>4 DEF SeenFrame, SeenAfter
    <3> QED
      BY <3>1, <3>2, <3>3 DEF SeenFrame
  <2> QED
    BY <2>1, <2>2, <2>4, ReplacedSeen DEF Settled, f, r, when
<1>15. CASE Winsock!Reinstall(t)
  <2>1. /\ stack[t] # <<>> /\ f.at = "back" /\ UNCHANGED mark /\ Settled
        /\ (bytes' = "jump" /\ UNCHANGED unprotected) \/ (unprotected' = TRUE /\ UNCHANGED bytes)
    BY <1>15, ReinstallTurns DEF f
  <2>2. PICK g \in Frames : Winsock!Become(t, g) /\ Turns(f, g, "after", f.up, f.via, FALSE, f.got)
    BY <1>15, ReinstallTurns DEF f
  <2>3. g.io = f.io /\ g.at = "after" /\ g.up = f.up /\ ~g.lifted /\ g.got = f.got
    BY <2>2 DEF Turns
  <2>4. ASSUME SeenFrame(f, r, when, patch.active, bytes)
        PROVE  SeenFrame(g, r, when, patch.active, bytes')
    <3>1. SeenCode(g, patch.active, bytes')
      BY <2>3 DEF SeenCode
    <3>2. when = "before" => SeenBefore(g, r)
      BY <2>1, <2>3, <2>4 DEF SeenFrame, SeenBefore
    <3>3. when = "after" => SeenAfter(g, r)
      BY <2>1, <2>3, <2>4 DEF SeenFrame, SeenAfter
    <3> QED
      BY <3>1, <3>2, <3>3 DEF SeenFrame
  <2>5. unprotected => unprotected'
    BY <2>1
  <2> QED
    BY <2>1, <2>2, <2>4, <2>5, ReplacedSeen DEF Settled, f, r, when
<1>16. CASE Winsock!After(t)
  <2>1. stack[t] # <<>> /\ f.at = "after" /\ UNCHANGED <<bytes, mark, unprotected>> /\ Settled
    BY <1>16, AfterTurns DEF f
  <2>2. PICK at \in {"raise", "leave"}, g \in Frames :
              /\ Turns(f, g, at, f.up, f.via, f.lifted, f.got) /\ Winsock!Become(t, g)
              /\ at = "raise" <=> when = "after" /\ f.got > 0 /\ ~mark /\ Winsock!Worth(t)
    BY <1>16, AfterTurns DEF f, when
  <2>3. g.io = f.io /\ g.at = at /\ g.up = f.up /\ g.lifted = f.lifted /\ g.got = f.got
    BY <2>2 DEF Turns
  <2>4. ASSUME Undistracted(t), OnlyOne(t), SeenFrame(f, r, when, patch.active, bytes)
        PROVE  SeenFrame(g, r, when, patch.active, bytes)
    <3>1. SeenCode(g, patch.active, bytes)
      BY <1>1, <2>1, <2>2, <2>3 DEF SeenCode
    <3>2. CASE when = "before"
      <4>1. at = "leave"
        BY <2>2, <3>2
      <4>2. SeenBefore(g, r)
        BY <2>1, <2>3, <2>4, <3>2, <4>1 DEF SeenFrame, SeenBefore
      <4> QED
        BY <3>1, <3>2, <4>2 DEF SeenFrame
    <3>3. CASE when = "after"
      <4>1. SeenAfter(f, r)
        BY <2>4, <3>3 DEF SeenFrame
      <4>2. r = 0 /\ ~f.up /\ f.got <= Winsock!Total(f.io)
        BY <2>1, <4>1 DEF SeenAfter
      <4>3. at = "raise" => f.io # <<>>
        BY <1>4, <2>2, <2>4
      <4>4. at = "leave" => ~(f.got > 0) \/ f.io = <<>>
        BY <1>3, <1>4, <2>2, <2>4, <3>3, <4>2
      <4>5. at = "leave" => f.got = 0
        BY <1>1, <2>1, <4>2, <4>4
      <4>6. SeenAfter(g, r)
        BY <2>2, <2>3, <4>2, <4>3, <4>5 DEF SeenAfter
      <4> QED
        BY <3>1, <3>3, <4>6 DEF SeenFrame
    <3> QED
      BY <1>2, <3>2, <3>3
  <2> QED
    BY <2>1, <2>2, <2>4, ReplacedSeen DEF Settled, f, r, when
<1>17. CASE Winsock!Leave(t)
  BY <1>17, LeaveSeen
<1> QED
  BY <1>7, <1>8, <1>9, <1>10, <1>11, <1>12, <1>13, <1>14, <1>15, <1>16, <1>17
     DEF Winsock!ClientStep

\* Every step of the Winsock functions does.
LEMMA NextSeen ==
  ASSUME SockInv, Seen, [Winsock!Next]_Winsock!vars
  PROVE  Seen'
<1>1. SockTyped /\ (disturbed \/ Calm) /\ MarkUp
  BY DEF SockInv
<1>2. CASE UNCHANGED Winsock!vars
  <2>1. UNCHANGED <<fn, told, bytes, patch, stack, sockReported, alone, disturbed, unprotected>>
    BY <1>2 DEF Winsock!vars, Winsock!state, Winsock!own, Winsock!thread, Winsock!past
  <2> QED
    BY <2>1, SeenStays DEF Undistracted
<1>3. CASE Winsock!Next
  <2>1. Calm
    BY <1>1, <1>3 DEF Winsock!Next
  <2>2. ASSUME alone' = [t \in User |-> FALSE] PROVE Seen'
    BY <2>2 DEF Seen, Undistracted
  <2>3. ASSUME NEW t \in User, Winsock!ClientStep(t) PROVE Seen'
    BY <1>1, <2>1, <2>3, ClientSeen
  <2>4. ASSUME NEW a, Winsock!InstallStep(a) PROVE Seen'
    BY <2>2, <2>4, PatchTablesMoves, InlineSkipMoves, InlineCheckedMoves, WriteJumpMoves,
       TrackMoves
       DEF Winsock!InstallStep
  <2>5. ASSUME NEW m \in Late, Winsock!Load(m) PROVE Seen'
    BY <2>2, <2>5, LoadMoves
  <2>6. CASE Winsock!SetHook \/ Winsock!RemoveHook \/ Winsock!RemoveInlineHooks \/ Winsock!RemoveDone
    BY <2>2, <2>6, SetHookMoves, RemoveHookMoves, RemoveInlineMoves, RemoveDoneMoves
  <2> QED
    BY <1>3, <2>3, <2>4, <2>5, <2>6 DEF Winsock!Next
<1> QED
  BY <1>2, <1>3

\* By the time such a call returns, every byte has been told once.
LEMMA SeenIsSeen ==
  ASSUME SockTyped, Seen
  PROVE  Winsock!SeenOnce
<1> SUFFICES ASSUME NEW t \in User, alone[t], told, Winsock!At(t, "leave"), Winsock!Undisturbed
             PROVE  sockReported[t] = IF Winsock!W.when = "before" THEN Winsock!Total(Winsock!Top(t).io)
                                      ELSE Winsock!Top(t).got
  BY DEF Winsock!SeenOnce
<1>1. Undistracted(t) /\ Winsock!Top(t).at = "leave"
  BY DEF Undistracted, Winsock!At, Winsock!Undisturbed
<1>2. SeenFrame(Winsock!Top(t), sockReported[t], Winsock!W.when, patch.active, bytes)
  BY <1>1 DEF Seen
<1>3. Winsock!W.when \in {"before", "after"}
  BY WrapperKnown DEF SockTyped, CodeTyped
<1> QED
  BY <1>1, <1>2, <1>3 DEF SeenFrame, SeenBefore, SeenAfter

-----------------------------------------------------------------------------
(* The wrappers of the modules' exports: what each does.                    *)

PackageFns == {"LsaLookupAuthenticationPackage", "LsaCallAuthenticationPackage"}
HttpFns == {"WinHttpConnect", "WinHttpOpenRequest", "WinHttpSendRequest",
            "InternetConnectW", "HttpOpenRequestW", "HttpSendRequestW",
            "InternetConnectA", "HttpOpenRequestA", "HttpSendRequestA"}

\* A wrapper has one of these shapes.
Plain    == {After("none"), OnSuccess(After("none")), OnSuccess(After("read")), After("value"), After("read"),
             After("redacted"), HttpOnly(Before("read")), HttpOnly(OnSuccess(After("read")))}

\* A function that shares no ring has a wrapper of the first kind.
LEMMA PlainWrappers ==
  ASSUME NEW f \in DOMAIN g_Hooks \ (PackageFns \cup HttpFns)
  PROVE  g_Hooks[f] \in Plain
BY DEF g_Hooks, PackageFns, HttpFns, Plain, RtlAddFunctionTableHook,
       RtlInstallFunctionTableCallbackHook, RtlDeleteFunctionTableHook,
       RtlAddVectoredExceptionHandlerHook, RtlRemoveVectoredExceptionHandlerHook,
       SetUnhandledExceptionFilterHook, CoInitializeExHook, CoInitializeSecurityHook,
       CoCreateInstanceHook, EventRegisterHook, EventUnregisterHook, StartTraceWHook,
       EnableTraceEx2Hook, EtwEventWriteHook, EtwEventWriteExHook, EtwEventWriteFullHook,
       EtwEventWriteTransferHook, CreateJobObjectWHook, OpenJobObjectWHook,
       AssignProcessToJobObjectHook, SetInformationJobObjectHook, LsaConnectUntrustedHook,
       AcquireCredentialsHandleAHook, AcquireCredentialsHandleWHook,
       InitializeSecurityContextAHook, InitializeSecurityContextWHook,
       AcceptSecurityContextHook, CredReadAHook, CredReadWHook, CredEnumerateAHook,
       CredEnumerateWHook, CredReadDomainCredentialsAHook, CredReadDomainCredentialsWHook,
       LsaOpenPolicyHook, LsaQueryInformationPolicyHook, VaultEnumerateVaultsHook,
       VaultOpenVaultHook, VaultEnumerateItemsHook, VaultGetItemHook,
       CryptUnprotectDataHook, NCryptUnprotectSecretHook, NCryptOpenStorageProviderHook,
       NCryptOpenKeyHook, NCryptDecryptHook, CfAbortOperationHook, CfRegisterSyncRootHook,
       CfConnectSyncRootHook, CfCreatePlaceholdersHook, AmsiInitializeHook,
       AmsiUninitializeHook, AmsiOpenSessionHook, AmsiCloseSessionHook, AmsiScanBufferHook,
       AmsiScanStringHook, AmsiNotifyOperationHook, EncryptMessageHook, DecryptMessageHook,
       LsaLookupAuthenticationPackageHook, LsaCallAuthenticationPackageHook,
       WinHttpConnectHook, InternetConnectWHook, InternetConnectAHook,
       WinHttpOpenRequestHook, HttpOpenRequestWHook, HttpOpenRequestAHook,
       WinHttpSendRequestHook, HttpSendRequestWHook, HttpSendRequestAHook

\* What a wrapper without a ring can be, and what the others are.
IsPlain(w) ==
  /\ w.role = "none" /\ w.name \in {"none", "read", "value", "redacted"} /\ w.when \in {"before", "after"}
  /\ w.ifOk \in BOOLEAN /\ w.ifHttp \in BOOLEAN /\ (w.ifOk => w.when = "after")
  /\ w.ifHttp => w.name = "read"

IsOfPackage(w) ==
  /\ w.when = "after" /\ w.ifOk = FALSE /\ w.ifHttp = FALSE
  /\ (w.role = "package" /\ w.name = "copied") \/ (w.role = "none" /\ w.name = "package")

IsOfHandle(w) ==
  /\ w.ifOk = FALSE /\ w.ifHttp \in BOOLEAN
  /\ \/ w.role = "connect" /\ w.name = "read" /\ w.when = "after"
     \/ w.role = "open" /\ w.name = "parent" /\ w.when = "after" /\ ~w.ifHttp
     \/ w.role = "none" /\ w.name = "request" /\ w.when = "before" /\ ~w.ifHttp

\* What such a wrapper can be.
LEMMA PlainShape ==
  ASSUME NEW w \in Plain
  PROVE  IsPlain(w)
<1>1. IsPlain(After("none")) /\ IsPlain(After("value")) /\ IsPlain(After("read")) /\ IsPlain(After("redacted"))
  BY DEF IsPlain, After
<1>2. IsPlain(OnSuccess(After("none"))) /\ IsPlain(OnSuccess(After("read")))
  BY DEF IsPlain, After, OnSuccess
<1>3. IsPlain(HttpOnly(Before("read"))) /\ IsPlain(HttpOnly(OnSuccess(After("read"))))
  <2>1. ASSUME NEW u \in {HttpOnly(Before("read")), HttpOnly(OnSuccess(After("read")))}
        PROVE  /\ u.role = "none" /\ u.name = "read" /\ u.ifHttp = TRUE
               /\ (u.when = "before" /\ u.ifOk = FALSE) \/ (u.when = "after" /\ u.ifOk = TRUE)
    BY <2>1 DEF After, Before, OnSuccess, HttpOnly
  <2> QED
    BY <2>1 DEF IsPlain
<1> QED
  BY <1>1, <1>2, <1>3 DEF Plain

\* What the wrapper of a function of packages is.
LEMMA PackageShape ==
  ASSUME NEW f \in PackageFns
  PROVE  IsOfPackage(g_Hooks[f])
BY DEF PackageFns, IsOfPackage, g_Hooks, After, Stores, LsaLookupAuthenticationPackageHook,
       LsaCallAuthenticationPackageHook

\* What the wrapper of a function of handles is.
LEMMA HandleShape ==
  ASSUME NEW f \in HttpFns
  PROVE  IsOfHandle(g_Hooks[f])
<1>1. /\ IsOfHandle(Connects(After("read"))) /\ IsOfHandle(HttpOnly(Connects(After("read"))))
      /\ IsOfHandle(Opens(After("parent"))) /\ IsOfHandle(Before("request"))
  BY DEF IsOfHandle, After, Before, Connects, HttpOnly, Opens
<1>2. g_Hooks[f] \in {Connects(After("read")), HttpOnly(Connects(After("read"))), Opens(After("parent")),
                      Before("request")}
  BY DEF HttpFns, g_Hooks, WinHttpConnectHook, WinHttpOpenRequestHook,
         WinHttpSendRequestHook, InternetConnectWHook, HttpOpenRequestWHook,
         HttpSendRequestWHook, InternetConnectAHook, HttpOpenRequestAHook,
         HttpSendRequestAHook
<1> QED
  BY <1>1, <1>2

\* These functions are hooked.
LEMMA FnsKnown == PackageFns \subseteq DOMAIN g_Hooks /\ HttpFns \subseteq DOMAIN g_Hooks
BY DEF PackageFns, HttpFns, g_Hooks

\* A behaviour calls functions of one kind.
Kinds ==
  \/ subject \subseteq PackageFns /\ Sharing
  \/ subject \subseteq HttpFns /\ Sharing
  \/ subject \subseteq DOMAIN g_Hooks \ (PackageFns \cup HttpFns) /\ ~Sharing

\* Functions called together are of one kind.
LEMMA SubjectKinds ==
  ASSUME subject \in Subject
  PROVE  Kinds
<1>1. CASE subject \in Families
  <2>1. subject \subseteq PackageFns \/ subject \subseteq HttpFns
    BY <1>1, FamiliesShareARing DEF PackageFns, HttpFns
  <2>2. Sharing
    BY <1>1, FamiliesShareARing DEF Sharing
  <2> QED
    BY <2>1, <2>2 DEF Kinds
<1>2. CASE subject \in {{f} : f \in Single}
  <2>1. PICK f \in Single : subject = {f}
    BY <1>2
  <2>2. Cardinality(subject) = 1
    BY <2>1, FS_Singleton
  <2>3. f \in DOMAIN g_Hooks \ (PackageFns \cup HttpFns)
    BY DEF Single, PackageFns, HttpFns
  <2> QED
    BY <2>1, <2>2, <2>3 DEF Kinds, Sharing
<1> QED
  BY <1>1, <1>2 DEF Subject

-----------------------------------------------------------------------------
(* Types of the wrappers.                                                  *)

Spots   == {"enter", "original", "parent", "store", "publish", "callback", "leave"}
Ids     == Handle \cup {NoHandle} \cup {PackageId[p] : p \in Package}
Texts   == Host \cup Package \cup Name \cup {"none", "<redacted>", Unknown}
Entries == [handle : Ids, host : Texts, secure : BOOLEAN]
Reports == [told : BOOLEAN, host : Texts, secure : BOOLEAN]
Calls   == [fn : DOMAIN g_Hooks, at : Spots, arg : Texts, kept : Texts, on : Ids, got : Ids, secure : BOOLEAN,
            http : BOOLEAN, ok : BOOLEAN, entry : Entries, report : Reports, passed : Texts, inner : BOOLEAN]
Objects == [is : {"nothing", "connect", "ftp", "request"}, host : Texts, secure : BOOLEAN,
            over : Handle \cup {NoHandle}, usable : BOOLEAN]

WithinTyped == within \in [User -> Seq(Calls)]
RingTyped   == ring \in [1..RingMax -> Entries] /\ head \in Nat
HandleTyped == object \in [Handle -> Objects] /\ given \in [Handle -> Nat]
WrapTyped   == /\ subject \in Subject /\ WithinTyped /\ inHook \in [User -> BOOLEAN]
               /\ RingTyped /\ HandleTyped /\ ops \in 0..(OpMax + 1)

\* Handles and package ids are numbers, and what stands for nothing has its type.
LEMMA HandlesAreNumbers ==
  /\ Handle \subseteq Nat /\ NoHandle \notin Handle /\ Ids \subseteq Nat
  /\ \A p \in Package : PackageId[p] \in Ids
  /\ NoEntry \in Entries /\ NoReport \in Reports /\ NoObject \in Objects
<1>1. \A p \in Package : PackageId[p] \in Nat
  BY DEF PackageId, Package
<1>2. Unknown \in Texts /\ NoHandle \in Ids
  BY DEF Texts, Ids
<1> QED
  BY <1>1, <1>2, RingsHold DEF Handle, NoHandle, Ids, NoEntry, NoReport, NoObject, Entries,
                               Reports, Objects

\* f becomes g: of the rest of a frame nothing changes after it was made.
Alters(f, g, arg, at, kept, ok, got, entry, report) ==
  /\ g \in Calls /\ g.fn = f.fn /\ g.on = f.on /\ g.secure = f.secure /\ g.http = f.http
  /\ g.passed = f.passed /\ g.inner = f.inner
  /\ g.arg = arg /\ g.at = at /\ g.kept = kept /\ g.ok = ok /\ g.got = got /\ g.entry = entry /\ g.report = report

\* The argument changes.
LEMMA ArgSet ==
  ASSUME NEW f \in Calls, NEW arg \in Texts
  PROVE  Alters(f, [f EXCEPT !.arg = arg], arg, f.at, f.kept, f.ok, f.got, f.entry, f.report)
BY DEF Calls, Alters

\* The call moves on.
LEMMA SpotSet ==
  ASSUME NEW f \in Calls, NEW at \in Spots
  PROVE  Alters(f, [f EXCEPT !.at = at], f.arg, at, f.kept, f.ok, f.got, f.entry, f.report)
BY DEF Calls, Alters

\* It has copied its argument.
LEMMA KeptSet ==
  ASSUME NEW f \in Calls, NEW at \in Spots, NEW kept \in Texts
  PROVE  Alters(f, [f EXCEPT !.at = at, !.kept = kept], f.arg, at, kept, f.ok, f.got, f.entry, f.report)
BY DEF Calls, Alters

\* It has looked an entry up.
LEMMA EntrySet ==
  ASSUME NEW f \in Calls, NEW at \in Spots, NEW entry \in Entries
  PROVE  Alters(f, [f EXCEPT !.at = at, !.entry = entry], f.arg, at, f.kept, f.ok, f.got, entry, f.report)
BY DEF Calls, Alters

\* It tells.
LEMMA ReportSet ==
  ASSUME NEW f \in Calls, NEW at \in Spots, NEW report \in Reports
  PROVE  Alters(f, [f EXCEPT !.at = at, !.report = report], f.arg, at, f.kept, f.ok, f.got, f.entry, report)
BY DEF Calls, Alters

\* Of the stacks only the innermost frame of one thread changes.
Within(t, g) ==
  /\ within[t] # <<>> /\ \A u \in User : u # t => within'[u] = within[u]
  /\ Len(within'[t]) = Len(within[t]) /\ Len(within[t]) \in DOMAIN within[t]
  /\ DOMAIN within'[t] = DOMAIN within[t] /\ within'[t][Len(within[t])] = g
  /\ \A i \in DOMAIN within[t] : i # Len(within[t]) => within'[t][i] = within[t][i]

\* The innermost call of one thread becomes another.
LEMMA CallBecomes ==
  ASSUME WithinTyped, NEW t \in User, within[t] # <<>>, NEW g \in Calls, Become(t, g)
  PROVE  WithinTyped' /\ Within(t, g)
<1> DEFINE s == within[t]
           r == [s EXCEPT ![Len(s)] = g]
<1>1. s \in Seq(Calls)
  BY DEF WithinTyped
<1>2. within' = [within EXCEPT ![t] = r]
  BY DEF Become
<1>3. /\ r \in Seq(Calls) /\ Len(r) = Len(s) /\ DOMAIN r = DOMAIN s /\ Len(s) \in DOMAIN s
      /\ r[Len(s)] = g /\ \A i \in DOMAIN s : i # Len(s) => r[i] = s[i]
  BY <1>1, TopChanged
<1> HIDE DEF r
<1>4. within'[t] = r /\ \A u \in User : u # t => within'[u] = within[u]
  BY <1>2 DEF WithinTyped
<1>5. WithinTyped'
  BY <1>2, <1>3 DEF WithinTyped
<1> QED
  BY <1>3, <1>4, <1>5 DEF Within

\* The innermost call of a thread is one.
LEMMA InnermostTyped ==
  ASSUME WithinTyped, NEW t \in User, within[t] # <<>>
  PROVE  Top(t) \in Calls /\ Len(within[t]) \in DOMAIN within[t] /\ Top(t) = within[t][Len(within[t])]
<1>1. within[t] \in Seq(Calls)
  BY DEF WithinTyped
<1> QED
  BY <1>1, TopChanged DEF Top

\* The stack of one thread without its last call.
LEMMA CallEnds ==
  ASSUME WithinTyped, NEW t \in User, within[t] # <<>>,
         within' = [within EXCEPT ![t] = SubSeq(@, 1, Len(@) - 1)]
  PROVE  /\ WithinTyped' /\ \A u \in User : u # t => within'[u] = within[u]
         /\ DOMAIN within'[t] = DOMAIN within[t] \ {Len(within[t])}
         /\ Len(within'[t]) = Len(within[t]) - 1 /\ Len(within[t]) \in Nat
         /\ \A i \in DOMAIN within'[t] : within'[t][i] = within[t][i]
<1> DEFINE s == within[t]
           r == SubSeq(s, 1, Len(s) - 1)
<1>1. s \in Seq(Calls)
  BY DEF WithinTyped
<1>2. within' = [within EXCEPT ![t] = r]
  OBVIOUS
<1>3. /\ r \in Seq(Calls) /\ Len(r) = Len(s) - 1 /\ Len(s) \in Nat
      /\ DOMAIN r = DOMAIN s \ {Len(s)} /\ \A i \in DOMAIN r : r[i] = s[i]
  BY <1>1, FramePopped
<1> HIDE DEF r
<1>4. within'[t] = r /\ \A u \in User : u # t => within'[u] = within[u]
  BY <1>2 DEF WithinTyped
<1>5. WithinTyped'
  BY <1>2, <1>3 DEF WithinTyped
<1> QED
  BY <1>3, <1>4, <1>5

\* A call on an empty stack.
LEMMA CallStarts ==
  ASSUME WithinTyped, NEW t \in User, within[t] = <<>>, NEW x \in Calls, within' = [within EXCEPT ![t] = <<x>>]
  PROVE  /\ WithinTyped' /\ \A u \in User : u # t => within'[u] = within[u]
         /\ within'[t] = <<x>>
<1>1. <<x>> \in Seq(Calls)
  OBVIOUS
<1>2. within'[t] = <<x>> /\ \A u \in User : u # t => within'[u] = within[u]
  BY DEF WithinTyped
<1> QED
  BY <1>1, <1>2 DEF WithinTyped

\* A call from the callback.
LEMMA CallNests ==
  ASSUME WithinTyped, NEW t \in User, Len(within[t]) = 1, NEW x \in Calls,
         within' = [within EXCEPT ![t] = Append(@, x)]
  PROVE  /\ WithinTyped' /\ \A u \in User : u # t => within'[u] = within[u]
         /\ Len(within'[t]) = 2 /\ within'[t][1] = within[t][1] /\ within'[t][2] = x
<1> DEFINE s == within[t]
           r == Append(s, x)
<1>1. s \in Seq(Calls)
  BY DEF WithinTyped
<1>2. r \in Seq(Calls) /\ Len(r) = 2 /\ r[1] = s[1] /\ r[2] = x
  <2>1. Len(s) = 1
    OBVIOUS
  <2> HIDE DEF s
  <2> QED
    BY <1>1, <2>1, FramePushed
<1>3. within' = [within EXCEPT ![t] = r]
  OBVIOUS
<1> HIDE DEF r
<1>4. within'[t] = r /\ \A u \in User : u # t => within'[u] = within[u]
  BY <1>3 DEF WithinTyped
<1>5. WithinTyped'
  BY <1>2, <1>3 DEF WithinTyped
<1> QED
  BY <1>2, <1>4, <1>5

-----------------------------------------------------------------------------
(* What holds of a hooked call at each of its steps.                        *)

\* The wrapper of a function that a behaviour calls is of one of three shapes.
Shaped(w) == IsPlain(w) \/ IsOfPackage(w) \/ IsOfHandle(w)

\* The kind of a function's wrapper.
LEMMA Shapes ==
  ASSUME subject \in Subject, NEW f \in subject
  PROVE  /\ f \in DOMAIN g_Hooks /\ Shaped(g_Hooks[f])
         /\ ~Sharing => IsPlain(g_Hooks[f])
         /\ IsOfPackage(g_Hooks[f]) => subject \subseteq PackageFns
<1>1. Kinds
  BY SubjectKinds
<1>2. CASE subject \subseteq PackageFns /\ Sharing
  BY <1>2, PackageShape, FnsKnown DEF Shaped
<1>3. CASE subject \subseteq HttpFns /\ Sharing
  <2>1. f \in DOMAIN g_Hooks /\ IsOfHandle(g_Hooks[f])
    BY <1>3, HandleShape, FnsKnown
  <2> QED
    BY <1>3, <2>1 DEF Shaped, IsOfHandle, IsOfPackage
<1>4. CASE subject \subseteq DOMAIN g_Hooks \ (PackageFns \cup HttpFns) /\ ~Sharing
  <2>1. f \in DOMAIN g_Hooks /\ IsPlain(g_Hooks[f])
    BY <1>4, PlainWrappers, PlainShape
  <2> QED
    BY <1>4, <2>1 DEF Shaped, IsPlain, IsOfPackage
<1> QED
  BY <1>1, <1>2, <1>3, <1>4 DEF Kinds

\* The program's call is due to be told.
Due(f) == /\ ~f.inner /\ (g_Hooks[f.fn].ifOk => f.ok)
          /\ g_Hooks[f.fn].ifHttp => f.http

\* It is told at its publish, if due, and not before.
ToldFits(f) ==
  LET w == g_Hooks[f.fn] IN
  /\ f.at \in {"enter", "publish"} => ~f.report.told
  /\ f.at \in {"callback", "leave"} => (f.report.told <=> Due(f))
  /\ w.when = "after" => (f.at \in {"original", "parent", "store"} => ~f.report.told)
  /\ w.when = "before" => (f.at = "original" => (f.report.told <=> Due(f)))

NamesIt(f) ==
  LET w == g_Hooks[f.fn] IN
  /\ w.name = "redacted" => f.report.host = Redacted(f.passed)
  /\ w.name = "copied" => f.report.host = f.passed
  /\ w.name = "package" => f.report.host \in {f.arg, Unknown}

\* What it will be told under.
NameFits(f) ==
  LET w == g_Hooks[f.fn] IN
  /\ w.name = "redacted" => IF f.at = "enter" THEN f.arg = f.passed ELSE f.kept = Redacted(f.passed)
  /\ w.name = "copied" => /\ f.arg = f.passed /\ f.arg \in Package /\ (f.at # "enter" => f.kept = f.arg)
                          /\ f.got \in {NoHandle, PackageId[f.arg]}
  /\ w.name = "package" => f.arg \in Package /\ f.on = PackageId[f.arg]
  /\ w.role = "open" => f.on \in Handle
  /\ f.report.told => NamesIt(f)

\* Where it can be.
SpotFits(f) ==
  LET w == g_Hooks[f.fn] IN
  /\ w.when = "before" => f.at \notin {"parent", "store"}
  /\ f.at = "parent" => w.role = "open"
  /\ f.at = "store" => w.role \in {"open", "connect", "package"}

Fits(f, S) == f.fn \in S /\ ToldFits(f) /\ NameFits(f) /\ SpotFits(f)

-----------------------------------------------------------------------------
(* The steps of one call.                                                  *)

\* The caller's memory changes under the call.
LEMMA Overwritten ==
  ASSUME subject \in Subject, ~Sharing, NEW f \in Calls, Fits(f, subject), f.at # "enter", NEW a \in Name
  PROVE  LET g == [f EXCEPT !.arg = a] IN g \in Calls /\ Fits(g, subject) /\ g.at = f.at /\ g.inner = f.inner
<1> DEFINE g == [f EXCEPT !.arg = a]
<1>1. a \in Texts
  BY DEF Texts
<1>2. Alters(f, g, a, f.at, f.kept, f.ok, f.got, f.entry, f.report)
  BY <1>1, ArgSet
<1> HIDE DEF g
<1>3. IsPlain(g_Hooks[f.fn])
  BY Shapes DEF Fits
<1>4. ToldFits(g)
  BY <1>2 DEF Fits, ToldFits, Due, Alters
<1>5. NameFits(g)
  BY <1>2, <1>3 DEF Fits, NameFits, NamesIt, Alters, IsPlain
<1>6. SpotFits(g)
  BY <1>2 DEF Fits, SpotFits, Alters
<1> QED
  BY <1>2, <1>4, <1>5, <1>6 DEF Fits, Alters, g

Entered(f) ==
  LET w == g_Hooks[f.fn] IN
  [f EXCEPT !.at = IF w.when = "before" THEN "publish" ELSE "original",
            !.kept = CASE w.name = "redacted" -> Redacted(f.arg) [] w.name = "copied" -> f.arg [] OTHER -> @]

\* A redacted name is a name.
LEMMA RedactedText ==
  ASSUME NEW x \in Texts
  PROVE  Redacted(x) \in Texts
BY DEF Redacted, Texts

\* The wrapper copies what it must before the call.
LEMMA EnteredFits ==
  ASSUME subject \in Subject, NEW f \in Calls, Fits(f, subject), f.at = "enter"
  PROVE  LET g == Entered(f) IN
         g \in Calls /\ Fits(g, subject) /\ g.at # "callback" /\ g.inner = f.inner
<1> DEFINE w == g_Hooks[f.fn]
           at == IF w.when = "before" THEN "publish" ELSE "original"
           kept == CASE w.name = "redacted" -> Redacted(f.arg) [] w.name = "copied" -> f.arg [] OTHER -> f.kept
           g == Entered(f)
<1>1. at \in Spots /\ at # "callback" /\ at # "enter"
  BY DEF Spots
<1>2. f.arg \in Texts /\ f.kept \in Texts /\ Redacted(f.arg) \in Texts
  BY RedactedText DEF Calls
<1>3. kept \in Texts
  BY <1>2
<1>4. g = [f EXCEPT !.at = at, !.kept = kept]
  BY DEF Entered
<1> HIDE DEF at, kept, g
<1>5. Alters(f, g, f.arg, at, kept, f.ok, f.got, f.entry, f.report)
  BY <1>1, <1>3, <1>4, KeptSet, Zenon
<1>6. ToldFits(g)
  <2>1. at = IF w.when = "before" THEN "publish" ELSE "original"
    BY DEF at
  <2>2. ~f.report.told
    BY DEF Fits, ToldFits
  <2> QED
    BY <1>5, <2>1, <2>2 DEF ToldFits, Alters
<1>7. NameFits(g)
  <2>1. (w.name = "redacted" => kept = Redacted(f.arg)) /\ (w.name = "copied" => kept = f.arg)
    BY DEF kept
  <2>2. ~f.report.told
    BY DEF Fits, ToldFits
  <2> QED
    BY <1>1, <1>5, <2>1, <2>2 DEF Fits, NameFits, Alters
<1>8. SpotFits(g)
  <2>1. at \in {"publish", "original"}
    BY DEF at
  <2> QED
    BY <1>5, <2>1 DEF SpotFits, Alters
<1> QED
  BY <1>1, <1>5, <1>6, <1>7, <1>8 DEF Fits, Alters, g

\* Where the original's answer takes a call.
Answered(w) ==
  CASE w.when = "before" -> "leave" [] w.role = "open" -> "parent" [] w.role = "connect" -> "store"
    [] w.role = "package" -> "store" [] OTHER -> "publish"

\* That is a place in the wrapper.
LEMMA AnsweredSpot ==
  ASSUME NEW w
  PROVE  Answered(w) \in Spots
BY DEF Answered, Spots

\* The original has answered.
LEMMA AnsweredFits ==
  ASSUME subject \in Subject, NEW f \in Calls, Fits(f, subject), f.at = "original", NEW ok \in BOOLEAN, NEW got \in Ids,
         NEW at, at = Answered(g_Hooks[f.fn]), NEW g, Alters(f, g, f.arg, at, f.kept, ok, got, f.entry, f.report),
         g_Hooks[f.fn].name = "copied" => got \in {NoHandle, PackageId[f.arg]}
  PROVE  /\ g \in Calls /\ Fits(g, subject) /\ g.at # "callback" /\ g.inner = f.inner
<1> DEFINE w == g_Hooks[f.fn]
<1>0. at \in {"leave", "parent", "store", "publish"}
  BY DEF Answered
<1>5. Shaped(w)
  BY Shapes DEF Fits
<1>6. w.when \in {"before", "after"} /\ (w.when = "before" => ~w.ifOk /\ w.role = "none")
  BY <1>5 DEF Shaped, IsPlain, IsOfPackage, IsOfHandle
<1>1. /\ w.when = "before" => at = "leave"
      /\ w.when # "before" => at # "leave"
      /\ at = "parent" => w.role = "open"
      /\ at = "store" => w.role \in {"connect", "package"}
  BY <1>6 DEF Answered
<1>4. Alters(f, g, f.arg, at, f.kept, ok, got, f.entry, f.report)
  OBVIOUS
<1>7. ToldFits(g)
  BY <1>0, <1>1, <1>4, <1>6 DEF Fits, ToldFits, Due, Alters
<1>8. NameFits(g)
  BY <1>0, <1>4 DEF Fits, NameFits, NamesIt, Alters
<1>9. SpotFits(g)
  BY <1>0, <1>1, <1>4 DEF SpotFits, Alters
<1> QED
  BY <1>0, <1>4, <1>7, <1>8, <1>9 DEF Fits, Alters

\* The connection has been looked up.
LEMMA LookedUpFits ==
  ASSUME subject \in Subject, NEW f \in Calls, Fits(f, subject), f.at = "parent", NEW entry \in Entries,
         NEW g, g = [f EXCEPT !.at = "store", !.entry = entry]
  PROVE  /\ g \in Calls /\ Fits(g, subject) /\ g.at # "callback" /\ g.inner = f.inner
         /\ Alters(f, g, f.arg, "store", f.kept, f.ok, f.got, entry, f.report)
<1>1. Alters(f, g, f.arg, "store", f.kept, f.ok, f.got, entry, f.report)
  <2>1. "store" \in Spots
    BY DEF Spots
  <2> QED
    BY <2>1, EntrySet, Zenon
<1>2. Shaped(g_Hooks[f.fn])
  BY Shapes DEF Fits
<1>3. ToldFits(g)
  BY <1>1, <1>2 DEF Fits, ToldFits, SpotFits, Alters
<1>4. NameFits(g)
  BY <1>1 DEF Fits, NameFits, NamesIt, Alters
<1>5. SpotFits(g)
  BY <1>1 DEF Fits, SpotFits, Alters
<1> QED
  BY <1>1, <1>3, <1>4, <1>5 DEF Fits, Alters

\* The handle or the package has been stored.
LEMMA StoredFits ==
  ASSUME subject \in Subject, NEW f \in Calls, Fits(f, subject), f.at = "store",
         NEW g, g = [f EXCEPT !.at = "publish"]
  PROVE  /\ g \in Calls /\ Fits(g, subject) /\ g.at # "callback" /\ g.inner = f.inner
         /\ Alters(f, g, f.arg, "publish", f.kept, f.ok, f.got, f.entry, f.report)
<1>1. Alters(f, g, f.arg, "publish", f.kept, f.ok, f.got, f.entry, f.report)
  <2>1. "publish" \in Spots
    BY DEF Spots
  <2> QED
    BY <2>1, SpotSet, Zenon
<1>2. Shaped(g_Hooks[f.fn])
  BY Shapes DEF Fits
<1>3. ToldFits(g)
  BY <1>1, <1>2 DEF Fits, ToldFits, SpotFits, Alters, Shaped, IsPlain, IsOfPackage,
                    IsOfHandle
<1>4. NameFits(g)
  BY <1>1 DEF Fits, NameFits, NamesIt, Alters
<1>5. SpotFits(g)
  BY <1>1 DEF Fits, SpotFits, Alters
<1> QED
  BY <1>1, <1>3, <1>4, <1>5 DEF Fits, Alters

\* Past its publish: to the original, or out.
Onward(w) == IF w.when = "before" THEN "original" ELSE "leave"

\* The call is not told, or the callback is done.
LEMMA PassedFits ==
  ASSUME subject \in Subject, NEW f \in Calls, Fits(f, subject),
         NEW g, g = [f EXCEPT !.at = Onward(g_Hooks[f.fn])],
         \/ f.at = "callback"
         \/ f.at = "publish" /\ ~Due(f)
  PROVE  /\ g \in Calls /\ Fits(g, subject) /\ g.at # "callback" /\ g.inner = f.inner
         /\ Alters(f, g, f.arg, g.at, f.kept, f.ok, f.got, f.entry, f.report)
<1> DEFINE w == g_Hooks[f.fn]
           at == Onward(w)
<1>1. at \in {"original", "leave"} /\ (w.when = "before" => at = "original") /\ (w.when # "before" => at = "leave")
  BY DEF Onward
<1>2. g = [f EXCEPT !.at = at]
  OBVIOUS
<1>3. at \in Spots
  BY <1>1 DEF Spots
<1> HIDE DEF at
<1>4. Alters(f, g, f.arg, at, f.kept, f.ok, f.got, f.entry, f.report)
  BY <1>2, <1>3, SpotSet, Zenon
<1>5. f.report.told <=> Due(f)
  BY DEF Fits, ToldFits
<1>6. Due(g) <=> Due(f)
  BY <1>4 DEF Due, Alters
<1>7. ToldFits(g)
  BY <1>1, <1>4, <1>5, <1>6 DEF ToldFits, Alters
<1>8. NameFits(g)
  <2>1. f.at # "enter"
    OBVIOUS
  <2> QED
    BY <1>1, <1>4, <2>1 DEF Fits, NameFits, NamesIt, Alters
<1>9. SpotFits(g)
  BY <1>1, <1>4 DEF SpotFits, Alters
<1> QED
  BY <1>1, <1>4, <1>7, <1>8, <1>9 DEF Fits, Alters

\* The callback is told.
LEMMA ToldFitsNow ==
  ASSUME subject \in Subject, NEW f \in Calls, Fits(f, subject), f.at = "publish", Due(f), NEW report \in Reports,
         report.told, NEW g, g = [f EXCEPT !.at = "callback", !.report = report], NamesIt(g)
  PROVE  /\ g \in Calls /\ Fits(g, subject) /\ g.at = "callback" /\ g.inner = f.inner
         /\ Alters(f, g, f.arg, "callback", f.kept, f.ok, f.got, f.entry, report)
<1>1. Alters(f, g, f.arg, "callback", f.kept, f.ok, f.got, f.entry, report)
  <2>1. "callback" \in Spots
    BY DEF Spots
  <2> QED
    BY <2>1, ReportSet, Zenon
<1>2. Due(g)
  BY <1>1 DEF Due, Alters
<1>3. ToldFits(g)
  BY <1>1, <1>2 DEF ToldFits, Alters
<1>4. NameFits(g)
  BY <1>1 DEF Fits, NameFits, Alters
<1>5. SpotFits(g)
  BY <1>1 DEF SpotFits, Alters
<1> QED
  BY <1>1, <1>3, <1>4, <1>5 DEF Fits, Alters

-----------------------------------------------------------------------------
(* How a call begins.                                                      *)

\* A frame of f that has only just been entered.
Fresh(x, f) == /\ x \in Calls /\ x.fn = f /\ x.at = "enter" /\ x.got = NoHandle /\ x.entry = NoEntry
               /\ x.report = NoReport /\ x.kept = "none"

Made(x, f, arg, on) == Fresh(x, f) /\ x.inner = FALSE /\ x.arg = arg /\ x.passed = arg /\ x.on = on

\* A frame is made with nothing told and nothing kept.
LEMMA FrameIsFresh ==
  ASSUME NEW f \in DOMAIN g_Hooks, NEW arg \in Texts, NEW on \in Ids, NEW secure \in BOOLEAN, NEW http \in BOOLEAN
  PROVE  Made(Frame(f, arg, on, secure, http), f, arg, on)
<1>1. Frame(f, arg, on, secure, http) \in Calls
  BY HandlesAreNumbers DEF Frame, Calls, Spots, Texts, Ids
<1> QED
  BY <1>1 DEF Frame, Fresh, Made

\* What the program passes: a name, a server, a package or a handle it may use.
Passes(x) ==
  LET w == g_Hooks[x.fn] IN
  /\ w.name = "redacted" => x.arg = x.passed
  /\ w.name = "copied" => x.arg = x.passed /\ x.arg \in Package
  /\ w.name = "package" => x.arg \in Package /\ x.on = PackageId[x.arg]
  /\ w.role = "open" => x.on \in Handle

\* A call begins with a frame of its function that says what it passes.
LEMMA Begun ==
  ASSUME subject \in Subject, NEW f \in subject, NEW x \in Begins(f)
  PROVE  Fresh(x, f) /\ x.inner = FALSE /\ Passes(x)
<1> DEFINE w == g_Hooks[f]
<1>1. f \in DOMAIN g_Hooks /\ Shaped(w)
  BY Shapes
<1>2. /\ Host \subseteq Texts /\ Name \subseteq Texts /\ Package \subseteq Texts /\ Handle \subseteq Ids
      /\ \A p \in Package : PackageId[p] \in Ids
      /\ "none" \in Texts /\ NoHandle \in Ids
  BY HandlesAreNumbers DEF Texts, Ids
<1> DEFINE wrapper == /\ w.role = "connect" => w.name = "read"
                      /\ w.role = "open" => w.name = "parent"
                      /\ w.role = "package" => w.name = "copied"
                      /\ w.name \in {"request", "package"} => w.role = "none" /\ ~w.ifHttp
                      /\ w.role = "none" /\ w.ifHttp => w.name \in {"none", "read", "value"}
<1>10. wrapper
  BY <1>1 DEF Shaped, IsPlain, IsOfPackage, IsOfHandle
<1>3. CASE w.role = "connect"
  <2>0. x \in ToHost(f)
    BY <1>3, <1>10 DEF Begins
  <2>1. PICK a \in Host, s \in BOOLEAN, y \in Services(f) : x = Frame(f, a, NoHandle, s, y)
    BY <2>0 DEF ToHost
  <2>2. a \in Texts /\ y \in BOOLEAN
    BY <1>2 DEF Services
  <2>3. Made(x, f, a, NoHandle)
    BY <1>1, <1>2, <2>1, <2>2, FrameIsFresh
  <2>4. w.name = "read" /\ w.role # "open"
    BY <1>3, <1>10
  <2> QED
    BY <2>3, <2>4 DEF Passes, Fresh, Made
<1>4. CASE w.role = "open"
  <2>0. x \in OnHandle(f)
    BY <1>4, <1>10 DEF Begins
  <2>1. PICK h \in {g \in Handle : Usable(g, "connect")}, s \in BOOLEAN : x = Frame(f, "none", h, s, TRUE)
    BY <2>0 DEF OnHandle
  <2>2. h \in Handle /\ h \in Ids
    BY <1>2
  <2>3. Made(x, f, "none", h)
    BY <1>1, <1>2, <2>1, <2>2, FrameIsFresh
  <2>4. w.name = "parent"
    BY <1>4, <1>10
  <2> QED
    BY <2>2, <2>3, <2>4 DEF Passes, Fresh, Made
<1>5. CASE w.name = "request"
  <2>1. w.role = "none"
    BY <1>5, <1>10
  <2>0. x \in OnRequest(f)
    BY <1>5, <1>10 DEF Begins
  <2>2. PICK h \in {g \in Handle : Usable(g, "request")} : x = Frame(f, "none", h, FALSE, TRUE)
    BY <2>0 DEF OnRequest
  <2>3. h \in Ids
    BY <1>2
  <2>4. Made(x, f, "none", h)
    BY <1>1, <1>2, <2>2, <2>3, FrameIsFresh
  <2> QED
    BY <1>5, <2>1, <2>4 DEF Passes, Fresh, Made
<1>6. CASE w.role = "package"
  <2>1. w.name = "copied"
    BY <1>6, <1>10
  <2>0. x \in ForPackage(f)
    BY <1>6, <1>10 DEF Begins
  <2>2. PICK p \in Package : x = Frame(f, p, NoHandle, FALSE, TRUE)
    BY <2>0 DEF ForPackage
  <2>3. Made(x, f, p, NoHandle)
    BY <1>1, <1>2, <2>2, FrameIsFresh
  <2> QED
    BY <1>6, <2>1, <2>3 DEF Passes, Fresh, Made
<1>7. CASE w.name = "package"
  <2>1. w.role = "none"
    BY <1>7, <1>10
  <2>0. x \in OfPackage(f)
    BY <1>7, <1>10 DEF Begins
  <2>2. PICK p \in Package : x = Frame(f, p, PackageId[p], FALSE, TRUE)
    BY <2>0 DEF OfPackage
  <2>3. Made(x, f, p, PackageId[p])
    BY <1>1, <1>2, <2>2, FrameIsFresh
  <2> QED
    BY <1>7, <2>1, <2>3 DEF Passes, Fresh, Made
<1>8. CASE w.role = "none" /\ w.name \in {"none", "read", "value", "redacted"} /\ w.ifHttp
  <2>0. x \in WithMessage(f)
    BY <1>8 DEF Begins
  <2>1. PICK y \in BOOLEAN : x = Frame(f, "none", NoHandle, FALSE, y)
    BY <2>0 DEF WithMessage
  <2>2. Made(x, f, "none", NoHandle)
    BY <1>1, <1>2, <2>1, FrameIsFresh
  <2>3. w.name = "read"
    BY <1>1, <1>8 DEF Shaped, IsPlain, IsOfPackage, IsOfHandle
  <2> QED
    BY <1>8, <2>2, <2>3 DEF Passes, Fresh, Made
<1>9. CASE w.role = "none" /\ w.name \in {"none", "read", "value", "redacted"} /\ ~w.ifHttp
  <2>0. x \in WithName(f)
    BY <1>9 DEF Begins
  <2>1. PICK a \in Name : x = Frame(f, a, NoHandle, FALSE, TRUE)
    BY <2>0 DEF WithName
  <2>2. Made(x, f, a, NoHandle)
    BY <1>1, <1>2, <2>1, FrameIsFresh
  <2> QED
    BY <1>9, <2>2 DEF Passes, Fresh, Made
<1> QED
  BY <1>1, <1>3, <1>4, <1>5, <1>6, <1>7, <1>8, <1>9
     DEF Shaped, IsPlain, IsOfPackage, IsOfHandle

\* And fits, whoever makes it.
LEMMA BegunFits ==
  ASSUME subject \in Subject, NEW f \in subject, NEW x \in Begins(f)
  PROVE  /\ x \in Calls /\ Fits(x, subject) /\ x.at = "enter" /\ x.inner = FALSE
         /\ LET y == [x EXCEPT !.inner = TRUE] IN y \in Calls /\ Fits(y, subject) /\ y.at = "enter" /\ y.inner = TRUE
<1> DEFINE y == [x EXCEPT !.inner = TRUE]
<1>1. Fresh(x, f) /\ x.inner = FALSE /\ Passes(x)
  BY Begun
<1>2. /\ y \in Calls /\ y.fn = f /\ y.at = "enter" /\ y.report = NoReport /\ y.got = NoHandle /\ y.inner = TRUE
      /\ y.arg = x.arg /\ y.passed = x.passed /\ y.on = x.on
  BY <1>1 DEF Fresh, Calls
<1> HIDE DEF y
<1>3. ASSUME NEW z \in {x, y}
      PROVE  /\ z \in Calls /\ z.fn = f /\ z.at = "enter" /\ z.report = NoReport /\ z.got = NoHandle
             /\ z.arg = x.arg /\ z.passed = x.passed /\ z.on = x.on /\ x.fn = f
    BY <1>1, <1>2 DEF Fresh
<1>4. ASSUME NEW z \in {x, y}
      PROVE  Fits(z, subject)
  <2>1. ~z.report.told
    BY <1>3 DEF NoReport
  <2>2. ToldFits(z)
    BY <1>3, <2>1 DEF ToldFits
  <2>3. NameFits(z)
    BY <1>1, <1>3, <2>1 DEF NameFits, Passes
  <2>4. SpotFits(z)
    BY <1>3 DEF SpotFits
  <2> QED
    BY <1>3, <2>2, <2>3, <2>4 DEF Fits
<1> QED
  BY <1>1, <1>2, <1>4 DEF Fresh, y

-----------------------------------------------------------------------------
(* The calls of a thread, and its mark.                                    *)

\* A thread is in no call, in one of the program's, or also in one its callback makes.
Stack(s, up, S) ==
  \/ Len(s) = 0 /\ ~up
  \/ Len(s) = 1 /\ ~s[1].inner /\ (up <=> s[1].at = "callback")
  \/ /\ ~(Cardinality(S) > 1) /\ Len(s) = 2 /\ up /\ ~s[1].inner /\ s[2].inner
     /\ s[1].at = "callback" /\ s[2].at # "callback"

CallsFit(s, S) == \A i \in DOMAIN s : Fits(s[i], S)
Framed == \A t \in User : Stack(within[t], inHook[t], subject) /\ CallsFit(within[t], subject)

\* The innermost call moves and the mark with it.
MarkMoves(up, upNext, f, g) ==
  \/ upNext = up /\ (g.at = "callback" <=> f.at = "callback")
  \/ ~up /\ upNext /\ g.at = "callback"
  \/ f.at = "callback" /\ ~upNext /\ g.at # "callback"

\* The innermost call moves on and the mark with it.
LEMMA StackMoves ==
  ASSUME NEW S, NEW s \in Seq(Calls), NEW r \in Seq(Calls), s # <<>>, Len(r) = Len(s), r[Len(s)].inner = s[Len(s)].inner,
         \A i \in DOMAIN s : i # Len(s) => r[i] = s[i], NEW up \in BOOLEAN, NEW upNext \in BOOLEAN,
         Stack(s, up, S), MarkMoves(up, upNext, s[Len(s)], r[Len(s)])
  PROVE  Stack(r, upNext, S)
<1>1. Len(s) \in Nat /\ Len(s) # 0 /\ DOMAIN s = 1..Len(s)
  OBVIOUS
<1>2. CASE Len(s) = 1
  <2>1. Len(r) = 1 /\ r[1].inner = s[1].inner
    BY <1>2
  <2>2. ~s[1].inner /\ (up <=> s[1].at = "callback")
    BY <1>2 DEF Stack
  <2>3. upNext <=> r[1].at = "callback"
    BY <1>2, <2>2 DEF MarkMoves
  <2> QED
    BY <2>1, <2>2, <2>3 DEF Stack
<1>3. CASE Len(s) = 2
  <2>1. 1 \in DOMAIN s /\ 1 # Len(s)
    BY <1>1, <1>3
  <2>2. r[1] = s[1]
    BY <2>1
  <2>3. ~(Cardinality(S) > 1) /\ up /\ ~s[1].inner /\ s[2].inner /\ s[1].at = "callback" /\ s[2].at # "callback"
    BY <1>3 DEF Stack
  <2>4. Len(r) = 2 /\ r[2].inner = s[2].inner
    BY <1>3
  <2>5. upNext /\ r[2].at # "callback"
    BY <1>3, <2>3 DEF MarkMoves
  <2> QED
    BY <2>2, <2>3, <2>4, <2>5 DEF Stack
<1> QED
  BY <1>1, <1>2, <1>3 DEF Stack

\* So do the calls of all threads.
LEMMA CallMoves ==
  ASSUME WithinTyped, Framed, inHook \in [User -> BOOLEAN], inHook' \in [User -> BOOLEAN], subject' = subject,
         NEW t \in User, within[t] # <<>>, NEW g \in Calls, Become(t, g), Fits(g, subject), g.inner = Top(t).inner,
         MarkMoves(inHook[t], inHook'[t], Top(t), g), \A u \in User : u # t => inHook'[u] = inHook[u]
  PROVE  WithinTyped' /\ Framed'
<1>1. WithinTyped' /\ Within(t, g)
  BY CallBecomes
<1>2. ASSUME NEW u \in User, u # t
      PROVE  Stack(within'[u], inHook'[u], subject') /\ CallsFit(within'[u], subject')
  BY <1>1, <1>2 DEF Framed, Within
<1>3. CallsFit(within'[t], subject')
  BY <1>1 DEF Within, Framed, CallsFit
<1>4. Stack(within'[t], inHook'[t], subject')
  <2> DEFINE s == within[t]
             r == within'[t]
  <2>1. /\ s \in Seq(Calls) /\ r \in Seq(Calls)
        /\ inHook[t] \in BOOLEAN /\ inHook'[t] \in BOOLEAN
    BY <1>1 DEF WithinTyped
  <2>2. /\ Len(r) = Len(s) /\ r[Len(s)] = g /\ s[Len(s)] = Top(t)
        /\ \A i \in DOMAIN s : i # Len(s) => r[i] = s[i]
    BY <1>1 DEF Within, Top
  <2>3. Stack(s, inHook[t], subject)
    BY DEF Framed
  <2> HIDE DEF s, r
  <2>4. s # <<>>
    BY DEF s
  <2>5. Stack(r, inHook'[t], subject)
    BY <2>1, <2>2, <2>3, <2>4, StackMoves
  <2> QED
    BY <2>5 DEF r
<1> QED
  BY <1>1, <1>2, <1>3, <1>4 DEF Framed

\* The program calls.
LEMMA CallEntered ==
  ASSUME WithinTyped, Framed, subject \in Subject, subject' = subject, inHook' = inHook, NEW t \in User, UserCall(t)
  PROVE  WithinTyped' /\ Framed'
<1>1. /\ within[t] = <<>>
      /\ \E f \in subject : \E x \in Begins(f) : within' = [within EXCEPT ![t] = <<x>>]
  BY DEF UserCall
<1>0. PICK f \in subject : \E x \in Begins(f) : within' = [within EXCEPT ![t] = <<x>>]
  BY <1>1
<1>2. PICK x \in Begins(f) : within' = [within EXCEPT ![t] = <<x>>]
  BY <1>0
<1>3. x \in Calls /\ Fits(x, subject) /\ x.at = "enter" /\ ~x.inner
  BY BegunFits
<1>4. WithinTyped' /\ within'[t] = <<x>> /\ \A u \in User : u # t => within'[u] = within[u]
  BY <1>1, <1>2, <1>3, CallStarts
<1>5. Stack(within[t], inHook[t], subject)
  BY DEF Framed
<1>6. ~inHook[t]
  BY <1>1, <1>5 DEF Stack
<1>7. Len(<<x>>) = 1 /\ <<x>>[1] = x /\ DOMAIN <<x>> = {1}
  OBVIOUS
<1>8. Stack(within'[t], inHook'[t], subject')
  BY <1>3, <1>4, <1>6, <1>7 DEF Stack
<1>9. CallsFit(within'[t], subject')
  BY <1>3, <1>4, <1>7 DEF CallsFit
<1> QED
  BY <1>4, <1>8, <1>9 DEF Framed

\* The callback calls.
LEMMA CallNested ==
  ASSUME WithinTyped, Framed, subject \in Subject, subject' = subject, inHook' = inHook, NEW t \in User, CallbackCalls(t)
  PROVE  WithinTyped' /\ Framed'
<1>1. /\ ~Sharing /\ within[t] # <<>> /\ Top(t).at = "callback" /\ Len(within[t]) = 1
      /\ \E f \in subject : \E x \in Begins(f) :
           within' = [within EXCEPT ![t] = Append(@, [x EXCEPT !.inner = TRUE])]
  BY DEF CallbackCalls, At
<1>0. PICK f \in subject : \E x \in Begins(f) :
                             within' = [within EXCEPT ![t] = Append(@, [x EXCEPT !.inner = TRUE])]
  BY <1>1
<1>2. PICK x \in Begins(f) : within' = [within EXCEPT ![t] = Append(@, [x EXCEPT !.inner = TRUE])]
  BY <1>0
<1> DEFINE y == [x EXCEPT !.inner = TRUE]
<1>3. y \in Calls /\ Fits(y, subject) /\ y.at = "enter" /\ y.inner = TRUE
  BY BegunFits
<1>4. within' = [within EXCEPT ![t] = Append(@, y)]
  BY <1>2
<1> HIDE DEF y
<1>5. /\ WithinTyped' /\ \A u \in User : u # t => within'[u] = within[u]
      /\ Len(within'[t]) = 2 /\ within'[t][1] = within[t][1] /\ within'[t][2] = y
  BY <1>1, <1>3, <1>4, CallNests
<1>6. Stack(within[t], inHook[t], subject) /\ CallsFit(within[t], subject)
  BY DEF Framed
<1>7. within[t][1].at = "callback" /\ 1 \in DOMAIN within[t]
  BY <1>1, InnermostTyped
<1>8. Stack(within'[t], inHook'[t], subject')
  BY <1>1, <1>3, <1>5, <1>6, <1>7 DEF Stack, Sharing
<1>9. CallsFit(within'[t], subject')
  <2>1. within'[t] \in Seq(Calls)
    BY <1>5 DEF WithinTyped
  <2>2. DOMAIN within'[t] = {1, 2}
    BY <1>5, <2>1
  <2> QED
    BY <1>3, <1>5, <1>6, <1>7, <2>2 DEF CallsFit
<1> QED
  BY <1>5, <1>8, <1>9 DEF Framed

\* The wrapper returns.
LEMMA CallLeft ==
  ASSUME WithinTyped, Framed, subject' = subject, inHook' = inHook, NEW t \in User, Leave(t)
  PROVE  WithinTyped' /\ Framed'
<1>1. /\ within[t] # <<>> /\ Top(t).at = "leave"
      /\ within' = [within EXCEPT ![t] = SubSeq(@, 1, Len(@) - 1)]
  BY DEF Leave, At
<1>2. /\ WithinTyped' /\ \A u \in User : u # t => within'[u] = within[u]
      /\ DOMAIN within'[t] = DOMAIN within[t] \ {Len(within[t])}
      /\ Len(within'[t]) = Len(within[t]) - 1 /\ Len(within[t]) \in Nat
      /\ \A i \in DOMAIN within'[t] : within'[t][i] = within[t][i]
  BY <1>1, CallEnds
<1>3. Stack(within[t], inHook[t], subject) /\ CallsFit(within[t], subject)
  BY DEF Framed
<1>4. Top(t) = within[t][Len(within[t])] /\ Len(within[t]) \in DOMAIN within[t]
  BY <1>1, InnermostTyped
<1>5. Stack(within'[t], inHook'[t], subject')
  <2>1. CASE Len(within[t]) = 1
    BY <1>1, <1>2, <1>3, <1>4, <2>1 DEF Stack
  <2>2. CASE Len(within[t]) = 2
    <3>1. within[t] \in Seq(Calls)
      BY DEF WithinTyped
    <3>2. 1 \in DOMAIN within'[t]
      BY <1>2, <2>2, <3>1
    <3> QED
      BY <1>2, <1>3, <2>2, <3>2 DEF Stack
  <2>3. within[t] \in Seq(Calls)
    BY DEF WithinTyped
  <2>4. Len(within[t]) # 0
    BY <1>1, <2>3
  <2> QED
    BY <1>3, <2>1, <2>2, <2>4 DEF Stack
<1>6. CallsFit(within'[t], subject')
  BY <1>2, <1>3 DEF CallsFit
<1> QED
  BY <1>2, <1>5, <1>6 DEF Framed

-----------------------------------------------------------------------------
(* What the rings remember.                                                *)

\* A package is remembered under its own name.
RingPackages ==
  subject \subseteq PackageFns =>
    \A i \in 1..RingMax : \A p \in Package :
      (ring[i].handle = PackageId[p] /\ PackageId[p] # NoHandle) => ring[i].host = p

WrapInv == WrapTyped /\ Framed /\ RingPackages

\* A lookup finds an entry of that handle, or nothing is stored for it.
LEMMA LookupIs ==
  ASSUME RingTyped, NEW h
  PROVE  /\ Lookup(h) \in Entries
         /\ \/ Lookup(h) = NoEntry /\ \A i \in 1..RingMax : ring[i].handle # h \/ h = NoHandle
            \/ h # NoHandle /\ \E i \in 1..RingMax : Lookup(h) = ring[i] /\ ring[i].handle = h
<1> DEFINE S == {i \in 1..RingMax : ring[i].handle = h /\ h # NoHandle}
<1>1. Lookup(h) = IF S = {} THEN NoEntry ELSE ring[Min(S)]
  BY DEF Lookup
<1>2. S \subseteq 1..RingMax /\ \A i \in S : ring[i].handle = h /\ h # NoHandle
  OBVIOUS
<1>3. \A i \in 1..RingMax : i \notin S => ring[i].handle # h \/ h = NoHandle
  OBVIOUS
<1> HIDE DEF S
<1>4. CASE S = {}
  BY <1>1, <1>3, <1>4, HandlesAreNumbers
<1>5. CASE S # {}
  <2>1. \E m \in S : \A n \in S : m <= n
    <3>1. S \subseteq Nat
      BY <1>2, RingsHold
    <3> QED
      BY <1>5, <3>1, Smallest
  <2>2. Min(S) \in S
    BY <2>1 DEF Min
  <2>3. Lookup(h) = ring[Min(S)]
    BY <1>1, <1>5
  <2>4. Min(S) \in 1..RingMax /\ ring[Min(S)].handle = h /\ h # NoHandle
    BY <1>2, <2>2
  <2>5. ring[Min(S)] \in Entries
    BY <2>4 DEF RingTyped
  <2> QED
    BY <2>3, <2>4, <2>5
<1> QED
  BY <1>4, <1>5

\* A report is one, and tells.
LEMMA ReportTyped ==
  ASSUME RingTyped, NEW t \in User, Top(t) \in Calls, Shaped(W(t))
  PROVE  Report(t) \in Reports /\ Report(t).told
<1> DEFINE f == Top(t)
           found == Lookup(f.on)
           name(host, secure) == [told |-> TRUE, host |-> host, secure |-> secure]
<1>1. found \in Entries
  BY LookupIs
<1>2. /\ f.kept \in Texts /\ f.arg \in Texts /\ f.secure \in BOOLEAN
      /\ found.host \in Texts /\ found.secure \in BOOLEAN /\ "none" \in Texts
  BY <1>1 DEF Calls, Entries, Texts
<1>3. \A host \in Texts, secure \in BOOLEAN : name(host, secure) \in Reports /\ name(host, secure).told
  BY DEF Reports
<1>4. Report(t) \in {name(f.kept, FALSE), name(f.arg, f.secure), name(found.host, f.secure \/ found.secure),
                     name(found.host, found.secure), name("none", FALSE)}
  BY DEF Report
<1> HIDE DEF f, found
<1>5. (f.secure \/ found.secure) \in BOOLEAN /\ FALSE \in BOOLEAN
  OBVIOUS
<1>6. ASSUME NEW host \in Texts, NEW secure \in BOOLEAN
      PROVE  name(host, secure) \in Reports /\ name(host, secure).told
  BY <1>3
<1> HIDE DEF name
<1> QED
  BY <1>2, <1>4, <1>5, <1>6

\* A report names what was passed, or the package's own name.
LEMMA ReportNames ==
  ASSUME RingTyped, subject \in Subject, RingPackages, NEW t \in User, Top(t) \in Calls, Fits(Top(t), subject),
         Top(t).at # "enter"
  PROVE  LET f == Top(t) IN
         /\ W(t).name = "redacted" => Report(t).host = Redacted(f.passed)
         /\ W(t).name = "copied" => Report(t).host = f.passed
         /\ W(t).name = "package" => Report(t).host \in {f.arg, Unknown}
<1> DEFINE f == Top(t)
<1>1. NameFits(f) /\ f.fn \in subject /\ W(t) = g_Hooks[f.fn]
  BY DEF Fits, W
<1>2. CASE W(t).name = "redacted"
  <2>1. Report(t).host = f.kept
    BY <1>2 DEF Report
  <2> QED
    BY <1>1, <1>2, <2>1 DEF NameFits
<1>3. CASE W(t).name = "copied"
  <2>1. Report(t).host = f.kept
    BY <1>3 DEF Report
  <2> QED
    BY <1>1, <1>3, <2>1 DEF NameFits
<1>4. CASE W(t).name = "package"
  <2>1. Report(t).host = Lookup(f.on).host
    BY <1>4 DEF Report
  <2>2. f.arg \in Package /\ f.on = PackageId[f.arg]
    BY <1>1, <1>4 DEF NameFits
  <2>3. IsOfPackage(W(t))
    BY <1>1, <1>4, Shapes DEF Shaped, IsPlain, IsOfHandle
  <2>4. subject \subseteq PackageFns
    BY <1>1, <2>3, Shapes
  <2>5. CASE Lookup(f.on) = NoEntry
    BY <1>4, <2>1, <2>5 DEF NoEntry
  <2>6. CASE f.on # NoHandle /\ \E i \in 1..RingMax : Lookup(f.on) = ring[i] /\ ring[i].handle = f.on
    BY <1>4, <2>1, <2>2, <2>4, <2>6 DEF RingPackages
  <2> QED
    BY <2>5, <2>6, LookupIs
<1> QED
  BY <1>2, <1>3, <1>4

\* Where the next entry goes.
LEMMA RingIndex ==
  ASSUME NEW n \in Nat
  PROVE  (n % RingMax) + 1 \in 1..RingMax
BY RingsHold

\* What is stored is an entry of the handle that was given.
LEMMA StoredTyped ==
  ASSUME NEW t \in User, Top(t) \in Calls
  PROVE  Stored(t) \in Entries /\ Stored(t).handle = Top(t).got
<1> DEFINE f == Top(t)
           entry(host, secure) == [handle |-> f.got, host |-> host, secure |-> secure]
<1>1. /\ f.got \in Ids /\ f.kept \in Texts /\ f.arg \in Texts /\ f.secure \in BOOLEAN
      /\ f.entry.host \in Texts /\ f.entry.secure \in BOOLEAN
  BY DEF Calls, Entries
<1>2. Stored(t) \in {entry(f.entry.host, f.secure \/ f.entry.secure), entry(f.arg, f.secure), entry(f.kept, FALSE)}
  BY DEF Stored
<1> HIDE DEF f
<1>3. ASSUME NEW host \in Texts, NEW secure \in BOOLEAN
      PROVE  entry(host, secure) \in Entries /\ entry(host, secure).handle = f.got
  BY <1>1 DEF Entries
<1>4. (f.secure \/ f.entry.secure) \in BOOLEAN /\ FALSE \in BOOLEAN
  OBVIOUS
<1> HIDE DEF entry
<1>5. Stored(t) \in Entries /\ Stored(t).handle = f.got
  BY <1>1, <1>2, <1>3, <1>4
<1> QED
  BY <1>5 DEF f

-----------------------------------------------------------------------------
(* The steps of the wrappers.                                              *)

\* The wrappers begin in order.
LEMMA InitWrap ==
  ASSUME Init
  PROVE  WrapInv
<1>1. \A t \in User : within[t] = <<>> /\ ~inHook[t]
  BY DEF Init
<1>2. within \in [User -> Seq(Calls)] /\ inHook \in [User -> BOOLEAN]
  BY DEF Init
<1>3. RingTyped
  BY HandlesAreNumbers DEF Init, RingTyped
<1>4. HandleTyped /\ ops \in 0..(OpMax + 1) /\ subject \in Subject
  BY HandlesAreNumbers, RingsHold DEF Init, HandleTyped
<1>5. Framed
  BY <1>1 DEF Framed, Stack, CallsFit
<1>6. RingPackages
  BY DEF Init, NoEntry, RingPackages
<1> QED
  BY <1>2, <1>3, <1>4, <1>5, <1>6 DEF WrapInv, WrapTyped, WithinTyped

\* Nothing but a call and its mark moves.
LEMMA LocalKeeps ==
  ASSUME WrapInv, WithinTyped', Framed', inHook' \in [User -> BOOLEAN], Local
  PROVE  WrapInv'
<1>1. WrapTyped'
  BY DEF WrapInv, WrapTyped, RingTyped, HandleTyped, Local
<1>2. RingPackages'
  BY DEF WrapInv, RingPackages, Local
<1> QED
  BY <1>1, <1>2 DEF WrapInv

\* The innermost call of a thread, where it stands.
LEMMA Innermost ==
  ASSUME WrapInv, NEW t \in User, within[t] # <<>>
  PROVE  /\ Top(t) \in Calls /\ Fits(Top(t), subject) /\ Stack(within[t], inHook[t], subject)
         /\ W(t) = g_Hooks[Top(t).fn] /\ Top(t).fn \in subject /\ Shaped(W(t))
<1>1. Top(t) \in Calls /\ Len(within[t]) \in DOMAIN within[t] /\ Top(t) = within[t][Len(within[t])]
  BY InnermostTyped DEF WrapInv, WrapTyped
<1>2. Fits(Top(t), subject) /\ Stack(within[t], inHook[t], subject)
  BY <1>1 DEF WrapInv, Framed, CallsFit
<1>3. Top(t).fn \in subject /\ subject \in Subject
  BY <1>2 DEF Fits, WrapInv, WrapTyped
<1>4. Shaped(g_Hooks[Top(t).fn])
  BY <1>3, Shapes
<1> QED
  BY <1>1, <1>2, <1>3, <1>4 DEF W

\* The innermost call becomes g, and the mark moves with it.
LEMMA CallKeeps ==
  ASSUME WrapInv, NEW t \in User, within[t] # <<>>, NEW g \in Calls, Become(t, g), Fits(g, subject),
         g.inner = Top(t).inner, subject' = subject, inHook' \in [User -> BOOLEAN],
         MarkMoves(inHook[t], inHook'[t], Top(t), g), \A u \in User : u # t => inHook'[u] = inHook[u]
  PROVE  WithinTyped' /\ Framed'
BY CallMoves DEF WrapInv, WrapTyped

\* Another name in the caller's memory keeps them in order.
LEMMA OverwriteKeeps ==
  ASSUME WrapInv, NEW t \in User, Overwrite(t)
  PROVE  WrapInv'
<1>1. /\ ~Sharing /\ within[t] # <<>> /\ Top(t).at # "enter"
      /\ \E a \in Name \ {Top(t).arg} : Become(t, [Top(t) EXCEPT !.arg = a])
      /\ inHook' = inHook /\ Local
  BY DEF Overwrite
<1>2. PICK a \in Name : Become(t, [Top(t) EXCEPT !.arg = a])
  BY <1>1
<1> DEFINE g == [Top(t) EXCEPT !.arg = a]
<1>3. Top(t) \in Calls /\ Fits(Top(t), subject) /\ subject \in Subject
  BY <1>1, Innermost DEF WrapInv, WrapTyped
<1>4. g \in Calls /\ Fits(g, subject) /\ g.at = Top(t).at /\ g.inner = Top(t).inner
  BY <1>1, <1>3, Overwritten
<1>5. Become(t, g)
  BY <1>2
<1> HIDE DEF g
<1>6. inHook' \in [User -> BOOLEAN] /\ subject' = subject
  BY <1>1 DEF WrapInv, WrapTyped, Local
<1>7. MarkMoves(inHook[t], inHook'[t], Top(t), g) /\ \A u \in User : inHook'[u] = inHook[u]
  BY <1>1, <1>4 DEF MarkMoves
<1>8. WithinTyped' /\ Framed'
  BY <1>1, <1>4, <1>5, <1>6, <1>7, CallKeeps
<1> QED
  BY <1>1, <1>6, <1>8, LocalKeeps

\* Entering the wrapper does.
LEMMA EnterKeeps ==
  ASSUME WrapInv, NEW t \in User, Enter(t)
  PROVE  WrapInv'
<1> DEFINE g == Entered(Top(t))
<1>1. /\ within[t] # <<>> /\ Top(t).at = "enter" /\ Become(t, g)
      /\ inHook' = inHook /\ Local
  BY DEF Enter, At, Entered, W
<1>2. Top(t) \in Calls /\ Fits(Top(t), subject) /\ subject \in Subject
  BY <1>1, Innermost DEF WrapInv, WrapTyped
<1>3. g \in Calls /\ Fits(g, subject) /\ g.at # "callback" /\ g.inner = Top(t).inner
  BY <1>1, <1>2, EnteredFits
<1> HIDE DEF g
<1>4. inHook' \in [User -> BOOLEAN] /\ subject' = subject
  BY <1>1 DEF WrapInv, WrapTyped, Local
<1>5. MarkMoves(inHook[t], inHook'[t], Top(t), g) /\ \A u \in User : inHook'[u] = inHook[u]
  BY <1>1, <1>3 DEF MarkMoves
<1>6. WithinTyped' /\ Framed'
  BY <1>1, <1>3, <1>4, <1>5, CallKeeps
<1> QED
  BY <1>1, <1>4, <1>6, LocalKeeps

\* Looking up the connection does.
LEMMA ParentKeeps ==
  ASSUME WrapInv, NEW t \in User, ParentLookup(t)
  PROVE  WrapInv'
<1> DEFINE entry == IF Top(t).got = NoHandle THEN Top(t).entry ELSE Lookup(Top(t).on)
           g == [Top(t) EXCEPT !.at = "store", !.entry = entry]
<1>1. /\ within[t] # <<>> /\ Top(t).at = "parent" /\ Become(t, g)
      /\ inHook' = inHook /\ Local
  BY DEF ParentLookup, At
<1>2. Top(t) \in Calls /\ Fits(Top(t), subject) /\ subject \in Subject /\ RingTyped
  BY <1>1, Innermost DEF WrapInv, WrapTyped
<1>3. entry \in Entries
  BY <1>2, LookupIs DEF Calls
<1> HIDE DEF entry
<1>4. g \in Calls /\ Fits(g, subject) /\ g.at # "callback" /\ g.inner = Top(t).inner
  BY <1>1, <1>2, <1>3, LookedUpFits
<1> HIDE DEF g
<1>5. inHook' \in [User -> BOOLEAN] /\ subject' = subject
  BY <1>1 DEF WrapInv, WrapTyped, Local
<1>6. MarkMoves(inHook[t], inHook'[t], Top(t), g) /\ \A u \in User : inHook'[u] = inHook[u]
  BY <1>1, <1>4 DEF MarkMoves
<1>7. WithinTyped' /\ Framed'
  BY <1>1, <1>4, <1>5, <1>6, CallKeeps
<1> QED
  BY <1>1, <1>5, <1>7, LocalKeeps

\* The original's answer does.
LEMMA OriginalKeeps ==
  ASSUME WrapInv, NEW t \in User, Original(t)
  PROVE  WrapInv'
<1>1. /\ within[t] # <<>> /\ Top(t).at = "original" /\ W(t).role \notin {"connect", "open"}
      /\ \E ok \in BOOLEAN :
           Become(t, [Top(t) EXCEPT !.at = Next1(t), !.ok = ok,
                        !.got = IF W(t).role = "package" /\ ok THEN PackageId[Top(t).arg] ELSE NoHandle])
      /\ inHook' = inHook /\ Local
  BY DEF Original, At
<1>2. PICK ok \in BOOLEAN :
           Become(t, [Top(t) EXCEPT !.at = Next1(t), !.ok = ok,
                        !.got = IF W(t).role = "package" /\ ok THEN PackageId[Top(t).arg] ELSE NoHandle])
  BY <1>1
<1> DEFINE got == IF W(t).role = "package" /\ ok THEN PackageId[Top(t).arg] ELSE NoHandle
           at == Next1(t)
           g == [Top(t) EXCEPT !.at = at, !.ok = ok, !.got = got]
<1>3. /\ Top(t) \in Calls /\ Fits(Top(t), subject) /\ subject \in Subject
      /\ Shaped(W(t)) /\ W(t) = g_Hooks[Top(t).fn]
  BY <1>1, Innermost DEF WrapInv, WrapTyped
<1>4. W(t).role = "package" => Top(t).arg \in Package
  BY <1>3 DEF Fits, NameFits, Shaped, IsPlain, IsOfPackage, IsOfHandle
<1>5. got \in Ids
  BY <1>4, HandlesAreNumbers DEF Ids
<1>6. got \in {NoHandle, PackageId[Top(t).arg]}
  OBVIOUS
<1>7. Become(t, g)
  BY <1>2
<1>12. at = Answered(g_Hooks[Top(t).fn])
  BY <1>3 DEF Next1, Answered
<1>13. g = [Top(t) EXCEPT !.at = at, !.ok = ok, !.got = got]
  OBVIOUS
<1> HIDE DEF got, at, g
<1>14. Alters(Top(t), g, Top(t).arg, at, Top(t).kept, ok, got, Top(t).entry, Top(t).report)
  <2>1. at \in Spots /\ Top(t) \in Calls
    BY <1>3, <1>12, AnsweredSpot
  <2> QED
    BY <1>5, <1>13, <2>1 DEF Calls, Alters
<1>8. g \in Calls /\ Fits(g, subject) /\ g.at # "callback" /\ g.inner = Top(t).inner
  BY <1>1, <1>3, <1>5, <1>6, <1>12, <1>14, AnsweredFits
<1>9. inHook' \in [User -> BOOLEAN] /\ subject' = subject
  BY <1>1 DEF WrapInv, WrapTyped, Local
<1>10. MarkMoves(inHook[t], inHook'[t], Top(t), g) /\ \A u \in User : inHook'[u] = inHook[u]
  BY <1>1, <1>8 DEF MarkMoves
<1>11. WithinTyped' /\ Framed'
  BY <1>1, <1>7, <1>8, <1>9, <1>10, CallKeeps
<1> QED
  BY <1>1, <1>9, <1>11, LocalKeeps

\* Storing does.
LEMMA StoreKeeps ==
  ASSUME WrapInv, NEW t \in User, StoreCall(t)
  PROVE  WrapInv'
<1> DEFINE f == Top(t)
           g == [f EXCEPT !.at = "publish"]
<1>1. /\ within[t] # <<>> /\ f.at = "store" /\ Become(t, g)
      /\ IF f.got = NoHandle \/ (W(t).ifHttp /\ ~f.http) THEN UNCHANGED <<ring, head>> ELSE StoreEntry(Stored(t))
      /\ UNCHANGED <<subject, inHook, object, given, ops>>
  BY DEF StoreCall, At
<1>2. /\ f \in Calls /\ Fits(f, subject) /\ subject \in Subject /\ RingTyped
      /\ Shaped(W(t)) /\ W(t) = g_Hooks[f.fn] /\ f.fn \in subject
  BY <1>1, Innermost DEF WrapInv, WrapTyped
<1>3. g \in Calls /\ Fits(g, subject) /\ g.at # "callback" /\ g.inner = f.inner
  BY <1>1, <1>2, StoredFits
<1> HIDE DEF g
<1>4. inHook' = inHook /\ inHook' \in [User -> BOOLEAN] /\ subject' = subject
  BY <1>1 DEF WrapInv, WrapTyped
<1>5. MarkMoves(inHook[t], inHook'[t], f, g) /\ \A u \in User : inHook'[u] = inHook[u]
  BY <1>1, <1>3, <1>4 DEF MarkMoves
<1>6. WithinTyped' /\ Framed'
  BY <1>1, <1>3, <1>4, <1>5, CallKeeps
<1>7. CASE UNCHANGED <<ring, head>>
  <2>1. WrapTyped'
    BY <1>1, <1>4, <1>6, <1>7 DEF WrapInv, WrapTyped, RingTyped, HandleTyped
  <2>2. RingPackages'
    BY <1>4, <1>7 DEF WrapInv, RingPackages
  <2> QED
    BY <1>6, <2>1, <2>2 DEF WrapInv
<1>8. CASE f.got # NoHandle /\ StoreEntry(Stored(t))
  <2> DEFINE e == Stored(t)
             k == (head % RingMax) + 1
  <2>1. e \in Entries /\ e.handle = f.got
    BY <1>2, StoredTyped
  <2>2. head \in Nat /\ k \in 1..RingMax
    BY <1>2, RingIndex DEF RingTyped
  <2>3. ring' = [ring EXCEPT ![k] = e] /\ head' = head + 1
    BY <1>8 DEF StoreEntry
  <2>4. subject \subseteq PackageFns => f.arg \in Package /\ f.got = PackageId[f.arg] /\ e.host = f.arg
    <3> SUFFICES ASSUME subject \subseteq PackageFns
                 PROVE  f.arg \in Package /\ f.got = PackageId[f.arg] /\ e.host = f.arg
      OBVIOUS
    <3>1. IsOfPackage(W(t))
      BY <1>2, PackageShape
    <3>2. W(t).role = "package" /\ W(t).name = "copied"
      BY <1>1, <1>2, <3>1 DEF Fits, SpotFits, IsOfPackage
    <3>3. f.arg \in Package /\ f.kept = f.arg /\ f.got = PackageId[f.arg]
      BY <1>1, <1>2, <1>8, <3>2 DEF Fits, NameFits
    <3>4. e = [handle |-> f.got, host |-> f.kept, secure |-> FALSE]
      BY <3>2 DEF Stored
    <3> QED
      BY <3>3, <3>4
  <2> HIDE DEF e, k
  <2>5. RingTyped'
    BY <1>2, <2>1, <2>2, <2>3 DEF RingTyped
  <2>6. WrapTyped'
    BY <1>1, <1>4, <1>6, <2>5 DEF WrapInv, WrapTyped, HandleTyped
  <2>7. RingPackages'
    <3> SUFFICES ASSUME subject \subseteq PackageFns, NEW i \in 1..RingMax, NEW p \in Package,
                        ring'[i].handle = PackageId[p], PackageId[p] # NoHandle
                 PROVE  ring'[i].host = p
      BY <1>4 DEF RingPackages
    <3>1. CASE i = k
      <4>1. ring'[i] = e
        BY <1>2, <2>3, <3>1 DEF RingTyped
      <4>2. PackageId[p] = PackageId[f.arg] /\ f.arg \in Package
        BY <2>1, <2>4, <4>1
      <4>3. p = f.arg
        BY <4>2 DEF PackageId, Package
      <4> QED
        BY <2>4, <4>1, <4>3
    <3>2. CASE i # k
      <4>1. ring'[i] = ring[i]
        BY <1>2, <2>3, <3>2 DEF RingTyped
      <4> QED
        BY <4>1 DEF WrapInv, RingPackages
    <3> QED
      BY <3>1, <3>2
  <2> QED
    BY <1>6, <2>6, <2>7 DEF WrapInv
<1> QED
  BY <1>1, <1>7, <1>8

\* Telling the callback, or not, does.
LEMMA PublishKeeps ==
  ASSUME WrapInv, NEW t \in User, PublishModuleEvent(t)
  PROVE  WrapInv'
<1> DEFINE f == Top(t)
           g == [f EXCEPT !.at = "callback", !.report = Report(t)]
           h == [f EXCEPT !.at = IF W(t).when = "before" THEN "original" ELSE "leave"]
<1>1. /\ within[t] # <<>> /\ f.at = "publish" /\ Local
      /\ \/ Wanted(t) /\ ~inHook[t] /\ inHook' = [inHook EXCEPT ![t] = TRUE] /\ Become(t, g)
         \/ ~(Wanted(t) /\ ~inHook[t]) /\ inHook' = inHook /\ Become(t, h)
  BY DEF PublishModuleEvent, At
<1>2. /\ f \in Calls /\ Fits(f, subject) /\ subject \in Subject /\ RingTyped /\ RingPackages
      /\ Shaped(W(t)) /\ W(t) = g_Hooks[f.fn] /\ f.fn \in subject /\ Stack(within[t], inHook[t], subject)
      /\ inHook \in [User -> BOOLEAN]
  BY <1>1, Innermost DEF WrapInv, WrapTyped
<1>3. (Wanted(t) /\ ~inHook[t]) <=> Due(f)
  <2>1. f = within[t][Len(within[t])] /\ Len(within[t]) \in DOMAIN within[t]
    BY <1>1, InnermostTyped DEF WrapInv, WrapTyped
  <2>2. Len(within[t]) # 0
    BY <1>1, <2>1
  <2>3. ~inHook[t] <=> ~f.inner
    BY <1>1, <1>2, <2>1, <2>2 DEF Stack
  <2> QED
    BY <1>2, <2>3 DEF Wanted, Due
<1>4. CASE Wanted(t) /\ ~inHook[t] /\ inHook' = [inHook EXCEPT ![t] = TRUE] /\ Become(t, g)
  <2>1. Report(t) \in Reports /\ Report(t).told
    BY <1>2, ReportTyped
  <2>2. /\ W(t).name = "redacted" => Report(t).host = Redacted(f.passed)
        /\ W(t).name = "copied" => Report(t).host = f.passed
        /\ W(t).name = "package" => Report(t).host \in {f.arg, Unknown}
    BY <1>1, <1>2, ReportNames
  <2>3. Alters(f, g, f.arg, "callback", f.kept, f.ok, f.got, f.entry, Report(t))
    <3>1. "callback" \in Spots
      BY DEF Spots
    <3> QED
      BY <1>2, <2>1, <3>1, ReportSet, Zenon
  <2>4. NamesIt(g)
    BY <1>2, <2>2, <2>3 DEF NamesIt, Alters
  <2>5. g \in Calls /\ Fits(g, subject) /\ g.at = "callback" /\ g.inner = f.inner
    <3>1. g = [f EXCEPT !.at = "callback", !.report = Report(t)]
      OBVIOUS
    <3>2. f \in Calls /\ Fits(f, subject) /\ f.at = "publish" /\ Due(f)
      BY <1>1, <1>2, <1>3, <1>4
    <3> HIDE DEF f, g
    <3> QED
      BY <1>2, <2>1, <2>4, <3>1, <3>2, ToldFitsNow, Zenon
  <2> HIDE DEF g
  <2>6. inHook' \in [User -> BOOLEAN] /\ inHook'[t] /\ \A u \in User : u # t => inHook'[u] = inHook[u]
    BY <1>2, <1>4
  <2>7. MarkMoves(inHook[t], inHook'[t], f, g)
    BY <1>4, <2>5, <2>6 DEF MarkMoves
  <2>8. WithinTyped' /\ Framed'
    BY <1>1, <1>4, <2>5, <2>6, <2>7, CallKeeps DEF Local
  <2> QED
    BY <1>1, <2>6, <2>8, LocalKeeps
<1>5. CASE ~(Wanted(t) /\ ~inHook[t]) /\ inHook' = inHook /\ Become(t, h)
  <2>1. h = [f EXCEPT !.at = Onward(g_Hooks[f.fn])]
    BY <1>2 DEF Onward
  <2> HIDE DEF h
  <2>2. h \in Calls /\ Fits(h, subject) /\ h.at # "callback" /\ h.inner = f.inner
    BY <1>1, <1>2, <1>3, <1>5, <2>1, PassedFits
  <2>3. inHook' \in [User -> BOOLEAN] /\ \A u \in User : inHook'[u] = inHook[u]
    BY <1>2, <1>5
  <2>4. MarkMoves(inHook[t], inHook'[t], f, h)
    BY <1>1, <2>2, <2>3 DEF MarkMoves
  <2>5. WithinTyped' /\ Framed'
    BY <1>1, <1>5, <2>2, <2>3, <2>4, CallKeeps DEF Local
  <2> QED
    BY <1>1, <2>3, <2>5, LocalKeeps
<1> QED
  BY <1>1, <1>4, <1>5

\* A handle is given out, for what its call said.
Opened(f, w) ==
  IF w.role = "connect"
  THEN [is |-> IF f.http THEN "connect" ELSE "ftp", host |-> f.arg, secure |-> f.secure, over |-> NoHandle,
        usable |-> FALSE]
  ELSE [is |-> "request", host |-> object[f.on].host, secure |-> f.secure \/ object[f.on].secure,
        over |-> f.on, usable |-> FALSE]

\* What a handle is given for is an object.
LEMMA OpenedTyped ==
  ASSUME HandleTyped, NEW f \in Calls, NEW w, w.role = "open" => f.on \in Handle, w.role \in {"connect", "open"}
  PROVE  Opened(f, w) \in Objects
<1>1. f.arg \in Texts /\ f.secure \in BOOLEAN /\ NoHandle \in Handle \cup {NoHandle}
  BY DEF Calls
<1>2. CASE w.role = "connect"
  <2>1. (IF f.http THEN "connect" ELSE "ftp") \in {"nothing", "connect", "ftp", "request"}
    OBVIOUS
  <2> QED
    BY <1>1, <1>2, <2>1 DEF Opened, Objects
<1>3. CASE w.role = "open"
  <2>1. object[f.on] \in Objects /\ f.on \in Handle
    BY <1>3 DEF HandleTyped
  <2>2. object[f.on].host \in Texts /\ (f.secure \/ object[f.on].secure) \in BOOLEAN
    BY <2>1 DEF Objects
  <2> QED
    BY <1>3, <2>1, <2>2 DEF Opened, Objects
<1> QED
  BY <1>2, <1>3

\* What OriginalOpens does.
Fails(t, g) == Become(t, g) /\ UNCHANGED <<object, given>>
Gives(t, g, h) ==
  /\ h \in Handle /\ object[h] = NoObject /\ Become(t, g)
  /\ given' = [given EXCEPT ![h] = @ + 1]
  /\ object' = [object EXCEPT ![h] = Opened(Top(t), W(t))]

\* A handle is given out, or not.
LEMMA OpensMoves ==
  ASSUME WrapInv, NEW t \in User, OriginalOpens(t)
  PROVE  /\ within[t] # <<>> /\ Top(t).at = "original" /\ W(t).role \in {"connect", "open"}
         /\ UNCHANGED <<subject, inHook, ring, head, ops>>
         /\ \E g \in Calls, at \in {Answered(W(t))} :
              LET f == Top(t) IN
              \/ Fails(t, g) /\ Alters(f, g, f.arg, at, f.kept, f.ok, f.got, f.entry, f.report)
              \/ \E h \in Handle : /\ Gives(t, g, h)
                                   /\ Alters(f, g, f.arg, at, f.kept, TRUE, h, f.entry, f.report)
<1> DEFINE f == Top(t)
           at == Next1(t)
           lost == [f EXCEPT !.at = at]
           found(h) == [f EXCEPT !.at = at, !.ok = TRUE, !.got = h]
<1>1. /\ within[t] # <<>> /\ f.at = "original" /\ W(t).role \in {"connect", "open"}
      /\ UNCHANGED <<subject, inHook, ring, head, ops>>
      /\ Fails(t, lost) \/ \E h \in Handle : Gives(t, found(h), h)
  BY DEF OriginalOpens, At, Fails, Gives, Opened
<1>2. f \in Calls
  BY <1>1, Innermost
<1>3. at = Answered(W(t))
  BY DEF Next1, Answered
<1> HIDE DEF f, at
<1>4. at \in Spots
  BY <1>3, AnsweredSpot
<1>5. lost \in Calls /\ Alters(f, lost, f.arg, at, f.kept, f.ok, f.got, f.entry, f.report)
  BY <1>2, <1>4 DEF Calls, Alters
<1>6. ASSUME NEW h \in Handle
      PROVE  found(h) \in Calls /\ Alters(f, found(h), f.arg, at, f.kept, TRUE, h, f.entry, f.report)
  <2>1. h \in Ids
    BY DEF Ids
  <2> QED
    BY <1>2, <1>4, <2>1 DEF Calls, Alters
<1> HIDE DEF lost, found
<1>7. CASE Fails(t, lost)
  BY <1>1, <1>3, <1>5, <1>7 DEF f
<1>8. CASE \E h \in Handle : Gives(t, found(h), h)
  BY <1>1, <1>3, <1>6, <1>8 DEF f
<1> QED
  BY <1>1, <1>7, <1>8 DEF f

\* Giving it out keeps the wrappers in order.
LEMMA OpensKeeps ==
  ASSUME WrapInv, NEW t \in User, OriginalOpens(t)
  PROVE  WrapInv'
<1> DEFINE f == Top(t)
<1>1. /\ within[t] # <<>> /\ f.at = "original" /\ W(t).role \in {"connect", "open"}
      /\ UNCHANGED <<subject, inHook, ring, head, ops>>
      /\ \E g \in Calls, at \in {Answered(W(t))} :
              \/ Fails(t, g) /\ Alters(f, g, f.arg, at, f.kept, f.ok, f.got, f.entry, f.report)
              \/ \E h \in Handle : Gives(t, g, h) /\ Alters(f, g, f.arg, at, f.kept, TRUE, h, f.entry, f.report)
  BY OpensMoves
<1>2. PICK g \in Calls, at \in {Answered(W(t))} :
              \/ Fails(t, g) /\ Alters(f, g, f.arg, at, f.kept, f.ok, f.got, f.entry, f.report)
              \/ \E h \in Handle : Gives(t, g, h) /\ Alters(f, g, f.arg, at, f.kept, TRUE, h, f.entry, f.report)
  BY <1>1
<1>3. /\ f \in Calls /\ Fits(f, subject) /\ subject \in Subject /\ Shaped(W(t)) /\ W(t) = g_Hooks[f.fn]
      /\ HandleTyped
  BY <1>1, Innermost DEF WrapInv, WrapTyped
<1>4. W(t).name # "copied" /\ (W(t).role = "open" => f.on \in Handle)
  BY <1>1, <1>3 DEF Fits, NameFits, Shaped, IsPlain, IsOfPackage, IsOfHandle
<1>5. g \in Calls /\ Fits(g, subject) /\ g.at # "callback" /\ g.inner = f.inner
  <2>1. ASSUME NEW ok \in BOOLEAN, NEW got \in Ids, Alters(f, g, f.arg, at, f.kept, ok, got, f.entry, f.report)
        PROVE  g \in Calls /\ Fits(g, subject) /\ g.at # "callback" /\ g.inner = f.inner
    BY <1>1, <1>3, <1>4, <2>1, AnsweredFits
  <2>2. f.ok \in BOOLEAN /\ f.got \in Ids /\ TRUE \in BOOLEAN /\ Handle \subseteq Ids
    BY <1>3 DEF Calls, Ids
  <2>3. \E ok \in BOOLEAN, got \in Ids : Alters(f, g, f.arg, at, f.kept, ok, got, f.entry, f.report)
    BY <1>2, <2>2
  <2> QED
    BY <2>1, <2>3
<1>6. Become(t, g)
  BY <1>2 DEF Fails, Gives
<1>7. inHook' = inHook /\ inHook' \in [User -> BOOLEAN] /\ subject' = subject
  BY <1>1 DEF WrapInv, WrapTyped
<1>8. MarkMoves(inHook[t], inHook'[t], f, g) /\ \A u \in User : inHook'[u] = inHook[u]
  BY <1>1, <1>5, <1>7 DEF MarkMoves
<1>9. WithinTyped' /\ Framed'
  BY <1>1, <1>5, <1>6, <1>7, <1>8, CallKeeps
<1>10. HandleTyped'
  <2>1. CASE Fails(t, g)
    BY <1>3, <2>1 DEF Fails, HandleTyped
  <2>2. ASSUME NEW h \in Handle, Gives(t, g, h)
        PROVE  HandleTyped'
    <3>1. Opened(f, W(t)) \in Objects
      BY <1>1, <1>3, <1>4, OpenedTyped
    <3>2. given' = [given EXCEPT ![h] = @ + 1] /\ object' = [object EXCEPT ![h] = Opened(f, W(t))]
      BY <2>2 DEF Gives
    <3> QED
      BY <1>3, <3>1, <3>2 DEF HandleTyped
  <2> QED
    BY <1>2, <2>1, <2>2
<1>11. WrapTyped'
  BY <1>1, <1>7, <1>9, <1>10 DEF WrapInv, WrapTyped, RingTyped
<1>12. RingPackages'
  BY <1>1 DEF WrapInv, RingPackages
<1> QED
  BY <1>9, <1>11, <1>12 DEF WrapInv

\* The callback's return does.
LEMMA ReturnKeeps ==
  ASSUME WrapInv, NEW t \in User, CallbackReturns(t)
  PROVE  WrapInv'
<1> DEFINE f == Top(t)
           h == [f EXCEPT !.at = IF W(t).when = "before" THEN "original" ELSE "leave"]
<1>1. /\ within[t] # <<>> /\ f.at = "callback" /\ Local /\ Become(t, h)
      /\ inHook' = [inHook EXCEPT ![t] = FALSE]
  BY DEF CallbackReturns, At
<1>2. /\ f \in Calls /\ Fits(f, subject) /\ subject \in Subject /\ W(t) = g_Hooks[f.fn]
      /\ inHook \in [User -> BOOLEAN]
  BY <1>1, Innermost DEF WrapInv, WrapTyped
<1>3. h = [f EXCEPT !.at = Onward(g_Hooks[f.fn])]
  BY <1>2 DEF Onward
<1> HIDE DEF h
<1>4. h \in Calls /\ Fits(h, subject) /\ h.at # "callback" /\ h.inner = f.inner
  BY <1>1, <1>2, <1>3, PassedFits
<1>5. inHook' \in [User -> BOOLEAN] /\ ~inHook'[t] /\ \A u \in User : u # t => inHook'[u] = inHook[u]
  BY <1>1, <1>2
<1>6. MarkMoves(inHook[t], inHook'[t], f, h)
  BY <1>1, <1>4, <1>5 DEF MarkMoves
<1>7. WithinTyped' /\ Framed'
  BY <1>1, <1>4, <1>5, <1>6, CallKeeps DEF Local
<1> QED
  BY <1>1, <1>5, <1>7, LocalKeeps

\* A call of the program does.
LEMMA UserCallKeeps ==
  ASSUME WrapInv, NEW t \in User, UserCall(t)
  PROVE  WrapInv'
<1>1. /\ ops < IF Sharing THEN OpMax ELSE 1
      /\ ops' = ops + 1 /\ UNCHANGED <<subject, inHook, ring, head, object, given>>
  BY DEF UserCall
<1>2. WithinTyped /\ Framed /\ subject \in Subject /\ ops \in 0..(OpMax + 1)
  BY DEF WrapInv, WrapTyped
<1>3. WithinTyped' /\ Framed'
  BY <1>1, <1>2, CallEntered
<1>4. ops' \in 0..(OpMax + 1)
  BY <1>1, <1>2, RingsHold
<1>5. WrapTyped'
  BY <1>1, <1>3, <1>4 DEF WrapInv, WrapTyped, RingTyped, HandleTyped
<1>6. RingPackages'
  BY <1>1 DEF WrapInv, RingPackages
<1> QED
  BY <1>3, <1>5, <1>6 DEF WrapInv

\* A call of the callback does.
LEMMA CallbackCallsKeeps ==
  ASSUME WrapInv, NEW t \in User, CallbackCalls(t)
  PROVE  WrapInv'
<1>1. inHook' = inHook /\ Local
  BY DEF CallbackCalls
<1>2. WithinTyped /\ Framed /\ subject \in Subject /\ inHook' \in [User -> BOOLEAN] /\ subject' = subject
  BY <1>1 DEF WrapInv, WrapTyped, Local
<1>3. WithinTyped' /\ Framed'
  BY <1>1, <1>2, CallNested
<1> QED
  BY <1>1, <1>2, <1>3, LocalKeeps

\* The wrapper's return does.
LEMMA LeaveCallKeeps ==
  ASSUME WrapInv, NEW t \in User, Leave(t)
  PROVE  WrapInv'
<1>1. /\ object' = [h \in Handle |-> IF W(t).role \in {"connect", "open"} /\ h = Top(t).got
                                     THEN [object[h] EXCEPT !.usable = TRUE] ELSE object[h]]
      /\ UNCHANGED <<subject, inHook, ring, head, given, ops>>
  BY DEF Leave
<1>2. WithinTyped /\ Framed /\ HandleTyped
  BY DEF WrapInv, WrapTyped
<1>3. WithinTyped' /\ Framed'
  BY <1>1, <1>2, CallLeft
<1>4. HandleTyped'
  <2>1. \A h \in Handle : object[h] \in Objects /\ [object[h] EXCEPT !.usable = TRUE] \in Objects
    BY <1>2 DEF HandleTyped, Objects
  <2> QED
    BY <1>1, <1>2, <2>1 DEF HandleTyped
<1>5. WrapTyped'
  BY <1>1, <1>3, <1>4 DEF WrapInv, WrapTyped, RingTyped
<1>6. RingPackages'
  BY <1>1 DEF WrapInv, RingPackages
<1> QED
  BY <1>3, <1>5, <1>6 DEF WrapInv

\* Closing a handle does.
LEMMA CloseKeeps ==
  ASSUME WrapInv, NEW h \in Handle, CloseHandle(h)
  PROVE  WrapInv'
<1>1. /\ object' = [object EXCEPT ![h] = NoObject]
      /\ UNCHANGED <<subject, within, inHook, ring, head, given, ops>>
  BY DEF CloseHandle
<1>2. HandleTyped'
  BY <1>1, HandlesAreNumbers DEF WrapInv, WrapTyped, HandleTyped
<1>3. WrapTyped'
  BY <1>1, <1>2 DEF WrapInv, WrapTyped, WithinTyped, RingTyped
<1>4. Framed'
  BY <1>1 DEF WrapInv, Framed
<1>5. RingPackages'
  BY <1>1 DEF WrapInv, RingPackages
<1> QED
  BY <1>3, <1>4, <1>5 DEF WrapInv

\* Every step of the wrappers keeps them in order.
LEMMA NextWrap ==
  ASSUME WrapInv, [Next]_vars
  PROVE  WrapInv'
<1>1. CASE UNCHANGED vars
  <2>1. WrapTyped'
    BY <1>1 DEF vars, WrapInv, WrapTyped, WithinTyped, RingTyped, HandleTyped
  <2>2. Framed' /\ RingPackages'
    BY <1>1 DEF vars, WrapInv, Framed, RingPackages
  <2> QED
    BY <2>1, <2>2 DEF WrapInv
<1>2. ASSUME NEW t \in User, UserStep(t)
      PROVE  WrapInv'
  BY <1>2, UserCallKeeps, OverwriteKeeps, EnterKeeps, OriginalKeeps, OpensKeeps,
     ParentKeeps, StoreKeeps, PublishKeeps, CallbackCallsKeeps, ReturnKeeps, LeaveCallKeeps
     DEF UserStep
<1>3. ASSUME NEW h \in Handle, CloseHandle(h)
      PROVE  WrapInv'
  BY <1>3, CloseKeeps
<1> QED
  BY <1>1, <1>2, <1>3 DEF Next

\* What the invariant says of types, of what is told and of the names it is told under.
LEMMA WrapPromises ==
  ASSUME WrapInv
  PROVE  TypeOK /\ ToldOnce /\ NamesWhatWasPassed
<1>1. \A t \in User : within[t] \in Seq(Calls) /\ Stack(within[t], inHook[t], subject) /\ CallsFit(within[t], subject)
  BY DEF WrapInv, WrapTyped, WithinTyped, Framed
<1>2. TypeOK
  <2>1. \A t \in User : Len(within[t]) <= 2
    <3> SUFFICES ASSUME NEW t \in User PROVE Len(within[t]) <= 2
      OBVIOUS
    <3>1. Stack(within[t], inHook[t], subject)
      BY <1>1
    <3>2. Len(within[t]) = 0 \/ Len(within[t]) = 1 \/ Len(within[t]) = 2
      BY <3>1, Zenon DEF Stack
    <3> DEFINE n == Len(within[t])
    <3>3. n \in {0, 1, 2}
      BY <3>2
    <3> HIDE DEF n
    <3>4. n <= 2
      BY <3>3
    <3> QED
      BY <3>4 DEF n
  <2>2. DOMAIN ring = 1..RingMax /\ \A i \in 1..RingMax : ring[i].handle \in Ids
    BY DEF WrapInv, WrapTyped, RingTyped, Entries
  <2>3. \A h \in Handle : object[h].over \in Handle \cup {NoHandle}
    BY DEF WrapInv, WrapTyped, HandleTyped, Objects
  <2>4. ops \in 0..(OpMax + 1) /\ inHook \in [User -> BOOLEAN]
    BY DEF WrapInv, WrapTyped
  <2> QED
    BY <2>1, <2>2, <2>3, <2>4 DEF TypeOK, Ids
<1>3. ToldOnce
  <2> SUFFICES ASSUME NEW t \in User
               PROVE  /\ inHook[t] <=> \E i \in DOMAIN within[t] : within[t][i].at = "callback"
                      /\ \A i \in DOMAIN within[t] :
                           within[t][i].at = "leave" => (within[t][i].report.told <=> Due(within[t][i]))
    BY DEF ToldOnce, Due
  <2> DEFINE s == within[t]
  <2>1. s \in Seq(Calls) /\ Stack(s, inHook[t], subject) /\ CallsFit(s, subject)
    BY <1>1
  <2>2. \A i \in DOMAIN s : s[i].at = "leave" => (s[i].report.told <=> Due(s[i]))
    BY <2>1 DEF CallsFit, Fits, ToldFits
  <2> HIDE DEF s
  <2>3. DOMAIN s = 1..Len(s)
    BY <2>1
  <2>4. inHook[t] <=> \E i \in DOMAIN s : s[i].at = "callback"
    <3>1. CASE Len(s) = 0 /\ ~inHook[t]
      BY <2>3, <3>1
    <3>2. CASE Len(s) = 1 /\ (inHook[t] <=> s[1].at = "callback")
      <4>1. DOMAIN s = {1}
        BY <2>3, <3>2
      <4> QED
        BY <3>2, <4>1
    <3>3. CASE Len(s) = 2 /\ inHook[t] /\ s[1].at = "callback"
      <4>1. 1 \in DOMAIN s
        BY <2>3, <3>3
      <4> QED
        BY <3>3, <4>1
    <3> QED
      BY <2>1, <3>1, <3>2, <3>3 DEF Stack
  <2> QED
    BY <2>2, <2>4 DEF s
<1>4. NamesWhatWasPassed
  <2> SUFFICES ASSUME NEW t \in User, NEW i \in DOMAIN within[t], within[t][i].report.told
               PROVE  NamesIt(within[t][i])
    BY DEF NamesWhatWasPassed, NamesIt
  <2> QED
    BY <1>1 DEF CallsFit, Fits, NameFits
<1> QED
  BY <1>2, <1>3, <1>4

-----------------------------------------------------------------------------
(* Handles: what a call works on, what it was given, what is remembered.   *)

OnceOf(h, times) == h = NoHandle \/ times[h] <= 1
Beyond(n)        == n > RingMax
Uses(w)          == w.role = "open" \/ w.name = "request"

\* host and secure are those of the object o, or nothing is known and the ring of n stores was overwritten.
Tells(host, secure, o, n) ==
  \/ host = o.host /\ (o.secure => secure)
  \/ host = Unknown /\ Beyond(n)

Kept(h, r, n) == Beyond(n) \/ \E i \in 1..RingMax : r[i].handle = h

\* The handle a call was given stands for what it asked for, and nobody else has it yet.
Owns(f, o) ==
  LET w == g_Hooks[f.fn] IN
  /\ f.got \in Handle \cup {NoHandle}
  /\ f.got # NoHandle =>
       /\ w.role \in {"connect", "open"} /\ o[f.got] # NoObject /\ ~o[f.got].usable
       /\ w.role = "connect" => /\ o[f.got].host = f.arg /\ o[f.got].secure = f.secure
                                /\ ~f.http => o[f.got].is = "ftp"
       /\ w.role = "open" => /\ o[f.got].host = o[f.on].host /\ o[f.got].over = f.on
                             /\ o[f.got].secure <=> (f.secure \/ o[f.on].secure)

\* The handle a call works on is its program's for as long as the call lasts.
Works(f, o) ==
  LET w == g_Hooks[f.fn] IN
  Uses(w) => /\ f.on \in Handle /\ o[f.on].usable
             /\ o[f.on].is = IF w.role = "open" THEN "connect" ELSE "request"

\* What it found of it, what it stored and what it reports are of that handle.
Looked(f, o, times, n) ==
  (f.at = "store" /\ g_Hooks[f.fn].role = "open" /\ f.got # NoHandle /\ OnceOf(f.on, times)) =>
    Tells(f.entry.host, f.entry.secure, o[f.on], n)

Remembers(f, o, r, n) ==
  (f.at \in {"publish", "callback", "leave"} /\ f.got # NoHandle /\ o[f.got].is # "ftp") => Kept(f.got, r, n)

Reported(f, o, times, n) ==
  (f.at = "callback" /\ Uses(g_Hooks[f.fn]) /\ OnceOf(f.on, times) /\ OnceOf(o[f.on].over, times)) =>
    Tells(f.report.host, f.report.secure, o[f.on], n)

HttpFits(f, o, times, r, n) ==
  Owns(f, o) /\ Works(f, o) /\ Looked(f, o, times, n) /\ Remembers(f, o, r, n) /\ Reported(f, o, times, n)

\* The rings and the handles.
HttpRings(o, times, r, n) ==
  /\ \A h \in Handle : o[h] # NoObject => times[h] >= 1
  /\ \A i \in 1..RingMax : r[i].handle \in Handle \cup {NoHandle} /\ (r[i].handle # NoHandle => times[r[i].handle] >= 1)
  /\ \A i \in 1..RingMax : i > n => r[i] = NoEntry
  /\ \A h \in Handle : o[h].is = "connect" => o[h].over = NoHandle
  /\ \A h \in Handle : (o[h].usable /\ o[h].is # "ftp") => Kept(h, r, n)
  /\ \A i \in 1..RingMax : \A h \in Handle :
       (r[i].handle = h /\ o[h] # NoObject /\ OnceOf(h, times) /\ OnceOf(o[h].over, times)) =>
         Tells(r[i].host, r[i].secure, o[h], n)

\* The innermost calls of the threads, calls being within.
Newest(s) == s[Len(s)]

HttpCalls(calls, o, times, r, n) ==
  /\ \A t \in User : calls[t] # <<>> => HttpFits(Newest(calls[t]), o, times, r, n)
  /\ \A t, u \in User : (t # u /\ calls[t] # <<>> /\ calls[u] # <<>> /\ Newest(calls[t]).got = Newest(calls[u]).got)
                          => Newest(calls[t]).got = NoHandle

HttpInv == subject \subseteq HttpFns =>
             HttpRings(object, given, ring, head) /\ HttpCalls(within, object, given, ring, head)

\* Handles are given out more often, and stores are made.
LEMMA OnceBefore ==
  ASSUME NEW h \in Handle \cup {NoHandle}, NEW times \in [Handle -> Nat], NEW more \in [Handle -> Nat],
         \A g \in Handle : more[g] >= times[g], OnceOf(h, more)
  PROVE  OnceOf(h, times)
BY DEF OnceOf

\* A ring that is overwritten stays so.
LEMMA BeyondAfter ==
  ASSUME NEW n \in Nat, NEW m \in Nat, m >= n, Beyond(n)
  PROVE  Beyond(m)
BY RingsHold DEF Beyond

\* What tells of an object tells of it after more stores.
LEMMA TellsAfter ==
  ASSUME NEW n \in Nat, NEW m \in Nat, m >= n, NEW host, NEW secure, NEW o, Tells(host, secure, o, n)
  PROVE  Tells(host, secure, o, m)
BY BeyondAfter DEF Tells

\* What the system and the rings go through while a call is not moving.
Around(f, o, p, times, more, r, s, n, m) ==
  /\ times \in [Handle -> Nat] /\ more \in [Handle -> Nat] /\ \A g \in Handle : more[g] >= times[g]
  /\ n \in Nat /\ m \in Nat /\ m >= n
  /\ Uses(g_Hooks[f.fn]) => p[f.on] = o[f.on]
  /\ f.got # NoHandle => p[f.got] = o[f.got]
  /\ \A h \in Handle : Kept(h, r, n) => Kept(h, s, m)

\* Such a call still fits.
LEMMA FitsAfter ==
  ASSUME NEW f, NEW o \in [Handle -> Objects], NEW p, NEW times, NEW more, NEW r, NEW s, NEW n, NEW m,
         Around(f, o, p, times, more, r, s, n, m), HttpFits(f, o, times, r, n)
  PROVE  HttpFits(f, p, more, s, m)
<1> DEFINE w == g_Hooks[f.fn]
<1>1. /\ Owns(f, o) /\ Works(f, o) /\ Looked(f, o, times, n) /\ Remembers(f, o, r, n) /\ Reported(f, o, times, n)
  BY DEF HttpFits
<1>2. /\ times \in [Handle -> Nat] /\ more \in [Handle -> Nat] /\ \A g \in Handle : more[g] >= times[g]
      /\ n \in Nat /\ m \in Nat /\ m >= n
  BY DEF Around
<1>3. /\ Uses(w) => p[f.on] = o[f.on] /\ f.on \in Handle
      /\ f.got # NoHandle => p[f.got] = o[f.got]
      /\ \A h \in Handle : Kept(h, r, n) => Kept(h, s, m)
  BY <1>1 DEF Around, Works
<1>4. w.role = "open" => Uses(w)
  BY DEF Uses
<1>5. Owns(f, p)
  BY <1>1, <1>3, <1>4 DEF Owns
<1>6. Works(f, p)
  BY <1>1, <1>3 DEF Works
<1>7. Looked(f, p, more, m)
  <2> SUFFICES ASSUME f.at = "store", w.role = "open", f.got # NoHandle, OnceOf(f.on, more)
               PROVE  Tells(f.entry.host, f.entry.secure, p[f.on], m)
    BY DEF Looked
  <2>1. OnceOf(f.on, times)
    BY <1>2, <1>3, <1>4, OnceBefore
  <2>2. Tells(f.entry.host, f.entry.secure, o[f.on], n)
    BY <1>1, <2>1 DEF Looked
  <2>3. Tells(f.entry.host, f.entry.secure, o[f.on], m)
    BY <1>2, <2>2, TellsAfter
  <2> QED
    BY <1>3, <1>4, <2>3
<1>8. Remembers(f, p, s, m)
  BY <1>1, <1>3 DEF Remembers, Owns
<1>9. Reported(f, p, more, m)
  <2> SUFFICES ASSUME f.at = "callback", Uses(w), OnceOf(f.on, more), OnceOf(p[f.on].over, more)
               PROVE  Tells(f.report.host, f.report.secure, p[f.on], m)
    BY DEF Reported
  <2>1. o[f.on].over \in Handle \cup {NoHandle}
    BY <1>3 DEF Objects
  <2>2. OnceOf(f.on, times) /\ OnceOf(o[f.on].over, times)
    BY <1>2, <1>3, <2>1, OnceBefore
  <2>3. Tells(f.report.host, f.report.secure, o[f.on], n)
    BY <1>1, <2>2 DEF Reported
  <2>4. Tells(f.report.host, f.report.secure, o[f.on], m)
    BY <1>2, <2>3, TellsAfter
  <2> QED
    BY <1>3, <2>4
<1> QED
  BY <1>5, <1>6, <1>7, <1>8, <1>9 DEF HttpFits

\* One thread's newest call becomes g, or is over, while the others stand.
LEMMA HttpMoves ==
  ASSUME NEW calls, NEW after, NEW t \in User, NEW g, NEW o \in [Handle -> Objects], NEW p, NEW times, NEW more,
         NEW r, NEW s, NEW n, NEW m, HttpCalls(calls, o, times, r, n),
         \A u \in User : u # t => after[u] = calls[u],
         \A u \in User : (u # t /\ calls[u] # <<>>) => Around(Newest(calls[u]), o, p, times, more, r, s, n, m),
         \/ after[t] = <<>>
         \/ /\ Newest(after[t]) = g /\ HttpFits(g, p, more, s, m)
            /\ g.got = NoHandle \/ \A u \in User : (u # t /\ calls[u] # <<>>) => Newest(calls[u]).got # g.got
  PROVE  HttpCalls(after, p, more, s, m)
<1>1. ASSUME NEW u \in User, u # t, calls[u] # <<>>
      PROVE  HttpFits(Newest(calls[u]), p, more, s, m)
  <2>1. Around(Newest(calls[u]), o, p, times, more, r, s, n, m) /\ HttpFits(Newest(calls[u]), o, times, r, n)
    BY <1>1 DEF HttpCalls
  <2> QED
    BY <2>1, FitsAfter
<1>2. \A u \in User : after[u] # <<>> => HttpFits(Newest(after[u]), p, more, s, m)
  BY <1>1
<1>3. ASSUME NEW u \in User, NEW v \in User, u # v, after[u] # <<>>, after[v] # <<>>,
             Newest(after[u]).got = Newest(after[v]).got
      PROVE  Newest(after[u]).got = NoHandle
  <2>1. CASE u # t /\ v # t
    BY <1>3, <2>1 DEF HttpCalls
  <2>2. CASE u = t
    BY <1>3, <2>2
  <2>3. CASE v = t
    BY <1>3, <2>3
  <2> QED
    BY <2>1, <2>2, <2>3
<1> QED
  BY <1>2, <1>3 DEF HttpCalls

\* Nothing happened.
LEMMA AroundSelf ==
  ASSUME HandleTyped, RingTyped, NEW f
  PROVE  Around(f, object, object, given, given, ring, ring, head, head)
<1>1. \A h \in Handle : given[h] >= given[h]
  BY DEF HandleTyped
<1>2. head >= head /\ head \in Nat
  BY DEF RingTyped
<1> QED
  BY <1>1, <1>2 DEF Around, HandleTyped

\* Functions of handles make one call at a time; their wrappers.
LEMMA HttpCall ==
  ASSUME WrapInv, subject \subseteq HttpFns, NEW t \in User, within[t] # <<>>
  PROVE  /\ Top(t) \in Calls /\ Fits(Top(t), subject) /\ W(t) = g_Hooks[Top(t).fn] /\ IsOfHandle(W(t))
         /\ Len(within[t]) = 1 /\ Top(t) = Newest(within[t]) /\ Sharing
<1>1. /\ Top(t) \in Calls /\ Fits(Top(t), subject) /\ Stack(within[t], inHook[t], subject)
      /\ W(t) = g_Hooks[Top(t).fn] /\ Top(t).fn \in subject
  BY Innermost
<1>2. IsOfHandle(W(t))
  BY <1>1, HandleShape
<1>3. Sharing
  <2>1. Kinds
    BY SubjectKinds DEF WrapInv, WrapTyped
  <2>2. Top(t).fn \in HttpFns
    BY <1>1
  <2> QED
    BY <1>1, <2>1, <2>2 DEF Kinds
<1>4. Len(within[t]) = 1
  <2>1. within[t] \in Seq(Calls)
    BY DEF WrapInv, WrapTyped, WithinTyped
  <2>2. Len(within[t]) # 0
    BY <2>1
  <2> QED
    BY <1>1, <1>3, <2>2 DEF Stack, Sharing
<1> QED
  BY <1>1, <1>2, <1>3, <1>4 DEF Top, Newest

\* A step that leaves the handles and the rings alone.
LEMMA HttpLocal ==
  ASSUME WrapInv, HttpInv, subject \subseteq HttpFns, NEW t \in User, within[t] # <<>>, NEW g \in Calls, Become(t, g),
         UNCHANGED <<subject, ring, head, object, given>>, g.got \in {Top(t).got, NoHandle},
         HttpFits(g, object, given, ring, head)
  PROVE  HttpInv'
<1>1. HttpRings(object, given, ring, head) /\ HttpCalls(within, object, given, ring, head)
  BY DEF HttpInv
<1>2. HandleTyped /\ RingTyped /\ WithinTyped
  BY DEF WrapInv, WrapTyped
<1>3. Within(t, g)
  BY <1>2, CallBecomes
<1>4. Newest(within'[t]) = g /\ \A u \in User : u # t => within'[u] = within[u]
  BY <1>3 DEF Within, Newest
<1>5. g.got = NoHandle \/ \A u \in User : (u # t /\ within[u] # <<>>) => Newest(within[u]).got # g.got
  <2>1. CASE g.got = Top(t).got
    <3>1. Top(t) = Newest(within[t])
      BY DEF Top, Newest
    <3> QED
      BY <1>1, <2>1, <3>1 DEF HttpCalls
  <2> QED
    BY <2>1
<1>6. \A u \in User : Around(Newest(within[u]), object, object, given, given, ring, ring, head, head)
  BY <1>2, AroundSelf
<1>7. object \in [Handle -> Objects]
  BY <1>2 DEF HandleTyped
<1>8. HttpCalls(within', object, given, ring, head)
  BY <1>1, <1>4, <1>5, <1>6, <1>7, HttpMoves
<1> QED
  BY <1>1, <1>8 DEF HttpInv

\* A handle that is in use is found under its own name, unless it was given out twice
\* or the ring overwritten.
LEMMA LookupTells ==
  ASSUME RingTyped, HttpRings(object, given, ring, head), NEW h \in Handle, object[h].usable, object[h].is # "ftp",
         OnceOf(h, given), OnceOf(object[h].over, given)
  PROVE  Tells(Lookup(h).host, Lookup(h).secure, object[h], head)
<1>1. Kept(h, ring, head)
  BY DEF HttpRings
<1>2. CASE Lookup(h) = NoEntry /\ \A i \in 1..RingMax : ring[i].handle # h \/ h = NoHandle
  <2>1. Beyond(head)
    BY <1>1, <1>2, HandlesAreNumbers DEF Kept
  <2> QED
    BY <1>2, <2>1 DEF Tells, NoEntry
<1>3. CASE \E i \in 1..RingMax : Lookup(h) = ring[i] /\ ring[i].handle = h
  <2>1. object[h] # NoObject
    BY DEF NoObject
  <2> QED
    BY <1>3, <2>1 DEF HttpRings
<1> QED
  BY <1>2, <1>3, LookupIs

\* A call that moves on with what it has.
LEMMA OwnsStill ==
  ASSUME NEW f, NEW g, NEW o, NEW at, NEW kept, NEW ok, NEW entry, NEW report,
         Alters(f, g, f.arg, at, kept, ok, f.got, entry, report), Owns(f, o), Works(f, o)
  PROVE  Owns(g, o) /\ Works(g, o)
BY DEF Alters, Owns, Works

\* What is known of a thread's call when functions of handles are called.
LEMMA HttpFacts ==
  ASSUME WrapInv, HttpInv, subject \subseteq HttpFns, NEW t \in User, within[t] # <<>>
  PROVE  /\ Owns(Top(t), object) /\ Works(Top(t), object) /\ Remembers(Top(t), object, ring, head)
         /\ Looked(Top(t), object, given, head) /\ Reported(Top(t), object, given, head)
         /\ HttpRings(object, given, ring, head) /\ HandleTyped /\ RingTyped
         /\ HttpCalls(within, object, given, ring, head)
<1>1. HttpRings(object, given, ring, head) /\ HttpCalls(within, object, given, ring, head)
  BY DEF HttpInv
<1>2. Top(t) = Newest(within[t])
  BY HttpCall
<1>3. HttpFits(Top(t), object, given, ring, head)
  BY <1>1, <1>2 DEF HttpCalls
<1> QED
  BY <1>1, <1>3 DEF HttpFits, WrapInv, WrapTyped

\* Entering the wrapper.
LEMMA EnterHttp ==
  ASSUME WrapInv, HttpInv, subject \subseteq HttpFns, NEW t \in User, Enter(t)
  PROVE  HttpInv'
<1> DEFINE f == Top(t)
           g == Entered(f)
<1>1. /\ within[t] # <<>> /\ f.at = "enter" /\ Become(t, g)
      /\ UNCHANGED <<subject, ring, head, object, given>>
  BY DEF Enter, At, Entered, W, Local
<1>2. f \in Calls /\ W(t) = g_Hooks[f.fn] /\ IsOfHandle(W(t)) /\ Fits(f, subject) /\ subject \in Subject
  BY <1>1, HttpCall DEF WrapInv, WrapTyped
<1>3. Owns(f, object) /\ Works(f, object)
  BY <1>1, HttpFacts
<1> DEFINE at == IF W(t).when = "before" THEN "publish" ELSE "original"
<1>4. g \in Calls /\ g.at = at /\ g.got = f.got /\ \E kept : Alters(f, g, f.arg, at, kept, f.ok, f.got, f.entry, f.report)
  <2>1. g \in Calls
    BY <1>1, <1>2, EnteredFits
  <2>2. g = [f EXCEPT !.at = at, !.kept = f.kept]
    BY <1>2 DEF Entered, IsOfHandle
  <2>3. at \in Spots /\ f.kept \in Texts
    BY <1>2 DEF Spots, Calls
  <2> HIDE DEF g, at, f
  <2>4. Alters(f, g, f.arg, at, f.kept, f.ok, f.got, f.entry, f.report)
    BY <1>2, <2>2, <2>3, KeptSet, Zenon
  <2> QED
    BY <2>1, <2>4 DEF Alters
<1> HIDE DEF g
<1>5. Owns(g, object) /\ Works(g, object)
  BY <1>3, <1>4, OwnsStill
<1>6. Remembers(g, object, ring, head)
  <2>1. g.at = "publish" => W(t).role = "none"
    BY <1>2, <1>4 DEF IsOfHandle
  <2> QED
    BY <1>2, <1>3, <1>4, <2>1 DEF Remembers, Owns
<1>7. Looked(g, object, given, head) /\ Reported(g, object, given, head)
  BY <1>4 DEF Looked, Reported
<1> QED
  BY <1>1, <1>4, <1>5, <1>6, <1>7, HttpLocal DEF HttpFits

\* The original's answer, when it makes no handle.
LEMMA OriginalHttp ==
  ASSUME WrapInv, HttpInv, subject \subseteq HttpFns, NEW t \in User, Original(t)
  PROVE  HttpInv'
<1> DEFINE f == Top(t)
           g(ok) == [f EXCEPT !.at = Next1(t), !.ok = ok, !.got = NoHandle]
<1>1. /\ within[t] # <<>> /\ W(t).role \notin {"connect", "open"}
      /\ UNCHANGED <<subject, ring, head, object, given>>
  BY DEF Original, At, Local
<1>2. f \in Calls /\ W(t) = g_Hooks[f.fn] /\ IsOfHandle(W(t))
  BY <1>1, HttpCall
<1>3. Owns(f, object) /\ Works(f, object)
  BY <1>1, HttpFacts
<1>4. W(t).role = "none" /\ W(t).when = "before"
  BY <1>1, <1>2 DEF IsOfHandle
<1>5. \E ok \in BOOLEAN : Become(t, g(ok))
  BY <1>4 DEF Original
<1>6. PICK ok \in BOOLEAN : Become(t, g(ok))
  BY <1>5
<1>7. Next1(t) = "leave" /\ "leave" \in Spots /\ NoHandle \in Ids
  BY <1>4 DEF Next1, Spots, Ids
<1>8. g(ok) \in Calls /\ Alters(f, g(ok), f.arg, "leave", f.kept, ok, NoHandle, f.entry, f.report)
  BY <1>2, <1>7 DEF Calls, Alters
<1> HIDE DEF g
<1>9. Owns(g(ok), object) /\ Works(g(ok), object)
  BY <1>3, <1>8 DEF Alters, Owns, Works
<1>10. HttpFits(g(ok), object, given, ring, head)
  BY <1>8, <1>9 DEF HttpFits, Alters, Remembers, Looked, Reported
<1>11. g(ok).got \in {f.got, NoHandle}
  BY <1>8 DEF Alters
<1> QED
  BY <1>1, <1>6, <1>8, <1>10, <1>11, HttpLocal

\* Looking the connection up.
LEMMA ParentHttp ==
  ASSUME WrapInv, HttpInv, subject \subseteq HttpFns, NEW t \in User, ParentLookup(t)
  PROVE  HttpInv'
<1> DEFINE f == Top(t)
           entry == IF f.got = NoHandle THEN f.entry ELSE Lookup(f.on)
           g == [f EXCEPT !.at = "store", !.entry = entry]
<1>1. /\ within[t] # <<>> /\ f.at = "parent" /\ Become(t, g)
      /\ UNCHANGED <<subject, ring, head, object, given>>
  BY DEF ParentLookup, At, Local
<1>2. f \in Calls /\ W(t) = g_Hooks[f.fn] /\ IsOfHandle(W(t)) /\ Fits(f, subject) /\ subject \in Subject
  BY <1>1, HttpCall DEF WrapInv, WrapTyped
<1>3. /\ Owns(f, object) /\ Works(f, object) /\ HttpRings(object, given, ring, head) /\ RingTyped
  BY <1>1, HttpFacts
<1>4. W(t).role = "open"
  BY <1>1, <1>2 DEF Fits, SpotFits
<1>5. f.on \in Handle /\ object[f.on].usable /\ object[f.on].is = "connect"
  BY <1>2, <1>3, <1>4 DEF Works, Uses
<1>6. object[f.on].over = NoHandle /\ OnceOf(NoHandle, given)
  BY <1>3, <1>5 DEF HttpRings, OnceOf
<1>7. (f.got # NoHandle /\ OnceOf(f.on, given)) => Tells(entry.host, entry.secure, object[f.on], head)
  BY <1>3, <1>5, <1>6, LookupTells
<1>8. entry \in Entries
  BY <1>2, <1>3, LookupIs DEF Calls
<1> HIDE DEF entry, f
<1>9. Alters(f, g, f.arg, "store", f.kept, f.ok, f.got, entry, f.report)
  <2>1. "store" \in Spots
    BY DEF Spots
  <2> QED
    BY <1>2, <1>8, <2>1, EntrySet, Zenon
<1> HIDE DEF g
<1>10. Owns(g, object) /\ Works(g, object)
  BY <1>3, <1>9, OwnsStill
<1>11. Looked(g, object, given, head)
  BY <1>7, <1>9 DEF Looked, Alters
<1>12. Remembers(g, object, ring, head) /\ Reported(g, object, given, head)
  BY <1>9 DEF Remembers, Reported, Alters
<1>13. g \in Calls /\ g.got \in {f.got, NoHandle}
  BY <1>9 DEF Alters
<1> QED
  BY <1>1, <1>10, <1>11, <1>12, <1>13, HttpLocal DEF HttpFits, f

\* Telling the callback: the second lookup is the one that the report names.
LEMMA PublishHttp ==
  ASSUME WrapInv, HttpInv, subject \subseteq HttpFns, NEW t \in User, PublishModuleEvent(t)
  PROVE  HttpInv'
<1> DEFINE f == Top(t)
           g == [f EXCEPT !.at = "callback", !.report = Report(t)]
           at == IF W(t).when = "before" THEN "original" ELSE "leave"
           h == [f EXCEPT !.at = at]
<1>1. /\ within[t] # <<>> /\ f.at = "publish" /\ (Become(t, g) \/ Become(t, h))
      /\ UNCHANGED <<subject, ring, head, object, given>>
  BY DEF PublishModuleEvent, At, Local
<1>2. f \in Calls /\ W(t) = g_Hooks[f.fn] /\ IsOfHandle(W(t)) /\ Fits(f, subject) /\ subject \in Subject
  BY <1>1, HttpCall DEF WrapInv, WrapTyped
<1>3. /\ Owns(f, object) /\ Works(f, object) /\ Remembers(f, object, ring, head)
      /\ HttpRings(object, given, ring, head) /\ RingTyped
  BY <1>1, HttpFacts
<1>4. CASE Become(t, g)
  <2>1. Report(t) \in Reports
    BY <1>2, <1>3, ReportTyped DEF Shaped
  <2>2. Alters(f, g, f.arg, "callback", f.kept, f.ok, f.got, f.entry, Report(t))
    <3>1. "callback" \in Spots
      BY DEF Spots
    <3> QED
      BY <1>2, <2>1, <3>1, ReportSet, Zenon
  <2> HIDE DEF g
  <2>3. Owns(g, object) /\ Works(g, object)
    BY <1>3, <2>2, OwnsStill
  <2>4. Looked(g, object, given, head) /\ Remembers(g, object, ring, head)
    BY <1>1, <1>3, <2>2 DEF Looked, Remembers, Alters
  <2>5. Reported(g, object, given, head)
    <3> SUFFICES ASSUME Uses(W(t)), OnceOf(f.on, given), OnceOf(object[f.on].over, given)
                 PROVE  Tells(Report(t).host, Report(t).secure, object[f.on], head)
      BY <1>2, <2>2 DEF Reported, Alters
    <3> DEFINE found == Lookup(f.on)
    <3>1. f.on \in Handle /\ object[f.on].usable /\ object[f.on].is # "ftp"
      BY <1>2, <1>3 DEF Works
    <3>2. Tells(found.host, found.secure, object[f.on], head)
      BY <1>3, <3>1, LookupTells
    <3>3. CASE W(t).role = "open"
      <4>1. W(t).name = "parent"
        BY <1>2, <3>3 DEF IsOfHandle
      <4> DEFINE secure == f.secure \/ found.secure
      <4>2. Report(t) = [told |-> TRUE, host |-> found.host, secure |-> secure]
        BY <4>1 DEF Report
      <4>3. found.secure => secure
        OBVIOUS
      <4> HIDE DEF secure
      <4>4. Report(t).host = found.host /\ Report(t).secure = secure
        BY <4>2
      <4> QED
        BY <3>2, <4>3, <4>4 DEF Tells
    <3>4. CASE W(t).name = "request"
      <4>1. Report(t) = [told |-> TRUE, host |-> found.host, secure |-> found.secure]
        BY <3>4 DEF Report
      <4> QED
        BY <3>2, <4>1
    <3> QED
      BY <3>3, <3>4 DEF Uses
  <2>6. g \in Calls /\ g.got \in {f.got, NoHandle}
    BY <2>2 DEF Alters
  <2> QED
    BY <1>1, <1>4, <2>3, <2>4, <2>5, <2>6, HttpLocal DEF HttpFits
<1>5. CASE Become(t, h)
  <2>1. at \in {"original", "leave"} /\ at \in Spots
    BY DEF Spots
  <2> HIDE DEF at
  <2>2. Alters(f, h, f.arg, at, f.kept, f.ok, f.got, f.entry, f.report)
    BY <1>2, <2>1, SpotSet, Zenon
  <2> HIDE DEF h
  <2>3. Owns(h, object) /\ Works(h, object)
    BY <1>3, <2>2, OwnsStill
  <2>4. /\ Looked(h, object, given, head) /\ Remembers(h, object, ring, head)
        /\ Reported(h, object, given, head)
    BY <1>1, <1>3, <2>1, <2>2 DEF Looked, Remembers, Reported, Alters
  <2>5. h \in Calls /\ h.got \in {f.got, NoHandle}
    BY <2>2 DEF Alters
  <2> QED
    BY <1>1, <1>5, <2>3, <2>4, <2>5, HttpLocal DEF HttpFits
<1> QED
  BY <1>1, <1>4, <1>5

\* The callback's return.
LEMMA ReturnHttp ==
  ASSUME WrapInv, HttpInv, subject \subseteq HttpFns, NEW t \in User, CallbackReturns(t)
  PROVE  HttpInv'
<1> DEFINE f == Top(t)
           at == IF W(t).when = "before" THEN "original" ELSE "leave"
           h == [f EXCEPT !.at = at]
<1>1. /\ within[t] # <<>> /\ f.at = "callback" /\ Become(t, h)
      /\ UNCHANGED <<subject, ring, head, object, given>>
  BY DEF CallbackReturns, At, Local
<1>2. f \in Calls
  BY <1>1, HttpCall
<1>3. Owns(f, object) /\ Works(f, object) /\ Remembers(f, object, ring, head)
  BY <1>1, HttpFacts
<1>4. at \in {"original", "leave"} /\ at \in Spots
  BY DEF Spots
<1> HIDE DEF at
<1>5. Alters(f, h, f.arg, at, f.kept, f.ok, f.got, f.entry, f.report)
  BY <1>2, <1>4, SpotSet, Zenon
<1> HIDE DEF h
<1>6. Owns(h, object) /\ Works(h, object)
  BY <1>3, <1>5, OwnsStill
<1>7. /\ Looked(h, object, given, head) /\ Remembers(h, object, ring, head)
      /\ Reported(h, object, given, head)
  BY <1>1, <1>3, <1>4, <1>5 DEF Looked, Remembers, Reported, Alters
<1>8. h \in Calls /\ h.got \in {f.got, NoHandle}
  BY <1>5 DEF Alters
<1> QED
  BY <1>1, <1>6, <1>7, <1>8, HttpLocal DEF HttpFits

\* No handle is given out, and nothing is stored.
LEMMA InitHttp ==
  ASSUME Init
  PROVE  HttpInv
<1>1. /\ \A h \in Handle : object[h] = NoObject
      /\ \A i \in 1..RingMax : ring[i] = NoEntry
      /\ \A t \in User : within[t] = <<>>
  BY DEF Init
<1>2. HttpRings(object, given, ring, head)
  <2>1. \A h \in Handle : object[h].is = "nothing" /\ ~object[h].usable
    BY <1>1 DEF NoObject
  <2>2. \A i \in 1..RingMax : ring[i].handle = NoHandle
    BY <1>1 DEF NoEntry
  <2> QED
    BY <1>1, <2>1, <2>2, HandlesAreNumbers DEF HttpRings
<1>3. HttpCalls(within, object, given, ring, head)
  BY <1>1 DEF HttpCalls
<1> QED
  BY <1>2, <1>3 DEF HttpInv

\* A call of the program works on a handle it may use.
LEMMA BegunHttp ==
  ASSUME subject \in Subject, subject \subseteq HttpFns, NEW f \in subject, NEW x \in Begins(f)
  PROVE  HttpFits(x, object, given, ring, head) /\ x.got = NoHandle
<1> DEFINE w == g_Hooks[f]
<1>1. x.fn = f /\ x.at = "enter" /\ x.got = NoHandle
  BY Begun DEF Fresh
<1>2. IsOfHandle(w)
  BY HandleShape
<1>3. Works(x, object)
  <2>1. CASE w.role = "connect"
    BY <1>1, <1>2, <2>1 DEF Works, Uses, IsOfHandle
  <2>2. CASE w.role = "open"
    <3>1. x \in OnHandle(f)
      BY <1>2, <2>2 DEF Begins, IsOfHandle
    <3>2. PICK h \in {g \in Handle : Usable(g, "connect")}, s \in BOOLEAN : x = Frame(f, "none", h, s, TRUE)
      BY <3>1 DEF OnHandle
    <3>3. x.on = h /\ h \in Handle /\ object[h].is = "connect" /\ object[h].usable
      BY <3>2 DEF Frame, Usable
    <3> QED
      BY <1>1, <2>2, <3>3 DEF Works
  <2>3. CASE w.role = "none" /\ w.name = "request" /\ ~w.ifHttp
    <3>1. x \in OnRequest(f)
      BY <2>3 DEF Begins
    <3>2. PICK h \in {g \in Handle : Usable(g, "request")} : x = Frame(f, "none", h, FALSE, TRUE)
      BY <3>1 DEF OnRequest
    <3>3. x.on = h /\ h \in Handle /\ object[h].is = "request" /\ object[h].usable
      BY <3>2 DEF Frame, Usable
    <3> QED
      BY <1>1, <2>3, <3>3 DEF Works
  <2> QED
    BY <1>2, <2>1, <2>2, <2>3 DEF IsOfHandle
<1> QED
  BY <1>1, <1>3 DEF HttpFits, Owns, Looked, Remembers, Reported

\* A call of the program.
LEMMA UserCallHttp ==
  ASSUME WrapInv, HttpInv, subject \subseteq HttpFns, NEW t \in User, UserCall(t)
  PROVE  HttpInv'
<1>1. /\ within[t] = <<>> /\ UNCHANGED <<subject, ring, head, object, given>>
      /\ \E f \in subject : \E x \in Begins(f) : within' = [within EXCEPT ![t] = <<x>>]
  BY DEF UserCall
<1>2. PICK f \in subject : \E x \in Begins(f) : within' = [within EXCEPT ![t] = <<x>>]
  BY <1>1
<1>3. PICK x \in Begins(f) : within' = [within EXCEPT ![t] = <<x>>]
  BY <1>2
<1>4. HandleTyped /\ RingTyped /\ WithinTyped /\ subject \in Subject
  BY DEF WrapInv, WrapTyped
<1>5. HttpFits(x, object, given, ring, head) /\ x.got = NoHandle
  BY <1>4, BegunHttp
<1>6. x \in Calls
  BY <1>4, Begun DEF Fresh
<1>7. within'[t] = <<x>> /\ \A u \in User : u # t => within'[u] = within[u]
  BY <1>1, <1>3, <1>4, <1>6, CallStarts
<1>8. Newest(within'[t]) = x
  BY <1>7 DEF Newest
<1>9. HttpRings(object, given, ring, head) /\ HttpCalls(within, object, given, ring, head)
  BY DEF HttpInv
<1>10. \A u \in User : Around(Newest(within[u]), object, object, given, given, ring, ring, head, head)
  BY <1>4, AroundSelf
<1>11. object \in [Handle -> Objects]
  BY <1>4 DEF HandleTyped
<1>12. HttpCalls(within', object, given, ring, head)
  BY <1>5, <1>7, <1>8, <1>9, <1>10, <1>11, HttpMoves
<1> QED
  BY <1>1, <1>9, <1>12 DEF HttpInv

\* Functions of handles are called side by side, and then nobody's memory changes and no
\* callback calls: the model watches those in behaviours of one function.
LEMMA NotBySharing ==
  ASSUME WrapInv, subject \subseteq HttpFns, NEW t \in User
  PROVE  ~Overwrite(t) /\ ~CallbackCalls(t)
BY HttpCall DEF Overwrite, CallbackCalls, At

\* The innermost calls of the other threads.
LEMMA Others ==
  ASSUME HttpCalls(within, object, given, ring, head), NEW u \in User, within[u] # <<>>
  PROVE  LET f == Newest(within[u]) IN
         /\ Uses(g_Hooks[f.fn]) => f.on \in Handle /\ object[f.on].usable
         /\ f.got # NoHandle => f.got \in Handle /\ object[f.got] # NoObject /\ ~object[f.got].usable
BY DEF HttpCalls, HttpFits, Owns, Works

\* A store keeps what is remembered, unless it is one too many.
LEMMA KeptAfter ==
  ASSUME NEW r \in [1..RingMax -> Entries], NEW n \in Nat, \A i \in 1..RingMax : i > n => r[i] = NoEntry,
         NEW e, NEW k, k = (n % RingMax) + 1, NEW s, s = [r EXCEPT ![k] = e], NEW h \in Handle, Kept(h, r, n)
  PROVE  Kept(h, s, n + 1)
<1>1. CASE Beyond(n)
  BY <1>1, BeyondAfter DEF Kept
<1>2. CASE ~Beyond(n)
  <2>1. PICK i \in 1..RingMax : r[i].handle = h
    BY <1>2 DEF Kept
  <2>2. CASE i # k
    BY <2>1, <2>2 DEF Kept
  <2>3. CASE i = k
    <3>1. ~(i > n)
      BY <2>1, HandlesAreNumbers DEF NoEntry
    <3>2. ~(n < RingMax)
      <4>1. n < RingMax => n % RingMax = n
        BY RingsHold
      <4>2. n + 1 > n
        OBVIOUS
      <4> QED
        BY <2>3, <3>1, <4>1, <4>2
    <3>3. Beyond(n + 1)
      BY <3>2, RingsHold DEF Beyond
    <3> QED
      BY <3>3 DEF Kept
  <2> QED
    BY <2>2, <2>3
<1> QED
  BY <1>1, <1>2

\* Before the ring is full, a store takes the first slot that is free.
LEMMA FreeAfter ==
  ASSUME NEW n \in Nat, NEW i \in 1..RingMax, i > n + 1
  PROVE  i # (n % RingMax) + 1 /\ i > n
<1>1. n < RingMax /\ i > n
  BY RingsHold
<1>2. n % RingMax = n
  BY <1>1, RingsHold
<1> QED
  BY <1>1, <1>2

\* What is stored tells of the handle it is stored for.
LEMMA StoredTells ==
  ASSUME WrapInv, HttpInv, subject \subseteq HttpFns, NEW t \in User, within[t] # <<>>, Top(t).at = "store",
         Top(t).got # NoHandle, OnceOf(object[Top(t).got].over, given)
  PROVE  Tells(Stored(t).host, Stored(t).secure, object[Top(t).got], head)
<1> DEFINE f == Top(t)
           o == object[f.got]
<1>1. f \in Calls /\ W(t) = g_Hooks[f.fn] /\ IsOfHandle(W(t)) /\ Fits(f, subject)
  BY HttpCall
<1>2. Owns(f, object) /\ Looked(f, object, given, head)
  BY HttpFacts
<1>3. CASE W(t).role = "connect"
  <2>1. o.host = f.arg /\ o.secure = f.secure
    BY <1>1, <1>2, <1>3 DEF Owns
  <2>2. Stored(t) = [handle |-> f.got, host |-> f.arg, secure |-> f.secure]
    BY <1>3 DEF Stored
  <2> QED
    BY <2>1, <2>2 DEF Tells
<1>4. CASE W(t).role = "open"
  <2>1. o.host = object[f.on].host /\ o.over = f.on /\ (o.secure <=> (f.secure \/ object[f.on].secure))
    BY <1>1, <1>2, <1>4 DEF Owns
  <2>2. Tells(f.entry.host, f.entry.secure, object[f.on], head)
    BY <1>1, <1>2, <1>4, <2>1 DEF Looked
  <2> DEFINE secure == f.secure \/ f.entry.secure
  <2>3. Stored(t) = [handle |-> f.got, host |-> f.entry.host, secure |-> secure]
    BY <1>4 DEF Stored
  <2>4. (object[f.on].secure => f.entry.secure) => (o.secure => secure)
    BY <2>1
  <2> HIDE DEF secure, o, f
  <2>5. Stored(t).host = f.entry.host /\ Stored(t).secure = secure
    BY <2>3
  <2> QED
    BY <2>1, <2>2, <2>4, <2>5 DEF Tells, o, f
<1> QED
  BY <1>1, <1>3, <1>4 DEF Fits, SpotFits, IsOfHandle

\* Storing what was opened.
LEMMA StoreHttp ==
  ASSUME WrapInv, HttpInv, subject \subseteq HttpFns, NEW t \in User, StoreCall(t)
  PROVE  HttpInv'
<1> DEFINE f == Top(t)
           g == [f EXCEPT !.at = "publish"]
           e == Stored(t)
           k == (head % RingMax) + 1
<1>1. /\ within[t] # <<>> /\ f.at = "store" /\ Become(t, g)
      /\ UNCHANGED <<subject, object, given>>
      /\ \/ (f.got = NoHandle \/ (W(t).ifHttp /\ ~f.http)) /\ UNCHANGED <<ring, head>>
         \/ f.got # NoHandle /\ ring' = [ring EXCEPT ![k] = e] /\ head' = head + 1
  BY DEF StoreCall, StoreEntry, At
<1>2. f \in Calls /\ W(t) = g_Hooks[f.fn] /\ IsOfHandle(W(t)) /\ Fits(f, subject) /\ f = Newest(within[t])
  BY <1>1, HttpCall
<1>3. /\ Owns(f, object) /\ Works(f, object) /\ HttpRings(object, given, ring, head) /\ HandleTyped /\ RingTyped
      /\ HttpCalls(within, object, given, ring, head) /\ WithinTyped
  BY <1>1, HttpFacts DEF WrapInv, WrapTyped
<1>4. e \in Entries /\ e.handle = f.got /\ head \in Nat /\ k \in 1..RingMax
  BY <1>2, <1>3, StoredTyped, RingIndex DEF RingTyped
<1>5. (f.got # NoHandle /\ OnceOf(object[f.got].over, given)) => Tells(e.host, e.secure, object[f.got], head)
  BY <1>1, StoredTells
<1> HIDE DEF e
<1>6. Alters(f, g, f.arg, "publish", f.kept, f.ok, f.got, f.entry, f.report)
  <2>1. "publish" \in Spots
    BY DEF Spots
  <2> HIDE DEF f
  <2> QED
    BY <1>2, <2>1, SpotSet, Zenon
<1> HIDE DEF g
<1>7. Owns(g, object) /\ Works(g, object) /\ g \in Calls /\ g.got = f.got
  BY <1>3, <1>6, OwnsStill DEF Alters
<1>8. Looked(g, object, given, head) /\ Reported(g, object, given, head)
  BY <1>6 DEF Looked, Reported, Alters
<1>9. CASE (f.got = NoHandle \/ (W(t).ifHttp /\ ~f.http)) /\ UNCHANGED <<ring, head>>
  <2>1. f.got # NoHandle => object[f.got].is = "ftp"
    BY <1>2, <1>3, <1>9 DEF Owns, IsOfHandle
  <2>2. Remembers(g, object, ring, head)
    BY <1>7, <2>1 DEF Remembers
  <2> QED
    BY <1>1, <1>7, <1>8, <1>9, <2>2, HttpLocal DEF HttpFits
<1>10. CASE f.got # NoHandle /\ ring' = [ring EXCEPT ![k] = e] /\ head' = head + 1
  <2>1. /\ f.got \in Handle /\ object[f.got] # NoObject /\ given[f.got] >= 1
    BY <1>3, <1>10 DEF Owns, HttpRings
  <2>2. ring'[k] = e /\ \A i \in 1..RingMax : i # k => ring'[i] = ring[i]
    BY <1>3, <1>4, <1>10 DEF RingTyped
  <2>3. head' \in Nat /\ head' >= head /\ head' = head + 1
    BY <1>4, <1>10
  <2>4. \A h \in Handle : Kept(h, ring, head) => Kept(h, ring', head')
    <3>1. ring \in [1..RingMax -> Entries] /\ \A i \in 1..RingMax : i > head => ring[i] = NoEntry
      BY <1>3 DEF RingTyped, HttpRings
    <3> QED
      BY <1>4, <1>10, <3>1, KeptAfter
  <2>5. HttpRings(object, given, ring', head')
    <3>1. \A i \in 1..RingMax : /\ ring'[i].handle \in Handle \cup {NoHandle}
                                /\ (ring'[i].handle # NoHandle => given[ring'[i].handle] >= 1)
      BY <1>3, <1>4, <2>1, <2>2 DEF HttpRings
    <3>2. ASSUME NEW i \in 1..RingMax, i > head' PROVE ring'[i] = NoEntry
      <4>1. i # k /\ i > head
        BY <1>4, <2>3, <3>2, FreeAfter
      <4> QED
        BY <1>3, <2>2, <4>1 DEF HttpRings
    <3>3. ASSUME NEW i \in 1..RingMax, NEW h \in Handle, ring'[i].handle = h, object[h] # NoObject,
                 OnceOf(h, given), OnceOf(object[h].over, given)
          PROVE  Tells(ring'[i].host, ring'[i].secure, object[h], head')
      <4>1. CASE i = k
        <5>1. h = f.got
          BY <1>4, <2>2, <3>3, <4>1
        <5>2. Tells(e.host, e.secure, object[h], head)
          BY <1>5, <1>10, <3>3, <5>1
        <5> QED
          BY <1>4, <2>2, <2>3, <4>1, <5>2, TellsAfter
      <4>2. CASE i # k
        <5>1. Tells(ring[i].host, ring[i].secure, object[h], head)
          BY <1>3, <2>2, <3>3, <4>2 DEF HttpRings
        <5> QED
          BY <1>4, <2>2, <2>3, <4>2, <5>1, TellsAfter
      <4> QED
        BY <4>1, <4>2
    <3> QED
      BY <1>3, <2>4, <3>1, <3>2, <3>3 DEF HttpRings
  <2>6. Remembers(g, object, ring', head')
    <3>1. ring'[k].handle = f.got
      BY <1>4, <2>2
    <3> QED
      BY <1>4, <1>7, <3>1 DEF Remembers, Kept
  <2>7. HttpFits(g, object, given, ring', head')
    <3>1. Looked(g, object, given, head') /\ Reported(g, object, given, head')
      BY <1>6 DEF Looked, Reported, Alters
    <3> QED
      BY <1>7, <2>6, <3>1 DEF HttpFits
  <2>8. Within(t, g)
    BY <1>1, <1>3, <1>7, CallBecomes
  <2>9. Newest(within'[t]) = g /\ \A u \in User : u # t => within'[u] = within[u]
    BY <2>8 DEF Within, Newest
  <2>10. \A u \in User : (u # t /\ within[u] # <<>>) => Newest(within[u]).got # g.got
    BY <1>1, <1>2, <1>3, <1>7, <1>10 DEF HttpCalls
  <2>11. ASSUME NEW u \in User
         PROVE  Around(Newest(within[u]), object, object, given, given, ring, ring', head, head')
    <3>1. given \in [Handle -> Nat] /\ \A x \in Handle : given[x] >= given[x]
      BY <1>3 DEF HandleTyped
    <3> QED
      BY <1>4, <2>3, <2>4, <3>1 DEF Around
  <2>12. object \in [Handle -> Objects]
    BY <1>3 DEF HandleTyped
  <2>13. HttpCalls(within', object, given, ring', head')
    BY <1>3, <2>7, <2>9, <2>10, <2>11, <2>12, HttpMoves
  <2> QED
    BY <1>1, <2>5, <2>13 DEF HttpInv
<1> QED
  BY <1>1, <1>9, <1>10

\* The system gives a handle out that stood for nothing.
LEMMA GivenHttp ==
  ASSUME WrapInv, HttpInv, subject \subseteq HttpFns, NEW t \in User, within[t] # <<>>, Top(t).at = "original",
         W(t).role \in {"connect", "open"}, UNCHANGED <<subject, ring, head>>, NEW h, NEW g,
         Gives(t, g, h), Alters(Top(t), g, Top(t).arg, Answered(W(t)), Top(t).kept, TRUE, h, Top(t).entry, Top(t).report)
  PROVE  HttpInv'
<1> DEFINE f == Top(t)
           new == Opened(f, W(t))
<1>1. /\ h \in Handle /\ object[h] = NoObject /\ Become(t, g)
      /\ given' = [given EXCEPT ![h] = @ + 1] /\ object' = [object EXCEPT ![h] = new]
  BY DEF Gives
<1>2. f \in Calls /\ W(t) = g_Hooks[f.fn] /\ IsOfHandle(W(t)) /\ f = Newest(within[t])
  BY HttpCall
<1>3. /\ Owns(f, object) /\ Works(f, object) /\ HttpRings(object, given, ring, head) /\ HandleTyped /\ RingTyped
      /\ HttpCalls(within, object, given, ring, head) /\ WithinTyped
  BY HttpFacts DEF WrapInv, WrapTyped
<1>4. /\ object' [h] = new /\ \A x \in Handle : x # h => object'[x] = object[x]
      /\ given'[h] = given[h] + 1 /\ \A x \in Handle : x # h => given'[x] = given[x]
      /\ given \in [Handle -> Nat] /\ given' \in [Handle -> Nat]
      /\ object \in [Handle -> Objects]
  BY <1>1, <1>3 DEF HandleTyped
<1>5. \A x \in Handle : given'[x] >= given[x]
  BY <1>1, <1>4
<1>6. W(t).role = "open" => f.on \in Handle /\ f.on # h
  BY <1>1, <1>2, <1>3 DEF Works, Uses, NoObject
<1>7. W(t).role = "connect" => /\ new.is \in {"connect", "ftp"} /\ (~f.http => new.is = "ftp") /\ new.host = f.arg
                               /\ new.secure = f.secure /\ new.over = NoHandle /\ ~new.usable
  BY DEF Opened
<1>8. W(t).role = "open" => /\ new.is = "request" /\ new.host = object[f.on].host /\ new.over = f.on /\ ~new.usable
                            /\ (new.secure <=> (f.secure \/ object[f.on].secure))
  <2> DEFINE secure == f.secure \/ object[f.on].secure
  <2>1. W(t).role = "open" => new = [is |-> "request", host |-> object[f.on].host, secure |-> secure, over |-> f.on,
                                     usable |-> FALSE]
    BY DEF Opened
  <2> HIDE DEF new, secure
  <2>2. W(t).role = "open" => /\ new.is = "request" /\ new.host = object[f.on].host /\ new.over = f.on /\ ~new.usable
                              /\ new.secure = secure
    BY <2>1
  <2> QED
    BY <2>2 DEF secure
<1>9. ~new.usable /\ new # NoObject /\ (new.is = "connect" => new.over = NoHandle)
  BY <1>7, <1>8 DEF NoObject
<1> HIDE DEF new, f
<1>10. HttpRings(object', given', ring, head)
  <2>1. \A x \in Handle : object'[x] # NoObject => given'[x] >= 1
    BY <1>3, <1>4 DEF HttpRings
  <2>2. \A i \in 1..RingMax : /\ ring[i].handle \in Handle \cup {NoHandle}
                              /\ (ring[i].handle # NoHandle => given'[ring[i].handle] >= 1)
    BY <1>1, <1>3, <1>4 DEF HttpRings
  <2>3. \A x \in Handle : object'[x].is = "connect" => object'[x].over = NoHandle
    BY <1>3, <1>4, <1>9 DEF HttpRings
  <2>4. \A x \in Handle : (object'[x].usable /\ object'[x].is # "ftp") => Kept(x, ring, head)
    BY <1>3, <1>4, <1>9 DEF HttpRings
  <2>5. ASSUME NEW i \in 1..RingMax, NEW x \in Handle, ring[i].handle = x, object'[x] # NoObject,
               OnceOf(x, given'), OnceOf(object'[x].over, given')
        PROVE  Tells(ring[i].host, ring[i].secure, object'[x], head)
    <3>1. x # h
      <4> SUFFICES ASSUME x = h PROVE FALSE
        OBVIOUS
      <4>1. h # NoHandle /\ given[h] >= 1
        BY <1>1, <1>3, <2>5, HandlesAreNumbers DEF HttpRings
      <4>2. given'[h] <= 1
        BY <2>5, <4>1 DEF OnceOf
      <4> QED
        BY <1>1, <1>4, <4>1, <4>2
    <3>2. object'[x] = object[x] /\ object[x].over \in Handle \cup {NoHandle}
      BY <1>4, <3>1 DEF Objects
    <3>3. OnceOf(x, given) /\ OnceOf(object[x].over, given)
      BY <1>4, <1>5, <2>5, <3>2, OnceBefore
    <3> QED
      BY <1>3, <2>5, <3>2, <3>3 DEF HttpRings
  <2> QED
    BY <1>3, <2>1, <2>2, <2>3, <2>4, <2>5 DEF HttpRings
<1>11. /\ g \in Calls /\ g.fn = f.fn /\ g.on = f.on /\ g.arg = f.arg /\ g.secure = f.secure /\ g.http = f.http
       /\ g.got = h /\ g.at = Answered(W(t)) /\ g.report = f.report
  BY DEF Alters, f
<1>12. g.at \in {"store", "parent"} /\ (W(t).role = "open" => g.at = "parent")
  BY <1>2, <1>11 DEF Answered, IsOfHandle
<1>13. HttpFits(g, object', given', ring, head)
  <2>1. Owns(g, object')
    <3>1. object'[h] = new /\ (W(t).role = "open" => object'[f.on] = object[f.on])
      BY <1>4, <1>6
    <3> QED
      BY <1>1, <1>2, <1>7, <1>8, <1>9, <1>11, <3>1 DEF Owns, f
  <2>2. Works(g, object')
    <3>1. Uses(W(t)) => f.on # h /\ f.on \in Handle
      BY <1>1, <1>2, <1>3 DEF Works, NoObject, f
    <3> QED
      BY <1>2, <1>3, <1>4, <1>11, <3>1 DEF Works, f
  <2>3. Looked(g, object', given', head) /\ Remembers(g, object', ring, head) /\ Reported(g, object', given', head)
    BY <1>2, <1>11, <1>12 DEF Looked, Remembers, Reported
  <2> QED
    BY <2>1, <2>2, <2>3 DEF HttpFits
<1>14. Newest(within'[t]) = g /\ \A u \in User : u # t => within'[u] = within[u]
  <2>1. Within(t, g)
    BY <1>1, <1>3, <1>11, CallBecomes
  <2> QED
    BY <2>1 DEF Within, Newest
<1>15. ASSUME NEW u \in User, within[u] # <<>>
       PROVE  /\ Newest(within[u]).got # g.got
              /\ Around(Newest(within[u]), object, object', given, given', ring, ring, head, head)
  <2> DEFINE e == Newest(within[u])
  <2>1. /\ Uses(g_Hooks[e.fn]) => e.on \in Handle /\ object[e.on].usable
        /\ e.got # NoHandle => e.got \in Handle /\ object[e.got] # NoObject
    BY <1>3, <1>15, Others
  <2>2. Uses(g_Hooks[e.fn]) => object'[e.on] = object[e.on]
    BY <1>1, <1>4, <2>1 DEF NoObject
  <2>3. e.got # h /\ (e.got # NoHandle => object'[e.got] = object[e.got])
    BY <1>1, <1>4, <2>1, HandlesAreNumbers
  <2>4. head \in Nat /\ head >= head
    BY <1>3 DEF RingTyped
  <2> QED
    BY <1>4, <1>5, <1>11, <2>2, <2>3, <2>4 DEF Around
<1>16. HttpCalls(within', object', given', ring, head)
  BY <1>3, <1>4, <1>13, <1>14, <1>15, HttpMoves
<1> QED
  BY <1>10, <1>16 DEF HttpInv

\* Opening a connection or a request, or failing to.
LEMMA OpensHttp ==
  ASSUME WrapInv, HttpInv, subject \subseteq HttpFns, NEW t \in User, OriginalOpens(t)
  PROVE  HttpInv'
<1> DEFINE f == Top(t)
           at == Answered(W(t))
<1>1. /\ within[t] # <<>> /\ f.at = "original" /\ W(t).role \in {"connect", "open"}
      /\ UNCHANGED <<subject, ring, head>>
      /\ \E g \in Calls : \/ Fails(t, g) /\ Alters(f, g, f.arg, at, f.kept, f.ok, f.got, f.entry, f.report)
                          \/ \E h \in Handle : /\ Gives(t, g, h)
                                               /\ Alters(f, g, f.arg, at, f.kept, TRUE, h, f.entry, f.report)
  BY OpensMoves
<1>2. W(t) = g_Hooks[f.fn] /\ IsOfHandle(W(t))
  BY <1>1, HttpCall
<1>3. Owns(f, object) /\ Works(f, object)
  BY <1>1, HttpFacts
<1>4. at \in {"store", "parent"} /\ (W(t).role = "open" => at = "parent")
  BY <1>1, <1>2 DEF Answered, IsOfHandle
<1>5. PICK g \in Calls : \/ Fails(t, g) /\ Alters(f, g, f.arg, at, f.kept, f.ok, f.got, f.entry, f.report)
                         \/ \E h \in Handle : /\ Gives(t, g, h)
                                              /\ Alters(f, g, f.arg, at, f.kept, TRUE, h, f.entry, f.report)
  BY <1>1
<1> HIDE DEF at
<1>6. CASE Fails(t, g) /\ Alters(f, g, f.arg, at, f.kept, f.ok, f.got, f.entry, f.report)
  <2>1. Become(t, g) /\ UNCHANGED <<object, given>>
    BY <1>6 DEF Fails
  <2>2. Owns(g, object) /\ Works(g, object)
    BY <1>3, <1>6, OwnsStill
  <2>3. /\ Looked(g, object, given, head) /\ Remembers(g, object, ring, head)
        /\ Reported(g, object, given, head)
    BY <1>2, <1>4, <1>6 DEF Looked, Remembers, Reported, Alters
  <2>4. g.got \in {f.got, NoHandle}
    BY <1>6 DEF Alters
  <2> QED
    BY <1>1, <2>1, <2>2, <2>3, <2>4, HttpLocal DEF HttpFits
<1>7. CASE \E h \in Handle : Gives(t, g, h) /\ Alters(f, g, f.arg, at, f.kept, TRUE, h, f.entry, f.report)
  BY <1>1, <1>7, GivenHttp DEF at
<1> QED
  BY <1>5, <1>6, <1>7

\* The program learns of its handle.
LEMMA LeaveHttp ==
  ASSUME WrapInv, HttpInv, subject \subseteq HttpFns, NEW t \in User, Leave(t)
  PROVE  HttpInv'
<1> DEFINE f == Top(t)
<1>1. /\ within[t] # <<>> /\ f.at = "leave" /\ within' = [within EXCEPT ![t] = SubSeq(@, 1, Len(@) - 1)]
      /\ object' = [h \in Handle |-> IF W(t).role \in {"connect", "open"} /\ h = f.got
                                     THEN [object[h] EXCEPT !.usable = TRUE] ELSE object[h]]
      /\ UNCHANGED <<subject, ring, head, given>>
  BY DEF Leave, At
<1>2. W(t) = g_Hooks[f.fn] /\ f = Newest(within[t]) /\ Len(within[t]) = 1
  BY <1>1, HttpCall
<1>3. /\ Owns(f, object) /\ Remembers(f, object, ring, head) /\ HttpRings(object, given, ring, head)
      /\ HandleTyped /\ RingTyped /\ HttpCalls(within, object, given, ring, head) /\ WithinTyped
  BY <1>1, HttpFacts DEF WrapInv, WrapTyped
<1>4. object \in [Handle -> Objects] /\ given \in [Handle -> Nat]
  BY <1>3 DEF HandleTyped
<1>5. ASSUME NEW x \in Handle
      PROVE  /\ object'[x].is = object[x].is /\ object'[x].host = object[x].host
             /\ object'[x].secure = object[x].secure /\ object'[x].over = object[x].over
             /\ x # f.got => object'[x] = object[x]
             /\ object'[x].usable => object[x].usable \/ x = f.got
             /\ object'[x] # NoObject => object[x] # NoObject
  <2>1. object[x] \in Objects
    BY <1>4
  <2>2. CASE object'[x] = object[x]
    BY <2>2
  <2>3. CASE x = f.got /\ object'[x] = [object[x] EXCEPT !.usable = TRUE]
    <3>1. object[x] # NoObject
      BY <1>3, <2>3, HandlesAreNumbers DEF Owns
    <3> QED
      BY <2>1, <2>3, <3>1 DEF Objects
  <2> QED
    BY <1>1, <2>2, <2>3
<1>6. HttpRings(object', given, ring, head)
  <2>1. \A x \in Handle : object'[x] # NoObject => given[x] >= 1
    BY <1>3, <1>5 DEF HttpRings
  <2>2. \A x \in Handle : object'[x].is = "connect" => object'[x].over = NoHandle
    BY <1>3, <1>5 DEF HttpRings
  <2>3. ASSUME NEW x \in Handle, object'[x].usable, object'[x].is # "ftp" PROVE Kept(x, ring, head)
    <3>1. CASE object[x].usable
      BY <1>3, <1>5, <2>3, <3>1 DEF HttpRings
    <3>2. CASE x = f.got
      <4>1. f.got # NoHandle /\ object[f.got].is # "ftp"
        BY <1>5, <2>3, <3>2, HandlesAreNumbers
      <4> QED
        BY <1>1, <1>3, <3>2, <4>1 DEF Remembers
    <3> QED
      BY <1>5, <2>3, <3>1, <3>2
  <2>4. ASSUME NEW i \in 1..RingMax, NEW x \in Handle, ring[i].handle = x, object'[x] # NoObject,
               OnceOf(x, given), OnceOf(object'[x].over, given)
        PROVE  Tells(ring[i].host, ring[i].secure, object'[x], head)
    <3>1. Tells(ring[i].host, ring[i].secure, object[x], head)
      BY <1>3, <1>5, <2>4 DEF HttpRings
    <3> QED
      BY <1>5, <3>1 DEF Tells
  <2> QED
    BY <1>3, <2>1, <2>2, <2>3, <2>4 DEF HttpRings
<1>7. within'[t] = <<>> /\ \A u \in User : u # t => within'[u] = within[u]
  <2>1. /\ WithinTyped' /\ Len(within'[t]) = Len(within[t]) - 1
        /\ \A u \in User : u # t => within'[u] = within[u]
    BY <1>1, <1>3, CallEnds
  <2>2. within'[t] \in Seq(Calls) /\ Len(within'[t]) = 0
    BY <1>2, <2>1 DEF WithinTyped
  <2>3. within'[t] = <<>>
    BY <2>2
  <2> QED
    BY <2>1, <2>3
<1>8. ASSUME NEW u \in User, u # t, within[u] # <<>>
      PROVE  Around(Newest(within[u]), object, object', given, given, ring, ring, head, head)
  <2> DEFINE e == Newest(within[u])
  <2>1. /\ Uses(g_Hooks[e.fn]) => e.on \in Handle /\ object[e.on].usable
        /\ e.got # NoHandle => e.got \in Handle /\ object[e.got] # NoObject
    BY <1>3, <1>8, Others
  <2>2. e.got = f.got => e.got = NoHandle
    BY <1>1, <1>2, <1>3, <1>8 DEF HttpCalls
  <2>3. f.got # NoHandle => ~object[f.got].usable
    BY <1>3 DEF Owns
  <2>4. Uses(g_Hooks[e.fn]) => object'[e.on] = object[e.on]
    <3>1. Uses(g_Hooks[e.fn]) => e.on # f.got
      BY <2>1, <2>3, HandlesAreNumbers
    <3> QED
      BY <1>5, <2>1, <3>1
  <2>5. e.got # NoHandle => object'[e.got] = object[e.got]
    BY <1>5, <2>1, <2>2
  <2>6. head \in Nat /\ head >= head /\ \A x \in Handle : given[x] >= given[x]
    BY <1>3, <1>4 DEF RingTyped
  <2> QED
    BY <1>4, <2>4, <2>5, <2>6 DEF Around
<1>9. HttpCalls(within', object', given, ring, head)
  BY <1>3, <1>4, <1>7, <1>8, HttpMoves
<1> QED
  BY <1>1, <1>6, <1>9 DEF HttpInv

\* Closing a handle, of which no ring is told.
LEMMA CloseHttp ==
  ASSUME WrapInv, HttpInv, subject \subseteq HttpFns, NEW h \in Handle, CloseHandle(h)
  PROVE  HttpInv'
<1>1. /\ object[h].usable /\ \A u \in User : within[u] # <<>> => Top(u).on # h
      /\ object' = [object EXCEPT ![h] = NoObject]
      /\ UNCHANGED <<subject, within, ring, head, given>>
  BY DEF CloseHandle
<1>2. /\ HttpRings(object, given, ring, head) /\ HttpCalls(within, object, given, ring, head)
      /\ HandleTyped /\ RingTyped
  BY DEF HttpInv, WrapInv, WrapTyped
<1>3. /\ object \in [Handle -> Objects] /\ given \in [Handle -> Nat]
      /\ object'[h] = NoObject /\ \A x \in Handle : x # h => object'[x] = object[x]
  BY <1>1, <1>2 DEF HandleTyped
<1>4. HttpRings(object', given, ring, head)
  <2>1. NoObject.is = "nothing" /\ ~NoObject.usable
    BY DEF NoObject
  <2>2. ASSUME NEW x \in Handle
        PROVE  /\ object'[x] # NoObject => given[x] >= 1
               /\ object'[x].is = "connect" => object'[x].over = NoHandle
               /\ (object'[x].usable /\ object'[x].is # "ftp") => Kept(x, ring, head)
    BY <1>2, <1>3, <2>1 DEF HttpRings
  <2>3. ASSUME NEW i \in 1..RingMax, NEW x \in Handle, ring[i].handle = x, object'[x] # NoObject,
               OnceOf(x, given), OnceOf(object'[x].over, given)
        PROVE  Tells(ring[i].host, ring[i].secure, object'[x], head)
    BY <1>2, <1>3, <2>3 DEF HttpRings
  <2> QED
    BY <1>2, <2>2, <2>3 DEF HttpRings
<1>5. ASSUME NEW u \in User, within[u] # <<>>
      PROVE  HttpFits(Newest(within[u]), object', given, ring, head)
  <2> DEFINE e == Newest(within[u])
  <2>1. /\ Uses(g_Hooks[e.fn]) => e.on \in Handle /\ object[e.on].usable
        /\ e.got # NoHandle => e.got \in Handle /\ ~object[e.got].usable
    BY <1>2, <1>5, Others
  <2>2. e.on # h
    BY <1>1, <1>5 DEF Top, Newest
  <2>3. /\ Uses(g_Hooks[e.fn]) => object'[e.on] = object[e.on]
        /\ e.got # NoHandle => object'[e.got] = object[e.got]
    BY <1>1, <1>3, <2>1, <2>2
  <2>4. head \in Nat /\ head >= head /\ \A x \in Handle : given[x] >= given[x]
    BY <1>2, <1>3 DEF RingTyped
  <2>5. Around(e, object, object', given, given, ring, ring, head, head)
    BY <1>3, <2>3, <2>4 DEF Around
  <2>6. HttpFits(e, object, given, ring, head)
    BY <1>2, <1>5 DEF HttpCalls
  <2> QED
    BY <1>3, <2>5, <2>6, FitsAfter
<1>6. HttpCalls(within, object', given, ring, head)
  BY <1>2, <1>5 DEF HttpCalls
<1> QED
  BY <1>1, <1>4, <1>6 DEF HttpInv

\* Every step keeps what the rings remember.
LEMMA NextHttp ==
  ASSUME WrapInv, HttpInv, [Next]_vars
  PROVE  HttpInv'
<1>1. CASE UNCHANGED vars
  BY <1>1 DEF vars, HttpInv
<1>2. CASE Next
  <2>1. subject' = subject
    BY <1>2 DEF Next, UserStep, UserCall, Overwrite, Enter, Original, OriginalOpens,
                ParentLookup, StoreCall, PublishModuleEvent, CallbackCalls, CallbackReturns,
                Leave, CloseHandle, Local
  <2>2. CASE subject \subseteq HttpFns
    <3>1. ASSUME NEW t \in User, UserStep(t) PROVE HttpInv'
      BY <2>2, <3>1, UserCallHttp, NotBySharing, EnterHttp, OriginalHttp, OpensHttp,
         ParentHttp, StoreHttp, PublishHttp, ReturnHttp, LeaveHttp
         DEF UserStep
    <3>2. ASSUME NEW h \in Handle, CloseHandle(h) PROVE HttpInv'
      BY <2>2, <3>2, CloseHttp
    <3> QED
      BY <1>2, <3>1, <3>2 DEF Next
  <2> QED
    BY <2>1, <2>2 DEF HttpInv
<1> QED
  BY <1>1, <1>2

\* A report that takes its name from the ring.
LEMMA HttpPromises ==
  ASSUME WrapInv, HttpInv
  PROVE  NamesItsConnection
<1> SUFFICES ASSUME NEW t \in User, within[t] # <<>>, Top(t).at = "callback",
                    g_Hooks[Top(t).fn].name \in {"request", "parent"},
                    OnceOf(Top(t).on, given), OnceOf(object[Top(t).on].over, given)
             PROVE  LET f == Top(t) IN
                    \/ f.report.host = object[f.on].host /\ (object[f.on].secure => f.report.secure)
                    \/ f.report.host = Unknown /\ head > RingMax
  BY DEF NamesItsConnection, At, Once, OnceOf
<1> DEFINE f == Top(t)
           w == g_Hooks[f.fn]
<1>1. f.fn \in subject /\ subject \in Subject
  BY Innermost DEF WrapInv, WrapTyped
<1>2. subject \subseteq HttpFns
  <2>1. Kinds
    BY <1>1, SubjectKinds
  <2>2. CASE subject \subseteq PackageFns
    BY <1>1, <2>2, PackageShape DEF IsOfPackage
  <2>3. CASE subject \subseteq DOMAIN g_Hooks \ (PackageFns \cup HttpFns)
    BY <1>1, <2>3, PlainWrappers, PlainShape DEF IsPlain
  <2> QED
    BY <2>1, <2>2, <2>3 DEF Kinds
<1>3. IsOfHandle(w) /\ Reported(f, object, given, head)
  BY <1>1, <1>2, HandleShape, HttpFacts
<1>4. Uses(w)
  BY <1>3 DEF IsOfHandle, Uses
<1>5. Tells(f.report.host, f.report.secure, object[f.on], head)
  BY <1>3, <1>4 DEF Reported
<1> QED
  BY <1>5 DEF Tells, Beyond
-----------------------------------------------------------------------------
(* The composition.                                                        *)

CallsStep == QueueStep \/ WrapperStep \/ WinsockStep \/ StopCalling

\* Only QueueStep moves the queue, its callers and its flushers.
LEMMA QueueAlone == [CallsStep]_all => [Queue!Next]_Queue!vars
BY DEF CallsStep, all, QueueStep, WrapperStep, WinsockStep, StopCalling, queueVars,
       Queue!vars, Queue!hook

\* Only WinsockStep moves the Winsock functions and their callers.
LEMMA WinsockAlone == [CallsStep]_all => [Winsock!Next]_Winsock!vars
BY DEF CallsStep, all, QueueStep, WrapperStep, WinsockStep, StopCalling, winsockVars,
       Winsock!vars, Winsock!state, Winsock!own, Winsock!tables, Winsock!thread,
       Winsock!past

\* Only WrapperStep moves the wrappers, their rings and the handles.
LEMMA WrappersAlone == [CallsStep]_all => [Next]_vars
BY DEF CallsStep, all, QueueStep, WrapperStep, WinsockStep, StopCalling

QueueInv == Queue!TypeOK /\ Booked /\ QueueOrder /\ Counting

\* The invariant of the queue is one of the composition.
LEMMA QueueInvariant == MCSpec => []QueueInv
<1>1. MCInit => QueueInv
  BY InitTypedQueue, InitQueueOrder, InitCounting DEF MCInit, QueueInv
<1>2. QueueInv /\ [CallsStep]_all => QueueInv'
  <2> SUFFICES ASSUME QueueInv, [CallsStep]_all PROVE QueueInv'
    OBVIOUS
  <2>1. [Queue!Next]_Queue!vars
    BY QueueAlone
  <2>2. Queue!TypeOK' /\ Booked'
    BY <2>1, NextTypedQueue DEF QueueInv
  <2>3. QueueOrder'
    BY <2>1, NextQueueOrder DEF QueueInv
  <2>4. HandsFree
    BY DEF QueueInv, QueueOrder
  <2>5. Counting'
    BY <2>1, <2>4, NextCounting DEF QueueInv
  <2> QED
    BY <2>2, <2>3, <2>5 DEF QueueInv
<1> QED
  BY <1>1, <1>2, PTL DEF MCSpec, CallsStep

\* However repeats, evictions, swaps, publications and shutdowns interleave, every
\* call that was recorded is counted once: in the queue, in a flusher's vector, by
\* what was published or among what was given up (controller.cpp).
THEOREM CallsCounted == MCSpec => []EveryCallCountedOnce
<1>1. QueueInv => EveryCallCountedOnce
  BY DEF QueueInv, Counting, EveryCallCountedOnce
<1> QED
  BY <1>1, QueueInvariant, PTL

\* Wherever displaced events land, the newest events of the queue are pairwise
\* different: a burst of equal calls costs one place (controller.cpp).
THEOREM BurstsStayCoalesced == MCSpec => []BurstsCoalesced
<1>1. QueueInv => BurstsCoalesced
  BY DEF QueueInv, QueueOrder, Sparse, BurstsCoalesced, Queue!BurstsCoalesced
<1> QED
  BY <1>1, QueueInvariant, PTL

\* A process that ends itself does not leave its own last event, or an older one, in
\* the queue (controller.cpp, nt.cpp).
THEOREM LastEventIsFlushed == MCSpec => []LastEventFlushed
<1>1. QueueInv => LastEventFlushed
  BY DEF QueueInv, QueueOrder, OwnTaken, Later, LastEventFlushed, Queue!LastEventFlushed
<1> QED
  BY <1>1, QueueInvariant, PTL

\* The invariant of the Winsock functions is one of the composition.
LEMMA SockInvariant == MCSpec => [](SockInv /\ Seen)
<1>1. MCInit => SockInv /\ Seen
  BY InitSock, InitSeen DEF MCInit
<1>2. (SockInv /\ Seen) /\ [CallsStep]_all => (SockInv /\ Seen)'
  <2> SUFFICES ASSUME SockInv, Seen, [CallsStep]_all PROVE SockInv' /\ Seen'
    OBVIOUS
  <2>1. [Winsock!Next]_Winsock!vars
    BY WinsockAlone
  <2> QED
    BY <2>1, NextSock, NextSeen
<1> QED
  BY <1>1, <1>2, PTL DEF MCSpec, CallsStep

\* A jump that any number of threads lift and put back, in any order, is in place when
\* none of them runs without it (CallOriginalWinsock in ws.cpp).
THEOREM JumpAlwaysComesBack == MCSpec => []JumpComesBack
<1>1. SockInv => JumpComesBack
  BY SockPromises DEF JumpComesBack
<1> QED
  BY <1>1, SockInvariant, PTL

\* The original stays callable: no copy is ever taken of BLIND's own jump; and removed
\* hooks leave the code and every import as they were (ws.cpp).
THEOREM OriginalAlwaysSurvives == MCSpec => []OriginalSurvives
<1>1. SockInv => OriginalSurvives
  BY SockPromises DEF OriginalSurvives
<1> QED
  BY <1>1, SockInvariant, PTL

\* The invariant of the wrappers is one of the composition.
LEMMA WrapInvariant == MCSpec => []WrapInv
<1>1. MCInit => WrapInv
  BY InitWrap DEF MCInit
<1>2. WrapInv /\ [CallsStep]_all => WrapInv'
  BY WrappersAlone, NextWrap
<1> QED
  BY <1>1, <1>2, PTL DEF MCSpec, CallsStep

\* A call is told once, if it should be told and not by the callback itself, and no
\* thread keeps the mark that says it is in its callback (ws.cpp, event.cpp).
THEOREM CallsToldAsDue == MCSpec => []ToldAsDue
<1>1. (SockInv /\ Seen) /\ WrapInv => ToldAsDue
  BY SockPromises, SeenIsSeen, WrapPromises DEF ToldAsDue, SockInv
<1> QED
  BY <1>1, SockInvariant, WrapInvariant, PTL

\* The queue, the wrappers and the Winsock functions are type-correct.
THEOREM CallsTyped == MCSpec => []TypesOK
<1>1. QueueInv /\ SockInv /\ WrapInv => TypesOK
  BY SockPromises, WrapPromises DEF TypesOK, QueueInv
<1> QED
  BY <1>1, QueueInvariant, SockInvariant, WrapInvariant, PTL

\* What the rings remember of handles follows from how calls go through the wrappers.
LEMMA HttpInvariant == MCSpec => []HttpInv
<1>1. MCInit => HttpInv
  BY InitHttp DEF MCInit
<1>2. WrapInv /\ HttpInv /\ [CallsStep]_all => HttpInv'
  BY WrappersAlone, NextHttp
<1> QED
  BY <1>1, <1>2, WrapInvariant, PTL DEF MCSpec, CallsStep

\* A request is reported under the name of its own connection, however stores of other
\* threads come between, unless its handle's value was given out twice or the ring is
\* overwritten; a package and a copied name under what the call was passed
\* (http_tls.cpp, jobs_lsa_sspi.cpp, credentials_crypto_amsi.cpp).
THEOREM ReportsAlwaysNameTheCall == MCSpec => []ReportsNameTheCall
<1>1. WrapInv /\ HttpInv => ReportsNameTheCall
  BY WrapPromises, HttpPromises DEF ReportsNameTheCall
<1> QED
  BY <1>1, WrapInvariant, HttpInvariant, PTL
=============================================================================
