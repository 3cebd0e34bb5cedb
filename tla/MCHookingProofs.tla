--------------------------- MODULE MCHookingProofs ---------------------------
(***************************************************************************)
(* Theorems about the hooks inside the target, for every set of threads,   *)
(* modules and functions and every bound.  First the table of indirect     *)
(* handles by itself, then the hooks on modules and those on ntdll, each   *)
(* with its inductive invariant, and last the composition, where a step of *)
(* one part is a stutter of the others.                                    *)
(***************************************************************************)
EXTENDS MCHooking, FiniteSetTheorems, SequenceTheorems, TLAPS

-----------------------------------------------------------------------------
(* The inductive invariant.                                                *)

Generation == 0..(GenSize - 1)
Entry      == [active : {TRUE}, pointer : Pointer, type : HandleType, gen : Generation]
TokenSet   == [slot : Slots, type : HandleType, gen : Generation, cookie : {Made}]
Issued     == [token : TokenSet, pointer : Pointer, live : BOOLEAN]

\* How far the counter has come since the start, and whether it has passed 0.
Age(g)  == IF g >= GenStart THEN g - GenStart ELSE g - GenStart + GenSize
Lap(g)  == IF g >= GenStart THEN 0 ELSE 1
Pending == {t \in Caller : step[t] # "idle"}

Typed ==
  /\ cookie \in {0, Made} /\ cookieState \in 0..2 /\ calls \in 0..RegisterMax
  /\ generation \in Generation
  /\ entries \in [Slots -> Entry \cup {Free}]
  /\ step \in [Caller -> {"idle", "cookie", "make", "announce", "table"}]
  /\ wish \in [Caller -> [pointer : Pointer, type : HandleType] \cup {NoWish}]
  /\ \A t \in Caller : step[t] # "idle" => wish[t] \in [pointer : Pointer, type : HandleType]
  /\ issued \subseteq Issued

\* The cookie is made before anyone gets to the table.
CookieMade ==
  /\ cookieState = 2 => cookie = Made
  /\ \A t \in Caller : step[t] \in {"announce", "table"} => cookie = Made
  /\ issued # {} => cookie = Made

\* The counter moves once for each call that was begun, skips 0 at most once, and
\* so never comes back to where it was.
Aging ==
  /\ IsFiniteSet(Pending)
  /\ Age(generation) - Lap(generation) + Cardinality(Pending) <= calls
  /\ \A i \in Slots : entries[i].active => Age(entries[i].gen) <= Age(generation)
  /\ \A h \in issued : Age(h.token.gen) <= Age(generation)

HandlesInv == Typed /\ CookieMade /\ Aging /\ TokenNamesItsPointer

-----------------------------------------------------------------------------
(* The counter.                                                            *)

\* Counting modulo the size of the counter is counting with one exception.
LEMMA Successor ==
  ASSUME NEW g \in Generation
  PROVE  (g + 1) % GenSize = IF g + 1 = GenSize THEN 0 ELSE g + 1
BY TableBounds, GenerationsSuffice DEF Generation

\* A counter that has moved less often than calls may be begun gets older when it
\* moves, by one, or by two where it skips 0.
LEMMA NextIsOlder ==
  ASSUME NEW g \in Generation, Age(g) - Lap(g) < RegisterMax
  PROVE  /\ NextGeneration(g) \in Generation
         /\ Age(NextGeneration(g)) > Age(g)
         /\ Age(NextGeneration(g)) - Lap(NextGeneration(g)) <= Age(g) - Lap(g) + 1
BY Successor, TableBounds, GenerationsSuffice DEF Generation, Age, Lap, NextGeneration

\* The same for a counter that does not skip 0.
LEMMA ResetIsOlder ==
  ASSUME NEW g \in Generation, Age(g) - Lap(g) < RegisterMax
  PROVE  /\ (g + 1) % GenSize \in Generation
         /\ Age((g + 1) % GenSize) > Age(g)
         /\ Age((g + 1) % GenSize) - Lap((g + 1) % GenSize) <= Age(g) - Lap(g) + 1
BY Successor, TableBounds, GenerationsSuffice DEF Generation, Age, Lap

-----------------------------------------------------------------------------
(* Steps outside the table.                                                *)

\* The table starts empty, with nothing issued.
LEMMA InitHandles == Init => HandlesInv
<1> SUFFICES ASSUME Init PROVE HandlesInv
  OBVIOUS
<1>1. Typed
  BY TableBounds, GenerationsSuffice DEF Init, Typed, Generation, Free, Made, NoWish
<1>2. CookieMade
  BY DEF Init, CookieMade
<1>3. Pending = {}
  BY DEF Init, Pending
<1>4. Aging
  BY <1>3, FS_EmptySet, TableBounds, GenerationsSuffice DEF Init, Aging, Age, Lap, Free
<1>5. TokenNamesItsPointer
  BY DEF Init, TokenNamesItsPointer
<1> QED
  BY <1>1, <1>2, <1>4, <1>5 DEF HandlesInv

\* A step that leaves the table, the counter and the tokens alone, and the cookie
\* once there is one, keeps what every token names.
LEMMA TableKept ==
  ASSUME HandlesInv, UNCHANGED <<entries, issued>>, issued # {} => cookie' = cookie
  PROVE  TokenNamesItsPointer'
BY DEF HandlesInv, TokenNamesItsPointer, Resolve, Matches

\* A thread that begins or ends its call changes what is pending by itself.
LEMMA PendingMoves ==
  ASSUME HandlesInv, NEW t \in Caller, NEW label, GoTo(t, label)
  PROVE  /\ IsFiniteSet(Pending')
         /\ Cardinality(Pending') =
              IF label = "idle"
              THEN IF step[t] = "idle" THEN Cardinality(Pending) ELSE Cardinality(Pending) - 1
              ELSE IF step[t] = "idle" THEN Cardinality(Pending) + 1 ELSE Cardinality(Pending)
         /\ Cardinality(Pending) \in Nat /\ Cardinality(Pending') \in Nat
<1>1. /\ step' = [step EXCEPT ![t] = label]
      /\ step \in [Caller -> {"idle", "cookie", "make", "announce", "table"}]
  BY DEF GoTo, HandlesInv, Typed
<1>2. IsFiniteSet(Pending)
  BY DEF HandlesInv, Aging
<1>3. Pending' = IF label = "idle" THEN Pending \ {t} ELSE Pending \cup {t}
  BY <1>1 DEF Pending
<1>4. t \in Pending <=> step[t] # "idle"
  BY DEF Pending
<1>5. IsFiniteSet(Pending')
  BY <1>2, <1>3, FS_AddElement, FS_RemoveElement
<1>6. Cardinality(Pending \ {t}) =
        IF t \in Pending THEN Cardinality(Pending) - 1 ELSE Cardinality(Pending)
  BY <1>2, FS_RemoveElement
<1>7. Cardinality(Pending \cup {t}) =
        IF t \in Pending THEN Cardinality(Pending) ELSE Cardinality(Pending) + 1
  BY <1>2, FS_AddElement
<1>8. Cardinality(Pending) \in Nat /\ Cardinality(Pending') \in Nat
  BY <1>2, <1>5, FS_CardinalityType
<1> QED
  BY <1>3, <1>4, <1>5, <1>6, <1>7, <1>8

\* The counter's position and its laps are numbers.
LEMMA AgeType ==
  ASSUME NEW g \in Generation
  PROVE  Age(g) \in Nat /\ Lap(g) \in {0, 1}
BY GenerationsSuffice DEF Generation, Age, Lap

\* A call begins.
LEMMA RegisterCallKeeps ==
  ASSUME HandlesInv, NEW t \in Caller, RegisterCall(t)
  PROVE  HandlesInv'
<1> USE DEF RegisterCall
<1>1. PICK p \in Pointer, k \in HandleType :
        wish' = [wish EXCEPT ![t] = [pointer |-> p, type |-> k]]
  OBVIOUS
<1>2. Typed'
  BY <1>1, TableBounds DEF HandlesInv, Typed, GoTo
<1>3. CookieMade'
  BY DEF HandlesInv, Typed, CookieMade, GoTo
<1>4. Cardinality(Pending') = Cardinality(Pending) + 1 /\ IsFiniteSet(Pending')
      /\ Cardinality(Pending) \in Nat
  BY PendingMoves
<1>5. Age(generation) \in Nat /\ Lap(generation) \in {0, 1} /\ calls \in Nat
  BY AgeType, TableBounds DEF HandlesInv, Typed
<1>6. Aging'
  BY <1>4, <1>5 DEF HandlesInv, Aging, Age, Lap
<1> QED
  BY <1>2, <1>3, <1>6, TableKept DEF HandlesInv

\* One thread claims the cookie, makes it, announces it; all go on to the table.
LEMMA CookieKeeps ==
  ASSUME HandlesInv, NEW t \in Caller, CookieClaim(t) \/ CookieMake(t) \/ CookieReady(t)
  PROVE  HandlesInv'
<1>1. PICK label \in {"make", "announce", "table"} : GoTo(t, label) /\ step[t] # "idle"
  BY DEF CookieClaim, CookieMake, CookieReady
<1>2. UNCHANGED <<entries, generation, calls, wish, issued>> /\ (cookie' = cookie \/ cookie' = Made)
  BY DEF CookieClaim, CookieMake, CookieReady
<1>3. cookieState' \in 0..2
  BY DEF CookieClaim, CookieMake, CookieReady, HandlesInv, Typed
<1>4. Typed'
  BY <1>1, <1>2, <1>3 DEF HandlesInv, Typed, GoTo
<1>5. CookieMade'
  BY <1>1, <1>2 DEF HandlesInv, Typed, CookieMade, GoTo, CookieClaim, CookieMake, CookieReady, Made
<1>6. Cardinality(Pending') = Cardinality(Pending) /\ IsFiniteSet(Pending')
  BY <1>1, PendingMoves
<1>7. Aging'
  BY <1>2, <1>6 DEF HandlesInv, Aging, Age, Lap
<1>8. issued # {} => cookie' = cookie
  BY <1>2 DEF HandlesInv, CookieMade
<1> QED
  BY <1>2, <1>4, <1>5, <1>7, <1>8, TableKept DEF HandlesInv

-----------------------------------------------------------------------------
(* Register.                                                               *)

\* A registered pointer is given the token of its slot again.
LEMMA RegisterAgainKeeps ==
  ASSUME HandlesInv, NEW t \in Caller, RegisterAgain(t)
  PROVE  HandlesInv'
<1>1. PICK i \in Known(wish[t]) :
        issued' = issued \cup
                    {Handed(Token(i, wish[t].type, entries[i].gen, cookie), wish[t].pointer)}
  BY DEF RegisterAgain, Lowest
<1> DEFINE token == Token(i, wish[t].type, entries[i].gen, cookie)
<1>2. /\ step[t] = "table" /\ GoTo(t, "idle")
      /\ issued' = issued \cup {Handed(token, wish[t].pointer)}
      /\ UNCHANGED <<cookie, cookieState, entries, generation, calls, wish>>
  BY <1>1 DEF RegisterAgain
<1>3. /\ i \in Slots /\ entries[i] \in Entry /\ cookie = Made
      /\ entries[i].type = wish[t].type /\ entries[i].pointer = wish[t].pointer
      /\ wish[t] \in [pointer : Pointer, type : HandleType]
  BY <1>1, <1>2 DEF Known, HandlesInv, Typed, CookieMade, Free
<1>4. Handed(token, wish[t].pointer) \in Issued
  BY <1>3 DEF Handed, Token, Issued, TokenSet, Entry
<1>5. Typed'
  BY <1>2, <1>4 DEF HandlesInv, Typed, GoTo
<1>6. CookieMade'
  BY <1>2, <1>3 DEF HandlesInv, Typed, CookieMade, GoTo
<1>7. Aging'
  <2>1. Cardinality(Pending') = Cardinality(Pending) - 1 /\ IsFiniteSet(Pending')
        /\ Cardinality(Pending) \in Nat
    BY <1>2, PendingMoves
  <2>2. Age(generation) \in Nat /\ Lap(generation) \in {0, 1} /\ calls \in Nat
    BY AgeType, TableBounds DEF HandlesInv, Typed
  <2>3. Age(entries[i].gen) <= Age(generation)
    BY <1>3 DEF HandlesInv, Aging, Entry
  <2>4. \A h \in issued' : Age(h.token.gen) <= Age(generation)
    BY <1>2, <2>3 DEF HandlesInv, Aging, Handed, Token
  <2> QED
    BY <1>2, <2>1, <2>2, <2>4 DEF HandlesInv, Aging, Age, Lap
<1>8. Resolve(token) = {wish[t].pointer}
  BY <1>3 DEF Resolve, Matches, Token, Entry
<1>9. TokenNamesItsPointer'
  <2> SUFFICES ASSUME NEW h \in issued'
               PROVE  Resolve(h.token)' = IF h.live THEN {h.pointer} ELSE {}
    BY DEF TokenNamesItsPointer
  <2>1. Resolve(h.token)' = Resolve(h.token)
    BY <1>2 DEF Resolve, Matches
  <2>2. CASE h \in issued
    BY <2>1, <2>2 DEF HandlesInv, TokenNamesItsPointer
  <2>3. CASE h = Handed(token, wish[t].pointer)
    <3>1. h.token = token /\ h.pointer = wish[t].pointer /\ h.live = TRUE
      BY <2>3 DEF Handed
    <3> QED
      BY <2>1, <1>8, <3>1
  <2> QED
    BY <1>2, <2>2, <2>3
<1> QED
  BY <1>5, <1>6, <1>7, <1>9 DEF HandlesInv

\* With the table full, a call ends with nothing.
LEMMA RegisterFullKeeps ==
  ASSUME HandlesInv, NEW t \in Caller, RegisterFull(t)
  PROVE  HandlesInv'
<1>1. /\ step[t] = "table" /\ GoTo(t, "idle")
      /\ UNCHANGED <<cookie, cookieState, entries, generation, calls, wish, issued>>
  BY DEF RegisterFull
<1>2. Typed' /\ CookieMade'
  BY <1>1 DEF HandlesInv, Typed, CookieMade, GoTo
<1>3. Cardinality(Pending') = Cardinality(Pending) - 1 /\ IsFiniteSet(Pending')
      /\ Cardinality(Pending) \in Nat
  BY <1>1, PendingMoves
<1>4. Age(generation) \in Nat /\ Lap(generation) \in {0, 1} /\ calls \in Nat
  BY AgeType, TableBounds DEF HandlesInv, Typed
<1>5. Aging'
  BY <1>1, <1>3, <1>4 DEF HandlesInv, Aging, Age, Lap
<1> QED
  BY <1>1, <1>2, <1>5, TableKept DEF HandlesInv

\* A pointer that is new gets an empty slot and a generation no token has had: the
\* tokens of whatever was in the slot before do not match it.
LEMMA RegisterNewKeeps ==
  ASSUME HandlesInv, NEW t \in Caller, RegisterNew(t)
  PROVE  HandlesInv'
<1> DEFINE g == NextGeneration(generation)
<1>1. PICK i \in Empty :
        /\ entries' = [entries EXCEPT ![i] =
                         [active |-> TRUE, pointer |-> wish[t].pointer, type |-> wish[t].type,
                          gen |-> g]]
        /\ issued' = issued \cup {Handed(Token(i, wish[t].type, g, cookie), wish[t].pointer)}
  BY DEF RegisterNew, Lowest
<1> DEFINE entry == [active |-> TRUE, pointer |-> wish[t].pointer, type |-> wish[t].type, gen |-> g]
           token == Token(i, wish[t].type, g, cookie)
<1>2. /\ step[t] = "table" /\ GoTo(t, "idle") /\ generation' = g
      /\ entries' = [entries EXCEPT ![i] = entry]
      /\ issued' = issued \cup {Handed(token, wish[t].pointer)}
      /\ UNCHANGED <<cookie, cookieState, calls, wish>>
  BY <1>1 DEF RegisterNew
<1>3. /\ Cardinality(Pending') = Cardinality(Pending) - 1 /\ IsFiniteSet(Pending')
         /\ Cardinality(Pending) \in Nat /\ Cardinality(Pending') \in Nat
  BY <1>2, PendingMoves
<1>4. /\ Age(generation) \in Nat /\ Lap(generation) \in {0, 1}
      /\ calls \in 0..RegisterMax /\ generation \in Generation
  BY AgeType DEF HandlesInv, Typed
<1>5. Age(generation) - Lap(generation) < RegisterMax
  BY <1>3, <1>4, TableBounds DEF HandlesInv, Aging
<1>6. /\ g \in Generation /\ Age(g) > Age(generation)
      /\ Age(g) - Lap(g) <= Age(generation) - Lap(generation) + 1
  BY <1>4, <1>5, NextIsOlder
<1> HIDE DEF g
<1>7. /\ i \in Slots /\ ~entries[i].active /\ cookie = Made
      /\ wish[t] \in [pointer : Pointer, type : HandleType]
  BY <1>1, <1>2 DEF Empty, HandlesInv, Typed, CookieMade
<1>8. Handed(token, wish[t].pointer) \in Issued /\ entry \in Entry
  BY <1>6, <1>7 DEF Handed, Token, Issued, TokenSet, Entry
<1>9. Typed'
  BY <1>2, <1>6, <1>7, <1>8 DEF HandlesInv, Typed, GoTo
<1>10. CookieMade'
  BY <1>2, <1>7 DEF HandlesInv, Typed, CookieMade, GoTo
<1>11. Aging'
  <2>1. Age(g) \in Nat /\ Lap(g) \in {0, 1}
    BY <1>6, AgeType
  <2>2. Age(g) - Lap(g) + Cardinality(Pending') <= calls
    BY <1>3, <1>4, <1>6, <2>1, TableBounds DEF HandlesInv, Aging
  <2>3. \A h \in issued : Age(h.token.gen) <= Age(g)
    <3> SUFFICES ASSUME NEW h \in issued PROVE Age(h.token.gen) <= Age(g)
      OBVIOUS
    <3>1. h.token.gen \in Generation
      BY DEF HandlesInv, Typed, Issued, TokenSet
    <3>2. Age(h.token.gen) \in Nat /\ Age(h.token.gen) <= Age(generation)
      BY <3>1, AgeType DEF HandlesInv, Aging
    <3> QED
      BY <1>4, <1>6, <2>1, <3>2
  <2>4. \A j \in Slots : entries[j].active => Age(entries[j].gen) <= Age(g)
    <3> SUFFICES ASSUME NEW j \in Slots, entries[j].active PROVE Age(entries[j].gen) <= Age(g)
      OBVIOUS
    <3>0. entries[j] \in Entry \cup {Free}
      BY DEF HandlesInv, Typed
    <3>1. entries[j].gen \in Generation
      <4>1. entries[j] # Free
        BY DEF Free
      <4> QED
        BY <3>0, <4>1 DEF Entry
    <3>2. Age(entries[j].gen) \in Nat /\ Age(entries[j].gen) <= Age(generation)
      BY <3>1, AgeType DEF HandlesInv, Aging
    <3> QED
      BY <1>4, <1>6, <2>1, <3>2
  <2>5. \A h \in issued' : Age(h.token.gen) <= Age(g)
    BY <1>2, <2>1, <2>3 DEF Handed, Token
  <2>6. \A j \in Slots : entries'[j].active => Age(entries'[j].gen) <= Age(g)
    BY <1>2, <2>1, <2>4 DEF HandlesInv, Typed
  <2> QED
    BY <1>2, <1>3, <2>2, <2>5, <2>6 DEF Aging, Age, Lap
<1>12. TokenNamesItsPointer'
  <2> SUFFICES ASSUME NEW h \in issued'
               PROVE  Resolve(h.token)' = IF h.live THEN {h.pointer} ELSE {}
    BY DEF TokenNamesItsPointer
  <2>1. entries'[i] = entry /\ \A j \in Slots \ {i} : entries'[j] = entries[j]
    BY <1>2, <1>7 DEF HandlesInv, Typed
  <2>2. CASE h = Handed(token, wish[t].pointer)
    BY <1>2, <1>7, <2>1, <2>2 DEF Handed, Token, Resolve, Matches
  <2>3. CASE h \in issued
    <3>1. h.token \in TokenSet /\ Resolve(h.token) = IF h.live THEN {h.pointer} ELSE {}
      BY <2>3 DEF HandlesInv, Typed, Issued, TokenNamesItsPointer
    <3>2. h.token.gen # g
      <4>1. Age(h.token.gen) <= Age(generation) /\ Age(h.token.gen) \in Nat
        BY <2>3, <3>1, AgeType DEF HandlesInv, Aging, TokenSet
      <4> QED
        BY <1>4, <1>6, <4>1, AgeType
    <3>3. CASE h.token.slot = i
      <4>1. Resolve(h.token) = {}
        BY <1>7, <3>3 DEF Resolve, Matches
      <4>2. Resolve(h.token)' = {}
        BY <1>2, <2>1, <3>2, <3>3 DEF Resolve, Matches
      <4> QED
        BY <3>1, <4>1, <4>2
    <3>4. CASE h.token.slot # i
      BY <1>2, <2>1, <3>1, <3>4 DEF Resolve, Matches, TokenSet
    <3> QED
      BY <3>3, <3>4
  <2> QED
    BY <1>2, <2>2, <2>3
<1> QED
  BY <1>9, <1>10, <1>11, <1>12 DEF HandlesInv

-----------------------------------------------------------------------------
(* Release and Reset.                                                      *)

\* Only the token that its slot answers to frees the slot, and then no other live
\* token is of that slot: it would have to be the same token.
LEMMA ReleaseKeeps ==
  ASSUME HandlesInv, Release
  PROVE  HandlesInv'
<1>1. PICK r \in issued :
        /\ entries' = IF Dead(r.token) THEN [entries EXCEPT ![r.token.slot] = Free] ELSE entries
        /\ issued' = {[g EXCEPT !.live = @ /\ g.token # r.token] : g \in issued}
        /\ UNCHANGED <<cookie, cookieState, generation, calls, step, wish>>
  BY DEF Release
<1>2. \A h \in issued : h \in Issued
  BY DEF HandlesInv, Typed
<1>3. entries' \in [Slots -> Entry \cup {Free}]
  BY <1>1 DEF HandlesInv, Typed
<1>4. \A h \in issued' : \E g \in issued : /\ h = [g EXCEPT !.live = @ /\ g.token # r.token]
                                           /\ h.token = g.token /\ h.pointer = g.pointer
                                           /\ h.live = (g.live /\ g.token # r.token)
                                           /\ h \in Issued
  BY <1>1, <1>2 DEF Issued
<1>5. issued' \subseteq Issued
  BY <1>4
<1>6. Typed'
  BY <1>1, <1>3, <1>5 DEF HandlesInv, Typed
<1>7. CookieMade'
  BY <1>1 DEF HandlesInv, CookieMade
<1>8. \A j \in Slots : entries'[j] = entries[j] \/ entries'[j] = Free
  BY <1>1 DEF HandlesInv, Typed
<1>9. Aging'
  <2>1. \A h \in issued' : Age(h.token.gen) <= Age(generation)
    BY <1>4 DEF HandlesInv, Aging
  <2>2. \A j \in Slots : entries'[j].active => Age(entries'[j].gen) <= Age(generation)
    BY <1>8 DEF HandlesInv, Aging, Free
  <2>3. UNCHANGED <<generation, calls, Pending>>
    BY <1>1 DEF Pending
  <2> QED
    BY <2>1, <2>2, <2>3 DEF HandlesInv, Aging, Age, Lap
<1>10. TokenNamesItsPointer'
  <2> SUFFICES ASSUME NEW h \in issued'
               PROVE  Resolve(h.token)' = IF h.live THEN {h.pointer} ELSE {}
    BY DEF TokenNamesItsPointer
  <2>1. PICK g \in issued : /\ h.token = g.token /\ h.pointer = g.pointer
                            /\ h.live = (g.live /\ g.token # r.token)
    BY <1>4
  <2>2. /\ Resolve(g.token) = IF g.live THEN {g.pointer} ELSE {}
        /\ g.token \in TokenSet /\ r.token \in TokenSet
    BY <1>2 DEF HandlesInv, TokenNamesItsPointer, Issued
  <2>3. CASE g.token = r.token
    <3>1. h.live = FALSE
      BY <2>1, <2>3
    <3>2. ~Matches(h.token)'
      <4>1. CASE Dead(r.token)
        <5>1. entries'[r.token.slot] = Free
          BY <1>1, <2>2, <4>1 DEF HandlesInv, Typed, TokenSet
        <5> QED
          BY <2>1, <2>3, <5>1 DEF Matches, Free
      <4>2. CASE ~Dead(r.token)
        BY <1>1, <2>1, <2>3, <4>2 DEF Matches, Dead
      <4> QED
        BY <4>1, <4>2
    <3> QED
      BY <3>1, <3>2 DEF Resolve
  <2>4. CASE g.token # r.token
    <3>1. Resolve(g.token)' = Resolve(g.token)
      <4>1. CASE ~Dead(r.token)
        BY <1>1, <4>1 DEF Resolve, Matches
      <4>2. CASE Dead(r.token) /\ g.token.slot = r.token.slot
        <5>1. ~Matches(g.token)
          BY <2>2, <2>4, <4>2 DEF Dead, Matches, TokenSet
        <5>2. entries'[g.token.slot] = Free
          BY <1>1, <2>2, <4>2 DEF HandlesInv, Typed, TokenSet
        <5>3. ~Matches(g.token)'
          BY <5>2 DEF Matches, Free
        <5> QED
          BY <5>1, <5>3 DEF Resolve
      <4>3. CASE Dead(r.token) /\ g.token.slot # r.token.slot
        <5>1. entries'[g.token.slot] = entries[g.token.slot]
          BY <1>1, <2>2, <4>3 DEF HandlesInv, Typed, TokenSet
        <5> QED
          BY <1>1, <5>1 DEF Resolve, Matches
      <4> QED
        BY <4>1, <4>2, <4>3
    <3> QED
      BY <2>1, <2>2, <2>4, <3>1
  <2> QED
    BY <2>3, <2>4
<1> QED
  BY <1>6, <1>7, <1>9, <1>10 DEF HandlesInv

\* A reset empties the table and takes every token back; the counter moves on, so
\* that none of them can come back.
LEMMA ResetKeeps ==
  ASSUME HandlesInv, Reset
  PROVE  HandlesInv'
<1> DEFINE g == (generation + 1) % GenSize
<1>1. /\ entries' = [i \in Slots |-> Free] /\ generation' = g /\ calls' = calls + 1
      /\ issued' = {[h EXCEPT !.live = FALSE] : h \in issued}
      /\ UNCHANGED <<cookie, cookieState, step, wish>> /\ calls < RegisterMax
  BY DEF Reset
<1>2. /\ Age(generation) \in Nat /\ Lap(generation) \in {0, 1}
      /\ calls \in 0..RegisterMax /\ generation \in Generation
  BY AgeType DEF HandlesInv, Typed
<1>3. UNCHANGED Pending /\ IsFiniteSet(Pending) /\ Cardinality(Pending) \in Nat
  BY <1>1, FS_CardinalityType DEF HandlesInv, Aging, Pending
<1>4. Age(generation) - Lap(generation) + Cardinality(Pending) <= calls
  BY DEF HandlesInv, Aging
<1>5. Age(generation) - Lap(generation) < RegisterMax
  BY <1>1, <1>2, <1>3, <1>4, TableBounds
<1>6. /\ g \in Generation /\ Age(g) > Age(generation)
      /\ Age(g) - Lap(g) <= Age(generation) - Lap(generation) + 1
  BY <1>2, <1>5, ResetIsOlder
<1>7. Age(g) \in Nat /\ Lap(g) \in {0, 1}
  BY <1>6, AgeType
<1> HIDE DEF g
<1>8. \A h \in issued' : \E k \in issued : h.token = k.token /\ h.live = FALSE /\ h \in Issued
  BY <1>1 DEF HandlesInv, Typed, Issued
<1>9. Typed'
  <2>1. issued' \subseteq Issued
    BY <1>8
  <2>2. entries' \in [Slots -> Entry \cup {Free}]
    BY <1>1
  <2> QED
    BY <1>1, <1>2, <1>6, <2>1, <2>2, TableBounds DEF HandlesInv, Typed
<1>10. CookieMade'
  BY <1>1 DEF HandlesInv, CookieMade
<1>11. Aging'
  <2>1. Age(g) - Lap(g) + Cardinality(Pending) <= calls + 1
    BY <1>2, <1>3, <1>4, <1>6, <1>7
  <2>2. \A h \in issued' : Age(h.token.gen) <= Age(g)
    <3> SUFFICES ASSUME NEW h \in issued' PROVE Age(h.token.gen) <= Age(g)
      OBVIOUS
    <3>1. PICK k \in issued : h.token = k.token /\ h \in Issued
      BY <1>8
    <3>2. Age(h.token.gen) <= Age(generation)
      BY <3>1 DEF HandlesInv, Aging
    <3>3. Age(h.token.gen) \in Nat
      BY <3>1, AgeType DEF Issued, TokenSet
    <3> QED
      BY <1>2, <1>6, <1>7, <3>2, <3>3
  <2>3. \A j \in Slots : ~entries'[j].active
    BY <1>1 DEF Free
  <2> QED
    BY <1>1, <1>3, <2>1, <2>2, <2>3 DEF Aging, Age, Lap
<1>12. TokenNamesItsPointer'
  <2> SUFFICES ASSUME NEW h \in issued' PROVE ~h.live /\ ~Matches(h.token)'
    BY DEF TokenNamesItsPointer, Resolve
  <2>1. ~h.live /\ h.token \in TokenSet
    BY <1>8 DEF Issued
  <2>2. entries'[h.token.slot] = Free
    BY <1>1, <2>1 DEF TokenSet
  <2> QED
    BY <2>1, <2>2 DEF Matches, Free
<1> QED
  BY <1>9, <1>10, <1>11, <1>12 DEF HandlesInv

-----------------------------------------------------------------------------
(* The theorems.                                                           *)

\* Every step keeps the invariant.
LEMMA NextKeeps == HandlesInv /\ [Next]_vars => HandlesInv'
<1> SUFFICES ASSUME HandlesInv, [Next]_vars PROVE HandlesInv'
  OBVIOUS
<1>1. ASSUME NEW t \in Caller, RegisterStep(t) PROVE HandlesInv'
  BY <1>1, RegisterCallKeeps, CookieKeeps, RegisterAgainKeeps, RegisterNewKeeps, RegisterFullKeeps
     DEF RegisterStep
<1>2. CASE UNCHANGED vars
  <2>1. /\ UNCHANGED <<cookie, cookieState, entries, generation, calls, step, wish, issued>>
        /\ UNCHANGED Pending
    BY <1>2 DEF vars, Pending
  <2>2. Typed' /\ CookieMade'
    BY <2>1 DEF HandlesInv, Typed, CookieMade
  <2>3. Aging'
    BY <2>1 DEF HandlesInv, Aging, Age, Lap
  <2> QED
    BY <2>1, <2>2, <2>3, TableKept DEF HandlesInv
<1> QED
  BY <1>1, <1>2, ReleaseKeeps, ResetKeeps DEF Next

\* In every run a token names what it was issued for until it is released or the
\* table is reset, and nothing ever after, as long as fewer calls are made than
\* the generation counter has values (RegisterIndirectHandle, runtime.cpp).
THEOREM TokensKeepTheirPointer == Spec => []TokenNamesItsPointer
<1>1. HandlesInv => TokenNamesItsPointer
  BY DEF HandlesInv
<1> QED
  BY <1>1, InitHandles, NextKeeps, PTL DEF Spec

\* In every run a thread that has got to the table has a cookie to encode its
\* token with, however many came first at once (IndirectHandleCookie, runtime.cpp).
THEOREM CookieBeforeTokens == Spec => []CookieMade
<1>1. HandlesInv => CookieMade
  BY DEF HandlesInv
<1> QED
  BY <1>1, InitHandles, NextKeeps, PTL DEF Spec

-----------------------------------------------------------------------------
(* The hooks on ntdll: what every step of the event loop, of the thread that *)
(* detaches and of the program keeps.                                        *)

SlotRecord == [active : 0..2, target : Native!Fn \cup {"none"}, entry : BOOLEAN]
CallPlaces == {"out", "trap", "wrapper", "failed", "crashed"}

PatchTypes ==
  /\ kind \in [Native!Fn -> PatchKinds] /\ denies \in BOOLEAN /\ listening \in BOOLEAN
  /\ ready \in BOOLEAN /\ refused \in BOOLEAN /\ unlucky \in BOOLEAN
  /\ text \in [Native!Fn -> {"own", "torn", "jump", "break"}]
  /\ stub \in [Native!Fn -> BOOLEAN] /\ fitted \in [Native!Fn -> BOOLEAN]
  /\ turns \in 0..TurnMax /\ made \in 0..NativeCallMax
SlotTypes   == slots \in [Native!Slot -> SlotRecord]
CallerTypes == caller \in [Thread -> [at : CallPlaces, fn : Native!Fn]]

\* Where the two threads can be, and what they have not come to.
WalkTypes ==
  /\ DOMAIN pos = Native!Installer
  /\ pos["loop"] \in {"idle", "each", "fill", "protect", "written"}
  /\ pos["detach"] \in {"idle", "remove", "slot", "clear"}
  /\ rest \in [Native!Installer -> Seq(Native!Fn)]
  /\ pos["loop"] \in {"fill", "protect", "written"} => rest["loop"] # <<>>
     /\ ~fitted[Native!F("loop")]
  /\ pos["detach"] \in {"slot", "clear"} => rest["detach"] # <<>> /\ fitted[Native!F("detach")]

\* A removal and an installation never overlap: the one begins only when the
\* controller says it is initialised, the other only when it says it is not.
OneAtATime ==
  /\ pos["loop"] # "idle" => ~ready /\ pos["detach"] = "idle"
  /\ pos["detach"] # "idle" => ready

\* A removal comes to every patched function, and without hooks none is.
RemovalReaches ==
  /\ pos["detach"] # "idle" =>
       \A f \in Native!Fn : fitted[f] => \E i \in DOMAIN rest["detach"] : rest["detach"][i] = f
  /\ ~ready /\ pos["loop"] = "idle" => \A f \in Native!Fn : ~fitted[f]

\* Whoever gets past a patch finds a stub.
StubsFirst ==
  /\ \A f \in Native!Fn : text[f] # "own" => stub[f]
  /\ pos["loop"] \in {"fill", "protect", "written"} => stub[Native!F("loop")]
  /\ \A t \in Thread : caller[t].at \in {"trap", "wrapper"} => stub[caller[t].fn]

Patching(f)   == pos["loop"] = "written" /\ Native!F("loop") = f
Unpatching(f) == pos["detach"] \in {"slot", "clear"} /\ Native!F("detach") = f
Keeping(f)    == kind[f] = "break" /\
                   (fitted[f] \/ (pos["loop"] \in {"protect", "written"} /\ Native!F("loop") = f))

\* The first bytes of a function are those its hook's state says.
TextKnown ==
  \A f \in Native!Fn :
    text[f] = IF Patching(f) THEN IF kind[f] = "break" THEN "break" ELSE "torn"
              ELSE IF fitted[f] /\ ~Unpatching(f) THEN kind[f] ELSE "own"

\* A slot belongs to a breakpoint that is there, or is being filled or given back,
SlotsHeld ==
  \A i \in Native!Slot :
    \/ slots[i] = Native!Unused
    \/ slots[i].active = 1 /\ slots[i].entry /\ slots[i].target \in Native!Fn
       /\ Keeping(slots[i].target)
    \/ slots[i].active = 2 /\ slots[i].target = "none" /\ pos["loop"] = "fill"
    \/ pos["detach"] = "clear" /\ slots[i].target = Native!F("detach")

\* only one is being filled,
ClaimedOnce ==
  /\ \A i, j \in Native!Slot : slots[i].active = 2 /\ slots[j].active = 2 => i = j
  /\ pos["loop"] = "fill" => kind[Native!F("loop")] = "break"

\* and a breakpoint has its slot.
BreaksServed ==
  \A f \in Native!Fn : Keeping(f) /\ ~(pos["detach"] = "clear" /\ Native!F("detach") = f) =>
    \E i \in Native!Slot : slots[i].active = 1 /\ slots[i].entry /\ slots[i].target = f

NativeInv ==
  /\ PatchTypes /\ SlotTypes /\ CallerTypes /\ WalkTypes
  /\ OneAtATime /\ RemovalReaches /\ StubsFirst
  /\ ~refused => TextKnown /\ SlotsHeld /\ ClaimedOnce /\ BreaksServed
  /\ Native!CallsGetThrough

\* Who walks, and over what.
LEMMA NativeCast ==
  /\ Native!Installer = {"loop", "detach"} /\ NativeOrder \in Seq(Native!Fn)
  /\ Protect \in Native!Fn /\ "none" \notin Native!Fn
  /\ PatchKinds \subseteq {"jump", "break"} /\ {Int3Max, TurnMax, NativeCallMax} \subseteq Nat
  /\ \A f \in Native!Fn : \E i \in DOMAIN NativeOrder : NativeOrder[i] = f
BY WalkOrder, MethodsKnown, Bounds DEF Native!Installer, Native!Fn

\* A walk that has hooks left goes on to the rest of them.
LEMMA Walks ==
  ASSUME NEW s \in Seq(Native!Fn), s # <<>>
  PROVE  /\ Head(s) \in Native!Fn /\ Tail(s) \in Seq(Native!Fn)
         /\ \A i \in DOMAIN s : s[i] = Head(s) \/ \E j \in DOMAIN Tail(s) : Tail(s)[j] = s[i]
<1>1. /\ Head(s) \in Native!Fn /\ Head(s) = s[1] /\ Len(s) \in Nat /\ DOMAIN s = 1..Len(s)
      /\ Tail(s) \in Seq(Native!Fn) /\ Len(Tail(s)) = Len(s) - 1
      /\ \A j \in 1..(Len(s) - 1) : Tail(s)[j] = s[j + 1]
  OBVIOUS
<1>2. ASSUME NEW i \in DOMAIN s PROVE s[i] = Head(s)
               \/ \E j \in DOMAIN Tail(s) : Tail(s)[j] = s[i]
  <2>1. CASE i = 1
    BY <1>1, <2>1
  <2>2. CASE i # 1
    <3>1. i - 1 \in DOMAIN Tail(s) /\ Tail(s)[i - 1] = s[i]
      BY <1>1, <2>2
    <3> QED
      BY <3>1
  <2> QED
    BY <2>1, <2>2
<1> QED
  BY <1>1, <1>2

\* What a slot of the table can be made into.
LEMMA SlotRecords ==
  Native!Unused \in SlotRecord /\ Native!Unused.active = 0 /\ Native!Unused.target = "none"
BY DEF Native!Unused, SlotRecord

\* A slot that is freed keeps its function, ...
LEMMA SlotFreed ==
  ASSUME NEW s \in SlotRecord
  PROVE  /\ [s EXCEPT !.active = 0] \in SlotRecord /\ [s EXCEPT !.active = 0].active = 0
         /\ [s EXCEPT !.active = 0].target = s.target
BY DEF SlotRecord

\* ... and a filled one is a slot of the table.
LEMMA SlotFilled ==
  ASSUME NEW f \in Native!Fn
  PROVE  /\ [active |-> 1, target |-> f, entry |-> TRUE] \in SlotRecord
BY DEF SlotRecord

\* What a call of the program leaves alone keeps what is known of it.
LEMMA TextSame ==
  ASSUME UNCHANGED <<kind, text, slots, fitted, pos, rest>>
  PROVE  /\ TextKnown' <=> TextKnown
         /\ SlotsHeld' <=> SlotsHeld
         /\ ClaimedOnce' <=> ClaimedOnce
         /\ BreaksServed' <=> BreaksServed
<1>1. /\ Native!F("loop")' = Native!F("loop") /\ Native!F("detach")' = Native!F("detach")
      /\ pos'["loop"] = pos["loop"] /\ pos'["detach"] = pos["detach"]
  BY DEF Native!F
<1>2. \A f \in Native!Fn : (Patching(f)' <=> Patching(f))
        /\ (Unpatching(f)' <=> Unpatching(f)) /\ (Keeping(f)' <=> Keeping(f))
  BY <1>1 DEF Patching, Unpatching, Keeping
<1>3. TextKnown' <=> TextKnown
  BY <1>2 DEF TextKnown
<1>4. SlotsHeld' <=> SlotsHeld
  BY <1>1, <1>2 DEF SlotsHeld
<1>5. ClaimedOnce' <=> ClaimedOnce
  BY <1>1 DEF ClaimedOnce
<1>6. BreaksServed' <=> BreaksServed
  BY <1>1, <1>2 DEF BreaksServed
<1> QED
  BY <1>3, <1>4, <1>5, <1>6

\* The event loop begins an installation,
LEMMA InitializeMoves ==
  ASSUME NativeInv, Native!Initialize
  PROVE  NativeInv'
<1>1. PatchTypes'
  BY NativeCast DEF NativeInv, PatchTypes, Native!Initialize, Native!Still
<1>2. SlotTypes'
  BY DEF NativeInv, SlotTypes, Native!Initialize
<1>3. CallerTypes'
  BY DEF NativeInv, CallerTypes, Native!Initialize, Native!Still
<1>4. WalkTypes'
  BY NativeCast DEF NativeInv, WalkTypes, OneAtATime, Native!Initialize, Native!Goes
<1>5. OneAtATime'
  BY DEF NativeInv, OneAtATime, Native!Initialize, Native!Goes
<1>6. RemovalReaches'
  BY DEF NativeInv, RemovalReaches, Native!Initialize
<1>7. StubsFirst'
  BY DEF NativeInv, StubsFirst, Native!Initialize, Native!Goes, Native!Still
<1>8. ~refused' => TextKnown'
  BY DEF NativeInv, TextKnown, Patching, RemovalReaches, Native!Initialize, Native!Goes
<1>9. ~refused' => SlotsHeld'
  BY DEF NativeInv, SlotsHeld, Keeping, OneAtATime, Native!Initialize, Native!Still
<1>10. ~refused' => ClaimedOnce'
  BY DEF NativeInv, ClaimedOnce, Native!Initialize, Native!Goes
<1>11. ~refused' => BreaksServed'
  BY DEF NativeInv, BreaksServed, Keeping, OneAtATime, Native!Initialize, Native!Goes,
         Native!Still
<1>12. Native!CallsGetThrough'
  BY DEF NativeInv, Native!CallsGetThrough, Native!Initialize, Native!Still
<1> QED
  BY <1>1, <1>2, <1>3, <1>4, <1>5, <1>6, <1>7, <1>8, <1>9, <1>10, <1>11, <1>12 DEF NativeInv

\* passes over a function that is patched,
LEMMA SkipMoves ==
  ASSUME NativeInv, Native!Skip
  PROVE  NativeInv'
<1>a. /\ pos["loop"] = "each" /\ rest["loop"] # <<>>
      /\ rest' = [rest EXCEPT !["loop"] = Tail(rest["loop"])]
      /\ Tail(rest["loop"]) \in Seq(Native!Fn)
      /\ UNCHANGED <<kind, denies, text, slots, stub, fitted, listening, ready, pos, turns,
         caller, made, refused, unlucky>>
  BY NativeCast
     DEF NativeInv, WalkTypes, Native!Skip, Native!Here, Native!NextHook, Native!Still,
         Native!work
<1>1. PatchTypes'
  BY <1>a DEF NativeInv, PatchTypes
<1>2. SlotTypes'
  BY <1>a DEF NativeInv, SlotTypes
<1>3. CallerTypes'
  BY <1>a DEF NativeInv, CallerTypes
<1>4. WalkTypes'
  BY <1>a DEF NativeInv, WalkTypes, OneAtATime, Native!Installer
<1>5. OneAtATime'
  BY <1>a DEF NativeInv, OneAtATime
<1>6. RemovalReaches'
  BY <1>a DEF NativeInv, RemovalReaches
<1>7. StubsFirst'
  BY <1>a DEF NativeInv, StubsFirst
<1>8. ~refused' => TextKnown'
  BY <1>a DEF NativeInv, TextKnown, Patching, Unpatching, OneAtATime
<1>9. ~refused' => SlotsHeld'
  BY <1>a DEF NativeInv, SlotsHeld, Keeping, OneAtATime
<1>10. ~refused' => ClaimedOnce'
  BY <1>a DEF NativeInv, ClaimedOnce
<1>11. ~refused' => BreaksServed'
  BY <1>a DEF NativeInv, BreaksServed, Keeping, OneAtATime
<1>12. Native!CallsGetThrough'
  BY <1>a DEF NativeInv, Native!CallsGetThrough
<1> QED
  BY <1>1, <1>2, <1>3, <1>4, <1>5, <1>6, <1>7, <1>8, <1>9, <1>10, <1>11, <1>12 DEF NativeInv

\* makes the stub of one that gets a jump,
LEMMA StubJump ==
  ASSUME NativeInv, Native!Stub, kind[Native!F("loop")] = "jump"
  PROVE  NativeInv'
<1>a. /\ pos["loop"] = "each" /\ rest["loop"] # <<>> /\ Native!F("loop") \in Native!Fn
      /\ ~fitted[Native!F("loop")] /\ text[Native!F("loop")] = "own"
      /\ kind[Native!F("loop")] = "jump" /\ stub' = [stub EXCEPT ![Native!F("loop")] = TRUE]
      /\ pos' = [pos EXCEPT !["loop"] = "protect"]
      /\ UNCHANGED <<kind, denies, text, slots, fitted, listening, ready, rest, turns,
         caller, made, refused, unlucky>>
  BY NativeCast
     DEF NativeInv, WalkTypes, Native!F, Native!Stub, Native!Here, Native!Goes,
         Native!Still
<1>1. PatchTypes'
  BY <1>a DEF NativeInv, PatchTypes
<1>2. SlotTypes'
  BY <1>a DEF NativeInv, SlotTypes
<1>3. CallerTypes'
  BY <1>a DEF NativeInv, CallerTypes
<1>4. WalkTypes'
  BY <1>a DEF NativeInv, WalkTypes, Native!F
<1>5. OneAtATime'
  BY <1>a DEF NativeInv, OneAtATime
<1>6. RemovalReaches'
  BY <1>a DEF NativeInv, RemovalReaches
<1>7. StubsFirst'
  BY <1>a DEF NativeInv, PatchTypes, Native!F, StubsFirst
<1>8. ~refused' => TextKnown'
  BY <1>a DEF NativeInv, TextKnown, Patching, Unpatching, OneAtATime
<1>9. ~refused' => SlotsHeld'
  BY <1>a DEF NativeInv, SlotsHeld, Keeping, OneAtATime
<1>10. ~refused' => ClaimedOnce'
  BY <1>a DEF NativeInv, ClaimedOnce
<1>11. ~refused' => BreaksServed'
  BY <1>a DEF NativeInv, Native!F, BreaksServed, Keeping
<1>12. Native!CallsGetThrough'
  BY <1>a DEF NativeInv, Native!CallsGetThrough
<1> QED
  BY <1>1, <1>2, <1>3, <1>4, <1>5, <1>6, <1>7, <1>8, <1>9, <1>10, <1>11, <1>12 DEF NativeInv

\* or of one that gets a breakpoint, for which it claims a free slot,
LEMMA StubClaims ==
  ASSUME NativeInv, Native!Stub, kind[Native!F("loop")] = "break",
           \E i \in Native!Slot : slots[i].active = 0
  PROVE  NativeInv'
<1>a. /\ pos["loop"] = "each" /\ rest["loop"] # <<>> /\ Native!F("loop") \in Native!Fn
      /\ ~fitted[Native!F("loop")] /\ text[Native!F("loop")] = "own"
      /\ kind[Native!F("loop")] = "break" /\ stub' = [stub EXCEPT ![Native!F("loop")] = TRUE]
      /\ pos' = [pos EXCEPT !["loop"] = "fill"]
      /\ UNCHANGED <<kind, denies, text, fitted, listening, ready, rest, turns, caller,
         made, refused, unlucky>>
  BY NativeCast
     DEF NativeInv, WalkTypes, Native!F, Native!Stub, Native!Here, Native!Goes,
         Native!Still
<1>b. PICK i \in Native!Slot : slots[i].active = 0 /\ slots' = [slots EXCEPT ![i].active = 2]
  BY <1>a DEF Native!Stub
<1> DEFINE claimed == [slots[i] EXCEPT !.active = 2]
<1>c. slots \in [Native!Slot -> SlotRecord] /\ claimed \in SlotRecord /\ claimed.active = 2
  <2>1. slots \in [Native!Slot -> SlotRecord] /\ slots[i] \in SlotRecord
    BY DEF NativeInv, SlotTypes
  <2> QED
    BY <2>1 DEF SlotRecord
<1>d. slots' = [slots EXCEPT ![i] = claimed] /\ slots'[i] = claimed
      /\ \A j \in Native!Slot \ {i} : slots'[j] = slots[j]
  BY <1>b, <1>c
<1>e. ASSUME ~refused PROVE slots[i] = Native!Unused /\ claimed.target = "none"
  <2>1. slots[i] = Native!Unused
    BY <1>a, <1>b, <1>e DEF NativeInv, SlotsHeld, OneAtATime
  <2>2. slots[i] \in SlotRecord
    BY <1>c
  <2> QED
    BY <2>1, <2>2, SlotRecords
<1> HIDE DEF claimed
<1>1. PatchTypes'
  BY <1>a, <1>b, <1>c, <1>d, <1>e, SlotRecords DEF NativeInv, PatchTypes
<1>2. SlotTypes'
  BY <1>a, <1>b, <1>c, <1>d, <1>e DEF SlotTypes
<1>3. CallerTypes'
  BY <1>a, <1>b, <1>c, <1>d, <1>e DEF NativeInv, CallerTypes
<1>4. WalkTypes'
  BY <1>a, <1>b, <1>c, <1>d, <1>e DEF NativeInv, WalkTypes, Native!F
<1>5. OneAtATime'
  BY <1>a, <1>b, <1>c, <1>d, <1>e DEF NativeInv, OneAtATime
<1>6. RemovalReaches'
  BY <1>a, <1>b, <1>c, <1>d, <1>e DEF NativeInv, RemovalReaches
<1>7. StubsFirst'
  BY <1>a, <1>b, <1>c, <1>d, <1>e DEF NativeInv, PatchTypes, Native!F, StubsFirst
<1>8. ~refused' => TextKnown'
  BY <1>a, <1>b, <1>c, <1>d, <1>e DEF NativeInv, TextKnown, Patching, Unpatching, OneAtATime
<1>9. ~refused' => SlotsHeld'
  BY <1>a, <1>b, <1>c, <1>d, <1>e, SlotRecords, NativeCast
     DEF NativeInv, WalkTypes, SlotsHeld, Keeping, OneAtATime
<1>10. ~refused' => ClaimedOnce'
  <2>1. ASSUME ~refused', NEW j \in Native!Slot, slots[j].active = 2
        PROVE  FALSE
    BY <1>a, <2>1 DEF NativeInv, SlotsHeld, OneAtATime
  <2>2. ~refused' => \A j \in Native!Slot : slots'[j].active = 2 => j = i
    BY <1>a, <1>d, <2>1
  <2>3. kind'[Native!F("loop")'] = "break"
    BY <1>a DEF Native!F
  <2> QED
    BY <2>2, <2>3 DEF ClaimedOnce
<1>11. ~refused' => BreaksServed'
  BY <1>a, <1>b, <1>c, <1>d, <1>e DEF NativeInv, BreaksServed, Keeping, OneAtATime
<1>12. Native!CallsGetThrough'
  BY <1>a, <1>b, <1>c, <1>d, <1>e DEF NativeInv, Native!CallsGetThrough
<1> QED
  BY <1>1, <1>2, <1>3, <1>4, <1>5, <1>6, <1>7, <1>8, <1>9, <1>10, <1>11, <1>12 DEF NativeInv

\* of which there may be none;
LEMMA StubFull ==
  ASSUME NativeInv, Native!Stub, kind[Native!F("loop")] = "break",
           \A i \in Native!Slot : slots[i].active # 0
  PROVE  NativeInv'
<1>a. /\ pos["loop"] = "each" /\ rest["loop"] # <<>> /\ Native!F("loop") \in Native!Fn
      /\ ~fitted[Native!F("loop")] /\ text[Native!F("loop")] = "own"
      /\ stub' = [stub EXCEPT ![Native!F("loop")] = TRUE]
      /\ rest' = [rest EXCEPT !["loop"] = Tail(rest["loop"])]
      /\ Tail(rest["loop"]) \in Seq(Native!Fn)
      /\ UNCHANGED <<kind, denies, text, slots, fitted, listening, ready, pos, turns,
         caller, made, refused, unlucky>>
  BY NativeCast, SMTT(20)
     DEF NativeInv, WalkTypes, Native!F, Native!Stub, Native!Here, Native!NextHook,
         Native!Still
<1>1. PatchTypes'
  BY <1>a DEF NativeInv, PatchTypes
<1>2. SlotTypes'
  BY <1>a DEF NativeInv, SlotTypes
<1>3. CallerTypes'
  BY <1>a DEF NativeInv, CallerTypes
<1>4. WalkTypes'
  BY <1>a DEF NativeInv, WalkTypes, OneAtATime, Native!Installer
<1>5. OneAtATime'
  BY <1>a DEF NativeInv, OneAtATime
<1>6. RemovalReaches'
  BY <1>a DEF NativeInv, RemovalReaches
<1>7. StubsFirst'
  BY <1>a DEF NativeInv, StubsFirst
<1>8. ~refused' => TextKnown'
  BY <1>a DEF NativeInv, TextKnown, Patching, Unpatching, OneAtATime
<1>9. ~refused' => SlotsHeld'
  BY <1>a DEF NativeInv, SlotsHeld, Keeping, OneAtATime
<1>10. ~refused' => ClaimedOnce'
  BY <1>a DEF NativeInv, ClaimedOnce
<1>11. ~refused' => BreaksServed'
  BY <1>a DEF NativeInv, BreaksServed, Keeping, OneAtATime
<1>12. Native!CallsGetThrough'
  BY <1>a DEF NativeInv, Native!CallsGetThrough
<1> QED
  BY <1>1, <1>2, <1>3, <1>4, <1>5, <1>6, <1>7, <1>8, <1>9, <1>10, <1>11, <1>12 DEF NativeInv

\* it fills the slot,
LEMMA FillSlotMoves ==
  ASSUME NativeInv, Native!FillSlot
  PROVE  NativeInv'
<1>a. /\ pos["loop"] = "fill" /\ rest["loop"] # <<>> /\ Native!F("loop") \in Native!Fn
      /\ ~fitted[Native!F("loop")]
      /\ pos' = [pos EXCEPT !["loop"] = "protect"]
      /\ UNCHANGED <<kind, denies, text, stub, fitted, listening, ready, rest, turns,
         caller, made, refused, unlucky>>
  BY NativeCast
     DEF NativeInv, WalkTypes, Native!F, Native!FillSlot, Native!Here, Native!Goes,
         Native!Still
<1> DEFINE filled == [active |-> 1, target |-> Native!F("loop"), entry |-> TRUE]
<1>b. PICK i \in Native!Slot : slots[i].active = 2 /\ slots' = [slots EXCEPT ![i] = filled]
  BY DEF Native!FillSlot
<1>c. /\ slots \in [Native!Slot -> SlotRecord] /\ filled \in SlotRecord
      /\ filled.active = 1 /\ filled.target = Native!F("loop") /\ filled.entry
  BY <1>a, SlotFilled DEF NativeInv, SlotTypes
<1> HIDE DEF filled
<1>d. slots'[i] = filled /\ \A j \in Native!Slot \ {i} : slots'[j] = slots[j]
  BY <1>b, <1>c
<1>1. PatchTypes'
  BY <1>a, <1>b, <1>c, <1>d, SlotRecords DEF NativeInv, PatchTypes
<1>2. SlotTypes'
  BY <1>a, <1>b, <1>c, <1>d DEF SlotTypes
<1>3. CallerTypes'
  BY <1>a, <1>b, <1>c, <1>d DEF NativeInv, CallerTypes
<1>4. WalkTypes'
  BY <1>a, <1>b, <1>c, <1>d DEF NativeInv, WalkTypes, Native!F
<1>5. OneAtATime'
  BY <1>a, <1>b, <1>c, <1>d DEF NativeInv, OneAtATime
<1>6. RemovalReaches'
  BY <1>a, <1>b, <1>c, <1>d DEF NativeInv, RemovalReaches
<1>7. StubsFirst'
  BY <1>a, <1>b, <1>c, <1>d DEF NativeInv, Native!F, StubsFirst
<1>8. ~refused' => TextKnown'
  BY <1>a, <1>b, <1>c, <1>d DEF NativeInv, TextKnown, Patching, Unpatching, OneAtATime
<1>9. ~refused' => SlotsHeld'
  <2>1. ASSUME ~refused', NEW j \in Native!Slot \ {i}, slots[j] # Native!Unused
        PROVE  slots[j].active = 1
    <3>1. slots[j].active # 2 /\ ~refused
      BY <1>a, <1>b, <2>1 DEF NativeInv, ClaimedOnce
    <3> QED
      BY <1>a, <2>1, <3>1 DEF NativeInv, SlotsHeld, OneAtATime
  <2>2. \A g \in Native!Fn : Keeping(g) => Keeping(g)'
    BY <1>a DEF Keeping
  <2>3. \A g \in Native!Fn : g = Native!F("loop") => refused \/ Keeping(g)'
    BY <1>a, NativeCast DEF NativeInv, WalkTypes, Keeping, Native!F, ClaimedOnce
  <2>4. ASSUME ~refused', NEW j \in Native!Slot
        PROVE  \/ slots'[j] = Native!Unused
               \/ slots'[j].active = 1 /\ slots'[j].entry
                  /\ \E g \in Native!Fn : slots'[j].target = g /\ Keeping(g)'
    <3>0. ~refused
      BY <1>a, <2>4
    <3>1. CASE j = i
      <4>1. slots'[j] = filled
        BY <1>d, <3>1
      <4>2. slots'[j].active = 1 /\ slots'[j].entry /\ slots'[j].target = Native!F("loop")
        BY <1>c, <4>1
      <4> QED
        BY <1>a, <2>3, <3>0, <4>2
    <3>2. CASE j # i
      <4>1. slots'[j] = slots[j] /\ pos["detach"] = "idle"
        BY <1>a, <1>d, <3>2 DEF NativeInv, OneAtATime
      <4>2. CASE slots[j] = Native!Unused
        BY <4>1, <4>2
      <4>3. CASE slots[j] # Native!Unused
        <5>1. slots[j].active = 1
          BY <2>1, <2>4, <3>2, <4>3
        <5>2. slots[j].entry /\ slots[j].target \in Native!Fn /\ Keeping(slots[j].target)
          BY <3>0, <4>1, <4>3, <5>1 DEF NativeInv, SlotsHeld
        <5> QED
          BY <2>2, <4>1, <5>1, <5>2
      <4> QED
        BY <4>2, <4>3
    <3> QED
      BY <3>1, <3>2
  <2>5. ASSUME ~refused', NEW j \in Native!Slot
        PROVE  \/ slots'[j] = Native!Unused'
               \/ slots'[j].active = 1 /\ slots'[j].entry /\ slots'[j].target \in Native!Fn
                  /\ Keeping(slots[j].target)'
    <3>1. CASE slots'[j] = Native!Unused
      BY <3>1
    <3>2. CASE slots'[j].active = 1 /\ slots'[j].entry
            /\ \E g \in Native!Fn : slots'[j].target = g /\ Keeping(g)'
      <4>1. PICK g \in Native!Fn : slots'[j].target = g /\ Keeping(g)'
        BY <3>2
      <4>2. Keeping(slots[j].target)'
        BY <4>1
      <4> QED
        BY <3>2, <4>1, <4>2
    <3> QED
      BY <2>4, <2>5, <3>1, <3>2
  <2> QED
    BY <2>5 DEF SlotsHeld
<1>10. ~refused' => ClaimedOnce'
  <2>1. ASSUME ~refused', NEW j \in Native!Slot
        PROVE  slots'[j].active # 2
    BY <1>a, <1>b, <1>c, <1>d, <2>1 DEF NativeInv, ClaimedOnce
  <2>2. pos'["loop"] # "fill"
    BY <1>a, NativeCast DEF NativeInv, WalkTypes
  <2> QED
    BY <2>1, <2>2 DEF ClaimedOnce
<1>11. ~refused' => BreaksServed'
  BY <1>a, <1>b, <1>c, <1>d DEF NativeInv, Native!F, BreaksServed, Keeping
<1>12. Native!CallsGetThrough'
  BY <1>a, <1>b, <1>c, <1>d DEF NativeInv, Native!CallsGetThrough
<1> QED
  BY <1>1, <1>2, <1>3, <1>4, <1>5, <1>6, <1>7, <1>8, <1>9, <1>10, <1>11, <1>12 DEF NativeInv

\* gives it back when the protection is refused,
LEMMA ProtectFailsMoves ==
  ASSUME NativeInv, Native!ProtectFails
  PROVE  NativeInv'
<1>1. PatchTypes'
  BY DEF NativeInv, PatchTypes, Native!ProtectFails, Native!Still
<1>2. SlotTypes'
  BY SlotRecords DEF NativeInv, SlotTypes, Native!ProtectFails, Native!Emptied
<1>3. CallerTypes'
  BY DEF NativeInv, CallerTypes, Native!ProtectFails, Native!Still
<1>4. WalkTypes'
  BY DEF NativeInv, WalkTypes, OneAtATime, Native!Installer, Native!ProtectFails,
         Native!Here, Native!Goes, Native!NextHook
<1>5. OneAtATime'
  BY DEF NativeInv, OneAtATime, Native!ProtectFails, Native!Here, Native!Goes
<1>6. RemovalReaches'
  BY DEF NativeInv, RemovalReaches, Native!ProtectFails, Native!Goes, Native!NextHook
<1>7. StubsFirst'
  BY DEF NativeInv, WalkTypes, Native!F, StubsFirst, Native!ProtectFails, Native!Goes,
         Native!NextHook, Native!Still
<1>8. ~refused' => TextKnown'
  BY DEF Native!ProtectFails
<1>9. ~refused' => SlotsHeld'
  BY DEF Native!ProtectFails
<1>10. ~refused' => ClaimedOnce'
  BY DEF Native!ProtectFails
<1>11. ~refused' => BreaksServed'
  BY DEF Native!ProtectFails
<1>12. Native!CallsGetThrough'
  BY DEF Native!CallsGetThrough, Native!ProtectFails
<1> QED
  BY <1>1, <1>2, <1>3, <1>4, <1>5, <1>6, <1>7, <1>8, <1>9, <1>10, <1>11, <1>12 DEF NativeInv

\* writes the first byte of the patch
LEMMA WriteFirstMoves ==
  ASSUME NativeInv, Native!WriteFirst
  PROVE  NativeInv'
<1> DEFINE f == Native!F("loop")
<1>a. /\ pos["loop"] = "protect" /\ rest["loop"] # <<>> /\ f \in Native!Fn /\ ~fitted[f]
      /\ f = Native!F("loop")
      /\ text' = [text EXCEPT ![f] = IF kind[f] = "break" THEN "break" ELSE "torn"]
      /\ pos' = [pos EXCEPT !["loop"] = "written"]
      /\ UNCHANGED <<kind, denies, slots, stub, fitted, listening, ready, rest, turns,
         caller, made, refused, unlucky>>
  BY NativeCast
     DEF NativeInv, WalkTypes, Native!F, Native!WriteFirst, Native!Here, Native!Goes,
         Native!Still
<1> HIDE DEF f
<1>1. PatchTypes'
  BY <1>a DEF NativeInv, PatchTypes
<1>2. SlotTypes'
  BY <1>a DEF NativeInv, SlotTypes
<1>3. CallerTypes'
  BY <1>a DEF NativeInv, CallerTypes
<1>4. WalkTypes'
  BY <1>a DEF NativeInv, WalkTypes, Native!F
<1>5. OneAtATime'
  BY <1>a DEF NativeInv, OneAtATime
<1>6. RemovalReaches'
  BY <1>a DEF NativeInv, RemovalReaches
<1>7. StubsFirst'
  BY <1>a DEF NativeInv, Native!F, StubsFirst
<1>8. ~refused' => TextKnown'
  <2>1. ASSUME ~refused', NEW g \in Native!Fn
        PROVE  text'[g] = IF Patching(g)' THEN IF kind'[g] = "break" THEN "break" ELSE "torn"
                          ELSE IF fitted'[g] /\ ~Unpatching(g)' THEN kind'[g] ELSE "own"
    <3>1. ~refused /\ TextKnown
      BY <1>a, <2>1 DEF NativeInv
    <3>2. CASE g = f
      <4>1. Patching(g)' /\ kind'[g] = kind[g]
        BY <1>a, <3>2, NativeCast DEF NativeInv, WalkTypes, Patching, Native!F
      <4>2. text'[g] = IF kind[g] = "break" THEN "break" ELSE "torn"
        BY <1>a, <3>2 DEF NativeInv, PatchTypes
      <4> QED
        BY <4>1, <4>2
    <3>3. CASE g # f
      <4>1. /\ text'[g] = text[g] /\ kind'[g] = kind[g] /\ fitted'[g] = fitted[g]
            /\ ~Patching(g) /\ ~Patching(g)' /\ ~Unpatching(g) /\ ~Unpatching(g)'
        BY <1>a, <3>3 DEF NativeInv, OneAtATime, Patching, Unpatching, Native!F
      <4> QED
        BY <3>1, <4>1, <1>a DEF TextKnown
    <3> QED
      BY <3>2, <3>3
  <2> QED
    BY <2>1 DEF TextKnown
<1>9. ~refused' => SlotsHeld'
  BY <1>a DEF NativeInv, Native!F, SlotsHeld, Keeping
<1>10. ~refused' => ClaimedOnce'
  BY <1>a DEF NativeInv, ClaimedOnce
<1>11. ~refused' => BreaksServed'
  BY <1>a DEF NativeInv, Native!F, BreaksServed, Keeping
<1>12. Native!CallsGetThrough'
  BY <1>a DEF NativeInv, Native!CallsGetThrough
<1> QED
  BY <1>1, <1>2, <1>3, <1>4, <1>5, <1>6, <1>7, <1>8, <1>9, <1>10, <1>11, <1>12 DEF NativeInv

\* and the others,
LEMMA WriteRestMoves ==
  ASSUME NativeInv, Native!WriteRest
  PROVE  NativeInv'
<1> DEFINE f == Native!F("loop")
<1>a. /\ pos["loop"] = "written" /\ rest["loop"] # <<>> /\ f \in Native!Fn /\ ~fitted[f]
      /\ f = Native!F("loop")
      /\ text' = [text EXCEPT ![f] = IF text[f] = "torn" THEN "jump" ELSE text[f]]
      /\ fitted' = [fitted EXCEPT ![f] = TRUE]
      /\ pos' = [pos EXCEPT !["loop"] = "each"]
      /\ rest' = [rest EXCEPT !["loop"] = Tail(rest["loop"])]
      /\ Tail(rest["loop"]) \in Seq(Native!Fn)
      /\ UNCHANGED <<kind, denies, slots, stub, listening, ready, turns, caller, made,
         refused, unlucky>>
  BY NativeCast
     DEF NativeInv, WalkTypes, Native!F, Native!WriteRest, Native!Here, Native!NextHook,
         Native!Goes, Native!Still
<1> HIDE DEF f
<1>1. PatchTypes'
  BY <1>a DEF NativeInv, PatchTypes
<1>2. SlotTypes'
  BY <1>a DEF NativeInv, SlotTypes
<1>3. CallerTypes'
  BY <1>a DEF NativeInv, CallerTypes
<1>4. WalkTypes'
  BY <1>a DEF NativeInv, WalkTypes, OneAtATime, Native!Installer
<1>5. OneAtATime'
  BY <1>a DEF NativeInv, OneAtATime
<1>6. RemovalReaches'
  BY <1>a DEF NativeInv, OneAtATime, RemovalReaches
<1>7. StubsFirst'
  BY <1>a DEF NativeInv, WalkTypes, Native!F, StubsFirst
<1>8. ~refused' => TextKnown'
  <2>1. ASSUME ~refused', NEW g \in Native!Fn
        PROVE  text'[g] = IF Patching(g)' THEN IF kind'[g] = "break" THEN "break" ELSE "torn"
                          ELSE IF fitted'[g] /\ ~Unpatching(g)' THEN kind'[g] ELSE "own"
    <3>1. ~refused /\ TextKnown
      BY <1>a, <2>1 DEF NativeInv
    <3>2. CASE g = f
      <4>1. Patching(g) /\ ~Patching(g)' /\ ~Unpatching(g)' /\ fitted'[g]
        BY <1>a, <3>2, NativeCast
           DEF NativeInv, PatchTypes, WalkTypes, OneAtATime, Patching, Unpatching
      <4>2. /\ kind[g] \in {"jump", "break"} /\ kind'[g] = kind[g]
            /\ text'[g] = IF text[g] = "torn" THEN "jump" ELSE text[g]
        BY <1>a, <3>2, NativeCast DEF NativeInv, PatchTypes
      <4>3. text[g] = IF kind[g] = "break" THEN "break" ELSE "torn"
        BY <3>1, <4>1 DEF TextKnown
      <4>4. text'[g] = kind'[g]
        BY <4>2, <4>3
      <4> QED
        BY <4>1, <4>4
    <3>3. CASE g # f
      <4>1. /\ text'[g] = text[g] /\ kind'[g] = kind[g] /\ fitted'[g] = fitted[g]
            /\ ~Patching(g) /\ ~Patching(g)' /\ ~Unpatching(g) /\ ~Unpatching(g)'
        BY <1>a, <3>3 DEF NativeInv, WalkTypes, OneAtATime, Patching, Unpatching, Native!F
      <4> QED
        BY <3>1, <4>1, <1>a DEF TextKnown
    <3> QED
      BY <3>2, <3>3
  <2> QED
    BY <2>1 DEF TextKnown
<1>9. ~refused' => SlotsHeld'
  BY <1>a DEF NativeInv, PatchTypes, SlotsHeld, Keeping, OneAtATime
<1>10. ~refused' => ClaimedOnce'
  BY <1>a DEF NativeInv, ClaimedOnce
<1>11. ~refused' => BreaksServed'
  BY <1>a DEF NativeInv, WalkTypes, Native!F, BreaksServed, Keeping
<1>12. Native!CallsGetThrough'
  BY <1>a DEF NativeInv, Native!CallsGetThrough
<1> QED
  BY <1>1, <1>2, <1>3, <1>4, <1>5, <1>6, <1>7, <1>8, <1>9, <1>10, <1>11, <1>12 DEF NativeInv

\* and is initialised if anything was patched.
LEMMA InitializedMoves ==
  ASSUME NativeInv, Native!Initialized
  PROVE  NativeInv'
<1>1. PatchTypes'
  BY DEF NativeInv, PatchTypes, Native!Initialized, Native!Still
<1>2. SlotTypes'
  BY DEF NativeInv, SlotTypes, Native!Initialized
<1>3. CallerTypes'
  BY DEF NativeInv, CallerTypes, Native!Initialized, Native!Still
<1>4. WalkTypes'
  BY DEF NativeInv, WalkTypes, OneAtATime, Native!Initialized, Native!Goes
<1>5. OneAtATime'
  BY NativeCast DEF NativeInv, WalkTypes, OneAtATime, Native!Initialized, Native!Goes
<1>6. RemovalReaches'
  BY DEF NativeInv, RemovalReaches, Native!Initialized, Native!Goes
<1>7. StubsFirst'
  BY DEF NativeInv, StubsFirst, Native!Initialized, Native!Goes, Native!Still
<1>8. ~refused' => TextKnown'
  BY DEF NativeInv, TextKnown, Patching, Unpatching, OneAtATime, Native!Initialized,
         Native!Goes, Native!Still
<1>9. ~refused' => SlotsHeld'
  BY DEF NativeInv, SlotsHeld, Keeping, OneAtATime, Native!Initialized, Native!Still
<1>10. ~refused' => ClaimedOnce'
  BY DEF NativeInv, ClaimedOnce, Native!Initialized, Native!Goes
<1>11. ~refused' => BreaksServed'
  BY DEF NativeInv, BreaksServed, Keeping, OneAtATime, Native!Initialized, Native!Goes,
         Native!Still
<1>12. Native!CallsGetThrough'
  BY DEF NativeInv, Native!CallsGetThrough, Native!Initialized, Native!Still
<1> QED
  BY <1>1, <1>2, <1>3, <1>4, <1>5, <1>6, <1>7, <1>8, <1>9, <1>10, <1>11, <1>12 DEF NativeInv

\* The detaching thread begins a removal,
LEMMA ShutdownMoves ==
  ASSUME NativeInv, Native!Shutdown
  PROVE  NativeInv'
<1>1. PatchTypes'
  BY NativeCast DEF NativeInv, PatchTypes, Native!Shutdown, Native!Still, Native!work
<1>2. SlotTypes'
  BY DEF NativeInv, SlotTypes, Native!Shutdown, Native!work
<1>3. CallerTypes'
  BY DEF NativeInv, CallerTypes, Native!Shutdown, Native!Still
<1>4. WalkTypes'
  BY NativeCast DEF NativeInv, WalkTypes, OneAtATime, Native!Shutdown, Native!Goes
<1>5. OneAtATime'
  BY DEF NativeInv, OneAtATime, Native!Shutdown, Native!Goes, Native!work
<1>6. RemovalReaches'
  BY NativeCast DEF NativeInv, WalkTypes, RemovalReaches, Native!Shutdown, Native!work
<1>7. StubsFirst'
  BY DEF NativeInv, StubsFirst, OneAtATime, Native!Shutdown, Native!Goes, Native!Still,
         Native!work
<1>8. ~refused' => TextKnown'
  BY DEF NativeInv, TextKnown, Patching, Unpatching, OneAtATime, Native!Shutdown,
         Native!Goes, Native!Still, Native!work
<1>9. ~refused' => SlotsHeld'
  BY DEF NativeInv, SlotsHeld, Keeping, OneAtATime, Native!Shutdown, Native!Still, Native!work
<1>10. ~refused' => ClaimedOnce'
  BY DEF NativeInv, ClaimedOnce, OneAtATime, Native!Shutdown, Native!Goes, Native!work
<1>11. ~refused' => BreaksServed'
  BY DEF NativeInv, BreaksServed, Keeping, OneAtATime, Native!Shutdown, Native!Goes,
         Native!Still, Native!work
<1>12. Native!CallsGetThrough'
  BY DEF NativeInv, Native!CallsGetThrough, Native!Shutdown, Native!Still
<1> QED
  BY <1>1, <1>2, <1>3, <1>4, <1>5, <1>6, <1>7, <1>8, <1>9, <1>10, <1>11, <1>12 DEF NativeInv

\* passes over a function that is not patched,
LEMMA RemoveSkipMoves ==
  ASSUME NativeInv, Native!RemoveSkip
  PROVE  NativeInv'
<1>a. /\ pos["detach"] = "remove" /\ rest["detach"] # <<>>
      /\ rest["detach"] \in Seq(Native!Fn) /\ ~fitted[Head(rest["detach"])]
      /\ rest' = [rest EXCEPT !["detach"] = Tail(rest["detach"])]
      /\ Tail(rest["detach"]) \in Seq(Native!Fn)
      /\ UNCHANGED <<kind, denies, text, slots, stub, fitted, listening, ready, pos, turns,
         caller, made, refused, unlucky>>
  BY NativeCast
     DEF NativeInv, WalkTypes, Native!F, Native!RemoveSkip, Native!Here, Native!NextHook,
         Native!Still, Native!work
<1>b. rest'["detach"] = Tail(rest["detach"]) /\ \A f \in Native!Fn : fitted[f]
      /\ (\E i \in DOMAIN rest["detach"] : rest["detach"][i] = f) =>
        \E i \in DOMAIN rest'["detach"] : rest'["detach"][i] = f
  <2>1. rest'["detach"] = Tail(rest["detach"])
    BY <1>a, NativeCast DEF NativeInv, WalkTypes
  <2> QED
    BY <1>a, <2>1, Walks
<1>1. PatchTypes'
  BY <1>a, <1>b DEF NativeInv, PatchTypes
<1>2. SlotTypes'
  BY <1>a, <1>b DEF NativeInv, SlotTypes
<1>3. CallerTypes'
  BY <1>a, <1>b DEF NativeInv, CallerTypes
<1>4. WalkTypes'
  BY <1>a, <1>b DEF NativeInv, WalkTypes, OneAtATime, Native!Installer
<1>5. OneAtATime'
  BY <1>a, <1>b DEF NativeInv, OneAtATime
<1>6. RemovalReaches'
  BY <1>a, <1>b, Walks DEF NativeInv, PatchTypes, WalkTypes, RemovalReaches
<1>7. StubsFirst'
  BY <1>a, <1>b DEF NativeInv, StubsFirst, OneAtATime
<1>8. ~refused' => TextKnown'
  BY <1>a, <1>b DEF NativeInv, TextKnown, Patching, Unpatching, OneAtATime
<1>9. ~refused' => SlotsHeld'
  BY <1>a, <1>b DEF NativeInv, SlotsHeld, Keeping, OneAtATime
<1>10. ~refused' => ClaimedOnce'
  BY <1>a, <1>b DEF NativeInv, ClaimedOnce, OneAtATime
<1>11. ~refused' => BreaksServed'
  BY <1>a, <1>b DEF NativeInv, BreaksServed, Keeping, OneAtATime
<1>12. Native!CallsGetThrough'
  BY <1>a, <1>b DEF NativeInv, Native!CallsGetThrough
<1> QED
  BY <1>1, <1>2, <1>3, <1>4, <1>5, <1>6, <1>7, <1>8, <1>9, <1>10, <1>11, <1>12 DEF NativeInv

\* writes the bytes back or is refused,
LEMMA RestoreTextMoves ==
  ASSUME NativeInv, Native!RestoreText
  PROVE  NativeInv'
<1> DEFINE f == Native!F("detach")
<1>a. /\ pos["detach"] = "remove" /\ rest["detach"] # <<>> /\ f \in Native!Fn /\ fitted[f]
      /\ f = Native!F("detach")
      /\ \/ text' = [text EXCEPT ![f] = "own"] /\ UNCHANGED refused
         \/ refused' = TRUE /\ UNCHANGED text
      /\ pos' = [pos EXCEPT !["detach"] = "slot"]
      /\ UNCHANGED <<kind, denies, slots, stub, fitted, listening, ready, rest, turns,
         caller, made, unlucky>>
  BY NativeCast
     DEF NativeInv, WalkTypes, Native!F, Native!RestoreText, Native!Here, Native!Goes,
         Native!Still
<1> HIDE DEF f
<1>1. PatchTypes'
  BY <1>a, NativeCast DEF NativeInv, PatchTypes, Native!F, WalkTypes, Native!work
<1>2. SlotTypes'
  BY <1>a DEF NativeInv, SlotTypes
<1>3. CallerTypes'
  BY <1>a DEF NativeInv, CallerTypes
<1>4. WalkTypes'
  BY <1>a DEF NativeInv, WalkTypes, Native!F
<1>5. OneAtATime'
  BY <1>a DEF NativeInv, OneAtATime
<1>6. RemovalReaches'
  BY <1>a DEF NativeInv, RemovalReaches
<1>7. StubsFirst'
  BY <1>a DEF NativeInv, PatchTypes, StubsFirst, OneAtATime
<1>8. ~refused' => TextKnown'
  <2>1. ASSUME ~refused', NEW g \in Native!Fn
        PROVE  text'[g] = IF Patching(g)' THEN IF kind'[g] = "break" THEN "break" ELSE "torn"
                          ELSE IF fitted'[g] /\ ~Unpatching(g)' THEN kind'[g] ELSE "own"
    <3>1. ~refused /\ TextKnown
      BY <1>a, <2>1 DEF NativeInv
    <3>2. CASE g = f
      <4>1. ~Patching(g)' /\ Unpatching(g)'
        BY <1>a, <3>2, NativeCast DEF NativeInv, WalkTypes, Patching, Unpatching, Native!F
      <4>2. text'[g] = "own"
        BY <1>a, <2>1, <3>2 DEF NativeInv, PatchTypes
      <4> QED
        BY <4>1, <4>2
    <3>3. CASE g # f
      <4>1. /\ text'[g] = text[g] /\ kind'[g] = kind[g] /\ fitted'[g] = fitted[g]
            /\ ~Patching(g) /\ ~Patching(g)' /\ ~Unpatching(g) /\ ~Unpatching(g)'
        BY <1>a, <3>3 DEF NativeInv, PatchTypes, OneAtATime, Patching, Unpatching, Native!F
      <4> QED
        BY <3>1, <4>1, <1>a DEF TextKnown
    <3> QED
      BY <3>2, <3>3
  <2> QED
    BY <2>1 DEF TextKnown
<1>9. ~refused' => SlotsHeld'
  BY <1>a DEF NativeInv, SlotsHeld, Keeping, OneAtATime
<1>10. ~refused' => ClaimedOnce'
  BY <1>a DEF NativeInv, ClaimedOnce, OneAtATime
<1>11. ~refused' => BreaksServed'
  BY <1>a DEF NativeInv, BreaksServed, Keeping, OneAtATime
<1>12. Native!CallsGetThrough'
  BY <1>a DEF NativeInv, Native!CallsGetThrough
<1> QED
  BY <1>1, <1>2, <1>3, <1>4, <1>5, <1>6, <1>7, <1>8, <1>9, <1>10, <1>11, <1>12 DEF NativeInv

\* frees the slot,
LEMMA FreeSlotMoves ==
  ASSUME NativeInv, Native!FreeSlot
  PROVE  NativeInv'
<1> DEFINE f == Native!F("detach")
<1>a. /\ pos["detach"] = "slot" /\ rest["detach"] # <<>> /\ f \in Native!Fn /\ fitted[f]
      /\ f = Native!F("detach")
      /\ pos' = [pos EXCEPT !["detach"] = "clear"]
      /\ UNCHANGED <<kind, denies, text, stub, fitted, listening, ready, rest, turns,
         caller, made, refused, unlucky>>
  BY NativeCast
     DEF NativeInv, WalkTypes, Native!F, Native!FreeSlot, Native!Here, Native!Goes,
         Native!Still
<1>b. /\ slots' \in [Native!Slot -> SlotRecord] /\ slots \in [Native!Slot -> SlotRecord]
      /\ \A i \in Native!Slot : IF slots[i].target = f THEN slots'[i].target = f
         /\ slots'[i].active = 0 ELSE slots'[i] = slots[i]
  <2>1. slots \in [Native!Slot -> SlotRecord]
    BY DEF NativeInv, SlotTypes
  <2>2. slots' = [i \in Native!Slot |->
                    IF slots[i].target = f THEN [slots[i] EXCEPT !.active = 0] ELSE slots[i]]
    BY DEF Native!FreeSlot
  <2>3. \A i \in Native!Slot : slots'[i] = IF slots[i].target = f
          THEN [slots[i] EXCEPT !.active = 0] ELSE slots[i]
    BY <2>2
  <2>4. \A i \in Native!Slot : slots'[i] \in SlotRecord
    BY <2>1, <2>3, SlotFreed
  <2> QED
    BY <2>1, <2>2, <2>3, <2>4
<1> HIDE DEF f
<1>1. PatchTypes'
  BY <1>a, <1>b, SlotRecords DEF NativeInv, PatchTypes
<1>2. SlotTypes'
  BY <1>a, <1>b DEF SlotTypes
<1>3. CallerTypes'
  BY <1>a, <1>b DEF NativeInv, CallerTypes
<1>4. WalkTypes'
  BY <1>a, <1>b DEF NativeInv, WalkTypes, Native!F
<1>5. OneAtATime'
  BY <1>a, <1>b DEF NativeInv, OneAtATime
<1>6. RemovalReaches'
  BY <1>a, <1>b DEF NativeInv, RemovalReaches
<1>7. StubsFirst'
  BY <1>a, <1>b DEF NativeInv, StubsFirst, OneAtATime
<1>8. ~refused' => TextKnown'
  BY <1>a, <1>b DEF NativeInv, Native!F, TextKnown, Patching, Unpatching
<1>9. ~refused' => SlotsHeld'
  BY <1>a, <1>b, SlotRecords, NativeCast, Walks, SMTT(20)
     DEF NativeInv, PatchTypes, WalkTypes, Native!F, SlotTypes, SlotsHeld, Keeping,
         OneAtATime
<1>10. ~refused' => ClaimedOnce'
  <2>1. \A i \in Native!Slot : slots'[i].active = 2 => slots'[i] = slots[i]
    BY <1>b
  <2>2. pos'["loop"] # "fill"
    BY <1>a DEF NativeInv, OneAtATime
  <2> QED
    BY <1>a, <2>1, <2>2 DEF NativeInv, ClaimedOnce
<1>11. ~refused' => BreaksServed'
  <2>1. ASSUME ~refused', NEW g \in Native!Fn, Keeping(g)', ~(Native!F("detach")' = g)
        PROVE  \E i \in Native!Slot : slots'[i].active = 1 /\ slots'[i].entry
                 /\ slots'[i].target = g
    <3>1. g # f /\ Keeping(g) /\ ~(pos["detach"] = "clear" /\ Native!F("detach") = g) /\ ~refused
      BY <1>a, <2>1 DEF Keeping, Native!F
    <3>2. PICK i \in Native!Slot : slots[i].active = 1 /\ slots[i].entry /\ slots[i].target = g
      BY <3>1 DEF NativeInv, BreaksServed
    <3> QED
      BY <1>b, <3>1, <3>2
  <2> QED
    BY <1>a, <2>1, NativeCast DEF NativeInv, WalkTypes, BreaksServed
<1>12. Native!CallsGetThrough'
  BY <1>a, <1>b DEF NativeInv, Native!CallsGetThrough
<1> QED
  BY <1>1, <1>2, <1>3, <1>4, <1>5, <1>6, <1>7, <1>8, <1>9, <1>10, <1>11, <1>12 DEF NativeInv

\* clears it,
LEMMA ClearSlotMoves ==
  ASSUME NativeInv, Native!ClearSlot
  PROVE  NativeInv'
<1> DEFINE f == Native!F("detach")
<1>a. /\ pos["detach"] = "clear" /\ rest["detach"] # <<>>
      /\ rest["detach"] \in Seq(Native!Fn) /\ f \in Native!Fn /\ fitted[f]
      /\ f = Native!F("detach") /\ f = Head(rest["detach"])
      /\ pos' = [pos EXCEPT !["detach"] = "remove"] /\ fitted' = [fitted EXCEPT ![f] = FALSE]
      /\ rest' = [rest EXCEPT !["detach"] = Tail(rest["detach"])]
      /\ Tail(rest["detach"]) \in Seq(Native!Fn)
      /\ UNCHANGED <<kind, denies, text, stub, listening, ready, turns, caller, made,
         refused, unlucky>>
  BY NativeCast
     DEF NativeInv, WalkTypes, Native!F, Native!ClearSlot, Native!Here, Native!NextHook,
         Native!Goes, Native!Still
<1>b. /\ slots' \in [Native!Slot -> SlotRecord] /\ slots \in [Native!Slot -> SlotRecord]
      /\ \A i \in Native!Slot : slots'[i] = IF slots[i].target = f THEN Native!Unused
         ELSE slots[i]
  BY SlotRecords DEF NativeInv, SlotTypes, Native!ClearSlot, Native!Emptied
<1> HIDE DEF f
<1>c. rest'["detach"] = Tail(rest["detach"])
      /\ \A g \in Native!Fn \ {f} :
           (\E i \in DOMAIN rest["detach"] : rest["detach"][i] = g) =>
        \E i \in DOMAIN rest'["detach"] : rest'["detach"][i] = g
  <2>1. rest'["detach"] = Tail(rest["detach"])
    BY <1>a, NativeCast DEF NativeInv, WalkTypes
  <2> QED
    BY <1>a, <2>1, Walks, SMTT(20)
<1>1. PatchTypes'
  BY <1>a, <1>b, <1>c, SlotRecords DEF NativeInv, PatchTypes
<1>2. SlotTypes'
  BY <1>a, <1>b, <1>c DEF SlotTypes
<1>3. CallerTypes'
  BY <1>a, <1>b, <1>c DEF NativeInv, CallerTypes
<1>4. WalkTypes'
  BY <1>a, <1>b, <1>c DEF NativeInv, WalkTypes, OneAtATime, Native!Installer
<1>5. OneAtATime'
  BY <1>a, <1>b, <1>c DEF NativeInv, OneAtATime
<1>6. RemovalReaches'
  <2>1. \A g \in Native!Fn : fitted'[g] => fitted[g] /\ g # f
    BY <1>a DEF NativeInv, PatchTypes
  <2>2. ready' = ready /\ ready /\ pos'["detach"] = "remove"
    BY <1>a, NativeCast DEF NativeInv, OneAtATime, WalkTypes
  <2> QED
    BY <1>a, <1>c, <2>1, <2>2 DEF NativeInv, RemovalReaches
<1>7. StubsFirst'
  BY <1>a, <1>b, <1>c DEF NativeInv, StubsFirst, OneAtATime
<1>8. ~refused' => TextKnown'
  <2>1. ASSUME ~refused', NEW g \in Native!Fn
        PROVE  text'[g] = IF Patching(g)' THEN IF kind'[g] = "break" THEN "break" ELSE "torn"
                          ELSE IF fitted'[g] /\ ~Unpatching(g)' THEN kind'[g] ELSE "own"
    <3>1. ~refused /\ TextKnown
      BY <1>a, <2>1 DEF NativeInv
    <3>2. CASE g = f
      <4>1. ~Patching(g) /\ Unpatching(g) /\ ~Patching(g)' /\ ~fitted'[g]
        BY <1>a, <3>2 DEF NativeInv, PatchTypes, OneAtATime, Patching, Unpatching
      <4>2. text[g] = "own"
        BY <3>1, <4>1 DEF TextKnown
      <4>3. text'[g] = text[g]
        BY <1>a
      <4> QED
        BY <4>1, <4>2, <4>3
    <3>3. CASE g # f
      <4>1. /\ text'[g] = text[g] /\ kind'[g] = kind[g] /\ fitted'[g] = fitted[g]
            /\ ~Patching(g) /\ ~Patching(g)' /\ ~Unpatching(g) /\ ~Unpatching(g)'
        BY <1>a, <3>3 DEF NativeInv, WalkTypes, OneAtATime, Patching, Unpatching, Native!F
      <4> QED
        BY <3>1, <4>1, <1>a DEF TextKnown
    <3> QED
      BY <3>2, <3>3
  <2> QED
    BY <2>1 DEF TextKnown
<1>9. ~refused' => SlotsHeld'
  BY <1>a, <1>b, <1>c DEF NativeInv, SlotsHeld, Keeping, OneAtATime
<1>10. ~refused' => ClaimedOnce'
  <2>1. \A i \in Native!Slot : slots'[i].active = 2 => slots'[i] = slots[i]
    BY <1>b, SlotRecords
  <2>2. pos'["loop"] # "fill"
    BY <1>a DEF NativeInv, OneAtATime
  <2> QED
    BY <1>a, <2>1, <2>2 DEF NativeInv, ClaimedOnce
<1>11. ~refused' => BreaksServed'
  <2>1. ASSUME ~refused', NEW g \in Native!Fn, Keeping(g)'
        PROVE  \E i \in Native!Slot : slots'[i].active = 1 /\ slots'[i].entry
                 /\ slots'[i].target = g
    <3>1. g # f /\ Keeping(g) /\ ~refused
      BY <1>a, <2>1 DEF NativeInv, PatchTypes, Keeping, OneAtATime
    <3>2. PICK i \in Native!Slot : slots[i].active = 1 /\ slots[i].entry /\ slots[i].target = g
      BY <1>a, <3>1 DEF NativeInv, BreaksServed
    <3> QED
      BY <1>b, <3>1, <3>2
  <2> QED
    BY <2>1 DEF BreaksServed
<1>12. Native!CallsGetThrough'
  BY <1>a, <1>b, <1>c DEF NativeInv, Native!CallsGetThrough
<1> QED
  BY <1>1, <1>2, <1>3, <1>4, <1>5, <1>6, <1>7, <1>8, <1>9, <1>10, <1>11, <1>12 DEF NativeInv

\* and is through.
LEMMA ShutDownMoves ==
  ASSUME NativeInv, Native!ShutDown
  PROVE  NativeInv'
<1>1. PatchTypes'
  BY NativeCast
     DEF NativeInv, PatchTypes, Native!F, WalkTypes, Native!ShutDown, Native!Goes,
         Native!Still, Native!work
<1>2. SlotTypes'
  BY DEF NativeInv, SlotTypes, Native!ShutDown
<1>3. CallerTypes'
  BY DEF NativeInv, CallerTypes, Native!ShutDown, Native!Still
<1>4. WalkTypes'
  BY DEF NativeInv, WalkTypes, OneAtATime, Native!ShutDown, Native!Goes
<1>5. OneAtATime'
  BY NativeCast DEF NativeInv, WalkTypes, OneAtATime, Native!ShutDown, Native!Goes
<1>6. RemovalReaches'
  BY DEF NativeInv, RemovalReaches, Native!ShutDown
<1>7. StubsFirst'
  BY DEF NativeInv, StubsFirst, OneAtATime, Native!ShutDown, Native!Goes, Native!Still
<1>8. ~refused' => TextKnown'
  BY DEF NativeInv, TextKnown, Patching, OneAtATime, RemovalReaches, Native!ShutDown,
         Native!Goes
<1>9. ~refused' => SlotsHeld'
  BY DEF NativeInv, SlotsHeld, Keeping, OneAtATime, Native!ShutDown, Native!Still
<1>10. ~refused' => ClaimedOnce'
  BY DEF NativeInv, ClaimedOnce, OneAtATime, Native!ShutDown, Native!Goes
<1>11. ~refused' => BreaksServed'
  BY DEF NativeInv, BreaksServed, Keeping, OneAtATime, Native!ShutDown, Native!Goes,
         Native!Still
<1>12. Native!CallsGetThrough'
  BY DEF NativeInv, Native!CallsGetThrough, Native!ShutDown, Native!Still
<1> QED
  BY <1>1, <1>2, <1>3, <1>4, <1>5, <1>6, <1>7, <1>8, <1>9, <1>10, <1>11, <1>12 DEF NativeInv

\* A thread of the program calls a function, whatever its first bytes are.
LEMMA CallFnMoves ==
  ASSUME NativeInv, NEW t \in Thread, Native!CallFn(t)
  PROVE  NativeInv'
<1>a. PICK f \in Native!Fn :
        /\ caller' = [caller EXCEPT ![t] =
                        [at |-> CASE text[f] = "jump" -> "wrapper" [] text[f] = "break" -> "trap"
                                  [] text[f] = "torn" -> "crashed" [] OTHER -> "out", fn |-> f]]
        /\ unlucky' = (unlucky \/ text[f] = "torn")
  BY DEF Native!CallFn, Native!Moves
<1> DEFINE to == CASE text[f] = "jump" -> "wrapper" [] text[f] = "break" -> "trap"
                     [] text[f] = "torn" -> "crashed" [] OTHER -> "out"
<1>b. /\ to \in {"out", "trap", "wrapper", "crashed"}
      /\ (to \in {"trap", "wrapper"} => text[f] # "own")
      /\ (to = "crashed" => text[f] = "torn")
  OBVIOUS
<1>c. caller' = [caller EXCEPT ![t] = [at |-> to, fn |-> f]]
  BY <1>a
<1> HIDE DEF to
<1>d. /\ caller' \in [Thread -> [at : CallPlaces, fn : Native!Fn]]
      /\ caller'[t].at = to /\ caller'[t].fn = f /\ \A u \in Thread \ {t} : caller'[u] = caller[u]
  BY <1>b, <1>c DEF NativeInv, CallerTypes, CallPlaces
<1>e. /\ unlucky' \in BOOLEAN /\ (unlucky \/ text[f] = "torn" => unlucky')
         /\ made' \in 0..NativeCallMax
      /\ UNCHANGED <<kind, denies, text, slots, stub, fitted, listening, ready, pos, rest,
         turns, refused>>
  <2>1. made < NativeCallMax /\ made' = made + 1 /\ made \in 0..NativeCallMax
        /\ NativeCallMax \in Nat
    BY NativeCast DEF NativeInv, PatchTypes, Native!CallFn
  <2>2. UNCHANGED <<kind, denies, text, slots, stub, fitted, listening, ready, pos, rest,
          turns, refused>>
    BY DEF Native!CallFn, Native!Alone, Native!work, Native!run
  <2>3. unlucky \in BOOLEAN
    BY DEF NativeInv, PatchTypes
  <2>4. unlucky' \in BOOLEAN /\ (unlucky \/ text[f] = "torn" => unlucky')
    BY <1>a, <2>3, Zenon
  <2>5. made' \in 0..NativeCallMax
    BY <2>1
  <2> QED
    BY <2>2, <2>4, <2>5
<1>1. PatchTypes'
  BY <1>b, <1>d, <1>e DEF NativeInv, PatchTypes
<1>2. SlotTypes'
  BY <1>b, <1>d, <1>e DEF NativeInv, SlotTypes
<1>3. CallerTypes'
  BY <1>b, <1>d, <1>e DEF CallerTypes
<1>4. WalkTypes'
  BY <1>b, <1>d, <1>e DEF NativeInv, WalkTypes, Native!F
<1>5. OneAtATime'
  BY <1>b, <1>d, <1>e DEF NativeInv, OneAtATime
<1>6. RemovalReaches'
  BY <1>b, <1>d, <1>e DEF NativeInv, RemovalReaches
<1>7. StubsFirst'
  BY <1>b, <1>d, <1>e, NativeCast, Walks
     DEF NativeInv, PatchTypes, WalkTypes, Native!F, CallerTypes, StubsFirst, OneAtATime,
         Native!work
<1>8. ~refused' => TextKnown'
  BY <1>e, TextSame DEF NativeInv
<1>9. ~refused' => SlotsHeld'
  BY <1>e, TextSame DEF NativeInv
<1>10. ~refused' => ClaimedOnce'
  BY <1>e, TextSame DEF NativeInv
<1>11. ~refused' => BreaksServed'
  BY <1>e, TextSame DEF NativeInv
<1>12. Native!CallsGetThrough'
  BY <1>b, <1>d, <1>e, Walks
     DEF NativeInv, PatchTypes, WalkTypes, CallerTypes, Native!CallsGetThrough, StubsFirst
<1> QED
  BY <1>1, <1>2, <1>3, <1>4, <1>5, <1>6, <1>7, <1>8, <1>9, <1>10, <1>11, <1>12 DEF NativeInv

\* The handler of the breakpoint looks for the slot of the function.
LEMMA TrapMoves ==
  ASSUME NativeInv, NEW t \in Thread, Native!Trap(t)
  PROVE  NativeInv'
<1> DEFINE f  == caller[t].fn
           to == IF \E i \in Native!Serving(f) : slots[i].entry THEN "wrapper" ELSE "crashed"
<1>a. /\ caller[t].at = "trap" /\ f \in Native!Fn /\ to \in {"wrapper", "crashed"}
      /\ f = caller[t].fn
      /\ caller' = [caller EXCEPT ![t] = [at |-> to, fn |-> f]]
      /\ (to = "crashed" =>
            \A i \in Native!Slot : slots[i].active # 0 /\ slots[i].target = f => ~slots[i].entry)
  BY DEF NativeInv, CallerTypes, Native!Trap, Native!Moves, Native!Serving
<1> HIDE DEF to, f
<1>b. /\ caller' \in [Thread -> [at : CallPlaces, fn : Native!Fn]]
      /\ caller'[t].at = to /\ caller'[t].fn = f /\ \A u \in Thread \ {t} : caller'[u] = caller[u]
  BY <1>a DEF NativeInv, CallerTypes, CallPlaces
<1>c. /\ unlucky' \in BOOLEAN
      /\ (unlucky \/ pos["detach"] # "idle" \/ text[f] # "break" => unlucky')
      /\ UNCHANGED <<kind, denies, text, slots, stub, fitted, listening, ready, pos, rest,
         turns, made, refused>>
  BY DEF NativeInv, PatchTypes, CallerTypes, CallPlaces, Native!Trap, Native!Alone,
         Native!work, Native!run, f
<1>1. PatchTypes'
  BY <1>a, <1>b, <1>c DEF NativeInv, PatchTypes
<1>2. SlotTypes'
  BY <1>a, <1>b, <1>c DEF NativeInv, SlotTypes
<1>3. CallerTypes'
  BY <1>a, <1>b, <1>c DEF CallerTypes
<1>4. WalkTypes'
  BY <1>a, <1>b, <1>c DEF NativeInv, WalkTypes, Native!F
<1>5. OneAtATime'
  BY <1>a, <1>b, <1>c DEF NativeInv, OneAtATime
<1>6. RemovalReaches'
  BY <1>a, <1>b, <1>c DEF NativeInv, RemovalReaches
<1>7. StubsFirst'
  <2>1. \A u \in Thread : caller'[u].at \in {"trap", "wrapper"} => stub[caller'[u].fn]
    BY <1>a, <1>b DEF NativeInv, StubsFirst
  <2> QED
    BY <1>c, <2>1 DEF NativeInv, StubsFirst, Native!F
<1>8. ~refused' => TextKnown'
  BY <1>c, TextSame DEF NativeInv
<1>9. ~refused' => SlotsHeld'
  BY <1>c, TextSame DEF NativeInv
<1>10. ~refused' => ClaimedOnce'
  BY <1>c, TextSame DEF NativeInv
<1>11. ~refused' => BreaksServed'
  BY <1>c, TextSame DEF NativeInv
<1>12. Native!CallsGetThrough'
  <2>1. ASSUME ~refused', ~unlucky' PROVE to # "crashed"
    <3>1. ~refused /\ pos["detach"] = "idle" /\ text[f] = "break"
      BY <1>c, <2>1
    <3>2. Keeping(f)
      BY <1>a, <3>1 DEF NativeInv, TextKnown, Patching, Keeping
    <3> QED
      BY <1>a, <3>1, <3>2 DEF NativeInv, BreaksServed
  <2> QED
    BY <1>a, <1>b, <1>c, <2>1 DEF NativeInv, Native!CallsGetThrough
<1> QED
  BY <1>1, <1>2, <1>3, <1>4, <1>5, <1>6, <1>7, <1>8, <1>9, <1>10, <1>11, <1>12 DEF NativeInv

\* The wrapper calls the original through the stub.
LEMMA WrapperMoves ==
  ASSUME NativeInv, NEW t \in Thread, Native!Wrapper(t)
  PROVE  NativeInv'
<1>1. PatchTypes'
  BY DEF NativeInv, PatchTypes, Native!Wrapper, Native!Alone, Native!run, Native!work
<1>2. SlotTypes'
  BY DEF NativeInv, SlotTypes, Native!Wrapper, Native!Alone, Native!work
<1>3. CallerTypes'
  BY DEF NativeInv, CallerTypes, CallPlaces, Native!Wrapper, Native!Moves
<1>4. WalkTypes'
  BY DEF NativeInv, WalkTypes, Native!F, Native!Wrapper, Native!Alone, Native!run, Native!work
<1>5. OneAtATime'
  BY DEF NativeInv, OneAtATime, Native!Wrapper, Native!Alone, Native!run, Native!work
<1>6. RemovalReaches'
  BY DEF NativeInv, RemovalReaches, Native!Wrapper, Native!Alone, Native!run, Native!work
<1>7. StubsFirst'
  BY DEF NativeInv, Native!F, StubsFirst, Native!Wrapper, Native!Moves, Native!Alone,
         Native!run, Native!work
<1>8. ~refused' => TextKnown'
  BY TextSame DEF NativeInv, Native!Wrapper, Native!Alone, Native!work, Native!run
<1>9. ~refused' => SlotsHeld'
  BY TextSame DEF NativeInv, Native!Wrapper, Native!Alone, Native!work, Native!run
<1>10. ~refused' => ClaimedOnce'
  BY TextSame DEF NativeInv, Native!Wrapper, Native!Alone, Native!work, Native!run
<1>11. ~refused' => BreaksServed'
  BY TextSame DEF NativeInv, Native!Wrapper, Native!Alone, Native!work, Native!run
<1>12. Native!CallsGetThrough'
  BY DEF NativeInv, Native!CallsGetThrough, StubsFirst, Native!Wrapper, Native!Moves,
         Native!Alone
<1> QED
  BY <1>1, <1>2, <1>3, <1>4, <1>5, <1>6, <1>7, <1>8, <1>9, <1>10, <1>11, <1>12 DEF NativeInv

-----------------------------------------------------------------------------
(* The invariant holds.                                                     *)

\* Nothing is patched at first.
LEMMA NativeInit == Native!Init => NativeInv
<1> SUFFICES ASSUME Native!Init PROVE NativeInv
  OBVIOUS
<1>1. PatchTypes
  <2>1. turns \in 0..TurnMax /\ made \in 0..NativeCallMax
    BY NativeCast DEF Native!Init
  <2>2. denies \in BOOLEAN /\ kind \in [Native!Fn -> PatchKinds]
    BY DEF Native!Init
  <2>3. listening \in BOOLEAN /\ ready \in BOOLEAN /\ refused \in BOOLEAN /\ unlucky \in BOOLEAN
    BY DEF Native!Init
  <2>4. /\ text \in [Native!Fn -> {"own", "torn", "jump", "break"}]
        /\ stub \in [Native!Fn -> BOOLEAN] /\ fitted \in [Native!Fn -> BOOLEAN]
    BY DEF Native!Init
  <2> QED
    BY <2>1, <2>2, <2>3, <2>4 DEF PatchTypes
<1>2. SlotTypes /\ WalkTypes
  BY SlotRecords DEF Native!Init, SlotTypes, WalkTypes, Native!Installer
<1>3. CallerTypes /\ Native!CallsGetThrough
  BY NativeCast DEF Native!Init, CallerTypes, CallPlaces, Native!CallsGetThrough
<1>4. OneAtATime /\ RemovalReaches /\ StubsFirst
  BY NativeCast DEF Native!Init, OneAtATime, RemovalReaches, StubsFirst
<1>5. TextKnown
  BY NativeCast DEF Native!Init, TextKnown, Patching
<1>6. SlotsHeld /\ ClaimedOnce /\ BreaksServed
  BY NativeCast, SlotRecords DEF Native!Init, SlotsHeld, ClaimedOnce, BreaksServed, Keeping
<1> QED
  BY <1>1, <1>2, <1>3, <1>4, <1>5, <1>6 DEF NativeInv

\* Every step of the two installers and of the program keeps the invariant.
LEMMA NativeKept == NativeInv /\ [Native!Next]_Native!vars => NativeInv'
<1> SUFFICES ASSUME NativeInv, [Native!Next]_Native!vars PROVE NativeInv'
  OBVIOUS
<1>1. CASE UNCHANGED Native!vars
  BY <1>1, TextSame
     DEF NativeInv, PatchTypes, SlotTypes, CallerTypes, WalkTypes, OneAtATime,
         RemovalReaches, StubsFirst, Native!CallsGetThrough, Native!F, Native!vars,
         Native!work, Native!run
<1>2. ASSUME Native!Stub PROVE NativeInv'
  <2>1. Native!F("loop") \in Native!Fn /\ kind[Native!F("loop")] \in {"jump", "break"}
    BY <1>2, NativeCast
       DEF Native!Stub, Native!Here, Native!F, NativeInv, PatchTypes, WalkTypes
  <2>2. \A i \in Native!Slot : slots[i].active = 0 \/ slots[i].active # 0
    OBVIOUS
  <2> QED
    BY <1>2, <2>1, StubJump, StubClaims, StubFull
<1>3. ASSUME Native!InstallStep PROVE NativeInv'
  BY <1>2, <1>3, InitializeMoves, SkipMoves, FillSlotMoves, ProtectFailsMoves,
     WriteFirstMoves, WriteRestMoves, InitializedMoves
     DEF Native!InstallStep
<1>4. ASSUME Native!RemoveStep PROVE NativeInv'
  BY <1>4, ShutdownMoves, RemoveSkipMoves, RestoreTextMoves, FreeSlotMoves, ClearSlotMoves,
     ShutDownMoves
     DEF Native!RemoveStep
<1>5. ASSUME NEW t \in Thread, Native!CallFn(t) \/ Native!Trap(t)
               \/ Native!Wrapper(t) PROVE NativeInv'
  BY <1>5, CallFnMoves, TrapMoves, WrapperMoves
<1> QED
  BY <1>1, <1>3, <1>4, <1>5 DEF Native!Next

\* The invariant says what the run's type invariant says,
LEMMA NativeTyped == NativeInv => Native!TypeOK
BY DEF NativeInv, PatchTypes, SlotTypes, CallerTypes, SlotRecord, CallPlaces, Native!TypeOK

\* that every call gets through,
LEMMA NativeThrough == NativeInv => Native!CallsGetThrough
BY DEF NativeInv

\* and that a shutdown leaves nothing behind.
LEMMA NativeGone == NativeInv => Native!ShutdownRestores
<1> SUFFICES ASSUME NativeInv, ~refused, ~ready, pos["loop"] = "idle", pos["detach"] = "idle"
             PROVE  (\A f \in Native!Fn : text[f] = "own")
                      /\ (\A i \in Native!Slot : slots[i] = Native!Unused)
  BY NativeCast DEF Native!ShutdownRestores
<1>1. \A f \in Native!Fn : ~fitted[f]
  BY DEF NativeInv, RemovalReaches
<1>2. \A f \in Native!Fn : text[f] = "own"
  BY <1>1 DEF NativeInv, TextKnown, Patching
<1>3. \A i \in Native!Slot : slots[i] = Native!Unused
  BY <1>1 DEF NativeInv, SlotsHeld, Keeping
<1> QED
  BY <1>2, <1>3

-----------------------------------------------------------------------------
(* What a hooked native call does: a call inside a call, and what each of    *)
(* them has done by the point it is at.                                      *)

CallPoint == {"enter", "traced", "classify", "original", "after", "publish", "guard",
              "callback", "told", "flush", "swap", "send", "return", "gone"}
Asks      == {Calls!Q, Calls!V, Calls!A, Calls!P}
FrameSet  == [fn : Hooked, at : CallPoint, handle : Calls!Handle,
              todo : Seq(Asks), rule : Calls!Rule,
              ignored : BOOLEAN, ok : BOOLEAN, ran : BOOLEAN, told : 0..1, watched : BOOLEAN]

CallTypes ==
  /\ scope \in [Program -> Nat]
  /\ callback \in BOOLEAN /\ begun \in 0..CallMax
  /\ rules \in Calls!Policy
  /\ frames \in [Program -> Seq(FrameSet)] /\ \A t \in Program : Len(frames[t]) <= NestMax

\* BLIND has its thread marked in the calls at these points.
Mark(f)      == f.at \in {"traced", "guard", "callback"}
Marks(s)     == {i \in DOMAIN s : Mark(s[i])}
Marked(s, i) == \E j \in 1..(i - 1) : Mark(s[j])

\* A thread's counter is the number of these calls.
MarksCounted == \A t \in Program : scope[t] = Cardinality(Marks(frames[t]))

\* Somebody is to hear of the call.
Due(f) == IF f.rule.matched THEN ~f.ignored /\ (f.rule.log \/ f.rule.action # "none")
          ELSE f.ok \/ Calls!HookEntry[f.fn].always

\* What is true of a call at each point, inside BLIND's own work (m) or not.
Fits(f, m, heard) ==
  /\ f.watched => heard
  /\ Calls!Denied(f) => ~f.ran
  /\ f.at \in {"enter", "traced", "classify", "after", "publish", "guard", "callback"} => f.told = 0
  /\ f.at \in {"enter", "traced", "classify", "original"} => ~f.ran
  /\ f.at = "original" /\ ~Calls!HookEntry[f.fn].first => f.told = 0
  /\ f.at = "original" /\ Calls!HookEntry[f.fn].first /\ f.watched =>
       f.told = IF Due(f) /\ ~m THEN 1 ELSE 0
  /\ f.at \in {"told", "flush", "swap", "send"} =>
       /\ Calls!HookEntry[f.fn].first /\ ~f.ran
       /\ f.watched => f.told = IF Due(f) /\ ~m THEN 1 ELSE 0
  /\ f.at = "after" => ~Calls!HookEntry[f.fn].first
  /\ f.at \in {"publish", "guard", "callback"} /\ Calls!HookEntry[f.fn].first => ~f.ran
  /\ Mark(f) => ~m
  /\ f.at = "callback" => Due(f)
  /\ f.at \in {"return", "gone"} /\ f.watched => f.told = IF Due(f) /\ ~m THEN 1 ELSE 0

EachFits ==
  \A t \in Program : \A i \in DOMAIN frames[t] : Fits(frames[t][i], Marked(frames[t], i), callback)

CallsInv == CallTypes /\ MarksCounted /\ EachFits

Shape == [before : BOOLEAN, after : BOOLEAN, scans : BOOLEAN, always : BOOLEAN,
          first : BOOLEAN, quiet : BOOLEAN]

\* What the five ways to adjust a wrapper leave alone.
LEMMA Adjusted ==
  /\ Calls!Plain \in Shape /\ ~Calls!Plain.first
  /\ \A w \in Shape :
       /\ Calls!LooksUpFirst(w) \in Shape /\ Calls!LooksUpFirst(w).first = w.first
       /\ Calls!LooksUp(w) \in Shape /\ Calls!LooksUp(w).first = w.first
       /\ Calls!Scans(w) \in Shape /\ Calls!Scans(w).first = w.first
       /\ Calls!Always(w) \in Shape /\ Calls!Always(w).first = w.first /\ Calls!Always(w).always
       /\ [w EXCEPT !.quiet = TRUE] \in Shape /\ [w EXCEPT !.quiet = TRUE].first = w.first
       /\ [w EXCEPT !.first = TRUE] \in Shape /\ [w EXCEPT !.first = TRUE].always = w.always
BY DEF Shape, Calls!Plain, Calls!LooksUpFirst, Calls!LooksUp, Calls!Scans, Calls!Always

WellMade(w) == w \in Shape /\ (w.first => w.always)

\* So all the wrappers there are have their shape, ...
LEMMA AdjustedKnown ==
  /\ WellMade(Calls!Plain) /\ WellMade(Calls!LooksUp(Calls!Plain))
  /\ WellMade(Calls!LooksUpFirst(Calls!Plain)) /\ WellMade(Calls!Always(Calls!Plain))
  /\ WellMade(Calls!Scans(Calls!LooksUp(Calls!Plain)))
  /\ WellMade([Calls!Scans(Calls!LooksUp(Calls!Plain)) EXCEPT !.quiet = TRUE])
  /\ WellMade([Calls!Always(Calls!LooksUp(Calls!Plain)) EXCEPT !.first = TRUE])
BY Adjusted DEF WellMade

\* ... and each hooked function has one.  One that publishes first publishes always.
LEMMA EntryKnown == \A f \in Hooked : WellMade(Calls!HookEntry[f])
<1>1. /\ WellMade(Calls!NtCreateThread) /\ WellMade(Calls!NtCreateThreadEx)
      /\ WellMade(Calls!NtWriteVirtualMemory)
      /\ WellMade(Calls!NtAllocateVirtualMemory) /\ WellMade(Calls!NtProtectVirtualMemory)
      /\ WellMade(Calls!NtReadVirtualMemory)
      /\ WellMade(Calls!NtQueryVirtualMemory) /\ WellMade(Calls!NtQuerySystemInformation)
      /\ WellMade(Calls!NtQuerySystemInformationEx)
      /\ WellMade(Calls!NtGetNextThread) /\ WellMade(Calls!NtCreateSection)
      /\ WellMade(Calls!NtTerminateProcess)
      /\ WellMade(Calls!NtOpenProcessToken) /\ WellMade(Calls!NtOpenThreadToken)
      /\ WellMade(Calls!NtOpenFile)
      /\ WellMade(Calls!NtQueryInformationProcess)
      /\ WellMade(Calls!NtQueryInformationThread) /\ WellMade(Calls!NtSetContextThread)
      /\ WellMade(Calls!NtQuerySection) /\ WellMade(Calls!NtQueryBootOptions)
      /\ WellMade(Calls!NtOpenProcess)
      /\ WellMade(Calls!NtOpenThread) /\ WellMade(Calls!NtDuplicateObject)
      /\ WellMade(Calls!NtGetContextThread)
      /\ WellMade(Calls!NtSuspendThread) /\ WellMade(Calls!NtResumeThread)
      /\ WellMade(Calls!NtQueueApcThread)
      /\ WellMade(Calls!NtAllocateVirtualMemoryEx) /\ WellMade(Calls!NtMapViewOfSectionEx)
      /\ WellMade(Calls!NtMapViewOfSection)
      /\ WellMade(Calls!NtUnmapViewOfSection) /\ WellMade(Calls!NtUnmapViewOfSectionEx)
      /\ WellMade(Calls!NtQueueApcThreadEx)
      /\ WellMade(Calls!NtQueueApcThreadEx2) /\ WellMade(Calls!NtOpenProcessTokenEx)
      /\ WellMade(Calls!NtOpenThreadTokenEx)
  BY AdjustedKnown
     DEF Calls!NtCreateThread, Calls!NtCreateThreadEx, Calls!NtWriteVirtualMemory,
         Calls!NtAllocateVirtualMemory, Calls!NtProtectVirtualMemory,
         Calls!NtReadVirtualMemory, Calls!NtQueryVirtualMemory,
         Calls!NtQuerySystemInformation, Calls!NtQuerySystemInformationEx,
         Calls!NtGetNextThread, Calls!NtCreateSection, Calls!NtTerminateProcess,
         Calls!NtOpenProcessToken, Calls!NtOpenThreadToken, Calls!NtOpenFile,
         Calls!NtQueryInformationProcess, Calls!NtQueryInformationThread,
         Calls!NtSetContextThread, Calls!NtQuerySection, Calls!NtQueryBootOptions,
         Calls!NtOpenProcess, Calls!NtOpenThread, Calls!NtDuplicateObject,
         Calls!NtGetContextThread, Calls!NtSuspendThread, Calls!NtResumeThread,
         Calls!NtQueueApcThread, Calls!NtAllocateVirtualMemoryEx,
         Calls!NtMapViewOfSectionEx, Calls!NtMapViewOfSection, Calls!NtUnmapViewOfSection,
         Calls!NtUnmapViewOfSectionEx, Calls!NtQueueApcThreadEx,
         Calls!NtQueueApcThreadEx2, Calls!NtOpenProcessTokenEx, Calls!NtOpenThreadTokenEx
<1>2. \A f \in DOMAIN Calls!HookEntry : WellMade(Calls!HookEntry[f])
  BY <1>1 DEF Calls!HookEntry
<1> QED
  BY <1>2, CallsKnown

\* What a wrapper asks for itself are BLIND's own calls.
LEMMA Asked ==
  /\ \A h \in Calls!Handle : Calls!PidCalls(h) \subseteq Seq(Asks) /\ Calls!ScanCalls(h) \subseteq Seq(Asks)
  /\ Calls!Queried \subseteq Seq(Asks)
  /\ <<>> \in Seq(Asks) /\ <<Calls!V>> \in Seq(Asks) /\ <<Calls!A>> \in Seq(Asks)
<1>1. Calls!Q \in Asks /\ Calls!V \in Asks /\ Calls!A \in Asks /\ Calls!P \in Asks
  BY DEF Asks
<1>2. <<>> \in Seq(Asks) /\ <<Calls!Q>> \in Seq(Asks) /\ <<Calls!V>> \in Seq(Asks)
      /\ <<Calls!A>> \in Seq(Asks) /\ <<Calls!P>> \in Seq(Asks)
      /\ <<Calls!Q, Calls!Q>> \in Seq(Asks) /\ <<Calls!P, Calls!V>> \in Seq(Asks)
  BY <1>1
<1>3. Calls!Queried \subseteq Seq(Asks) /\ Calls!Registered \subseteq Seq(Asks)
  BY <1>2 DEF Calls!Queried, Calls!Registered
<1>4. \A x, y \in Seq(Asks) : x \o y \in Seq(Asks)
  BY ConcatProperties
<1>5. Calls!Scanned \subseteq Seq(Asks)
  BY <1>2, <1>3, <1>4 DEF Calls!Scanned
<1>6. {<<Calls!Q>> \o q : q \in Calls!Scanned} \subseteq Seq(Asks)
  BY <1>2, <1>4, <1>5
<1>7. ASSUME NEW h \in Calls!Handle
      PROVE  Calls!PidCalls(h) \subseteq Seq(Asks) /\ Calls!ScanCalls(h) \subseteq Seq(Asks)
  BY <1>2, <1>5, <1>6 DEF Calls!Handle, Calls!PidCalls, Calls!ScanCalls
<1> QED
  BY <1>2, <1>3, <1>7

\* Whatever function it is for, a rule is a rule.
LEMMA RulesTyped ==
  CallTypes => Calls!NoRule \in Calls!Rule /\ \A f : Calls!RuleOf(f) \in Calls!Rule
BY DEF CallTypes, Calls!Policy, Calls!Rule, Calls!RuleOf

Grown(s, f, g) == SubSeq(s, 1, Len(s) - 1) \o <<f, g>>

\* What a call leaves behind when it returns.
LEMMA Shortened ==
  ASSUME NEW S, NEW s \in Seq(S), s # <<>>
  PROVE  /\ SubSeq(s, 1, Len(s) - 1) \in Seq(S) /\ Len(SubSeq(s, 1, Len(s) - 1)) = Len(s) - 1
         /\ \A i \in 1..(Len(s) - 1) : SubSeq(s, 1, Len(s) - 1)[i] = s[i]
<1>0. Len(s) \in Nat /\ Len(s) # 0
  OBVIOUS
<1>1. \A i \in 1..(Len(s) - 1) : s[i] \in S
  BY <1>0
<1>2. Len(s) - 1 \in Int /\ Len(s) - 1 - 1 + 1 = Len(s) - 1
  BY <1>0
<1>3. /\ SubSeq(s, 1, Len(s) - 1) \in Seq(S)
      /\ Len(SubSeq(s, 1, Len(s) - 1)) = IF 1 <= Len(s) - 1 THEN Len(s) - 1 - 1 + 1 ELSE 0
      /\ \A i \in 1..(Len(s) - 1 - 1 + 1) : SubSeq(s, 1, Len(s) - 1)[i] = s[1 + i - 1]
  BY <1>1, <1>2, SubSeqProperties
<1>4. \A i \in 1..(Len(s) - 1) : i \in 1..(Len(s) - 1 - 1 + 1) /\ 1 + i - 1 = i
  BY <1>0
<1>5. \A i \in 1..(Len(s) - 1) : SubSeq(s, 1, Len(s) - 1)[i] = s[i]
  BY <1>3, <1>4
<1>6. Len(SubSeq(s, 1, Len(s) - 1)) = Len(s) - 1
  <2>1. CASE Len(s) = 1
    BY <1>3, <2>1
  <2>2. CASE Len(s) > 1
    <3>1. 1 <= Len(s) - 1
      BY <1>0, <2>2
    <3> QED
      BY <1>2, <1>3, <3>1
  <2> QED
    BY <1>0, <2>1, <2>2
<1> QED
  BY <1>3, <1>5, <1>6

\* A call that begins another one is below it.
LEMMA Pushed ==
  ASSUME NEW S, NEW s \in Seq(S), s # <<>>, NEW f \in S, NEW g \in S
  PROVE  /\ Grown(s, f, g) \in Seq(S)
         /\ Len(Grown(s, f, g)) = Len(s) + 1
         /\ \A i \in 1..(Len(s) - 1) : Grown(s, f, g)[i] = s[i]
         /\ Grown(s, f, g)[Len(s)] = f
         /\ Grown(s, f, g)[Len(s) + 1] = g
<1> DEFINE p == SubSeq(s, 1, Len(s) - 1)
<1>1. Len(s) \in Nat /\ Len(s) # 0
  OBVIOUS
<1>2. p \in Seq(S) /\ Len(p) = Len(s) - 1 /\ \A i \in 1..(Len(s) - 1) : p[i] = s[i]
  BY Shortened
<1>3. <<f, g>> \in Seq(S) /\ Len(<<f, g>>) = 2 /\ <<f, g>>[1] = f /\ <<f, g>>[2] = g
  OBVIOUS
<1> HIDE DEF p
<1>4. DEFINE q == <<f, g>>
<1>5. q \in Seq(S) /\ Len(q) = 2 /\ q[1] = f /\ q[2] = g
  BY <1>3
<1> HIDE DEF q
<1>6. p \o q \in Seq(S) /\ Len(p \o q) = Len(p) + Len(q)
      /\ \A i \in 1..(Len(p) + Len(q)) : (p \o q)[i] = IF i <= Len(p) THEN p[i] ELSE q[i - Len(p)]
  BY <1>2, <1>5, ConcatProperties
<1>7. /\ \A i \in 1..(Len(s) - 1) : (p \o q)[i] = s[i]
      /\ (p \o q)[Len(s)] = f /\ (p \o q)[Len(s) + 1] = g /\ Len(p \o q) = Len(s) + 1
  BY <1>1, <1>2, <1>5, <1>6
<1> QED
  BY <1>6, <1>7 DEF p, q, Grown

\* A longer chain, with another call on top of f: ...
Grows(s, f, g, x) ==
  /\ DOMAIN x = 1..(Len(s) + 1) /\ Len(x) = Len(s) + 1
  /\ \A i \in 1..(Len(s) - 1) : x[i] = s[i]
  /\ x[Len(s)] = f /\ x[Len(s) + 1] = g

\* ... whatever the records are.
LEMMA PushedAny ==
  ASSUME NEW S, NEW s \in Seq(S), s # <<>>, NEW f, NEW g
  PROVE  Grows(s, f, g, Grown(s, f, g))
<1> DEFINE T == S \cup {f, g}
<1>1. s \in Seq(T) /\ f \in T /\ g \in T
  OBVIOUS
<1> HIDE DEF T
<1>2. /\ Grown(s, f, g) \in Seq(T)
      /\ Len(Grown(s, f, g)) = Len(s) + 1
      /\ \A i \in 1..(Len(s) - 1) : Grown(s, f, g)[i] = s[i]
      /\ Grown(s, f, g)[Len(s)] = f
      /\ Grown(s, f, g)[Len(s) + 1] = g
  BY <1>1, Pushed
<1>3. DOMAIN Grown(s, f, g) = 1..(Len(s) + 1)
  BY <1>2
<1> QED
  BY <1>2, <1>3 DEF Grows

\* Replacing the last is exchanging it.
LEMMA Exchanged ==
  ASSUME NEW S, NEW s \in Seq(S), s # <<>>, NEW f \in S
  PROVE  /\ SubSeq(s, 1, Len(s) - 1) \o <<f>> = [s EXCEPT ![Len(s)] = f]
         /\ [s EXCEPT ![Len(s)] = f] \in Seq(S) /\ Len([s EXCEPT ![Len(s)] = f]) = Len(s)
         /\ \A i \in 1..(Len(s) - 1) : [s EXCEPT ![Len(s)] = f][i] = s[i]
         /\ [s EXCEPT ![Len(s)] = f][Len(s)] = f
OBVIOUS

\* The marked calls of a thread are finitely many.
LEMMA Counted ==
  ASSUME NEW s, NEW n \in Nat, s \in Seq(FrameSet), Len(s) = n
  PROVE  IsFiniteSet(Marks(s)) /\ Cardinality(Marks(s)) \in Nat /\ Cardinality(Marks(s)) <= n
         /\ (Cardinality(Marks(s)) = 0 <=> Marks(s) = {})
<1>1. Marks(s) \subseteq 1..n
  BY DEF Marks
<1>2. IsFiniteSet(1..n) /\ Cardinality(1..n) = n
  BY FS_Interval
<1> QED
  BY <1>1, <1>2, FS_Subset, FS_CardinalityType, FS_EmptySet

\* The marks below a call are what the thread's counter says, if it is not one itself.
LEMMA InsideKnown ==
  ASSUME CallsInv, NEW t \in Program, frames[t] # <<>>, ~Mark(Calls!Top(t))
  PROVE  Calls!Internal(t) <=> Marked(frames[t], Len(frames[t]))
<1>1. frames[t] \in Seq(FrameSet) /\ Len(frames[t]) \in Nat /\ Len(frames[t]) # 0
  BY DEF CallsInv, CallTypes
<1>2. scope[t] = Cardinality(Marks(frames[t]))
  BY DEF CallsInv, MarksCounted
<1>3. Cardinality(Marks(frames[t])) \in Nat
      /\ (Cardinality(Marks(frames[t])) = 0 <=> Marks(frames[t]) = {})
  BY <1>1, Counted
<1>4. Marks(frames[t]) # {} <=> Marked(frames[t], Len(frames[t]))
  BY <1>1 DEF Marks, Marked, Calls!Top
<1> QED
  BY <1>2, <1>3, <1>4 DEF Calls!Internal

\* How a thread's counter goes with the mark of its innermost call.
ScopeMoves(t, b) ==
  \/ (b <=> Mark(Calls!Top(t))) /\ scope' = scope
  \/ b /\ ~Mark(Calls!Top(t)) /\ scope' = [scope EXCEPT ![t] = @ + 1]
  \/ ~b /\ Mark(Calls!Top(t)) /\ scope' = [scope EXCEPT ![t] = @ - 1]

\* A step at the innermost call adds or removes the mark of that call.
LEMMA MarksMove ==
  ASSUME NEW f \in Seq(FrameSet), NEW s \in Seq(FrameSet), NEW n \in Nat, n # 0, n = Len(f),
         Len(s) \in {n, n + 1}, \A i \in 1..(n - 1) : s[i] = f[i],
         Len(s) = n + 1 => ~Mark(s[n + 1])
  PROVE  Marks(s) = IF Mark(s[n]) THEN Marks(f) \cup {n} ELSE Marks(f) \ {n}
<1>1. \A i \in DOMAIN s : i \in 1..(n - 1) \/ i = n \/ ~Mark(s[i])
  OBVIOUS
<1>2. \A i \in 1..(n - 1) : i \in DOMAIN s /\ i \in DOMAIN f /\ i # n
  OBVIOUS
<1>3. n \in DOMAIN s /\ \A i \in DOMAIN f : i \in 1..(n - 1) \/ i = n
  OBVIOUS
<1>4. CASE Mark(s[n])
  BY <1>1, <1>2, <1>3, <1>4 DEF Marks
<1>5. CASE ~Mark(s[n])
  BY <1>1, <1>2, <1>3, <1>5 DEF Marks
<1> QED
  BY <1>4, <1>5

Fresh(f) == f.at = "enter" /\ f.told = 0 /\ ~f.ran /\ (f.watched => callback)

\* A step that takes the innermost call to a point its record fits, and may begin
\* another call, keeps the invariant.
LEMMA Settles ==
  ASSUME CallsInv, NEW t \in Program, NEW s \in Seq(FrameSet), NEW n \in Nat, frames[t] # <<>>,
         n = Len(frames[t]), Len(s) \in {n, n + 1}, Len(s) <= NestMax,
         \A i \in 1..(n - 1) : s[i] = frames[t][i],
         Fits(s[n], Marked(frames[t], n), callback), Len(s) = n + 1 => Fresh(s[n + 1]),
         frames' = [frames EXCEPT ![t] = s], ScopeMoves(t, Mark(s[n])),
         callback' = callback, rules' = rules, begun' = begun
  PROVE  CallsInv'
<1>0. frames[t] \in Seq(FrameSet) /\ n # 0 /\ Len(s) \in Nat /\ scope[t] \in Nat
      /\ frames \in [Program -> Seq(FrameSet)] /\ scope \in [Program -> Nat]
  BY DEF CallsInv, CallTypes
<1>1. frames' \in [Program -> Seq(FrameSet)] /\ frames'[t] = s
      /\ \A u \in Program \ {t} : frames'[u] = frames[u]
  BY <1>0
<1>2. Marks(s) = IF Mark(s[n]) THEN Marks(frames[t]) \cup {n} ELSE Marks(frames[t]) \ {n}
  <2>1. Len(s) = n + 1 => ~Mark(s[n + 1])
    BY DEF Fresh, Mark
  <2> QED
    BY <1>0, <2>1, MarksMove
<1>3. n \in Marks(frames[t]) <=> Mark(Calls!Top(t))
  BY <1>0 DEF Marks, Calls!Top
<1>4. IsFiniteSet(Marks(frames[t])) /\ Cardinality(Marks(frames[t])) \in Nat
      /\ scope[t] = Cardinality(Marks(frames[t]))
  BY <1>0, Counted DEF CallsInv, MarksCounted
<1>5. /\ Mark(s[n]) /\ ~Mark(Calls!Top(t)) => Cardinality(Marks(s)) = scope[t] + 1
      /\ ~Mark(s[n]) /\ Mark(Calls!Top(t)) => Cardinality(Marks(s)) = scope[t] - 1
      /\ (Mark(s[n]) <=> Mark(Calls!Top(t))) => Cardinality(Marks(s)) = scope[t]
  <2>1. ASSUME Mark(s[n]), ~Mark(Calls!Top(t)) PROVE Cardinality(Marks(s)) = scope[t] + 1
    <3>1. Marks(s) = Marks(frames[t]) \cup {n} /\ n \notin Marks(frames[t])
      BY <2>1, <1>2, <1>3
    <3> QED
      BY <3>1, <1>4, FS_AddElement
  <2>2. ASSUME ~Mark(s[n]), Mark(Calls!Top(t)) PROVE Cardinality(Marks(s)) = scope[t] - 1
    <3>1. Marks(s) = Marks(frames[t]) \ {n} /\ n \in Marks(frames[t])
      BY <2>2, <1>2, <1>3
    <3> QED
      <4>1. Cardinality(Marks(frames[t]) \ {n}) = Cardinality(Marks(frames[t])) - 1
        BY <3>1, <1>4, FS_RemoveElement
      <4> QED
        BY <3>1, <1>4, <4>1
  <2>3. ASSUME Mark(s[n]) <=> Mark(Calls!Top(t)) PROVE Cardinality(Marks(s)) = scope[t]
    <3>1. Marks(s) = Marks(frames[t])
      BY <2>3, <1>2, <1>3
    <3> QED
      BY <2>3, <3>1, <1>4
  <2> QED
    BY <2>1, <2>2, <2>3, Zenon
<1>6. scope'[t] = Cardinality(Marks(s)) /\ \A u \in Program \ {t} : scope'[u] = scope[u]
  BY <1>0, <1>5 DEF ScopeMoves
<1>7. scope' \in [Program -> Nat]
  <2>1. Cardinality(Marks(s)) \in Nat
    BY <1>0, Counted
  <2> QED
    BY <2>1, <1>0, <1>6 DEF ScopeMoves
<1>8. MarksCounted'
  <2>1. \A u \in Program : scope'[u] = Cardinality(Marks(frames'[u]))
    BY <1>1, <1>6 DEF CallsInv, MarksCounted
  <2> QED
    BY <2>1 DEF MarksCounted
<1>9. \A i \in DOMAIN s : Fits(s[i], Marked(s, i), callback)
  <2> SUFFICES ASSUME NEW i \in DOMAIN s PROVE Fits(s[i], Marked(s, i), callback)
    OBVIOUS
  <2>0. i \in 1..Len(s)
    OBVIOUS
  <2>1. i <= n => (Marked(s, i) <=> Marked(frames[t], i))
    <3> SUFFICES ASSUME i <= n PROVE Marked(s, i) <=> Marked(frames[t], i)
      OBVIOUS
    <3>1. \A j \in 1..(i - 1) : s[j] = frames[t][j]
      BY <1>0, <2>0
    <3> QED
      BY <3>1 DEF Marked
  <2>2. CASE i < n
    <3>1. Fits(frames[t][i], Marked(frames[t], i), callback) /\ s[i] = frames[t][i]
      BY <1>0, <2>0, <2>2 DEF CallsInv, EachFits
    <3>2. Marked(s, i) = Marked(frames[t], i)
      BY <2>1, <2>2, <1>0, <2>0 DEF Marked
    <3> QED
      BY <3>1, <3>2
  <2>3. CASE i = n
    <3>1. Marked(s, i) = Marked(frames[t], i)
      BY <2>1, <2>3, <1>0, <2>0 DEF Marked
    <3> QED
      BY <3>1, <2>3
  <2>4. CASE i = n + 1
    <3>1. Fresh(s[i])
      BY <1>0, <2>0, <2>4
    <3> QED
      BY <3>1 DEF Fresh, Fits, Calls!Denied, Mark
  <2> QED
    BY <1>0, <2>0, <2>2, <2>3, <2>4
<1>10. EachFits'
  <2>1. \A u \in Program : \A i \in DOMAIN frames'[u] :
          Fits(frames'[u][i], Marked(frames'[u], i), callback)
    BY <1>1, <1>9 DEF CallsInv, EachFits
  <2> QED
    BY <2>1 DEF EachFits
<1>11. CallTypes'
  BY <1>1, <1>7 DEF CallsInv, CallTypes
<1> QED
  BY <1>8, <1>10, <1>11 DEF CallsInv

Inside(t) == Marked(frames[t], Len(frames[t]))

\* The innermost call.
LEMMA TopFits ==
  ASSUME CallsInv, NEW t \in Program, frames[t] # <<>>
  PROVE  /\ Calls!Top(t) \in FrameSet /\ Fits(Calls!Top(t), Inside(t), callback)
         /\ Calls!W(t) \in Shape /\ (Calls!W(t).first => Calls!W(t).always)
         /\ Calls!W(t) = Calls!HookEntry[Calls!Top(t).fn]
         /\ Len(frames[t]) \in Nat \ {0} /\ frames[t] \in Seq(FrameSet)
<1>1. frames[t] \in Seq(FrameSet) /\ Len(frames[t]) \in Nat \ {0}
      /\ Len(frames[t]) \in DOMAIN frames[t]
  BY DEF CallsInv, CallTypes
<1>2. Calls!Top(t) \in FrameSet /\ Fits(Calls!Top(t), Inside(t), callback)
  BY <1>1 DEF Calls!Top, Inside, CallsInv, EachFits
<1>3. Calls!Top(t).fn \in Hooked
  BY <1>2 DEF FrameSet
<1> QED
  BY <1>1, <1>2, <1>3, EntryKnown DEF WellMade, Calls!W

\* So a step that replaces the innermost call does, ...
LEMMA BecomesTop ==
  ASSUME CallsInv, NEW t \in Program, frames[t] # <<>>, NEW g \in FrameSet,
         Fits(g, Inside(t), callback), Calls!Become(t, g), ScopeMoves(t, Mark(g)),
         callback' = callback, rules' = rules, begun' = begun
  PROVE  CallsInv'
<1> DEFINE s == [frames[t] EXCEPT ![Len(frames[t])] = g]
<1>0. frames[t] \in Seq(FrameSet) /\ Len(frames[t]) \in Nat
      /\ frames \in [Program -> Seq(FrameSet)]
      /\ Len(frames[t]) <= NestMax
  BY DEF CallsInv, CallTypes
<1>1. s \in Seq(FrameSet) /\ Len(s) = Len(frames[t]) /\ s[Len(frames[t])] = g
      /\ \A i \in 1..(Len(frames[t]) - 1) : s[i] = frames[t][i]
  BY <1>0, Exchanged
<1>2. frames' = [frames EXCEPT ![t] = s]
  BY <1>0 DEF Calls!Become
<1> HIDE DEF s
<1>3. ScopeMoves(t, Mark(s[Len(frames[t])]))
      /\ Fits(s[Len(frames[t])], Marked(frames[t], Len(frames[t])), callback)
  BY <1>1 DEF Inside
<1>4. Len(s) \in {Len(frames[t]), Len(frames[t]) + 1} /\ Len(s) <= NestMax
      /\ Len(s) # Len(frames[t]) + 1
  BY <1>0, <1>1
<1> QED
  BY <1>0, <1>1, <1>2, <1>3, <1>4, Settles

\* ... and one that also begins another.
LEMMA EntersTop ==
  ASSUME CallsInv, NEW t \in Program, frames[t] # <<>>, Len(frames[t]) < NestMax,
         NEW g \in FrameSet,
         NEW fn, NEW h \in Calls!Handle,
         Fits(g, Inside(t), callback), Calls!Enters(t, g, fn, h), ScopeMoves(t, Mark(g)),
         callback' = callback, rules' = rules, begun' = begun
  PROVE  CallsInv'
<1>0. frames[t] \in Seq(FrameSet) /\ Len(frames[t]) \in Nat
      /\ frames \in [Program -> Seq(FrameSet)]
      /\ Len(frames[t]) <= NestMax /\ NestMax \in Nat
  BY Bounds, CallsKnown DEF CallsInv, CallTypes
<1>1. CASE fn \notin Hooked
  <2>1. frames' = [frames EXCEPT ![t] = SubSeq(frames[t], 1, Len(frames[t]) - 1) \o <<g>>]
    BY <1>1 DEF Calls!Enters
  <2>2. SubSeq(frames[t], 1, Len(frames[t]) - 1) \o <<g>> =
         [frames[t] EXCEPT ![Len(frames[t])] = g]
    BY <1>0, Exchanged
  <2>3. Calls!Become(t, g)
    BY <1>0, <2>1, <2>2 DEF Calls!Become
  <2> QED
    BY <2>3, BecomesTop
<1>2. CASE fn \in Hooked
  <2> DEFINE s == Grown(frames[t], g, Calls!Frame(fn, h))
  <2>1. frames' = [frames EXCEPT ![t] = s]
    BY <1>2 DEF Calls!Enters, Grown
  <2>2. Calls!Frame(fn, h) \in FrameSet /\ Fresh(Calls!Frame(fn, h))
    <3>1. callback \in BOOLEAN /\ Calls!NoRule \in Calls!Rule /\ <<>> \in Seq(Asks)
      BY RulesTyped DEF CallsInv, CallTypes
    <3> QED
      BY <1>2, <3>1 DEF Calls!Frame, FrameSet, Fresh, CallPoint
  <2>3. s \in Seq(FrameSet) /\ Len(s) = Len(frames[t]) + 1 /\ s[Len(frames[t])] = g
        /\ s[Len(frames[t]) + 1] = Calls!Frame(fn, h)
        /\ \A i \in 1..(Len(frames[t]) - 1) : s[i] = frames[t][i]
    BY <1>0, <2>2, Pushed
  <2> HIDE DEF s
  <2>4. ScopeMoves(t, Mark(s[Len(frames[t])])) /\ Fresh(s[Len(frames[t]) + 1])
        /\ Fits(s[Len(frames[t])], Marked(frames[t], Len(frames[t])), callback)
    BY <2>2, <2>3 DEF Inside
  <2>5. Len(s) <= NestMax /\ Len(s) \in {Len(frames[t]), Len(frames[t]) + 1}
    BY <1>0, <2>3
  <2> QED
    BY <1>0, <2>1, <2>3, <2>4, <2>5, Settles
<1> QED
  BY <1>1, <1>2

\* A call that is judged goes on to publish, or to the original.
LEMMA JudgedFits ==
  ASSUME CallTypes, NEW t \in Program, NEW f \in FrameSet, NEW g \in Calls!Judged(t, f), NEW m,
         f.told = 0, ~f.ran, f.watched => callback
  PROVE  g \in FrameSet /\ Fits(g, m, callback) /\ ~Mark(g)
<1>0. f.handle \in Calls!Handle /\ f.fn \in Hooked
  BY DEF FrameSet
<1>1. CASE Calls!HookEntry[f.fn].first /\ callback
  <2>1. PICK q \in Calls!PidCalls(f.handle) : g = [f EXCEPT !.at = "publish", !.todo = q]
    BY <1>1 DEF Calls!Judged
  <2>2. q \in Seq(Asks)
    BY <1>0, Asked
  <2>3. g \in FrameSet /\ g.at = "publish" /\ g.told = 0 /\ ~g.ran /\ g.fn = f.fn
        /\ g.watched = f.watched
    BY <2>1, <2>2 DEF FrameSet, CallPoint
  <2> QED
    BY <2>3 DEF Fits, Mark, Calls!Denied
<1>2. CASE Calls!HookEntry[f.fn].first /\ ~callback
  <2>1. g = [f EXCEPT !.at = "original"]
    BY <1>2 DEF Calls!Judged
  <2>3. g \in FrameSet /\ g.at = "original" /\ g.told = 0 /\ ~g.ran /\ g.fn = f.fn
        /\ g.watched = f.watched
    BY <2>1 DEF FrameSet, CallPoint
  <2> QED
    BY <1>2, <2>3 DEF Fits, Mark, Calls!Denied
<1>3. CASE ~Calls!HookEntry[f.fn].first
  <2>1. PICK q \in Calls!Before(t, f) : g = [f EXCEPT !.at = "original", !.todo = q]
    BY <1>3 DEF Calls!Judged
  <2>2. q \in Seq(Asks)
    <3>1. q = <<>> \/ q \in Calls!PidCalls(f.handle)
      BY <2>1 DEF Calls!Before
    <3>2. <<>> \in Seq(Asks)
      OBVIOUS
    <3> QED
      BY <1>0, <3>1, <3>2, Asked
  <2>3. g \in FrameSet /\ g.at = "original" /\ g.told = 0 /\ ~g.ran /\ g.fn = f.fn
        /\ g.watched = f.watched
    BY <2>1, <2>2 DEF FrameSet, CallPoint
  <2> QED
    BY <1>3, <2>3 DEF Fits, Mark, Calls!Denied
<1> QED
  BY <1>1, <1>2, <1>3

\* The wrapper asks the policy, ...
LEMMA UnjudgedKeeps ==
  ASSUME CallsInv, NEW t \in Program, Calls!Unjudged(t)
  PROVE  CallsInv'
<1> DEFINE r == IF ~Calls!Internal(t) /\ Calls!RuleOf(Calls!Top(t).fn).matched
                THEN Calls!RuleOf(Calls!Top(t).fn) ELSE Calls!NoRule
<1>0. frames[t] # <<>> /\ Calls!Top(t).at = "enter" /\ UNCHANGED <<callback, rules, scope, begun>>
  BY DEF Calls!Unjudged, Calls!At
<1>1. PICK i \in BOOLEAN :
        \E g \in Calls!Judged(t, [Calls!Top(t) EXCEPT !.rule = r, !.ignored = i]) :
          Calls!Become(t, g)
  BY DEF Calls!Unjudged
<1>2. PICK g \in Calls!Judged(t, [Calls!Top(t) EXCEPT !.rule = r, !.ignored = i]) :
        Calls!Become(t, g)
  BY <1>1
<1>3. r \in Calls!Rule
  BY RulesTyped DEF CallsInv
<1> HIDE DEF r
<1>4. Calls!Top(t) \in FrameSet /\ Calls!Top(t).told = 0 /\ ~Calls!Top(t).ran
      /\ (Calls!Top(t).watched => callback) /\ ~Mark(Calls!Top(t))
  BY <1>0, TopFits DEF Fits, Mark
<1> DEFINE f == [Calls!Top(t) EXCEPT !.rule = r, !.ignored = i]
<1>5. f \in FrameSet /\ f.told = 0 /\ ~f.ran /\ (f.watched => callback)
  BY <1>3, <1>4 DEF FrameSet
<1>6. g \in Calls!Judged(t, f)
  BY <1>2
<1> HIDE DEF f
<1>7. g \in FrameSet /\ Fits(g, Inside(t), callback) /\ ~Mark(g)
  BY <1>5, <1>6, JudgedFits DEF CallsInv
<1>8. ScopeMoves(t, Mark(g))
  BY <1>0, <1>4, <1>7 DEF ScopeMoves
<1> QED
  BY <1>0, <1>2, <1>7, <1>8, BecomesTop

\* ... walks the stack first if the rule says so,
LEMMA TraceKeeps ==
  ASSUME CallsInv, NEW t \in Program, Calls!Trace(t)
  PROVE  CallsInv'
<1> DEFINE g == [Calls!Top(t) EXCEPT !.at = "traced"]
<1>0. frames[t] # <<>> /\ Calls!Top(t).at = "enter" /\ UNCHANGED <<callback, rules, begun>>
      /\ ~Calls!Internal(t)
      /\ Len(frames[t]) < NestMax /\ scope' = [scope EXCEPT ![t] = @ + 1]
      /\ Calls!Enters(t, g, Calls!V, "self")
  BY DEF Calls!Trace, Calls!At
<1>1. Calls!Top(t) \in FrameSet /\ Fits(Calls!Top(t), Inside(t), callback) /\ ~Mark(Calls!Top(t))
  BY <1>0, TopFits DEF Mark
<1>2. ~Inside(t)
  BY <1>0, <1>1, InsideKnown DEF Inside
<1>3. g \in FrameSet /\ Mark(g) /\ g.at = "traced" /\ g.told = Calls!Top(t).told
      /\ g.ran = Calls!Top(t).ran /\ g.watched = Calls!Top(t).watched
  BY <1>1 DEF FrameSet, CallPoint, Mark
<1> HIDE DEF g
<1>4. Fits(g, Inside(t), callback)
  BY <1>0, <1>1, <1>2, <1>3 DEF Fits, Calls!Denied
<1>5. ScopeMoves(t, Mark(g)) /\ "self" \in Calls!Handle
  BY <1>0, <1>1, <1>3 DEF ScopeMoves, Calls!Handle
<1> QED
  BY <1>0, <1>3, <1>4, <1>5, EntersTop

\* ... and judges the call then,
LEMMA JudgeKeeps ==
  ASSUME CallsInv, NEW t \in Program, frames[t] # <<>>, Calls!Judge(t),
         Calls!Top(t).at \in {"traced", "classify"}, ScopeMoves(t, FALSE),
         callback' = callback, rules' = rules, begun' = begun
  PROVE  CallsInv'
<1>1. PICK i \in BOOLEAN :
        \E g \in Calls!Judged(t, [Calls!Top(t) EXCEPT !.rule = Calls!RuleOf(Calls!Top(t).fn),
                                                    !.ignored = i]) :
          Calls!Become(t, g)
  BY DEF Calls!Judge
<1>2. PICK g \in Calls!Judged(t, [Calls!Top(t) EXCEPT !.rule = Calls!RuleOf(Calls!Top(t).fn),
                                                    !.ignored = i]) :
        Calls!Become(t, g)
  BY <1>1
<1>3. Calls!RuleOf(Calls!Top(t).fn) \in Calls!Rule
  BY RulesTyped DEF CallsInv
<1>4. Calls!Top(t) \in FrameSet /\ Calls!Top(t).told = 0 /\ ~Calls!Top(t).ran
      /\ (Calls!Top(t).watched => callback)
  BY TopFits DEF Fits
<1> DEFINE f == [Calls!Top(t) EXCEPT !.rule = Calls!RuleOf(Calls!Top(t).fn), !.ignored = i]
<1>5. f \in FrameSet /\ f.told = 0 /\ ~f.ran /\ (f.watched => callback)
  BY <1>3, <1>4 DEF FrameSet
<1>6. g \in Calls!Judged(t, f)
  BY <1>2
<1> HIDE DEF f
<1>7. g \in FrameSet /\ Fits(g, Inside(t), callback) /\ ~Mark(g)
  BY <1>5, <1>6, JudgedFits DEF CallsInv
<1>8. ScopeMoves(t, Mark(g))
  BY <1>7 DEF ScopeMoves
<1> QED
  BY <1>2, <1>7, <1>8, BecomesTop

\* once it is back from the walk ...
LEMMA TracedKeeps ==
  ASSUME CallsInv, NEW t \in Program, Calls!Traced(t)
  PROVE  CallsInv'
<1>0. frames[t] # <<>> /\ Calls!Top(t).at = "traced" /\ UNCHANGED <<callback, rules, begun>>
      /\ scope' = [scope EXCEPT ![t] = @ - 1]
  BY DEF Calls!Traced, Calls!At
<1>1. ScopeMoves(t, FALSE)
  BY <1>0 DEF ScopeMoves, Mark
<1>2. CASE Calls!Judge(t)
  BY <1>0, <1>1, <1>2, JudgeKeeps
<1>3. ASSUME NEW q \in Calls!Queried,
             Calls!Become(t, [Calls!Top(t) EXCEPT !.at = "classify", !.todo = q])
      PROVE  CallsInv'
  <2> DEFINE g == [Calls!Top(t) EXCEPT !.at = "classify", !.todo = q]
  <2>1. q \in Seq(Asks)
    BY <1>3, Asked
  <2>2. Calls!Top(t) \in FrameSet /\ Fits(Calls!Top(t), Inside(t), callback)
    BY <1>0, TopFits
  <2>3. g \in FrameSet /\ g.at = "classify" /\ g.told = 0 /\ g.ran = Calls!Top(t).ran
        /\ g.watched = Calls!Top(t).watched
    BY <1>0, <2>1, <2>2 DEF FrameSet, CallPoint, Fits
  <2>4. Calls!Become(t, g)
    BY <1>3
  <2> HIDE DEF g
  <2>5. Fits(g, Inside(t), callback) /\ ~Mark(g)
    BY <1>0, <2>2, <2>3 DEF Fits, Mark, Calls!Denied
  <2>6. ScopeMoves(t, Mark(g))
    BY <1>1, <2>5 DEF ScopeMoves
  <2> QED
    BY <1>0, <2>3, <2>4, <2>5, <2>6, BecomesTop
<1> QED
  BY <1>2, <1>3 DEF Calls!Traced

\* and, if private callers are ignored, has classified the trace.
LEMMA ClassifiedKeeps ==
  ASSUME CallsInv, NEW t \in Program, Calls!Classified(t)
  PROVE  CallsInv'
<1>0. frames[t] # <<>> /\ Calls!Top(t).at = "classify" /\ Calls!Judge(t)
      /\ UNCHANGED <<callback, rules, scope, begun>>
  BY DEF Calls!Classified, Calls!At
<1>1. ScopeMoves(t, FALSE)
  BY <1>0 DEF ScopeMoves, Mark
<1> QED
  BY <1>0, <1>1, JudgeKeeps

\* It asks one of its questions.
LEMMA LookupKeeps ==
  ASSUME CallsInv, NEW t \in Program, Calls!Lookup(t)
  PROVE  CallsInv'
<1> DEFINE g == [Calls!Top(t) EXCEPT !.todo = Tail(@)]
<1> DEFINE h == IF Head(Calls!Top(t).todo) = Calls!Q THEN "own" ELSE "self"
<1>0. frames[t] # <<>> /\ Calls!Top(t).todo # <<>> /\ UNCHANGED <<callback, rules, scope, begun>>
      /\ Len(frames[t]) < NestMax /\ Calls!Enters(t, g, Head(Calls!Top(t).todo), h)
  BY DEF Calls!Lookup
<1>1. Calls!Top(t) \in FrameSet /\ Fits(Calls!Top(t), Inside(t), callback)
  BY <1>0, TopFits
<1>2. Tail(Calls!Top(t).todo) \in Seq(Asks)
  BY <1>0, <1>1 DEF FrameSet
<1>3. g \in FrameSet /\ g.at = Calls!Top(t).at /\ g.told = Calls!Top(t).told
      /\ g.ran = Calls!Top(t).ran
      /\ g.watched = Calls!Top(t).watched /\ g.fn = Calls!Top(t).fn /\ g.rule = Calls!Top(t).rule
      /\ g.ignored = Calls!Top(t).ignored /\ g.ok = Calls!Top(t).ok
  BY <1>1, <1>2 DEF FrameSet
<1> HIDE DEF g
<1>4. Fits(g, Inside(t), callback)
  BY <1>1, <1>3 DEF Fits, Calls!Denied, Due, Mark
<1>5. ScopeMoves(t, Mark(g)) /\ h \in Calls!Handle
  BY <1>0, <1>3 DEF ScopeMoves, Calls!Handle, Mark
<1> HIDE DEF h
<1> QED
  BY <1>0, <1>3, <1>4, <1>5, EntersTop

\* It calls the original unless denied.
LEMMA OriginalKeeps ==
  ASSUME CallsInv, NEW t \in Program, Calls!Original(t)
  PROVE  CallsInv'
<1>0. frames[t] # <<>> /\ Calls!Top(t).at = "original"
      /\ UNCHANGED <<callback, rules, scope, begun>>
  BY DEF Calls!Original, Calls!At
<1>1. PICK ok \in BOOLEAN :
        Calls!Become(t, [Calls!Top(t) EXCEPT !.ok = ok, !.ran = ~Calls!Denied(Calls!Top(t)),
                     !.at = IF ~Calls!W(t).first THEN "after"
                            ELSE IF Calls!Top(t).handle # "other" /\ ok /\ ~Calls!Denied(Calls!Top(t))
                                 THEN "gone"
                            ELSE "return"])
  BY DEF Calls!Original
<1> DEFINE to == IF ~Calls!W(t).first THEN "after"
                 ELSE IF Calls!Top(t).handle # "other" /\ ok /\ ~Calls!Denied(Calls!Top(t))
                      THEN "gone"
                 ELSE "return"
<1> DEFINE g == [Calls!Top(t) EXCEPT !.ok = ok, !.ran = ~Calls!Denied(Calls!Top(t)), !.at = to]
<1>2. Calls!Become(t, g)
  BY <1>1
<1>3. Calls!Top(t) \in FrameSet /\ Fits(Calls!Top(t), Inside(t), callback)
      /\ (Calls!W(t).first => Calls!W(t).always)
      /\ Calls!W(t) = Calls!HookEntry[Calls!Top(t).fn] /\ Calls!W(t) \in Shape
  BY <1>0, TopFits
<1>4. (~Calls!W(t).first /\ to = "after") \/ (Calls!W(t).first /\ to \in {"gone", "return"})
  <2>1. CASE Calls!W(t).first
    <3>1. to \in {"gone", "return"}
      BY <2>1
    <3> QED
      BY <2>1, <3>1
  <2>2. CASE ~Calls!W(t).first
    <3>1. to = "after"
      BY <2>2
    <3> QED
      BY <2>2, <3>1
  <2> QED
    BY <2>1, <2>2
<1> HIDE DEF to
<1>5. g \in FrameSet /\ g.at = to /\ g.ok = ok /\ g.ran = ~Calls!Denied(Calls!Top(t))
      /\ g.told = Calls!Top(t).told
      /\ g.watched = Calls!Top(t).watched /\ g.fn = Calls!Top(t).fn /\ g.rule = Calls!Top(t).rule
      /\ g.ignored = Calls!Top(t).ignored
  <2>1. (~Calls!Denied(Calls!Top(t))) \in BOOLEAN /\ to \in CallPoint
    BY <1>4 DEF CallPoint
  <2> QED
    BY <1>3, <2>1 DEF FrameSet
<1> HIDE DEF g
<1>6. Calls!Denied(g) <=> Calls!Denied(Calls!Top(t))
  BY <1>5 DEF Calls!Denied
<1>7. Calls!W(t).first => (Due(g) <=> Due(Calls!Top(t)))
  BY <1>3, <1>5 DEF Due
<1>8. Fits(g, Inside(t), callback) /\ ~Mark(g)
  <2>1. CASE ~Calls!W(t).first
    BY <2>1, <1>0, <1>3, <1>4, <1>5, <1>6 DEF Fits, Mark
  <2>2. CASE Calls!W(t).first
    BY <2>2, <1>0, <1>3, <1>4, <1>5, <1>6, <1>7 DEF Fits, Mark
  <2> QED
    BY <2>1, <2>2
<1>9. ScopeMoves(t, Mark(g))
  BY <1>0, <1>8 DEF ScopeMoves, Mark
<1> QED
  BY <1>0, <1>2, <1>5, <1>8, <1>9, BecomesTop

\* It prepares what it tells,
LEMMA AfterKeeps ==
  ASSUME CallsInv, NEW t \in Program, Calls!After(t)
  PROVE  CallsInv'
<1>0. frames[t] # <<>> /\ Calls!Top(t).at = "after" /\ UNCHANGED <<callback, rules, scope, begun>>
  BY DEF Calls!After, Calls!At
<1>1. Calls!Top(t) \in FrameSet /\ Fits(Calls!Top(t), Inside(t), callback)
      /\ Calls!W(t) = Calls!HookEntry[Calls!Top(t).fn] /\ ~Mark(Calls!Top(t))
  BY <1>0, TopFits DEF Mark
<1>2. Calls!Internal(t) <=> Inside(t)
  BY <1>0, <1>1, InsideKnown DEF Inside
<1>3. CASE Calls!Quiet(t) \/ ~callback
  <2> DEFINE g == [Calls!Top(t) EXCEPT !.at = "return"]
  <2>1. Calls!Become(t, g)
    BY <1>3 DEF Calls!After
  <2>2. g \in FrameSet /\ g.at = "return" /\ g.told = 0 /\ g.ran = Calls!Top(t).ran
        /\ g.fn = Calls!Top(t).fn
        /\ g.watched = Calls!Top(t).watched /\ g.rule = Calls!Top(t).rule
        /\ g.ignored = Calls!Top(t).ignored
        /\ g.ok = Calls!Top(t).ok
    BY <1>0, <1>1 DEF FrameSet, CallPoint, Fits
  <2> HIDE DEF g
  <2>3. g.watched => ~Due(g) \/ Inside(t)
    BY <1>1, <1>2, <1>3, <2>2 DEF Calls!Quiet, Due, Fits
  <2>4. Fits(g, Inside(t), callback) /\ ~Mark(g)
    BY <1>0, <1>1, <2>2, <2>3 DEF Fits, Mark, Calls!Denied
  <2>5. ScopeMoves(t, Mark(g))
    BY <1>0, <1>1, <2>4 DEF ScopeMoves
  <2> QED
    BY <1>0, <2>1, <2>2, <2>4, <2>5, BecomesTop
<1>4. CASE ~(Calls!Quiet(t) \/ ~callback)
  <2>1. PICK p \in (IF Calls!W(t).after THEN Calls!PidCalls(Calls!Top(t).handle) ELSE {<<>>}),
             s \in (IF Calls!W(t).scans /\ (Calls!Top(t).ok \/ Calls!W(t).quiet)
                       /\ ~Calls!Internal(t)
                    THEN IF Len(frames[t]) = 1 THEN Calls!ScanCalls(Calls!Top(t).handle)
                         ELSE {<<Calls!V>>}
                    ELSE {<<>>}) :
          Calls!Become(t, [Calls!Top(t) EXCEPT !.at = "publish", !.todo = p \o s])
    BY <1>4 DEF Calls!After
  <2>2. p \in Seq(Asks) /\ s \in Seq(Asks)
    <3>1. <<>> \in Seq(Asks) /\ <<Calls!V>> \in Seq(Asks)
      BY Asked
    <3>2. Calls!Top(t).handle \in Calls!Handle
      BY <1>1 DEF FrameSet
    <3>3. Calls!PidCalls(Calls!Top(t).handle) \subseteq Seq(Asks)
          /\ Calls!ScanCalls(Calls!Top(t).handle) \subseteq Seq(Asks)
      BY <3>2, Asked
    <3> QED
      BY <2>1, <3>1, <3>3
  <2>3. p \o s \in Seq(Asks)
    BY <2>2, ConcatProperties
  <2> DEFINE g == [Calls!Top(t) EXCEPT !.at = "publish", !.todo = p \o s]
  <2>4. g \in FrameSet /\ g.at = "publish" /\ g.told = 0 /\ g.ran = Calls!Top(t).ran
        /\ g.fn = Calls!Top(t).fn
        /\ g.watched = Calls!Top(t).watched /\ g.rule = Calls!Top(t).rule
        /\ g.ignored = Calls!Top(t).ignored
        /\ g.ok = Calls!Top(t).ok
    BY <1>0, <1>1, <2>3 DEF FrameSet, CallPoint, Fits
  <2>5. Calls!Become(t, g)
    BY <2>1
  <2> HIDE DEF g
  <2>6. Fits(g, Inside(t), callback) /\ ~Mark(g)
    BY <1>0, <1>1, <2>4 DEF Fits, Mark, Calls!Denied
  <2>7. ScopeMoves(t, Mark(g))
    BY <1>0, <1>1, <2>6 DEF ScopeMoves
  <2> QED
    BY <1>0, <2>4, <2>5, <2>6, <2>7, BecomesTop
<1> QED
  BY <1>3, <1>4

\* guards the page it registers, marked,
LEMMA GuardKeeps ==
  ASSUME CallsInv, NEW t \in Program, Calls!Guard(t)
  PROVE  CallsInv'
<1> DEFINE g == [Calls!Top(t) EXCEPT !.at = "guard", !.todo = Tail(@)]
<1>0. frames[t] # <<>> /\ Calls!Top(t).at = "publish" /\ Calls!Top(t).todo # <<>>
      /\ ~Calls!Internal(t) /\ Len(frames[t]) < NestMax /\ UNCHANGED <<callback, rules, begun>>
      /\ scope' = [scope EXCEPT ![t] = @ + 1] /\ Calls!Enters(t, g, Calls!P, "self")
  BY DEF Calls!Guard
<1>1. Calls!Top(t) \in FrameSet /\ Fits(Calls!Top(t), Inside(t), callback) /\ ~Mark(Calls!Top(t))
  BY <1>0, TopFits DEF Mark
<1>2. ~Inside(t)
  BY <1>0, <1>1, InsideKnown DEF Inside
<1>3. Tail(Calls!Top(t).todo) \in Seq(Asks)
  BY <1>0, <1>1 DEF FrameSet
<1>4. g \in FrameSet /\ g.at = "guard" /\ g.told = 0 /\ g.ran = Calls!Top(t).ran
      /\ g.fn = Calls!Top(t).fn /\ g.rule = Calls!Top(t).rule
      /\ g.ignored = Calls!Top(t).ignored /\ g.watched = Calls!Top(t).watched
  BY <1>0, <1>1, <1>3 DEF FrameSet, CallPoint, Fits
<1> HIDE DEF g
<1>5. Fits(g, Inside(t), callback) /\ Mark(g)
  BY <1>0, <1>1, <1>2, <1>4 DEF Fits, Mark, Calls!Denied
<1>6. ScopeMoves(t, Mark(g)) /\ "self" \in Calls!Handle
  BY <1>0, <1>1, <1>5 DEF ScopeMoves, Calls!Handle
<1> QED
  BY <1>0, <1>4, <1>5, <1>6, EntersTop

\* and takes the mark off,
LEMMA GuardedKeeps ==
  ASSUME CallsInv, NEW t \in Program, Calls!Guarded(t)
  PROVE  CallsInv'
<1> DEFINE g == [Calls!Top(t) EXCEPT !.at = "publish"]
<1>0. frames[t] # <<>> /\ Calls!Top(t).at = "guard" /\ UNCHANGED <<callback, rules, begun>>
      /\ scope' = [scope EXCEPT ![t] = @ - 1] /\ Calls!Become(t, g)
  BY DEF Calls!Guarded
<1>1. Calls!Top(t) \in FrameSet /\ Fits(Calls!Top(t), Inside(t), callback) /\ Mark(Calls!Top(t))
  BY <1>0, TopFits DEF Mark
<1>2. g \in FrameSet /\ g.at = "publish" /\ g.told = 0 /\ g.ran = Calls!Top(t).ran
      /\ g.fn = Calls!Top(t).fn /\ g.rule = Calls!Top(t).rule
      /\ g.ignored = Calls!Top(t).ignored /\ g.watched = Calls!Top(t).watched
  BY <1>0, <1>1 DEF FrameSet, CallPoint, Fits
<1> HIDE DEF g
<1>3. Fits(g, Inside(t), callback) /\ ~Mark(g)
  BY <1>0, <1>1, <1>2 DEF Fits, Mark, Calls!Denied
<1>4. ScopeMoves(t, Mark(g))
  BY <1>0, <1>1, <1>3 DEF ScopeMoves
<1> QED
  BY <1>0, <1>2, <1>3, <1>4, BecomesTop

\* keeps it to itself,
LEMMA WithholdKeeps ==
  ASSUME CallsInv, NEW t \in Program, Calls!Withhold(t)
  PROVE  CallsInv'
<1> DEFINE g == [Calls!Top(t) EXCEPT !.at = Calls!Next2(t)]
<1>0. frames[t] # <<>> /\ Calls!Top(t).at = "publish"
      /\ UNCHANGED <<callback, rules, scope, begun>>
      /\ (~callback \/ Calls!Internal(t) \/ Calls!Untold(t)) /\ Calls!Become(t, g)
  BY DEF Calls!Withhold, Calls!At
<1>1. Calls!Top(t) \in FrameSet /\ Fits(Calls!Top(t), Inside(t), callback)
      /\ Calls!W(t) = Calls!HookEntry[Calls!Top(t).fn]
      /\ ~Mark(Calls!Top(t)) /\ (Calls!W(t).first => Calls!W(t).always)
  BY <1>0, TopFits DEF Mark
<1>2. Calls!Internal(t) <=> Inside(t)
  BY <1>0, <1>1, InsideKnown DEF Inside
<1>3. Calls!Untold(t) => ~Due(Calls!Top(t))
  BY <1>1 DEF Calls!Untold, Due
<1>4. \/ Calls!W(t).first /\ Calls!Next2(t) = "told"
      \/ ~Calls!W(t).first /\ Calls!Next2(t) = "return"
  BY DEF Calls!Next2
<1>5. g \in FrameSet /\ g.at = Calls!Next2(t) /\ g.told = 0 /\ g.ran = Calls!Top(t).ran
      /\ g.fn = Calls!Top(t).fn
      /\ g.watched = Calls!Top(t).watched /\ g.rule = Calls!Top(t).rule
      /\ g.ignored = Calls!Top(t).ignored
      /\ g.ok = Calls!Top(t).ok
  BY <1>0, <1>1, <1>4 DEF FrameSet, CallPoint, Fits
<1> HIDE DEF g
<1>6. (Due(g) <=> Due(Calls!Top(t))) /\ (Calls!Denied(g) <=> Calls!Denied(Calls!Top(t)))
  BY <1>5 DEF Due, Calls!Denied
<1>7. g.watched => ~Due(g) \/ Inside(t)
  BY <1>0, <1>1, <1>2, <1>3, <1>5, <1>6 DEF Fits
<1>8. Fits(g, Inside(t), callback) /\ ~Mark(g)
  BY <1>0, <1>1, <1>4, <1>5, <1>6, <1>7 DEF Fits, Mark
<1>9. ScopeMoves(t, Mark(g))
  BY <1>0, <1>1, <1>8 DEF ScopeMoves
<1> QED
  BY <1>0, <1>5, <1>8, <1>9, BecomesTop

\* or runs the callback,
LEMMA PublishKeeps ==
  ASSUME CallsInv, NEW t \in Program, Calls!Publish(t)
  PROVE  CallsInv'
<1> DEFINE g == [Calls!Top(t) EXCEPT !.at = "callback"]
<1>0. frames[t] # <<>> /\ Calls!Top(t).at = "publish" /\ UNCHANGED <<callback, rules, begun>>
      /\ callback /\ ~Calls!Internal(t) /\ ~Calls!Untold(t) /\ Len(frames[t]) < NestMax
      /\ scope' = [scope EXCEPT ![t] = @ + 1] /\ Calls!Enters(t, g, Calls!A, "self")
  BY DEF Calls!Publish, Calls!At
<1>1. Calls!Top(t) \in FrameSet /\ Fits(Calls!Top(t), Inside(t), callback)
      /\ Calls!W(t) = Calls!HookEntry[Calls!Top(t).fn]
      /\ ~Mark(Calls!Top(t)) /\ (Calls!W(t).first => Calls!W(t).always)
  BY <1>0, TopFits DEF Mark
<1>2. ~Inside(t)
  BY <1>0, <1>1, InsideKnown DEF Inside
<1>3. Due(Calls!Top(t))
  BY <1>0, <1>1 DEF Calls!Untold, Due
<1>5. g \in FrameSet /\ g.at = "callback" /\ g.told = 0 /\ g.ran = Calls!Top(t).ran
      /\ g.fn = Calls!Top(t).fn
      /\ g.watched = Calls!Top(t).watched /\ g.rule = Calls!Top(t).rule
      /\ g.ignored = Calls!Top(t).ignored
      /\ g.ok = Calls!Top(t).ok
  BY <1>0, <1>1 DEF FrameSet, CallPoint, Fits
<1> HIDE DEF g
<1>6. Due(g) /\ (Calls!Denied(g) <=> Calls!Denied(Calls!Top(t)))
  BY <1>3, <1>5 DEF Due, Calls!Denied
<1>8. Fits(g, Inside(t), callback) /\ Mark(g)
  BY <1>0, <1>1, <1>2, <1>5, <1>6 DEF Fits, Mark
<1>9. ScopeMoves(t, Mark(g)) /\ "self" \in Calls!Handle
  BY <1>0, <1>1, <1>8 DEF ScopeMoves, Calls!Handle
<1> QED
  BY <1>0, <1>5, <1>8, <1>9, EntersTop

\* which returns or faults.
LEMMA CalledKeeps ==
  ASSUME CallsInv, NEW t \in Program, Calls!Called(t)
  PROVE  CallsInv'
<1>0. frames[t] # <<>> /\ Calls!Top(t).at = "callback" /\ UNCHANGED <<callback, rules, begun>>
      /\ scope' = [scope EXCEPT ![t] = @ - 1]
  BY DEF Calls!Called, Calls!At
<1>1. Calls!Top(t) \in FrameSet /\ Fits(Calls!Top(t), Inside(t), callback)
      /\ Calls!W(t) = Calls!HookEntry[Calls!Top(t).fn]
      /\ Mark(Calls!Top(t)) /\ (Calls!W(t).first => Calls!W(t).always)
  BY <1>0, TopFits DEF Mark
<1>2. ~Inside(t) /\ Due(Calls!Top(t)) /\ Calls!Top(t).told = 0
  BY <1>0, <1>1 DEF Fits
<1>4. \/ Calls!W(t).first /\ Calls!Next2(t) = "told"
      \/ ~Calls!W(t).first /\ Calls!Next2(t) = "return"
  BY DEF Calls!Next2
<1>5. \E g \in FrameSet :
        /\ Calls!Become(t, g)
        /\ g.at = Calls!Next2(t) /\ g.ran = Calls!Top(t).ran /\ g.fn = Calls!Top(t).fn
        /\ g.rule = Calls!Top(t).rule /\ g.ignored = Calls!Top(t).ignored
        /\ g.ok = Calls!Top(t).ok
        /\ \/ callback /\ g.told = 1 /\ g.watched = Calls!Top(t).watched
           \/ g.told = 0 /\ ~g.watched
  <2>1. CASE callback
          /\ Calls!Become(t, [Calls!Top(t) EXCEPT !.told = @ + 1, !.at = Calls!Next2(t)])
    <3> DEFINE g == [Calls!Top(t) EXCEPT !.told = @ + 1, !.at = Calls!Next2(t)]
    <3>0. Calls!Top(t).told + 1 = 1 /\ 1 \in 0..1
      BY <1>2
    <3>1. g \in FrameSet /\ g.at = Calls!Next2(t) /\ g.told = 1 /\ g.ran = Calls!Top(t).ran
          /\ g.fn = Calls!Top(t).fn
          /\ g.watched = Calls!Top(t).watched /\ g.rule = Calls!Top(t).rule
          /\ g.ignored = Calls!Top(t).ignored
          /\ g.ok = Calls!Top(t).ok
      BY <3>0, <1>1, <1>2, <1>4 DEF FrameSet, CallPoint
    <3>2. callback /\ Calls!Become(t, g)
      BY <2>1
    <3> HIDE DEF g
    <3> QED
      BY <3>1, <3>2
  <2>2. CASE Calls!Become(t, [Calls!Top(t) EXCEPT !.at = Calls!Next2(t), !.watched = FALSE])
    <3> DEFINE g == [Calls!Top(t) EXCEPT !.at = Calls!Next2(t), !.watched = FALSE]
    <3>1. g \in FrameSet /\ g.at = Calls!Next2(t) /\ g.told = 0 /\ g.ran = Calls!Top(t).ran
          /\ g.fn = Calls!Top(t).fn
          /\ ~g.watched /\ g.rule = Calls!Top(t).rule /\ g.ignored = Calls!Top(t).ignored
          /\ g.ok = Calls!Top(t).ok
      BY <1>1, <1>2, <1>4 DEF FrameSet, CallPoint
    <3>2. Calls!Become(t, g)
      BY <2>2
    <3> HIDE DEF g
    <3> QED
      BY <3>1, <3>2
  <2> QED
    BY <2>1, <2>2 DEF Calls!Called
<1>6. PICK g \in FrameSet :
        /\ Calls!Become(t, g)
        /\ g.at = Calls!Next2(t) /\ g.ran = Calls!Top(t).ran /\ g.fn = Calls!Top(t).fn
        /\ g.rule = Calls!Top(t).rule /\ g.ignored = Calls!Top(t).ignored
        /\ g.ok = Calls!Top(t).ok
        /\ \/ callback /\ g.told = 1 /\ g.watched = Calls!Top(t).watched
           \/ g.told = 0 /\ ~g.watched
  BY <1>5
<1>7. Due(g) /\ (Calls!Denied(g) <=> Calls!Denied(Calls!Top(t)))
  BY <1>2, <1>6 DEF Due, Calls!Denied
<1>8. Fits(g, Inside(t), callback) /\ ~Mark(g)
  BY <1>0, <1>1, <1>2, <1>4, <1>6, <1>7 DEF Fits, Mark
<1>9. ScopeMoves(t, Mark(g))
  BY <1>0, <1>1, <1>8 DEF ScopeMoves
<1> QED
  BY <1>0, <1>6, <1>8, <1>9, BecomesTop

\* A step of the flush, which changes nothing that was decided or told.
LEMMA FlushingKeeps ==
  ASSUME CallsInv, NEW t \in Program, frames[t] # <<>>,
         Calls!Top(t).at \in {"told", "flush", "swap", "send"},
         NEW to \in {"flush", "swap", "send", "original"}, NEW q \in Seq(Asks),
         Calls!Become(t, [Calls!Top(t) EXCEPT !.at = to, !.todo = q]),
         UNCHANGED <<callback, rules, scope, begun>>
  PROVE  CallsInv'
<1> DEFINE g == [Calls!Top(t) EXCEPT !.at = to, !.todo = q]
<1>1. Calls!Top(t) \in FrameSet /\ Fits(Calls!Top(t), Inside(t), callback) /\ ~Mark(Calls!Top(t))
  BY TopFits DEF Mark
<1>2. g \in FrameSet /\ g.at = to /\ g.told = Calls!Top(t).told /\ g.ran = Calls!Top(t).ran
      /\ g.fn = Calls!Top(t).fn /\ g.rule = Calls!Top(t).rule /\ g.ok = Calls!Top(t).ok
      /\ g.ignored = Calls!Top(t).ignored /\ g.watched = Calls!Top(t).watched
  BY <1>1 DEF FrameSet, CallPoint
<1>3. Calls!Become(t, g)
  OBVIOUS
<1> HIDE DEF g
<1>4. (Due(g) <=> Due(Calls!Top(t))) /\ (Calls!Denied(g) <=> Calls!Denied(Calls!Top(t)))
  BY <1>2 DEF Due, Calls!Denied
<1>5. Fits(g, Inside(t), callback) /\ ~Mark(g)
  BY <1>1, <1>2, <1>4 DEF Fits, Mark
<1>6. ScopeMoves(t, Mark(g))
  BY <1>1, <1>5 DEF ScopeMoves
<1> QED
  BY <1>2, <1>3, <1>5, <1>6, BecomesTop

\* The Winsock events,
LEMMA FlushKeeps ==
  ASSUME CallsInv, NEW t \in Program, Calls!Flush(t)
  PROVE  CallsInv'
<1>0. frames[t] # <<>> /\ Calls!Top(t).at = "told" /\ UNCHANGED <<callback, rules, scope, begun>>
  BY DEF Calls!Flush, Calls!At
<1>1. PICK q \in Calls!Queried :
        Calls!Become(t, [Calls!Top(t) EXCEPT !.at = "flush", !.todo = <<Calls!A>> \o q])
  BY DEF Calls!Flush
<1>2. <<Calls!A>> \o q \in Seq(Asks)
  BY Asked, ConcatProperties
<1> QED
  BY <1>0, <1>1, <1>2, FlushingKeeps

\* the room for the native ones,
LEMMA SwapKeeps ==
  ASSUME CallsInv, NEW t \in Program, Calls!Swap(t)
  PROVE  CallsInv'
BY Asked, FlushingKeeps DEF Calls!Swap, Calls!At

\* the native ones and the others,
LEMMA SendKeeps ==
  ASSUME CallsInv, NEW t \in Program, Calls!Send(t)
  PROVE  CallsInv'
<1>0. frames[t] # <<>> /\ Calls!Top(t).at = "swap" /\ UNCHANGED <<callback, rules, scope, begun>>
  BY DEF Calls!Send, Calls!At
<1>1. PICK n \in Calls!Queried, m \in Calls!Queried :
        Calls!Become(t, [Calls!Top(t) EXCEPT !.at = "send", !.todo = n \o <<Calls!A>> \o m])
  BY DEF Calls!Send
<1>2. n \o <<Calls!A>> \in Seq(Asks)
  BY Asked, ConcatProperties
<1>3. (n \o <<Calls!A>>) \o m \in Seq(Asks)
  BY <1>2, Asked, ConcatProperties
<1> QED
  BY <1>0, <1>1, <1>3, FlushingKeeps

\* and the process is ended.
LEMMA SentKeeps ==
  ASSUME CallsInv, NEW t \in Program, Calls!Sent(t)
  PROVE  CallsInv'
<1> DEFINE g == [Calls!Top(t) EXCEPT !.at = "original"]
<1>0. frames[t] # <<>> /\ Calls!Top(t).at = "send" /\ UNCHANGED <<callback, rules, scope, begun>>
      /\ Calls!Become(t, g)
  BY DEF Calls!Sent, Calls!At
<1>1. Calls!Top(t) \in FrameSet /\ Calls!Top(t).todo \in Seq(Asks)
  BY <1>0, TopFits DEF FrameSet
<1>2. g = [Calls!Top(t) EXCEPT !.at = "original", !.todo = Calls!Top(t).todo]
  BY <1>1 DEF FrameSet
<1> HIDE DEF g
<1> QED
  BY <1>0, <1>1, <1>2, FlushingKeeps

\* A thread of the program calls a hooked function.
LEMMA ProgramCallKeeps ==
  ASSUME CallsInv, NEW t \in Program, Calls!ProgramCall(t)
  PROVE  CallsInv'
<1>0. frames[t] = <<>> /\ begun < CallMax /\ begun' = begun + 1
      /\ UNCHANGED <<callback, rules, scope>>
  BY DEF Calls!ProgramCall
<1>1. PICK f \in Hooked,
        h \in Calls!Handle : frames' = [frames EXCEPT ![t] = <<Calls!Frame(f, h)>>]
  BY CallsKnown DEF Calls!ProgramCall
<1>2. Calls!Frame(f, h) \in FrameSet /\ Fresh(Calls!Frame(f, h))
  <2>1. callback \in BOOLEAN /\ Calls!NoRule \in Calls!Rule /\ <<>> \in Seq(Asks)
    BY RulesTyped DEF CallsInv, CallTypes
  <2> QED
    BY <2>1 DEF Calls!Frame, FrameSet, Fresh, CallPoint
<1>3. PICK y \in FrameSet : y = Calls!Frame(f, h)
  BY <1>2
<1>4. <<y>> \in Seq(FrameSet) /\ Len(<<y>>) = 1 /\ <<y>>[1] = y /\ DOMAIN <<y>> = {1}
  OBVIOUS
<1>5. frames' \in [Program -> Seq(FrameSet)] /\ frames'[t] = <<y>>
      /\ \A u \in Program \ {t} : frames'[u] = frames[u]
  BY <1>1, <1>3, <1>4 DEF CallsInv, CallTypes
<1>6. CallTypes'
  <2>1. begun' \in 0..CallMax
    BY <1>0, Bounds, CallsKnown DEF CallsInv, CallTypes
  <2>2. \A u \in Program : Len(frames'[u]) <= NestMax
    <3> SUFFICES ASSUME NEW u \in Program PROVE Len(frames'[u]) <= NestMax
      OBVIOUS
    <3>1. CASE u = t
      <4>1. 1 <= NestMax
        BY Bounds, CallsKnown
      <4> QED
        BY <3>1, <4>1, <1>4, <1>5
    <3>2. CASE u # t
      BY <3>2, <1>5 DEF CallsInv, CallTypes
    <3> QED
      BY <3>1, <3>2
  <2> QED
    BY <1>0, <1>5, <2>1, <2>2 DEF CallsInv, CallTypes
<1>7. MarksCounted'
  <2>1. Marks(<<y>>) = {} /\ Marks(<<>>) = {}
    BY <1>2, <1>3, <1>4 DEF Marks, Mark, Fresh
  <2>2. \A u \in Program : scope'[u] = Cardinality(Marks(frames'[u]))
    BY <1>0, <1>5, <2>1 DEF CallsInv, MarksCounted
  <2> QED
    BY <2>2 DEF MarksCounted
<1>8. EachFits'
  <2>1. \A m : Fits(y, m, callback)
    BY <1>2, <1>3 DEF Fresh, Fits, Calls!Denied, Mark
  <2>2. \A u \in Program : \A i \in DOMAIN frames'[u] : Fits(frames'[u][i],
          Marked(frames'[u], i), callback)
    <3> SUFFICES ASSUME NEW u \in Program, NEW i \in DOMAIN frames'[u]
                 PROVE  Fits(frames'[u][i], Marked(frames'[u], i), callback)
      OBVIOUS
    <3>1. CASE u = t
      BY <3>1, <2>1, <1>4, <1>5
    <3>2. CASE u # t
      BY <3>2, <1>5 DEF CallsInv, EachFits
    <3> QED
      BY <3>1, <3>2
  <2> QED
    BY <1>0, <2>2 DEF EachFits
<1> QED
  BY <1>6, <1>7, <1>8 DEF CallsInv

\* It returns.
LEMMA ReturnKeeps ==
  ASSUME CallsInv, NEW t \in Program, Calls!Return(t)
  PROVE  CallsInv'
<1> DEFINE s == SubSeq(frames[t], 1, Len(frames[t]) - 1)
<1>0. frames[t] # <<>> /\ Calls!Top(t).at = "return"
      /\ UNCHANGED <<callback, rules, scope, begun>>
      /\ frames' = [frames EXCEPT ![t] = s]
  BY DEF Calls!Return, Calls!At, Calls!Below
<1>1. frames[t] \in Seq(FrameSet) /\ Len(frames[t]) \in Nat \ {0} /\ ~Mark(Calls!Top(t))
      /\ Len(frames[t]) <= NestMax /\ NestMax \in Nat
  BY <1>0, TopFits, Bounds, CallsKnown DEF Mark, CallsInv, CallTypes
<1>2. s \in Seq(FrameSet) /\ Len(s) = Len(frames[t]) - 1
      /\ \A i \in 1..(Len(frames[t]) - 1) : s[i] = frames[t][i]
  BY <1>0, <1>1, Shortened
<1> HIDE DEF s
<1>3. DOMAIN s = 1..(Len(frames[t]) - 1) /\ Len(s) <= NestMax
  BY <1>1, <1>2
<1>4. frames' \in [Program -> Seq(FrameSet)] /\ frames'[t] = s
      /\ \A u \in Program \ {t} : frames'[u] = frames[u]
  BY <1>0, <1>2 DEF CallsInv, CallTypes
<1>5. CallTypes'
  <2>1. \A u \in Program : Len(frames'[u]) <= NestMax
    BY <1>3, <1>4 DEF CallsInv, CallTypes
  <2> QED
    BY <1>0, <1>4, <2>1 DEF CallsInv, CallTypes
<1>6. MarksCounted'
  <2>1. Marks(s) = Marks(frames[t])
    <3>1. DOMAIN frames[t] = DOMAIN s \cup {Len(frames[t])}
      BY <1>1, <1>3
    <3>2. \A i \in DOMAIN s : s[i] = frames[t][i]
      BY <1>2, <1>3
    <3>3. ~Mark(frames[t][Len(frames[t])])
      BY <1>1 DEF Calls!Top
    <3> QED
      BY <3>1, <3>2, <3>3 DEF Marks
  <2>2. \A u \in Program : scope'[u] = Cardinality(Marks(frames'[u]))
    BY <1>0, <1>4, <2>1 DEF CallsInv, MarksCounted
  <2> QED
    BY <2>2 DEF MarksCounted
<1>7. EachFits'
  <2>1. \A i \in DOMAIN s : Fits(s[i], Marked(s, i), callback)
    <3> SUFFICES ASSUME NEW i \in DOMAIN s PROVE Fits(s[i], Marked(s, i), callback)
      OBVIOUS
    <3>1. i \in DOMAIN frames[t] /\ s[i] = frames[t][i]
          /\ \A j \in 1..(i - 1) : s[j] = frames[t][j]
      BY <1>1, <1>2, <1>3
    <3>2. Marked(s, i) = Marked(frames[t], i)
      BY <3>1 DEF Marked
    <3> QED
      BY <3>1, <3>2 DEF CallsInv, EachFits
  <2>2. \A u \in Program : \A i \in DOMAIN frames'[u] : Fits(frames'[u][i],
          Marked(frames'[u], i), callback)
    BY <1>4, <2>1 DEF CallsInv, EachFits
  <2> QED
    BY <1>0, <2>2 DEF EachFits
<1> QED
  BY <1>5, <1>6, <1>7 DEF CallsInv

\* It returns to a flush that cannot do without it.
LEMMA TerminateKeeps ==
  ASSUME CallsInv, NEW t \in Program, Calls!Terminate(t)
  PROVE  CallsInv'
<1> DEFINE n == Len(frames[t]) - 1
           s == SubSeq(frames[t], 1, n)
           g == [s[n] EXCEPT !.at = "gone", !.todo = <<>>]
           z == [s EXCEPT ![n] = g]
<1>0. frames[t] # <<>> /\ Calls!Top(t).at = "return"
      /\ UNCHANGED <<callback, rules, scope, begun>>
      /\ frames' = [frames EXCEPT ![t] = z]
      /\ Len(frames[t]) > 1 /\ frames[t][n].at \in {"flush", "swap", "send"}
  BY DEF Calls!Terminate, Calls!At, Calls!Below, Calls!Starved
<1>1. frames[t] \in Seq(FrameSet) /\ Len(frames[t]) \in Nat \ {0} /\ ~Mark(Calls!Top(t))
      /\ Len(frames[t]) <= NestMax /\ NestMax \in Nat
  BY <1>0, TopFits, Bounds, CallsKnown DEF Mark, CallsInv, CallTypes
<1>2. s \in Seq(FrameSet) /\ Len(s) = n /\ \A i \in 1..n : s[i] = frames[t][i]
  BY <1>0, <1>1, Shortened
<1>3. n \in Nat /\ n # 0 /\ n \in 1..n /\ n \in DOMAIN frames[t] /\ n <= NestMax
      /\ Len(frames[t]) = n + 1 /\ DOMAIN frames[t] = 1..(n + 1)
  <2>1. Len(frames[t]) \in Nat /\ Len(frames[t]) > 1 /\ DOMAIN frames[t] = 1..Len(frames[t])
        /\ Len(frames[t]) <= NestMax /\ NestMax \in Nat
    BY <1>0, <1>1
  <2>2. \A k, m \in Nat : k > 1 /\ k <= m =>
          /\ k - 1 \in Nat /\ k - 1 # 0 /\ k - 1 \in 1..(k - 1) /\ k - 1 \in 1..k /\ k - 1 <= m
          /\ k = (k - 1) + 1
    OBVIOUS
  <2> QED
    BY <2>1, <2>2
<1> HIDE DEF n
<1>4. s[n] = frames[t][n] /\ frames[t][n] \in FrameSet /\ ~Mark(frames[t][n])
      /\ Fits(frames[t][n], Marked(frames[t], n), callback)
  BY <1>0, <1>1, <1>2, <1>3 DEF CallsInv, EachFits, Mark
<1>5. g \in FrameSet /\ g.at = "gone" /\ g.told = frames[t][n].told /\ g.ran = frames[t][n].ran
      /\ g.fn = frames[t][n].fn /\ g.rule = frames[t][n].rule /\ g.ok = frames[t][n].ok
      /\ g.ignored = frames[t][n].ignored /\ g.watched = frames[t][n].watched
  BY <1>4, Asked DEF FrameSet, CallPoint
<1> HIDE DEF s, g
<1>6. z \in Seq(FrameSet) /\ Len(z) = n /\ z[n] = g /\ \A i \in 1..(n - 1) : z[i] = frames[t][i]
  <2>1. s # <<>>
    BY <1>2, <1>3
  <2>2. z = [s EXCEPT ![Len(s)] = g]
    BY <1>2
  <2> HIDE DEF z
  <2>3. z \in Seq(FrameSet) /\ Len(z) = Len(s) /\ z[Len(s)] = g
        /\ \A i \in 1..(Len(s) - 1) : z[i] = s[i]
    BY <1>2, <1>5, <2>1, <2>2, Exchanged
  <2>4. \A i \in 1..(n - 1) : i \in 1..n
    BY <1>3
  <2> QED
    BY <1>2, <2>3, <2>4
<1> HIDE DEF z
<1>7. (Due(g) <=> Due(frames[t][n])) /\ (Calls!Denied(g) <=> Calls!Denied(frames[t][n]))
  BY <1>5 DEF Due, Calls!Denied
<1>8. Fits(g, Marked(frames[t], n), callback) /\ ~Mark(g)
  BY <1>0, <1>4, <1>5, <1>7 DEF Fits, Mark
<1>9. frames' \in [Program -> Seq(FrameSet)] /\ frames'[t] = z
      /\ \A u \in Program \ {t} : frames'[u] = frames[u]
  BY <1>0, <1>6 DEF CallsInv, CallTypes
<1>10. CallsInv'
  <2>1. CallTypes'
    <3>1. \A u \in Program : Len(frames'[u]) <= NestMax
      BY <1>3, <1>6, <1>9 DEF CallsInv, CallTypes
    <3> QED
      BY <1>0, <1>9, <3>1 DEF CallsInv, CallTypes
  <2>2. MarksCounted'
    <3>1. DOMAIN z = 1..n /\ ~Mark(frames[t][n + 1])
      BY <1>1, <1>3, <1>6 DEF Calls!Top
    <3>2. \A i \in 1..(n + 1) : i \in 1..(n - 1) \/ i = n \/ i = n + 1
      BY <1>3
    <3>3. \A i \in 1..(n - 1) : i \in 1..n /\ i \in 1..(n + 1)
      BY <1>3
    <3>4. Marks(z) = Marks(frames[t])
      BY <1>3, <1>4, <1>6, <1>8, <3>1, <3>2, <3>3 DEF Marks
    <3>5. \A u \in Program : scope'[u] = Cardinality(Marks(frames'[u]))
      BY <1>0, <1>9, <3>4 DEF CallsInv, MarksCounted
    <3> QED
      BY <3>5 DEF MarksCounted
  <2>3. EachFits'
    <3>1. ASSUME NEW i \in DOMAIN z PROVE Fits(z[i], Marked(z, i), callback)
      <4>1. i \in 1..n /\ i \in DOMAIN frames[t] /\ \A j \in 1..(i - 1) : j \in 1..(n - 1)
        BY <1>3, <1>6, <3>1
      <4>2. Marked(z, i) = Marked(frames[t], i)
        BY <1>6, <4>1 DEF Marked
      <4>3. CASE i = n
        BY <1>6, <1>8, <4>2, <4>3
      <4>4. CASE i # n
        <5>1. i \in 1..(n - 1)
          BY <1>3, <4>1, <4>4
        <5>2. z[i] = frames[t][i] /\ Fits(frames[t][i], Marked(frames[t], i), callback)
          BY <1>6, <4>1, <5>1 DEF CallsInv, EachFits
        <5> QED
          BY <4>2, <5>2
      <4> QED
        BY <4>3, <4>4
    <3>2. \A u \in Program : \A i \in DOMAIN frames'[u] :
            Fits(frames'[u][i], Marked(frames'[u], i), callback)
      BY <1>9, <3>1 DEF CallsInv, EachFits
    <3> QED
      BY <1>0, <3>2 DEF EachFits
  <2> QED
    BY <2>1, <2>2, <2>3 DEF CallsInv
<1> QED
  BY <1>10

\* The hooks are removed and the callback is cleared.
LEMMA ClearKeeps ==
  ASSUME CallsInv, Calls!ClearCallback
  PROVE  CallsInv'
<1>0. callback' = FALSE /\ UNCHANGED <<rules, scope, begun>>
      /\ frames' = [t \in Program |->
                      [i \in DOMAIN frames[t] |-> [frames[t][i] EXCEPT !.watched = FALSE]]]
  BY DEF Calls!ClearCallback
<1>1. ASSUME NEW t \in Program
      PROVE  /\ frames[t] \in Seq(FrameSet) /\ Len(frames[t]) \in Nat
             /\ frames'[t] \in Seq(FrameSet) /\ Len(frames'[t]) = Len(frames[t])
             /\ DOMAIN frames'[t] = DOMAIN frames[t]
             /\ \A i \in DOMAIN frames[t] : /\ frames[t][i] \in FrameSet
                                            /\ frames'[t][i] = [frames[t][i]
                                               EXCEPT !.watched = FALSE]
  <2>1. frames[t] \in Seq(FrameSet) /\ Len(frames[t]) \in Nat
        /\ DOMAIN frames[t] = 1..Len(frames[t])
        /\ \A i \in DOMAIN frames[t] : frames[t][i] \in FrameSet
    BY DEF CallsInv, CallTypes
  <2>2. frames'[t] = [i \in 1..Len(frames[t]) |-> [frames[t][i] EXCEPT !.watched = FALSE]]
    BY <1>0, <2>1
  <2>3. \A i \in 1..Len(frames[t]) : [frames[t][i] EXCEPT !.watched = FALSE] \in FrameSet
    BY <2>1 DEF FrameSet
  <2>4. frames'[t] \in Seq(FrameSet) /\ Len(frames'[t]) = Len(frames[t])
    BY <2>1, <2>2, <2>3
  <2> QED
    BY <2>1, <2>2, <2>4
<1>2. ASSUME NEW t \in Program, NEW i \in DOMAIN frames[t]
      PROVE  /\ Mark(frames'[t][i]) <=> Mark(frames[t][i])
             /\ \A m : Fits(frames[t][i], m, callback) => Fits(frames'[t][i], m, FALSE)
  <2>1. frames[t][i] \in FrameSet /\ frames'[t][i] = [frames[t][i] EXCEPT !.watched = FALSE]
    BY <1>1
  <2> DEFINE f == frames[t][i]
             g == frames'[t][i]
  <2>2. f.at = g.at /\ f.told = g.told /\ f.ran = g.ran /\ f.fn = g.fn /\ f.rule = g.rule
        /\ f.ignored = g.ignored /\ f.ok = g.ok /\ ~g.watched
    BY <2>1 DEF FrameSet
  <2> HIDE DEF f, g
  <2>3. (Mark(g) <=> Mark(f)) /\ (Due(g) <=> Due(f)) /\ (Calls!Denied(g) <=> Calls!Denied(f))
    BY <2>2 DEF Mark, Due, Calls!Denied
  <2>4. \A m : Fits(f, m, callback) => Fits(g, m, FALSE)
    BY <2>2, <2>3 DEF Fits
  <2> QED
    BY <2>3, <2>4 DEF f, g
<1>3. \A t \in Program : Marks(frames'[t]) = Marks(frames[t])
  BY <1>1, <1>2 DEF Marks
<1>4. \A t \in Program : \A i \in DOMAIN frames'[t] : Marked(frames'[t], i) = Marked(frames[t], i)
  <2> SUFFICES ASSUME NEW t \in Program, NEW i \in DOMAIN frames'[t]
               PROVE  Marked(frames'[t], i) = Marked(frames[t], i)
    OBVIOUS
  <2>1. i \in 1..Len(frames[t]) /\ Len(frames[t]) \in Nat /\ DOMAIN frames[t] = 1..Len(frames[t])
    BY <1>1
  <2>2. \A j \in 1..(i - 1) : Mark(frames'[t][j]) <=> Mark(frames[t][j])
    <3>1. \A j \in 1..(i - 1) : j \in DOMAIN frames[t]
      BY <2>1
    <3> QED
      BY <3>1, <1>2
  <2> QED
    BY <2>2 DEF Marked
<1>5. CallTypes'
  <2>1. frames' \in [Program -> Seq(FrameSet)] /\ \A t \in Program : Len(frames'[t]) <= NestMax
    BY <1>0, <1>1 DEF CallsInv, CallTypes
  <2> QED
    BY <1>0, <2>1 DEF CallsInv, CallTypes
<1>6. MarksCounted'
  <2>1. \A t \in Program : scope'[t] = Cardinality(Marks(frames'[t]))
    BY <1>0, <1>3 DEF CallsInv, MarksCounted
  <2> QED
    BY <2>1 DEF MarksCounted
<1>7. EachFits'
  <2>1. \A t \in Program : \A i \in DOMAIN frames'[t] : Fits(frames'[t][i],
          Marked(frames'[t], i), FALSE)
    BY <1>1, <1>2, <1>4 DEF CallsInv, EachFits
  <2> QED
    BY <1>0, <2>1 DEF EachFits
<1> QED
  BY <1>5, <1>6, <1>7 DEF CallsInv

\* Nothing is called at first.
LEMMA CallsInit == Calls!Init => CallsInv
<1> SUFFICES ASSUME Calls!Init PROVE CallsInv
  OBVIOUS
<1>1. Calls!NoRule \in Calls!Rule /\ rules \in Calls!Policy
  BY DEF Calls!Init, Calls!Rule
<1>2. <<>> \in Seq(FrameSet) /\ Len(<<>>) = 0 /\ DOMAIN <<>> = {}
  OBVIOUS
<1>3. CallTypes
  BY <1>1, <1>2, Bounds, CallsKnown DEF Calls!Init, CallTypes
<1>4. Marks(<<>>) = {}
  BY <1>2 DEF Marks
<1>5. MarksCounted
  BY <1>4, FS_EmptySet DEF Calls!Init, MarksCounted
<1>6. EachFits
  BY <1>2 DEF Calls!Init, EachFits
<1> QED
  BY <1>3, <1>5, <1>6 DEF CallsInv

\* Every step of a thread or of the removal keeps the invariant.
LEMMA CallsKept == CallsInv /\ [Calls!Next]_Calls!vars => CallsInv'
<1> SUFFICES ASSUME CallsInv, [Calls!Next]_Calls!vars PROVE CallsInv'
  OBVIOUS
<1>1. CASE UNCHANGED Calls!vars
  BY <1>1 DEF Calls!vars, CallsInv, CallTypes, MarksCounted, EachFits
<1>2. ASSUME NEW t \in Program, Calls!CallStep(t) PROVE CallsInv'
  BY <1>2, ProgramCallKeeps, UnjudgedKeeps, TraceKeeps, TracedKeeps, ClassifiedKeeps, LookupKeeps,
     OriginalKeeps, AfterKeeps, GuardKeeps, GuardedKeeps, WithholdKeeps, PublishKeeps, CalledKeeps,
     FlushKeeps, SwapKeeps, SendKeeps, SentKeeps, ReturnKeeps, TerminateKeeps
     DEF Calls!CallStep
<1>3. CASE Calls!ClearCallback
  BY <1>3, ClearKeeps
<1> QED
  BY <1>1, <1>2, <1>3 DEF Calls!Next

\* The invariant says what the run's type invariant says,
LEMMA CallsTyped == CallsInv => Calls!TypeOK
<1> SUFFICES ASSUME CallsInv PROVE Calls!TypeOK
  OBVIOUS
<1>1. \A t \in Program : scope[t] \in 0..NestMax
  <2> SUFFICES ASSUME NEW t \in Program PROVE scope[t] \in 0..NestMax
    OBVIOUS
  <2>1. frames[t] \in Seq(FrameSet) /\ Len(frames[t]) \in Nat /\ Len(frames[t]) <= NestMax
    BY DEF CallsInv, CallTypes
  <2>2. Cardinality(Marks(frames[t])) \in Nat /\ Cardinality(Marks(frames[t])) <= Len(frames[t])
    BY <2>1, Counted
  <2> QED
    BY <2>1, <2>2, Bounds, CallsKnown DEF CallsInv, MarksCounted
<1>2. \A t \in Program : \A i \in DOMAIN frames[t] : frames[t][i].fn \in Hooked
        /\ frames[t][i].handle \in Calls!Handle
  <2> SUFFICES ASSUME NEW t \in Program, NEW i \in DOMAIN frames[t]
               PROVE  frames[t][i].fn \in Hooked /\ frames[t][i].handle \in Calls!Handle
    OBVIOUS
  <2>1. frames[t][i] \in FrameSet
    BY DEF CallsInv, CallTypes
  <2> QED
    BY <2>1 DEF FrameSet
<1> QED
  BY <1>1, <1>2 DEF CallsInv, CallTypes, Calls!TypeOK

\* and that a call is denied or told.
LEMMA CallsTold == CallsInv => Calls!DeniedOrTold
<1> SUFFICES ASSUME CallsInv, NEW t \in Program, NEW i \in 1..NestMax, i \in DOMAIN frames[t],
                    frames[t][i].at \in {"return", "gone"}
             PROVE  LET f == frames[t][i]
                        marked == \E j \in 1..(i - 1) : frames[t][j].at \in Calls!Marks
                        due == IF f.rule.matched
                               THEN ~f.ignored /\ (f.rule.log \/ f.rule.action # "none")
                               ELSE f.ok \/ Calls!HookEntry[f.fn].always IN
                      /\ ~marked /\ Calls!Denied(f) => ~f.ran
                      /\ f.watched => f.told = IF due /\ ~marked THEN 1 ELSE 0
  BY DEF Calls!DeniedOrTold
<1>1. Fits(frames[t][i], Marked(frames[t], i), callback)
  BY DEF CallsInv, EachFits
<1> QED
  BY <1>1 DEF Fits, Marked, Mark, Due, Calls!Marks

\* A call that a wrapper or the callback made, number i of its chain, marked (m) or not,
\* private callers being ignored (p) or not: BLIND's own.  A marked one asks nothing and
\* an unmarked one at most memory queries, which ask nothing.
Own(f, m, i, p) ==
  /\ f.fn \in Asks
  /\ f.fn # Calls!Q => f.handle = "self"
  /\ f.fn = Calls!P => m
  /\ f.todo \in Seq({Calls!V})
  /\ m \/ f.fn = Calls!V => f.todo = <<>>
  /\ i = 2 \/ m \/ f.fn = Calls!V
  /\ p /\ f.fn = Calls!V => f.at # "traced"

Chain(s, p) ==
  /\ Len(s) <= 4
  /\ Len(s) = 4 => Marked(s, 4)
  /\ \A i \in DOMAIN s : i # 1 => Own(s[i], Marked(s, i), i, p)

Chained == \A t \in Program : Chain(frames[t], rules.private)

\* The classification of a query's trace is not a matter of the next query's.
Ends == ~(rules.private /\ Calls!V \in rules.asked)

\* BLIND's own calls are of four functions.
LEMMA FourFunctions ==
  /\ Calls!Q # Calls!V /\ Calls!Q # Calls!A /\ Calls!Q # Calls!P
  /\ Calls!V # Calls!A /\ Calls!V # Calls!P /\ Calls!A # Calls!P
BY DEF Calls!Q, Calls!V, Calls!A, Calls!P

\* What wrappers and the callback call goes to the original at once, and asks about
\* this process, which takes no call.
LEMMA OwnWrappers ==
  /\ \A f \in Asks : ~Calls!HookEntry[f].first /\ ~Calls!HookEntry[f].before
  /\ ~Calls!HookEntry[Calls!Q].after /\ ~Calls!HookEntry[Calls!Q].scans
  /\ ~Calls!HookEntry[Calls!V].scans
  /\ Calls!HookEntry[Calls!P].quiet
  /\ Calls!PidCalls("self") = {<<>>}
<1>1. Calls!HookEntry[Calls!Q] = Calls!Plain
      /\ Calls!HookEntry[Calls!V] = Calls!LooksUp(Calls!Plain)
      /\ Calls!HookEntry[Calls!A] = Calls!Scans(Calls!LooksUp(Calls!Plain))
      /\ Calls!HookEntry[Calls!P] = [Calls!Scans(Calls!LooksUp(Calls!Plain)) EXCEPT !.quiet = TRUE]
  BY DEF Calls!HookEntry, Calls!Q, Calls!V, Calls!A, Calls!P, Calls!NtQueryInformationProcess,
         Calls!NtQueryVirtualMemory, Calls!NtAllocateVirtualMemory, Calls!NtProtectVirtualMemory
<1> DEFINE AtOnce(w) == ~w.first /\ ~w.before
<1>2. /\ AtOnce(Calls!HookEntry[Calls!Q]) /\ AtOnce(Calls!HookEntry[Calls!V])
      /\ AtOnce(Calls!HookEntry[Calls!A]) /\ AtOnce(Calls!HookEntry[Calls!P])
      /\ ~Calls!HookEntry[Calls!Q].after /\ ~Calls!HookEntry[Calls!Q].scans
      /\ ~Calls!HookEntry[Calls!V].scans /\ Calls!HookEntry[Calls!P].quiet
  BY <1>1 DEF Calls!Plain, Calls!LooksUp, Calls!Scans
<1>3. \A f \in Asks : AtOnce(Calls!HookEntry[f])
  BY <1>2 DEF Asks
<1>4. Calls!PidCalls("self") = {<<>>}
  BY DEF Calls!PidCalls
<1> QED
  BY <1>2, <1>3, <1>4

\* Of lengths.
LEMMA SmallNumbers ==
  /\ \A n \in Nat \ {0} : n <= 4 => n \in {1, 2, 3, 4}
  /\ \A n \in {0, 1, 2, 3} : n <= 4 /\ n # 4
OBVIOUS

\* The innermost call of a chain of more than one was begun by BLIND itself.
LEMMA TopOwn ==
  ASSUME CallsInv, Chained, NEW t \in Program, frames[t] # <<>>
  PROVE  /\ Len(frames[t]) \in {1, 2, 3, 4}
         /\ Len(frames[t]) = 4 => Inside(t)
         /\ Len(frames[t]) # 1 => Own(Calls!Top(t), Inside(t), Len(frames[t]), rules.private)
<1>1. frames[t] \in Seq(FrameSet) /\ Len(frames[t]) \in Nat \ {0}
      /\ Len(frames[t]) \in DOMAIN frames[t]
  BY DEF CallsInv, CallTypes
<1>2. Chain(frames[t], rules.private)
  BY DEF Chained
<1>3. Len(frames[t]) \in {1, 2, 3, 4} /\ (Len(frames[t]) = 4 => Inside(t))
  <2>0. Len(frames[t]) <= 4
    BY <1>2 DEF Chain
  <2>1. Len(frames[t]) \in {1, 2, 3, 4}
    BY <1>1, <2>0, SmallNumbers
  <2>2. CASE Len(frames[t]) = 4
    BY <1>2, <2>2 DEF Chain, Inside, Marked
  <2> QED
    BY <2>1, <2>2
<1>4. Len(frames[t]) # 1 =>
        Own(frames[t][Len(frames[t])], Marked(frames[t], Len(frames[t])), Len(frames[t]), rules.private)
  BY <1>1, <1>2 DEF Chain
<1> QED
  BY <1>3, <1>4 DEF Inside, Calls!Top

\* A step that leaves one thread in a chain leaves every thread in one.
LEMMA ChainSettles ==
  ASSUME Chained, NEW t \in Program, NEW s, frames \in [Program -> Seq(FrameSet)],
         frames' = [frames EXCEPT ![t] = s], Chain(s, rules.private), rules' = rules
  PROVE  Chained'
<1>1. \A u \in Program : Chain(frames'[u], rules.private)
  BY DEF Chained
<1> QED
  BY <1>1 DEF Chained

\* A chain is still one when its innermost call has moved on, ...
LEMMA ChainExchanged ==
  ASSUME NEW f \in Seq(FrameSet), NEW n \in Nat, n = Len(f), n # 0, NEW p, Chain(f, p),
         NEW s, DOMAIN s = 1..n, Len(s) = n,
         \A i \in 1..(n - 1) : s[i] = f[i], n # 1 => Own(s[n], Marked(f, n), n, p)
  PROVE  Chain(s, p)
<1>1. \A i \in 1..n : Marked(s, i) <=> Marked(f, i)
  <2> SUFFICES ASSUME NEW i \in 1..n PROVE Marked(s, i) <=> Marked(f, i)
    OBVIOUS
  <2>1. \A j \in 1..(i - 1) : s[j] = f[j]
    OBVIOUS
  <2> QED
    BY <2>1 DEF Marked
<1>2. DOMAIN s = 1..n /\ DOMAIN f = 1..n
  OBVIOUS
<1>3. Len(s) <= 4 /\ (Len(s) = 4 => Marked(s, 4))
  BY <1>1 DEF Chain
<1>4. ASSUME NEW i \in 1..n, i # 1 PROVE Own(s[i], Marked(s, i), i, p)
  <2>0. Marked(s, i) = Marked(f, i)
    BY <1>1 DEF Marked
  <2>1. CASE i = n
    BY <1>4, <2>0, <2>1
  <2>2. CASE i # n
    <3>1. s[i] = f[i]
      BY <2>2
    <3>2. Own(f[i], Marked(f, i), i, p)
      BY <1>2, <1>4 DEF Chain
    <3> QED
      BY <2>0, <3>1, <3>2
  <2> QED
    BY <2>1, <2>2
<1> QED
  BY <1>2, <1>3, <1>4 DEF Chain

\* ... as it has in a step that replaces the innermost record.
LEMMA ChainBecomes ==
  ASSUME CallsInv, Chained, NEW t \in Program, frames[t] # <<>>, NEW g, Calls!Become(t, g),
         Len(frames[t]) # 1 => Own(g, Inside(t), Len(frames[t]), rules.private), rules' = rules
  PROVE  Chained'
<1> DEFINE s == [frames[t] EXCEPT ![Len(frames[t])] = g]
           S == FrameSet \cup {g}
<1>0. frames[t] \in Seq(FrameSet) /\ Len(frames[t]) \in Nat \ {0}
      /\ frames \in [Program -> Seq(FrameSet)]
  BY DEF CallsInv, CallTypes
<1>1. frames[t] \in Seq(S) /\ g \in S
  BY <1>0
<1>2. frames' = [frames EXCEPT ![t] = s]
  BY <1>0 DEF Calls!Become
<1> HIDE DEF S
<1>3. DOMAIN s = 1..Len(frames[t]) /\ Len(s) = Len(frames[t]) /\ s[Len(frames[t])] = g
      /\ \A i \in 1..(Len(frames[t]) - 1) : s[i] = frames[t][i]
  BY <1>0, <1>1, Exchanged
<1> HIDE DEF s
<1>4. Chain(s, rules.private)
  <2>1. Chain(frames[t], rules.private)
    BY DEF Chained
  <2> QED
    BY <1>0, <1>3, <2>1, ChainExchanged DEF Inside
<1> QED
  BY <1>0, <1>2, <1>3, <1>4, ChainSettles

\* A chain grows by a call of a wrapper or by a marked one, ...
LEMMA ChainGrown ==
  ASSUME NEW f \in Seq(FrameSet), NEW n \in 1..3, n = Len(f), NEW p, Chain(f, p),
         NEW s, DOMAIN s = 1..(n + 1), Len(s) = n + 1, \A i \in 1..(n - 1) : s[i] = f[i],
         n # 1 => Own(s[n], Marked(f, n), n, p), n = 3 => Mark(s[n]),
         NEW b \in BOOLEAN, b <=> Mark(s[n]) \/ Marked(f, n), Own(s[n + 1], b, n + 1, p)
  PROVE  Chain(s, p)
<1>1. \A i \in 1..n : Marked(s, i) <=> Marked(f, i)
  <2> SUFFICES ASSUME NEW i \in 1..n PROVE Marked(s, i) <=> Marked(f, i)
    OBVIOUS
  <2>1. \A j \in 1..(i - 1) : s[j] = f[j]
    OBVIOUS
  <2> QED
    BY <2>1 DEF Marked
<1>2. Marked(s, n + 1) <=> b
  <2>1. \A j \in 1..(n + 1 - 1) : j = n \/ j \in 1..(n - 1)
    OBVIOUS
  <2>2. n \in 1..(n + 1 - 1) /\ \A j \in 1..(n - 1) : j \in 1..(n + 1 - 1)
    OBVIOUS
  <2>3. Marked(s, n + 1) <=> Mark(s[n]) \/ Marked(s, n)
    BY <2>1, <2>2 DEF Marked
  <2> QED
    BY <1>1, <2>3
<1>3. DOMAIN f = 1..n /\ \A i \in 1..(n + 1) : i \in 1..(n - 1) \/ i = n \/ i = n + 1
  OBVIOUS
<1>4. Len(s) <= 4 /\ (Len(s) = 4 => Marked(s, 4))
  BY <1>2
<1>5. ASSUME NEW i \in 1..(n + 1), i # 1 PROVE Own(s[i], Marked(s, i), i, p)
  <2>1. CASE i \in 1..(n - 1)
    <3>1. s[i] = f[i] /\ Own(f[i], Marked(f, i), i, p)
      BY <1>3, <1>5, <2>1 DEF Chain
    <3>2. i \in 1..n
      BY <2>1
    <3>3. Marked(s, i) = Marked(f, i)
      BY <1>1, <3>2 DEF Marked
    <3> QED
      BY <3>1, <3>3
  <2>2. CASE i = n
    <3>1. Marked(s, n) = Marked(f, n)
      BY <1>1 DEF Marked
    <3> QED
      BY <1>5, <2>2, <3>1
  <2>3. CASE i = n + 1
    <3>1. Marked(s, n + 1) = b
      BY <1>2 DEF Marked
    <3> QED
      BY <2>3, <3>1
  <2> QED
    BY <1>3, <2>1, <2>2, <2>3
<1> QED
  BY <1>4, <1>5 DEF Chain

\* ... as it does in a step that begins another call.
LEMMA ChainEnters ==
  ASSUME CallsInv, Chained, NEW t \in Program, frames[t] # <<>>, NEW g, NEW fn \in Asks, NEW h,
         Calls!Enters(t, g, fn, h), fn # Calls!Q => h = "self", fn = Calls!P => Mark(g),
         Len(frames[t]) = 1 \/ fn = Calls!V \/ Mark(g),
         Len(frames[t]) # 1 => Own(g, Inside(t), Len(frames[t]), rules.private),
         Len(frames[t]) # 4, Len(frames[t]) = 3 => Mark(g), rules' = rules
  PROVE  Chained'
<1>0. frames[t] \in Seq(FrameSet) /\ frames \in [Program -> Seq(FrameSet)]
  BY DEF CallsInv, CallTypes
<1>a. Len(frames[t]) \in {1, 2, 3} /\ Chain(frames[t], rules.private)
  BY TopOwn DEF Chained
<1>1. CASE fn \notin Hooked
  <2>1. frames' = [frames EXCEPT ![t] = SubSeq(frames[t], 1, Len(frames[t]) - 1) \o <<g>>]
    BY <1>1 DEF Calls!Enters
  <2> DEFINE S == FrameSet \cup {g}
  <2>2. frames[t] \in Seq(S) /\ g \in S
    BY <1>0
  <2> HIDE DEF S
  <2>3. SubSeq(frames[t], 1, Len(frames[t]) - 1) \o <<g>> =
         [frames[t] EXCEPT ![Len(frames[t])] = g]
    BY <2>2, Exchanged
  <2>4. Calls!Become(t, g)
    BY <1>0, <2>1, <2>3 DEF Calls!Become
  <2> QED
    BY <2>4, ChainBecomes
<1>2. CASE fn \in Hooked
  <2> DEFINE s == Grown(frames[t], g, Calls!Frame(fn, h))
             b == Mark(g) \/ Inside(t)
             n == Len(frames[t])
  <2>1. frames' = [frames EXCEPT ![t] = s]
    BY <1>2 DEF Calls!Enters, Grown
  <2>2. Grows(frames[t], g, Calls!Frame(fn, h), s)
    BY <1>0, PushedAny
  <2> HIDE DEF s
  <2>3. n \in 1..3 /\ (n + 1 = 2 <=> n = 1)
    <3>1. \A k \in {1, 2, 3} : k \in 1..3 /\ (k + 1 = 2 <=> k = 1)
      OBVIOUS
    <3> QED
      BY <1>a, <3>1
  <2>4. Own(Calls!Frame(fn, h), b, n + 1, rules.private)
    BY <2>3 DEF Own, Calls!Frame
  <2>5. b \in BOOLEAN /\ (b <=> Mark(g) \/ Marked(frames[t], n))
    BY DEF Inside, Mark, Marked
  <2>6. DOMAIN s = 1..(n + 1) /\ Len(s) = n + 1 /\ s[n] = g /\ s[n + 1] = Calls!Frame(fn, h)
        /\ \A i \in 1..(n - 1) : s[i] = frames[t][i]
    BY <2>2 DEF Grows
  <2>7. n # 1 => Own(s[n], Marked(frames[t], n), n, rules.private)
    BY <2>6 DEF Inside
  <2>8. n = 3 => Mark(s[n])
    BY <2>6
  <2>9. n = Len(frames[t])
    OBVIOUS
  <2> HIDE DEF b, n
  <2>10. Chain(s, rules.private)
    BY <1>0, <1>a, <2>3, <2>4, <2>5, <2>6, <2>7, <2>8, <2>9, ChainGrown
  <2> QED
    BY <1>0, <2>1, <2>10, ChainSettles
<1> QED
  BY <1>1, <1>2

\* Being judged does not give BLIND's own call a question to ask.
LEMMA JudgedOwn ==
  ASSUME NEW t \in Program, NEW f \in FrameSet, NEW g \in Calls!Judged(t, f), NEW m, NEW i, NEW p,
         Own(f, m, i, p)
  PROVE  Own(g, m, i, p)
<1>1. ~Calls!HookEntry[f.fn].first /\ ~Calls!HookEntry[f.fn].before
  BY OwnWrappers DEF Own
<1>2. g = [f EXCEPT !.at = "original", !.todo = <<>>]
  BY <1>1 DEF Calls!Judged, Calls!Before
<1>3. g.fn = f.fn /\ g.at = "original" /\ g.todo = <<>> /\ g.handle = f.handle
      /\ <<>> \in Seq({Calls!V})
  BY <1>2 DEF FrameSet
<1> QED
  BY <1>3 DEF Own

\* The record goes on with the same call, asking as much.
Alike(f, g) ==
  g.fn = f.fn /\ g.todo = f.todo /\ g.handle = f.handle /\ (g.at = "traced" => f.at = "traced")

\* It is still a call of BLIND's own.
LEMMA AlikeOwn ==
  ASSUME NEW f, NEW g, NEW m, NEW i, NEW p, Own(f, m, i, p), Alike(f, g) PROVE Own(g, m, i, p)
BY DEF Own, Alike

\* So a chain is still one when its innermost call is alike.
LEMMA ChainAlike ==
  ASSUME CallsInv, Chained, NEW t \in Program, frames[t] # <<>>, NEW g, Calls!Become(t, g),
         Alike(Calls!Top(t), g), rules' = rules
  PROVE  Chained'
BY TopOwn, AlikeOwn, ChainBecomes

\* A step of the flush is a step of a call of the program.
LEMMA FirstAlone ==
  ASSUME CallsInv, Chained, NEW t \in Program, frames[t] # <<>>, Calls!W(t).first
  PROVE  Len(frames[t]) = 1
<1>1. Calls!W(t) = Calls!HookEntry[Calls!Top(t).fn]
  BY TopFits
<1> QED
  BY <1>1, TopOwn, OwnWrappers DEF Own

\* The wrapper asks the policy: the chain is as long as before.
LEMMA UnjudgedChains ==
  ASSUME CallsInv, Chained, NEW t \in Program, Calls!Unjudged(t)
  PROVE  Chained'
<1> DEFINE r == IF ~Calls!Internal(t) /\ Calls!RuleOf(Calls!Top(t).fn).matched
                THEN Calls!RuleOf(Calls!Top(t).fn) ELSE Calls!NoRule
<1>0. frames[t] # <<>> /\ Calls!Top(t).at = "enter" /\ rules' = rules
  BY DEF Calls!Unjudged, Calls!At
<1>1. PICK i \in BOOLEAN :
        \E g \in Calls!Judged(t, [Calls!Top(t) EXCEPT !.rule = r, !.ignored = i]) :
          Calls!Become(t, g)
  BY DEF Calls!Unjudged
<1>2. PICK g \in Calls!Judged(t, [Calls!Top(t) EXCEPT !.rule = r, !.ignored = i]) :
        Calls!Become(t, g)
  BY <1>1
<1>3. r \in Calls!Rule
  BY RulesTyped DEF CallsInv
<1> HIDE DEF r
<1> DEFINE f == [Calls!Top(t) EXCEPT !.rule = r, !.ignored = i]
<1>4. Calls!Top(t) \in FrameSet
  BY <1>0, TopFits
<1>5. f \in FrameSet /\ Alike(Calls!Top(t), f)
  BY <1>0, <1>3, <1>4 DEF FrameSet, Alike
<1>6. g \in Calls!Judged(t, f)
  BY <1>2
<1> HIDE DEF f
<1>7. Len(frames[t]) # 1 => Own(g, Inside(t), Len(frames[t]), rules.private)
  BY <1>0, <1>5, <1>6, TopOwn, AlikeOwn, JudgedOwn
<1> QED
  BY <1>0, <1>2, <1>7, ChainBecomes

\* A call of the program walks the stack, or one of BLIND's own that is not marked
\* does: from there on they are.  A query does not while private callers are ignored.
LEMMA TraceChains ==
  ASSUME CallsInv, Chained, Ends, NEW t \in Program, Calls!Trace(t)
  PROVE  Chained'
<1> DEFINE g == [Calls!Top(t) EXCEPT !.at = "traced"]
<1>0. frames[t] # <<>> /\ Calls!Top(t).at = "enter" /\ ~Calls!Internal(t) /\ rules' = rules
      /\ Calls!NeedsTrace(Calls!Top(t).fn) /\ Calls!Enters(t, g, Calls!V, "self")
  BY DEF Calls!Trace, Calls!At
<1>1. ~Mark(Calls!Top(t)) /\ Calls!V \in Asks
  BY <1>0 DEF Mark, Asks
<1>2. ~Inside(t)
  BY <1>0, <1>1, InsideKnown DEF Inside
<1>3. g.fn = Calls!Top(t).fn /\ g.todo = Calls!Top(t).todo /\ g.handle = Calls!Top(t).handle /\ Mark(g)
  BY <1>0, TopFits DEF FrameSet, Mark
<1> HIDE DEF g
<1>4. rules.private => Calls!Top(t).fn # Calls!V
  BY <1>0 DEF Ends, Calls!NeedsTrace, Calls!RuleOf, Calls!NoRule
<1>5. Len(frames[t]) # 4 /\ (Len(frames[t]) # 1 => Own(g, Inside(t), Len(frames[t]), rules.private))
  BY <1>0, <1>2, <1>3, <1>4, TopOwn DEF Own
<1> QED
  BY <1>0, <1>1, <1>3, <1>5, FourFunctions, ChainEnters

\* The call is judged after it.
LEMMA JudgeChains ==
  ASSUME CallsInv, Chained, NEW t \in Program, frames[t] # <<>>, Calls!Judge(t), rules' = rules
  PROVE  Chained'
<1> DEFINE r == Calls!RuleOf(Calls!Top(t).fn)
<1>1. PICK i \in BOOLEAN :
        \E g \in Calls!Judged(t, [Calls!Top(t) EXCEPT !.rule = r, !.ignored = i]) :
          Calls!Become(t, g)
  BY DEF Calls!Judge
<1>2. PICK g \in Calls!Judged(t, [Calls!Top(t) EXCEPT !.rule = r, !.ignored = i]) :
        Calls!Become(t, g)
  BY <1>1
<1>3. r \in Calls!Rule
  BY RulesTyped DEF CallsInv
<1> HIDE DEF r
<1> DEFINE f == [Calls!Top(t) EXCEPT !.rule = r, !.ignored = i]
<1>4. Calls!Top(t) \in FrameSet
  BY TopFits
<1>5. f \in FrameSet /\ Alike(Calls!Top(t), f)
  BY <1>3, <1>4 DEF FrameSet, Alike
<1>6. g \in Calls!Judged(t, f)
  BY <1>2
<1> HIDE DEF f
<1>7. Len(frames[t]) # 1 => Own(g, Inside(t), Len(frames[t]), rules.private)
  BY <1>5, <1>6, TopOwn, AlikeOwn, JudgedOwn
<1> QED
  BY <1>2, <1>7, ChainBecomes

\* If private callers are ignored the trace is classified first, which is not marked:
\* the trace of a query is not.
LEMMA TracedChains ==
  ASSUME CallsInv, Chained, NEW t \in Program, Calls!Traced(t)
  PROVE  Chained'
<1>0. frames[t] # <<>> /\ Calls!Top(t).at = "traced" /\ rules' = rules
  BY DEF Calls!Traced, Calls!At
<1>1. CASE Calls!Judge(t)
  BY <1>0, <1>1, JudgeChains
<1>2. ASSUME NEW q \in Calls!Queried, rules.private,
             Calls!Become(t, [Calls!Top(t) EXCEPT !.at = "classify", !.todo = q])
      PROVE  Chained'
  <2> DEFINE g == [Calls!Top(t) EXCEPT !.at = "classify", !.todo = q]
  <2>1. Calls!Become(t, g)
    BY <1>2
  <2>2. Calls!Top(t) \in FrameSet /\ ~Inside(t)
    BY <1>0, TopFits DEF Fits, Mark
  <2>3. g.fn = Calls!Top(t).fn /\ g.todo = q /\ g.handle = Calls!Top(t).handle /\ g.at # "traced"
    BY <2>2 DEF FrameSet
  <2> HIDE DEF g
  <2>4. q \in Seq({Calls!V})
    <3>1. <<>> \in Seq({Calls!V}) /\ <<Calls!V>> \in Seq({Calls!V})
      OBVIOUS
    <3> QED
      BY <1>2, <3>1 DEF Calls!Queried
  <2>5. Len(frames[t]) # 1 => Own(g, Inside(t), Len(frames[t]), rules.private)
    BY <1>0, <1>2, <2>2, <2>3, <2>4, TopOwn DEF Own
  <2> QED
    BY <1>0, <2>1, <2>5, ChainBecomes
<1> QED
  BY <1>1, <1>2 DEF Calls!Traced

LEMMA ClassifiedChains ==
  ASSUME CallsInv, Chained, NEW t \in Program, Calls!Classified(t)
  PROVE  Chained'
<1>1. frames[t] # <<>> /\ Calls!Judge(t) /\ rules' = rules
  BY DEF Calls!Classified, Calls!At
<1> QED
  BY <1>1, JudgeChains

\* A call of the program asks any question, one of BLIND's own that is the second of
\* its chain a memory query, and no other asks one.
LEMMA LookupChains ==
  ASSUME CallsInv, Chained, NEW t \in Program, Calls!Lookup(t)
  PROVE  Chained'
<1> DEFINE g == [Calls!Top(t) EXCEPT !.todo = Tail(@)]
           fn == Head(Calls!Top(t).todo)
           h == IF fn = Calls!Q THEN "own" ELSE "self"
<1>0. frames[t] # <<>> /\ Calls!Top(t).todo # <<>> /\ fn # Calls!P /\ Calls!Enters(t, g, fn, h)
      /\ rules' = rules
  BY DEF Calls!Lookup
<1>1. Calls!Top(t) \in FrameSet /\ Calls!Top(t).todo \in Seq(Asks)
  BY <1>0, TopFits DEF FrameSet
<1>2. fn \in Asks
  BY <1>0, <1>1
<1>3. fn # Calls!Q => h = "self"
  OBVIOUS
<1>4. g.fn = Calls!Top(t).fn /\ g.todo = Tail(Calls!Top(t).todo)
      /\ g.handle = Calls!Top(t).handle /\ g.at = Calls!Top(t).at
  BY <1>1 DEF FrameSet
<1>5. ASSUME Len(frames[t]) # 1
      PROVE  Len(frames[t]) = 2 /\ fn = Calls!V /\ Own(g, Inside(t), Len(frames[t]), rules.private)
  <2>1. Own(Calls!Top(t), Inside(t), Len(frames[t]), rules.private)
    BY <1>0, <1>5, TopOwn
  <2>2. Calls!Top(t).todo \in Seq({Calls!V})
    BY <2>1 DEF Own
  <2>3. fn = Calls!V /\ Tail(Calls!Top(t).todo) \in Seq({Calls!V})
    BY <1>0, <2>2
  <2> HIDE DEF g, fn
  <2>4. Len(frames[t]) = 2
    BY <1>0, <2>1 DEF Own
  <2> QED
    BY <1>0, <1>4, <2>1, <2>3, <2>4 DEF Own
<1> HIDE DEF g, h, fn
<1>6. Len(frames[t]) = 1 \/ Len(frames[t]) = 2
  BY <1>5, Zenon
<1>7. Len(frames[t]) # 4 /\ Len(frames[t]) # 3
  BY <1>6
<1> QED
  BY <1>0, <1>2, <1>3, <1>5, <1>7, ChainEnters

\* The original asks nothing.
LEMMA OriginalChains ==
  ASSUME CallsInv, Chained, NEW t \in Program, Calls!Original(t)
  PROVE  Chained'
<1>0. frames[t] # <<>> /\ rules' = rules
  BY DEF Calls!Original, Calls!At
<1>1. PICK ok \in BOOLEAN :
        Calls!Become(t, [Calls!Top(t) EXCEPT !.ok = ok, !.ran = ~Calls!Denied(Calls!Top(t)),
                     !.at = IF ~Calls!W(t).first THEN "after"
                            ELSE IF Calls!Top(t).handle # "other" /\ ok /\ ~Calls!Denied(Calls!Top(t))
                                 THEN "gone"
                            ELSE "return"])
  BY DEF Calls!Original
<1> DEFINE to == IF ~Calls!W(t).first THEN "after"
                 ELSE IF Calls!Top(t).handle # "other" /\ ok /\ ~Calls!Denied(Calls!Top(t))
                      THEN "gone"
                 ELSE "return"
<1> DEFINE g == [Calls!Top(t) EXCEPT !.ok = ok, !.ran = ~Calls!Denied(Calls!Top(t)), !.at = to]
<1>2. Calls!Become(t, g)
  BY <1>1
<1>3. to # "traced"
  OBVIOUS
<1> HIDE DEF to
<1>4. Alike(Calls!Top(t), g)
  BY <1>0, <1>3, TopFits DEF FrameSet, Alike
<1> HIDE DEF g
<1> QED
  BY <1>0, <1>2, <1>4, ChainAlike

\* What BLIND allocates is queried unless the allocation is marked; a lookup of the
\* pseudo handle asks nothing.
LEMMA AfterChains ==
  ASSUME CallsInv, Chained, NEW t \in Program, Calls!After(t)
  PROVE  Chained'
<1>0. frames[t] # <<>> /\ Calls!Top(t).at = "after" /\ rules' = rules
  BY DEF Calls!After, Calls!At
<1>1. Calls!Top(t) \in FrameSet /\ Calls!W(t) = Calls!HookEntry[Calls!Top(t).fn]
      /\ ~Mark(Calls!Top(t))
  BY <1>0, TopFits DEF Mark
<1>2. Calls!Internal(t) <=> Inside(t)
  BY <1>0, <1>1, InsideKnown DEF Inside
<1>3. CASE Calls!Quiet(t) \/ ~callback
  <2> DEFINE g == [Calls!Top(t) EXCEPT !.at = "return"]
  <2>1. Calls!Become(t, g)
    BY <1>3 DEF Calls!After
  <2>2. Alike(Calls!Top(t), g)
    BY <1>1 DEF FrameSet, Alike
  <2> HIDE DEF g
  <2> QED
    BY <1>0, <2>1, <2>2, ChainAlike
<1>4. CASE ~(Calls!Quiet(t) \/ ~callback)
  <2>1. PICK p \in (IF Calls!W(t).after THEN Calls!PidCalls(Calls!Top(t).handle) ELSE {<<>>}),
             s \in (IF Calls!W(t).scans /\ (Calls!Top(t).ok \/ Calls!W(t).quiet)
                       /\ ~Calls!Internal(t)
                    THEN IF Len(frames[t]) = 1 THEN Calls!ScanCalls(Calls!Top(t).handle)
                         ELSE {<<Calls!V>>}
                    ELSE {<<>>}) :
          Calls!Become(t, [Calls!Top(t) EXCEPT !.at = "publish", !.todo = p \o s])
    BY <1>4 DEF Calls!After
  <2> DEFINE g == [Calls!Top(t) EXCEPT !.at = "publish", !.todo = p \o s]
  <2>2. Calls!Become(t, g)
    BY <2>1
  <2>3. g.fn = Calls!Top(t).fn /\ g.todo = p \o s /\ g.handle = Calls!Top(t).handle
        /\ g.at = "publish"
    BY <1>1 DEF FrameSet
  <2> HIDE DEF g
  <2>4. ASSUME Len(frames[t]) # 1 PROVE Own(g, Inside(t), Len(frames[t]), rules.private)
    <3>1. Own(Calls!Top(t), Inside(t), Len(frames[t]), rules.private)
      BY <1>0, <2>4, TopOwn
    <3>2. Calls!Top(t).fn # Calls!P
      BY <1>1, <1>2, <1>4, <3>1, OwnWrappers DEF Own, Calls!Quiet
    <3>3. Calls!Top(t).fn \in {Calls!Q, Calls!V, Calls!A}
      BY <3>1, <3>2 DEF Own, Asks
    <3>4. p = <<>>
      BY <1>1, <2>1, <3>1, <3>3, OwnWrappers DEF Own
    <3>5. \/ s = <<>>
          \/ s = <<Calls!V>> /\ ~Inside(t) /\ Calls!Top(t).fn # Calls!V
      BY <1>1, <1>2, <2>1, <2>4, <3>3, OwnWrappers
    <3>6. <<>> \in Seq({Calls!V}) /\ <<Calls!V>> \in Seq({Calls!V})
      OBVIOUS
    <3>7. s \in Seq({Calls!V})
      BY <3>5, <3>6
    <3>8. p \o s = s
      BY <3>4, <3>7
    <3> QED
      BY <2>3, <3>1, <3>5, <3>7, <3>8 DEF Own
  <2> QED
    BY <1>0, <2>2, <2>4, ChainBecomes
<1> QED
  BY <1>3, <1>4

\* Only a call of the program registers a page.
LEMMA GuardChains ==
  ASSUME CallsInv, Chained, NEW t \in Program, Calls!Guard(t)
  PROVE  Chained'
<1> DEFINE g == [Calls!Top(t) EXCEPT !.at = "guard", !.todo = Tail(@)]
<1>0. frames[t] # <<>> /\ Calls!Top(t).todo # <<>> /\ Head(Calls!Top(t).todo) = Calls!P
      /\ Calls!Enters(t, g, Calls!P, "self") /\ rules' = rules
  BY DEF Calls!Guard
<1>1. Mark(g) /\ Calls!P \in Asks
  BY <1>0, TopFits DEF FrameSet, Mark, Asks
<1> HIDE DEF g
<1>2. Len(frames[t]) = 1
  <2> SUFFICES ASSUME Len(frames[t]) # 1 PROVE FALSE
    OBVIOUS
  <2>1. Calls!Top(t).todo \in Seq({Calls!V})
    BY <1>0, TopOwn DEF Own
  <2>2. Head(Calls!Top(t).todo) = Calls!V
    BY <1>0, <2>1
  <2> QED
    BY <1>0, <2>2, FourFunctions
<1> QED
  BY <1>0, <1>1, <1>2, FourFunctions, ChainEnters

LEMMA GuardedChains ==
  ASSUME CallsInv, Chained, NEW t \in Program, Calls!Guarded(t)
  PROVE  Chained'
<1> DEFINE g == [Calls!Top(t) EXCEPT !.at = "publish"]
<1>0. frames[t] # <<>> /\ Calls!Become(t, g) /\ rules' = rules
  BY DEF Calls!Guarded
<1>1. Alike(Calls!Top(t), g)
  BY <1>0, TopFits DEF FrameSet, Alike
<1> HIDE DEF g
<1> QED
  BY <1>0, <1>1, ChainAlike

\* What is kept to itself asks nothing.
LEMMA WithholdChains ==
  ASSUME CallsInv, Chained, NEW t \in Program, Calls!Withhold(t)
  PROVE  Chained'
<1> DEFINE g == [Calls!Top(t) EXCEPT !.at = Calls!Next2(t)]
<1>0. frames[t] # <<>> /\ Calls!Become(t, g) /\ rules' = rules
  BY DEF Calls!Withhold, Calls!At
<1>1. Alike(Calls!Top(t), g)
  BY <1>0, TopFits DEF FrameSet, Alike, Calls!Next2
<1> HIDE DEF g
<1> QED
  BY <1>0, <1>1, ChainAlike

\* What is inside the callback is not published: a chain of four does not grow.
LEMMA PublishChains ==
  ASSUME CallsInv, Chained, NEW t \in Program, Calls!Publish(t)
  PROVE  Chained'
<1> DEFINE g == [Calls!Top(t) EXCEPT !.at = "callback"]
<1>0. frames[t] # <<>> /\ Calls!Top(t).at = "publish" /\ rules' = rules
      /\ ~Calls!Internal(t) /\ Calls!Enters(t, g, Calls!A, "self")
  BY DEF Calls!Publish, Calls!At
<1>1. ~Mark(Calls!Top(t)) /\ Calls!A \in Asks
  BY <1>0 DEF Mark, Asks
<1>2. ~Inside(t)
  BY <1>0, <1>1, InsideKnown DEF Inside
<1>3. Alike(Calls!Top(t), g) /\ Mark(g)
  BY <1>0, TopFits DEF FrameSet, Alike, Mark
<1> HIDE DEF g
<1>4. Len(frames[t]) # 4 /\ (Len(frames[t]) # 1 => Own(g, Inside(t), Len(frames[t]), rules.private))
  BY <1>0, <1>2, <1>3, TopOwn, AlikeOwn
<1> QED
  BY <1>0, <1>1, <1>3, <1>4, FourFunctions, ChainEnters

\* The callback returns or faults.
LEMMA CalledChains ==
  ASSUME CallsInv, Chained, NEW t \in Program, Calls!Called(t)
  PROVE  Chained'
<1>0. frames[t] # <<>> /\ rules' = rules
  BY DEF Calls!Called, Calls!At
<1>1. Calls!Top(t) \in FrameSet
  BY <1>0, TopFits
<1>2. CASE Calls!Become(t, [Calls!Top(t) EXCEPT !.told = @ + 1, !.at = Calls!Next2(t)])
  <2> DEFINE g == [Calls!Top(t) EXCEPT !.told = @ + 1, !.at = Calls!Next2(t)]
  <2>1. Calls!Become(t, g)
    BY <1>2
  <2>2. Alike(Calls!Top(t), g)
    BY <1>1 DEF FrameSet, Alike, Calls!Next2
  <2> HIDE DEF g
  <2> QED
    BY <1>0, <2>1, <2>2, ChainAlike
<1>3. CASE Calls!Become(t, [Calls!Top(t) EXCEPT !.at = Calls!Next2(t), !.watched = FALSE])
  <2> DEFINE g == [Calls!Top(t) EXCEPT !.at = Calls!Next2(t), !.watched = FALSE]
  <2>1. Calls!Become(t, g)
    BY <1>3
  <2>2. Alike(Calls!Top(t), g)
    BY <1>1 DEF FrameSet, Alike, Calls!Next2
  <2> HIDE DEF g
  <2> QED
    BY <1>0, <2>1, <2>2, ChainAlike
<1> QED
  BY <1>2, <1>3 DEF Calls!Called

\* Only a call of the program flushes, and it asks what it likes.
LEMMA FlushChains ==
  ASSUME CallsInv, Chained, NEW t \in Program,
         Calls!Flush(t) \/ Calls!Swap(t) \/ Calls!Send(t) \/ Calls!Sent(t)
  PROVE  Chained'
<1>1. frames[t] # <<>> /\ Calls!Top(t).at \in {"told", "flush", "swap", "send"} /\ rules' = rules
      /\ \E g : Calls!Become(t, g)
  <2>1. CASE Calls!Flush(t)
    BY <2>1 DEF Calls!Flush, Calls!At
  <2>2. CASE Calls!Swap(t)
    BY <2>2 DEF Calls!Swap, Calls!At
  <2>3. CASE Calls!Send(t)
    BY <2>3 DEF Calls!Send, Calls!At
  <2>4. CASE Calls!Sent(t)
    BY <2>4 DEF Calls!Sent, Calls!At
  <2> QED
    BY <2>1, <2>2, <2>3, <2>4
<1>2. Calls!W(t).first
  BY <1>1, TopFits DEF Fits
<1>3. Len(frames[t]) = 1
  BY <1>1, <1>2, FirstAlone
<1>4. PICK g : Calls!Become(t, g)
  BY <1>1
<1> QED
  BY <1>1, <1>3, <1>4, ChainBecomes

\* A call of the program begins a chain.
LEMMA ProgramCallChains ==
  ASSUME CallsInv, Chained, NEW t \in Program, Calls!ProgramCall(t)
  PROVE  Chained'
<1>1. PICK y : frames' = [frames EXCEPT ![t] = <<y>>]
  BY DEF Calls!ProgramCall
<1>2. frames \in [Program -> Seq(FrameSet)] /\ rules' = rules
  BY DEF Calls!ProgramCall, CallsInv, CallTypes
<1>3. Len(<<y>>) = 1 /\ DOMAIN <<y>> = {1}
  OBVIOUS
<1>4. Chain(<<y>>, rules.private)
  BY <1>3 DEF Chain
<1> QED
  BY <1>1, <1>2, <1>3, <1>4, ChainSettles

\* A chain without its innermost call is one.
LEMMA ChainShortened ==
  ASSUME NEW f \in Seq(FrameSet), NEW n \in 1..4, n = Len(f), NEW p, Chain(f, p),
         NEW s, DOMAIN s = 1..(n - 1), Len(s) = n - 1, \A i \in 1..(n - 1) : s[i] = f[i]
  PROVE  Chain(s, p)
<1>1. DOMAIN f = 1..n /\ \A i \in 1..(n - 1) : i \in 1..n
  OBVIOUS
<1>2. ASSUME NEW i \in 1..(n - 1), i # 1 PROVE Own(s[i], Marked(s, i), i, p)
  <2>1. s[i] = f[i] /\ Own(f[i], Marked(f, i), i, p)
    BY <1>1, <1>2 DEF Chain
  <2>2. \A j \in 1..(i - 1) : s[j] = f[j]
    OBVIOUS
  <2>3. Marked(s, i) = Marked(f, i)
    BY <2>2 DEF Marked
  <2> QED
    BY <2>1, <2>3
<1>3. Len(s) \in {0, 1, 2, 3}
  OBVIOUS
<1> QED
  BY <1>2, <1>3, SmallNumbers DEF Chain

\* A call that returns leaves a chain.
LEMMA ReturnChains ==
  ASSUME CallsInv, Chained, NEW t \in Program, Calls!Return(t)
  PROVE  Chained'
<1> DEFINE s == SubSeq(frames[t], 1, Len(frames[t]) - 1)
<1>0. frames[t] # <<>> /\ frames' = [frames EXCEPT ![t] = s] /\ rules' = rules
  BY DEF Calls!Return, Calls!At, Calls!Below
<1>1. frames[t] \in Seq(FrameSet) /\ frames \in [Program -> Seq(FrameSet)]
  BY <1>0 DEF CallsInv, CallTypes
<1>2. Len(frames[t]) \in 1..4 /\ Chain(frames[t], rules.private)
  BY <1>0, TopOwn DEF Chained
<1>3. s \in Seq(FrameSet) /\ Len(s) = Len(frames[t]) - 1
      /\ \A i \in 1..(Len(frames[t]) - 1) : s[i] = frames[t][i]
  BY <1>0, <1>1, Shortened
<1> HIDE DEF s
<1>4. DOMAIN s = 1..(Len(frames[t]) - 1)
  BY <1>3
<1>5. Chain(s, rules.private)
  BY <1>1, <1>2, <1>3, <1>4, ChainShortened
<1> QED
  BY <1>0, <1>1, <1>5, ChainSettles

\* A flush that has no room is alone in the end.
LEMMA TerminateChains ==
  ASSUME CallsInv, Chained, NEW t \in Program, Calls!Terminate(t)
  PROVE  Chained'
<1> DEFINE n == Len(frames[t]) - 1
           s == SubSeq(frames[t], 1, n)
           z == [s EXCEPT ![n] = [@ EXCEPT !.at = "gone", !.todo = <<>>]]
<1>0. frames[t] # <<>> /\ frames' = [frames EXCEPT ![t] = z] /\ rules' = rules
      /\ Len(frames[t]) > 1 /\ frames[t][n].at \in {"flush", "swap", "send"}
  BY DEF Calls!Terminate, Calls!At, Calls!Below, Calls!Starved
<1>1. frames[t] \in Seq(FrameSet) /\ frames \in [Program -> Seq(FrameSet)]
      /\ DOMAIN frames[t] = 1..Len(frames[t]) /\ Len(frames[t]) \in Nat
  BY DEF CallsInv, CallTypes
<1>2. Chain(frames[t], rules.private)
  BY DEF Chained
<1>3. n \in DOMAIN frames[t]
  BY <1>0, <1>1
<1>4. n = 1
  <2>1. Calls!HookEntry[frames[t][n].fn].first
    BY <1>0, <1>3 DEF CallsInv, EachFits, Fits
  <2>2. n # 1 => Own(frames[t][n], Marked(frames[t], n), n, rules.private)
    BY <1>2, <1>3 DEF Chain
  <2> QED
    BY <2>1, <2>2, OwnWrappers DEF Own
<1>5. s \in Seq(FrameSet) /\ Len(s) = n
  BY <1>0, <1>1, Shortened
<1> HIDE DEF n, s
<1>6. z = <<[s[1] EXCEPT !.at = "gone", !.todo = <<>>]>>
  BY <1>4, <1>5
<1>7. Len(z) = 1 /\ DOMAIN z = {1}
  BY <1>6
<1> HIDE DEF z
<1>8. Chain(z, rules.private)
  BY <1>7 DEF Chain
<1> QED
  BY <1>0, <1>1, <1>8, ChainSettles

\* The removal of the hooks leaves the chains as they are.
LEMMA ClearChains ==
  ASSUME CallsInv, Chained, Calls!ClearCallback
  PROVE  Chained'
<1>0. rules' = rules
      /\ frames' = [t \in Program |->
                      [i \in DOMAIN frames[t] |-> [frames[t][i] EXCEPT !.watched = FALSE]]]
  BY DEF Calls!ClearCallback
<1>1. ASSUME NEW t \in Program PROVE Chain(frames'[t], rules.private)
  <2>1. frames[t] \in Seq(FrameSet) /\ Len(frames[t]) \in Nat
        /\ DOMAIN frames[t] = 1..Len(frames[t])
        /\ Chain(frames[t], rules.private)
    BY DEF CallsInv, CallTypes, Chained
  <2>2. frames'[t] = [i \in 1..Len(frames[t]) |-> [frames[t][i] EXCEPT !.watched = FALSE]]
    BY <1>0, <2>1
  <2>3. Len(frames'[t]) = Len(frames[t]) /\ DOMAIN frames'[t] = 1..Len(frames[t])
    BY <2>1, <2>2
  <2>4. ASSUME NEW i \in 1..Len(frames[t])
        PROVE  Alike(frames[t][i], frames'[t][i]) /\ frames'[t][i].at = frames[t][i].at
    <3>1. frames[t][i] \in FrameSet /\ frames'[t][i] = [frames[t][i] EXCEPT !.watched = FALSE]
      BY <2>1, <2>2
    <3> QED
      BY <3>1 DEF FrameSet, Alike
  <2>5. ASSUME NEW i \in 1..Len(frames[t])
        PROVE  /\ Marked(frames'[t], i) = Marked(frames[t], i)
               /\ \A m, j, p : Own(frames[t][i], m, j, p) => Own(frames'[t][i], m, j, p)
    <3>1. \A j \in 1..(i - 1) : j \in 1..Len(frames[t])
      BY <2>1
    <3>2. \A j \in 1..(i - 1) : Mark(frames'[t][j]) <=> Mark(frames[t][j])
      BY <2>4, <3>1 DEF Mark
    <3>3. Marked(frames'[t], i) = Marked(frames[t], i)
      BY <3>2 DEF Marked
    <3>4. \A m, j, p : Own(frames[t][i], m, j, p) => Own(frames'[t][i], m, j, p)
      BY <2>4, AlikeOwn
    <3> QED
      BY <3>3, <3>4
  <2>6. Len(frames[t]) = 4 => Marked(frames'[t], 4)
    BY <2>1, <2>5 DEF Chain
  <2> QED
    BY <2>1, <2>3, <2>5, <2>6 DEF Chain
<1> QED
  BY <1>0, <1>1 DEF Chained

\* There are no chains at first.
LEMMA ChainedInit == Calls!Init => Chained
<1>1. Len(<<>>) = 0 /\ DOMAIN <<>> = {}
  OBVIOUS
<1>2. Chain(<<>>, rules.private)
  BY <1>1 DEF Chain
<1> QED
  BY <1>2 DEF Calls!Init, Chained

\* The chains are short, but for those of queries whose own queries are classified.
Short == Ends => Chained

\* Every step of a thread or of the removal keeps the chains short.
LEMMA ChainedKept == CallsInv /\ Short /\ [Calls!Next]_Calls!vars => Short'
<1> SUFFICES ASSUME CallsInv, Short, [Calls!Next]_Calls!vars, Ends' PROVE Chained'
  BY DEF Short
<1>0. rules' = rules
  BY DEF Calls!Next, Calls!vars, Calls!CallStep, Calls!ProgramCall, Calls!Unjudged, Calls!Trace,
         Calls!Traced, Calls!Classified, Calls!Lookup, Calls!Original, Calls!After, Calls!Guard,
         Calls!Guarded, Calls!Withhold, Calls!Publish, Calls!Called, Calls!Flush, Calls!Swap,
         Calls!Send, Calls!Sent, Calls!Return, Calls!Terminate, Calls!ClearCallback
<1>a. Ends /\ Chained
  BY <1>0 DEF Ends, Short
<1>1. CASE UNCHANGED Calls!vars
  BY <1>1, <1>a DEF Calls!vars, Chained
<1>2. ASSUME NEW t \in Program, Calls!CallStep(t) PROVE Chained'
  BY <1>2, <1>a, ProgramCallChains, UnjudgedChains, TraceChains, TracedChains, ClassifiedChains,
     LookupChains, OriginalChains, AfterChains, GuardChains, GuardedChains, WithholdChains,
     PublishChains, CalledChains, FlushChains, ReturnChains, TerminateChains
     DEF Calls!CallStep
<1>3. CASE Calls!ClearCallback
  BY <1>3, <1>a, ClearChains
<1> QED
  BY <1>1, <1>2, <1>3 DEF Calls!Next

\* The counting of the instance is counting.
LEMMA SameCount == \A S : Calls!Cardinality(S) = Cardinality(S)
BY Zenon DEF Calls!Cardinality, Cardinality

\* They are what the run's invariant says, with the marks counted.
LEMMA CallsEnd == CallsInv /\ Short => Calls!NestingEnds
<1> SUFFICES ASSUME CallsInv, Short, NEW t \in Program
             PROVE  /\ Ends => Len(frames[t]) <= 4
                    /\ scope[t] = Cardinality(
                         {i \in DOMAIN frames[t] : frames[t][i].at \in Calls!Marks})
  BY SameCount, Zenon DEF Calls!NestingEnds, Ends
<1>1. Ends => Len(frames[t]) <= 4
  BY DEF Short, Chained, Chain
<1>2. scope[t] = Cardinality(Marks(frames[t]))
  BY DEF CallsInv, MarksCounted
<1> QED
  BY <1>1, <1>2, Zenon DEF Marks, Mark, Calls!Marks

-----------------------------------------------------------------------------
(* The composition.                                                        *)

HookingStep == HandleStep \/ ModuleStep \/ CallStep \/ NativeStep
hookingVars == <<part, vars, moduleVars, callVars, nativeVars>>

\* Only HandleStep moves the table of indirect handles.
LEMMA HandlesAlone == [HookingStep]_hookingVars => [Next]_vars
BY DEF HookingStep, hookingVars, HandleStep, ModuleStep, CallStep, NativeStep

\* Only ModuleStep moves the hooks on modules.
LEMMA ModulesAlone == [HookingStep]_hookingVars => [Modules!Next]_Modules!vars
BY DEF HookingStep, hookingVars, HandleStep, ModuleStep, CallStep, NativeStep, moduleVars,
       Modules!vars, Modules!hooks, Modules!tables, Modules!flow, Modules!past

\* Only CallStep moves the hooked native calls.
LEMMA CallsAlone == [HookingStep]_hookingVars => [Calls!Next]_Calls!vars
BY DEF HookingStep, hookingVars, HandleStep, ModuleStep, CallStep, NativeStep, callVars,
       Calls!vars

\* Only NativeStep moves the hooks on ntdll.
LEMMA NativeAlone == [HookingStep]_hookingVars => [Native!Next]_Native!vars
BY DEF HookingStep, hookingVars, HandleStep, ModuleStep, CallStep, NativeStep, nativeVars,
       Native!vars, Native!work, Native!run

\* The hypotheses of the theorems about ModuleHooks are the instance's assumptions.
LEMMA ModulesAssumed == Modules!Cast /\ Modules!BoundsTyped
BY RolesDistinct, Bounds, Modules!CastKnown DEF Modules!RolesDistinct, Modules!BoundsTyped

\* The invariant of the hooks on modules is one of the composition.
LEMMA ModulesInvariant == MCSpec => []Modules!HooksInv
<1>1. MCInit => Modules!HooksInv
  BY ModulesAssumed, Modules!HooksInit DEF MCInit
<1>2. Modules!HooksInv /\ [HookingStep]_hookingVars => Modules!HooksInv'
  BY ModulesAssumed, ModulesAlone, Modules!HooksStep
<1> QED
  BY <1>1, <1>2, PTL DEF MCSpec, HookingStep, hookingVars

\* The invariant of the table is one of the composition.
LEMMA HandlesInvariant == MCSpec => []HandlesInv
<1>1. MCInit => HandlesInv
  BY InitHandles DEF MCInit
<1>2. HandlesInv /\ [HookingStep]_hookingVars => HandlesInv'
  BY HandlesAlone, NextKeeps
<1> QED
  BY <1>1, <1>2, PTL DEF MCSpec, HookingStep, hookingVars

\* The invariant of the hooked native calls is one of the composition.
LEMMA CallsInvariant == MCSpec => []CallsInv
<1>1. MCInit => CallsInv
  BY CallsInit DEF MCInit
<1>2. CallsInv /\ [HookingStep]_hookingVars => CallsInv'
  BY CallsAlone, CallsKept
<1> QED
  BY <1>1, <1>2, PTL DEF MCSpec, HookingStep, hookingVars

\* So is that calls inside calls are short chains.
LEMMA ChainsInvariant == MCSpec => []Short
<1>1. MCInit => Short
  BY ChainedInit DEF MCInit, Short
<1>2. CallsInv /\ Short /\ [HookingStep]_hookingVars => Short'
  BY CallsAlone, ChainedKept
<1> QED
  BY <1>1, <1>2, CallsInvariant, PTL DEF MCSpec, HookingStep, hookingVars

\* The invariant of the hooks on ntdll is one of the composition.
LEMMA NativeInvariant == MCSpec => []NativeInv
<1>1. MCInit => NativeInv
  BY NativeInit DEF MCInit
<1>2. NativeInv /\ [HookingStep]_hookingVars => NativeInv'
  BY NativeAlone, NativeKept
<1> QED
  BY <1>1, <1>2, PTL DEF MCSpec, HookingStep, hookingVars

\* In every run in which no protection is refused and no two threads install or remove
\* at once, a loader function whose jump was lifted for a call gets it back while
\* anybody is still in that call (CallOriginalTemporarilyUnhooked, module_inline.cpp).
THEOREM LiftedJumpsComeBack == MCSpec => []JumpComesBack
<1>1. Modules!HooksInv => JumpComesBack
  BY ModulesAssumed, Modules!HooksBack DEF JumpComesBack
<1> QED
  BY <1>1, ModulesInvariant, PTL

\* In every run the trampoline of an installed hook holds the function's own bytes, and
\* nothing of the hooks is left in the program once they are removed (module_iat.cpp,
\* module_inline.cpp).
THEOREM OriginalsSurvive == MCSpec => []OriginalSurvives
<1>1. Modules!HooksInv => OriginalSurvives
  BY ModulesAssumed, Modules!HooksCallable, Modules!HooksGone DEF OriginalSurvives
<1> QED
  BY <1>1, ModulesInvariant, PTL

\* In every run in which no protection is refused, a call of the program reaches the
\* original at whatever point of an installation or a removal it is made, half-written
\* jumps and breakpoints being removed apart (nt_inline.cpp, nt_int3.cpp).
THEOREM NativeCallsGetThrough == MCSpec => []CallsGetThrough
<1>1. NativeInv => CallsGetThrough
  BY NativeThrough DEF CallsGetThrough
<1> QED
  BY <1>1, NativeInvariant, PTL

\* In every such run a shutdown leaves no function patched and no slot taken, whatever
\* was installed, skipped or left without a slot before it (nt_methods.cpp).
THEOREM NativeShutdownRestores == MCSpec => []ShutdownRestores
<1>1. NativeInv => ShutdownRestores
  BY NativeGone DEF ShutdownRestores
<1> QED
  BY <1>1, NativeInvariant, PTL

\* In every run what the policy denies is not executed, and every other call that the
\* policy wants told is told exactly once by the time it returns, unless the callback
\* was cleared or faulted, whatever wrappers call inside one another (nt.cpp).
THEOREM CallsDeniedOrTold == MCSpec => []DeniedOrTold
<1>1. CallsInv => DeniedOrTold
  BY CallsTold DEF DeniedOrTold
<1> QED
  BY <1>1, CallsInvariant, PTL

\* In every run in which the policy does not ignore private callers while a rule names
\* memory queries, a wrapper runs inside a wrapper at most three times over, the flush
\* before the end of the process included, so that hooks on the functions that BLIND calls
\* itself do not recurse; and in every run the thread's internal-call counter is the number
\* of places where BLIND works for itself (policy.cpp, nt.cpp, integrity.cpp).
THEOREM WrappersEnd == MCSpec => []NestingEnds
<1>1. CallsInv /\ Short => NestingEnds
  BY CallsEnd DEF NestingEnds
<1> QED
  BY <1>1, CallsInvariant, ChainsInvariant, PTL

\* In every run a token that is handed out names what it was registered for, beside
\* whatever the hooks do (RegisterIndirectHandle, runtime.cpp).
THEOREM HookingTokens == MCSpec => []TokenNamesItsPointer
<1>1. HandlesInv => TokenNamesItsPointer
  BY DEF HandlesInv
<1> QED
  BY <1>1, HandlesInvariant, PTL

\* Table, hooks and calls are type-correct: no list of calls, trampolines or slots
\* outgrows its bound (runtime.cpp, module_inline.cpp, nt.cpp, nt_int3.cpp).
THEOREM HookingTypes == MCSpec => []TypesOK
<1>1. HandlesInv => TypeOK
  <2>1. ASSUME HandlesInv, NEW i \in Slots, entries[i].active
        PROVE  entries[i].pointer \in Pointer /\ entries[i].type \in HandleType
    <3>1. entries[i] \in Entry \cup {Free} /\ Free.active = FALSE
      BY <2>1 DEF HandlesInv, Typed, Free
    <3>2. entries[i] \in Entry
      BY <2>1, <3>1
    <3> QED
      BY <3>2 DEF Entry
  <2> QED
    BY <2>1 DEF HandlesInv, Typed, TypeOK, Generation
<1>2. Modules!HooksInv => Modules!TypeOK
  BY Modules!HooksTyped
<1>3. HandlesInv /\ Modules!HooksInv /\ CallsInv /\ NativeInv => TypesOK
  BY <1>1, <1>2, CallsTyped, NativeTyped DEF TypesOK
<1> QED
  BY <1>3, HandlesInvariant, ModulesInvariant, CallsInvariant, NativeInvariant, PTL

=============================================================================
