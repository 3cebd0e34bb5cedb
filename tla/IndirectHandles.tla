----------------------------- MODULE IndirectHandles -----------------------------
(***************************************************************************)
(* The table of indirect handles of the runtime (runtime.cpp 238-649).     *)
(*                                                                         *)
(* Launch gate pages, instrumentation ranges and hook targets are known by *)
(* a token: slot, type and generation, encoded with a cookie that the      *)
(* first caller makes.  The encoding is a bijection for a given cookie; a  *)
(* token is modelled as the record it encodes together with its cookie.    *)
(* Every operation on the table holds g_IndirectHandleLock; the cookie is  *)
(* made without a lock, by compare and exchange of its state.              *)
(***************************************************************************)
EXTENDS Naturals, FiniteSets

CONSTANTS Caller,        \* threads that use the table
          Pointer,       \* addresses that are registered
          HandleType,    \* IxIhrType
          SlotMax,       \* kMaxIndirectHandles
          GenSize,       \* 2^32: generations wrap, and 0 is skipped
          GenStart,      \* the first value of g_IndirectHandleGeneration
          RegisterMax    \* bound: calls of Register and Reset

ASSUME TableBounds == SlotMax \in Nat \ {0} /\ RegisterMax \in Nat
ASSUME GenerationsSuffice == GenSize \in Nat /\ GenStart \in 0..(GenSize - 1) /\ RegisterMax + 1 < GenSize

VARIABLES
  cookie,       \* g_IndirectHandleCookie: 0 until it is made
  cookieState,  \* g_IndirectHandleCookieState
  entries,      \* g_IndirectHandles
  generation,   \* g_IndirectHandleGeneration
  calls,        \* calls begun
  step,         \* where each thread is in Register
  wish,         \* the pointer and type it registers
  issued        \* history: every token handed out, what for, and whether it was
                \* released since

vars == <<cookie, cookieState, entries, generation, calls, step, wish, issued>>

Made     == 1
Free     == [active |-> FALSE]
Slots    == 1..SlotMax
NoWish   == [pointer |-> "none", type |-> "none"]
Token(i, type, gen, c)   == [slot |-> i, type |-> type, gen |-> gen, cookie |-> c]
Handed(token, p)         == [token |-> token, pointer |-> p, live |-> TRUE]

Init ==
  /\ cookie = 0 /\ cookieState = 0
  /\ entries = [i \in Slots |-> Free] /\ generation = GenStart /\ calls = 0
  /\ step = [t \in Caller |-> "idle"] /\ wish = [t \in Caller |-> NoWish]
  /\ issued = {}

GoTo(t, label) == step' = [step EXCEPT ![t] = label]

RegisterCall(t) ==
  /\ step[t] = "idle" /\ calls < RegisterMax
  /\ calls' = calls + 1
  /\ \E p \in Pointer, k \in HandleType : wish' = [wish EXCEPT ![t] = [pointer |-> p, type |-> k]]
  /\ GoTo(t, "cookie")
  /\ UNCHANGED <<cookie, cookieState, entries, generation, issued>>

-----------------------------------------------------------------------------
(* IndirectHandleCookie.                                                   *)

CookieClaim(t) ==
  /\ step[t] = "cookie" /\ cookieState = 0
  /\ cookieState' = 1 /\ GoTo(t, "make")
  /\ UNCHANGED <<cookie, entries, generation, calls, wish, issued>>

CookieMake(t) ==
  /\ step[t] = "make"
  /\ cookie' = Made /\ GoTo(t, "announce")
  /\ UNCHANGED <<cookieState, entries, generation, calls, wish, issued>>

\* The maker announces the cookie; the others spin until it has.
CookieReady(t) ==
  /\ \/ step[t] = "announce" /\ cookieState' = 2
     \/ step[t] = "cookie" /\ cookieState = 2 /\ UNCHANGED cookieState
  /\ GoTo(t, "table")
  /\ UNCHANGED <<cookie, entries, generation, calls, wish, issued>>

-----------------------------------------------------------------------------
(* RegisterIndirectHandle under the lock.                                  *)

Known(w)  == {i \in Slots : entries[i].active /\ entries[i].type = w.type /\ entries[i].pointer = w.pointer}
Empty     == {i \in Slots : ~entries[i].active}
Lowest(S) == {i \in S : \A j \in S : i <= j}

\* A registered pointer keeps its slot and generation.
RegisterAgain(t) ==
  /\ step[t] = "table" /\ Known(wish[t]) # {}
  /\ \E i \in Lowest(Known(wish[t])) :
       issued' = issued \cup {Handed(Token(i, wish[t].type, entries[i].gen, cookie), wish[t].pointer)}
  /\ GoTo(t, "idle")
  /\ UNCHANGED <<cookie, cookieState, entries, generation, calls, wish>>

\* mutant of NextGeneration: every handle is of the first generation
SameGeneration(g) == GenStart

NextGeneration(g) == IF (g + 1) % GenSize = 0 THEN 1 ELSE (g + 1) % GenSize

RegisterNew(t) ==
  /\ step[t] = "table" /\ Known(wish[t]) = {} /\ Empty # {}
  /\ \E i \in Lowest(Empty) : LET g == NextGeneration(generation) IN
       /\ generation' = g
       /\ entries' = [entries EXCEPT ![i] =
                        [active |-> TRUE, pointer |-> wish[t].pointer, type |-> wish[t].type, gen |-> g]]
       /\ issued' = issued \cup {Handed(Token(i, wish[t].type, g, cookie), wish[t].pointer)}
  /\ GoTo(t, "idle")
  /\ UNCHANGED <<cookie, cookieState, calls, wish>>

RegisterFull(t) ==
  /\ step[t] = "table" /\ Known(wish[t]) = {} /\ Empty = {}
  /\ GoTo(t, "idle")
  /\ UNCHANGED <<cookie, cookieState, entries, generation, calls, wish, issued>>

-----------------------------------------------------------------------------
(* Resolve, Release, Reset.                                                *)

Matches(token) ==
  LET e == entries[token.slot] IN
    e.active /\ e.type = token.type /\ e.gen = token.gen /\ token.cookie = cookie

Resolve(token) == IF Matches(token) THEN {entries[token.slot].pointer} ELSE {}

Dead(token) == Matches(token)

\* A token may be released by anyone who was ever given it, also more than once.
Release ==
  \E h \in issued :
    /\ entries' = IF Dead(h.token) THEN [entries EXCEPT ![h.token.slot] = Free] ELSE entries
    /\ issued' = {[g EXCEPT !.live = @ /\ g.token # h.token] : g \in issued}
    /\ UNCHANGED <<cookie, cookieState, generation, calls, step, wish>>

Reset ==
  /\ calls < RegisterMax /\ calls' = calls + 1
  /\ entries' = [i \in Slots |-> Free]
  /\ generation' = (generation + 1) % GenSize
  /\ issued' = {[g EXCEPT !.live = FALSE] : g \in issued}
  /\ UNCHANGED <<cookie, cookieState, step, wish>>

RegisterStep(t) ==
  \/ RegisterCall(t) \/ CookieClaim(t) \/ CookieMake(t) \/ CookieReady(t)
  \/ RegisterAgain(t) \/ RegisterNew(t) \/ RegisterFull(t)

Next == (\E t \in Caller : RegisterStep(t)) \/ Release \/ Reset

Spec == Init /\ [][Next]_vars

-----------------------------------------------------------------------------
\* Every variable has its type.
TypeOK ==
  /\ cookie \in {0, Made} /\ cookieState \in 0..2 /\ calls \in 0..RegisterMax
  /\ generation \in 0..(GenSize - 1)
  /\ \A i \in Slots : entries[i].active => entries[i].pointer \in Pointer /\ entries[i].type \in HandleType
  /\ step \in [Caller -> {"idle", "cookie", "make", "announce", "table"}]

\* A token names what it was issued for until it is released or the table is
\* reset, and nothing ever after, however often its slot is used again: the
\* pointer behind a stale token would be patched or protected as another's.
TokenNamesItsPointer ==
  \A h \in issued : Resolve(h.token) = IF h.live THEN {h.pointer} ELSE {}

=============================================================================
