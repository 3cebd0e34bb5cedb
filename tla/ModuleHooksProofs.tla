--------------------------- MODULE ModuleHooksProofs ---------------------------
(***************************************************************************)
(* What the hooks on modules keep for every set of threads and modules and *)
(* every bound: one invariant for the hooks, the trampolines, the import   *)
(* tables and the calls the threads are in, kept by every step.            *)
(***************************************************************************)
EXTENDS ModuleHooks, SequenceTheorems, TLAPS

\* The thread of the controller loads no modules, and no module imports from itself.
RolesDistinct == Owner \notin Thread /\ Provider \notin Importer
BoundsTyped   == {LoadMax, GateMax, DepthMax, RemoveMax} \subseteq Nat

-----------------------------------------------------------------------------
(* The inductive invariant.                                                *)

\* Where a thread is inside a hooked call, and where it has put the jump back.
InCall    == {"wrapper", "restore", "gate", "reinstall", "publish", "each", "copy", "patch",
  "leave"}
Rewritten == {"publish", "each", "copy", "patch", "leave"}
Places    == {"idle", "entry", "original", "crashed", "remove", "clear"} \cup InCall

RecordTypes ==
  /\ active \in BOOLEAN /\ overlap \in BOOLEAN /\ failed \in BOOLEAN /\ method \in Methods
  /\ code \in [Hook -> {"own", "jump"}] /\ saved \in [Hook -> {"none", "own", "jump"}]
  /\ installed \in [Hook -> BOOLEAN] /\ target \in [Hook -> BOOLEAN]
  /\ gates \in Seq({"own", "jump"}) /\ Len(gates) <= GateMax
  /\ gate \in [Hook -> 0..Len(gates)] /\ freed \subseteq DOMAIN gates
  /\ slot \in [Importer -> {"own", "hook"}] /\ tracked \subseteq Importer
  /\ loaded \subseteq Module

FlowTypes ==
  /\ item \in [Thread -> Module]
  /\ at \in [Actor -> Places] /\ via \in [Actor -> 0..Len(gates)] /\ todo \in [Actor -> Seq(Hook)]
  /\ level \in [Thread -> Seq(BOOLEAN)] /\ \A t \in Thread : Len(level[t]) <= DepthMax

\* A thread is in a hooked call exactly while it has a level; it has not lifted the
\* hook for its innermost call before it gets to the original.
Levels ==
  /\ \A t \in Thread : at[t] = "idle" => level[t] = <<>>
  /\ \A t \in Thread : at[t] \in InCall => level[t] # <<>>
  /\ \A t \in Thread : at[t] \in {"wrapper", "restore", "gate"} => ~level[t][Len(level[t])]
  /\ \A t \in Thread : at[t] \notin {"remove", "clear"}
  /\ \A a \in Actor : at[a] \in {"copy", "patch"} => todo[a] # <<>>
  /\ at[Owner] = "clear" => todo[Owner] # <<>>
  /\ at[Owner] # "idle" => active
  /\ at[Owner] \in {"idle", "each", "copy", "patch", "remove", "clear"}

\* Bytes are saved before the jump is written.
Copied ==
  /\ \A a \in Actor : at[a] = "patch" => saved[Head(todo[a])] # "none"
  /\ \A h \in Hook : installed[h] /\ ~Patched(h) => saved[h] # "none"

Removing == at[Owner] \in {"remove", "clear"}

\* Nobody is in a hooked call while the hooks are removed.
Quiet == Removing => \A t \in Thread : at[t] \in {"idle", "entry"} /\ level[t] = <<>>

\* One thread installs an inline hook, and its export is as it was.
InstallingAlone ==
  \A a \in Actor, h \in Hook : Installing(a, h) =>
    /\ ~installed[h] /\ code[h] = "own" /\ Present(h) /\ ~Patched(h)
    /\ \A b \in Actor : Installing(b, h) => b = a

\* What is changed in the program is on record.
OnRecord ==
  /\ \A h \in Hook : installed[h] => target[h]
  /\ \A a \in Actor, h \in Hook : Installing(a, h) => target[h]
  /\ \A h \in Hook : code[h] = "jump" => installed[h] /\ ~Patched(h)
  /\ \A t \in Thread : InHook(t) => installed["load"]
  /\ \A m \in Importer : slot[m] = "hook" => m \in tracked
  /\ tracked # {} => installed["scan"] /\ Patched("scan")

\* A removal gets to every installed hook; without a callback there is none.
Removal ==
  /\ Removing => \A h \in Hook : installed[h] => \E i \in DOMAIN todo[Owner] : todo[Owner][i] = h
  /\ at[Owner] = "clear" =>
       code[Head(todo[Owner])] = "own" /\ (Patched(Head(todo[Owner])) => tracked = {})
  /\ ~active => \A h \in Hook : ~installed[h]

\* A thread has lifted the hook for some call and has not put it back yet.
Lifting(t) ==
  \E i \in DOMAIN level[t] : level[t][i] /\ (i < Len(level[t]) \/ at[t] \notin Rewritten)

\* An installed hook is lifted by somebody who will put it back, or being removed.
Lifted ==
  installed["load"] /\ code["load"] = "own" =>
    (at[Owner] = "clear" /\ Head(todo[Owner]) = "load") \/ \E t \in Thread : Lifting(t)

HooksInv ==
  /\ RecordTypes /\ FlowTypes /\ Levels /\ Copied
  /\ ~overlap => Quiet /\ InstallingAlone /\ OriginalIsCallable
  /\ Undisturbed => OnRecord /\ Removal /\ Lifted

-----------------------------------------------------------------------------
\* A thread enters a hooked call, ...
LEMMA Pushed ==
  ASSUME NEW s \in Seq(BOOLEAN)
  PROVE  /\ Append(s, FALSE) \in Seq(BOOLEAN) /\ Len(Append(s, FALSE)) = Len(s) + 1
         /\ Append(s, FALSE) # <<>> /\ ~Append(s, FALSE)[Len(Append(s, FALSE))]
         /\ \A i \in 1..Len(s) : Append(s, FALSE)[i] = s[i]
<1> DEFINE b == FALSE
<1>1. b \in BOOLEAN /\ b = FALSE
  OBVIOUS
<1> HIDE DEF b
<1>2. /\ Append(s, b) \in Seq(BOOLEAN) /\ Len(Append(s, b)) = Len(s) + 1
      /\ Append(s, b) # <<>> /\ Append(s, b)[Len(s) + 1] = b
      /\ \A i \in 1..Len(s) : Append(s, b)[i] = s[i]
  BY <1>1, AppendProperties
<1>3. Append(s, b)[Len(Append(s, b))] = b
  BY <1>2, Zenon
<1> QED
  BY <1>1, <1>2, <1>3, Zenon DEF b

\* ... leaves it, ...
LEMMA Popped ==
  ASSUME NEW s \in Seq(BOOLEAN), s # <<>>
  PROVE  /\ Len(s) \in Nat /\ Len(s) >= 1
         /\ SubSeq(s, 1, Len(s) - 1) \in Seq(BOOLEAN)
         /\ Len(SubSeq(s, 1, Len(s) - 1)) = Len(s) - 1
         /\ SubSeq(s, 1, Len(s) - 1) = <<>> <=> Len(s) = 1
         /\ \A i \in 1..(Len(s) - 1) : SubSeq(s, 1, Len(s) - 1)[i] = s[i]
<1> DEFINE n == Len(s) - 1
<1>1. n \in Nat /\ Len(s) \in Nat /\ Len(s) >= 1 /\ \A i \in 1..n : s[i] \in BOOLEAN
  OBVIOUS
<1> HIDE DEF n
<1>2. /\ SubSeq(s, 1, n) \in Seq(BOOLEAN)
      /\ Len(SubSeq(s, 1, n)) = IF 1 <= n THEN n - 1 + 1 ELSE 0
      /\ \A i \in 1..(n - 1 + 1) : SubSeq(s, 1, n)[i] = s[1 + i - 1]
  BY <1>1, SubSeqProperties
<1>3. Len(SubSeq(s, 1, n)) = n /\ \A i \in 1..n : SubSeq(s, 1, n)[i] = s[i]
  BY <1>1, <1>2
<1>4. SubSeq(s, 1, n) = <<>> <=> n = 0
  BY <1>1, <1>2, <1>3
<1> QED
  BY <1>1, <1>2, <1>3, <1>4 DEF n

\* ... or lifts the hook for it.
LEMMA Marked ==
  ASSUME NEW s \in Seq(BOOLEAN), s # <<>>
  PROVE  /\ [s EXCEPT ![Len(s)] = TRUE] \in Seq(BOOLEAN)
         /\ Len([s EXCEPT ![Len(s)] = TRUE]) = Len(s)
         /\ [s EXCEPT ![Len(s)] = TRUE][Len(s)] = TRUE
         /\ \A i \in 1..Len(s) : s[i] => [s EXCEPT ![Len(s)] = TRUE][i]
<1> DEFINE n == Len(s)
<1>1. n \in 1..Len(s)
  OBVIOUS
<1> HIDE DEF n
<1>2. /\ [s EXCEPT ![n] = TRUE] \in [1..Len(s) -> BOOLEAN] /\ Len(s) \in Nat
      /\ \A j \in 1..Len(s) : [s EXCEPT ![n] = TRUE][j] = IF j = n THEN TRUE ELSE s[j]
  <2>1. s \in [1..Len(s) -> BOOLEAN] /\ Len(s) \in Nat
    BY LenProperties
  <2>2. \A j \in 1..Len(s) : [s EXCEPT ![n] = TRUE][j] = IF j = n THEN TRUE ELSE s[j]
    BY <1>1, <2>1, Zenon
  <2>3. [s EXCEPT ![n] = TRUE] \in [1..Len(s) -> BOOLEAN]
    BY <1>1, <2>1, Zenon
  <2> QED
    BY <2>1, <2>2, <2>3
<1>3. [s EXCEPT ![n] = TRUE] \in Seq(BOOLEAN) /\ DOMAIN [s EXCEPT ![n] = TRUE] = 1..Len(s)
  BY <1>2, SeqDef, Zenon
<1>4. Len([s EXCEPT ![n] = TRUE]) = Len(s)
  BY <1>2, <1>3
<1> QED
  BY <1>1, <1>2, <1>3, <1>4 DEF n

\* The hooks a thread still has to look at.
LEMMA Rest ==
  ASSUME NEW s \in Seq(Hook)
  PROVE  /\ Len(s) \in Nat /\ DOMAIN s = 1..Len(s)
         /\ s # <<>> =>
              /\ Head(s) \in Hook /\ Head(s) = s[1]
              /\ Tail(s) \in Seq(Hook) /\ Len(Tail(s)) = Len(s) - 1
              /\ \A i \in 1..Len(s) : s[i] = Head(s)
                 \/ \E j \in DOMAIN Tail(s) : Tail(s)[j] = s[i]
<1>1. /\ Len(s) \in Nat /\ DOMAIN s = 1..Len(s)
  OBVIOUS
<1>2. ASSUME s # <<>>
      PROVE  /\ Head(s) \in Hook /\ Head(s) = s[1]
             /\ Tail(s) \in Seq(Hook) /\ Len(Tail(s)) = Len(s) - 1
             /\ \A j \in 1..(Len(s) - 1) : Tail(s)[j] = s[j + 1]
  BY <1>2
<1>3. ASSUME s # <<>>, NEW i \in 1..Len(s)
      PROVE  s[i] = Head(s) \/ \E j \in DOMAIN Tail(s) : Tail(s)[j] = s[i]
  <2>1. CASE i = 1
    BY <1>2, <1>3, <2>1
  <2>2. CASE i # 1
    <3>1. i - 1 \in DOMAIN Tail(s) /\ Tail(s)[i - 1] = s[i]
      BY <1>2, <1>3, <2>2
    <3> QED
      BY <3>1
  <2> QED
    BY <2>1, <2>2
<1> QED
  BY <1>1, <1>2, <1>3

\* Who is who, and what the manifest holds.
Cast ==
  /\ Actor = Thread \cup {Owner} /\ Owner \notin Thread /\ Module = Importer \cup {Provider}
  /\ Hook = {"load", "scan"} /\ <<"load", "scan">> \in Seq(Hook) /\ <<"load", "scan">> # <<>>
  /\ Len(<<"load", "scan">>) = 2 /\ Head(<<"load", "scan">>) = "load"
  /\ <<>> \in Seq(Hook) /\ <<>> \in Seq(BOOLEAN) /\ Len(<<>>) = 0

\* It is so when the two assumptions hold.
LEMMA CastKnown ==
  ASSUME RolesDistinct
  PROVE  Cast
BY DEF RolesDistinct, Cast, Actor, Module, Hook

-----------------------------------------------------------------------------
(* Steps of a loading thread.                                               *)

\* Thread t moves; no hook changes, and nobody starts or ends to install one.
Flowing(t) ==
  /\ UNCHANGED <<active, method, hooks, tables>>
  /\ loaded \subseteq loaded' /\ loaded' \subseteq Module
  /\ overlap' \in BOOLEAN /\ (overlap => overlap')
  /\ failed' \in BOOLEAN /\ (failed => failed')
  /\ at[t] \notin {"copy", "patch"} /\ at'[t] \notin {"copy", "patch"}
  /\ \A a \in Actor \ {t} : at'[a] = at[a] /\ todo'[a] = todo[a]

\* Such a step keeps all that is known of hooks, bytes and trampolines.
LEMMA FlowKeeps ==
  ASSUME Cast, BoundsTyped, HooksInv, NEW t \in Thread, Flowing(t)
  PROVE  /\ RecordTypes' /\ Copied'
         /\ ~overlap' => InstallingAlone' /\ OriginalIsCallable'
         /\ Undisturbed' => Removal'
         /\ (\A u \in Thread : level'[u] # <<>> => installed["load"]) => (Undisturbed'
            => OnRecord')
         /\ (\A u \in Thread : Lifting(u) => Lifting(u)') => (Undisturbed' => Lifted')
<1>0. t # Owner /\ t \in Actor /\ Owner \in Actor
  BY DEF Cast
<1>1. \A b \in Actor, h \in Hook : Installing(b, h)' <=> Installing(b, h)
  BY <1>0 DEF Flowing, Installing
<1>2. RecordTypes'
  BY DEF HooksInv, RecordTypes, Flowing, hooks, tables
<1>3. Copied'
  BY DEF HooksInv, Copied, Flowing, hooks, Patched
<1>4. ~overlap' => InstallingAlone'
  BY <1>1 DEF HooksInv, InstallingAlone, Flowing, hooks, Patched, Present
<1>5. ~overlap' => OriginalIsCallable'
  BY DEF HooksInv, OriginalIsCallable, Flowing, hooks
<1>6. Undisturbed' => Removal'
  BY <1>0 DEF HooksInv, Undisturbed, Removal, Removing, Flowing, hooks, tables, Patched
<1>7. ASSUME \A u \in Thread : level'[u] # <<>> => installed["load"] PROVE Undisturbed'
               => OnRecord'
  BY <1>1, <1>7 DEF HooksInv, Undisturbed, OnRecord, Flowing, hooks, tables, Patched, InHook
<1>8. ASSUME \A u \in Thread : Lifting(u) => Lifting(u)' PROVE Undisturbed' => Lifted'
  BY <1>0, <1>8 DEF HooksInv, Undisturbed, Lifted, Flowing, hooks
<1> QED
  BY <1>2, <1>3, <1>4, <1>5, <1>6, <1>7, <1>8

\* A place and a stack of calls that go together.
Consistent(l, s) ==
  /\ l \in Places \ {"copy", "patch", "remove", "clear"}
  /\ s \in Seq(BOOLEAN) /\ Len(s) <= DepthMax
  /\ l = "idle" => s = <<>>
  /\ l \in InCall => s # <<>>
  /\ l \in {"wrapper", "restore", "gate"} => ~s[Len(s)]

\* There is a call that lifted the hook and has not put it back.
Lifts(l, s) == \E i \in 1..Len(s) : s[i] /\ (i < Len(s) \/ l \notin Rewritten)

\* Thread t gets to place l with stack s.
MovesTo(t, l, s) ==
  /\ Flowing(t) /\ Consistent(l, s)
  /\ at' = [at EXCEPT ![t] = l] /\ level' = [level EXCEPT ![t] = s]
  /\ item' \in [Thread -> Module] /\ via' \in [Actor -> 0..Len(gates)]
  /\ todo' \in [Actor -> Seq(Hook)]
  /\ overlap' \/ ~Removing \/ (l \in {"idle", "entry"} /\ s = <<>>)
  /\ Undisturbed /\ s # <<>> => level[t] # <<>> \/ installed["load"]
  /\ Undisturbed' /\ Lifts(at[t], level[t]) => Lifts(l, s)

\* So a step that takes a thread to a place its calls agree with keeps the invariant.
LEMMA ThreadMoves ==
  ASSUME Cast, BoundsTyped, HooksInv, NEW t \in Thread, NEW l, NEW s, MovesTo(t, l, s)
  PROVE  HooksInv'
<1>0. t # Owner /\ t \in Actor /\ Owner \in Actor /\ Actor = Thread \cup {Owner}
  BY DEF Cast
<1>1. /\ at'[t] = l /\ \A a \in Actor \ {t} : at'[a] = at[a]
      /\ level'[t] = s /\ \A u \in Thread \ {t} : level'[u] = level[u]
      /\ at' \in [Actor -> Places] /\ level' \in [Thread -> Seq(BOOLEAN)]
  BY <1>0 DEF HooksInv, FlowTypes, MovesTo, Consistent
<1>2. FlowTypes'
  BY <1>0, <1>1 DEF HooksInv, FlowTypes, MovesTo, Consistent, Flowing, hooks
<1>3. Levels'
  <2>1. /\ \A a \in Actor \ {t} : at'[a] = at[a] /\ todo'[a] = todo[a]
        /\ at'[t] \notin {"copy", "patch", "remove", "clear"} /\ active' = active
    BY <1>1 DEF MovesTo, Consistent, Flowing
  <2>2. \A u \in Thread :
          /\ at'[u] = "idle" => level'[u] = <<>>
          /\ at'[u] \in InCall => level'[u] # <<>>
          /\ at'[u] \in {"wrapper", "restore", "gate"} => ~level'[u][Len(level'[u])]
    BY <1>0, <1>1 DEF HooksInv, Levels, MovesTo, Consistent
  <2> QED
    BY <1>0, <2>1, <2>2 DEF HooksInv, Levels
<1>4. ~overlap' => Quiet'
  BY <1>0, <1>1 DEF HooksInv, Quiet, Removing, MovesTo, Flowing
<1>5. Undisturbed' => Undisturbed
  BY DEF Undisturbed, MovesTo, Flowing
<1>6. ASSUME Undisturbed' PROVE OnRecord'
  <2>1. \A u \in Thread : level'[u] # <<>> => installed["load"]
    BY <1>0, <1>1, <1>5, <1>6 DEF HooksInv, OnRecord, InHook, MovesTo
  <2> QED
    BY <1>6, <2>1, FlowKeeps DEF MovesTo
<1>7. \A u \in Thread : Lifting(u) <=> Lifts(at[u], level[u])
  BY DEF Lifting, Lifts
<1>8. \A u \in Thread : Lifting(u)' <=> Lifts(at'[u], level'[u])
  BY <1>1 DEF Lifting, Lifts
<1>9. Undisturbed' => \A u \in Thread : Lifting(u) => Lifting(u)'
  BY <1>0, <1>1, <1>7, <1>8 DEF MovesTo
<1> QED
  BY <1>2, <1>3, <1>4, <1>6, <1>9, FlowKeeps DEF HooksInv, MovesTo

\* A thread calls the loader.
LEMMA CallMoves ==
  ASSUME Cast, BoundsTyped, HooksInv, NEW t \in Thread, Call(t)
  PROVE  HooksInv'
<1>0. t \in Actor /\ t # Owner /\ level[t] \in Seq(BOOLEAN) /\ Len(level[t]) \in Nat
        /\ Len(level[t]) <= DepthMax
      /\ at[t] \in Places /\ level = [level EXCEPT ![t] = level[t]]
      /\ (level[t] = <<>> <=> Len(level[t]) = 0)
  BY DEF Cast, HooksInv, FlowTypes
<1>1. Flowing(t)
  BY <1>0 DEF HooksInv, RecordTypes, Flowing, Call, GoTo, past
<1>2. at' = [at EXCEPT ![t] = "entry"] /\ level' = [level EXCEPT ![t] = level[t]]
  BY <1>0 DEF Call, GoTo
<1>3. Consistent("entry", level[t])
  BY <1>0 DEF Consistent, Places, InCall
<1>4. item' \in [Thread -> Module] /\ via' \in [Actor -> 0..Len(gates)]
        /\ todo' \in [Actor -> Seq(Hook)]
  BY <1>0 DEF HooksInv, FlowTypes, Call
<1>5. overlap' \/ ~Removing \/ ("entry" \in {"idle", "entry"} /\ level[t] = <<>>)
  BY <1>0 DEF HooksInv, Quiet, Call, past
<1>6. Undisturbed /\ level[t] # <<>> => level[t] # <<>> \/ installed["load"]
  BY <1>0
<1>7. Undisturbed' /\ Lifts(at[t], level[t]) => Lifts("entry", level[t])
  BY <1>0 DEF Lifts, Rewritten
<1> QED
  BY <1>1, <1>2, <1>3, <1>4, <1>5, <1>6, <1>7, ThreadMoves DEF MovesTo

\* The function's own bytes run, ...
LEMMA EnterOwn ==
  ASSUME Cast, BoundsTyped, HooksInv, NEW t \in Thread, Enter(t), code["load"] # "jump"
  PROVE  HooksInv'
<1>0. t \in Actor /\ t # Owner /\ level[t] \in Seq(BOOLEAN) /\ Len(level[t]) \in Nat
        /\ Len(level[t]) <= DepthMax
      /\ at[t] \in Places /\ level = [level EXCEPT ![t] = level[t]]
      /\ (level[t] = <<>> <=> Len(level[t]) = 0)
  BY DEF Cast, HooksInv, FlowTypes
<1>1. Flowing(t)
  BY <1>0 DEF HooksInv, RecordTypes, FlowTypes, Flowing, Enter, GoTo
<1>2. at' = [at EXCEPT ![t] = "original"] /\ level' = [level EXCEPT ![t] = level[t]]
  BY <1>0 DEF Enter, GoTo
<1>3. Consistent("original", level[t])
  BY <1>0 DEF Consistent, Places, InCall
<1>4. item' \in [Thread -> Module] /\ via' \in [Actor -> 0..Len(gates)]
        /\ todo' \in [Actor -> Seq(Hook)]
  BY <1>0 DEF HooksInv, FlowTypes, Enter
<1>5. overlap' \/ ~Removing \/ ("original" \in {"idle", "entry"} /\ level[t] = <<>>)
  BY <1>0 DEF HooksInv, Quiet, Removing, Levels, InCall, Enter, GoTo, past
<1>6. Undisturbed /\ level[t] # <<>> => level[t] # <<>> \/ installed["load"]
  BY <1>0
<1>7. Undisturbed' /\ Lifts(at[t], level[t]) => Lifts("original", level[t])
  BY <1>0 DEF Lifts, Rewritten
<1> QED
  BY <1>1, <1>2, <1>3, <1>4, <1>5, <1>6, <1>7, ThreadMoves DEF MovesTo

\* ... the stack is exhausted ...

\* ... the stack is exhausted, ...
LEMMA EnterTooDeep ==
  ASSUME Cast, BoundsTyped, HooksInv, NEW t \in Thread, Enter(t), code["load"] = "jump",
           ~(Len(level[t]) < DepthMax)
  PROVE  HooksInv'
<1>0. t \in Actor /\ t # Owner /\ level[t] \in Seq(BOOLEAN) /\ Len(level[t]) \in Nat
        /\ Len(level[t]) <= DepthMax
      /\ at[t] \in Places /\ level = [level EXCEPT ![t] = level[t]]
      /\ (level[t] = <<>> <=> Len(level[t]) = 0)
  BY DEF Cast, HooksInv, FlowTypes
<1>1. Flowing(t)
  BY <1>0 DEF HooksInv, RecordTypes, FlowTypes, Flowing, Enter, GoTo
<1>2. at' = [at EXCEPT ![t] = "crashed"] /\ level' = [level EXCEPT ![t] = level[t]]
  BY <1>0 DEF Enter, GoTo
<1>3. Consistent("crashed", level[t])
  BY <1>0 DEF Consistent, Places, InCall
<1>4. item' \in [Thread -> Module] /\ via' \in [Actor -> 0..Len(gates)]
        /\ todo' \in [Actor -> Seq(Hook)]
  BY <1>0 DEF HooksInv, FlowTypes, Enter
<1>5. overlap' \/ ~Removing \/ ("crashed" \in {"idle", "entry"} /\ level[t] = <<>>)
  BY <1>0 DEF HooksInv, Quiet, Removing, Levels, InCall, Enter, GoTo, past
<1>6. Undisturbed /\ level[t] # <<>> => level[t] # <<>> \/ installed["load"]
  BY <1>0
<1>7. Undisturbed' /\ Lifts(at[t], level[t]) => Lifts("crashed", level[t])
  BY <1>0 DEF Lifts, Rewritten
<1> QED
  BY <1>1, <1>2, <1>3, <1>4, <1>5, <1>6, <1>7, ThreadMoves DEF MovesTo

\* ... or the jump leads to the wrapper.
LEMMA EnterHooked ==
  ASSUME Cast, BoundsTyped, HooksInv, NEW t \in Thread, Enter(t), code["load"] = "jump",
           Len(level[t]) < DepthMax
  PROVE  HooksInv'
<1>0. t \in Actor /\ t # Owner /\ level[t] \in Seq(BOOLEAN) /\ Len(level[t]) \in Nat
        /\ Len(level[t]) <= DepthMax
      /\ at[t] \in Places /\ level = [level EXCEPT ![t] = level[t]]
      /\ (level[t] = <<>> <=> Len(level[t]) = 0)
  BY DEF Cast, HooksInv, FlowTypes
<1> DEFINE s == Append(level[t], FALSE)
<1>a. /\ s \in Seq(BOOLEAN) /\ Len(s) = Len(level[t]) + 1 /\ s # <<>>
      /\ ~s[Len(s)] /\ \A i \in 1..Len(level[t]) : s[i] = level[t][i]
  BY <1>0, Pushed, Zenon
<1>1. Flowing(t)
  BY <1>0 DEF HooksInv, RecordTypes, FlowTypes, Flowing, Enter, GoTo
<1>2. at' = [at EXCEPT ![t] = "wrapper"] /\ level' = [level EXCEPT ![t] = s]
  BY <1>0, <1>a DEF BoundsTyped, Enter, GoTo, flow
<1> HIDE DEF s
<1>3. Consistent("wrapper", s)
  BY <1>0, <1>a DEF BoundsTyped, Consistent, Places, InCall
<1>4. item' \in [Thread -> Module] /\ via' \in [Actor -> 0..Len(gates)]
        /\ todo' \in [Actor -> Seq(Hook)]
  BY <1>0 DEF HooksInv, FlowTypes, Enter
<1>5. overlap' \/ ~Removing \/ ("wrapper" \in {"idle", "entry"} /\ s = <<>>)
  BY <1>0, <1>a DEF BoundsTyped, HooksInv, Quiet, Removing, Levels, InCall, Enter, GoTo, past
<1>6. Undisturbed /\ s # <<>> => level[t] # <<>> \/ installed["load"]
  BY <1>0, <1>a DEF Cast, HooksInv, OnRecord
<1>7. Undisturbed' /\ Lifts(at[t], level[t]) => Lifts("wrapper", s)
  BY <1>0, <1>a DEF Lifts
<1> QED
  BY <1>1, <1>2, <1>3, <1>4, <1>5, <1>6, <1>7, ThreadMoves DEF MovesTo

\* Without a trampoline the wrapper returns, ...
LEMMA WrapperReturns ==
  ASSUME Cast, BoundsTyped, HooksInv, NEW t \in Thread, Wrapper(t), gate["load"] = 0
  PROVE  HooksInv'
<1>0. t \in Actor /\ t # Owner /\ level[t] \in Seq(BOOLEAN) /\ Len(level[t]) \in Nat
        /\ Len(level[t]) <= DepthMax
      /\ at[t] \in Places /\ level = [level EXCEPT ![t] = level[t]]
      /\ (level[t] = <<>> <=> Len(level[t]) = 0)
  BY DEF Cast, HooksInv, FlowTypes
<1> DEFINE s == SubSeq(level[t], 1, Len(level[t]) - 1)
<1>a. /\ level[t] # <<>> /\ Len(level[t]) >= 1 /\ s \in Seq(BOOLEAN) /\ Len(s) = Len(level[t]) - 1
      /\ (s = <<>> <=> Len(level[t]) = 1) /\ \A i \in 1..(Len(level[t]) - 1) : s[i] = level[t][i]
  <2>1. level[t] # <<>>
    BY DEF HooksInv, Levels, InCall, Wrapper
  <2> QED
    BY <1>0, <2>1, Popped
<1>1. Flowing(t)
  BY <1>0 DEF HooksInv, RecordTypes, FlowTypes, Flowing, Wrapper, GoTo, past
<1>2. at' = [at EXCEPT ![t] = (IF Len(level[t]) = 1 THEN "idle" ELSE "reinstall")]
        /\ level' = [level EXCEPT ![t] = s]
  BY <1>0, <1>a DEF Wrapper, GoTo
<1> HIDE DEF s
<1>3. Consistent((IF Len(level[t]) = 1 THEN "idle" ELSE "reinstall"), s)
  BY <1>0, <1>a DEF BoundsTyped, Consistent, Places, InCall
<1>4. item' \in [Thread -> Module] /\ via' \in [Actor -> 0..Len(gates)]
        /\ todo' \in [Actor -> Seq(Hook)]
  BY <1>0 DEF HooksInv, FlowTypes, Wrapper
<1>5. overlap' \/ ~Removing
        \/ ((IF Len(level[t]) = 1 THEN "idle" ELSE "reinstall") \in {"idle", "entry"}
        /\ s = <<>>)
  BY <1>0, <1>a DEF HooksInv, Quiet, Wrapper, past
<1>6. Undisturbed /\ s # <<>> => level[t] # <<>> \/ installed["load"]
  BY <1>0, <1>a
<1>7. Undisturbed' /\ Lifts(at[t], level[t])
        => Lifts((IF Len(level[t]) = 1 THEN "idle" ELSE "reinstall"), s)
  BY <1>0, <1>a DEF HooksInv, Levels, Lifts, Rewritten, Wrapper
<1> QED
  BY <1>1, <1>2, <1>3, <1>4, <1>5, <1>6, <1>7, ThreadMoves DEF MovesTo

\* ... otherwise it calls the original.
LEMMA WrapperCalls ==
  ASSUME Cast, BoundsTyped, HooksInv, NEW t \in Thread, Wrapper(t), gate["load"] # 0
  PROVE  HooksInv'
<1>0. t \in Actor /\ t # Owner /\ level[t] \in Seq(BOOLEAN) /\ Len(level[t]) \in Nat
        /\ Len(level[t]) <= DepthMax
      /\ at[t] \in Places /\ level = [level EXCEPT ![t] = level[t]]
      /\ (level[t] = <<>> <=> Len(level[t]) = 0)
  BY DEF Cast, HooksInv, FlowTypes
<1>1. Flowing(t)
  BY <1>0 DEF HooksInv, RecordTypes, FlowTypes, Flowing, Wrapper, GoTo, past
<1>2. at' = [at EXCEPT ![t] = (IF installed["load"]
        /\ target["load"] THEN "restore" ELSE "gate")]
        /\ level' = [level EXCEPT ![t] = level[t]]
  BY <1>0 DEF Wrapper, GoTo
<1>3. Consistent((IF installed["load"] /\ target["load"] THEN "restore" ELSE "gate"), level[t])
  BY <1>0 DEF HooksInv, Levels, Wrapper, Consistent, Places, InCall
<1>4. item' \in [Thread -> Module] /\ via' \in [Actor -> 0..Len(gates)]
        /\ todo' \in [Actor -> Seq(Hook)]
  BY <1>0 DEF Cast, HooksInv, RecordTypes, FlowTypes, Wrapper
<1>5. overlap' \/ ~Removing \/ ((IF installed["load"]
        /\ target["load"] THEN "restore" ELSE "gate") \in {"idle", "entry"}
        /\ level[t] = <<>>)
  BY <1>0 DEF HooksInv, Quiet, Wrapper, past
<1>6. Undisturbed /\ level[t] # <<>> => level[t] # <<>> \/ installed["load"]
  BY <1>0
<1>7. Undisturbed' /\ Lifts(at[t], level[t]) => Lifts((IF installed["load"]
        /\ target["load"] THEN "restore" ELSE "gate"), level[t])
  BY <1>0 DEF Lifts, Rewritten
<1> QED
  BY <1>1, <1>2, <1>3, <1>4, <1>5, <1>6, <1>7, ThreadMoves DEF MovesTo

\* The bytes cannot be restored: the trampoline is called instead.
LEMMA RestoreFails ==
  ASSUME Cast, BoundsTyped, HooksInv, NEW t \in Thread, Restore(t), at'[t] # "entry"
  PROVE  HooksInv'
<1>0. t \in Actor /\ t # Owner /\ level[t] \in Seq(BOOLEAN) /\ Len(level[t]) \in Nat
        /\ Len(level[t]) <= DepthMax
      /\ at[t] \in Places /\ level = [level EXCEPT ![t] = level[t]]
      /\ (level[t] = <<>> <=> Len(level[t]) = 0)
  BY DEF Cast, HooksInv, FlowTypes
<1>1. Flowing(t)
  BY <1>0 DEF Cast, HooksInv, RecordTypes, FlowTypes, Flowing, Restore, GoTo, hooks
<1>2. at' = [at EXCEPT ![t] = "gate"] /\ level' = [level EXCEPT ![t] = level[t]]
  BY <1>0 DEF Restore, GoTo, HooksInv, FlowTypes
<1>3. Consistent("gate", level[t])
  BY <1>0 DEF HooksInv, Levels, Restore, Consistent, Places, InCall
<1>4. item' \in [Thread -> Module] /\ via' \in [Actor -> 0..Len(gates)]
        /\ todo' \in [Actor -> Seq(Hook)]
  BY <1>0 DEF HooksInv, FlowTypes, Restore
<1>5. overlap' \/ ~Removing \/ ("gate" \in {"idle", "entry"} /\ level[t] = <<>>)
  BY <1>0 DEF HooksInv, Quiet, Restore
<1>6. Undisturbed /\ level[t] # <<>> => level[t] # <<>> \/ installed["load"]
  BY <1>0
<1>7. Undisturbed' /\ Lifts(at[t], level[t]) => Lifts("gate", level[t])
  BY <1>0 DEF Lifts, Rewritten
<1> QED
  BY <1>1, <1>2, <1>3, <1>4, <1>5, <1>6, <1>7, ThreadMoves DEF MovesTo

\* The trampoline is called.
LEMMA GateMoves ==
  ASSUME Cast, BoundsTyped, HooksInv, NEW t \in Thread, Gate(t)
  PROVE  HooksInv'
<1>0. t \in Actor /\ t # Owner /\ level[t] \in Seq(BOOLEAN) /\ Len(level[t]) \in Nat
        /\ Len(level[t]) <= DepthMax
      /\ at[t] \in Places /\ level = [level EXCEPT ![t] = level[t]]
      /\ (level[t] = <<>> <=> Len(level[t]) = 0)
  BY DEF Cast, HooksInv, FlowTypes
<1>1. Flowing(t)
  BY <1>0 DEF HooksInv, RecordTypes, Flowing, Gate, GoTo, past
<1>2. at' = [at EXCEPT ![t] = (IF via[t] \in freed THEN "crashed"
        ELSE IF gates[via[t]] = "own" THEN "original" ELSE "entry")]
        /\ level' = [level EXCEPT ![t] = level[t]]
  BY <1>0 DEF Gate, GoTo
<1>3. Consistent((IF via[t] \in freed THEN "crashed" ELSE IF gates[via[t]] = "own"
        THEN "original" ELSE "entry"), level[t])
  BY <1>0 DEF Consistent, Places, InCall
<1>4. item' \in [Thread -> Module] /\ via' \in [Actor -> 0..Len(gates)]
        /\ todo' \in [Actor -> Seq(Hook)]
  BY <1>0 DEF HooksInv, FlowTypes, Gate
<1>5. overlap' \/ ~Removing
        \/ ((IF via[t] \in freed THEN "crashed" ELSE IF gates[via[t]] = "own"
        THEN "original" ELSE "entry") \in {"idle", "entry"} /\ level[t] = <<>>)
  BY <1>0 DEF HooksInv, Quiet, Gate, past
<1>6. Undisturbed /\ level[t] # <<>> => level[t] # <<>> \/ installed["load"]
  BY <1>0
<1>7. Undisturbed' /\ Lifts(at[t], level[t])
        => Lifts((IF via[t] \in freed THEN "crashed" ELSE IF gates[via[t]] = "own"
        THEN "original" ELSE "entry"), level[t])
  BY <1>0 DEF Lifts, Rewritten
<1> QED
  BY <1>1, <1>2, <1>3, <1>4, <1>5, <1>6, <1>7, ThreadMoves DEF MovesTo

\* The original loads the module.
LEMMA OriginalMoves ==
  ASSUME Cast, BoundsTyped, HooksInv, NEW t \in Thread, Original(t)
  PROVE  HooksInv'
<1>0. t \in Actor /\ t # Owner /\ level[t] \in Seq(BOOLEAN) /\ Len(level[t]) \in Nat
        /\ Len(level[t]) <= DepthMax
      /\ at[t] \in Places /\ level = [level EXCEPT ![t] = level[t]]
      /\ (level[t] = <<>> <=> Len(level[t]) = 0)
  BY DEF Cast, HooksInv, FlowTypes
<1>1. Flowing(t)
  BY <1>0 DEF HooksInv, RecordTypes, FlowTypes, Flowing, Original, GoTo, past
<1>2. at' = [at EXCEPT ![t] = (IF level[t] = <<>> THEN "idle"
        ELSE IF level[t][Len(level[t])] THEN "reinstall" ELSE "publish")]
        /\ level' = [level EXCEPT ![t] = level[t]]
  BY <1>0 DEF Original, GoTo, InHook
<1>3. Consistent((IF level[t] = <<>> THEN "idle" ELSE IF level[t][Len(level[t])]
        THEN "reinstall" ELSE "publish"), level[t])
  BY <1>0 DEF Consistent, Places, InCall
<1>4. item' \in [Thread -> Module] /\ via' \in [Actor -> 0..Len(gates)]
        /\ todo' \in [Actor -> Seq(Hook)]
  BY <1>0 DEF HooksInv, FlowTypes, Original
<1>5. overlap' \/ ~Removing
        \/ ((IF level[t] = <<>> THEN "idle" ELSE IF level[t][Len(level[t])] THEN "reinstall"
        ELSE "publish") \in {"idle", "entry"} /\ level[t] = <<>>)
  BY <1>0 DEF HooksInv, Quiet, Original, past
<1>6. Undisturbed /\ level[t] # <<>> => level[t] # <<>> \/ installed["load"]
  BY <1>0
<1>7. Undisturbed' /\ Lifts(at[t], level[t])
        => Lifts((IF level[t] = <<>> THEN "idle" ELSE IF level[t][Len(level[t])]
        THEN "reinstall" ELSE "publish"), level[t])
  BY <1>0 DEF Lifts, Rewritten
<1> QED
  BY <1>1, <1>2, <1>3, <1>4, <1>5, <1>6, <1>7, ThreadMoves DEF MovesTo

\* The jump cannot be written back.
LEMMA ReinstallFails ==
  ASSUME Cast, BoundsTyped, HooksInv, NEW t \in Thread, Reinstall(t), UNCHANGED code,
           failed' \/ ~(installed["load"] /\ target["load"])
  PROVE  HooksInv'
<1>0. t \in Actor /\ t # Owner /\ level[t] \in Seq(BOOLEAN) /\ Len(level[t]) \in Nat
        /\ Len(level[t]) <= DepthMax
      /\ at[t] \in Places /\ level = [level EXCEPT ![t] = level[t]]
      /\ (level[t] = <<>> <=> Len(level[t]) = 0)
  BY DEF Cast, HooksInv, FlowTypes
<1>1. Flowing(t)
  BY <1>0 DEF Cast, HooksInv, RecordTypes, Flowing, Reinstall, GoTo, hooks
<1>2. at' = [at EXCEPT ![t] = "publish"] /\ level' = [level EXCEPT ![t] = level[t]]
  BY <1>0 DEF Reinstall, GoTo
<1>3. Consistent("publish", level[t])
  BY <1>0 DEF HooksInv, Levels, Reinstall, Consistent, Places, InCall
<1>4. item' \in [Thread -> Module] /\ via' \in [Actor -> 0..Len(gates)]
        /\ todo' \in [Actor -> Seq(Hook)]
  BY <1>0 DEF HooksInv, FlowTypes, Reinstall
<1>5. overlap' \/ ~Removing \/ ("publish" \in {"idle", "entry"} /\ level[t] = <<>>)
  BY <1>0 DEF HooksInv, Quiet, Reinstall
<1>6. Undisturbed /\ level[t] # <<>> => level[t] # <<>> \/ installed["load"]
  BY <1>0
<1>7. Undisturbed' /\ Lifts(at[t], level[t]) => Lifts("publish", level[t])
  BY <1>0 DEF Cast, HooksInv, Lifts, Reinstall, Undisturbed, OnRecord, InHook
<1> QED
  BY <1>1, <1>2, <1>3, <1>4, <1>5, <1>6, <1>7, ThreadMoves DEF MovesTo

\* A load is reported and the hooks refreshed.
LEMMA PublishMoves ==
  ASSUME Cast, BoundsTyped, HooksInv, NEW t \in Thread, Publish(t)
  PROVE  HooksInv'
<1>0. t \in Actor /\ t # Owner /\ level[t] \in Seq(BOOLEAN) /\ Len(level[t]) \in Nat
        /\ Len(level[t]) <= DepthMax
      /\ at[t] \in Places /\ level = [level EXCEPT ![t] = level[t]]
      /\ (level[t] = <<>> <=> Len(level[t]) = 0)
  BY DEF Cast, HooksInv, FlowTypes
<1>1. Flowing(t)
  BY <1>0 DEF HooksInv, RecordTypes, FlowTypes, Flowing, Publish, GoTo, past
<1>2. at' = [at EXCEPT ![t] = (IF active THEN "each" ELSE "leave")]
        /\ level' = [level EXCEPT ![t] = level[t]]
  BY <1>0 DEF Publish, GoTo
<1>3. Consistent((IF active THEN "each" ELSE "leave"), level[t])
  BY <1>0 DEF HooksInv, Levels, Publish, Consistent, Places, InCall
<1>4. item' \in [Thread -> Module] /\ via' \in [Actor -> 0..Len(gates)]
        /\ todo' \in [Actor -> Seq(Hook)]
  <2>1. /\ item \in [Thread -> Module] /\ via \in [Actor -> 0..Len(gates)]
        /\ todo \in [Actor -> Seq(Hook)] /\ <<"load", "scan">> \in Seq(Hook)
    BY DEF Cast, HooksInv, FlowTypes
  <2> QED
    BY <2>1 DEF Publish
<1>5. overlap' \/ ~Removing \/ ((IF active THEN "each" ELSE "leave") \in {"idle", "entry"}
        /\ level[t] = <<>>)
  BY <1>0 DEF HooksInv, Quiet, Publish, past
<1>6. Undisturbed /\ level[t] # <<>> => level[t] # <<>> \/ installed["load"]
  BY <1>0
<1>7. Undisturbed' /\ Lifts(at[t], level[t])
        => Lifts((IF active THEN "each" ELSE "leave"), level[t])
  BY <1>0 DEF Lifts, Rewritten, Publish
<1> QED
  BY <1>1, <1>2, <1>3, <1>4, <1>5, <1>6, <1>7, ThreadMoves DEF MovesTo

\* The refresh is through.
LEMMA ReportMoves ==
  ASSUME Cast, BoundsTyped, HooksInv, NEW t \in Thread, Report(t)
  PROVE  HooksInv'
<1>0. t \in Actor /\ t # Owner /\ level[t] \in Seq(BOOLEAN) /\ Len(level[t]) \in Nat
        /\ Len(level[t]) <= DepthMax
      /\ at[t] \in Places /\ level = [level EXCEPT ![t] = level[t]]
      /\ (level[t] = <<>> <=> Len(level[t]) = 0)
  BY DEF Cast, HooksInv, FlowTypes
<1>1. Flowing(t)
  BY <1>0 DEF HooksInv, RecordTypes, Flowing, Report, GoTo, past
<1>2. at' = [at EXCEPT ![t] = "leave"] /\ level' = [level EXCEPT ![t] = level[t]]
  BY <1>0 DEF Report, GoTo
<1>3. Consistent("leave", level[t])
  BY <1>0 DEF HooksInv, Levels, Report, Consistent, Places, InCall
<1>4. item' \in [Thread -> Module] /\ via' \in [Actor -> 0..Len(gates)]
        /\ todo' \in [Actor -> Seq(Hook)]
  BY <1>0 DEF HooksInv, FlowTypes, Report
<1>5. overlap' \/ ~Removing \/ ("leave" \in {"idle", "entry"} /\ level[t] = <<>>)
  BY <1>0 DEF HooksInv, Quiet, Report, past
<1>6. Undisturbed /\ level[t] # <<>> => level[t] # <<>> \/ installed["load"]
  BY <1>0
<1>7. Undisturbed' /\ Lifts(at[t], level[t]) => Lifts("leave", level[t])
  BY <1>0 DEF Lifts, Rewritten, Report
<1> QED
  BY <1>1, <1>2, <1>3, <1>4, <1>5, <1>6, <1>7, ThreadMoves DEF MovesTo

\* A call returns into the one around it.
LEMMA LeaveMoves ==
  ASSUME Cast, BoundsTyped, HooksInv, NEW t \in Thread, Leave(t)
  PROVE  HooksInv'
<1>0. t \in Actor /\ t # Owner /\ level[t] \in Seq(BOOLEAN) /\ Len(level[t]) \in Nat
        /\ Len(level[t]) <= DepthMax
      /\ at[t] \in Places /\ level = [level EXCEPT ![t] = level[t]]
      /\ (level[t] = <<>> <=> Len(level[t]) = 0)
  BY DEF Cast, HooksInv, FlowTypes
<1> DEFINE s == SubSeq(level[t], 1, Len(level[t]) - 1)
<1>a. /\ level[t] # <<>> /\ Len(level[t]) >= 1 /\ s \in Seq(BOOLEAN) /\ Len(s) = Len(level[t]) - 1
      /\ (s = <<>> <=> Len(level[t]) = 1) /\ \A i \in 1..(Len(level[t]) - 1) : s[i] = level[t][i]
  <2>1. level[t] # <<>>
    BY DEF HooksInv, Levels, InCall, Leave
  <2> QED
    BY <1>0, <2>1, Popped
<1>1. Flowing(t)
  BY <1>0 DEF HooksInv, RecordTypes, Flowing, Leave, GoTo, past
<1>2. at' = [at EXCEPT ![t] = (IF Len(level[t]) = 1 THEN "idle"
        ELSE IF level[t][Len(level[t]) - 1] THEN "reinstall" ELSE "publish")]
        /\ level' = [level EXCEPT ![t] = s]
  BY <1>0, <1>a DEF Leave, GoTo
<1> HIDE DEF s
<1>3. Consistent((IF Len(level[t]) = 1 THEN "idle" ELSE IF level[t][Len(level[t]) - 1]
        THEN "reinstall" ELSE "publish"), s)
  BY <1>0, <1>a DEF BoundsTyped, Consistent, Places, InCall
<1>4. item' \in [Thread -> Module] /\ via' \in [Actor -> 0..Len(gates)]
        /\ todo' \in [Actor -> Seq(Hook)]
  BY <1>0 DEF HooksInv, FlowTypes, Leave
<1>5. overlap' \/ ~Removing
        \/ ((IF Len(level[t]) = 1 THEN "idle" ELSE IF level[t][Len(level[t]) - 1]
        THEN "reinstall" ELSE "publish") \in {"idle", "entry"} /\ s = <<>>)
  BY <1>0, <1>a DEF HooksInv, Quiet, Leave, past
<1>6. Undisturbed /\ s # <<>> => level[t] # <<>> \/ installed["load"]
  BY <1>0, <1>a
<1>7. Undisturbed' /\ Lifts(at[t], level[t])
        => Lifts((IF Len(level[t]) = 1 THEN "idle" ELSE IF level[t][Len(level[t]) - 1]
        THEN "reinstall" ELSE "publish"), s)
  BY <1>0, <1>a DEF Lifts, Rewritten, Leave
<1> QED
  BY <1>1, <1>2, <1>3, <1>4, <1>5, <1>6, <1>7, ThreadMoves DEF MovesTo

\* The function's own bytes are written back for the call.
LEMMA RestoreLifts ==
  ASSUME Cast, BoundsTyped, HooksInv, NEW t \in Thread, Restore(t), at'[t] = "entry"
  PROVE  HooksInv'
<1>a. /\ t \in Actor /\ t # Owner /\ level[t] \in Seq(BOOLEAN) /\ level[t] # <<>>
      /\ at[t] = "restore"
      /\ at' = [at EXCEPT ![t] = "entry"] /\ installed["load"]
      /\ code' = [code EXCEPT !["load"] = saved["load"]]
      /\ level' = [level EXCEPT ![t] = [level[t] EXCEPT ![Len(level[t])] = TRUE]]
      /\ saved["load"] \in {"own", "jump"} /\ Len(level[t]) <= DepthMax
      /\ UNCHANGED <<active, method, installed, target, saved, gate, gates, freed, tables, loaded,
                     item, via, todo, overlap, failed>>
  BY DEF Cast, HooksInv, RecordTypes, FlowTypes, Levels, InCall, Copied, Patched, Restore, GoTo
<1>b. /\ level' \in [Thread -> Seq(BOOLEAN)] /\ \A u \in Thread \ {t} : level'[u] = level[u]
      /\ level'[t] # <<>> /\ Len(level'[t]) <= DepthMax
      /\ Len(level'[t]) \in DOMAIN level'[t] /\ level'[t][Len(level'[t])]
  <2> DEFINE s == [level[t] EXCEPT ![Len(level[t])] = TRUE]
  <2>1. s \in Seq(BOOLEAN) /\ Len(s) = Len(level[t]) /\ s[Len(level[t])] = TRUE
    BY <1>a, Marked
  <2>2. level' = [level EXCEPT ![t] = s] /\ level \in [Thread -> Seq(BOOLEAN)]
    BY <1>a DEF HooksInv, FlowTypes
  <2> HIDE DEF s
  <2>3. s # <<>> /\ Len(s) \in DOMAIN s /\ s[Len(s)]
    BY <1>a, <2>1
  <2> QED
    BY <1>a, <2>1, <2>2, <2>3
<1>1. RecordTypes'
  BY <1>a, <1>b DEF Cast, HooksInv, RecordTypes, tables
<1>2. FlowTypes'
  BY <1>a, <1>b DEF Cast, HooksInv, FlowTypes, Places
<1>3. Levels'
  BY <1>a, <1>b DEF HooksInv, Levels
<1>4. Copied'
  BY <1>a, <1>b DEF HooksInv, Copied, Patched
<1>5. ~overlap' => Quiet'
  BY <1>a, <1>b DEF HooksInv, Quiet, Removing
<1>6. ~overlap' => InstallingAlone'
  BY <1>a, <1>b DEF HooksInv, InstallingAlone, Installing, Patched, Present
<1>7. ~overlap' => OriginalIsCallable'
  BY <1>a, <1>b DEF HooksInv, OriginalIsCallable
<1>8. Undisturbed' => OnRecord'
  BY <1>a, <1>b DEF HooksInv, Installing, Patched, Undisturbed, OnRecord, tables
<1>9. Undisturbed' => Removal'
  BY <1>a, <1>b DEF HooksInv, Quiet, Removing, Undisturbed, Removal
<1>10. Undisturbed' => Lifted'
  BY <1>a, <1>b DEF Lifted, Lifting, Rewritten
<1> QED
  BY <1>1, <1>2, <1>3, <1>4, <1>5, <1>6, <1>7, <1>8, <1>9, <1>10 DEF HooksInv

\* The jump is written again after it.
LEMMA ReinstallWrites ==
  ASSUME Cast, BoundsTyped, HooksInv, NEW t \in Thread, Reinstall(t), installed["load"],
           code' = [code EXCEPT !["load"] = "jump"]
  PROVE  HooksInv'
<1>1. RecordTypes'
  BY DEF Cast, HooksInv, RecordTypes, Reinstall, tables
<1>2. FlowTypes'
  BY DEF Cast, HooksInv, FlowTypes, Places, InCall, Reinstall, GoTo
<1>3. Levels'
  BY DEF HooksInv, Levels, InCall, Reinstall, GoTo
<1>4. Copied'
  BY DEF HooksInv, Copied, Patched, Reinstall, GoTo
<1>5. ~overlap' => Quiet'
  BY DEF HooksInv, Quiet, Removing, Reinstall, GoTo
<1>6. ~overlap' => InstallingAlone'
  BY DEF HooksInv, InstallingAlone, Installing, Patched, Present, Reinstall, GoTo
<1>7. ~overlap' => OriginalIsCallable'
  BY DEF HooksInv, OriginalIsCallable, Reinstall
<1>8. Undisturbed' => OnRecord'
  BY DEF HooksInv, RecordTypes, Installing, Patched, Undisturbed, OnRecord, Reinstall, GoTo,
         tables
<1>9. Undisturbed' => Removal'
  <2>1. Undisturbed' => Undisturbed /\ ~Removing
    BY DEF HooksInv, Undisturbed, Quiet, Reinstall
  <2>2. Removing' => Removing
    BY DEF HooksInv, FlowTypes, Removing, Reinstall, GoTo
  <2> QED
    BY <2>1, <2>2 DEF HooksInv, Removing, Removal, Reinstall
<1>10. Undisturbed' => Lifted'
  BY DEF Cast, HooksInv, RecordTypes, Lifted
<1> QED
  BY <1>1, <1>2, <1>3, <1>4, <1>5, <1>6, <1>7, <1>8, <1>9, <1>10 DEF HooksInv

\* A hook that is there, or has no function yet, is passed over.
LEMMA EachSkipMoves ==
  ASSUME Cast, BoundsTyped, HooksInv, NEW a \in Actor, EachSkip(a)
  PROVE  HooksInv'
<1>1. RecordTypes'
  BY DEF HooksInv, RecordTypes, FlowTypes, EachSkip, past
<1>2. FlowTypes'
  BY DEF HooksInv, FlowTypes, EachSkip
<1>3. Levels'
  BY DEF HooksInv, Levels, EachSkip
<1>4. Copied'
  BY DEF HooksInv, Copied, Patched, EachSkip
<1>5. ~overlap' => Quiet'
  BY DEF HooksInv, Quiet, Removing, EachSkip, past
<1>6. ~overlap' => InstallingAlone'
  BY DEF HooksInv, InstallingAlone, Installing, Patched, Present, EachSkip, past
<1>7. ~overlap' => OriginalIsCallable'
  BY DEF HooksInv, OriginalIsCallable, EachSkip, past
<1>8. Undisturbed' => OnRecord'
  BY Rest
     DEF Cast, HooksInv, RecordTypes, InstallingAlone, Installing, Patched, Installable,
         Undisturbed, OnRecord, InHook, EachSkip, past
<1>9. Undisturbed' => Removal'
  BY DEF Cast, HooksInv, Quiet, Removing, Undisturbed, Removal, EachSkip, past
<1>10. Undisturbed' => Lifted'
  BY DEF HooksInv, Undisturbed, Lifted, Lifting, EachSkip, past
<1> QED
  BY <1>1, <1>2, <1>3, <1>4, <1>5, <1>6, <1>7, <1>8, <1>9, <1>10 DEF HooksInv

\* A hook of the import tables is written into every importer loaded.
LEMMA EachTablesMoves ==
  ASSUME Cast, BoundsTyped, HooksInv, NEW a \in Actor, EachTables(a)
  PROVE  HooksInv'
<1>1. RecordTypes'
  <2>1. slot' \in [Importer -> {"own", "hook"}] /\ tracked' \subseteq Importer
    BY DEF HooksInv, RecordTypes, EachTables
  <2>2. /\ code' \in [Hook -> {"own", "jump"}] /\ freed' \subseteq DOMAIN gates /\ gates' = gates
    BY DEF HooksInv, RecordTypes, EachTables
  <2>3. installed' \in [Hook -> BOOLEAN] /\ target' \in [Hook -> BOOLEAN] /\ failed' \in BOOLEAN
    BY Rest DEF Cast, HooksInv, RecordTypes, FlowTypes, EachTables, Failing
  <2> QED
    BY <2>1, <2>2, <2>3 DEF HooksInv, RecordTypes, EachTables
<1>2. FlowTypes'
  BY DEF HooksInv, FlowTypes, EachTables
<1>3. Levels'
  BY DEF HooksInv, Levels, EachTables
<1>4. Copied'
  BY DEF HooksInv, RecordTypes, Copied, Patched, EachTables
<1>5. ~overlap' => Quiet'
  BY DEF HooksInv, Quiet, Removing, EachTables
<1>6. ~overlap' => InstallingAlone'
  BY DEF Cast, HooksInv, RecordTypes, InstallingAlone, Installing, Patched, Present, EachTables
<1>7. ~overlap' => OriginalIsCallable'
  BY DEF HooksInv, OriginalIsCallable, EachTables
<1>8. Undisturbed' => OnRecord'
  BY DEF Cast, HooksInv, RecordTypes, InstallingAlone, Installing, Patched, Installable,
         Undisturbed, OnRecord, InHook, EachTables
<1>9. Undisturbed' => Removal'
  BY DEF Cast, HooksInv, RecordTypes, Levels, InCall, Quiet, Removing, Undisturbed, OnRecord,
         InHook, Removal, EachTables
<1>10. Undisturbed' => Lifted'
  BY DEF Cast, HooksInv, RecordTypes, Patched, Undisturbed, Lifted, Lifting, EachTables
<1> QED
  BY <1>1, <1>2, <1>3, <1>4, <1>5, <1>6, <1>7, <1>8, <1>9, <1>10 DEF HooksInv

\* The installation of an inline hook begins.
LEMMA EachInlineMoves ==
  ASSUME Cast, BoundsTyped, HooksInv, NEW a \in Actor, EachInline(a)
  PROVE  HooksInv'
<1>1. RecordTypes'
  BY DEF HooksInv, RecordTypes, FlowTypes, EachInline, tables
<1>2. FlowTypes'
  BY DEF HooksInv, FlowTypes, Places, InCall, EachInline, GoTo
<1>3. Levels'
  BY DEF HooksInv, Levels, InCall, EachInline, GoTo
<1>4. Copied'
  BY DEF HooksInv, Copied, Patched, EachInline, GoTo
<1>5. ~overlap' => Quiet'
  BY DEF HooksInv, RecordTypes, Quiet, Removing, EachInline, GoTo
<1>6. ~overlap' => InstallingAlone'
  <2>1. ASSUME ~overlap' PROVE InstallingAlone'
    <3> DEFINE k == Head(todo[a])
    <3>1. /\ at[a] = "each" /\ k \in Hook /\ ~overlap /\ Installable(k) /\ ~Patched(k)
          /\ \A b \in Actor : ~Installing(b, k)
      BY <2>1, Rest DEF HooksInv, FlowTypes, EachInline
    <3>2. /\ at' = [at EXCEPT ![a] = "copy"]
          /\ UNCHANGED <<method, code, installed, loaded, todo>>
      BY DEF EachInline, GoTo
    <3> HIDE DEF k
    <3>3. \A b \in Actor, h \in Hook : Installing(b, h)' => Installing(b, h) \/ (b = a /\ h = k)
      BY <3>2 DEF Installing, k
    <3> QED
      BY <2>1, <3>1, <3>2, <3>3 DEF HooksInv, InstallingAlone, Installable, Patched, Present
  <2> QED
    BY <2>1
<1>7. ~overlap' => OriginalIsCallable'
  BY DEF HooksInv, RecordTypes, OriginalIsCallable, EachInline
<1>8. Undisturbed' => OnRecord'
  BY DEF HooksInv, RecordTypes, Installing, Patched, Undisturbed, OnRecord, InHook,
         EachInline, GoTo, tables
<1>9. Undisturbed' => Removal'
  BY DEF Cast, HooksInv, RecordTypes, Removing, Undisturbed, OnRecord, Removal, EachInline,
         GoTo, tables
<1>10. Undisturbed' => Lifted'
  BY DEF HooksInv, RecordTypes, Undisturbed, Lifted, Lifting, Rewritten, EachInline, GoTo
<1> QED
  BY <1>1, <1>2, <1>3, <1>4, <1>5, <1>6, <1>7, <1>8, <1>9, <1>10 DEF HooksInv

\* The bytes are saved and copied into a trampoline, ...
LEMMA CopyMoves ==
  ASSUME Cast, BoundsTyped, HooksInv, NEW a \in Actor, Copy(a)
  PROVE  HooksInv'
<1>1. RecordTypes'
  <2>1. Head(todo[a]) \in Hook /\ code[Head(todo[a])] \in {"own", "jump"}
    BY DEF HooksInv, RecordTypes, FlowTypes, Levels, Copy
  <2>2. /\ gates \in Seq({"own", "jump"}) /\ gates' \in Seq({"own", "jump"})
        /\ Len(gates) \in Nat /\ Len(gates') = Len(gates) + 1
    BY <2>1, AppendProperties DEF HooksInv, RecordTypes, Copy
  <2>3. Len(gates') <= GateMax /\ 0..Len(gates) \subseteq 0..Len(gates')
          /\ DOMAIN gates \subseteq DOMAIN gates'
    BY <2>2 DEF BoundsTyped, Copy
  <2>4. saved' \in [Hook -> {"none", "own", "jump"}]
    BY <2>1 DEF HooksInv, RecordTypes, Copy
  <2>5. gate' \in [Hook -> 0..Len(gates')] /\ freed' \subseteq DOMAIN gates'
    BY <2>2, <2>3 DEF HooksInv, RecordTypes, Copy
  <2> QED
    BY <2>2, <2>3, <2>4, <2>5 DEF HooksInv, RecordTypes, Copy, tables, past
<1>2. FlowTypes'
  BY DEF HooksInv, FlowTypes, Places, InCall, Copy, GoTo
<1>3. Levels'
  BY DEF HooksInv, Levels, InCall, Copy, GoTo
<1>4. Copied'
  BY DEF Cast, HooksInv, RecordTypes, FlowTypes, Levels, Copied, Patched, Copy, GoTo
<1>5. ~overlap' => Quiet'
  BY DEF HooksInv, Quiet, Removing, Copy, GoTo, past
<1>6. ~overlap' => InstallingAlone'
  BY DEF HooksInv, InstallingAlone, Installing, Patched, Present, Copy, GoTo, past
<1>7. ~overlap' => OriginalIsCallable'
  BY DEF HooksInv, FlowTypes, Levels, InstallingAlone, Installing, OriginalIsCallable, Copy,
         past
<1>8. Undisturbed' => OnRecord'
  BY DEF HooksInv, Installing, Patched, Undisturbed, OnRecord, InHook, Copy, GoTo, tables, past
<1>9. Undisturbed' => Removal'
  BY DEF HooksInv, Removing, Patched, Undisturbed, Removal, Copy, GoTo, tables, past
<1>10. Undisturbed' => Lifted'
  BY DEF HooksInv, Undisturbed, Lifted, Lifting, Rewritten, Copy, GoTo, past
<1> QED
  BY <1>1, <1>2, <1>3, <1>4, <1>5, <1>6, <1>7, <1>8, <1>9, <1>10 DEF HooksInv

\* ... or there is no memory for one.
LEMMA CopyFailsMoves ==
  ASSUME Cast, BoundsTyped, HooksInv, NEW a \in Actor, CopyFails(a)
  PROVE  HooksInv'
<1>1. RecordTypes'
  BY Rest DEF Cast, HooksInv, RecordTypes, FlowTypes, Levels, CopyFails, tables
<1>2. FlowTypes'
  BY DEF HooksInv, FlowTypes, Levels, Places, InCall, CopyFails, GoTo
<1>3. Levels'
  BY DEF HooksInv, FlowTypes, Levels, InCall, CopyFails, GoTo
<1>4. Copied'
  BY DEF HooksInv, Copied, Patched, CopyFails, GoTo
<1>5. ~overlap' => Quiet'
  BY DEF HooksInv, Quiet, Removing, CopyFails, GoTo
<1>6. ~overlap' => InstallingAlone'
  BY DEF Cast, HooksInv, FlowTypes, InstallingAlone, Installing, Patched, Present, CopyFails,
         GoTo
<1>7. ~overlap' => OriginalIsCallable'
  BY DEF HooksInv, OriginalIsCallable, CopyFails
<1>8. Undisturbed' => OnRecord'
  BY DEF Undisturbed, CopyFails
<1>9. Undisturbed' => Removal'
  BY DEF Undisturbed, CopyFails
<1>10. Undisturbed' => Lifted'
  BY DEF Undisturbed, CopyFails
<1> QED
  BY <1>1, <1>2, <1>3, <1>4, <1>5, <1>6, <1>7, <1>8, <1>9, <1>10 DEF HooksInv

\* The jump is written and the hook is installed, or the protection is refused.
LEMMA PatchMoves ==
  ASSUME Cast, BoundsTyped, HooksInv, NEW a \in Actor, Patch(a)
  PROVE  HooksInv'
<1>1. RecordTypes'
  BY DEF HooksInv, RecordTypes, FlowTypes, Levels, Patch, tables, past
<1>2. FlowTypes'
  BY DEF HooksInv, FlowTypes, Levels, Places, InCall, Patch, GoTo
<1>3. Levels'
  BY DEF HooksInv, FlowTypes, Levels, InCall, Patch, GoTo
<1>4. Copied'
  BY DEF HooksInv, FlowTypes, Copied, Patched, Patch, GoTo
<1>5. ~overlap' => Quiet'
  BY DEF HooksInv, Quiet, Removing, Patch, GoTo, past
<1>6. ~overlap' => InstallingAlone'
  <2>0. /\ at[a] = "patch" /\ todo[a] \in Seq(Hook) /\ todo[a] # <<>> /\ Head(todo[a]) \in Hook
        /\ at' = [at EXCEPT ![a] = "each"] /\ at \in [Actor -> Places]
        /\ todo' = [todo EXCEPT ![a] = Tail(@)] /\ todo \in [Actor -> Seq(Hook)]
    BY DEF HooksInv, FlowTypes, Levels, Patch, GoTo
  <2>1. /\ Installing(a, Head(todo[a])) /\ at'[a] = "each"
        /\ \A b \in Actor \ {a} : at'[b] = at[b] /\ todo'[b] = todo[b]
    BY <2>0 DEF Installing
  <2>2. /\ \A h \in Hook \ {Head(todo[a])} : installed'[h] = installed[h] /\ code'[h] = code[h]
        /\ UNCHANGED <<overlap, method, loaded>>
    BY DEF HooksInv, RecordTypes, Patch, past
  <2>3. ASSUME ~overlap, NEW b \in Actor, NEW h \in Hook, Installing(b, h)'
        PROVE  Installing(b, h) /\ b # a /\ h # Head(todo[a])
    BY <2>0, <2>1, <2>3 DEF HooksInv, InstallingAlone, Installing
  <2> QED
    BY <2>0, <2>1, <2>2, <2>3 DEF HooksInv, InstallingAlone, Patched, Present
<1>7. ~overlap' => OriginalIsCallable'
  BY DEF HooksInv, OriginalIsCallable, Patch, past
<1>8. Undisturbed' => OnRecord'
  BY DEF Cast, HooksInv, RecordTypes, FlowTypes, Levels, InstallingAlone, Installing,
         Patched, Undisturbed, OnRecord, InHook, Patch, GoTo, tables, past
<1>9. Undisturbed' => Removal'
  BY DEF Cast, HooksInv, Levels, InCall, Quiet, Removing, Undisturbed, OnRecord, InHook,
         Removal, Patch, GoTo, past
<1>10. Undisturbed' => Lifted'
  BY DEF HooksInv, RecordTypes, Undisturbed, Lifted, Lifting, Rewritten, Patch, GoTo, past
<1> QED
  BY <1>1, <1>2, <1>3, <1>4, <1>5, <1>6, <1>7, <1>8, <1>9, <1>10 DEF HooksInv

\* The controller sets the callback and goes through the manifest, ...
LEMMA SetHooksMoves ==
  ASSUME Cast, BoundsTyped, HooksInv, SetHooks
  PROVE  HooksInv'
<1>a. /\ at[Owner] = "idle" /\ ~active /\ active' = TRUE /\ at' = [at EXCEPT ![Owner] = "each"]
      /\ todo' \in [Actor -> Seq(Hook)] /\ \A t \in Thread : todo'[t] = todo[t]
      /\ UNCHANGED <<method, hooks, tables, loaded, item, level, via, past>>
  BY DEF Cast, HooksInv, FlowTypes, SetHooks, GoTo
<1>1. RecordTypes'
  BY <1>a DEF HooksInv, RecordTypes, hooks, tables, past
<1>2. FlowTypes'
  BY <1>a DEF Cast, HooksInv, FlowTypes, Places, InCall, hooks
<1>3. Levels'
  BY <1>a DEF Cast, HooksInv, Levels
<1>4. Copied'
  BY <1>a DEF Cast, HooksInv, Copied, Patched, hooks
<1>5. ~overlap' => Quiet'
  BY <1>a DEF Quiet, Removing
<1>6. ~overlap' => InstallingAlone'
  BY <1>a
     DEF Cast, HooksInv, FlowTypes, InstallingAlone, Installing, Patched, Present, hooks,
         past
<1>7. ~overlap' => OriginalIsCallable'
  BY <1>a DEF HooksInv, OriginalIsCallable, hooks, past
<1>8. Undisturbed' => OnRecord'
  BY <1>a
     DEF Cast, HooksInv, Installing, Undisturbed, OnRecord, InHook, Removal, hooks,
         tables, past
<1>9. Undisturbed' => Removal'
  BY <1>a DEF Removing, Removal
<1>10. Undisturbed' => Lifted'
  BY <1>a DEF Cast, HooksInv, Undisturbed, Lifted, Lifting, hooks, past
<1> QED
  BY <1>1, <1>2, <1>3, <1>4, <1>5, <1>6, <1>7, <1>8, <1>9, <1>10 DEF HooksInv

\* ... and is through with it.
LEMMA SetDoneMoves ==
  ASSUME Cast, BoundsTyped, HooksInv, SetDone
  PROVE  HooksInv'
<1>1. RecordTypes'
  BY DEF HooksInv, RecordTypes, SetDone, hooks, tables, past
<1>2. FlowTypes'
  BY DEF Cast, HooksInv, FlowTypes, Places, SetDone, GoTo, hooks
<1>3. Levels'
  BY DEF Cast, HooksInv, FlowTypes, Levels, SetDone, GoTo
<1>4. Copied'
  BY DEF HooksInv, Copied, Patched, SetDone, GoTo, hooks
<1>5. ~overlap' => Quiet'
  BY DEF Quiet, Removing, SetDone, GoTo
<1>6. ~overlap' => InstallingAlone'
  BY DEF HooksInv, InstallingAlone, Installing, Patched, Present, SetDone, GoTo, hooks, past
<1>7. ~overlap' => OriginalIsCallable'
  BY DEF HooksInv, OriginalIsCallable, SetDone, hooks, past
<1>8. Undisturbed' => OnRecord'
  BY DEF HooksInv, Installing, Patched, Undisturbed, OnRecord, InHook, SetDone, GoTo, hooks,
         tables, past
<1>9. Undisturbed' => Removal'
  BY DEF Removing, Removal, SetDone, GoTo, hooks
<1>10. Undisturbed' => Lifted'
  BY DEF HooksInv, Undisturbed, Lifted, Lifting, Rewritten, SetDone, GoTo, hooks, past
<1> QED
  BY <1>1, <1>2, <1>3, <1>4, <1>5, <1>6, <1>7, <1>8, <1>9, <1>10 DEF HooksInv

\* The removal begins,
LEMMA RemoveMoves ==
  ASSUME Cast, BoundsTyped, HooksInv, Remove
  PROVE  HooksInv'
<1>a. /\ at[Owner] = "idle" /\ active /\ at' = [at EXCEPT ![Owner] = "remove"]
      /\ todo' \in [Actor -> Seq(Hook)] /\ \A t \in Thread : todo'[t] = todo[t]
      /\ overlap' = (overlap \/ \E t \in Thread : at[t] # "idle")
      /\ UNCHANGED <<active, method, hooks, tables, loaded, item, level, via, failed>>
  BY DEF Cast, HooksInv, FlowTypes, Remove, GoTo
<1>b. \A h \in Hook : \E i \in DOMAIN todo'[Owner] : todo'[Owner][i] = h
  <2>1. todo'[Owner] = <<"load", "scan">>
    BY DEF Cast, HooksInv, FlowTypes, Remove
  <2>2. /\ 1 \in DOMAIN todo'[Owner] /\ todo'[Owner][1] = "load"
        /\ 2 \in DOMAIN todo'[Owner] /\ todo'[Owner][2] = "scan"
    BY <2>1
  <2> QED
    BY <2>2 DEF Cast
<1>1. RecordTypes'
  BY <1>a, <1>b DEF HooksInv, RecordTypes, hooks, tables
<1>2. FlowTypes'
  BY <1>a, <1>b DEF Cast, HooksInv, FlowTypes, Places, hooks
<1>3. Levels'
  BY <1>a, <1>b DEF Cast, HooksInv, Levels
<1>4. Copied'
  BY <1>a, <1>b DEF Cast, HooksInv, Copied, Patched, hooks
<1>5. ~overlap' => Quiet'
  <2>1. \A t \in Thread : at'[t] = at[t] /\ level'[t] = level[t]
    BY <1>a DEF Cast, HooksInv, FlowTypes
  <2>2. \A t \in Thread : at[t] = "idle" => level[t] = <<>>
    BY DEF Cast, HooksInv, FlowTypes, Levels
  <2> QED
    BY <1>a, <2>1, <2>2 DEF Quiet
<1>6. ~overlap' => InstallingAlone'
  <2>1. \A b \in Actor, h \in Hook : ~overlap' /\ Installing(b, h)' => FALSE
    BY <1>a DEF Cast, HooksInv, FlowTypes, Installing
  <2> QED
    BY <2>1 DEF InstallingAlone
<1>7. ~overlap' => OriginalIsCallable'
  BY <1>a, <1>b DEF HooksInv, RecordTypes, OriginalIsCallable, hooks
<1>8. Undisturbed' => OnRecord'
  BY <1>a, <1>b
     DEF Cast, HooksInv, RecordTypes, FlowTypes, Installing, Patched, Undisturbed,
         OnRecord, InHook, hooks, tables
<1>9. Undisturbed' => Removal'
  BY <1>a, <1>b DEF Removal
<1>10. Undisturbed' => Lifted'
  BY <1>a, <1>b DEF HooksInv, RecordTypes, Undisturbed, Lifted, Lifting, Rewritten, hooks
<1> QED
  BY <1>1, <1>2, <1>3, <1>4, <1>5, <1>6, <1>7, <1>8, <1>9, <1>10 DEF HooksInv

\* passes over what is not installed,
LEMMA RemoveSkipMoves ==
  ASSUME Cast, BoundsTyped, HooksInv, RemoveSkip
  PROVE  HooksInv'
<1>a. /\ at[Owner] = "remove" /\ todo[Owner] # <<>> /\ todo[Owner] \in Seq(Hook)
      /\ ~(installed[Head(todo[Owner])] /\ target[Head(todo[Owner])])
      /\ todo' = [todo EXCEPT ![Owner] = Tail(todo[Owner])] /\ todo'[Owner] = Tail(todo[Owner])
      /\ \A t \in Thread : todo'[t] = todo[t]
      /\ UNCHANGED <<active, method, hooks, tables, loaded, at, item, level, via, past>>
  BY DEF Cast, HooksInv, FlowTypes, RemoveSkip
<1>b. /\ Head(todo[Owner]) \in Hook /\ Tail(todo[Owner]) \in Seq(Hook)
      /\ \A h \in Hook \ {Head(todo[Owner])} : (\E i \in DOMAIN todo[Owner] :
         todo[Owner][i] = h) =>
           \E i \in DOMAIN todo'[Owner] : todo'[Owner][i] = h
  BY <1>a, Rest
<1>1. RecordTypes'
  BY <1>a, <1>b DEF HooksInv, RecordTypes, hooks, tables, past
<1>2. FlowTypes'
  BY <1>a, <1>b DEF Cast, HooksInv, FlowTypes, hooks
<1>3. Levels'
  BY <1>a, <1>b DEF HooksInv, Levels
<1>4. Copied'
  BY <1>a, <1>b DEF HooksInv, Copied, Patched, hooks
<1>5. ~overlap' => Quiet'
  BY <1>a, <1>b DEF HooksInv, Quiet, Removing, past
<1>6. ~overlap' => InstallingAlone'
  BY <1>a, <1>b DEF HooksInv, InstallingAlone, Installing, Patched, Present, hooks, past
<1>7. ~overlap' => OriginalIsCallable'
  BY <1>a, <1>b DEF HooksInv, OriginalIsCallable, hooks, past
<1>8. Undisturbed' => OnRecord'
  BY <1>a, <1>b
     DEF HooksInv, Installing, Patched, Undisturbed, OnRecord, InHook, hooks, tables, past
<1>9. Undisturbed' => Removal'
  <2>1. ASSUME Undisturbed' PROVE Removal'
    <3>1. Undisturbed /\ ~overlap
      BY <1>a, <2>1 DEF Undisturbed, past
    <3>2. ~installed[Head(todo[Owner])]
      BY <1>a, <1>b, <3>1 DEF HooksInv, OnRecord
    <3>3. \A h \in Hook : installed[h] => \E i \in DOMAIN todo'[Owner] : todo'[Owner][i] = h
      BY <1>a, <1>b, <3>1, <3>2 DEF HooksInv, Removal, Removing
    <3> QED
      BY <1>a, <3>1, <3>3 DEF HooksInv, Removal, hooks
  <2> QED
    BY <2>1
<1>10. Undisturbed' => Lifted'
  BY <1>a, <1>b DEF HooksInv, Undisturbed, Lifted, Lifting, hooks, past
<1> QED
  BY <1>1, <1>2, <1>3, <1>4, <1>5, <1>6, <1>7, <1>8, <1>9, <1>10 DEF HooksInv

\* writes the bytes or the import tables back,
LEMMA RemoveBytesMoves ==
  ASSUME Cast, BoundsTyped, HooksInv, RemoveBytes
  PROVE  HooksInv'
<1>1. RecordTypes'
  <2>1. slot' \in [Importer -> {"own", "hook"}] /\ tracked' \subseteq Importer
    BY DEF HooksInv, RecordTypes, RemoveBytes, tables
  <2>2. /\ code' \in [Hook -> {"own", "jump"}] /\ freed' \subseteq DOMAIN gates /\ gates' = gates
    BY DEF Cast, HooksInv, RecordTypes, FlowTypes, RemoveBytes, Copied
  <2>3. installed' \in [Hook -> BOOLEAN] /\ target' \in [Hook -> BOOLEAN] /\ failed' \in BOOLEAN
    BY Rest DEF Cast, HooksInv, RecordTypes, FlowTypes, RemoveBytes, Failing
  <2> QED
    BY <2>1, <2>2, <2>3 DEF HooksInv, RecordTypes, RemoveBytes
<1>2. FlowTypes'
  BY DEF Cast, HooksInv, FlowTypes, Places, RemoveBytes, GoTo
<1>3. Levels'
  BY DEF HooksInv, Levels, RemoveBytes, GoTo
<1>4. Copied'
  BY DEF HooksInv, Copied, Patched, RemoveBytes, GoTo
<1>5. ~overlap' => Quiet'
  BY DEF HooksInv, Quiet, Removing, RemoveBytes, GoTo
<1>6. ~overlap' => InstallingAlone'
  BY DEF Cast, HooksInv, RecordTypes, InstallingAlone, Installing, Patched, Present,
         RemoveBytes, GoTo
<1>7. ~overlap' => OriginalIsCallable'
  BY DEF HooksInv, OriginalIsCallable, RemoveBytes
<1>8. Undisturbed' => OnRecord'
  BY DEF HooksInv, RecordTypes, Installing, Patched, Undisturbed, OnRecord, InHook,
         RemoveBytes, GoTo, tables
<1>9. Undisturbed' => Removal'
  BY DEF Cast, HooksInv, RecordTypes, FlowTypes, Removing, Patched, Undisturbed, OnRecord,
         Removal, OriginalIsCallable, Copied, RemoveBytes
<1>10. Undisturbed' => Lifted'
  BY DEF Cast, HooksInv, RecordTypes, FlowTypes, Undisturbed, Lifted, Lifting, RemoveBytes,
         GoTo
<1> QED
  BY <1>1, <1>2, <1>3, <1>4, <1>5, <1>6, <1>7, <1>8, <1>9, <1>10 DEF HooksInv

\* clears the record of the hook,
LEMMA RemoveRecordMoves ==
  ASSUME Cast, BoundsTyped, HooksInv, RemoveRecord
  PROVE  HooksInv'
<1>a. /\ at[Owner] = "clear" /\ todo[Owner] # <<>> /\ todo[Owner] \in Seq(Hook)
      /\ todo'[Owner] = Tail(todo[Owner])
  BY DEF Cast, HooksInv, FlowTypes, Levels, RemoveRecord
<1>b. /\ Head(todo[Owner]) \in Hook /\ Tail(todo[Owner]) \in Seq(Hook)
      /\ \A h \in Hook \ {Head(todo[Owner])} : (\E i \in DOMAIN todo[Owner] :
         todo[Owner][i] = h) =>
           \E i \in DOMAIN todo'[Owner] : todo'[Owner][i] = h
  BY <1>a, Rest
<1>1. RecordTypes'
  BY <1>a, <1>b DEF Cast, BoundsTyped, HooksInv, RecordTypes, RemoveRecord, tables, past
<1>2. FlowTypes'
  BY <1>a, <1>b DEF Cast, BoundsTyped, HooksInv, FlowTypes, Places, RemoveRecord, GoTo
<1>3. Levels'
  BY <1>a, <1>b DEF Cast, HooksInv, FlowTypes, Levels, RemoveRecord, GoTo
<1>4. Copied'
  BY <1>a, <1>b DEF HooksInv, Copied, Patched, RemoveRecord, GoTo
<1>5. ~overlap' => Quiet'
  BY <1>a, <1>b DEF HooksInv, Quiet, Removing, RemoveRecord, GoTo, past
<1>6. ~overlap' => InstallingAlone'
  BY <1>a, <1>b
     DEF HooksInv, InstallingAlone, Installing, Patched, Present, RemoveRecord, GoTo, past
<1>7. ~overlap' => OriginalIsCallable'
  BY <1>a, <1>b DEF HooksInv, OriginalIsCallable, RemoveRecord, past
<1>8. Undisturbed' => OnRecord'
  BY <1>a, <1>b
     DEF Cast, HooksInv, RecordTypes, Levels, InCall, Quiet, Removing, InstallingAlone,
         Installing, Patched, Present, Undisturbed, OnRecord, InHook, OriginalIsCallable,
         Removal, RemoveRecord, GoTo, tables, past
<1>9. Undisturbed' => Removal'
  <2>1. ASSUME Undisturbed' PROVE Removal'
    <3>1. Undisturbed
      BY <2>1 DEF Undisturbed, RemoveRecord, past
    <3>2. /\ at'[Owner] = "remove" /\ active' = active /\ active
          /\ installed' = [installed EXCEPT ![Head(todo[Owner])] = FALSE]
      BY <1>a DEF Cast, HooksInv, FlowTypes, Levels, RemoveRecord, GoTo
    <3>3. \A h \in Hook : installed'[h] => installed[h] /\ h # Head(todo[Owner])
      BY <1>b, <3>2 DEF HooksInv, RecordTypes
    <3>4. \A h \in Hook : installed'[h] => \E i \in DOMAIN todo'[Owner] : todo'[Owner][i] = h
      BY <1>a, <1>b, <3>1, <3>3 DEF HooksInv, Removal, Removing
    <3> QED
      BY <3>2, <3>4 DEF Removal
  <2> QED
    BY <2>1
<1>10. Undisturbed' => Lifted'
  BY <1>a, <1>b
     DEF HooksInv, RecordTypes, Undisturbed, Lifted, Lifting, Rewritten, RemoveRecord,
         GoTo, past
<1> QED
  BY <1>1, <1>2, <1>3, <1>4, <1>5, <1>6, <1>7, <1>8, <1>9, <1>10 DEF HooksInv

\* and ends with the callback cleared.
LEMMA RemoveDoneMoves ==
  ASSUME Cast, BoundsTyped, HooksInv, RemoveDone
  PROVE  HooksInv'
<1>1. RecordTypes'
  BY Rest
     DEF Cast, BoundsTyped, HooksInv, RecordTypes, FlowTypes, Levels, Places, InCall,
         RemoveDone, GoTo, hooks, tables, flow, past
<1>2. FlowTypes'
  BY DEF Cast, HooksInv, FlowTypes, Places, RemoveDone, GoTo, hooks
<1>3. Levels'
  BY DEF Cast, HooksInv, FlowTypes, Levels, RemoveDone, GoTo
<1>4. Copied'
  BY DEF HooksInv, Copied, Patched, RemoveDone, GoTo, hooks
<1>5. ~overlap' => Quiet'
  BY DEF Cast, HooksInv, FlowTypes, Quiet, Removing, RemoveDone, GoTo
<1>6. ~overlap' => InstallingAlone'
  BY DEF Cast, HooksInv, InstallingAlone, Installing, Patched, Present, RemoveDone, GoTo,
         hooks, past
<1>7. ~overlap' => OriginalIsCallable'
  BY DEF HooksInv, OriginalIsCallable, RemoveDone, hooks, past
<1>8. Undisturbed' => OnRecord'
  BY DEF HooksInv, Installing, Patched, Undisturbed, OnRecord, InHook, RemoveDone, GoTo,
         hooks, tables, past
<1>9. Undisturbed' => Removal'
  BY DEF HooksInv, Removing, Undisturbed, Removal, RemoveDone, GoTo, hooks, past
<1>10. Undisturbed' => Lifted'
  BY DEF HooksInv, Undisturbed, Lifted, Lifting, Rewritten, RemoveDone, GoTo, hooks, past
<1> QED
  BY <1>1, <1>2, <1>3, <1>4, <1>5, <1>6, <1>7, <1>8, <1>9, <1>10 DEF HooksInv

-----------------------------------------------------------------------------
(* The invariant holds.                                                     *)

\* Nothing is hooked at first.
LEMMA HooksInit ==
  ASSUME Cast, BoundsTyped, Init
  PROVE  HooksInv
<1>1. gates = <<>> /\ gates \in Seq({"own", "jump"}) /\ Len(gates) = 0 /\ DOMAIN gates = {}
  BY DEF Init
<1>2. RecordTypes
  <2>1. active \in BOOLEAN /\ overlap \in BOOLEAN /\ failed \in BOOLEAN /\ method \in Methods
    BY DEF Init
  <2>2. /\ code \in [Hook -> {"own", "jump"}] /\ saved \in [Hook -> {"none", "own", "jump"}]
        /\ installed \in [Hook -> BOOLEAN] /\ target \in [Hook -> BOOLEAN]
    BY DEF Init
  <2>3. Len(gates) <= GateMax /\ gate \in [Hook -> 0..Len(gates)] /\ freed \subseteq DOMAIN gates
    BY <1>1 DEF BoundsTyped, Init
  <2>4. slot \in [Importer -> {"own", "hook"}] /\ tracked \subseteq Importer
          /\ loaded \subseteq Module
    BY DEF Init
  <2> QED
    BY <1>1, <2>1, <2>2, <2>3, <2>4 DEF RecordTypes
<1>3. FlowTypes
  BY <1>1 DEF Cast, BoundsTyped, Init, FlowTypes, Places
<1>4. Levels /\ Copied
  BY DEF Cast, Init, Levels, Copied, InCall
<1>5. Quiet /\ InstallingAlone /\ OriginalIsCallable
  BY DEF Cast, Init, Quiet, InstallingAlone, Installing, OriginalIsCallable
<1>6. OnRecord /\ Removal /\ Lifted
  BY DEF Cast, Init, OnRecord, Installing, InHook, Removal, Lifted
<1> QED
  BY <1>2, <1>3, <1>4, <1>5, <1>6 DEF HooksInv

\* A step of nobody changes nothing.
LEMMA HooksStutter ==
  ASSUME Cast, BoundsTyped, HooksInv, UNCHANGED vars
  PROVE  HooksInv'
BY DEF HooksInv, RecordTypes, FlowTypes, Levels, Copied, Quiet, Removing, InstallingAlone,
       Installing, Present, Patched, OriginalIsCallable, Undisturbed, OnRecord, InHook,
       Removal, Lifted, Lifting, vars, hooks, tables, flow, past

\* Every step of the loading threads and of the controller keeps the invariant.
LEMMA HooksStep ==
  ASSUME Cast, BoundsTyped, HooksInv, [Next]_vars
  PROVE  HooksInv'
<1>1. ASSUME NEW t \in Thread, Enter(t) \/ Wrapper(t) PROVE HooksInv'
  BY <1>1, EnterOwn, EnterTooDeep, EnterHooked, WrapperReturns, WrapperCalls
<1>2. ASSUME NEW t \in Thread, Restore(t) PROVE HooksInv'
  BY <1>2, RestoreLifts, RestoreFails
<1>3. ASSUME NEW t \in Thread, Reinstall(t) PROVE HooksInv'
  <2>1. CASE installed["load"] /\ code' = [code EXCEPT !["load"] = "jump"]
    BY <1>3, <2>1, ReinstallWrites
  <2>2. CASE UNCHANGED code /\ (failed' \/ ~(installed["load"] /\ target["load"]))
    BY <1>3, <2>2, ReinstallFails
  <2> QED
    BY <1>3, <2>1, <2>2 DEF Reinstall, Failing
<1>4. ASSUME NEW t \in Thread, LoaderStep(t) PROVE HooksInv'
  BY <1>1, <1>2, <1>3, <1>4, CallMoves, GateMoves, OriginalMoves, PublishMoves, ReportMoves,
     LeaveMoves
     DEF LoaderStep
<1>5. ASSUME NEW a \in Actor, InstallStep(a) PROVE HooksInv'
  BY <1>5, EachSkipMoves, EachTablesMoves, EachInlineMoves, CopyMoves, CopyFailsMoves,
     PatchMoves
     DEF InstallStep
<1>6. ASSUME OwnerStep PROVE HooksInv'
  BY <1>6, SetHooksMoves, SetDoneMoves, RemoveMoves, RemoveSkipMoves, RemoveBytesMoves,
     RemoveRecordMoves, RemoveDoneMoves
     DEF OwnerStep
<1> QED
  BY <1>4, <1>5, <1>6, HooksStutter DEF Next

\* The invariant says what the run's type invariant says,
LEMMA HooksTyped == HooksInv => TypeOK
BY DEF HooksInv, RecordTypes, FlowTypes, TypeOK

\* that a lifted jump comes back,
LEMMA HooksBack ==
  ASSUME Cast, HooksInv
  PROVE  JumpComesBack
BY DEF Cast, HooksInv, RecordTypes, JumpComesBack, Lifted, Lifting, Borrowing

\* that the original can be called,
LEMMA HooksCallable == HooksInv => OriginalIsCallable
BY DEF HooksInv, OriginalIsCallable

\* and that nothing is left of a removed hook.
LEMMA HooksGone ==
  ASSUME Cast, HooksInv
  PROVE  RemovedWithoutTrace
<1> SUFFICES ASSUME Undisturbed, ~active
             PROVE  (\A h \in Hook : code[h] = "own") /\ (\A m \in Importer : slot[m] = "own")
  BY DEF RemovedWithoutTrace
<1>1. OnRecord /\ \A h \in Hook : ~installed[h]
  BY DEF HooksInv, Removal
<1>2. \A h \in Hook : code[h] = "own"
  BY <1>1 DEF HooksInv, RecordTypes, OnRecord
<1>3. tracked = {}
  BY <1>1 DEF Cast, OnRecord
<1> QED
  BY <1>1, <1>2, <1>3 DEF HooksInv, RecordTypes, OnRecord

=============================================================================
