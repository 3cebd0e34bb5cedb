----------------------------- MODULE WinsockHooks -----------------------------
(***************************************************************************)
(* The hooks on Winsock and DNS functions (src/DLL/hooks/ws.cpp), in the   *)
(* build the project ships (BLIND_STANDALONE, BLIND.vcxproj 51).           *)
(*                                                                         *)
(* A behaviour exercises one of the ten functions (fn).  It is hooked      *)
(* twice: in the import table of every loaded module and by a jump over    *)
(* its first bytes.  A wrapper reports before or after the call, behind    *)
(* one mark for the whole process (g_InHook), and calls the original with  *)
(* the jump lifted.  Any number of threads may lift it; nobody counts      *)
(* them.  Only the two halves of lifting run under a lock; installing, by  *)
(* the event loop and by the loader hook, and removing take none.          *)
(***************************************************************************)
EXTENDS Naturals, SequencesExt

CONSTANTS Client,      \* threads of the program that call the function
          Early, Late, \* importing modules: loaded at start-up, or later
          Exercised,   \* the functions that are exercised
          Lengths,     \* the lengths of the buffers a call may pass
          BufferMax,   \* bound: buffers of a call
          SockCallMax, \* bound: calls of the program
          WrapMax      \* wrappers inside one another that the stack has room for

VARIABLES
  fn,         \* the function this behaviour exercises
  told,       \* g_ActiveCallback is set
  hooked,     \* g_HooksInstalled
  mark,       \* g_InHook
  bytes,      \* the function's first bytes
  patch,      \* its entry in g_InlinePatchSlots
  original,   \* g_Original...: None, Export, or Gate for the trampoline
  import,     \* the import in each module: Hook, Export or Gate
  remembered, \* g_PatchedSlots: the import's value before, None if not hooked
  present,    \* modules loaded
  stage,      \* where each installer is
  stack,      \* the wrappers each thread is in
  socketCalls, \* calls begun that met a hook
  reported,   \* bytes reported of the call under way
  alone,      \* history: nothing else happened since a thread began its call
  disturbed,  \* history: see Undisturbed
  unprotected \* history: a protection could not be changed

own    == <<bytes, patch, original>>
tables == <<import, remembered, present>>
state  == <<fn, told, hooked>>
thread == <<stack, socketCalls, reported>>
past   == <<disturbed, unprotected>>
vars   == <<state, mark, own, tables, stage, thread, alone, past>>

-----------------------------------------------------------------------------
(* What each wrapper does: report before or after the call, take several   *)
(* buffers, keep the mark raised until it returns.                         *)

Wrapper(when)   == [when |-> when, vector |-> FALSE, holds |-> FALSE]
Vectored(w)     == [w EXCEPT !.vector = TRUE]
Holding(w)      == [w EXCEPT !.holds = TRUE]

WsasendHook     == Vectored(Wrapper("before"))
WsarecvHook     == Vectored(Wrapper("after"))
SendHook        == Wrapper("before")
RecvHook        == Wrapper("after")
ConnectHook     == Wrapper("before")
WsaConnectHook  == Wrapper("before")
GetAddrInfoWHook == Holding(Wrapper("before"))
GetAddrInfoAHook == Holding(Wrapper("before"))
DnsQueryWHook   == Wrapper("before")
DnsQueryAHook   == Wrapper("before")

HookEntries ==
  [WSASend |-> WsasendHook, WSARecv |-> WsarecvHook, send |-> SendHook, recv |-> RecvHook,
   connect |-> ConnectHook, WSAConnect |-> WsaConnectHook, GetAddrInfoW |-> GetAddrInfoWHook,
   getaddrinfo |-> GetAddrInfoAHook, DnsQuery_W |-> DnsQueryWHook, DnsQuery_A |-> DnsQueryAHook]

None      == "none"
Module    == Early \cup Late
Installer == {"loop", "loader"}
NoPatch   == [active |-> FALSE, saved |-> None, gate |-> None]
W         == HookEntries[fn]

Total(io)  == SumFunction(io)
Inputs     == UNION {[1..n -> Lengths] : n \in 0..(IF W.vector THEN BufferMax ELSE 1)}
Frame(io)  == [at |-> "enter", io |-> io, up |-> FALSE, via |-> None, lifted |-> FALSE, got |-> 0]

Init ==
  /\ fn \in Exercised /\ told = FALSE /\ hooked = FALSE /\ mark = FALSE
  /\ bytes = "own" /\ patch = NoPatch /\ original = None
  /\ import = [m \in Module |-> "export"] /\ remembered = [m \in Module |-> None] /\ present = Early
  /\ stage = [a \in Installer |-> "idle"]
  /\ stack = [t \in Client |-> <<>>] /\ socketCalls = 0 /\ reported = [t \in Client |-> 0]
  /\ alone = [t \in Client |-> TRUE] /\ disturbed = FALSE /\ unprotected = FALSE

Top(t)        == stack[t][Len(stack[t])]
At(t, label)  == stack[t] # <<>> /\ Top(t).at = label
Become(t, f)  == stack' = [stack EXCEPT ![t][Len(stack[t])] = f]
Goes(t, label) == Become(t, [Top(t) EXCEPT !.at = label])
Moves(a, label) == stage' = [stage EXCEPT ![a] = label]
Quiet         == UNCHANGED <<state, own, tables, stage, socketCalls>>
Running       == \E t \in Client : stack[t] # <<>>

-----------------------------------------------------------------------------
(* A call of the program.                                                  *)

\* Only a call through a hooked import or over the jump meets a wrapper.
ProgramCall(t) ==
  /\ stack[t] = <<>> /\ socketCalls < SockCallMax
  /\ bytes = "jump" \/ \E m \in present : import[m] = "hook"
  /\ socketCalls' = socketCalls + 1
  /\ \E io \in Inputs : stack' = [stack EXCEPT ![t] = <<Frame(io)>>]
  /\ reported' = [reported EXCEPT ![t] = 0]
  /\ alone' = [u \in Client |-> u = t /\ \A v \in Client \ {t} : stack[v] = <<>>]
  /\ disturbed' = (disturbed \/ \E a \in Installer : stage[a] \notin {"idle", "inline"})
  /\ UNCHANGED <<state, mark, own, tables, stage, unprotected>>

\* Something to report; the functions that resolve a name take the mark anyway.
Worth(t) == told /\ Top(t).io # <<>>

Enter(t) ==
  /\ At(t, "enter")
  /\ Goes(t, IF W.when = "before" /\ ~mark /\ (Worth(t) \/ W.holds) THEN "raise" ELSE "lift")
  /\ UNCHANGED <<mark, reported, alone, past>> /\ Quiet

\* The mark is set some time after it was read.
RaiseMark(t) ==
  /\ At(t, "raise")
  /\ mark' = TRUE
  /\ Become(t, [Top(t) EXCEPT !.up = TRUE, !.at = IF Worth(t) THEN "report" ELSE "lift"])
  /\ UNCHANGED <<reported, alone, past>> /\ Quiet

\* mutant of Filled: each buffer is taken to be full
FilledWhole(io, got) == io

\* What was received fills the buffers in order.
Filled(io, got) ==
  LET full(i) == SumFunctionOnSet(io, 1..i)
      left(i) == IF full(i) < got THEN got - full(i) ELSE 0
  IN  [i \in DOMAIN io |-> left(i - 1) - left(i)]

Due(t) == IF W.when = "before" THEN Top(t).io ELSE Filled(Top(t).io, Top(t).got)

\* mutant of Report: a way out leaves the mark raised
ReportMarked(t) ==
  /\ At(t, "report")
  /\ reported' = [reported EXCEPT ![t] = @ + Total(Due(t))] /\ UNCHANGED mark
  /\ Become(t, [Top(t) EXCEPT !.up = FALSE, !.at = IF W.when = "before" THEN "lift" ELSE "leave"])
  /\ UNCHANGED <<alone, past>> /\ Quiet

\* One callback for each buffer that is not empty.
Report(t) ==
  /\ At(t, "report")
  /\ reported' = [reported EXCEPT ![t] = @ + Total(Due(t))] /\ mark' = (mark /\ W.holds)
  /\ Become(t, [Top(t) EXCEPT !.up = W.holds, !.at = IF W.when = "before" THEN "lift" ELSE "leave"])
  /\ UNCHANGED <<alone, past>> /\ Quiet

-----------------------------------------------------------------------------
(* CallOriginalWinsock.                                                    *)

\* Without an original the program's call fails.
Lift(t) ==
  /\ At(t, "lift")
  /\ Become(t, [Top(t) EXCEPT !.via = original,
                  !.at = IF original = None THEN "leave" ELSE IF patch.active THEN "restore" ELSE "through"])
  /\ UNCHANGED <<mark, reported, alone, past>> /\ Quiet

\* When the bytes cannot be written the call goes through the trampoline.
Restore(t) ==
  /\ At(t, "restore")
  /\ \/ /\ bytes' = patch.saved /\ UNCHANGED unprotected
        /\ Become(t, [Top(t) EXCEPT !.lifted = TRUE, !.at = "call"])
     \/ /\ unprotected' = TRUE /\ UNCHANGED bytes
        /\ Goes(t, "through")
  /\ UNCHANGED <<state, mark, patch, original, tables, stage, socketCalls, reported, alone, disturbed>>

\* A jump under the call, put back by another thread, is one more wrapper.
Reach(t, code) ==
  IF code = "own" THEN Goes(t, "inside")
  ELSE IF Len(stack[t]) = WrapMax THEN Goes(t, "crashed")
  ELSE stack' = [stack EXCEPT ![t] = Append([@ EXCEPT ![Len(@)].at = "inside"], Frame(Top(t).io))]

CallTarget(t) ==
  /\ At(t, "call") \/ (At(t, "through") /\ Top(t).via = "export")
  /\ Reach(t, bytes)
  /\ UNCHANGED <<mark, reported, alone, past>> /\ Quiet

CallGate(t) ==
  /\ At(t, "through") /\ Top(t).via = "gate"
  /\ Reach(t, patch.gate)
  /\ UNCHANGED <<mark, reported, alone, past>> /\ Quiet

\* The call gives back any number of bytes, none when it fails.
Return(t) ==
  /\ At(t, "inside")
  /\ \E got \in 0..(IF W.when = "before" THEN 0 ELSE Total(Top(t).io)) :
       Become(t, [Top(t) EXCEPT !.got = got, !.at = IF Top(t).lifted THEN "back" ELSE "after"])
  /\ UNCHANGED <<mark, reported, alone, past>> /\ Quiet

\* mutant of Reinstall: the jump is left to the outermost call
ReinstallOutermost(t) ==
  /\ At(t, "back")
  /\ bytes' = IF Len(stack[t]) = 1 /\ \A u \in Client \ {t} : stack[u] = <<>> THEN "jump" ELSE bytes
  /\ unprotected' = unprotected
  /\ Become(t, [Top(t) EXCEPT !.lifted = FALSE, !.at = "after"])
  /\ UNCHANGED <<state, mark, patch, original, tables, stage, socketCalls, reported, alone, disturbed>>

\* The jump is put back, whoever else is still inside.
Reinstall(t) ==
  /\ At(t, "back")
  /\ \/ bytes' = "jump" /\ UNCHANGED unprotected
     \/ unprotected' = TRUE /\ UNCHANGED bytes
  /\ Become(t, [Top(t) EXCEPT !.lifted = FALSE, !.at = "after"])
  /\ UNCHANGED <<state, mark, patch, original, tables, stage, socketCalls, reported, alone, disturbed>>

After(t) ==
  /\ At(t, "after")
  /\ Goes(t, IF W.when = "after" /\ Top(t).got > 0 /\ ~mark /\ Worth(t) THEN "raise" ELSE "leave")
  /\ UNCHANGED <<mark, reported, alone, past>> /\ Quiet

Leave(t) ==
  /\ At(t, "leave")
  /\ mark' = (mark /\ ~Top(t).up)
  /\ stack' = [stack EXCEPT ![t] = SubSeq(@, 1, Len(@) - 1)]
  /\ UNCHANGED <<reported, alone, past>> /\ Quiet

-----------------------------------------------------------------------------
(* Installing.                                                             *)

\* What an installer does besides its own variables.
Stirs == alone' = [t \in Client |-> FALSE]
Rest  == UNCHANGED <<fn, mark, thread, unprotected>>

\* IxSetWinsockHook forgets what an earlier installation tracked.
SetHook ==
  /\ stage["loop"] = "idle" /\ ~hooked
  /\ told' = TRUE /\ remembered' = [m \in Module |-> None] /\ patch' = NoPatch
  /\ Moves("loop", "tables") /\ Stirs
  /\ UNCHANGED <<hooked, bytes, original, import, present, disturbed>> /\ Rest

\* Windows binds the imports of a module it loads to the export; a load that the
\* loader hook sees is refreshed (IxRefreshWinsockHooks).
Load(m) ==
  /\ stage["loader"] = "idle"
  /\ present' = present \cup {m}
  /\ \/ hooked /\ Moves("loader", "tables")
     \/ UNCHANGED stage
  /\ disturbed' = (disturbed \/ stage["loop"] \in {"unpatch", "clear"})
  /\ Stirs
  /\ UNCHANGED <<told, hooked, own, import, remembered>> /\ Rest

\* PatchLoadedModules: an import that is found first gives the original.
PatchTables(a) ==
  /\ stage[a] = "tables"
  /\ LET P == {m \in IF a = "loop" THEN present ELSE present \cap Late : import[m] # "hook"} IN
       /\ import' = [m \in Module |-> IF m \in P THEN "hook" ELSE import[m]]
       /\ remembered' = [m \in Module |-> IF m \in P /\ remembered[m] = None THEN import[m] ELSE remembered[m]]
       /\ IF original = None /\ P # {} THEN \E m \in P : original' = import[m] ELSE UNCHANGED original
  /\ hooked' = (hooked \/ a = "loop")
  /\ Moves(a, "inline") /\ Stirs
  /\ UNCHANGED <<told, bytes, patch, present, disturbed>> /\ Rest

\* InstallInlineHook: a function that is patched already stays as it is.
InlineSkip(a) ==
  /\ stage[a] = "inline" /\ (patch.active \/ bytes = "jump" \/ ~hooked)
  /\ original' = IF patch.active /\ hooked THEN "gate" ELSE original
  /\ Moves(a, "idle") /\ Stirs
  /\ UNCHANGED <<told, hooked, bytes, patch, tables, disturbed>> /\ Rest

InlineChecked(a) ==
  /\ stage[a] = "inline" /\ ~patch.active /\ bytes = "own" /\ hooked
  /\ disturbed' = (disturbed \/ Running \/ \E b \in Installer : stage[b] \in {"write", "track", "unpatch", "clear"})
  /\ Moves(a, "write") /\ Stirs
  /\ UNCHANGED <<told, hooked, own, tables>> /\ Rest

\* The trampoline copies the bytes that are there; the jump is written over them.
WriteJump(a) ==
  /\ stage[a] = "write"
  /\ patch' = [active |-> FALSE, saved |-> bytes, gate |-> bytes]
  /\ bytes' = "jump"
  /\ Moves(a, "track") /\ Stirs
  /\ UNCHANGED <<told, hooked, original, tables, disturbed>> /\ Rest

\* The original and the record follow the jump.
TrackInlinePatch(a) ==
  /\ stage[a] = "track"
  /\ original' = "gate" /\ patch' = [patch EXCEPT !.active = TRUE]
  /\ Moves(a, "idle") /\ Stirs
  /\ UNCHANGED <<told, hooked, bytes, tables, disturbed>> /\ Rest

-----------------------------------------------------------------------------
(* IxRemoveWinsockHook.                                                    *)

\* mutant of RemoveHook: the imports of modules loaded later are forgotten
RemoveEarly ==
  /\ stage["loop"] = "idle" /\ hooked
  /\ import' = [m \in Module |-> IF m \in Early THEN remembered[m] ELSE import[m]]
  /\ disturbed' = (disturbed \/ Running \/ stage["loader"] # "idle"
                             \/ \E m \in present : remembered[m] = None)
  /\ Moves("loop", "unpatch") /\ Stirs
  /\ UNCHANGED <<told, hooked, own, remembered, present>> /\ Rest

\* An import no refresh has hooked is given the current original, which is the
\* trampoline that is released next.
RemoveHook ==
  /\ stage["loop"] = "idle" /\ hooked
  /\ import' = [m \in Module |-> IF m \notin present THEN import[m]
                                 ELSE IF remembered[m] # None THEN remembered[m]
                                 ELSE IF original # None THEN original ELSE import[m]]
  /\ disturbed' = (disturbed \/ Running \/ stage["loader"] # "idle"
                             \/ \E m \in present : remembered[m] = None)
  /\ Moves("loop", "unpatch") /\ Stirs
  /\ UNCHANGED <<told, hooked, own, remembered, present>> /\ Rest

RemoveInlineHooks ==
  /\ stage["loop"] = "unpatch"
  /\ IF patch.active THEN bytes' = patch.saved /\ original' = None /\ patch' = NoPatch
     ELSE UNCHANGED own
  /\ Moves("loop", "clear") /\ Stirs
  /\ UNCHANGED <<told, hooked, tables, disturbed>> /\ Rest

RemoveDone ==
  /\ stage["loop"] = "clear"
  /\ told' = FALSE /\ hooked' = FALSE /\ remembered' = [m \in Module |-> None]
  /\ Moves("loop", "idle") /\ Stirs
  /\ UNCHANGED <<own, import, present, disturbed>> /\ Rest

-----------------------------------------------------------------------------
ClientStep(t) ==
  \/ ProgramCall(t) \/ Enter(t) \/ RaiseMark(t) \/ Report(t) \/ Lift(t) \/ Restore(t)
  \/ CallTarget(t) \/ CallGate(t) \/ Return(t) \/ Reinstall(t) \/ After(t) \/ Leave(t)

InstallStep(a) ==
  \/ PatchTables(a) \/ InlineSkip(a) \/ InlineChecked(a) \/ WriteJump(a) \/ TrackInlinePatch(a)

\* Nothing is promised, and nothing followed any further, once a hook came or went
\* under a call or a protection could not be changed.
Undisturbed == ~unprotected /\ ~disturbed

Next ==
  /\ ~disturbed /\ \A t \in Client : ~At(t, "crashed")
  /\ \/ \E t \in Client : ClientStep(t)
     \/ \E a \in Installer : InstallStep(a)
     \/ SetHook \/ RemoveHook \/ RemoveInlineHooks \/ RemoveDone
     \/ \E m \in Late \ present : Load(m)

Spec == Init /\ [][Next]_vars

-----------------------------------------------------------------------------
(* Properties.                                                             *)

\* Every variable has its type.
TypeOK ==
  /\ {told, hooked, mark, disturbed, unprotected} \subseteq BOOLEAN
  /\ bytes \in {"own", "jump"} /\ {patch.saved, patch.gate} \subseteq {None, "own", "jump"}
  /\ original \in {None, "export", "gate"}
  /\ import \in [Module -> {"hook", "export", "gate"}] /\ remembered \in [Module -> {None, "export", "gate"}]
  /\ \A t \in Client : Len(stack[t]) <= WrapMax

\* The jump that several threads lift and put back in any order is in place again
\* as soon as none of them runs without it (CallOriginalWinsock).
JumpComesBack ==
  (Undisturbed /\ patch.active /\ stage["loop"] = "idle"
     /\ \A t \in Client : \A i \in DOMAIN stack[t] : ~stack[t][i].lifted)
    => bytes = "jump"

\* The bytes and the trampoline through which the original is called are never a
\* copy of BLIND's own jump: a call would never end.
OriginalIsCallable == ~disturbed => patch.saved # "jump" /\ patch.gate # "jump"

\* Removed hooks leave the function and the imports as they were.
RemovedWithoutTrace ==
  (Undisturbed /\ ~hooked /\ (\A a \in Installer : stage[a] = "idle") /\ ~Running)
    => bytes = "own" /\ \A m \in Module : import[m] = "export"

\* The mark is up only while some thread is behind it: a mark left up would
\* silence the reports of the whole process for ever.
MarkComesDown == mark => \E t \in Client : \E i \in DOMAIN stack[t] : stack[t][i].up

\* A call during which nothing else happens is reported exactly once and to the
\* byte: what it was given to send, or what it was given back, however calls
\* before it have nested or met a raised mark.
SeenOnce ==
  \A t \in Client :
    (alone[t] /\ told /\ At(t, "leave") /\ Len(stack[t]) = 1 /\ Undisturbed)
      => reported[t] = IF W.when = "before" THEN Total(Top(t).io) ELSE Top(t).got

=============================================================================
