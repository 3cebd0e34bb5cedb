------------------------------- MODULE MCHooking -------------------------------
(***************************************************************************)
(* TLC instance of the hooks inside the target: the table of indirect      *)
(* handles, the hooks on modules, the hooks on ntdll and what a hooked     *)
(* native call does.  They share no state at this level: a behaviour       *)
(* exercises one of them (part) and leaves the others as they began.       *)
(***************************************************************************)
EXTENDS IndirectHandles, Sequences

CONSTANTS
  Thread, Owner, Importer, Provider, Methods, LoadMax, GateMax, DepthMax,
  RemoveMax, MayFail,                                          \* ModuleHooks
  Program, Hooked, Ruled, CallMax, NestMax,                    \* HookedCalls
  NativeOrder, Protect, PatchKinds, Int3Max, TurnMax, NativeCallMax  \* NativeHooks

ASSUME RolesDistinct == Owner \notin Thread /\ Provider \notin Importer
ASSUME MethodsKnown == Methods \subseteq {"inline", "iat"} /\ PatchKinds \subseteq {"jump", "break"}
ASSUME Failures == MayFail \in BOOLEAN
ASSUME Bounds == {LoadMax, GateMax, DepthMax, RemoveMax, CallMax, NestMax, Int3Max, TurnMax, NativeCallMax} \subseteq Nat

VARIABLES
  part,
  active, method, code, installed, target, saved, gate, gates, freed, slot,
  tracked, loaded, loads, at, item, level, via, todo, removals, overlap, failed,
  callback, rules, frames, scope, begun,
  kind, denies, text, slots, stub, fitted, listening, ready, pos, rest, turns,
  caller, made, refused, unlucky

Modules == INSTANCE ModuleHooksProofs
Calls   == INSTANCE HookedCalls
Native  == INSTANCE NativeHooks WITH Order <- NativeOrder, Caller <- Thread, SlotMax <- Int3Max, CallMax <- NativeCallMax

\* Each hooked function has a wrapper; the policy has rules for hooked functions only.
ASSUME CallsKnown == Hooked \subseteq DOMAIN Calls!HookEntry /\ Ruled \subseteq Hooked /\ NestMax # 0
\* The order in which the walks of NativeHooks come to the functions.
ASSUME WalkOrder == NativeOrder \in Seq(Native!Fn) /\ Protect \in Native!Fn /\ "none" \notin Native!Fn
MCOrder == <<"open", "protect">>

moduleVars == <<active, method, code, installed, target, saved, gate, gates, freed, slot,
                tracked, loaded, loads, at, item, level, via, todo, removals, overlap, failed>>
callVars   == <<callback, rules, frames, scope, begun>>
nativeVars == <<kind, denies, text, slots, stub, fitted, listening, ready, pos, rest, turns,
                caller, made, refused, unlucky>>

\* Two rules both want a trace or neither does.  The rule with which judging does not
\* end is left to a run of its own.
MCInit ==
  /\ part \in {"handles", "modules", "calls", "native"}
  /\ Init /\ Modules!Init /\ Calls!Init /\ Native!Init
  /\ part # "modules" => method = "inline"
  /\ part # "calls" => ~rules.called.matched /\ ~rules.lookup.matched /\ ~rules.private
  /\ part # "native" => ~denies /\ \A f \in DOMAIN kind : kind[f] = "jump"
  /\ rules.called.matched /\ rules.lookup.matched => rules.called.trace = rules.lookup.trace
  /\ ~(rules.private /\ Calls!V \in rules.asked)

HandleStep == part = "handles" /\ Next /\ UNCHANGED <<part, moduleVars, callVars, nativeVars>>
ModuleStep == part = "modules" /\ Modules!Next /\ UNCHANGED <<part, vars, callVars, nativeVars>>
CallStep   == part = "calls" /\ Calls!Next /\ UNCHANGED <<part, vars, moduleVars, nativeVars>>
NativeStep == part = "native" /\ Native!Next /\ UNCHANGED <<part, vars, moduleVars, callVars>>

MCSpec ==
  MCInit /\ [][HandleStep \/ ModuleStep \/ CallStep \/ NativeStep]_<<part, vars, moduleVars, callVars, nativeVars>>

\* The other parts of a behaviour's states never change.
Active ==
  CASE part = "handles" -> vars
    [] part = "modules" -> moduleVars
    [] part = "calls"   -> callVars
    [] part = "native"  -> nativeVars

-----------------------------------------------------------------------------
(* The properties of the four, as the components state them.               *)

\* The four are type-correct.
TypesOK == TypeOK /\ Modules!TypeOK /\ Calls!TypeOK /\ Native!TypeOK

\* See ModuleHooks: bytes, trampolines and import tables of hooked exports.
JumpComesBack    == part = "modules" => Modules!JumpComesBack
OriginalSurvives == part = "modules" => Modules!OriginalIsCallable /\ Modules!RemovedWithoutTrace

\* See HookedCalls: wrappers inside wrappers.
NestingEnds    == part = "calls" => Calls!NestingEnds
DeniedOrTold   == part = "calls" => Calls!DeniedOrTold

\* See NativeHooks: calls across installation and removal.
CallsGetThrough  == part = "native" => Native!CallsGetThrough
ShutdownRestores == part = "native" => Native!ShutdownRestores

=============================================================================
