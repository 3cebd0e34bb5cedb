------------------------------- MODULE MCHost -------------------------------
(***************************************************************************)
(* TLC instance of what the host learns and how: the pipe, the start-up    *)
(* that the runner waits for, and the watchdogs of the event loop.  They   *)
(* share no state at this level: a behaviour exercises one of them (part)  *)
(* and leaves the others as they began, so that the instance has the sum   *)
(* and not the product of their states.                                    *)
(***************************************************************************)
EXTENDS PipeChannel, FiniteSets

CONSTANTS
  Group, LaunchGroup, Ipc, Required,                            \* Startup
  Component, Export, CheckPeriod, Republish, Content, EntryMax  \* Watchdogs

ASSUME FlagsAreKnown ==
  /\ LaunchGroup \subseteq Group /\ Ipc \notin Group
  /\ Required \subseteq Group \cup {Ipc}

ASSUME Periods == CheckPeriod \in Nat \ {0} /\ Republish \in Nat /\ CheckPeriod <= Republish
ASSUME ContentIsOrdered == Content \subseteq Nat \ {0} /\ EntryMax \in Nat

VARIABLES
  part,
  mode, rpc, verdict, runSrv, runStop, readyEvent, observed, traps, link, request,
  answered, boot, installed, published, trapQueued, main, early,
  focus, ready, broken, image, own, age, mask, first, tampered, expected,
  signature, told, lost, turn

Start == INSTANCE Startup WITH srv <- runSrv, stop <- runStop
Dogs  == INSTANCE Watchdogs

startVars == <<mode, rpc, verdict, runSrv, runStop, readyEvent, observed, traps, link, request,
               answered, boot, installed, published, trapQueued, main, early>>
dogsVars  == <<focus, ready, broken, image, own, age, mask, first, tampered, expected,
               signature, told, lost, turn>>

MCInit ==
  /\ part \in {"pipe", "start", "dogs"}
  /\ Init /\ Start!Init /\ Dogs!Init
  /\ part # "start" => mode = "guarded"
  /\ part # "dogs" => focus = "mask"

PipeStep  == part = "pipe" /\ Next /\ UNCHANGED <<part, startVars, dogsVars>>
StartStep == part = "start" /\ Start!Next /\ UNCHANGED <<part, vars, dogsVars>>
DogsStep  == part = "dogs" /\ Dogs!Next /\ UNCHANGED <<part, vars, startVars>>

\* The fairness of a component binds the behaviours that exercise it.
MCSpec ==
  /\ MCInit /\ [][PipeStep \/ StartStep \/ DogsStep]_<<part, vars, startVars, dogsVars>>
  /\ WF_startVars(part = "start" /\ Start!BootStep)
  /\ WF_startVars(part = "start" /\ Start!ServerHandles)
  /\ part = "dogs" => Dogs!Fairness

-----------------------------------------------------------------------------
(* The properties of the three, as the components state them.              *)

\* The three are type-correct.
TypesOK == TypeOK /\ Start!TypeOK /\ Dogs!TypeOK

\* See Startup: the boot thread, the server thread and the verdict.
AnnouncedIsObserved  == Start!AnnouncedIsObserved
GuardedVerdictHonest == Start!GuardedVerdictHonest
MaskConverges        == Start!MaskConverges

\* See Watchdogs: what the host is told of hooks, exports and memory.
HostIsUpToDate        == Dogs!HostIsUpToDate
StandingStatesAreTold == part = "dogs" => Dogs!StandingStatesAreTold

=============================================================================
