------------------------------ MODULE ModuleHooks ------------------------------
(***************************************************************************)
(* The hooks on exports of other modules (src/DLL/hooks/module).           *)
(*                                                                         *)
(* Two hooks stand for the manifest g_Hooks: "load" is a loader function,  *)
(* always patched inline; "scan" is an export of a module the program      *)
(* loads later, patched inline or in the import tables of the other        *)
(* modules.  A hooked call restores the function's own bytes, calls it,    *)
(* and writes the jump again (CallOriginalTemporarilyUnhooked).  A         *)
(* reported load installs what became possible (IxRefreshModuleHooks).     *)
(*                                                                         *)
(* Only the two halves of a temporary restore run under                    *)
(* g_ModuleOriginalCallLock; installing, refreshing and removing take no   *)
(* lock.                                                                   *)
(***************************************************************************)
EXTENDS Naturals, FiniteSets, Sequences

CONSTANTS Thread,      \* threads that load modules
          Owner,       \* the thread that runs the hook controller
          Importer,    \* modules that import the export of "scan"
          Provider,    \* the module that exports it
          Methods,     \* the ways the policy may ask for "scan" to be hooked
          LoadMax,     \* bound: loads of the program
          GateMax,     \* bound: trampolines allocated
          DepthMax,    \* hooked calls inside one another that the stack has room for
          RemoveMax,   \* bound: removals of the hooks
          MayFail      \* may VirtualProtect and VirtualAlloc fail

VARIABLES
  active,     \* g_ActiveCallback is set
  method,     \* HookMethod of "scan"
  code,       \* the first bytes of each function: its own or a jump
  installed,  \* Installed
  target,     \* TargetAddress is set
  saved,      \* OriginalBytes
  gate,       \* Trampoline, 0 when there is none
  gates,      \* the bytes copied into each trampoline, in order of allocation
  freed,      \* trampolines released
  slot,       \* the import of "scan" in every loaded importer
  tracked,    \* IatSlots
  loaded,     \* modules the program has loaded
  loads,      \* loads begun
  at,         \* where each thread is
  item,       \* the module a thread loads
  level,      \* the hooked calls a thread is in: has each restored the bytes
  via,        \* the trampoline a thread calls, or has built
  todo,       \* the hooks a thread still has to look at
  removals,   \* removals begun
  overlap,    \* history: two threads installed a hook at once, or one removed it
              \* under a call
  failed      \* history: a protection could not be changed

Hook   == {"load", "scan"}
Actor  == Thread \cup {Owner}
Module == Importer \cup {Provider}

hooks  == <<code, installed, target, saved, gate, gates, freed>>
tables == <<slot, tracked>>
flow   == <<at, item, level, via, todo>>
past   == <<overlap, failed>>
vars   == <<active, method, hooks, tables, loaded, loads, flow, removals, past>>

Init ==
  /\ active = FALSE /\ method \in Methods
  /\ code = [h \in Hook |-> "own"] /\ saved = [h \in Hook |-> "none"]
  /\ installed = [h \in Hook |-> FALSE] /\ target = [h \in Hook |-> FALSE]
  /\ gate = [h \in Hook |-> 0] /\ gates = <<>> /\ freed = {}
  /\ slot = [m \in Importer |-> "own"] /\ tracked = {}
  /\ loaded = {} /\ loads = 0
  /\ at = [a \in Actor |-> "idle"] /\ item = [t \in Thread |-> Provider]
  /\ level = [t \in Thread |-> <<>>] /\ via = [a \in Actor |-> 0]
  /\ todo = [a \in Actor |-> <<>>]
  /\ removals = 0
  /\ overlap = FALSE /\ failed = FALSE

GoTo(a, label) == at' = [at EXCEPT ![a] = label]
Failing        == MayFail /\ ~failed
Patched(h)     == h = "scan" /\ method = "iat"
Borrowing(t)   == \E i \in DOMAIN level[t] : level[t][i]
InHook(t)      == level[t] # <<>>
Installing(a, h) == at[a] \in {"copy", "patch"} /\ todo[a] # <<>> /\ Head(todo[a]) = h

-----------------------------------------------------------------------------
(* A call of the loader function.                                          *)

Call(t) ==
  /\ at[t] = "idle" /\ loads < LoadMax
  /\ loads' = loads + 1
  /\ \E m \in Module \ loaded : item' = [item EXCEPT ![t] = m]
  /\ GoTo(t, "entry")
  /\ UNCHANGED <<active, method, hooks, tables, loaded, level, via, todo, removals, past>>

\* The function runs its first bytes; calls without end exhaust the stack.
Enter(t) ==
  /\ at[t] = "entry"
  /\ IF code["load"] = "jump"
     THEN /\ level' = [level EXCEPT ![t] = IF Len(@) < DepthMax THEN Append(@, FALSE) ELSE @]
          /\ GoTo(t, IF Len(level[t]) < DepthMax THEN "wrapper" ELSE "crashed")
     ELSE UNCHANGED level /\ GoTo(t, "original")
  /\ overlap' = (overlap \/ at[Owner] \in {"remove", "clear"})
  /\ UNCHANGED <<active, method, hooks, tables, loaded, loads, item, via, todo, removals, failed>>

\* Without an original there is nothing to call; otherwise the pointer is read.
Wrapper(t) ==
  /\ at[t] = "wrapper"
  /\ via' = [via EXCEPT ![t] = gate["load"]]
  /\ IF gate["load"] = 0
     THEN /\ level' = [level EXCEPT ![t] = SubSeq(@, 1, Len(@) - 1)]
          /\ GoTo(t, IF Len(level[t]) = 1 THEN "idle" ELSE "reinstall")
     ELSE /\ UNCHANGED level
          /\ GoTo(t, IF installed["load"] /\ target["load"] THEN "restore" ELSE "gate")
  /\ UNCHANGED <<active, method, hooks, tables, loaded, loads, item, todo, removals, past>>

Restore(t) ==
  /\ at[t] = "restore"
  /\ \/ /\ installed["load"] /\ target["load"]
        /\ code' = [code EXCEPT !["load"] = saved["load"]]
        /\ level' = [level EXCEPT ![t][Len(level[t])] = TRUE]
        /\ GoTo(t, "entry") /\ UNCHANGED failed
     \/ /\ Failing \/ ~installed["load"] \/ ~target["load"]
        /\ failed' = (failed \/ (installed["load"] /\ target["load"]))
        /\ GoTo(t, "gate") /\ UNCHANGED <<code, level>>
  /\ UNCHANGED <<active, method, installed, target, saved, gate, gates, freed, tables, loaded,
                 loads, item, via, todo, removals, overlap>>

\* The trampoline runs the bytes it was given; a released one ends the process.
Gate(t) ==
  /\ at[t] = "gate"
  /\ GoTo(t, IF via[t] \in freed THEN "crashed"
             ELSE IF gates[via[t]] = "own" THEN "original" ELSE "entry")
  /\ UNCHANGED <<active, method, hooks, tables, loaded, loads, item, level, via, todo, removals, past>>

\* The module is loaded with imports bound to the export's own code.
Original(t) ==
  /\ at[t] = "original"
  /\ loaded' = loaded \cup {item[t]}
  /\ GoTo(t, IF ~InHook(t) THEN "idle"
             ELSE IF level[t][Len(level[t])] THEN "reinstall" ELSE "publish")
  /\ UNCHANGED <<active, method, hooks, tables, loads, item, level, via, todo, removals, past>>

\* mutant of Reinstall: the jump is left to the outermost of the calls
ReinstallOutermost(t) ==
  /\ at[t] = "reinstall"
  /\ code' = IF ~\E u \in Thread \ {t} : Borrowing(u)
             THEN [code EXCEPT !["load"] = "jump"] ELSE code
  /\ failed' = failed
  /\ GoTo(t, "publish")
  /\ UNCHANGED <<active, method, installed, target, saved, gate, gates, freed, tables, loaded,
                 loads, item, level, via, todo, removals, overlap>>

Reinstall(t) ==
  /\ at[t] = "reinstall"
  /\ \/ /\ installed["load"] /\ target["load"]
        /\ code' = [code EXCEPT !["load"] = "jump"] /\ UNCHANGED failed
     \/ /\ Failing \/ ~installed["load"] \/ ~target["load"]
        /\ failed' = (failed \/ (installed["load"] /\ target["load"]))
        /\ UNCHANGED code
  /\ GoTo(t, "publish")
  /\ UNCHANGED <<active, method, installed, target, saved, gate, gates, freed, tables, loaded,
                 loads, item, level, via, todo, removals, overlap>>

\* Without a callback nothing is refreshed and nothing reported.
Publish(t) ==
  /\ at[t] = "publish"
  /\ IF active
     THEN todo' = [todo EXCEPT ![t] = <<"load", "scan">>] /\ GoTo(t, "each")
     ELSE UNCHANGED todo /\ GoTo(t, "leave")
  /\ UNCHANGED <<active, method, hooks, tables, loaded, loads, item, level, via, removals, past>>

Report(t) ==
  /\ at[t] = "each" /\ todo[t] = <<>>
  /\ GoTo(t, "leave")
  /\ UNCHANGED <<active, method, hooks, tables, loaded, loads, item, level, via, todo, removals, past>>

Leave(t) ==
  /\ at[t] = "leave"
  /\ level' = [level EXCEPT ![t] = SubSeq(@, 1, Len(@) - 1)]
  /\ via' = [via EXCEPT ![t] = 0]
  /\ GoTo(t, IF Len(level[t]) = 1 THEN "idle"
             ELSE IF level[t][Len(level[t]) - 1] THEN "reinstall" ELSE "publish")
  /\ UNCHANGED <<active, method, hooks, tables, loaded, loads, item, todo, removals, past>>

-----------------------------------------------------------------------------
(* Installing: IxSetModuleHook and IxRefreshModuleHooks.                   *)

Present(h) == h = "load" \/ Provider \in loaded

\* mutant of Installable: the first bytes are not looked at
InstallableAnywhere(h) == ~installed[h] /\ Present(h)

\* An export that jumps out of its module is left alone.
Installable(h) == ~installed[h] /\ Present(h) /\ code[h] = "own"

\* An installed import hook takes in the module just loaded; of what cannot be
\* installed a refresh forgets the address.
EachSkip(a) ==
  /\ at[a] = "each" /\ todo[a] # <<>>
  /\ LET h == Head(todo[a])
         fresh == IF a \in Thread /\ installed[h] /\ Patched(h)
                  THEN {item[a]} \cap Importer \cap loaded ELSE {} IN
       /\ ~Installable(h)
       /\ slot' = [m \in Importer |-> IF m \in fresh THEN "hook" ELSE slot[m]]
       /\ tracked' = tracked \cup fresh
       /\ target' = [target EXCEPT ![h] = @ /\ (installed[h] \/ a = Owner)]
  /\ todo' = [todo EXCEPT ![a] = Tail(@)]
  /\ UNCHANGED <<active, method, code, installed, saved, gate, gates, freed, loaded, loads,
                 at, item, level, via, removals, past>>

\* InstallModuleIatHook: at least one loaded module has to import the export.
EachTables(a) ==
  /\ at[a] = "each" /\ todo[a] # <<>>
  /\ LET h == Head(todo[a]) IN
       /\ Installable(h) /\ Patched(h)
       /\ \/ /\ Importer \cap loaded # {}
             /\ slot' = [m \in Importer |-> IF m \in loaded THEN "hook" ELSE slot[m]]
             /\ tracked' = tracked \cup (Importer \cap loaded)
             /\ installed' = [installed EXCEPT ![h] = TRUE]
             /\ target' = [target EXCEPT ![h] = TRUE]
             /\ UNCHANGED failed
          \/ /\ Failing \/ Importer \cap loaded = {}
             /\ target' = [target EXCEPT ![h] = (a = Owner)]
             /\ failed' = (failed \/ Importer \cap loaded # {})
             /\ UNCHANGED <<slot, tracked, installed>>
  /\ todo' = [todo EXCEPT ![a] = Tail(@)]
  /\ UNCHANGED <<active, method, code, saved, gate, gates, freed, loaded, loads, at, item, level,
                 via, removals, overlap>>

EachInline(a) ==
  /\ at[a] = "each" /\ todo[a] # <<>>
  /\ LET h == Head(todo[a]) IN
       /\ Installable(h) /\ ~Patched(h)
       /\ target' = [target EXCEPT ![h] = TRUE]
       /\ overlap' = (overlap \/ \E b \in Actor : Installing(b, h) \/ at[b] = "remove" \/ at[b] = "clear")
  /\ GoTo(a, "copy")
  /\ UNCHANGED <<active, method, code, installed, saved, gate, gates, freed, tables, loaded, loads,
                 item, level, via, todo, removals, failed>>

\* InstallInlineHook saves the bytes and builds the trampoline ...
Copy(a) ==
  /\ at[a] = "copy" /\ Len(gates) < GateMax
  /\ saved' = [saved EXCEPT ![Head(todo[a])] = code[Head(todo[a])]]
  /\ gates' = Append(gates, code[Head(todo[a])])
  /\ via' = [via EXCEPT ![a] = Len(gates')]
  /\ GoTo(a, "patch")
  /\ UNCHANGED <<active, method, code, installed, target, gate, freed, tables, loaded, loads,
                 item, level, todo, removals, past>>

CopyFails(a) ==
  /\ at[a] = "copy" /\ (Failing \/ Len(gates) = GateMax)
  /\ target' = [target EXCEPT ![Head(todo[a])] = @ /\ a = Owner]
  /\ todo' = [todo EXCEPT ![a] = Tail(@)] /\ failed' = TRUE
  /\ GoTo(a, "each")
  /\ UNCHANGED <<active, method, code, installed, saved, gate, gates, freed, tables, loaded, loads,
                 item, level, via, removals, overlap>>

\* ... and writes the jump.
Patch(a) ==
  /\ at[a] = "patch"
  /\ LET h == Head(todo[a]) IN
       /\ code' = [code EXCEPT ![h] = "jump"]
       /\ installed' = [installed EXCEPT ![h] = TRUE]
       /\ gate' = [gate EXCEPT ![h] = via[a]]
  /\ todo' = [todo EXCEPT ![a] = Tail(@)]
  /\ GoTo(a, "each")
  /\ UNCHANGED <<active, method, target, saved, gates, freed, tables, loaded, loads, item, level,
                 via, removals, past>>

SetHooks ==
  /\ at[Owner] = "idle" /\ ~active
  /\ active' = TRUE
  /\ todo' = [todo EXCEPT ![Owner] = <<"load", "scan">>]
  /\ GoTo(Owner, "each")
  /\ UNCHANGED <<method, hooks, tables, loaded, loads, item, level, via, removals, past>>

SetDone ==
  /\ at[Owner] = "each" /\ todo[Owner] = <<>>
  /\ active' = (\E h \in Hook : installed[h])
  /\ GoTo(Owner, "idle")
  /\ UNCHANGED <<method, hooks, tables, loaded, loads, item, level, via, todo, removals, past>>

-----------------------------------------------------------------------------
(* IxRemoveModuleHook.                                                     *)

Remove ==
  /\ at[Owner] = "idle" /\ active /\ removals < RemoveMax
  /\ removals' = removals + 1
  /\ todo' = [todo EXCEPT ![Owner] = <<"load", "scan">>]
  /\ overlap' = (overlap \/ \E t \in Thread : at[t] # "idle")
  /\ GoTo(Owner, "remove")
  /\ UNCHANGED <<active, method, hooks, tables, loaded, loads, item, level, via, failed>>

RemoveSkip ==
  /\ at[Owner] = "remove" /\ todo[Owner] # <<>>
  /\ ~(installed[Head(todo[Owner])] /\ target[Head(todo[Owner])])
  /\ todo' = [todo EXCEPT ![Owner] = Tail(@)]
  /\ UNCHANGED <<active, method, hooks, tables, loaded, loads, at, item, level, via, removals, past>>

\* mutant of RemoveBytes: the import tables are left as they are
RemoveBytesOnly ==
  /\ at[Owner] = "remove" /\ todo[Owner] # <<>>
  /\ LET h == Head(todo[Owner]) IN
       /\ installed[h] /\ target[h]
       /\ code' = [code EXCEPT ![h] = "own"] /\ freed' = freed \cup ({gate[h]} \ {0})
  /\ GoTo(Owner, "clear")
  /\ UNCHANGED <<active, method, installed, target, saved, gate, gates, tables, loaded, loads, item,
                 level, via, todo, removals, past>>

\* The saved bytes or imports are written back, the trampoline is released, also
\* when the protection cannot be changed ...
RemoveBytes ==
  /\ at[Owner] = "remove" /\ todo[Owner] # <<>>
  /\ LET h == Head(todo[Owner]) IN
       /\ installed[h] /\ target[h]
       /\ \/ /\ IF Patched(h)
                THEN /\ slot' = [m \in Importer |-> IF m \in tracked THEN "own" ELSE slot[m]]
                     /\ tracked' = {} /\ UNCHANGED code
                ELSE code' = [code EXCEPT ![h] = saved[h]] /\ UNCHANGED tables
             /\ UNCHANGED failed
          \/ Failing /\ failed' = TRUE /\ tracked' = {} /\ UNCHANGED <<code, slot>>
       /\ freed' = freed \cup ({gate[h]} \ {0})
  /\ GoTo(Owner, "clear")
  /\ UNCHANGED <<active, method, installed, target, saved, gate, gates, loaded, loads, item,
                 level, via, todo, removals, overlap>>

\* ... and then the hook's record is cleared.
RemoveRecord ==
  /\ at[Owner] = "clear"
  /\ target' = [target EXCEPT ![Head(todo[Owner])] = FALSE]
  /\ installed' = [installed EXCEPT ![Head(todo[Owner])] = FALSE]
  /\ gate' = [gate EXCEPT ![Head(todo[Owner])] = 0]
  /\ todo' = [todo EXCEPT ![Owner] = Tail(@)]
  /\ GoTo(Owner, "remove")
  /\ UNCHANGED <<active, method, code, saved, gates, freed, tables, loaded, loads, item, level, via,
                 removals, past>>

RemoveDone ==
  /\ at[Owner] = "remove" /\ todo[Owner] = <<>>
  /\ active' = FALSE
  /\ GoTo(Owner, "idle")
  /\ UNCHANGED <<method, hooks, tables, loaded, loads, item, level, via, todo, removals, past>>

-----------------------------------------------------------------------------
LoaderStep(t) ==
  \/ Call(t) \/ Enter(t) \/ Wrapper(t) \/ Restore(t) \/ Gate(t) \/ Original(t)
  \/ Reinstall(t) \/ Publish(t) \/ Report(t) \/ Leave(t)

InstallStep(a) ==
  EachSkip(a) \/ EachTables(a) \/ EachInline(a) \/ Copy(a) \/ CopyFails(a) \/ Patch(a)

OwnerStep ==
  SetHooks \/ SetDone \/ Remove \/ RemoveSkip \/ RemoveBytes \/ RemoveRecord \/ RemoveDone

Next ==
  /\ \A t \in Thread : at[t] # "crashed"
  /\ \/ \E t \in Thread : LoaderStep(t)
     \/ \E a \in Actor : InstallStep(a)
     \/ OwnerStep

Spec == Init /\ [][Next]_vars

-----------------------------------------------------------------------------
(* Properties.                                                             *)

\* Every variable has its type; a hook's trampoline is one that was built.
TypeOK ==
  /\ {active, overlap, failed} \subseteq BOOLEAN /\ method \in Methods
  /\ code \in [Hook -> {"own", "jump"}] /\ saved \in [Hook -> {"none", "own", "jump"}]
  /\ installed \in [Hook -> BOOLEAN] /\ target \in [Hook -> BOOLEAN]
  /\ gate \in [Hook -> 0..Len(gates)] /\ Len(gates) <= GateMax /\ freed \subseteq DOMAIN gates
  /\ slot \in [Importer -> {"own", "hook"}] /\ tracked \subseteq Importer
  /\ loaded \subseteq Module /\ item \in [Thread -> Module]
  /\ \A t \in Thread : Len(level[t]) <= DepthMax

\* Undisturbed: no protection change failed, no two threads installed a hook at
\* once, and no call was under way when the hooks were removed.
Undisturbed == ~failed /\ ~overlap

\* A loader hook that several threads lift and put back in any order is in place
\* again as soon as none of them runs without it.
JumpComesBack ==
  (Undisturbed /\ installed["load"] /\ at[Owner] = "idle" /\ \A t \in Thread : ~Borrowing(t))
    => code["load"] = "jump"

\* The bytes and trampolines through which the original is called are never a
\* copy of BLIND's own jump, through any number of installations and removals
\* (a failed removal leaves the jump in place): a call would never end.
OriginalIsCallable ==
  ~overlap => \A h \in Hook : saved[h] # "jump" /\ \A i \in DOMAIN gates : gates[i] = "own"

\* Once the hooks are removed the program's functions and import tables are
\* those it would have without BLIND, modules loaded after the hooks included.
RemovedWithoutTrace ==
  (Undisturbed /\ ~active /\ at[Owner] = "idle" /\ \A t \in Thread : at[t] = "idle")
    => (\A h \in Hook : code[h] = "own") /\ (\A m \in Importer : slot[m] = "own")

\* "When the target loads [...] covered modules, the loader hook refreshes
\* module/winsock hooks immediately" (Docs/DIAGNOSTICS.md:61).  A load that runs
\* while another thread's load has lifted the hook is not seen.
LoaderRefreshes ==
  (active /\ installed["load"] /\ Provider \in loaded /\ \A a \in Actor : at[a] = "idle")
    => installed["scan"]

=============================================================================
