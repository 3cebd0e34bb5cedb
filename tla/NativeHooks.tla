------------------------------ MODULE NativeHooks ------------------------------
(***************************************************************************)
(* Installing and removing the hooks on ntdll (nt.cpp 2836-3160,           *)
(* nt_inline.cpp, nt_int3.cpp, nt_methods.cpp, controller.cpp 446-493).    *)
(*                                                                         *)
(* A function is patched with a jump of twelve bytes or with a breakpoint  *)
(* that a vectored handler turns into a jump by a table of slots.  The     *)
(* event loop installs whenever the controller says it is not initialised; *)
(* the thread that detaches the library removes.  Neither takes a lock,    *)
(* the program's threads call the functions all the while, and every write *)
(* needs VirtualProtect, which is one of the functions: the loop's calls   *)
(* are marked as BLIND's own, the detaching thread's are not, and a policy *)
(* may deny them.                                                          *)
(***************************************************************************)
EXTENDS Naturals, Sequences, FiniteSets

CONSTANTS Caller,      \* threads of the program
          Order,       \* the walk order of the hooked functions
          Protect,     \* the one under VirtualProtect
          PatchKinds,  \* "jump", "break": the methods the policy may ask for
          SlotMax,     \* kMaxInt3Hooks
          TurnMax,     \* bound: initialisations and shutdowns
          CallMax      \* bound: calls of the program

Fn == {Order[i] : i \in DOMAIN Order}

VARIABLES
  kind,       \* HookMethod of each function
  denies,     \* the policy denies the program VirtualProtect
  text,       \* the first bytes of each function
  slots,      \* g_Int3Hooks
  stub,       \* g_Nt*Stub is set
  fitted,     \* Installed
  listening,  \* g_ActiveNtCallback is set
  ready,      \* s_Initialized
  pos,        \* where the loop and the detaching thread are
  rest,       \* the hooks they have not come to
  turns,      \* initialisations and shutdowns begun
  caller,     \* where each program thread is, and in which function
  made,       \* calls begun
  refused,    \* history: a protection could not be changed
  unlucky     \* history: a call met a half-written patch, or one being removed

work == <<text, slots, stub, fitted, listening, ready>>
run  == <<pos, rest, turns>>
vars == <<kind, denies, work, run, caller, made, refused, unlucky>>

Installer == {"loop", "detach"}
Slot      == 1..SlotMax
Unused    == [active |-> 0, target |-> "none", entry |-> FALSE]

Init ==
  /\ kind \in [Fn -> PatchKinds] /\ denies \in BOOLEAN
  /\ text = [f \in Fn |-> "own"] /\ slots = [i \in Slot |-> Unused]
  /\ stub = [f \in Fn |-> FALSE] /\ fitted = [f \in Fn |-> FALSE]
  /\ listening = FALSE /\ ready = FALSE
  /\ pos = [w \in Installer |-> "idle"] /\ rest = [w \in Installer |-> <<>>] /\ turns = 0
  /\ caller = [t \in Caller |-> [at |-> "out", fn |-> Protect]] /\ made = 0
  /\ refused = FALSE /\ unlucky = FALSE

Goes(w, label) == pos' = [pos EXCEPT ![w] = label]
Here(w, label) == pos[w] = label /\ rest[w] # <<>>
F(w)           == Head(rest[w])
NextHook(w)    == rest' = [rest EXCEPT ![w] = Tail(@)]
Still          == UNCHANGED <<kind, denies, caller, made, unlucky>>

\* VirtualProtect of an installer: refused by the system, at most once, or by
\* BLIND's own hook on it.
MayRefuse(w) == ~refused \/ (w = "detach" /\ denies /\ text[Protect] # "own")
MayGrant(w)  == ~(w = "detach" /\ denies /\ text[Protect] # "own")

-----------------------------------------------------------------------------
(* NtHookController::Initialize and IxSetNtHook, of the event loop.        *)

Initialize ==
  /\ pos["loop"] = "idle" /\ ~ready /\ turns < TurnMax
  /\ turns' = turns + 1 /\ listening' = TRUE
  /\ rest' = [rest EXCEPT !["loop"] = Order] /\ Goes("loop", "each")
  /\ UNCHANGED <<text, slots, stub, fitted, ready, refused>> /\ Still

\* A function whose first bytes are not a system call's is left alone.
Skip ==
  /\ Here("loop", "each") /\ (fitted[F("loop")] \/ text[F("loop")] # "own")
  /\ NextHook("loop")
  /\ UNCHANGED <<work, pos, turns, refused>> /\ Still

\* The original becomes callable through a stub of its own; a breakpoint needs a
\* free slot.
Stub ==
  /\ Here("loop", "each") /\ ~fitted[F("loop")] /\ text[F("loop")] = "own"
  /\ stub' = [stub EXCEPT ![F("loop")] = TRUE]
  /\ IF kind[F("loop")] = "jump" THEN Goes("loop", "protect") /\ UNCHANGED <<slots, rest>>
     ELSE \/ \E i \in Slot :
               /\ slots[i].active = 0 /\ \A j \in 1..(i - 1) : slots[j].active # 0
               /\ slots' = [slots EXCEPT ![i].active = 2]
               /\ Goes("loop", "fill") /\ UNCHANGED rest
          \/ /\ \A i \in Slot : slots[i].active # 0
             /\ NextHook("loop") /\ UNCHANGED <<slots, pos>>
  /\ UNCHANGED <<text, fitted, listening, ready, turns, refused>> /\ Still

\* AddInt3Slot: claimed (2 for -1), then filled, then active.
FillSlot ==
  /\ Here("loop", "fill")
  /\ \E i \in Slot : slots[i].active = 2 /\
       slots' = [slots EXCEPT ![i] = [active |-> 1, target |-> F("loop"), entry |-> TRUE]]
  /\ Goes("loop", "protect")
  /\ UNCHANGED <<text, stub, fitted, listening, ready, rest, turns, refused>> /\ Still

Emptied(f) == [i \in Slot |-> IF slots[i].target = f THEN Unused ELSE slots[i]]

ProtectFails ==
  /\ Here("loop", "protect") /\ MayRefuse("loop")
  /\ refused' = TRUE
  /\ slots' = Emptied(F("loop"))
  /\ NextHook("loop") /\ Goes("loop", "each")
  /\ UNCHANGED <<text, stub, fitted, listening, ready, turns>> /\ Still

\* The breakpoint is one byte; the jump is written byte after byte.
WriteFirst ==
  /\ Here("loop", "protect")
  /\ text' = [text EXCEPT ![F("loop")] = IF kind[F("loop")] = "break" THEN "break" ELSE "torn"]
  /\ Goes("loop", "written")
  /\ UNCHANGED <<slots, stub, fitted, listening, ready, rest, turns, refused>> /\ Still

WriteRest ==
  /\ Here("loop", "written")
  /\ text' = [text EXCEPT ![F("loop")] = IF @ = "torn" THEN "jump" ELSE @]
  /\ fitted' = [fitted EXCEPT ![F("loop")] = TRUE]
  /\ NextHook("loop") /\ Goes("loop", "each")
  /\ UNCHANGED <<slots, stub, listening, ready, turns, refused>> /\ Still

Initialized ==
  /\ pos["loop"] = "each" /\ rest["loop"] = <<>>
  /\ ready' = (\E f \in Fn : fitted[f]) /\ Goes("loop", "idle")
  /\ UNCHANGED <<text, slots, stub, fitted, listening, rest, turns, refused>> /\ Still

-----------------------------------------------------------------------------
(* NtHookController::Shutdown and IxRemoveNtHook, of the detaching thread. *)

\* mutant of Shutdown: the controller says at once that it is not initialised
ShutdownEarly ==
  /\ pos["detach"] = "idle" /\ ready /\ turns < TurnMax
  /\ turns' = turns + 1 /\ ready' = FALSE
  /\ rest' = [rest EXCEPT !["detach"] = Order] /\ Goes("detach", "remove")
  /\ UNCHANGED <<text, slots, stub, fitted, listening, refused>> /\ Still

Shutdown ==
  /\ pos["detach"] = "idle" /\ ready /\ turns < TurnMax
  /\ turns' = turns + 1
  /\ rest' = [rest EXCEPT !["detach"] = Order] /\ Goes("detach", "remove")
  /\ UNCHANGED <<work, refused>> /\ Still

RemoveSkip ==
  /\ Here("detach", "remove") /\ ~fitted[F("detach")]
  /\ NextHook("detach")
  /\ UNCHANGED <<work, pos, turns, refused>> /\ Still

\* The bytes are written back if VirtualProtect lets them; the rest goes on anyway.
RestoreText ==
  /\ Here("detach", "remove") /\ fitted[F("detach")]
  /\ \/ MayGrant("detach") /\ text' = [text EXCEPT ![F("detach")] = "own"] /\ UNCHANGED refused
     \/ MayRefuse("detach") /\ refused' = TRUE /\ UNCHANGED text
  /\ Goes("detach", "slot")
  /\ UNCHANGED <<slots, stub, fitted, listening, ready, rest, turns>> /\ Still

\* RemoveInt3Slot frees the slot before it clears it.
FreeSlot ==
  /\ Here("detach", "slot")
  /\ slots' = [i \in Slot |-> IF slots[i].target = F("detach") THEN [slots[i] EXCEPT !.active = 0] ELSE slots[i]]
  /\ Goes("detach", "clear")
  /\ UNCHANGED <<text, stub, fitted, listening, ready, rest, turns, refused>> /\ Still

ClearSlot ==
  /\ Here("detach", "clear")
  /\ slots' = Emptied(F("detach"))
  /\ fitted' = [fitted EXCEPT ![F("detach")] = FALSE]
  /\ NextHook("detach") /\ Goes("detach", "remove")
  /\ UNCHANGED <<text, stub, listening, ready, turns, refused>> /\ Still

ShutDown ==
  /\ pos["detach"] = "remove" /\ rest["detach"] = <<>>
  /\ listening' = FALSE /\ ready' = FALSE /\ Goes("detach", "idle")
  /\ UNCHANGED <<text, slots, stub, fitted, rest, turns, refused>> /\ Still

-----------------------------------------------------------------------------
(* The program.                                                            *)

Moves(t, label, f) == caller' = [caller EXCEPT ![t] = [at |-> label, fn |-> f]]
Alone == UNCHANGED <<kind, denies, work, run, refused>>

\* Half a jump may run as anything.
CallFn(t) ==
  /\ caller[t].at = "out" /\ made < CallMax /\ made' = made + 1
  /\ \E f \in Fn :
       /\ Moves(t, CASE text[f] = "jump" -> "wrapper" [] text[f] = "break" -> "trap"
                     [] text[f] = "torn" -> "crashed" [] OTHER -> "out", f)
       /\ unlucky' = (unlucky \/ text[f] = "torn")
  /\ Alone

Serving(f) == {i \in Slot : slots[i].active # 0 /\ slots[i].target = f}

\* NtInt3VectoredHandler; nobody else handles the breakpoint.
Trap(t) ==
  /\ caller[t].at = "trap"
  /\ Moves(t, IF \E i \in Serving(caller[t].fn) : slots[i].entry THEN "wrapper" ELSE "crashed", caller[t].fn)
  /\ unlucky' = (unlucky \/ pos["detach"] # "idle" \/ text[caller[t].fn] # "break")
  /\ UNCHANGED made /\ Alone

\* mutant of Wrapper: the original is called through the function itself
WrapperPatched(t) ==
  /\ caller[t].at = "wrapper"
  /\ Moves(t, IF text[caller[t].fn] = "own" THEN "out" ELSE "crashed", caller[t].fn)
  /\ UNCHANGED <<made, unlucky>> /\ Alone

\* Without a stub the wrapper answers STATUS_NOT_IMPLEMENTED.
Wrapper(t) ==
  /\ caller[t].at = "wrapper"
  /\ Moves(t, IF stub[caller[t].fn] THEN "out" ELSE "failed", caller[t].fn)
  /\ UNCHANGED <<made, unlucky>> /\ Alone

InstallStep == Initialize \/ Skip \/ Stub \/ FillSlot \/ ProtectFails \/ WriteFirst \/ WriteRest \/ Initialized
RemoveStep  == Shutdown \/ RemoveSkip \/ RestoreText \/ FreeSlot \/ ClearSlot \/ ShutDown

Next ==
  /\ \A t \in Caller : caller[t].at # "crashed"
  /\ InstallStep \/ RemoveStep \/ \E t \in Caller : CallFn(t) \/ Trap(t) \/ Wrapper(t)

Spec == Init /\ [][Next]_vars

-----------------------------------------------------------------------------
(* Properties.                                                             *)

\* Every variable has its type.
TypeOK ==
  /\ kind \in [Fn -> PatchKinds] /\ {denies, listening, ready, refused, unlucky} \subseteq BOOLEAN
  /\ text \in [Fn -> {"own", "torn", "jump", "break"}]
  /\ slots \in [Slot -> [active : 0..2, target : Fn \cup {"none"}, entry : BOOLEAN]]
  /\ stub \in [Fn -> BOOLEAN] /\ fitted \in [Fn -> BOOLEAN]
  /\ caller \in [Caller -> [at : {"out", "trap", "wrapper", "failed", "crashed"}, fn : Fn]]
  /\ turns \in 0..TurnMax /\ made \in 0..CallMax

\* Every call of the program reaches the original, at whatever point of an
\* installation, a removal and a new installation it is made; calls that meet a
\* half-written jump or a breakpoint being removed, and patches that could not be
\* written back, are the exceptions the code has.
CallsGetThrough ==
  (~refused /\ ~unlucky) => \A t \in Caller : caller[t].at \notin {"failed", "crashed"}

\* After a shutdown no function is patched, and no slot is taken, unless a
\* protection was refused.
ShutdownRestores ==
  (~refused /\ ~ready /\ \A w \in Installer : pos[w] = "idle") =>
    /\ \A f \in Fn : text[f] = "own"
    /\ \A i \in Slot : slots[i] = Unused

=============================================================================
