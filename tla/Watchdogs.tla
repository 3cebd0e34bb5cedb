------------------------------- MODULE Watchdogs -------------------------------
(***************************************************************************)
(* The watchdogs of the runtime's event loop: the own hook patches, the    *)
(* exports AmsiScanBuffer and EtwEventWrite (integrity.cpp), and the map   *)
(* of the runtime's own memory (runtime.cpp).  Each compares what it finds *)
(* with what it found last, publishes a change at once and a standing      *)
(* state again after a period; the publisher may take an event or shed it. *)
(*                                                                         *)
(* The watchdogs share nothing but the turn of the loop: in a behaviour    *)
(* the program changes what one of them watches (focus).  Ticks are kept   *)
(* as the time since; "now - 0" is longer than any period.                 *)
(***************************************************************************)
EXTENDS Naturals, FiniteSets

CONSTANTS Component,     \* hook controllers: winsock, nt, ki, module
          Export,        \* the watched exports
          CheckPeriod,   \* kIntegrityCheckPeriodMs; kIxSelfMapScanPeriodMs of the map
          Republish,     \* kIntegrityRepublishPeriodMs, kPatchTamperRepublishPeriodMs
                         \* and kIxSelfMapUnchangedRepublishPeriodMs
          Content,       \* what the runtime's memory may consist of: numbers in
                         \* the order in which they are collected
          EntryMax       \* entries a snapshot has room for

VARIABLES
  focus,       \* the watchdog whose subject changes
  ready,       \* components whose controller is initialised
  broken,      \* components with a patch that is not the one installed
  image,       \* each export in memory
  own,         \* what a complete map of the runtime's memory would list
  age,         \* time since the last check, publication or scan of each kind
  mask,        \* g_LastIntegrityMask
  first,       \* g_AmsiFirstPoll, g_EtwFirstPoll
  tampered,    \* g_LastAmsiTampered, g_LastEtwTampered
  expected,    \* ExpectedCaptured of each probe
  signature,   \* what g_LastIxSelfMapSignature is the hash of
  told,        \* what the host was last told of each subject
  lost,        \* history: subjects whose last publication was shed
  turn         \* what the event loop does next

program == <<focus, ready, broken, image, own>>
memory  == <<mask, first, tampered, expected, signature>>
vars    == <<program, memory, age, told, lost, turn>>

Clock   == {"check", "mask", "scan", "map"} \cup Export
Subject == {"mask", "map"} \cup Export
Unset   == Component \cup {"unset"}
NoMap   == {0}

Init ==
  /\ focus \in {"mask", "map"} \cup Export
  /\ ready = {} /\ broken = {} /\ own = {}
  /\ image \in [Export -> {"absent", "clean"}]
  /\ \A e \in Export : e # focus => image[e] = "absent"
  /\ age = [c \in Clock |-> Republish]
  /\ mask = Unset /\ signature = NoMap
  /\ first = [e \in Export |-> TRUE] /\ tampered = [e \in Export |-> FALSE]
  /\ expected = [e \in Export |-> FALSE]
  /\ told = [s \in Subject |-> IF s = "mask" THEN Unset ELSE IF s = "map" THEN NoMap ELSE "nothing"]
  /\ lost = {}
  /\ turn = "wait"

-----------------------------------------------------------------------------
(* The program: controllers start, patches are overwritten, lifted and put *)
(* back, exports are patched, modules come and go.                         *)

Initialize ==
  /\ focus = "mask"
  /\ \E c \in Component \ ready : ready' = ready \cup {c}
  /\ UNCHANGED <<focus, broken, image, own, memory, age, told, lost, turn>>

PatchHook ==
  /\ focus = "mask"
  /\ \E c \in ready : broken' = IF c \in broken THEN broken \ {c} ELSE broken \cup {c}
  /\ UNCHANGED <<focus, ready, image, own, memory, age, told, lost, turn>>

\* A patch begins with a jump or a return, or is one only the file tells.
PatchExport ==
  /\ focus \in Export
  /\ \E i \in {"absent", "clean", "jump", "subtle"} \ {image[focus]} : image' = [image EXCEPT ![focus] = i]
  /\ UNCHANGED <<focus, ready, broken, own, memory, age, told, lost, turn>>

ChangeMemory ==
  /\ focus = "map"
  /\ own' \in (SUBSET Content) \ {own}
  /\ UNCHANGED <<focus, ready, broken, image, memory, age, told, lost, turn>>

\* The wait of the event loop ends with its event or after 60 ms.
Wake ==
  /\ turn = "wait" /\ turn' = "hooks"
  /\ age' = [c \in Clock |-> IF age[c] < Republish THEN age[c] + 1 ELSE age[c]]
  /\ UNCHANGED <<program, memory, told, lost>>

-----------------------------------------------------------------------------
(* PollHookIntegrityWatchdog.                                              *)

Now(clocks) == age' = [c \in Clock |-> IF c \in clocks THEN 0 ELSE age[c]]

\* mutant of MaskPublished: hooks that are in place again are not reported
MaskPublishedBad(m) == m # {} /\ (m # mask \/ age["mask"] = Republish)

MaskPublished(m) ==
  IF m # {} THEN m # mask \/ age["mask"] = Republish ELSE m # mask /\ mask # {}

PollTooEarly ==
  /\ turn = "hooks" /\ age["check"] < CheckPeriod /\ turn' = "map"
  /\ UNCHANGED <<program, memory, age, told, lost>>

PollUninitialized ==
  /\ turn = "hooks" /\ age["check"] >= CheckPeriod /\ ready = {} /\ turn' = "exports"
  /\ Now({"check"})
  /\ UNCHANGED <<program, memory, told, lost>>

\* The mask is remembered whether or not its event is taken.
PollHooks(taken) ==
  /\ turn = "hooks" /\ age["check"] >= CheckPeriod /\ ready # {} /\ turn' = "exports"
  /\ LET m == broken \cap ready
         publish == MaskPublished(m) IN
       /\ mask' = m
       /\ taken => publish
       /\ Now(IF taken THEN {"check", "mask"} ELSE {"check"})
       /\ told' = IF taken THEN [told EXCEPT !["mask"] = m] ELSE told
       /\ lost' = (lost \ {s \in {"mask"} : taken}) \cup {s \in {"mask"} : publish /\ ~taken}
  /\ UNCHANGED <<program, first, tampered, expected, signature>>

-----------------------------------------------------------------------------
(* PollAmsiEtwPatchWatchdog, ProbeExportPatchState.                        *)

Present(e) == image[e] # "absent"

\* A prologue that looks like a patch, or is not the file's: the file is read
\* once, when it can be.
Probe(e, readable) ==
  image[e] = "jump" \/ (image[e] = "subtle" /\ (expected[e] \/ e \in readable))

\* mutant of ExportPublished: a standing patch is reported once
ExportPublishedOnce(e, bad) == first[e] \/ bad # tampered[e]

ExportPublished(e, bad) ==
  first[e] \/ bad # tampered[e] \/ (bad /\ age[e] = Republish)

\* An absent module takes its cached prologue and its last state with it.
PollExports(readable, taken) ==
  /\ turn = "exports" /\ turn' = "map"
  /\ LET bad  == {e \in Export : Present(e) /\ Probe(e, readable)}
         sent == {e \in Export : Present(e) /\ ExportPublished(e, e \in bad)} IN
       /\ taken \subseteq sent
       /\ told' = [s \in Subject |-> IF s \notin taken THEN told[s]
                                  ELSE IF s \in bad THEN "patched" ELSE "clean"]
       /\ lost' = (lost \ taken) \cup (sent \ taken)
       /\ tampered' = [e \in Export |-> e \in bad]
  /\ Now(taken)
  /\ first' = [e \in Export |-> FALSE]
  /\ expected' = [e \in Export |-> Present(e) /\ (expected[e] \/ e \in readable)]
  /\ UNCHANGED <<program, mask, signature>>

-----------------------------------------------------------------------------
(* PublishIxSelfMapSnapshotBestEffort.                                     *)

\* What does not fit is left out, also of the signature.
Snapshot == {i \in own : Cardinality({j \in own : j < i}) < EntryMax}

MapPublished(s) == signature = NoMap \/ s # signature \/ age["map"] = Republish

ScanNothing ==
  /\ turn = "map" /\ turn' = "wait"
  /\ \/ age["scan"] < CheckPeriod /\ UNCHANGED age
     \/ age["scan"] >= CheckPeriod /\ ~MapPublished(Snapshot) /\ Now({"scan"})
  /\ UNCHANGED <<program, memory, told, lost>>

\* Every entry is an event of its own that may be shed.
ScanPublishes(taken) ==
  /\ turn = "map" /\ turn' = "wait"
  /\ age["scan"] >= CheckPeriod /\ MapPublished(Snapshot) /\ taken \subseteq Snapshot
  /\ Now({"scan", "map"})
  /\ signature' = Snapshot
  /\ told' = [told EXCEPT !["map"] = taken]
  /\ lost' = (lost \ {"map"}) \cup {s \in {"map"} : taken # Snapshot}
  /\ UNCHANGED <<program, mask, first, tampered, expected>>

-----------------------------------------------------------------------------
LoopStep ==
  \/ Wake \/ PollTooEarly \/ PollUninitialized \/ ScanNothing
  \/ \E taken \in BOOLEAN : PollHooks(taken)
  \/ \E readable \in SUBSET Export, taken \in SUBSET Export : PollExports(readable, taken)
  \/ \E taken \in SUBSET Content : ScanPublishes(taken)

Next == Initialize \/ PatchHook \/ PatchExport \/ ChangeMemory \/ LoopStep

\* The loop always comes back, and an event is taken if one is offered again and
\* again: the dispatch thread returns the nodes of the pool.
Fairness ==
  /\ WF_vars(LoopStep)
  /\ SF_vars(PollHooks(TRUE))
  /\ \A e \in Export : SF_vars(\E readable \in SUBSET Export : PollExports(readable, {e}))
  /\ SF_vars(ScanPublishes(Snapshot))

Spec == Init /\ [][Next]_vars /\ Fairness

-----------------------------------------------------------------------------
(* Properties.                                                             *)

\* Every variable has its type.
TypeOK ==
  /\ ready \subseteq Component /\ broken \subseteq ready /\ own \subseteq Content
  /\ age \in [Clock -> 0..Republish] /\ lost \subseteq Subject
  /\ mask = Unset \/ mask \subseteq Component
  /\ first \in [Export -> BOOLEAN] /\ tampered \in [Export -> BOOLEAN] /\ expected \in [Export -> BOOLEAN]
  /\ turn \in {"wait", "hooks", "exports", "map"}

\* What the host was last told is what the last look found, unless the event was
\* shed: hooks that were changed and restored, a patched export, the map.
HostIsUpToDate ==
  /\ (mask # Unset /\ "mask" \notin lost) => told["mask"] = mask
  /\ \A e \in Export : tampered[e] /\ e \notin lost => told[e] = "patched"
  /\ (signature # NoMap /\ "map" \notin lost) => told["map"] = signature

\* A bad state that stays reaches the host although its first event was shed;
\* so does the map, which is published again even when it is unchanged.
StandingStatesAreTold ==
  /\ \A m \in (SUBSET Component) \ {{}} : <>[](broken = m) => <>[](told["mask"] = m)
  /\ \A e \in Export : <>[](image[e] = "jump") => <>[](told[e] = "patched")
  /\ \A c \in SUBSET Content :
       <>[](own = c) => []<>(told["map"] = {i \in c : Cardinality({j \in c : j < i}) < EntryMax})

=============================================================================
