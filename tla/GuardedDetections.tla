-------------------------- MODULE GuardedDetections --------------------------
(***************************************************************************)
(* The guarded detection ranges of BLIND.dll                               *)
(* (src/DLL/hooks/runtime/runtime.cpp): pages whose next access is         *)
(* reported.  A page of an ntdll export table (Table) is reported once and *)
(* then left alone; a page that holds direct-syscall stubs (Stub) is only  *)
(* guarded when the policy asks for it, is reported at each access, and is *)
(* guarded again by a single-step trap after the access.                   *)
(*                                                                         *)
(* PAGE_GUARD is a one-shot bit of the system: the access that finds it    *)
(* clears it and raises a fault.  Target threads run instructions and      *)
(* handle their own faults; they also register pages, inside hooks.  Loop  *)
(* is the event loop's thread, which registers the export table of ntdll   *)
(* again and again and restores consumed guards.  Each critical section of *)
(* g_GuardedDetectionLock is one action, and so is each change of a page's *)
(* protection: between the two, other threads run.                         *)
(*                                                                         *)
(* Two vectored handlers lead to the same code (BlindVeh and               *)
(* GuardedDetectionVeh): what the first does not handle, the second tries. *)
(***************************************************************************)
EXTENDS Naturals, FiniteSets

CONSTANTS Target,     \* threads of the program
          Hooked,     \* those of them that call hooked functions
          Loop,       \* the thread of IxRuntimeEventLoopThreadProc
          Table,      \* export-table pages with Nt or Zw entries
          Original,   \* those of the ntdll that every process has
          Stub,       \* pages that hold direct-syscall stubs
          RangeMax,   \* kMaxGuardedDetectionRanges
          RearmMax,   \* kMaxGuardRearmEntries
          NoPage      \* no page

Page      == Table \cup Stub
Registrar == Hooked \cup {Loop}
Thread    == Target \cup {Loop}

ASSUME PagesDistinct ==
  Table \cap Stub = {} /\ Original \subseteq Table /\ NoPage \notin Page
ASSUME HookedAreTargets == Hooked \subseteq Target /\ Loop \notin Target
ASSUME RangeMaxPositive == RangeMax \in Nat \ {0}
\* With fewer entries than threads a trap may find no entry of its thread.
ASSUME RearmEntriesSuffice ==
  RearmMax \in Nat /\ IsFiniteSet(Target) /\ Cardinality(Target) <= RearmMax

\* What a target thread may execute: the page its code is on and the page it
\* reads, of those that count here.
Instruction ==
  {i \in [code : Stub \cup {NoPage}, data : Page \cup {NoPage}] : i.code # i.data}
NoInstruction == [code |-> NoPage, data |-> NoPage]

VARIABLES
  guarding,   \* IXIPC_HOOK_POLICY_FLAG_GUARD_DIRECT_SYSCALLS
  ranges,     \* g_GuardedDetectionRanges: the active entries
  rearm,      \* g_GuardRearmEntries: the page each thread's entry names
  guard,      \* pages that carry PAGE_GUARD
  committed,  \* pages whose memory has not been released
  pc,         \* where each thread is
  instr,      \* the instruction a target thread is executing
  page,       \* the page a thread's handler or registration is about
  todo,       \* the pages a registration has still to look at
  trapFlag    \* threads whose context has the trap flag set by the handler

memory == <<guard, committed>>
vars == <<guarding, ranges, rearm, memory, pc, instr, page, todo, trapFlag>>

Init ==
  /\ guarding \in BOOLEAN
  /\ ranges = {} /\ guard = {} /\ committed = Page
  /\ rearm = [t \in Target |-> NoPage]
  /\ pc = [t \in Thread |-> "idle"]
  /\ instr = [t \in Target |-> NoInstruction]
  /\ page = [t \in Thread |-> NoPage]
  /\ todo = [r \in Registrar |-> {}]
  /\ trapFlag = {}

Goto(r, label) == pc' = [pc EXCEPT ![r] = label]

\* The handler or the registration is through with its page.
Leave(r, label) == Goto(r, label) /\ page' = [page EXCEPT ![r] = NoPage]

\* FindGuardedRangeByKeyLocked: a page belongs to one kind and one module.
RangesAt(p) == {r \in ranges : r.page = p}
Armed(p)    == \E r \in RangesAt(p) : r.armed
Room        == Cardinality(ranges) < RangeMax
Executing   == UNION {{instr[t].code, instr[t].data} :
                        t \in {u \in Target : pc[u] \in {"run", "fault", "faultAgain",
                                                         "reapply", "report"}}}

-----------------------------------------------------------------------------
(* Target threads and the system.                                          *)

Begin(t, i) ==
  /\ pc[t] = "idle" /\ {i.code, i.data} \ {NoPage} \subseteq committed
  /\ instr' = [instr EXCEPT ![t] = i]
  /\ Goto(t, "run")
  /\ UNCHANGED <<guarding, ranges, rearm, memory, page, todo, trapFlag>>

\* The instruction is fetched before it reads; a guard is consumed by its fault.
Fault(t, p) ==
  /\ pc[t] = "run" /\ p \in guard
  /\ p = instr[t].code \/ (p = instr[t].data /\ instr[t].code \notin guard)
  /\ guard' = guard \ {p}
  /\ page' = [page EXCEPT ![t] = p]
  /\ Goto(t, "fault")
  /\ UNCHANGED <<guarding, ranges, rearm, committed, instr, todo, trapFlag>>

\* With the trap flag set, the processor traps after the instruction.
Complete(t) ==
  /\ pc[t] = "run" /\ {instr[t].code, instr[t].data} \cap guard = {}
  /\ instr' = [instr EXCEPT ![t] = NoInstruction]
  /\ Goto(t, IF t \in trapFlag THEN "step" ELSE "idle")
  /\ UNCHANGED <<guarding, ranges, rearm, memory, page, todo, trapFlag>>

\* The program frees memory and unloads modules it does not use; the original
\* ntdll stays.  What is gone does not come back.
Release(p) ==
  /\ p \in (committed \ Original) \ Executing
  /\ committed' = committed \ {p} /\ guard' = guard \ {p}
  /\ UNCHANGED <<guarding, ranges, rearm, pc, instr, page, todo, trapFlag>>

\* The program changes the protection of a page, which drops the guard.
Reprotect(p) ==
  /\ p \in guard \cap Stub
  /\ guard' = guard \ {p}
  /\ UNCHANGED <<guarding, ranges, rearm, committed, pc, instr, page, todo,
                 trapFlag>>

-----------------------------------------------------------------------------
(* HandleGuardedDetectionFault.                                            *)

\* An armed range counts more than one that is not, and the fault address more
\* than the address of the instruction.
\* mutant of Candidates: ranges that are not armed are not looked for
CandidatesArmed(t) ==
  LET armed == {r \in ranges : r.page \in {page[t], instr[t].code} /\ r.armed}
  IN {r \in armed : r.page = page[t] \/ \A q \in armed : q.page # page[t]}

Candidates(t) ==
  LET at    == {r \in ranges : r.page \in {page[t], instr[t].code}}
      armed == {r \in at : r.armed}
      best  == IF armed # {} THEN armed ELSE at
  IN {r \in best : r.page = page[t] \/ \A q \in best : q.page # page[t]}

\* No range: the second handler tries, and then the program gets the fault.
FaultMissed(t) ==
  /\ pc[t] \in {"fault", "faultAgain"} /\ Candidates(t) = {}
  /\ Goto(t, IF pc[t] = "fault" THEN "faultAgain" ELSE "unhandled")
  /\ UNCHANGED <<guarding, ranges, rearm, memory, instr, page, todo, trapFlag>>

\* A range that is not armed only costs the program the fault, and so does the
\* read of an export table by BLIND or by a module: only code of the image and
\* of private memory, which stub pages are, looks interesting.
FaultFound(t) ==
  /\ pc[t] \in {"fault", "faultAgain"}
  /\ \E r \in Candidates(t) :
       \/ /\ r.armed
          /\ page' = [page EXCEPT ![t] = r.page]
          /\ Goto(t, IF r.page \in Stub THEN "reapply" ELSE "report")
       \/ /\ ~r.armed \/ (r.page \in Table /\ instr[t].code = NoPage)
          /\ Leave(t, "run")
  /\ UNCHANGED <<guarding, ranges, rearm, memory, instr, todo, trapFlag>>

\* ArmGuardReapplyAfterSingleStep: the thread's own entry, or a free one.  The
\* trap flag is set even when there is none.
Reapply(t) ==
  /\ pc[t] = "reapply"
  /\ rearm' = IF rearm[t] # NoPage \/
                 Cardinality({u \in Target : rearm[u] # NoPage}) < RearmMax
              THEN [rearm EXCEPT ![t] = page[t]] ELSE rearm
  /\ trapFlag' = trapFlag \cup {t}
  /\ Leave(t, "run")
  /\ UNCHANGED <<guarding, ranges, memory, instr, todo>>

\* The table's page has been read: report it and leave it alone from now on.
Report(t) ==
  /\ pc[t] = "report"
  /\ ranges' = {IF r.page = page[t] THEN [r EXCEPT !.armed = FALSE, !.told = TRUE]
                ELSE r : r \in ranges}
  /\ Leave(t, "run")
  /\ UNCHANGED <<guarding, rearm, memory, instr, todo, trapFlag>>

-----------------------------------------------------------------------------
(* HandleGuardedDetectionSingleStep.                                       *)

Consume(t) ==
  /\ pc[t] \in {"step", "stepAgain"} /\ rearm[t] # NoPage
  /\ page' = [page EXCEPT ![t] = rearm[t]]
  /\ rearm' = [rearm EXCEPT ![t] = NoPage]
  /\ trapFlag' = trapFlag \ {t}
  /\ Goto(t, "restore")
  /\ UNCHANGED <<guarding, ranges, memory, instr, todo>>

\* A trap without an entry is swallowed as long as any range is armed.
StepForeign(t) ==
  /\ pc[t] \in {"step", "stepAgain"} /\ rearm[t] = NoPage
  /\ IF \E r \in ranges : r.armed
     THEN trapFlag' = trapFlag \ {t} /\ Goto(t, "idle")
     ELSE /\ trapFlag' = trapFlag
          /\ Goto(t, IF pc[t] = "step" THEN "stepAgain" ELSE "trapped")
  /\ UNCHANGED <<guarding, ranges, rearm, memory, instr, page, todo>>

Restore(t) ==
  /\ pc[t] = "restore"
  /\ guard' = guard \cup ({page[t]} \cap committed)
  /\ Leave(t, "idle")
  /\ UNCHANGED <<guarding, ranges, rearm, committed, instr, todo, trapFlag>>

-----------------------------------------------------------------------------
(* RegisterGuardedExportRange, from the event loop and from loader hooks.  *)

\* The next page; after the last one, the event loop restores all guards and the
\* hook returns.
NextPage(r, left) ==
  Leave(r, IF left # {} THEN "check" ELSE IF r = Loop THEN "rearm" ELSE "idle")

\* The event loop sees to the original ntdll; a hook that loads a module sees to
\* it or to another ntdll.  Either reads the directory, which lies on the
\* table's pages or elsewhere; a guard it meets is consumed as an access of BLIND.
BeginRegister(r) ==
  /\ pc[r] = "idle"
  /\ \/ todo' = [todo EXCEPT ![r] = Original]
     \/ r # Loop /\ todo' = [todo EXCEPT ![r] = (Table \ Original) \cap committed]
  /\ todo'[r] # {}
  /\ guard' \in {guard, guard \ todo'[r]}
  /\ Goto(r, "check")
  /\ UNCHANGED <<guarding, ranges, rearm, committed, instr, page, trapFlag>>

\* A page that was reported and disarmed is done with.
Check(r) ==
  /\ pc[r] = "check"
  /\ \E p \in todo[r] :
       /\ todo' = [todo EXCEPT ![r] = @ \ {p}]
       /\ IF \E x \in RangesAt(p) : ~x.armed /\ x.told
          THEN NextPage(r, todo[r] \ {p})
          ELSE page' = [page EXCEPT ![r] = p] /\ Goto(r, "insert")
  /\ UNCHANGED <<guarding, ranges, rearm, memory, instr, trapFlag>>

NewRange(p, armed) == [page |-> p, armed |-> armed, told |-> FALSE]

\* The lock was given up since the check: the key is looked for again.
\* mutant of Insert: trust the check
InsertUnchecked(r) ==
  /\ pc[r] = "insert" /\ Room
  /\ ranges' = ranges \cup {NewRange(page[r], FALSE)}
  /\ Goto(r, "applyNew")
  /\ UNCHANGED <<guarding, rearm, memory, instr, page, todo, trapFlag>>

Insert(r) ==
  /\ pc[r] = "insert"
  /\ \/ /\ RangesAt(page[r]) # {}
        /\ UNCHANGED <<ranges, page>> /\ Goto(r, "applyOld")
     \/ /\ RangesAt(page[r]) = {} /\ Room
        /\ ranges' = ranges \cup {NewRange(page[r], FALSE)}
        /\ UNCHANGED page /\ Goto(r, "applyNew")
     \/ /\ RangesAt(page[r]) = {} /\ ~Room
        /\ UNCHANGED ranges /\ NextPage(r, todo[r])
  /\ UNCHANGED <<guarding, rearm, memory, instr, todo, trapFlag>>

\* ApplyGuardToRange fails on released memory.
Apply(r) ==
  /\ pc[r] \in {"applyNew", "applyOld"}
  /\ \/ /\ page[r] \in committed
        /\ guard' = guard \cup {page[r]}
        /\ UNCHANGED page /\ Goto(r, "arm")
     \/ /\ page[r] \notin committed /\ UNCHANGED guard
        /\ IF pc[r] = "applyNew" THEN UNCHANGED page /\ Goto(r, "undo")
                                 ELSE NextPage(r, todo[r])
  /\ UNCHANGED <<guarding, ranges, rearm, committed, instr, todo, trapFlag>>

Undo(r) ==
  /\ pc[r] = "undo"
  /\ ranges' = {x \in ranges : x.page = page[r] => x.armed}
  /\ NextPage(r, todo[r])
  /\ UNCHANGED <<guarding, rearm, memory, instr, todo, trapFlag>>

Arm(r) ==
  /\ pc[r] = "arm"
  /\ ranges' = {IF x.page = page[r] THEN [x EXCEPT !.armed = TRUE] ELSE x :
                  x \in ranges}
  /\ NextPage(r, todo[r])
  /\ UNCHANGED <<guarding, rearm, memory, instr, todo, trapFlag>>

-----------------------------------------------------------------------------
(* RegisterDirectSyscallPage, from hooks that see memory change.           *)

Observe(t, p) ==
  /\ pc[t] = "idle" /\ p \in (Stub \cap committed) \ guard
  /\ page' = [page EXCEPT ![t] = p]
  /\ Goto(t, IF guarding THEN "applyStub" ELSE "insertStub")
  /\ UNCHANGED <<guarding, ranges, rearm, memory, instr, todo, trapFlag>>

\* The page is guarded before the table knows it.
ApplyStub(t) ==
  /\ pc[t] = "applyStub"
  /\ \/ /\ page[t] \in committed
        /\ guard' = guard \cup {page[t]}
        /\ UNCHANGED page /\ Goto(t, "insertStub")
     \/ page[t] \notin committed /\ UNCHANGED guard /\ Leave(t, "idle")
  /\ UNCHANGED <<guarding, ranges, rearm, committed, instr, todo, trapFlag>>

\* Without guards, a stub equal to one that is known needs no range of its own.
InsertStub(t) ==
  LET twin == ~guarding /\ \E r \in ranges : r.page \in Stub
  IN /\ pc[t] = "insertStub"
     /\ \/ /\ RangesAt(page[t]) # {}
           /\ ranges' = {IF r.page = page[t]
                         THEN [r EXCEPT !.armed = @ \/ guarding] ELSE r :
                           r \in ranges}
        \/ /\ RangesAt(page[t]) = {} /\ Room
           /\ ranges' = ranges \cup {NewRange(page[t], guarding)}
        \/ /\ RangesAt(page[t]) = {} /\ (twin \/ ~Room)
           /\ ranges' = ranges
     /\ Leave(t, "idle")
     /\ UNCHANGED <<guarding, rearm, memory, instr, todo, trapFlag>>

-----------------------------------------------------------------------------
(* RearmGuardedDetections: released pages are forgotten, consumed guards   *)
(* of armed ranges restored, all under the lock.                           *)

\* mutant of Rearm: ranges that were reported once are passed over
RearmUntold ==
  /\ pc[Loop] \in {"idle", "rearm"}
  /\ ranges' = {r \in ranges : r.armed => r.page \in committed}
  /\ guard' = guard \cup {r.page : r \in {x \in ranges' : x.armed /\ ~x.told}}
  /\ Goto(Loop, "idle")
  /\ UNCHANGED <<guarding, rearm, committed, instr, page, todo, trapFlag>>

Rearm ==
  /\ pc[Loop] \in {"idle", "rearm"}
  /\ ranges' = {r \in ranges : r.armed => r.page \in committed}
  /\ guard' = guard \cup {r.page : r \in {x \in ranges' : x.armed}}
  /\ Goto(Loop, "idle")
  /\ UNCHANGED <<guarding, rearm, committed, instr, page, todo, trapFlag>>

-----------------------------------------------------------------------------
\* The program may also set the trap flag itself.
OwnTrap(t) ==
  /\ pc[t] = "idle"
  /\ Goto(t, "step")
  /\ UNCHANGED <<guarding, ranges, rearm, memory, instr, page, todo, trapFlag>>

OwnTrapDelivered(t) ==
  /\ pc[t] = "trapped" /\ t \notin trapFlag
  /\ Goto(t, "idle")
  /\ UNCHANGED <<guarding, ranges, rearm, memory, instr, page, todo, trapFlag>>

RegisterStep(r) ==
  BeginRegister(r) \/ Check(r) \/ Insert(r) \/ Apply(r) \/ Undo(r) \/ Arm(r)

ProgramStep(t) ==
  \/ \E i \in Instruction : Begin(t, i)
  \/ \E p \in Page : Fault(t, p)
  \/ Complete(t) \/ OwnTrap(t) \/ OwnTrapDelivered(t)

HandlerStep(t) ==
  \/ FaultMissed(t) \/ FaultFound(t) \/ Reapply(t) \/ Report(t)
  \/ Consume(t) \/ StepForeign(t) \/ Restore(t)

HookStep(t) ==
  \/ RegisterStep(t)
  \/ \E p \in Stub : Observe(t, p)
  \/ ApplyStub(t) \/ InsertStub(t)

LoopStep == RegisterStep(Loop) \/ Rearm

Next ==
  \/ \E t \in Target : ProgramStep(t) \/ HandlerStep(t)
  \/ \E t \in Hooked : HookStep(t)
  \/ \E p \in Page : Release(p) \/ Reprotect(p)
  \/ LoopStep

Spec     == Init /\ [][Next]_vars
FairSpec == Spec /\ WF_vars(LoopStep)

-----------------------------------------------------------------------------
(* Properties.                                                             *)

Labels == {"idle", "run", "fault", "faultAgain", "unhandled", "reapply", "report",
           "step", "stepAgain", "trapped", "restore", "check", "insert",
           "applyNew", "applyOld", "undo", "arm", "applyStub", "insertStub",
           "rearm"}

\* Every variable has its type and the tables their sizes, and a page has one
\* range, however many threads register it at once, check it with the lock shared
\* and insert it later: of two, the one that stays armed would guard a reported
\* page for ever.
TypeOK ==
  /\ guarding \in BOOLEAN
  /\ ranges \subseteq [page : Page, armed : BOOLEAN, told : BOOLEAN]
  /\ Cardinality(ranges) <= RangeMax
  /\ rearm \in [Target -> Stub \cup {NoPage}]
  /\ guard \subseteq committed /\ committed \subseteq Page
  /\ pc \in [Thread -> Labels]
  /\ instr \in [Target -> Instruction \cup {NoInstruction}]
  /\ page \in [Thread -> Page \cup {NoPage}]
  /\ todo \in [Registrar -> SUBSET Table]
  /\ trapFlag \subseteq Target
  /\ \A r, q \in ranges : r.page = q.page => r = q

\* Reading an export table never kills the program, although guards are applied
\* and restored outside the handler, ranges disarmed while their page is guarded
\* again, and slots given to other pages: the only fault no range explains is one
\* on a stub page that the policy asked to guard.
TableReadsSurvive ==
  \A t \in Target : pc[t] = "unhandled" => guarding /\ page[t] \in Stub

\* Guards that accesses consumed come back as long as the event loop runs: again
\* and again every armed page is guarded, whatever entries were overwritten,
\* traps are outstanding and registrations under way.
GuardReturns ==
  []<>(\A p \in Page : Armed(p) => p \in guard)

\* --guard-direct-syscalls guards pages "and capture[s] follow-up reads/executes"
\* (DIAGNOSTICS.md:56): an access to a page that BLIND guards is handled.  The
\* code guards the page before the table knows it, and leaves it guarded when the
\* table is full: the program then gets a guard fault nobody explains.
FollowUpsCaptured ==
  \A t \in Target : pc[t] # "unhandled"

=============================================================================
