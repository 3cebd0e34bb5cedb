------------------------- MODULE GuardedDetectionsProofs -------------------------
(***************************************************************************)
(* Theorems about GuardedDetections, for every set of threads and pages    *)
(* and every size of the tables.                                           *)
(***************************************************************************)
EXTENDS GuardedDetections, Functions, FiniteSetTheorems, TLAPS

GuardedRange == [page : Page, armed : BOOLEAN, told : BOOLEAN]
PagesOf(S)   == {r.page : r \in S}

\* S may be the table of ranges.
Fits(S) ==
  /\ S \subseteq GuardedRange /\ IsFiniteSet(S) /\ Cardinality(S) <= RangeMax
  /\ \A r, q \in S : r.page = q.page => r = q

-----------------------------------------------------------------------------
(* The invariant.                                                           *)

GuardTypes ==
  /\ guarding \in BOOLEAN /\ Fits(ranges)
  /\ rearm \in [Target -> Stub \cup {NoPage}]
  /\ guard \subseteq committed /\ committed \subseteq Page
  /\ pc \in [Thread -> Labels]
  /\ instr \in [Target -> Instruction \cup {NoInstruction}]
  /\ page \in [Thread -> Page \cup {NoPage}]
  /\ todo \in [Registrar -> SUBSET Table]
  /\ trapFlag \subseteq Target

\* Which pages a handler or a registration can be about at each of its steps.
PageRoles ==
  /\ \A r \in Registrar : pc[r] \in {"insert", "applyNew", "applyOld", "undo", "arm"} =>
       page[r] \in Table
  /\ \A t \in Target : pc[t] \in {"reapply", "restore", "applyStub", "insertStub"} =>
       page[t] \in Stub
  /\ \A t \in Target : pc[t] \in {"fault", "faultAgain"} =>
       page[t] \in Page \cap {instr[t].code, instr[t].data}
  /\ pc[Loop] \in {"idle", "check", "insert", "applyNew", "applyOld", "undo", "arm", "rearm"}

\* Memory an instruction is using is not released; a range is only taken back when
\* its page was.
NoneUnderAccess ==
  /\ \A t \in Target :
       pc[t] \in {"run", "fault", "faultAgain", "reapply", "report"} =>
         {instr[t].code, instr[t].data} \ {NoPage} \subseteq committed
  /\ \A r \in Registrar : pc[r] = "undo" => page[r] \notin committed

\* A guard on an export table, and a fault it has raised, are explained by a range,
\* and so is the guard a registration is about to apply.
GuardsExplained ==
  /\ guard \cap Table \subseteq PagesOf(ranges)
  /\ \A t \in Target : pc[t] \in {"fault", "faultAgain"} /\ page[t] \in Table =>
       page[t] \in PagesOf(ranges)
  /\ \A r \in Registrar : pc[r] \in {"applyNew", "applyOld"} /\ page[r] \in committed =>
       page[r] \in PagesOf(ranges)

\* Without the policy no stub page is guarded, about to be, or in a fault.
StubsOnRequest ==
  guarding \/
    /\ guard \cap Stub = {} /\ \A r \in ranges : r.armed => r.page \notin Stub
    /\ \A t \in Target : rearm[t] = NoPage
    /\ \A t \in Target : pc[t] \notin {"reapply", "restore", "applyStub"}
    /\ \A t \in Target : pc[t] \in {"fault", "faultAgain"} => page[t] \notin Stub

GuardInv ==
  GuardTypes /\ PageRoles /\ NoneUnderAccess /\ GuardsExplained /\ StubsOnRequest
    /\ TableReadsSurvive

-----------------------------------------------------------------------------
(* The table of ranges.                                                     *)

\* A table that lost ranges.
LEMMA FewerRanges ==
  ASSUME NEW S, Fits(S), NEW T \in SUBSET S
  PROVE  Fits(T)
<1>1. IsFiniteSet(T) /\ Cardinality(T) <= Cardinality(S) /\ Cardinality(T) \in Nat /\ Cardinality(S) \in Nat
  BY FS_Subset, FS_CardinalityType DEF Fits
<1> QED
  BY <1>1, RangeMaxPositive DEF Fits

\* A table with room takes a range for a page that has none.
LEMMA OneMoreRange ==
  ASSUME NEW S, Fits(S), Cardinality(S) < RangeMax,
         NEW x \in GuardedRange, x.page \notin PagesOf(S)
  PROVE  Fits(S \cup {x}) /\ PagesOf(S \cup {x}) = PagesOf(S) \cup {x.page}
<1>1. x \notin S
  BY DEF PagesOf
<1>2. IsFiniteSet(S \cup {x}) /\ Cardinality(S \cup {x}) = Cardinality(S) + 1
  BY <1>1, FS_AddElement DEF Fits
<1>3. Cardinality(S) \in Nat
  BY FS_CardinalityType DEF Fits
<1> QED
  BY <1>2, <1>3, RangeMaxPositive DEF Fits, PagesOf

\* Ranges that are armed, disarmed or marked keep their pages.
LEMMA SamePages ==
  ASSUME NEW S, Fits(S), NEW f \in [S -> GuardedRange], \A x \in S : f[x].page = x.page
  PROVE  Fits({f[x] : x \in S}) /\ PagesOf({f[x] : x \in S}) = PagesOf(S)
<1>1. /\ IsFiniteSet({f[x] : x \in S}) /\ Cardinality({f[x] : x \in S}) <= Cardinality(S)
  <2>1. f \in Surjection(S, {f[x] : x \in S})
    BY DEF Surjection
  <2> QED
    BY <2>1, FS_Surjection DEF Fits
<1>2. Cardinality({f[x] : x \in S}) \in Nat /\ Cardinality(S) \in Nat
  BY <1>1, FS_CardinalityType DEF Fits
<1>3. \A r, q \in {f[x] : x \in S} : r.page = q.page => r = q
  BY DEF Fits
<1>4. PagesOf({f[x] : x \in S}) = PagesOf(S)
  BY DEF PagesOf
<1> QED
  BY <1>1, <1>2, <1>3, <1>4, RangeMaxPositive DEF Fits

\* Sets, threads and labels the steps rely on.
LEMMA GuardFacts ==
  /\ Page = Table \cup Stub /\ Table \cap Stub = {} /\ NoPage \notin Page
  /\ Original \subseteq Table
  /\ Thread = Target \cup {Loop} /\ Registrar = Hooked \cup {Loop}
  /\ Hooked \subseteq Target /\ Loop \notin Target
  /\ Registrar \subseteq Thread /\ Target \subseteq Thread
BY PagesDistinct, HookedAreTargets DEF Page, Thread, Registrar

-----------------------------------------------------------------------------
(* Steps that change the table of ranges.                                   *)

\* The handler finds a range whenever there is one for the fault's page.
LEMMA CandidatesFound ==
  \A t \in Target :
    /\ Candidates(t) \subseteq ranges
    /\ page[t] \in PagesOf(ranges) => Candidates(t) # {}
<1> SUFFICES ASSUME NEW t \in Target
             PROVE  /\ Candidates(t) \subseteq ranges
                    /\ page[t] \in PagesOf(ranges) => Candidates(t) # {}
  OBVIOUS
<1> DEFINE here  == {r \in ranges : r.page \in {page[t], instr[t].code}}
           armed == {r \in here : r.armed}
           best  == IF armed # {} THEN armed ELSE here
<1>1. Candidates(t) = {r \in best : r.page = page[t] \/ \A q \in best : q.page # page[t]}
  BY DEF Candidates
<1>2. best \subseteq ranges
  OBVIOUS
<1>3. ASSUME page[t] \in PagesOf(ranges) PROVE best # {}
  BY <1>3 DEF PagesOf
<1> HIDE DEF best
<1> QED
  BY <1>1, <1>2, <1>3


-----------------------------------------------------------------------------
(* Steps that leave the table of ranges alone.                              *)

\* An instruction starts on memory that is there.
LEMMA BeginMoves ==
  ASSUME GuardInv, NEW t \in Target, NEW i \in Instruction, Begin(t, i)
  PROVE  GuardInv'
<1>1. GuardTypes'
  BY GuardFacts DEF GuardInv, GuardTypes, Begin, Goto, memory, Labels, PageRoles
<1>2. PageRoles'
  BY GuardFacts DEF GuardInv, GuardTypes, PageRoles, Begin, Goto, memory, RangesAt, PagesOf
<1>3. NoneUnderAccess'
  BY GuardFacts DEF GuardInv, GuardTypes, PageRoles, NoneUnderAccess, Begin, Goto, memory
<1>4. GuardsExplained'
  BY GuardFacts DEF GuardInv, GuardTypes, PageRoles, GuardsExplained, NoneUnderAccess, Begin, Goto, memory
<1>5. StubsOnRequest'
  BY GuardFacts DEF GuardInv, GuardTypes, PageRoles, StubsOnRequest, Begin, Goto, memory
<1>6. TableReadsSurvive'
  BY GuardFacts DEF GuardInv, GuardTypes, PageRoles, StubsOnRequest, TableReadsSurvive, GuardsExplained, Begin, Goto, memory
<1> QED
  BY <1>1, <1>2, <1>3, <1>4, <1>5, <1>6 DEF GuardInv

\* The fault consumes the guard; a range explained the guard, and now the fault.
LEMMA FaultMoves ==
  ASSUME GuardInv, NEW t \in Target, NEW p \in Page, Fault(t, p)
  PROVE  GuardInv'
<1>1. GuardTypes'
  BY GuardFacts DEF GuardInv, GuardTypes, Fault, Goto, memory, Labels, PageRoles
<1>2. PageRoles'
  BY GuardFacts DEF GuardInv, GuardTypes, PageRoles, Fault, Goto, memory, RangesAt, PagesOf
<1>3. NoneUnderAccess'
  BY GuardFacts DEF GuardInv, GuardTypes, PageRoles, NoneUnderAccess, Fault, Goto, memory
<1>4. GuardsExplained'
  BY GuardFacts DEF GuardInv, GuardTypes, PageRoles, GuardsExplained, NoneUnderAccess, Fault, Goto, memory
<1>5. StubsOnRequest'
  BY GuardFacts DEF GuardInv, GuardTypes, PageRoles, StubsOnRequest, Fault, Goto, memory
<1>6. TableReadsSurvive'
  BY GuardFacts DEF GuardInv, GuardTypes, PageRoles, StubsOnRequest, TableReadsSurvive, GuardsExplained, Fault, Goto, memory
<1> QED
  BY <1>1, <1>2, <1>3, <1>4, <1>5, <1>6 DEF GuardInv

\* An instruction ends, trapped or not.
LEMMA CompleteMoves ==
  ASSUME GuardInv, NEW t \in Target, Complete(t)
  PROVE  GuardInv'
<1>1. GuardTypes'
  BY GuardFacts DEF GuardInv, GuardTypes, Complete, Goto, memory, Labels, PageRoles
<1>2. PageRoles'
  BY GuardFacts DEF GuardInv, GuardTypes, PageRoles, Complete, Goto, memory, RangesAt, PagesOf
<1>3. NoneUnderAccess'
  BY GuardFacts DEF GuardInv, GuardTypes, PageRoles, NoneUnderAccess, Complete, Goto, memory
<1>4. GuardsExplained'
  BY GuardFacts DEF GuardInv, GuardTypes, PageRoles, GuardsExplained, NoneUnderAccess, Complete, Goto, memory
<1>5. StubsOnRequest'
  BY GuardFacts DEF GuardInv, GuardTypes, PageRoles, StubsOnRequest, Complete, Goto, memory
<1>6. TableReadsSurvive'
  BY GuardFacts DEF GuardInv, GuardTypes, PageRoles, StubsOnRequest, TableReadsSurvive, GuardsExplained, Complete, Goto, memory
<1> QED
  BY <1>1, <1>2, <1>3, <1>4, <1>5, <1>6 DEF GuardInv

\* Memory that nobody uses goes, and its guard with it.
LEMMA ReleaseMoves ==
  ASSUME GuardInv, NEW p \in Page, Release(p)
  PROVE  GuardInv'
<1>1. GuardTypes'
  BY GuardFacts DEF GuardInv, GuardTypes, Release, Executing, memory, Labels, PageRoles
<1>2. PageRoles'
  BY GuardFacts DEF GuardInv, GuardTypes, PageRoles, Release, Executing, memory, RangesAt, PagesOf
<1>3. NoneUnderAccess'
  BY GuardFacts DEF GuardInv, GuardTypes, PageRoles, NoneUnderAccess, Release, Executing, memory
<1>4. GuardsExplained'
  BY GuardFacts DEF GuardInv, GuardTypes, PageRoles, GuardsExplained, NoneUnderAccess, Release, Executing, memory
<1>5. StubsOnRequest'
  BY GuardFacts DEF GuardInv, GuardTypes, PageRoles, StubsOnRequest, Release, Executing, memory
<1>6. TableReadsSurvive'
  BY GuardFacts DEF GuardInv, GuardTypes, PageRoles, StubsOnRequest, TableReadsSurvive, GuardsExplained, Release, Executing, memory
<1> QED
  BY <1>1, <1>2, <1>3, <1>4, <1>5, <1>6 DEF GuardInv

\* A guard is dropped behind BLIND's back.
LEMMA ReprotectMoves ==
  ASSUME GuardInv, NEW p \in Page, Reprotect(p)
  PROVE  GuardInv'
<1>1. GuardTypes'
  BY GuardFacts DEF GuardInv, GuardTypes, Reprotect, memory, Labels, PageRoles
<1>2. PageRoles'
  BY GuardFacts DEF GuardInv, GuardTypes, PageRoles, Reprotect, memory, RangesAt, PagesOf
<1>3. NoneUnderAccess'
  BY GuardFacts DEF GuardInv, GuardTypes, PageRoles, NoneUnderAccess, Reprotect, memory
<1>4. GuardsExplained'
  BY GuardFacts DEF GuardInv, GuardTypes, PageRoles, GuardsExplained, NoneUnderAccess, Reprotect, memory
<1>5. StubsOnRequest'
  BY GuardFacts DEF GuardInv, GuardTypes, PageRoles, StubsOnRequest, Reprotect, memory
<1>6. TableReadsSurvive'
  BY GuardFacts DEF GuardInv, GuardTypes, PageRoles, StubsOnRequest, TableReadsSurvive, GuardsExplained, Reprotect, memory
<1> QED
  BY <1>1, <1>2, <1>3, <1>4, <1>5, <1>6 DEF GuardInv

\* Traps of the program's own.
LEMMA OwnTrapMoves ==
  ASSUME GuardInv, NEW t \in Target, OwnTrap(t) \/ OwnTrapDelivered(t)
  PROVE  GuardInv'
<1>1. GuardTypes'
  BY GuardFacts DEF GuardInv, GuardTypes, OwnTrap, OwnTrapDelivered, Goto, memory, Labels, PageRoles
<1>2. PageRoles'
  BY GuardFacts DEF GuardInv, GuardTypes, PageRoles, OwnTrap, OwnTrapDelivered, Goto, memory, RangesAt, PagesOf
<1>3. NoneUnderAccess'
  BY GuardFacts DEF GuardInv, GuardTypes, PageRoles, NoneUnderAccess, OwnTrap, OwnTrapDelivered, Goto, memory
<1>4. GuardsExplained'
  BY GuardFacts DEF GuardInv, GuardTypes, PageRoles, GuardsExplained, NoneUnderAccess, OwnTrap, OwnTrapDelivered, Goto, memory
<1>5. StubsOnRequest'
  BY GuardFacts DEF GuardInv, GuardTypes, PageRoles, StubsOnRequest, OwnTrap, OwnTrapDelivered, Goto, memory
<1>6. TableReadsSurvive'
  BY GuardFacts DEF GuardInv, GuardTypes, PageRoles, StubsOnRequest, TableReadsSurvive, GuardsExplained, OwnTrap, OwnTrapDelivered, Goto, memory
<1> QED
  BY <1>1, <1>2, <1>3, <1>4, <1>5, <1>6 DEF GuardInv

\* A fault nobody finds a range for is not one on an export table.
LEMMA FaultMissedMoves ==
  ASSUME GuardInv, NEW t \in Target, FaultMissed(t)
  PROVE  GuardInv'
<1>1. GuardTypes'
  BY GuardFacts, CandidatesFound DEF GuardInv, GuardTypes, FaultMissed, Goto, memory, Labels, PageRoles
<1>2. PageRoles'
  BY GuardFacts, CandidatesFound DEF GuardInv, GuardTypes, PageRoles, FaultMissed, Goto, memory, RangesAt, PagesOf
<1>3. NoneUnderAccess'
  BY GuardFacts, CandidatesFound DEF GuardInv, GuardTypes, PageRoles, NoneUnderAccess, FaultMissed, Goto, memory
<1>4. GuardsExplained'
  BY GuardFacts, CandidatesFound DEF GuardInv, GuardTypes, PageRoles, GuardsExplained, NoneUnderAccess, FaultMissed, Goto, memory
<1>5. StubsOnRequest'
  BY GuardFacts, CandidatesFound DEF GuardInv, GuardTypes, PageRoles, StubsOnRequest, FaultMissed, Goto, memory
<1>6. TableReadsSurvive'
  BY GuardFacts, CandidatesFound DEF GuardInv, GuardTypes, PageRoles, StubsOnRequest, TableReadsSurvive, GuardsExplained, FaultMissed, Goto, memory
<1> QED
  BY <1>1, <1>2, <1>3, <1>4, <1>5, <1>6 DEF GuardInv

\* A fault on a page the policy did not ask for is never armed again.
LEMMA FaultFoundMoves ==
  ASSUME GuardInv, NEW t \in Target, FaultFound(t)
  PROVE  GuardInv'
<1>1. \A r \in Candidates(t) : r.page \in Page /\ r \in ranges
  BY CandidatesFound DEF GuardInv, GuardTypes, Fits, GuardedRange
<1>2. GuardTypes'
  BY <1>1, GuardFacts DEF GuardInv, GuardTypes, FaultFound, Goto, Leave, memory, Labels, PageRoles
<1>3. PageRoles'
  BY <1>1, GuardFacts DEF GuardInv, GuardTypes, PageRoles, FaultFound, Goto, Leave, memory, RangesAt, PagesOf
<1>4. NoneUnderAccess'
  BY <1>1, GuardFacts DEF GuardInv, GuardTypes, PageRoles, NoneUnderAccess, FaultFound, Goto, Leave, memory
<1>5. GuardsExplained'
  BY <1>1, GuardFacts DEF GuardInv, GuardTypes, PageRoles, GuardsExplained, NoneUnderAccess, FaultFound, Goto, Leave, memory
<1>6. StubsOnRequest'
  BY <1>1, GuardFacts DEF GuardInv, GuardTypes, PageRoles, StubsOnRequest, FaultFound, Goto, Leave, memory
<1>7. TableReadsSurvive'
  BY <1>1, GuardFacts DEF GuardInv, GuardTypes, PageRoles, StubsOnRequest, TableReadsSurvive, GuardsExplained, FaultFound, Goto, Leave, memory
<1> QED
  BY <1>2, <1>3, <1>4, <1>5, <1>6, <1>7 DEF GuardInv

\* A stub page waits for the trap.
LEMMA ReapplyMoves ==
  ASSUME GuardInv, NEW t \in Target, Reapply(t)
  PROVE  GuardInv'
<1>1. GuardTypes'
  BY GuardFacts DEF GuardInv, GuardTypes, Reapply, Goto, Leave, memory, Labels, PageRoles
<1>2. PageRoles'
  BY GuardFacts DEF GuardInv, GuardTypes, PageRoles, Reapply, Goto, Leave, memory, RangesAt, PagesOf
<1>3. NoneUnderAccess'
  BY GuardFacts DEF GuardInv, GuardTypes, PageRoles, NoneUnderAccess, Reapply, Goto, Leave, memory
<1>4. GuardsExplained'
  BY GuardFacts DEF GuardInv, GuardTypes, PageRoles, GuardsExplained, NoneUnderAccess, Reapply, Goto, Leave, memory
<1>5. StubsOnRequest'
  BY GuardFacts DEF GuardInv, GuardTypes, PageRoles, StubsOnRequest, Reapply, Goto, Leave, memory
<1>6. TableReadsSurvive'
  BY GuardFacts DEF GuardInv, GuardTypes, PageRoles, StubsOnRequest, TableReadsSurvive, GuardsExplained, Reapply, Goto, Leave, memory
<1> QED
  BY <1>1, <1>2, <1>3, <1>4, <1>5, <1>6 DEF GuardInv

\* The trap takes the thread's entry.
LEMMA ConsumeMoves ==
  ASSUME GuardInv, NEW t \in Target, Consume(t)
  PROVE  GuardInv'
<1>1. GuardTypes'
  BY GuardFacts DEF GuardInv, GuardTypes, Consume, Goto, Leave, memory, Labels, PageRoles
<1>2. PageRoles'
  BY GuardFacts DEF GuardInv, GuardTypes, PageRoles, Consume, Goto, Leave, memory, RangesAt, PagesOf
<1>3. NoneUnderAccess'
  BY GuardFacts DEF GuardInv, GuardTypes, PageRoles, NoneUnderAccess, Consume, Goto, Leave, memory
<1>4. GuardsExplained'
  BY GuardFacts DEF GuardInv, GuardTypes, PageRoles, GuardsExplained, NoneUnderAccess, Consume, Goto, Leave, memory
<1>5. StubsOnRequest'
  BY GuardFacts DEF GuardInv, GuardTypes, PageRoles, StubsOnRequest, Consume, Goto, Leave, memory
<1>6. TableReadsSurvive'
  BY GuardFacts DEF GuardInv, GuardTypes, PageRoles, StubsOnRequest, TableReadsSurvive, GuardsExplained, Consume, Goto, Leave, memory
<1> QED
  BY <1>1, <1>2, <1>3, <1>4, <1>5, <1>6 DEF GuardInv

\* A trap without an entry.
LEMMA StepForeignMoves ==
  ASSUME GuardInv, NEW t \in Target, StepForeign(t)
  PROVE  GuardInv'
<1>1. GuardTypes'
  BY GuardFacts DEF GuardInv, GuardTypes, StepForeign, Goto, Leave, memory, Labels, PageRoles
<1>2. PageRoles'
  BY GuardFacts DEF GuardInv, GuardTypes, PageRoles, StepForeign, Goto, Leave, memory, RangesAt, PagesOf
<1>3. NoneUnderAccess'
  BY GuardFacts DEF GuardInv, GuardTypes, PageRoles, NoneUnderAccess, StepForeign, Goto, Leave, memory
<1>4. GuardsExplained'
  BY GuardFacts DEF GuardInv, GuardTypes, PageRoles, GuardsExplained, NoneUnderAccess, StepForeign, Goto, Leave, memory
<1>5. StubsOnRequest'
  BY GuardFacts DEF GuardInv, GuardTypes, PageRoles, StubsOnRequest, StepForeign, Goto, Leave, memory
<1>6. TableReadsSurvive'
  BY GuardFacts DEF GuardInv, GuardTypes, PageRoles, StubsOnRequest, TableReadsSurvive, GuardsExplained, StepForeign, Goto, Leave, memory
<1> QED
  BY <1>1, <1>2, <1>3, <1>4, <1>5, <1>6 DEF GuardInv

\* The stub page is guarded again.
LEMMA RestoreMoves ==
  ASSUME GuardInv, NEW t \in Target, Restore(t)
  PROVE  GuardInv'
<1>1. GuardTypes'
  BY GuardFacts DEF GuardInv, GuardTypes, Restore, Goto, Leave, memory, Labels, PageRoles
<1>2. PageRoles'
  BY GuardFacts DEF GuardInv, GuardTypes, PageRoles, Restore, Goto, Leave, memory, RangesAt, PagesOf
<1>3. NoneUnderAccess'
  BY GuardFacts DEF GuardInv, GuardTypes, PageRoles, NoneUnderAccess, Restore, Goto, Leave, memory
<1>4. GuardsExplained'
  BY GuardFacts DEF GuardInv, GuardTypes, PageRoles, GuardsExplained, NoneUnderAccess, Restore, Goto, Leave, memory
<1>5. StubsOnRequest'
  BY GuardFacts DEF GuardInv, GuardTypes, PageRoles, StubsOnRequest, Restore, Goto, Leave, memory
<1>6. TableReadsSurvive'
  BY GuardFacts DEF GuardInv, GuardTypes, PageRoles, StubsOnRequest, TableReadsSurvive, GuardsExplained, Restore, Goto, Leave, memory
<1> QED
  BY <1>1, <1>2, <1>3, <1>4, <1>5, <1>6 DEF GuardInv

\* A registration sees to pages of export tables, and may consume guards of theirs.
LEMMA BeginRegisterMoves ==
  ASSUME GuardInv, NEW r \in Registrar, BeginRegister(r)
  PROVE  GuardInv'
<1>1. GuardTypes'
  BY GuardFacts DEF GuardInv, GuardTypes, BeginRegister, Goto, memory, Labels, PageRoles
<1>2. PageRoles'
  BY GuardFacts DEF GuardInv, GuardTypes, PageRoles, BeginRegister, Goto, memory, RangesAt, PagesOf
<1>3. NoneUnderAccess'
  BY GuardFacts DEF GuardInv, GuardTypes, PageRoles, NoneUnderAccess, BeginRegister, Goto, memory
<1>4. GuardsExplained'
  BY GuardFacts DEF GuardInv, GuardTypes, PageRoles, GuardsExplained, NoneUnderAccess, BeginRegister, Goto, memory
<1>5. StubsOnRequest'
  BY GuardFacts DEF GuardInv, GuardTypes, PageRoles, StubsOnRequest, BeginRegister, Goto, memory
<1>6. TableReadsSurvive'
  BY GuardFacts DEF GuardInv, GuardTypes, PageRoles, StubsOnRequest, TableReadsSurvive, GuardsExplained, BeginRegister, Goto, memory
<1> QED
  BY <1>1, <1>2, <1>3, <1>4, <1>5, <1>6 DEF GuardInv

\* The pages of a registration are looked at in turn.
LEMMA CheckMoves ==
  ASSUME GuardInv, NEW r \in Registrar, Check(r)
  PROVE  GuardInv'
<1>1. GuardTypes'
  BY GuardFacts DEF GuardInv, GuardTypes, Check, Goto, NextPage, Leave, memory, Labels, PageRoles
<1>2. PageRoles'
  BY GuardFacts DEF GuardInv, GuardTypes, PageRoles, Check, Goto, NextPage, Leave, memory, RangesAt, PagesOf
<1>3. NoneUnderAccess'
  BY GuardFacts DEF GuardInv, GuardTypes, PageRoles, NoneUnderAccess, Check, Goto, NextPage, Leave, memory
<1>4. GuardsExplained'
  BY GuardFacts DEF GuardInv, GuardTypes, PageRoles, GuardsExplained, NoneUnderAccess, Check, Goto, NextPage, Leave, memory
<1>5. StubsOnRequest'
  BY GuardFacts DEF GuardInv, GuardTypes, PageRoles, StubsOnRequest, Check, Goto, NextPage, Leave, memory
<1>6. TableReadsSurvive'
  BY GuardFacts DEF GuardInv, GuardTypes, PageRoles, StubsOnRequest, TableReadsSurvive, GuardsExplained, Check, Goto, NextPage, Leave, memory
<1> QED
  BY <1>1, <1>2, <1>3, <1>4, <1>5, <1>6 DEF GuardInv

\* A guard is applied to memory that is there, and a range explains it.
LEMMA ApplyMoves ==
  ASSUME GuardInv, NEW r \in Registrar, Apply(r)
  PROVE  GuardInv'
<1>1. GuardTypes'
  BY GuardFacts DEF GuardInv, GuardTypes, Apply, Goto, NextPage, Leave, memory, Labels, PageRoles
<1>2. PageRoles'
  BY GuardFacts DEF GuardInv, GuardTypes, PageRoles, Apply, Goto, NextPage, Leave, memory, RangesAt, PagesOf
<1>3. NoneUnderAccess'
  BY GuardFacts DEF GuardInv, GuardTypes, PageRoles, NoneUnderAccess, Apply, Goto, NextPage, Leave, memory
<1>4. GuardsExplained'
  BY GuardFacts DEF GuardInv, GuardTypes, PageRoles, GuardsExplained, NoneUnderAccess, Apply, Goto, NextPage, Leave, memory
<1>5. StubsOnRequest'
  BY GuardFacts DEF GuardInv, GuardTypes, PageRoles, StubsOnRequest, Apply, Goto, NextPage, Leave, memory
<1>6. TableReadsSurvive'
  BY GuardFacts DEF GuardInv, GuardTypes, PageRoles, StubsOnRequest, TableReadsSurvive, GuardsExplained, Apply, Goto, NextPage, Leave, memory
<1> QED
  BY <1>1, <1>2, <1>3, <1>4, <1>5, <1>6 DEF GuardInv

\* A hook sees a stub page.
LEMMA ObserveMoves ==
  ASSUME GuardInv, NEW t \in Hooked, NEW p \in Stub, Observe(t, p)
  PROVE  GuardInv'
<1>1. GuardTypes'
  BY GuardFacts DEF GuardInv, GuardTypes, Observe, Goto, memory, Labels, PageRoles
<1>2. PageRoles'
  BY GuardFacts DEF GuardInv, GuardTypes, PageRoles, Observe, Goto, memory, RangesAt, PagesOf
<1>3. NoneUnderAccess'
  BY GuardFacts DEF GuardInv, GuardTypes, PageRoles, NoneUnderAccess, Observe, Goto, memory
<1>4. GuardsExplained'
  BY GuardFacts DEF GuardInv, GuardTypes, PageRoles, GuardsExplained, NoneUnderAccess, Observe, Goto, memory
<1>5. StubsOnRequest'
  BY GuardFacts DEF GuardInv, GuardTypes, PageRoles, StubsOnRequest, Observe, Goto, memory
<1>6. TableReadsSurvive'
  BY GuardFacts DEF GuardInv, GuardTypes, PageRoles, StubsOnRequest, TableReadsSurvive, GuardsExplained, Observe, Goto, memory
<1> QED
  BY <1>1, <1>2, <1>3, <1>4, <1>5, <1>6 DEF GuardInv

\* A stub page is guarded because the policy asks for it.
LEMMA ApplyStubMoves ==
  ASSUME GuardInv, NEW t \in Hooked, ApplyStub(t)
  PROVE  GuardInv'
<1>1. GuardTypes'
  BY GuardFacts DEF GuardInv, GuardTypes, ApplyStub, Goto, Leave, memory, Labels, PageRoles
<1>2. PageRoles'
  BY GuardFacts DEF GuardInv, GuardTypes, PageRoles, ApplyStub, Goto, Leave, memory, RangesAt, PagesOf
<1>3. NoneUnderAccess'
  BY GuardFacts DEF GuardInv, GuardTypes, PageRoles, NoneUnderAccess, ApplyStub, Goto, Leave, memory
<1>4. GuardsExplained'
  BY GuardFacts DEF GuardInv, GuardTypes, PageRoles, GuardsExplained, NoneUnderAccess, ApplyStub, Goto, Leave, memory
<1>5. StubsOnRequest'
  BY GuardFacts DEF GuardInv, GuardTypes, PageRoles, StubsOnRequest, ApplyStub, Goto, Leave, memory
<1>6. TableReadsSurvive'
  BY GuardFacts DEF GuardInv, GuardTypes, PageRoles, StubsOnRequest, TableReadsSurvive, GuardsExplained, ApplyStub, Goto, Leave, memory
<1> QED
  BY <1>1, <1>2, <1>3, <1>4, <1>5, <1>6 DEF GuardInv

\* A reported page's range is disarmed and stays.
LEMMA ReportMoves ==
  ASSUME GuardInv, NEW t \in Target, Report(t)
  PROVE  GuardInv'
<1>1. /\ Fits(ranges') /\ PagesOf(ranges') = PagesOf(ranges)
      /\ \A x \in ranges' : x.armed => x \in ranges
  <2> DEFINE f == [x \in ranges |-> IF x.page = page[t] THEN [x EXCEPT !.armed = FALSE, !.told = TRUE] ELSE x]
  <2>1. f \in [ranges -> GuardedRange] /\ \A x \in ranges : f[x].page = x.page
    <3>1. \A x \in GuardedRange :
            LET y == [x EXCEPT !.armed = FALSE, !.told = TRUE] IN
              y \in GuardedRange /\ y.page = x.page /\ ~y.armed
      BY DEF GuardedRange
    <3>2. ranges \subseteq GuardedRange
      BY DEF GuardInv, GuardTypes, Fits
    <3> QED
      BY <3>1, <3>2
  <2>2. ranges' = {f[x] : x \in ranges}
    BY DEF Report
  <2>3. Fits(ranges)
    BY DEF GuardInv, GuardTypes
  <2>4. \A x \in ranges : f[x].armed => f[x] = x
    BY DEF GuardInv, GuardTypes, Fits, GuardedRange
  <2> HIDE DEF f
  <2> QED
    BY <2>1, <2>2, <2>3, <2>4, SamePages
<1>2. GuardTypes'
  BY <1>1, GuardFacts DEF GuardInv, GuardTypes, Report, Goto, Leave, memory, Labels, PageRoles
<1>3. PageRoles'
  BY <1>1, GuardFacts DEF GuardInv, GuardTypes, PageRoles, Report, Goto, Leave, memory
<1>4. NoneUnderAccess'
  BY <1>1, GuardFacts DEF GuardInv, GuardTypes, PageRoles, NoneUnderAccess, Report, Goto, Leave, memory
<1>5. GuardsExplained'
  BY <1>1, GuardFacts DEF GuardInv, GuardTypes, PageRoles, GuardsExplained, NoneUnderAccess, Report, Goto, Leave, memory
<1>6. StubsOnRequest'
  BY <1>1, GuardFacts DEF GuardInv, GuardTypes, PageRoles, StubsOnRequest, Report, Goto, Leave, memory
<1>7. TableReadsSurvive'
  BY <1>1, GuardFacts DEF GuardInv, GuardTypes, PageRoles, TableReadsSurvive, Report, Goto, Leave, memory
<1> QED
  BY <1>2, <1>3, <1>4, <1>5, <1>6, <1>7 DEF GuardInv

\* The range of a registered page is armed.
LEMMA ArmMoves ==
  ASSUME GuardInv, NEW r \in Registrar, Arm(r)
  PROVE  GuardInv'
<1>1. /\ Fits(ranges') /\ PagesOf(ranges') = PagesOf(ranges)
      /\ \A x \in ranges' : x.armed => x \in ranges \/ x.page = page[r]
  <2> DEFINE f == [x \in ranges |-> IF x.page = page[r] THEN [x EXCEPT !.armed = TRUE] ELSE x]
  <2>1. f \in [ranges -> GuardedRange] /\ \A x \in ranges : f[x].page = x.page
    BY DEF GuardInv, GuardTypes, Fits, GuardedRange
  <2>2. ranges' = {f[x] : x \in ranges}
    BY DEF Arm
  <2>3. Fits(ranges)
    BY DEF GuardInv, GuardTypes
  <2>4. \A x \in ranges : f[x].armed => f[x] = x \/ f[x].page = page[r]
    BY DEF GuardInv, GuardTypes, Fits, GuardedRange
  <2> HIDE DEF f
  <2> QED
    BY <2>1, <2>2, <2>3, <2>4, SamePages
<1>2. GuardTypes'
  BY <1>1, GuardFacts DEF GuardInv, GuardTypes, Arm, Goto, NextPage, Leave, memory, Labels, PageRoles
<1>3. PageRoles'
  BY <1>1, GuardFacts DEF GuardInv, GuardTypes, PageRoles, Arm, Goto, NextPage, Leave, memory
<1>4. NoneUnderAccess'
  BY <1>1, GuardFacts DEF GuardInv, GuardTypes, PageRoles, NoneUnderAccess, Arm, Goto, NextPage, Leave, memory
<1>5. GuardsExplained'
  BY <1>1, GuardFacts DEF GuardInv, GuardTypes, PageRoles, GuardsExplained, NoneUnderAccess, Arm, Goto, NextPage, Leave, memory
<1>6. StubsOnRequest'
  BY <1>1, GuardFacts DEF GuardInv, GuardTypes, PageRoles, StubsOnRequest, Arm, Goto, NextPage, Leave, memory
<1>7. TableReadsSurvive'
  BY <1>1, GuardFacts DEF GuardInv, GuardTypes, PageRoles, TableReadsSurvive, Arm, Goto, NextPage, Leave, memory
<1> QED
  BY <1>2, <1>3, <1>4, <1>5, <1>6, <1>7 DEF GuardInv

\* The range that is taken back is of a page that is gone.
LEMMA UndoMoves ==
  ASSUME GuardInv, NEW r \in Registrar, Undo(r)
  PROVE  GuardInv'
<1>1. /\ Fits(ranges') /\ ranges' \subseteq ranges
      /\ PagesOf(ranges) \ {page[r]} \subseteq PagesOf(ranges')
  BY FewerRanges DEF Undo, GuardInv, GuardTypes, PagesOf
<1>2. GuardTypes'
  BY <1>1, GuardFacts DEF GuardInv, GuardTypes, Undo, Goto, NextPage, Leave, memory, Labels, PageRoles
<1>3. PageRoles'
  BY <1>1, GuardFacts DEF GuardInv, GuardTypes, PageRoles, Undo, Goto, NextPage, Leave, memory
<1>4. NoneUnderAccess'
  BY <1>1, GuardFacts DEF GuardInv, GuardTypes, PageRoles, NoneUnderAccess, Undo, Goto, NextPage, Leave, memory
<1>5. GuardsExplained'
  BY <1>1, GuardFacts DEF GuardInv, GuardTypes, PageRoles, GuardsExplained, NoneUnderAccess, Undo, Goto, NextPage, Leave, memory
<1>6. StubsOnRequest'
  BY <1>1, GuardFacts DEF GuardInv, GuardTypes, PageRoles, StubsOnRequest, Undo, Goto, NextPage, Leave, memory
<1>7. TableReadsSurvive'
  BY <1>1, GuardFacts DEF GuardInv, GuardTypes, PageRoles, TableReadsSurvive, Undo, Goto, NextPage, Leave, memory
<1> QED
  BY <1>2, <1>3, <1>4, <1>5, <1>6, <1>7 DEF GuardInv

\* A registration finds the page's range, makes one, or leaves it.
LEMMA InsertMoves ==
  ASSUME GuardInv, NEW r \in Registrar, Insert(r)
  PROVE  GuardInv'
<1>1. /\ Fits(ranges') /\ PagesOf(ranges) \subseteq PagesOf(ranges')
      /\ \A x \in ranges' : x.armed => x \in ranges
      /\ pc'[r] \in {"applyOld", "applyNew"} => page[r] \in PagesOf(ranges')
  <2>1. Fits(ranges) /\ r \in Thread
    BY GuardFacts DEF GuardInv, GuardTypes
  <2>2. CASE RangesAt(page[r]) # {}
    BY <2>1, <2>2, GuardFacts DEF Insert, RangesAt, PagesOf, Goto, GuardInv, GuardTypes
  <2>3. CASE RangesAt(page[r]) = {} /\ Room
    <3> DEFINE x == NewRange(page[r], FALSE)
    <3>1. x \in GuardedRange /\ x.page = page[r] /\ ~x.armed
      BY GuardFacts DEF Insert, GuardInv, PageRoles, NewRange, GuardedRange
    <3>2. page[r] \notin PagesOf(ranges) /\ Cardinality(ranges) < RangeMax
      BY <2>3 DEF RangesAt, PagesOf, Room
    <3>3. ranges' = ranges \cup {x}
      BY <2>3 DEF Insert
    <3> HIDE DEF x
    <3> QED
      BY <2>1, <3>1, <3>2, <3>3, OneMoreRange
  <2>4. CASE RangesAt(page[r]) = {} /\ ~Room
    BY <2>1, <2>4, GuardFacts DEF Insert, NextPage, Leave, Goto, GuardInv, GuardTypes
  <2> QED
    BY <2>2, <2>3, <2>4
<1>2. PICK l \in {"applyOld", "applyNew", "check", "rearm", "idle"} :
        /\ pc' = [pc EXCEPT ![r] = l]
        /\ l \in {"applyOld", "applyNew"} => page' = page
        /\ l \notin {"applyOld", "applyNew"} => page' = [page EXCEPT ![r] = NoPage]
  BY DEF Insert, Goto, NextPage, Leave
<1>3. pc[r] = "insert" /\ UNCHANGED <<guarding, rearm, guard, committed, instr, todo, trapFlag>>
  BY DEF Insert, memory
<1>4. GuardTypes'
  BY <1>1, <1>2, <1>3, GuardFacts DEF GuardInv, GuardTypes, Labels
<1>5. PageRoles'
  BY <1>2, <1>3, GuardFacts DEF GuardInv, GuardTypes, PageRoles
<1>6. NoneUnderAccess'
  BY <1>2, <1>3, GuardFacts DEF GuardInv, GuardTypes, NoneUnderAccess
<1>7. GuardsExplained'
  BY <1>1, <1>2, <1>3, GuardFacts DEF GuardInv, GuardTypes, GuardsExplained
<1>8. StubsOnRequest'
  BY <1>1, <1>2, <1>3, GuardFacts DEF GuardInv, GuardTypes, StubsOnRequest
<1>9. TableReadsSurvive'
  BY <1>2, <1>3, GuardFacts DEF GuardInv, GuardTypes, TableReadsSurvive
<1> QED
  BY <1>4, <1>5, <1>6, <1>7, <1>8, <1>9 DEF GuardInv

\* A stub page gets its range, armed if the policy asks for it.
LEMMA InsertStubMoves ==
  ASSUME GuardInv, NEW t \in Hooked, InsertStub(t)
  PROVE  GuardInv'
<1>1. /\ Fits(ranges') /\ PagesOf(ranges) \subseteq PagesOf(ranges')
      /\ \A x \in ranges' : x.armed => guarding \/ x \in ranges
  <2>1. Fits(ranges) /\ t \in Thread
    BY GuardFacts DEF GuardInv, GuardTypes
  <2>2. ASSUME ranges' = {IF r.page = page[t] THEN [r EXCEPT !.armed = @ \/ guarding] ELSE r : r \in ranges}
        PROVE  /\ Fits(ranges') /\ PagesOf(ranges) = PagesOf(ranges')
               /\ \A x \in ranges' : x.armed => guarding \/ x \in ranges
    <3> DEFINE f == [x \in ranges |->
                       IF x.page = page[t] THEN [x EXCEPT !.armed = @ \/ guarding] ELSE x]
    <3>1. f \in [ranges -> GuardedRange] /\ \A x \in ranges : f[x].page = x.page
      BY <2>1 DEF Fits, GuardedRange, GuardInv, GuardTypes
    <3>2. ranges' = {f[x] : x \in ranges}
      BY <2>2
    <3>3. \A x \in ranges : f[x].armed => guarding \/ f[x] = x
      BY <2>1 DEF Fits, GuardedRange, GuardInv, GuardTypes
    <3> HIDE DEF f
    <3> QED
      BY <2>1, <3>1, <3>2, <3>3, SamePages
  <2>3. CASE RangesAt(page[t]) = {} /\ Room /\ ranges' = ranges \cup {NewRange(page[t], guarding)}
    <3> DEFINE x == NewRange(page[t], guarding)
    <3>1. x \in GuardedRange /\ x.page = page[t] /\ x.armed = guarding
      BY GuardFacts DEF InsertStub, GuardInv, GuardTypes, PageRoles, NewRange, GuardedRange
    <3>2. page[t] \notin PagesOf(ranges) /\ Cardinality(ranges) < RangeMax
      BY <2>3 DEF RangesAt, PagesOf, Room
    <3>3. ranges' = ranges \cup {x}
      BY <2>3
    <3> HIDE DEF x
    <3> QED
      BY <2>1, <3>1, <3>2, <3>3, OneMoreRange
  <2>4. CASE ranges' = ranges
    BY <2>1, <2>4
  <2> QED
    BY <2>2, <2>3, <2>4 DEF InsertStub
<1>2. GuardTypes'
  BY <1>1, GuardFacts DEF GuardInv, GuardTypes, InsertStub, Goto, Leave, memory, Labels, PageRoles
<1>3. PageRoles'
  BY <1>1, GuardFacts DEF GuardInv, GuardTypes, PageRoles, InsertStub, Goto, Leave, memory
<1>4. NoneUnderAccess'
  BY <1>1, GuardFacts DEF GuardInv, GuardTypes, PageRoles, NoneUnderAccess, InsertStub, Goto, Leave, memory
<1>5. GuardsExplained'
  BY <1>1, GuardFacts DEF GuardInv, GuardTypes, PageRoles, GuardsExplained, NoneUnderAccess, InsertStub, Goto, Leave, memory
<1>6. StubsOnRequest'
  BY <1>1, GuardFacts DEF GuardInv, GuardTypes, PageRoles, StubsOnRequest, InsertStub, Goto, Leave, memory
<1>7. TableReadsSurvive'
  BY <1>1, GuardFacts DEF GuardInv, GuardTypes, PageRoles, TableReadsSurvive, InsertStub, Goto, Leave, memory
<1> QED
  BY <1>2, <1>3, <1>4, <1>5, <1>6, <1>7 DEF GuardInv

\* Only ranges of pages that are gone are forgotten; guards come back where a range is
\* armed.
LEMMA RearmMoves ==
  ASSUME GuardInv, Rearm
  PROVE  GuardInv'
<1>1. /\ Fits(ranges') /\ ranges' \subseteq ranges
      /\ PagesOf(ranges) \cap committed \subseteq PagesOf(ranges')
      /\ guard' \subseteq guard \cup PagesOf({x \in ranges : x.armed}) /\ guard' \subseteq committed
      /\ guard' \subseteq guard \cup PagesOf(ranges')
  <2>1. Fits(ranges') /\ ranges' \subseteq ranges
    BY FewerRanges DEF Rearm, GuardInv, GuardTypes
  <2> QED
    BY <2>1 DEF Rearm, GuardInv, GuardTypes, PagesOf
<1>2. GuardTypes'
  BY <1>1, GuardFacts DEF GuardInv, GuardTypes, Rearm, Goto, PagesOf, memory, Labels, PageRoles
<1>3. PageRoles'
  BY <1>1, GuardFacts DEF GuardInv, GuardTypes, PageRoles, Rearm, Goto, PagesOf, memory
<1>4. NoneUnderAccess'
  BY <1>1, GuardFacts DEF GuardInv, GuardTypes, PageRoles, NoneUnderAccess, Rearm, Goto, PagesOf, memory
<1>5. GuardsExplained'
  BY <1>1, GuardFacts DEF GuardInv, GuardTypes, PageRoles, GuardsExplained, NoneUnderAccess, Rearm, Goto, PagesOf, memory
<1>6. StubsOnRequest'
  BY <1>1, GuardFacts DEF GuardInv, GuardTypes, PageRoles, StubsOnRequest, Rearm, Goto, PagesOf, memory
<1>7. TableReadsSurvive'
  BY <1>1, GuardFacts DEF GuardInv, GuardTypes, PageRoles, TableReadsSurvive, Rearm, Goto, PagesOf, memory
<1> QED
  BY <1>2, <1>3, <1>4, <1>5, <1>6, <1>7 DEF GuardInv

-----------------------------------------------------------------------------
(* Theorems.                                                                *)

\* Nothing is guarded yet.
LEMMA GuardInit == Init => GuardInv
<1> SUFFICES ASSUME Init PROVE GuardInv
  OBVIOUS
<1>1. Fits(ranges)
  BY FS_EmptySet, RangeMaxPositive DEF Init, Fits
<1>2. GuardTypes
  BY <1>1, GuardFacts DEF Init, GuardTypes, Labels
<1> QED
  BY <1>2, GuardFacts
     DEF Init, GuardInv, PageRoles, NoneUnderAccess, GuardsExplained, StubsOnRequest, TableReadsSurvive

\* Every step keeps guards and faults explained.
LEMMA GuardStep == GuardInv /\ [Next]_vars => GuardInv'
<1> SUFFICES ASSUME GuardInv, [Next]_vars PROVE GuardInv'
  OBVIOUS
<1>1. CASE UNCHANGED vars
  BY <1>1 DEF GuardInv, GuardTypes, PageRoles, NoneUnderAccess, GuardsExplained, StubsOnRequest,
              TableReadsSurvive, vars, memory
<1>2. ASSUME NEW t \in Target, ProgramStep(t) PROVE GuardInv'
  BY <1>2, BeginMoves, FaultMoves, CompleteMoves, OwnTrapMoves DEF ProgramStep
<1>3. ASSUME NEW t \in Target, HandlerStep(t) PROVE GuardInv'
  BY <1>3, FaultMissedMoves, FaultFoundMoves, ReapplyMoves, ReportMoves, ConsumeMoves,
     StepForeignMoves, RestoreMoves DEF HandlerStep
<1>4. ASSUME NEW r \in Registrar, RegisterStep(r) PROVE GuardInv'
  BY <1>4, BeginRegisterMoves, CheckMoves, InsertMoves, ApplyMoves, UndoMoves, ArmMoves
     DEF RegisterStep
<1>5. ASSUME NEW t \in Hooked, HookStep(t) PROVE GuardInv'
  BY <1>4, <1>5, GuardFacts, ObserveMoves, ApplyStubMoves, InsertStubMoves DEF HookStep
<1>6. ASSUME NEW p \in Page, Release(p) \/ Reprotect(p) PROVE GuardInv'
  BY <1>6, ReleaseMoves, ReprotectMoves
<1>7. ASSUME LoopStep PROVE GuardInv'
  BY <1>4, <1>7, GuardFacts, RearmMoves DEF LoopStep
<1> QED
  BY <1>1, <1>2, <1>3, <1>5, <1>6, <1>7 DEF Next

\* The tables keep their sizes and a page has one range, however many threads register
\* it at once (RegisterGuardedExportRange looks for the key again under the lock,
\* runtime.cpp).
THEOREM OneRangePerPage == Spec => []TypeOK
<1>1. GuardInv => TypeOK
  BY DEF GuardInv, GuardTypes, Fits, GuardedRange, TypeOK
<1> QED
  BY GuardInit, GuardStep, <1>1, PTL DEF Spec

\* The read of an export table is never left without a handler: whatever is guarded
\* there has a range, and keeps it while the memory is there (ApplyGuardToRange,
\* RearmGuardedDetections and HandleGuardedDetectionFault, runtime.cpp).
THEOREM TableReadsExplained == Spec => []TableReadsSurvive
<1>1. GuardInv => TableReadsSurvive
  BY DEF GuardInv
<1> QED
  BY GuardInit, GuardStep, <1>1, PTL DEF Spec

=============================================================================
