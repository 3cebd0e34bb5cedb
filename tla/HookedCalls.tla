------------------------------ MODULE HookedCalls ------------------------------
(***************************************************************************)
(* What a hooked native call does (nt.cpp 506-2752, policy.cpp 80-455).    *)
(*                                                                         *)
(* Every wrapper asks the policy, calls the original unless the policy     *)
(* denies it, and publishes what happened.  In between some of them look   *)
(* up the process of a handle or scan the memory the call produced, with   *)
(* calls that are hooked themselves: a wrapper runs inside a wrapper.      *)
(* BLIND marks its own work with a counter of the thread (IxIsInternalCall)*)
(* and a marked call is neither judged nor published.  Not all of it is    *)
(* marked: the classification of a trace, the registration of a page with  *)
(* system calls and the flush before a process ends are not.               *)
(*                                                                         *)
(* A wrapper is the record of the steps it takes; the arguments it copies  *)
(* are left out, and so is what the heap gives without a call: BLIND's     *)
(* calls of NtAllocateVirtualMemory are the callback's and the room of an  *)
(* event queue.                                                            *)
(***************************************************************************)
EXTENDS Naturals, Sequences, FiniteSets

CONSTANTS Program,   \* threads of the program
          Hooked,    \* the functions that are hooked
          Ruled,     \* those a rule of the policy may name
          CallMax,   \* bound: calls of the program
          NestMax    \* bound: calls inside one another

VARIABLES
  callback,  \* g_ActiveNtCallback is set
  rules,     \* the policy
  frames,    \* the hooked calls a thread is in, outermost first
  scope,     \* the thread's internal-call counter
  begun      \* calls of the program so far

vars == <<callback, rules, frames, scope, begun>>

-----------------------------------------------------------------------------
(* The wrappers.                                                           *)

\* Publishes a call that succeeded, after the original.
Plain == [before |-> FALSE, after |-> FALSE, scans |-> FALSE, always |-> FALSE,
          first |-> FALSE, quiet |-> FALSE]

LooksUpFirst(w) == [w EXCEPT !.before = TRUE]  \* process of the handle, before the original
LooksUp(w)      == [w EXCEPT !.after = TRUE]   \* the same, before publishing
Scans(w)        == [w EXCEPT !.scans = TRUE]   \* TryObserveDirectSyscallRange
Always(w)       == [w EXCEPT !.always = TRUE]  \* PublishNtEventAlways

NtCreateThread             == LooksUp(Plain)
NtCreateThreadEx           == LooksUp(Plain)
NtWriteVirtualMemory       == Scans(LooksUp(Plain))
NtAllocateVirtualMemory    == Scans(LooksUp(Plain))
NtProtectVirtualMemory     == [Scans(LooksUp(Plain)) EXCEPT !.quiet = TRUE]
NtReadVirtualMemory        == LooksUpFirst(Plain)
NtQueryVirtualMemory       == LooksUp(Plain)
NtQuerySystemInformation   == Plain
NtQuerySystemInformationEx == Plain
NtGetNextThread            == Plain
NtCreateSection            == Plain
NtTerminateProcess         == [Always(LooksUp(Plain)) EXCEPT !.first = TRUE]
NtOpenProcessToken         == Always(Plain)
NtOpenThreadToken          == Always(Plain)
NtOpenFile                 == Always(Plain)

\* mutant of NtQueryInformationProcess: it looks up the process of its handle, too
NtQueryInformationProcessLooksUp == LooksUp(Plain)

NtQueryInformationProcess  == Plain
NtQueryInformationThread   == Plain
NtSetContextThread         == Plain
NtQuerySection             == Always(Plain)
NtQueryBootOptions         == Always(Plain)
NtOpenProcess              == Plain
NtOpenThread               == Plain
NtDuplicateObject          == Plain
NtGetContextThread         == Plain
NtSuspendThread            == Plain
NtResumeThread             == Plain
NtQueueApcThread           == Plain
NtAllocateVirtualMemoryEx  == LooksUp(Plain)
NtMapViewOfSectionEx       == Scans(LooksUp(Plain))
NtMapViewOfSection         == Scans(LooksUp(Plain))
NtUnmapViewOfSection       == LooksUpFirst(Plain)
NtUnmapViewOfSectionEx     == LooksUpFirst(Plain)
NtQueueApcThreadEx         == Plain
NtQueueApcThreadEx2        == Plain
NtOpenProcessTokenEx       == Always(Plain)
NtOpenThreadTokenEx        == Always(Plain)

\* GetHookEntry: the wrapper each function is given.
HookEntry == [
  NtCreateThread |-> NtCreateThread, NtCreateThreadEx |-> NtCreateThreadEx,
  NtWriteVirtualMemory |-> NtWriteVirtualMemory, NtAllocateVirtualMemory |-> NtAllocateVirtualMemory,
  NtProtectVirtualMemory |-> NtProtectVirtualMemory, NtReadVirtualMemory |-> NtReadVirtualMemory,
  NtQueryVirtualMemory |-> NtQueryVirtualMemory, NtQuerySystemInformation |-> NtQuerySystemInformation,
  NtQuerySystemInformationEx |-> NtQuerySystemInformationEx, NtGetNextThread |-> NtGetNextThread,
  NtCreateSection |-> NtCreateSection, NtTerminateProcess |-> NtTerminateProcess,
  NtOpenProcessToken |-> NtOpenProcessToken, NtOpenThreadToken |-> NtOpenThreadToken,
  NtOpenFile |-> NtOpenFile, NtQueryInformationProcess |-> NtQueryInformationProcess,
  NtQueryInformationThread |-> NtQueryInformationThread, NtSetContextThread |-> NtSetContextThread,
  NtQuerySection |-> NtQuerySection, NtQueryBootOptions |-> NtQueryBootOptions,
  NtOpenProcess |-> NtOpenProcess, NtOpenThread |-> NtOpenThread, NtDuplicateObject |-> NtDuplicateObject,
  NtGetContextThread |-> NtGetContextThread, NtSuspendThread |-> NtSuspendThread,
  NtResumeThread |-> NtResumeThread, NtQueueApcThread |-> NtQueueApcThread,
  NtAllocateVirtualMemoryEx |-> NtAllocateVirtualMemoryEx, NtMapViewOfSectionEx |-> NtMapViewOfSectionEx,
  NtMapViewOfSection |-> NtMapViewOfSection, NtUnmapViewOfSection |-> NtUnmapViewOfSection,
  NtUnmapViewOfSectionEx |-> NtUnmapViewOfSectionEx, NtQueueApcThreadEx |-> NtQueueApcThreadEx,
  NtQueueApcThreadEx2 |-> NtQueueApcThreadEx2, NtOpenProcessTokenEx |-> NtOpenProcessTokenEx,
  NtOpenThreadTokenEx |-> NtOpenThreadTokenEx]

-----------------------------------------------------------------------------
(* The policy and the calls.                                               *)

NoRule == [matched |-> FALSE, log |-> FALSE, action |-> "none", trace |-> FALSE]
Rule   == {NoRule} \cup
          [matched : {TRUE}, log : BOOLEAN, action : {"none", "deny", "silent"}, trace : BOOLEAN]

Q == "NtQueryInformationProcess"  \* under GetProcessId
V == "NtQueryVirtualMemory"       \* under VirtualQuery and the stack walk
A == "NtAllocateVirtualMemory"    \* under the heap
P == "NtProtectVirtualMemory"     \* under VirtualProtect

\* The rule for the program's calls, that for those of BLIND's lookups it names, and
\* whether callers in private memory are ignored.
Policy == [called : Rule, lookup : Rule, asked : SUBSET {Q, V}, private : BOOLEAN]

\* The pseudo handle, a handle of this process, a handle of another one.
Handle == {"self", "own", "other"}

Frame(f, h) ==
  [fn |-> f, at |-> "enter", handle |-> h, todo |-> <<>>, rule |-> NoRule, ignored |-> FALSE,
   ok |-> FALSE, ran |-> FALSE, told |-> 0, watched |-> callback]

Top(t)      == frames[t][Len(frames[t])]
W(t)        == HookEntry[Top(t).fn]
Internal(t) == scope[t] > 0
RuleOf(f)   == IF f \in {Q, V} THEN IF f \in rules.asked THEN rules.lookup ELSE NoRule
               ELSE IF f \in Ruled THEN rules.called ELSE NoRule
At(t, label) == frames[t] # <<>> /\ Top(t).at = label /\ Top(t).todo = <<>>

\* Replaces the innermost frame, and enters another call on top of it.
Become(t, f)        == frames' = [frames EXCEPT ![t][Len(frames[t])] = f]
Enters(t, f, fn, h) == frames' = [frames EXCEPT ![t] =
                         IF fn \in Hooked THEN SubSeq(@, 1, Len(@) - 1) \o <<f, Frame(fn, h)>>
                         ELSE SubSeq(@, 1, Len(@) - 1) \o <<f>>]

\* GetProcessPid asks whether the process is this one, by its id unless the handle
\* is the pseudo handle, and asks again for the id when it seemed not to be: a
\* question the policy denies has no answer.
PidCalls(h) == CASE h = "self" -> {<<>>} [] h = "own" -> {<<Q>>, <<Q, Q>>} [] h = "other" -> {<<Q, Q>>}

\* Memory queries in a row are one query here.  A trace has frames to query, or none.
Queried == {<<>>, <<V>>}

\* A page with a system call in it is queried on, guarded if the policy says so and it
\* is not yet, and told with a trace.
Registered == {<<>>, <<P>>, <<P, V>>}

\* A range of this process is queried page by page, up to the first with a system call.
Scanned      == {<<V>> \o r : r \in Registered}
ScanCalls(h) == CASE h = "self" -> Scanned
                  [] h = "own"  -> {<<Q>>} \cup {<<Q>> \o s : s \in Scanned}
                  [] h = "other" -> {<<Q>>}

Before(t, f) == IF ~HookEntry[f.fn].before THEN {<<>>} ELSE PidCalls(f.handle)

\* What makes no difference is fixed: whether a rule logs what it denies, whether it
\* wants a trace while private callers are ignored, which takes one, and whether a lookup
\* is denied or fails silently.  The rule for lookups is for both of them, but for Q alone
\* where V would not end.
Init ==
  /\ callback = TRUE
  /\ rules \in Policy /\ rules.asked # {V} /\ (rules.asked = {Q} => rules.private)
  /\ rules.lookup = NoRule <=> rules.asked = {}
  /\ rules.lookup.action # "deny"
  /\ \A r \in {rules.called, rules.lookup} :
       (r.action # "none" => r.log) /\ (rules.private => ~r.trace)
  /\ frames = [t \in Program |-> <<>>] /\ scope = [t \in Program |-> 0] /\ begun = 0

\* A rule for a function the program does not call makes no difference.
ProgramCall(t) ==
  /\ frames[t] = <<>> /\ begun < CallMax
  /\ \E f \in IF rules.called = NoRule THEN Hooked ELSE Ruled, h \in Handle :
       frames' = [frames EXCEPT ![t] = <<Frame(f, h)>>]
  /\ begun' = begun + 1
  /\ UNCHANGED <<callback, rules, scope>>

-----------------------------------------------------------------------------
(* One wrapper, step by step.                                              *)

\* After the policy is known: look up, call the original, or publish first.
Judged(t, f) ==
  IF HookEntry[f.fn].first
  THEN IF callback THEN {[f EXCEPT !.at = "publish", !.todo = q] : q \in PidCalls(f.handle)}
       ELSE {[f EXCEPT !.at = "original"]}
  ELSE {[f EXCEPT !.at = "original", !.todo = q] : q \in Before(t, f)}

NeedsTrace(f) == RuleOf(f).matched /\ (RuleOf(f).trace \/ rules.private)

\* A marked call is not judged.
Unjudged(t) ==
  /\ At(t, "enter") /\ (Internal(t) \/ ~NeedsTrace(Top(t).fn))
  /\ LET known == ~Internal(t) /\ RuleOf(Top(t).fn).matched IN
       \E i \in BOOLEAN :
         /\ i => known
         /\ \E f \in Judged(t, [Top(t) EXCEPT !.rule = IF known THEN RuleOf(Top(t).fn) ELSE NoRule,
                                              !.ignored = i]) : Become(t, f)
  /\ UNCHANGED <<callback, rules, scope, begun>>

\* A rule that needs a trace walks the stack, marked as BLIND's own work.
Trace(t) ==
  /\ At(t, "enter") /\ ~Internal(t) /\ NeedsTrace(Top(t).fn) /\ Len(frames[t]) < NestMax
  /\ scope' = [scope EXCEPT ![t] = @ + 1]
  /\ Enters(t, [Top(t) EXCEPT !.at = "traced"], V, "self")
  /\ UNCHANGED <<callback, rules, begun>>

\* mutant of Traced: the mark is taken off by the walk and once more after it
TracedUnmarksTwice(t) ==
  /\ At(t, "traced")
  /\ scope' = [scope EXCEPT ![t] = @ - 2]
  /\ Become(t, [Top(t) EXCEPT !.at = "original"])
  /\ UNCHANGED <<callback, rules, begun>>

\* The call is judged; ignored for its caller's module or, by its trace, as private.
Judge(t) ==
  \E i \in BOOLEAN :
    \E f \in Judged(t, [Top(t) EXCEPT !.rule = RuleOf(Top(t).fn), !.ignored = i]) : Become(t, f)

\* The mark is off when the trace is classified.
Traced(t) ==
  /\ At(t, "traced")
  /\ scope' = [scope EXCEPT ![t] = @ - 1]
  /\ \/ Judge(t)
     \/ rules.private /\ \E q \in Queried : Become(t, [Top(t) EXCEPT !.at = "classify", !.todo = q])
  /\ UNCHANGED <<callback, rules, begun>>

Classified(t) == At(t, "classify") /\ Judge(t) /\ UNCHANGED <<callback, rules, scope, begun>>

\* The next of the wrapper's own calls, not marked.
Lookup(t) ==
  /\ frames[t] # <<>> /\ Top(t).todo # <<>> /\ Len(frames[t]) < NestMax
  /\ Top(t).at # "guard" /\ Head(Top(t).todo) # P
  /\ Enters(t, [Top(t) EXCEPT !.todo = Tail(@)], Head(Top(t).todo), IF Head(Top(t).todo) = Q THEN "own" ELSE "self")
  /\ UNCHANGED <<callback, rules, scope, begun>>

Denied(f) == f.rule.matched /\ ~f.ignored /\ f.rule.action # "none"

\* mutant of Original: the status of a denial does not keep the call from running
OriginalAlways(t) ==
  /\ At(t, "original")
  /\ \E ok \in BOOLEAN :
       Become(t, [Top(t) EXCEPT !.ok = ok, !.ran = TRUE, !.at = IF W(t).first THEN "return" ELSE "after"])
  /\ UNCHANGED <<callback, rules, scope, begun>>

\* The original, unless denied; the status of a silent denial is the rule's.  The
\* end of this process ends everything.
Original(t) ==
  /\ At(t, "original")
  /\ \E ok \in BOOLEAN :
       /\ Denied(Top(t)) /\ Top(t).rule.action = "deny" => ~ok
       /\ Become(t, [Top(t) EXCEPT !.ok = ok, !.ran = ~Denied(Top(t)),
                       !.at = IF ~W(t).first THEN "after"
                              ELSE IF Top(t).handle # "other" /\ ok /\ ~Denied(Top(t)) THEN "gone"
                              ELSE "return"])
  /\ UNCHANGED <<callback, rules, scope, begun>>

\* NtProtectVirtualMemory returns at once when nobody would be told.
Quiet(t) ==
  W(t).quiet /\ (Internal(t) \/ (Top(t).rule.matched /\ ~Top(t).rule.log /\ Top(t).rule.action = "none"))

\* What BLIND allocates is new and has no system call in it.
After(t) ==
  /\ At(t, "after")
  /\ LET pid  == IF W(t).after THEN PidCalls(Top(t).handle) ELSE {<<>>}
         scan == IF W(t).scans /\ (Top(t).ok \/ W(t).quiet) /\ ~Internal(t)
                 THEN IF Len(frames[t]) = 1 THEN ScanCalls(Top(t).handle) ELSE {<<V>>}
                 ELSE {<<>>} IN
       IF Quiet(t) \/ ~callback
       THEN Become(t, [Top(t) EXCEPT !.at = "return"])
       ELSE \E p \in pid, s \in scan : Become(t, [Top(t) EXCEPT !.at = "publish", !.todo = p \o s])
  /\ UNCHANGED <<callback, rules, scope, begun>>

\* A page is guarded under the mark; nothing is registered under it.
Guard(t) ==
  /\ frames[t] # <<>> /\ Top(t).at = "publish" /\ Top(t).todo # <<>> /\ Head(Top(t).todo) = P
  /\ ~Internal(t) /\ Len(frames[t]) < NestMax
  /\ scope' = [scope EXCEPT ![t] = @ + 1]
  /\ Enters(t, [Top(t) EXCEPT !.at = "guard", !.todo = Tail(@)], P, "self")
  /\ UNCHANGED <<callback, rules, begun>>

Guarded(t) ==
  /\ frames[t] # <<>> /\ Top(t).at = "guard"
  /\ scope' = [scope EXCEPT ![t] = @ - 1]
  /\ Become(t, [Top(t) EXCEPT !.at = "publish"])
  /\ UNCHANGED <<callback, rules, begun>>

Next2(t) == IF W(t).first THEN "told" ELSE "return"

\* What PublishNtEvent keeps to itself.
Untold(t) ==
  LET f == Top(t) IN
    IF f.rule.matched THEN f.ignored \/ (~f.rule.log /\ f.rule.action = "none")
    ELSE ~W(t).always /\ ~f.ok

Withhold(t) ==
  /\ At(t, "publish") /\ (~callback \/ Internal(t) \/ Untold(t))
  /\ Become(t, [Top(t) EXCEPT !.at = Next2(t)])
  /\ UNCHANGED <<callback, rules, scope, begun>>

\* The callback runs marked, and allocates.
Publish(t) ==
  /\ At(t, "publish") /\ callback /\ ~Internal(t) /\ ~Untold(t) /\ Len(frames[t]) < NestMax
  /\ scope' = [scope EXCEPT ![t] = @ + 1]
  /\ Enters(t, [Top(t) EXCEPT !.at = "callback"], A, "self")
  /\ UNCHANGED <<callback, rules, begun>>

\* It returns, or it faults, as it does when it was cleared in between: the fault
\* is caught and the mark taken off.
Called(t) ==
  /\ At(t, "callback")
  /\ \/ callback /\ Become(t, [Top(t) EXCEPT !.told = @ + 1, !.at = Next2(t)])
     \/ Become(t, [Top(t) EXCEPT !.at = Next2(t), !.watched = FALSE])
  /\ scope' = [scope EXCEPT ![t] = @ - 1]
  /\ UNCHANGED <<callback, rules, begun>>

\* NtTerminateProcess tells what is queued before it goes on, none of it marked:
\* the Winsock events, whose queue is given room for the next ones, ...
Flush(t) ==
  /\ At(t, "told")
  /\ \E q \in Queried : Become(t, [Top(t) EXCEPT !.at = "flush", !.todo = <<A>> \o q])
  /\ UNCHANGED <<callback, rules, scope, begun>>

\* ... the native ones: the room is made while the lock of the queue is held that
\* the callback of a native call takes; ...
Swap(t) ==
  /\ At(t, "flush") /\ Become(t, [Top(t) EXCEPT !.at = "swap", !.todo = <<A>>])
  /\ UNCHANGED <<callback, rules, scope, begun>>

\* ... and, the lock released, they are sent, then those of Ki and of modules, whose
\* queues are one here.
Send(t) ==
  /\ At(t, "swap")
  /\ \E n, m \in Queried : Become(t, [Top(t) EXCEPT !.at = "send", !.todo = n \o <<A>> \o m])
  /\ UNCHANGED <<callback, rules, scope, begun>>

\* The drain of what was sent waits for its answers marked and calls nothing hooked.
Sent(t) ==
  /\ At(t, "send") /\ Become(t, [Top(t) EXCEPT !.at = "original"])
  /\ UNCHANGED <<callback, rules, scope, begun>>

Below(t) == SubSeq(frames[t], 1, Len(frames[t]) - 1)

\* The flush has no room for its events, and no handler for that.
Starved(t) ==
  /\ Top(t).fn = A /\ ~(Top(t).ok /\ Top(t).ran)
  /\ Len(frames[t]) > 1 /\ frames[t][Len(frames[t]) - 1].at \in {"flush", "swap", "send"}

Return(t) ==
  /\ At(t, "return") /\ ~Starved(t)
  /\ frames' = [frames EXCEPT ![t] = Below(t)]
  /\ UNCHANGED <<callback, rules, scope, begun>>

Terminate(t) ==
  /\ At(t, "return") /\ Starved(t)
  /\ frames' = [frames EXCEPT ![t] =
       [Below(t) EXCEPT ![Len(frames[t]) - 1] = [@ EXCEPT !.at = "gone", !.todo = <<>>]]]
  /\ UNCHANGED <<callback, rules, scope, begun>>

\* IxRemoveNtHook has written the originals back and clears the callback last.
ClearCallback ==
  /\ callback /\ callback' = FALSE
  /\ frames' = [t \in Program |-> [i \in DOMAIN frames[t] |-> [frames[t][i] EXCEPT !.watched = FALSE]]]
  /\ UNCHANGED <<rules, scope, begun>>

CallStep(t) ==
  \/ ProgramCall(t) \/ Unjudged(t) \/ Trace(t) \/ Traced(t) \/ Classified(t) \/ Lookup(t)
  \/ Original(t) \/ After(t) \/ Guard(t) \/ Guarded(t) \/ Withhold(t) \/ Publish(t) \/ Called(t)
  \/ Flush(t) \/ Swap(t) \/ Send(t) \/ Sent(t) \/ Return(t) \/ Terminate(t)

Next == (\A t \in Program : ~At(t, "gone")) /\ ((\E t \in Program : CallStep(t)) \/ ClearCallback)

Spec == Init /\ [][Next]_vars

-----------------------------------------------------------------------------
(* Properties.                                                             *)

Marks == {"traced", "guard", "callback"}  \* the points at which a call has its thread marked

\* Every variable has its type, and no chain of calls outgrows its bound.
TypeOK ==
  /\ callback \in BOOLEAN /\ begun \in 0..CallMax
  /\ rules \in Policy
  /\ scope \in [Program -> 0..NestMax]
  /\ \A t \in Program : Len(frames[t]) <= NestMax /\
       \A i \in DOMAIN frames[t] : frames[t][i].fn \in Hooked /\ frames[t][i].handle \in Handle

\* Wrappers inside wrappers end, unless private callers are ignored and there is a rule
\* for memory queries: no chain is longer than the end of a process, the room its flush
\* makes, a query of the scan of that room, and what the rule or the callback of the
\* query calls; and whatever faulted, a thread's mark is exactly the places where BLIND
\* marks its own work.
NestingEnds ==
  \A t \in Program :
    /\ ~(rules.private /\ V \in rules.asked) => Len(frames[t]) <= 4
    /\ scope[t] = Cardinality({i \in DOMAIN frames[t] : frames[t][i].at \in Marks})

\* What the policy denies has not run, and what ran or was denied has been told
\* once by the time the call returns, unless the policy keeps quiet about it, the
\* callback was cleared meanwhile, or it faulted.
DeniedOrTold ==
  \A t \in Program, i \in 1..NestMax :
    (i \in DOMAIN frames[t] /\ frames[t][i].at \in {"return", "gone"}) =>
      LET f == frames[t][i]
          marked == \E j \in 1..(i - 1) : frames[t][j].at \in Marks
          due == IF f.rule.matched THEN ~f.ignored /\ (f.rule.log \/ f.rule.action # "none")
                 ELSE f.ok \/ HookEntry[f.fn].always IN
        /\ ~marked /\ Denied(f) => ~f.ran
        /\ f.watched => f.told = IF due /\ ~marked THEN 1 ELSE 0

\* BLIND's memory query is not judged by another memory query: housekeeping does not
\* recursively re-enter the hooks (runtime_internal.h).
QueriesEnd ==
  \A t \in Program : \A i, j \in DOMAIN frames[t] :
    i < j /\ frames[t][i].fn = V /\ frames[t][j].fn = V => \E k \in i..(j - 1) : frames[t][k].at \in Marks

\* The callback, which takes the lock of the native queue, does not run on the thread
\* that holds it to swap the queue: housekeeping does not recursively re-enter the hooks
\* (runtime_internal.h).
QueueLockedOnce ==
  \A t \in Program : \A i, j \in DOMAIN frames[t] :
    frames[t][i].at = "swap" /\ i < j => frames[t][j].at # "callback"

=============================================================================
