----------------------------- MODULE HookQueue -----------------------------
(***************************************************************************)
(* The coalescing event queue between a hook and the event loop            *)
(* (src/DLL/hooks/controller.cpp), one for each hook controller: Winsock,  *)
(* Nt, Ki and Module share the code.                                       *)
(*                                                                         *)
(* A hooked call (Caller) that finds the hook callback installed captures  *)
(* an event and queues it under the queue's mutex: a recent equal event    *)
(* absorbs it and counts one more repeat; a full queue sacrifices another  *)
(* event.  The event loop (Loop), woken by an event object or after 60 ms, *)
(* swaps the whole queue for an empty one and publishes what it got, one   *)
(* event at a time and outside the mutex.  The NtTerminateProcess hook     *)
(* (Terminator) does the same on its own thread, before the process ends.  *)
(* A critical section of the mutex is one action.                          *)
(*                                                                         *)
(* A call is told apart by the key its event is compared by and by being   *)
(* interesting; whether it is does not follow from the key for Nt events   *)
(* (a process handle counts for the one and not for the other).            *)
(***************************************************************************)
EXTENDS Naturals, SequencesExt

CONSTANTS Caller,       \* threads inside hooked calls
          Terminator,   \* threads inside NtTerminateProcess_Hook
          Loop,         \* the thread of IxRuntimeEventLoopThreadProc
          Key,          \* what events are compared by
          Interesting,  \* keys whose events are always interesting
          Dull,         \* keys whose events never are
          Unmergeable,  \* keys of events with registers: equal to nothing
          TerminateKey, \* the key of the terminator's own event
          QueueMax,     \* kMaxQueuedHookEvents
          ScanMax,      \* kMaxQueueDedupeScan
          RepeatLimit,  \* kRepeatCountLimit
          MaxCalls,     \* bound: calls recorded
          MaxShutdowns  \* bound: controller shutdowns

Flusher  == Terminator \cup {Loop}
Recorder == Caller \cup Terminator
Thread   == Recorder \cup {Loop}

\* What a call may be: its key, and whether its event is interesting.
Call == {c \in Key \X BOOLEAN : (c[1] \in Interesting => c[2]) /\
                                (c[1] \in Dull => ~c[2])}

VARIABLES
  installed,   \* the hook callback is set
  ready,       \* s_Initialized
  queue,       \* s_Queue, oldest first
  workEvent,   \* g_RuntimeWorkEvent: "null", or an auto-reset event
  pc,          \* where each thread is
  hand,        \* a flusher's vector of events, not yet published
  stopping,    \* Shutdown has removed the hook and not yet cleared the queue
  shutdowns,   \* shutdowns so far
  recorded,    \* history: calls recorded so far, by key
  own,         \* history: the number of a terminator's own call
  reported,    \* history: calls counted by published events, by key
  forgotten    \* history: calls of each key no event will ever count

hook == <<installed, ready, stopping, shutdowns>>
vars == <<hook, queue, workEvent, pc, hand, recorded, own, reported, forgotten>>

Recorded == SumFunction(recorded)

\* RepeatCount starts at 1; first numbers the call the event was captured for.
NewEvent(c) ==
  [key |-> c[1], interesting |-> c[2], count |-> 1, first |-> Recorded + 1]

Init ==
  /\ installed = FALSE /\ ready = FALSE /\ stopping = FALSE /\ shutdowns = 0
  /\ queue = <<>> /\ workEvent = "null"
  /\ pc = [t \in Thread |-> IF t = Loop THEN "absent" ELSE "idle"]
  /\ hand = [f \in Flusher |-> <<>>]
  /\ recorded = [k \in Key |-> 0] /\ reported = [k \in Key |-> 0]
  /\ own = [t \in Terminator |-> 0]
  /\ forgotten = [k \in Key |-> 0]

-----------------------------------------------------------------------------
(* A hooked call: capture, TryQueueCoalescedEvent, SignalHookEventsPending. *)

Capturing == {t \in Recorder : pc[t] = "capture"}

EnterHook(t) ==
  /\ pc[t] = "idle" /\ installed
  /\ Recorded + Cardinality(Capturing) < MaxCalls
  /\ pc' = [pc EXCEPT ![t] = "capture"]
  /\ UNCHANGED <<hook, queue, workEvent, hand, recorded, own, reported,
                 forgotten>>

AfterRecording(t) == IF t \in Terminator THEN "swap" ELSE "idle"

\* The callback was removed in the meantime: nothing is recorded.
LeaveHook(t) ==
  /\ pc[t] = "capture" /\ ~installed
  /\ pc' = [pc EXCEPT ![t] = AfterRecording(t)]
  /\ UNCHANGED <<hook, queue, workEvent, hand, recorded, own, reported, forgotten>>

Forget(event) == [forgotten EXCEPT ![event.key] = @ + event.count]

\* The newest ScanMax events are searched, newest first.
\* mutant of Twins: the scan starts at the oldest event
TwinsFromFront(key) ==
  {i \in DOMAIN queue :
     /\ queue[i].key = key /\ key \notin Unmergeable
     /\ i <= ScanMax}

Twins(key) ==
  {i \in DOMAIN queue :
     /\ queue[i].key = key /\ key \notin Unmergeable
     /\ i > Len(queue) - ScanMax}

\* IncrementRepeat saturates; the call is then counted nowhere.
\* mutant of Absorb: a new event instead of a repeat of the old one
AbsorbReset(c, i) ==
  /\ queue' = [queue EXCEPT ![i].count = 1]
  /\ forgotten' = forgotten

Absorb(c, i) ==
  IF queue[i].count = RepeatLimit
  THEN /\ queue' = queue
       /\ forgotten' = [forgotten EXCEPT ![c[1]] = @ + 1]
  ELSE /\ queue' = [queue EXCEPT ![i].count = @ + 1]
       /\ forgotten' = forgotten

Displace(event) ==
  LET dull == {i \in DOMAIN queue : ~queue[i].interesting}
  IN IF event.interesting /\ dull # {}
     THEN \E i \in dull :
            /\ \A j \in dull : i <= j
            /\ queue' = [queue EXCEPT ![i] = event]
            /\ forgotten' = Forget(queue[i])
     ELSE /\ queue' = Append(Tail(queue), event)
          /\ forgotten' = Forget(Head(queue))

\* mutant of Admit: one event too many
AdmitOverfull(event) ==
  IF Len(queue) <= QueueMax
  THEN queue' = Append(queue, event) /\ forgotten' = forgotten
  ELSE Displace(event)

Admit(event) ==
  IF Len(queue) < QueueMax
  THEN queue' = Append(queue, event) /\ forgotten' = forgotten
  ELSE Displace(event)

Enqueue(t, c) ==
  LET twins == Twins(c[1])
  IN /\ pc[t] = "capture" /\ (c[1] = TerminateKey) = (t \in Terminator)
     /\ recorded' = [recorded EXCEPT ![c[1]] = @ + 1]
     /\ own' = IF t \in Terminator THEN [own EXCEPT ![t] = Recorded + 1] ELSE own
     /\ \/ \E i \in twins :
             /\ \A j \in twins : j <= i
             /\ Absorb(c, i)
             /\ pc' = [pc EXCEPT ![t] = AfterRecording(t)]
        \/ /\ twins = {}
           /\ Admit(NewEvent(c))
           /\ pc' = [pc EXCEPT ![t] = "signal"]
     /\ UNCHANGED <<hook, workEvent, hand, reported>>

\* Without an event object the loop has not looked at the queue yet.
Signal(t) ==
  /\ pc[t] = "signal"
  /\ workEvent' = IF workEvent = "null" THEN "null" ELSE "set"
  /\ pc' = [pc EXCEPT ![t] = AfterRecording(t)]
  /\ UNCHANGED <<hook, queue, hand, recorded, own, reported,
                 forgotten>>

-----------------------------------------------------------------------------
(* FlushHookEvents, on the event loop and in the NtTerminateProcess hook.  *)

\* The event loop creates the event object before its first look.
LoopStarts ==
  /\ pc[Loop] = "absent"
  /\ workEvent' = "clear"
  /\ pc' = [pc EXCEPT ![Loop] = "swap"]
  /\ UNCHANGED <<hook, queue, hand, recorded, own, reported,
                 forgotten>>

\* Woken by the event, which resets it, or after 60 ms.
LoopWakes ==
  /\ pc[Loop] = "wait"
  /\ workEvent' = "clear"
  /\ pc' = [pc EXCEPT ![Loop] = "swap"]
  /\ UNCHANGED <<hook, queue, hand, recorded, own, reported,
                 forgotten>>

\* ConsumeQueuedEvents.
\* mutant of Swap: copy the events and leave the queue as it is
SwapCopying(f) ==
  /\ pc[f] = "swap"
  /\ hand' = [hand EXCEPT ![f] = queue]
  /\ queue' = queue
  /\ pc' = [pc EXCEPT ![f] = "publish"]
  /\ UNCHANGED <<hook, workEvent, recorded, own, reported,
                 forgotten>>

Swap(f) ==
  /\ pc[f] = "swap"
  /\ hand' = [hand EXCEPT ![f] = queue]
  /\ queue' = <<>>
  /\ pc' = [pc EXCEPT ![f] = "publish"]
  /\ UNCHANGED <<hook, workEvent, recorded, own, reported,
                 forgotten>>

Report(event) ==
  /\ reported' = [reported EXCEPT ![event.key] = @ + event.count]

\* Send*Event; whether PublishHookEvent accepts it makes no difference here.
Publish(f) ==
  /\ pc[f] = "publish" /\ hand[f] # <<>>
  /\ Report(Head(hand[f]))
  /\ hand' = [hand EXCEPT ![f] = Tail(@)]
  /\ UNCHANGED <<hook, queue, workEvent, pc, recorded, own, forgotten>>

\* The loop goes to sleep; the terminator goes on to end the process.
FlushDone(f) ==
  /\ pc[f] = "publish" /\ hand[f] = <<>>
  /\ pc' = [pc EXCEPT ![f] = IF f = Loop THEN "wait" ELSE "ended"]
  /\ UNCHANGED <<hook, queue, workEvent, hand, recorded, own, reported, forgotten>>

-----------------------------------------------------------------------------
(* Initialize and Shutdown of the controller.                              *)

Initialize ==
  /\ ~ready
  /\ installed' = TRUE /\ ready' = TRUE
  /\ UNCHANGED <<stopping, shutdowns, queue, workEvent, pc, hand,
                 recorded, own, reported,
                 forgotten>>

ShutdownRemovesHook ==
  /\ ready /\ ~stopping /\ shutdowns < MaxShutdowns
  /\ installed' = FALSE /\ stopping' = TRUE /\ shutdowns' = shutdowns + 1
  /\ UNCHANGED <<ready, queue, workEvent, pc, hand, recorded, own, reported, forgotten>>

\* A call that passed the callback check may still queue its event after this.
CountOf(events, key) ==
  SumFunction([i \in DOMAIN events |->
                 IF events[i].key = key THEN events[i].count ELSE 0])

ShutdownClears ==
  /\ stopping
  /\ forgotten' = [k \in Key |-> forgotten[k] + CountOf(queue, k)]
  /\ queue' = <<>> /\ ready' = FALSE /\ stopping' = FALSE
  /\ UNCHANGED <<installed, shutdowns, workEvent, pc, hand, recorded, own,
                 reported>>

-----------------------------------------------------------------------------
Ended == \E t \in Terminator : pc[t] = "ended"

RecorderStep(t) ==
  LeaveHook(t) \/ (\E c \in Call : Enqueue(t, c)) \/ Signal(t)
FlusherStep(f)  == Swap(f) \/ Publish(f) \/ FlushDone(f)
LoopStep        == LoopStarts \/ LoopWakes \/ FlusherStep(Loop)

Next ==
  \/ /\ ~Ended
     /\ \/ \E t \in Recorder : EnterHook(t) \/ RecorderStep(t)
        \/ \E t \in Terminator : FlusherStep(t)
        \/ LoopStep
        \/ Initialize \/ ShutdownRemovesHook \/ ShutdownClears
  \/ Ended /\ UNCHANGED vars

Spec == Init /\ [][Next]_vars

-----------------------------------------------------------------------------
(* Properties.                                                             *)

EventRecord == [key : Key, interesting : BOOLEAN, count : 1 .. RepeatLimit,
                first : 1 .. MaxCalls]

\* Every variable has its type and the queue its size.
TypeOK ==
  /\ installed \in BOOLEAN /\ ready \in BOOLEAN /\ stopping \in BOOLEAN
  /\ shutdowns \in Nat /\ recorded \in [Key -> Nat]
  /\ own \in [Terminator -> Nat] /\ forgotten \in [Key -> Nat]
  /\ workEvent \in {"null", "clear", "set"}
  /\ queue \in Seq(EventRecord) /\ Len(queue) <= QueueMax
  /\ pc \in [Thread -> {"absent", "idle", "capture", "signal", "swap",
                        "publish", "wait", "ended"}]
  /\ hand \in [Flusher -> Seq(EventRecord)]
  /\ reported \in [Key -> Nat]

InHands(k) == SumFunction([f \in Flusher |-> CountOf(hand[f], k)])

Accounted(k) ==
  CountOf(queue, k) + InHands(k) + reported[k] + forgotten[k]

\* Every recorded call is counted exactly once, whatever the interleaving of
\* repeats, evictions, swaps, publications and shutdowns: by an event in the
\* queue, in a flusher's vector or published, or among the forgotten.
EveryCallCountedOnce ==
  \A k \in Key : Accounted(k) = recorded[k]

\* The newest ScanMax events are pairwise different, wherever displaced events
\* landed: a burst of equal calls costs one place.
BurstsCoalesced ==
  \A i, j \in DOMAIN queue :
    i < j /\ queue[i].key = queue[j].key /\ queue[i].key \notin Unmergeable =>
      i <= Len(queue) - ScanMax

\* The process does not end with the terminator's own event, or an older one,
\* in the queue: only the vector of the event loop can take them to the grave.
LastEventFlushed ==
  \A t \in Terminator : pc[t] = "ended" =>
    \A i \in DOMAIN queue : queue[i].first > own[t]

=============================================================================
