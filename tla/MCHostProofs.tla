---------------------------- MODULE MCHostProofs ----------------------------
(***************************************************************************)
(* Theorems about what the host learns.  First the pipe by itself, for     *)
(* every size of a batch and every bound, the watchdogs, and the start-up, *)
(* for every set of hook groups and every mask the policy requires; then   *)
(* the composition of the three: a step of the host is a step of one       *)
(* component and a stutter of the others, so that each inductive invariant *)
(* survives the steps of all.                                              *)
(***************************************************************************)
EXTENDS MCHost, SequenceTheorems, TLAPS

-----------------------------------------------------------------------------
(* The inductive invariant.                                                *)

Message == [seq : Nat, cmd : [kind : {"handshake", "command"}, events : Batch]]

Typed ==
  /\ open \in BOOLEAN /\ shaken \in BOOLEAN /\ stop \in BOOLEAN
  /\ closed \in BOOLEAN
  /\ sequence \in Nat /\ submitted \in Nat /\ controls \in Nat
  /\ cpc \in {"idle", "open", "shake", "shaking", "write", "reading"}
  /\ srv \in {"creating", "listening", "accepting", "top", "reading",
              "replying", "closed"}
  /\ plan \in Seq(Batch)
  /\ requests \in Seq(Message) /\ responses \in Seq(Message) /\ answer \in Message
  /\ delivered \in Seq(1 .. submitted) /\ confirmed \subseteq 1 .. submitted

\* A command is transacted on an open handle, and there is only ever one handle.
OneHandle ==
  /\ cpc \in {"shake", "shaking", "write", "reading"} => open
  /\ cpc = "reading" => plan # <<>>
  /\ open => ~closed
  /\ open \/ closed => srv \notin {"creating", "listening"}

\* One request is on its way at a time: not yet read, being answered, or answered.
OneAtATime ==
  /\ Len(requests) <= 1 /\ Len(responses) <= 1
  /\ requests # <<>> => responses = <<>> /\ srv # "replying"
  /\ responses # <<>> => srv # "replying"
  /\ ~closed /\ cpc \notin {"shaking", "reading"}
       => requests = <<>> /\ responses = <<>> /\ srv # "replying"
  /\ ~closed /\ requests # <<>>
       => Head(requests).cmd.events = IF cpc = "reading" THEN Head(plan) ELSE <<>>

Before(s, t) == \A i \in DOMAIN s, j \in DOMAIN t : s[i] < t[j]

Ordered(p) ==
  /\ \A i \in DOMAIN p : Delivery!Increasing(p[i])
  /\ \A i, j \in DOMAIN p : i < j => Before(p[i], p[j])

\* What the host consumed is in order, what is on its way comes after that, and so
\* does, while the handle may still be used, all that the client has planned.
InOrder ==
  /\ Delivery!Increasing(delivered)
  /\ \A i \in DOMAIN requests : /\ Delivery!Increasing(requests[i].cmd.events)
                                /\ Before(delivered, requests[i].cmd.events)
  /\ ~closed =>
       /\ Ordered(plan)
       /\ \A i \in DOMAIN plan : i > 1 \/ cpc # "reading" => Before(delivered, plan[i])

\* What is answered or confirmed was consumed.
Answered ==
  /\ \A i \in DOMAIN responses : ToSet(responses[i].cmd.events) \subseteq ToSet(delivered)
  /\ ToSet(answer.cmd.events) \subseteq ToSet(delivered)
  /\ confirmed \subseteq ToSet(delivered)

PipeInv == Typed /\ OneHandle /\ OneAtATime /\ InOrder /\ Answered

-----------------------------------------------------------------------------
(* Types.                                                                  *)

\* A command of a batch, and its request, are messages.
LEMMA MessageTypes ==
  ASSUME NEW b \in Batch, NEW n \in Nat
  PROVE  /\ [seq |-> n, cmd |-> Command(b)] \in Message
         /\ Command(b).events = b
         /\ [seq |-> n, cmd |-> Handshake] \in Message /\ NoAnswer \in Message
         /\ Handshake.events = <<>> /\ NoAnswer.cmd.events = <<>>
<1>1. <<>> \in Batch
  BY BoundsAreNatural DEF Batch
<1>2. Command(b) \in [kind : {"handshake", "command"}, events : Batch] /\ Command(b).events = b
  BY DEF Command
<1>3. Command(<<>>) \in [kind : {"handshake", "command"}, events : Batch] /\ Command(<<>>).events = <<>>
  BY <1>1 DEF Command
<1>4. Handshake \in [kind : {"handshake", "command"}, events : Batch] /\ Handshake.events = <<>>
  BY <1>1 DEF Handshake
<1> HIDE DEF Command, Handshake
<1> QED
  BY <1>2, <1>3, <1>4 DEF Message, NoAnswer

\* An empty batch, and one event of a batch, are batches.
LEMMA SmallBatches ==
  /\ <<>> \in Batch
  /\ \A b \in Batch : \A i \in 1 .. Len(b) : <<b[i]>> \in Batch
<1>1. <<>> \in Batch
  BY BoundsAreNatural DEF Batch
<1>2. ASSUME NEW b \in Batch, NEW i \in 1 .. Len(b)
      PROVE  <<b[i]>> \in Batch
  <2>1. b[i] \in 1 .. submitted
    <3>1. b \in Seq(1 .. submitted)
      BY DEF Batch
    <3> QED
      BY <3>1, ElementOfSeq
  <2>2. <<b[i]>> \in Seq(1 .. submitted) /\ Len(<<b[i]>>) = 1
    BY <2>1
  <2> QED
    BY <2>2, BoundsAreNatural DEF Batch
<1> QED
  BY <1>1, <1>2

\* How the plan and the buffers of the pipe are put together keeps their types.
LEMMA SequenceTypes ==
  /\ <<>> \in Seq(Message) /\ <<>> \in Seq(Batch)
  /\ \A b \in Batch : <<b>> \in Seq(Batch)
  /\ \A s \in Seq(Message), m \in Message : Append(s, m) \in Seq(Message)
  /\ \A s \in Seq(Message) : s # <<>> => Head(s) \in Message /\ Tail(s) \in Seq(Message)
<1>1. ASSUME NEW b \in Batch PROVE <<b>> \in Seq(Batch)
  OBVIOUS
<1> QED
  BY <1>1, EmptySeq, AppendProperties, HeadTailProperties

\* The elements of a typed sequence have their type.
LEMMA ElementsTyped ==
  ASSUME NEW S, NEW s \in Seq(S)
  PROVE  \A i \in DOMAIN s : s[i] \in S
OBVIOUS

\* The events of a well-typed batch are events.
LEMMA ToSetType ==
  ASSUME NEW S, NEW s \in Seq(S)
  PROVE  ToSet(s) \subseteq S
BY DEF ToSet

\* What is left of the plan after a command is planned of batches again.
LEMMA AfterType ==
  ASSUME Typed, NEW ok \in BOOLEAN, After(ok)
  PROVE  plan' \in Seq(Batch) /\ cpc' \in {"idle", "open"}
<1>1. plan \in Seq(Batch)
  BY DEF Typed
<1>2. CASE plan = <<>>
  BY <1>1, <1>2 DEF After
<1>3. CASE plan # <<>>
  <2>1. Head(plan) \in Batch /\ Tail(plan) \in Seq(Batch)
    BY <1>1, <1>3
  <2>2. [i \in 1 .. Len(Head(plan)) |-> << Head(plan)[i] >>] \in Seq(Batch)
    <3>1. Len(Head(plan)) \in Nat
      BY <2>1 DEF Batch
    <3>2. \A i \in 1 .. Len(Head(plan)) : << Head(plan)[i] >> \in Batch
      BY <2>1, SmallBatches
    <3> QED
      BY <3>1, <3>2
  <2> QED
    BY <1>3, <2>1, <2>2 DEF After
<1> QED
  BY <1>2, <1>3

\* While no event is handed over, messages and batches stay what they are.
LEMMA SameMessages ==
  ASSUME UNCHANGED submitted
  PROVE  Batch' = Batch /\ Message' = Message
BY DEF Batch, Message

\* With more events handed over, what was a message or a batch still is.
LEMMA MoreMessages ==
  ASSUME Typed, submitted' \in Nat, submitted' >= submitted
  PROVE  1 .. submitted \subseteq 1 .. submitted' /\ Batch \subseteq Batch' /\ Message \subseteq Message'
<1>1. submitted \in Nat
  BY DEF Typed
<1>2. \A x \in 1 .. submitted : x \in 1 .. submitted'
  BY <1>1
<1>3. Seq(1 .. submitted) \subseteq Seq(1 .. submitted')
  BY <1>2, SeqMonotonic
<1>4. Batch \subseteq Batch'
  BY <1>3 DEF Batch
<1> QED
  BY <1>2, <1>4 DEF Message

\* The handing over of events plans a batch of them.
LEMMA PublishType ==
  ASSUME Typed, BeginPublish
  PROVE  Typed'
<1>1. PICK n \in 1 .. BatchMax : /\ submitted' = submitted + n
                                 /\ plan' = << [i \in 1 .. n |-> submitted + i] >>
  BY DEF BeginPublish
<1>2. submitted \in Nat /\ n \in Nat /\ n <= BatchMax
  BY BoundsAreNatural DEF Typed
<1>3. [i \in 1 .. n |-> submitted + i] \in Seq(1 .. (submitted + n))
  BY <1>2
<1>4. [i \in 1 .. n |-> submitted + i] \in Batch'
  BY <1>1, <1>2, <1>3 DEF Batch
<1>5. plan' \in Seq(Batch')
  BY <1>1, <1>4
<1>6. 1 .. submitted \subseteq 1 .. submitted' /\ Message \subseteq Message'
  BY <1>1, <1>2, MoreMessages
<1>7. requests' \in Seq(Message') /\ responses' \in Seq(Message') /\ answer' \in Message'
  BY <1>6, SeqMonotonic DEF BeginPublish, host, Typed
<1>8. delivered' \in Seq(1 .. submitted') /\ confirmed' \subseteq 1 .. submitted'
  BY <1>6, SeqMonotonic DEF BeginPublish, Typed
<1>9. submitted' \in Nat
  BY <1>1, <1>2
<1> QED
  BY <1>5, <1>7, <1>8, <1>9 DEF BeginPublish, host, Typed

\* The other steps of a client.
LEMMA ClientType ==
  ASSUME Typed, OneHandle, BeginControl \/ ShutdownClose \/ ClientStep
  PROVE  Typed'
<1>1. UNCHANGED submitted
  BY DEF BeginControl, ShutdownClose, ClientStep, OpenReuse, OpenConnect, OpenFails, WriteHandshake,
         WriteCommand, Write, NothingToWrite, WriteFails, ReadHandshake, ReadResponse, ReadFails, ghosts
<1>2. Batch' = Batch /\ Message' = Message
  BY <1>1, SameMessages
<1>3. plan # <<>> => Head(plan) \in Batch
  BY DEF Typed
<1>4. /\ plan # <<>> => \A n \in Nat : [seq |-> n, cmd |-> Command(Head(plan))] \in Message
      /\ \A n \in Nat : [seq |-> n, cmd |-> Handshake] \in Message
  BY <1>3, MessageTypes, SmallBatches
<1>5. CASE BeginControl
  <2>1. plan' \in Seq(Batch)
    BY <1>5, SmallBatches, SequenceTypes DEF BeginControl
  <2> QED
    BY <1>1, <1>2, <1>5, <2>1 DEF BeginControl, Typed, host
<1>6. CASE ShutdownClose
  BY <1>1, <1>2, <1>6, SequenceTypes DEF ShutdownClose, ClosePipe, Typed, host, ghosts
<1>7. CASE OpenReuse \/ OpenConnect
  BY <1>1, <1>2, <1>7 DEF OpenReuse, OpenConnect, Typed, host, ghosts
<1>8. CASE OpenFails
  BY <1>1, <1>2, <1>8, AfterType DEF OpenFails, Typed, host, ghosts
<1>9. CASE WriteHandshake \/ WriteCommand
  <2>1. PICK m \in Message, next \in {"shaking", "reading"} :
          /\ requests' = Append(requests, m) /\ cpc' = next /\ sequence' = sequence + 1
          /\ UNCHANGED <<open, shaken, plan, host, responses, ghosts, closed>>
    <3>1. sequence + 1 \in Nat
      BY DEF Typed
    <3>2. CASE WriteHandshake
      BY <1>4, <3>1, <3>2 DEF WriteHandshake, Write
    <3>3. CASE WriteCommand
      BY <1>4, <3>1, <3>3 DEF WriteCommand, Write
    <3> QED
      BY <1>9, <3>2, <3>3
  <2> QED
    BY <1>1, <1>2, <2>1 DEF Typed, host, ghosts
<1>10. CASE NothingToWrite
  BY <1>1, <1>2, <1>10, AfterType DEF NothingToWrite, Typed, host, ghosts
<1>11. CASE WriteFails
  <2>1. \E m \in Message : requests' \in {requests, Append(requests, m)}
    <3>1. sequence + 1 \in Nat
      BY DEF Typed
    <3>2. CASE cpc = "shake"
      BY <1>4, <1>11, <3>1, <3>2 DEF WriteFails
    <3>3. CASE cpc = "write" /\ plan # <<>>
      BY <1>4, <1>11, <3>1, <3>3 DEF WriteFails
    <3> QED
      BY <1>11, <3>2, <3>3 DEF WriteFails
  <2>2. requests' \in Seq(Message)
    BY <2>1, SequenceTypes DEF Typed
  <2>3. plan' \in Seq(Batch) /\ cpc' \in {"idle", "open"}
    BY <1>11, AfterType DEF WriteFails, FailCommand
  <2>4. UNCHANGED <<srv, stop, answer, submitted, delivered, confirmed, controls>>
    BY <1>11 DEF WriteFails, host, ghosts
  <2>5. open' \in BOOLEAN /\ shaken' \in BOOLEAN /\ closed' \in BOOLEAN /\ responses' \in Seq(Message)
    BY <1>11, SequenceTypes DEF WriteFails, FailCommand, ClosePipe
  <2>6. sequence' \in Nat
    BY <1>11 DEF WriteFails, Typed
  <2>7. /\ plan' \in Seq(Batch') /\ requests' \in Seq(Message') /\ responses' \in Seq(Message')
        /\ answer' \in Message'
    BY <1>2, <2>2, <2>3, <2>4, <2>5 DEF Typed
  <2> QED
    BY <2>3, <2>4, <2>5, <2>6, <2>7 DEF Typed
<1>12. CASE ReadHandshake
  BY <1>1, <1>2, <1>12, SequenceTypes DEF ReadHandshake, Typed, host, ghosts
<1>13. CASE ReadResponse
  <2>1. ToSet(Head(plan)) \subseteq 1 .. submitted
    <3>1. Head(plan) \in Seq(1 .. submitted)
      BY <1>3, <1>13 DEF ReadResponse, OneHandle, Batch
    <3> QED
      BY <3>1, ToSetType
  <2>2. responses' \in Seq(Message)
    BY <1>13, SequenceTypes DEF ReadResponse, Typed
  <2> QED
    BY <1>1, <1>2, <1>13, <2>1, <2>2, AfterType DEF ReadResponse, Typed, host, ghosts
<1>14. CASE ReadFails
  BY <1>1, <1>2, <1>14, AfterType, SequenceTypes DEF ReadFails, FailCommand, ClosePipe, Typed, host, ghosts
<1> QED
  BY <1>5, <1>6, <1>7, <1>8, <1>9, <1>10, <1>11, <1>12, <1>13, <1>14 DEF ClientStep

\* The steps of the host and of the runner.
LEMMA HostType ==
  ASSUME Typed, ServerStep \/ RunnerStops
  PROVE  Typed'
<1>1. UNCHANGED submitted
  BY DEF ServerStep, RunnerStops, ServerCreates, ServerAccepts, ServerTop, ServerHandles, ServerReplies,
         ServerLosesClient, ghosts
<1>2. Batch' = Batch /\ Message' = Message
  BY <1>1, SameMessages
<1>3. CASE RunnerStops \/ ServerCreates \/ ServerAccepts
  BY <1>1, <1>2, <1>3 DEF RunnerStops, ServerCreates, ServerAccepts, Typed, client, ghosts
<1>4. CASE ServerTop
  BY <1>1, <1>2, <1>4, SequenceTypes DEF ServerTop, Disconnect, Typed, client, ghosts
<1>5. CASE ServerHandles
  <2>1. Head(requests) \in Message /\ Tail(requests) \in Seq(Message)
    BY <1>5, SequenceTypes DEF ServerHandles, Typed
  <2>2. Head(requests).cmd.events \in Seq(1 .. submitted)
    BY <2>1 DEF Message, Batch
  <2>3. delivered' \in Seq(1 .. submitted)
    BY <1>5, <2>2 DEF ServerHandles, Typed
  <2> QED
    BY <1>1, <1>2, <1>5, <2>1, <2>3 DEF ServerHandles, Typed, client
<1>6. CASE ServerReplies
  <2>1. NoAnswer \in Message
    BY MessageTypes, SmallBatches
  <2>2. responses' \in Seq(Message)
    BY <1>6, SequenceTypes DEF ServerReplies, Typed
  <2> QED
    BY <1>1, <1>2, <1>6, <2>1, <2>2 DEF ServerReplies, Typed, client, ghosts
<1>7. CASE ServerLosesClient
  <2>1. NoAnswer \in Message
    BY MessageTypes, SmallBatches
  <2> QED
    BY <1>1, <1>2, <1>7, <2>1, SequenceTypes DEF ServerLosesClient, Disconnect, Typed, client, ghosts
<1> QED
  BY <1>3, <1>4, <1>5, <1>6, <1>7 DEF ServerStep

-----------------------------------------------------------------------------
(* One handle, one request at a time.                                      *)

\* What a command leaves to do is to open the pipe again, or nothing.
LEMMA AfterMoves ==
  ASSUME After(TRUE) \/ After(FALSE)
  PROVE  cpc' \in {"idle", "open"}
BY DEF After

\* The client closes its handle for good: the host listens only once.
LEMMA OneHandleKept ==
  ASSUME OneHandle, Next
  PROVE  OneHandle'
<1>1. CASE BeginPublish \/ BeginControl \/ ShutdownClose \/ RunnerStops \/ Rest
  BY <1>1 DEF OneHandle, BeginPublish, BeginControl, ShutdownClose, ClosePipe, RunnerStops, Rest, vars,
              client, host, ghosts
<1>2. CASE OpenReuse \/ OpenConnect
  BY <1>2 DEF OneHandle, OpenReuse, OpenConnect, host, ghosts
<1>3. CASE OpenFails \/ NothingToWrite
  <2>1. cpc' \in {"idle", "open"} /\ UNCHANGED <<open, closed, srv>>
    BY <1>3, AfterMoves DEF OpenFails, NothingToWrite, host
  <2> QED
    BY <2>1 DEF OneHandle
<1>4. CASE WriteHandshake \/ WriteCommand
  BY <1>4 DEF OneHandle, WriteHandshake, WriteCommand, Write, host, ghosts
<1>5. CASE WriteFails \/ ReadFails
  BY <1>5, AfterMoves DEF OneHandle, WriteFails, ReadFails, FailCommand, ClosePipe, host, ghosts
<1>6. CASE ReadHandshake
  BY <1>6 DEF OneHandle, ReadHandshake, host, ghosts
<1>7. CASE ReadResponse
  BY <1>7, AfterMoves DEF OneHandle, ReadResponse, host, ghosts
<1>8. CASE ServerCreates \/ ServerAccepts \/ ServerTop \/ ServerHandles \/ ServerReplies \/ ServerLosesClient
  BY <1>8 DEF OneHandle, ServerCreates, ServerAccepts, ServerTop, ServerHandles, ServerReplies,
              ServerLosesClient, Disconnect, client, ghosts
<1> QED
  BY <1>1, <1>2, <1>3, <1>4, <1>5, <1>6, <1>7, <1>8 DEF Next, ClientStep, ServerStep

\* What is written to an empty buffer is alone there; what is read from a buffer of
\* one leaves it empty.
LEMMA BufferOfOne ==
  ASSUME NEW S, NEW s \in Seq(S), Len(s) <= 1
  PROVE  /\ s = <<>> => \A m : /\ Append(s, m) # <<>> /\ Len(Append(s, m)) = 1
                               /\ Head(Append(s, m)) = m
                               /\ \A i \in DOMAIN Append(s, m) : i = 1 /\ Append(s, m)[i] = m
         /\ s # <<>> => /\ Tail(s) = <<>> /\ Head(s) = s[1] /\ 1 \in DOMAIN s
                        /\ \A i \in DOMAIN s : i = 1
         /\ Len(<<>>) = 0
<1>1. CASE s = <<>>
  <2>1. ASSUME NEW m PROVE Append(s, m) = <<m>>
    BY <1>1
  <2> QED
    BY <1>1, <2>1
<1>2. CASE s # <<>>
  <2>1. Len(s) = 1
    <3>1. Len(s) \in Nat /\ Len(s) # 0
      BY <1>2, EmptySeq
    <3>2. ASSUME NEW n \in Nat, n <= 1, n # 0 PROVE n = 1
      BY <3>2
    <3> QED
      BY <3>1, <3>2
  <2>2. Tail(s) = <<>>
    <3>1. Tail(s) \in Seq(S) /\ Len(Tail(s)) = 0
      BY <1>2, <2>1
    <3> QED
      BY <3>1
  <2> QED
    BY <1>2, <2>1, <2>2
<1> QED
  BY <1>1, <1>2

\* So it is with both buffers of the pipe.
LEMMA PipeOfOne ==
  ASSUME Typed, OneAtATime
  PROVE  /\ requests = <<>> => \A m : /\ Append(requests, m) # <<>> /\ Len(Append(requests, m)) = 1
                                      /\ Head(Append(requests, m)) = m
                                      /\ \A i \in DOMAIN Append(requests, m) : i = 1 /\ Append(requests, m)[i] = m
         /\ requests # <<>> => /\ Tail(requests) = <<>> /\ Head(requests) = requests[1]
                               /\ 1 \in DOMAIN requests /\ \A i \in DOMAIN requests : i = 1
         /\ responses = <<>> => \A m : Append(responses, m) # <<>> /\ Len(Append(responses, m)) = 1
         /\ responses # <<>> => Tail(responses) = <<>>
         /\ Len(<<>>) = 0
BY BufferOfOne DEF Typed, OneAtATime

\* The client waits for the answer before it writes again, or closes the handle.
LEMMA OneAtATimeKept ==
  ASSUME Typed, OneHandle, OneAtATime, Next
  PROVE  OneAtATime'
<1>1. CASE BeginPublish \/ BeginControl \/ ShutdownClose \/ RunnerStops \/ Rest
  BY <1>1, PipeOfOne DEF OneAtATime, BeginPublish, BeginControl, ShutdownClose, ClosePipe, RunnerStops,
              Rest, vars, client, host, ghosts
<1>2. CASE OpenReuse \/ OpenConnect
  BY <1>2 DEF OneAtATime, OpenReuse, OpenConnect, host, ghosts
<1>3. CASE OpenFails \/ NothingToWrite
  BY <1>3, AfterMoves DEF OneAtATime, OpenFails, NothingToWrite, host, ghosts
<1>4. CASE WriteHandshake \/ WriteCommand
  BY <1>4, PipeOfOne DEF OneHandle, OneAtATime, WriteHandshake, WriteCommand, Write, Command, Handshake,
                         host, ghosts
<1>5. CASE WriteFails \/ ReadFails
  <2>1. responses' = <<>> /\ closed' = TRUE /\ srv' = srv
    BY <1>5 DEF WriteFails, ReadFails, FailCommand, ClosePipe, host
  <2>2. CASE UNCHANGED requests
    BY <2>1, <2>2, PipeOfOne DEF OneAtATime
  <2>3. CASE WriteFails /\ \E m : requests' = Append(requests, m)
    <3>1. ~closed /\ cpc \notin {"shaking", "reading"}
      BY <2>3 DEF WriteFails, OneHandle
    <3> QED
      BY <2>1, <2>3, <3>1, PipeOfOne DEF OneAtATime
  <2> QED
    BY <1>5, <2>2, <2>3 DEF WriteFails, ReadFails
<1>6. CASE ReadHandshake \/ ReadResponse
  BY <1>6, AfterMoves, PipeOfOne DEF OneHandle, OneAtATime, ReadHandshake, ReadResponse, host, ghosts
<1>7. CASE ServerCreates \/ ServerAccepts \/ ServerTop
  BY <1>7, PipeOfOne DEF OneAtATime, ServerCreates, ServerAccepts, ServerTop, Disconnect, client, ghosts
<1>8. CASE ServerHandles
  BY <1>8, PipeOfOne DEF OneAtATime, ServerHandles, client, ghosts
<1>9. CASE ServerReplies
  BY <1>9, PipeOfOne DEF OneAtATime, ServerReplies, client, ghosts
<1>10. CASE ServerLosesClient
  BY <1>10, PipeOfOne DEF OneAtATime, ServerLosesClient, Disconnect, client, ghosts
<1> QED
  BY <1>1, <1>2, <1>3, <1>4, <1>5, <1>6, <1>7, <1>8, <1>9, <1>10 DEF Next, ClientStep, ServerStep

-----------------------------------------------------------------------------
(* The order of events.                                                    *)

\* The elements of a sequence put after another are those of the one or the other.
LEMMA ConcatElements ==
  ASSUME NEW S, NEW s \in Seq(S), NEW t \in Seq(S)
  PROVE  /\ s \o t \in Seq(S)
         /\ \A i \in DOMAIN (s \o t) : \/ i \in DOMAIN s /\ (s \o t)[i] = s[i]
                                       \/ /\ i - Len(s) \in DOMAIN t /\ (s \o t)[i] = t[i - Len(s)]
                                          /\ i > Len(s)
         /\ \A i \in DOMAIN s : i \in DOMAIN (s \o t) /\ (s \o t)[i] = s[i]
         /\ \A i \in DOMAIN t : i + Len(s) \in DOMAIN (s \o t) /\ (s \o t)[i + Len(s)] = t[i]
         /\ DOMAIN s = 1 .. Len(s) /\ DOMAIN t = 1 .. Len(t) /\ DOMAIN (s \o t) = 1 .. (Len(s) + Len(t))
         /\ Len(s) \in Nat /\ Len(t) \in Nat
BY ConcatProperties

\* What comes after two sequences comes after both together.
LEMMA ConcatBefore ==
  ASSUME NEW S, NEW s \in Seq(S), NEW t \in Seq(S), NEW u, Before(s, u), Before(t, u)
  PROVE  Before(s \o t, u)
BY ConcatElements DEF Before

\* Two ordered sequences, one before the other, are together ordered.
LEMMA ConcatIncreasing ==
  ASSUME NEW S, NEW s \in Seq(S), NEW t \in Seq(S),
         Delivery!Increasing(s), Delivery!Increasing(t), Before(s, t)
  PROVE  Delivery!Increasing(s \o t)
<1> SUFFICES ASSUME NEW i \in DOMAIN (s \o t), NEW j \in DOMAIN (s \o t), i < j
             PROVE  (s \o t)[i] < (s \o t)[j]
  BY DEF Delivery!Increasing
<1>1. CASE i \in DOMAIN s /\ j \in DOMAIN s
  BY <1>1, ConcatElements DEF Delivery!Increasing
<1>2. CASE i \in DOMAIN s /\ j \notin DOMAIN s
  BY <1>2, ConcatElements DEF Before
<1>3. CASE i \notin DOMAIN s
  <2>1. /\ i - Len(s) \in DOMAIN t /\ (s \o t)[i] = t[i - Len(s)] /\ i > Len(s)
        /\ Len(s) \in Nat /\ DOMAIN (s \o t) = 1 .. (Len(s) + Len(t)) /\ Len(t) \in Nat /\ DOMAIN s = 1 .. Len(s)
    BY <1>3, ConcatElements
  <2>2. j \notin DOMAIN s
    BY <2>1
  <2>3. j - Len(s) \in DOMAIN t /\ (s \o t)[j] = t[j - Len(s)]
    BY <2>2, ConcatElements
  <2>4. i - Len(s) < j - Len(s)
    BY <2>1
  <2> QED
    BY <2>1, <2>3, <2>4 DEF Delivery!Increasing
<1> QED
  BY <1>1, <1>2, <1>3

\* The plan stays ordered, also where a batch is taken apart, and after whatever came
\* before all of it, or before all but the command that was done.
LEMMA AfterOrder ==
  ASSUME Typed, Ordered(plan), NEW s, NEW ok \in BOOLEAN, After(ok),
         \A i \in DOMAIN plan : i > 1 \/ ~ok => Before(s, plan[i])
  PROVE  Ordered(plan') /\ \A i \in DOMAIN plan' : Before(s, plan'[i])
<1>1. plan \in Seq(Batch)
  BY DEF Typed
<1>2. CASE plan = <<>>
  BY <1>2 DEF After, Ordered
<1>3. CASE plan # <<>>
  <2>1. /\ Tail(plan) \in Seq(Batch) /\ Len(plan) \in Nat \ {0} /\ Len(Tail(plan)) = Len(plan) - 1
        /\ \A i \in 1 .. Len(Tail(plan)) : Tail(plan)[i] = plan[i + 1]
        /\ Head(plan) = plan[1] /\ Head(plan) \in Batch /\ 1 \in DOMAIN plan
        /\ DOMAIN plan = 1 .. Len(plan) /\ DOMAIN Tail(plan) = 1 .. Len(Tail(plan))
    BY <1>1, <1>3
  <2>2. CASE plan' = Tail(plan)
    <3>1. \A i \in DOMAIN plan' : i \in Nat /\ i + 1 \in DOMAIN plan /\ plan'[i] = plan[i + 1] /\ i + 1 > 1
      BY <2>1, <2>2
    <3> QED
      BY <3>1 DEF Ordered
  <2>3. CASE ~ok /\ plan' = [i \in 1 .. Len(Head(plan)) |-> << Head(plan)[i] >>]
    <3> DEFINE b == Head(plan)
    <3>1. b \in Seq(1 .. submitted) /\ Delivery!Increasing(b) /\ Before(s, b)
      BY <2>1, <2>3 DEF Ordered, Batch
    <3> HIDE DEF b
    <3>2. DOMAIN b = 1 .. Len(b) /\ DOMAIN plan' = DOMAIN b /\ \A i \in DOMAIN b : plan'[i] = << b[i] >>
      BY <2>3, <3>1 DEF b
    <3>3. \A i \in DOMAIN b : DOMAIN plan'[i] = {1} /\ plan'[i][1] = b[i]
      BY <3>2
    <3> QED
      BY <3>1, <3>2, <3>3 DEF Ordered, Before, Delivery!Increasing
  <2> QED
    BY <1>3, <2>2, <2>3 DEF After
<1> QED
  BY <1>2, <1>3

\* New events are planned after all older ones.
LEMMA PublishInOrder ==
  ASSUME Typed, InOrder, BeginPublish
  PROVE  InOrder'
<1>1. PICK n \in 1 .. BatchMax : plan' = << [i \in 1 .. n |-> submitted + i] >>
  BY DEF BeginPublish
<1> DEFINE b == [i \in 1 .. n |-> submitted + i]
<1>2. submitted \in Nat /\ \A d \in DOMAIN delivered : delivered[d] \in 1 .. submitted
  BY DEF Typed
<1>3. Delivery!Increasing(b) /\ Before(delivered, b)
  BY <1>2 DEF Delivery!Increasing, Before
<1> HIDE DEF b
<1>4. DOMAIN plan' = {1} /\ plan'[1] = b
  BY <1>1 DEF b
<1>5. Ordered(plan') /\ \A i \in DOMAIN plan' : Before(delivered, plan'[i])
  BY <1>3, <1>4 DEF Ordered
<1>6. UNCHANGED <<delivered, requests, closed>>
  BY DEF BeginPublish
<1> QED
  BY <1>5, <1>6 DEF InOrder, Ordered

\* A step that changes neither plan nor history, that empties or leaves the pipe, and
\* that does not begin to read, keeps the order.
LEMMA QuietInOrder ==
  ASSUME InOrder, UNCHANGED <<delivered, plan>>, requests' = requests \/ requests' = <<>>,
         closed' = closed \/ closed' = TRUE, cpc' = cpc \/ (cpc # "reading" /\ cpc' # "reading")
  PROVE  InOrder'
BY DEF InOrder, Ordered

\* A command is written after the events before it were consumed.
LEMMA WriteInOrder ==
  ASSUME Typed, OneHandle, OneAtATime, InOrder, WriteHandshake \/ WriteCommand
  PROVE  InOrder'
<1>1. ~closed /\ requests = <<>>
  BY DEF WriteHandshake, WriteCommand, Write, OneHandle, OneAtATime
<1>2. UNCHANGED <<delivered, plan, closed>> /\ cpc # "reading"
  BY DEF WriteHandshake, WriteCommand, Write, ghosts
<1>3. PICK m : /\ requests' = Append(requests, m)
               /\ m.cmd.events = <<>> \/ (plan # <<>> /\ m.cmd.events = Head(plan))
  BY DEF WriteHandshake, WriteCommand, Write, Handshake, Command
<1>4. plan # <<>> => Head(plan) = plan[1] /\ 1 \in DOMAIN plan
  BY DEF Typed
<1>5. Delivery!Increasing(m.cmd.events) /\ Before(delivered, m.cmd.events)
  BY <1>1, <1>2, <1>3, <1>4 DEF InOrder, Ordered, Delivery!Increasing, Before
<1>6. \A i \in DOMAIN requests' : requests'[i] = m
  BY <1>1, <1>3, PipeOfOne
<1> QED
  BY <1>2, <1>5, <1>6 DEF InOrder, Ordered

\* A write that fails may reach the host all the same, in order, and is the last.
LEMMA FailInOrder ==
  ASSUME Typed, OneHandle, OneAtATime, InOrder, WriteFails \/ ReadFails
  PROVE  InOrder'
<1>1. UNCHANGED delivered /\ closed' = TRUE
  BY DEF WriteFails, ReadFails, FailCommand, ClosePipe, ghosts
<1>2. CASE UNCHANGED requests
  BY <1>1, <1>2 DEF InOrder
<1>3. CASE WriteFails /\ ~ UNCHANGED requests
  <2>1. ~closed /\ requests = <<>> /\ cpc # "reading"
    BY <1>3 DEF WriteFails, OneHandle, OneAtATime
  <2>2. PICK m : /\ requests' = Append(requests, m)
                 /\ m.cmd.events = <<>> \/ (plan # <<>> /\ m.cmd.events = Head(plan))
    BY <1>3 DEF WriteFails, Handshake, Command
  <2>3. plan # <<>> => Head(plan) = plan[1] /\ 1 \in DOMAIN plan
    BY DEF Typed
  <2>4. Delivery!Increasing(m.cmd.events) /\ Before(delivered, m.cmd.events)
    BY <2>1, <2>2, <2>3 DEF InOrder, Ordered, Delivery!Increasing, Before
  <2>5. \A i \in DOMAIN requests' : requests'[i] = m
    BY <2>1, <2>2, PipeOfOne
  <2> QED
    BY <1>1, <2>4, <2>5 DEF InOrder
<1> QED
  BY <1>2, <1>3 DEF ReadFails

\* What is done with a command goes on to the next, or to the events of its batch.
LEMMA AfterInOrder ==
  ASSUME Typed, OneHandle, OneAtATime, InOrder, OpenFails \/ NothingToWrite \/ ReadResponse
  PROVE  InOrder'
<1>1. UNCHANGED <<delivered, requests, closed>>
  BY DEF OpenFails, NothingToWrite, ReadResponse, ghosts
<1>2. CASE closed
  BY <1>1, <1>2 DEF InOrder
<1>3. CASE ~closed
  <2>1. PICK ok \in BOOLEAN : After(ok) /\ \A i \in DOMAIN plan : i > 1 \/ ~ok => Before(delivered, plan[i])
    <3>1. CASE OpenFails
      BY <1>3, <3>1 DEF OpenFails, InOrder
    <3>2. CASE NothingToWrite \/ ReadResponse
      BY <1>3, <3>2 DEF NothingToWrite, ReadResponse, InOrder
    <3> QED
      BY <3>1, <3>2
  <2>2. Ordered(plan') /\ \A i \in DOMAIN plan' : Before(delivered, plan'[i])
    BY <1>3, <2>1, AfterOrder DEF InOrder
  <2> QED
    BY <1>1, <2>2 DEF InOrder, Ordered
<1> QED
  BY <1>2, <1>3

\* The host consumes what comes next, and everything planned comes after it.
LEMMA HandleInOrder ==
  ASSUME Typed, OneHandle, OneAtATime, InOrder, ServerHandles
  PROVE  InOrder'
<1> DEFINE events == Head(requests).cmd.events
<1>1. /\ delivered' = delivered \o events /\ requests # <<>> /\ requests' = Tail(requests)
      /\ UNCHANGED <<plan, cpc, closed>>
  BY DEF ServerHandles, client
<1>2. events \in Seq(1 .. submitted) /\ delivered \in Seq(1 .. submitted)
  BY <1>1, SequenceTypes DEF Typed, Message, Batch
<1>3. Head(requests) = requests[1] /\ 1 \in DOMAIN requests /\ requests' = <<>>
  BY <1>1, PipeOfOne
<1>4. Delivery!Increasing(events) /\ Before(delivered, events)
  BY <1>3 DEF InOrder
<1>5. ~closed => events = IF cpc = "reading" THEN Head(plan) ELSE <<>>
  BY <1>1 DEF OneAtATime
<1> HIDE DEF events
<1>6. Delivery!Increasing(delivered')
  BY <1>1, <1>2, <1>4, ConcatIncreasing DEF InOrder
<1>7. ASSUME ~closed, NEW i \in DOMAIN plan, i > 1 \/ cpc # "reading"
      PROVE  Before(delivered', plan[i])
  <2>1. Before(delivered, plan[i])
    BY <1>7 DEF InOrder
  <2>2. Before(events, plan[i])
    <3>1. CASE cpc # "reading"
      BY <1>5, <1>7, <3>1 DEF Before
    <3>2. CASE cpc = "reading"
      <4>1. plan \in Seq(Batch) /\ plan # <<>> /\ i > 1
        BY <1>7, <3>2 DEF Typed, OneHandle
      <4>2. events = plan[1] /\ 1 \in DOMAIN plan
        BY <1>5, <1>7, <3>2, <4>1
      <4> QED
        BY <1>7, <4>1, <4>2 DEF InOrder, Ordered
    <3> QED
      BY <3>1, <3>2
  <2> QED
    BY <1>1, <1>2, <2>1, <2>2, ConcatBefore
<1>8. \A i \in DOMAIN requests' : FALSE
  BY <1>3
<1> QED
  BY <1>1, <1>6, <1>7, <1>8 DEF InOrder, Ordered

\* Every step keeps the order.
LEMMA InOrderKept ==
  ASSUME Typed, OneHandle, OneAtATime, InOrder, Next
  PROVE  InOrder'
<1>1. CASE BeginControl
  <2>1. \A i \in DOMAIN plan' : i = 1 /\ plan'[i] = <<>>
    BY <1>1 DEF BeginControl
  <2>2. UNCHANGED <<delivered, requests, closed>>
    BY <1>1 DEF BeginControl
  <2> QED
    BY <2>1, <2>2 DEF InOrder, Ordered, Before, Delivery!Increasing
<1>2. CASE ShutdownClose \/ RunnerStops \/ Rest
  BY <1>2, QuietInOrder DEF ShutdownClose, ClosePipe, RunnerStops, Rest, vars, client, host, ghosts
<1>3. CASE OpenReuse \/ OpenConnect \/ ReadHandshake
  BY <1>3, QuietInOrder DEF OpenReuse, OpenConnect, ReadHandshake, host, ghosts
<1>4. CASE ServerCreates \/ ServerAccepts \/ ServerTop \/ ServerReplies \/ ServerLosesClient
  BY <1>4, QuietInOrder DEF ServerCreates, ServerAccepts, ServerTop, ServerReplies, ServerLosesClient,
                            Disconnect, client, ghosts
<1> QED
  BY <1>1, <1>2, <1>3, <1>4, PublishInOrder, WriteInOrder, FailInOrder, AfterInOrder, HandleInOrder
     DEF Next, ClientStep, ServerStep

-----------------------------------------------------------------------------
(* Answers.                                                                *)

\* The events of a sequence stay when others are put after them.
LEMMA ToSetGrows ==
  ASSUME NEW S, NEW s \in Seq(S), NEW t \in Seq(S)
  PROVE  ToSet(s) \subseteq ToSet(s \o t) /\ ToSet(t) \subseteq ToSet(s \o t)
<1>1. ASSUME NEW i \in DOMAIN s PROVE s[i] \in ToSet(s \o t)
  <2>1. i \in DOMAIN (s \o t) /\ (s \o t)[i] = s[i]
    BY ConcatElements
  <2> QED
    BY <2>1 DEF ToSet
<1>2. ASSUME NEW i \in DOMAIN t PROVE t[i] \in ToSet(s \o t)
  <2>1. i + Len(s) \in DOMAIN (s \o t) /\ (s \o t)[i + Len(s)] = t[i]
    BY ConcatElements
  <2> QED
    BY <2>1 DEF ToSet
<1>3. \A x \in ToSet(s) : \E i \in DOMAIN s : x = s[i]
  BY DEF ToSet
<1>4. \A x \in ToSet(t) : \E i \in DOMAIN t : x = t[i]
  BY DEF ToSet
<1> QED
  BY <1>1, <1>2, <1>3, <1>4

\* The host answers a request after it has consumed its events.
LEMMA HandleAnswered ==
  ASSUME Typed, Answered, ServerHandles
  PROVE  Answered'
<1> DEFINE events == Head(requests).cmd.events
<1>1. /\ delivered' = delivered \o events /\ requests # <<>> /\ answer' = Head(requests)
      /\ UNCHANGED <<responses, confirmed>>
  BY DEF ServerHandles, client
<1>2. events \in Seq(1 .. submitted) /\ delivered \in Seq(1 .. submitted)
  BY <1>1, SequenceTypes DEF Typed, Message, Batch
<1>3. answer'.cmd.events = events
  BY <1>1
<1> HIDE DEF events
<1>4. ToSet(delivered) \subseteq ToSet(delivered') /\ ToSet(events) \subseteq ToSet(delivered')
  BY <1>1, <1>2, ToSetGrows
<1> QED
  BY <1>1, <1>3, <1>4 DEF Answered

\* What the client takes for an answer, the host gave after it consumed the events.
LEMMA ConfirmAnswered ==
  ASSUME Typed, OneHandle, OneAtATime, Answered, ReadResponse
  PROVE  /\ Answered' /\ confirmed \subseteq confirmed' /\ confirmed' \subseteq ToSet(delivered)
         /\ UNCHANGED <<submitted, delivered>>
<1>1. /\ responses # <<>> /\ responses' = Tail(responses) /\ plan # <<>>
      /\ confirmed' = confirmed \cup ToSet(Head(plan))
      /\ UNCHANGED <<submitted, delivered, answer>>
  BY DEF ReadResponse, OneHandle, host
<1>2. Head(responses).cmd = Command(Head(plan))
  BY DEF ReadResponse, Matches
<1>3. Head(responses).cmd.events = Head(plan)
  BY <1>2 DEF Command
<1>4. Head(responses) = responses[1] /\ 1 \in DOMAIN responses
  BY <1>1 DEF Typed
<1>5. ToSet(Head(plan)) \subseteq ToSet(delivered)
  BY <1>3, <1>4 DEF Answered
<1>6. responses' = <<>>
  BY <1>1, PipeOfOne
<1> QED
  BY <1>1, <1>5, <1>6 DEF Answered

\* Every step keeps answers honest.
LEMMA AnsweredKept ==
  ASSUME Typed, OneHandle, OneAtATime, Answered, Next
  PROVE  Answered'
<1>1. CASE BeginPublish \/ BeginControl \/ OpenReuse \/ OpenConnect \/ OpenFails \/ WriteHandshake
           \/ WriteCommand \/ NothingToWrite \/ RunnerStops \/ ServerCreates \/ ServerAccepts \/ Rest
  <2>1. UNCHANGED <<responses, answer, delivered, confirmed>>
    BY <1>1 DEF BeginPublish, BeginControl, OpenReuse, OpenConnect, OpenFails, WriteHandshake, WriteCommand,
                Write, NothingToWrite, RunnerStops, ServerCreates, ServerAccepts, Rest, vars, client, host, ghosts
  <2> QED
    BY <2>1 DEF Answered
<1>2. CASE ShutdownClose \/ WriteFails \/ ReadFails
  <2>1. responses' = <<>> /\ UNCHANGED <<answer, delivered, confirmed>>
    BY <1>2 DEF ShutdownClose, WriteFails, ReadFails, FailCommand, ClosePipe, host, ghosts
  <2> QED
    BY <2>1 DEF Answered
<1>3. CASE ReadHandshake
  <2>1. responses' = <<>> /\ UNCHANGED <<answer, delivered, confirmed>>
    BY <1>3, PipeOfOne DEF ReadHandshake, host, ghosts
  <2> QED
    BY <2>1 DEF Answered
<1>4. CASE ServerTop \/ ServerLosesClient
  <2>1. /\ responses' = responses \/ responses' = <<>>
        /\ answer' = answer \/ answer' = NoAnswer
        /\ UNCHANGED <<delivered, confirmed>>
    BY <1>4 DEF ServerTop, ServerLosesClient, Disconnect, ghosts
  <2>2. ToSet(NoAnswer.cmd.events) = {}
    BY DEF NoAnswer, Command, ToSet
  <2> QED
    BY <2>1, <2>2 DEF Answered
<1>5. CASE ServerReplies
  <2>1. /\ responses = <<>> /\ responses' = Append(responses, answer) /\ answer' = NoAnswer
        /\ UNCHANGED <<delivered, confirmed>>
    BY <1>5 DEF ServerReplies, OneAtATime, ghosts
  <2>2. ToSet(NoAnswer.cmd.events) = {}
    BY DEF NoAnswer, Command, ToSet
  <2>3. \A i \in DOMAIN responses' : responses'[i] = answer
    BY <2>1, BufferOfOne DEF Typed, OneAtATime
  <2> QED
    BY <2>1, <2>2, <2>3 DEF Answered
<1> QED
  BY <1>1, <1>2, <1>3, <1>4, <1>5, HandleAnswered, ConfirmAnswered DEF Next, ClientStep, ServerStep

-----------------------------------------------------------------------------
(* The theorems.                                                           *)

\* The pipe starts closed and empty.
LEMMA InitPipe == Init => PipeInv
<1> SUFFICES ASSUME Init PROVE PipeInv
  OBVIOUS
<1>1. answer \in Message /\ answer.cmd.events = <<>> /\ submitted = 0
  BY MessageTypes, SmallBatches DEF Init
<1>2. Typed
  <2>1. /\ plan \in Seq(Batch) /\ requests \in Seq(Message) /\ responses \in Seq(Message)
        /\ delivered \in Seq(1 .. submitted)
    BY SequenceTypes, EmptySeq DEF Init
  <2>2. confirmed \subseteq 1 .. submitted
    BY DEF Init
  <2>3. sequence \in Nat /\ submitted \in Nat /\ controls \in Nat
    BY DEF Init
  <2>4. open \in BOOLEAN /\ shaken \in BOOLEAN /\ stop \in BOOLEAN /\ closed \in BOOLEAN
    BY DEF Init
  <2>5. cpc = "idle" /\ srv = "creating"
    BY DEF Init
  <2> QED
    BY <1>1, <2>1, <2>2, <2>3, <2>4, <2>5 DEF Typed
<1>3. OneHandle /\ OneAtATime
  BY EmptySeq DEF Init, OneHandle, OneAtATime
<1>4. InOrder
  BY DEF Init, InOrder, Ordered, Delivery!Increasing
<1>5. Answered
  BY <1>1 DEF Init, Answered, ToSet
<1> QED
  BY <1>2, <1>3, <1>4, <1>5 DEF PipeInv

\* Every step keeps the invariant.
LEMMA NextPipe == PipeInv /\ [Next]_vars => PipeInv'
<1> SUFFICES ASSUME PipeInv, [Next]_vars PROVE PipeInv'
  OBVIOUS
<1> USE DEF PipeInv
<1>1. CASE Next
  <2>1. Typed'
    <3>1. CASE Rest
      BY <3>1, SameMessages DEF Rest, vars, client, host, ghosts, Typed
    <3> QED
      BY <1>1, <3>1, PublishType, ClientType, HostType DEF Next
  <2> QED
    BY <1>1, <2>1, OneHandleKept, OneAtATimeKept, InOrderKept, AnsweredKept
<1>2. CASE UNCHANGED vars
  <2>1. Rest \/ UNCHANGED <<client, host, requests, responses, ghosts, closed>>
    BY <1>2 DEF vars
  <2>2. Typed' /\ OneHandle' /\ OneAtATime' /\ InOrder' /\ Answered'
    BY <1>2, SameMessages DEF vars, client, host, ghosts, Typed, OneHandle, OneAtATime, InOrder, Ordered, Answered
  <2> QED
    BY <2>2
<1> QED
  BY <1>1, <1>2

\* The types are part of what the invariant says.
LEMMA PipeTyped == PipeInv => TypeOK
<1> SUFFICES ASSUME PipeInv PROVE TypeOK
  OBVIOUS
<1>1. Typed
  BY DEF PipeInv
<1>2. ToSet(requests) \subseteq Message /\ ToSet(responses) \subseteq Message
  BY <1>1, ToSetType DEF Typed
<1>3. \A r \in Message : r.seq \in Nat /\ r.cmd.kind \in {"handshake", "command"} /\ r.cmd.events \in Batch
  BY DEF Message
<1> QED
  BY <1>1, <1>2, <1>3 DEF Typed, TypeOK

\* Client and host stay type-correct: no command carries more than a batch, and nothing
\* is delivered or confirmed that was not handed over (pipe.cpp, pipe_server.cpp).
THEOREM PipeTypes == Spec => []TypeOK
BY InitPipe, NextPipe, PipeTyped, PTL DEF Spec

\* Every step of the pipe is one of EventDelivery, or none: handing over, consuming,
\* confirming (pipe.cpp and pipe_server.cpp together).
LEMMA StepDelivers == PipeInv /\ [Next]_vars => [Delivery!Next]_(Delivery!vars)
<1> SUFFICES ASSUME PipeInv, [Next]_vars PROVE [Delivery!Next]_(Delivery!vars)
  OBVIOUS
<1>0. Typed /\ OneHandle /\ OneAtATime /\ InOrder /\ Answered
  BY DEF PipeInv
<1>1. CASE BeginPublish
  <2>1. PICK n \in 1 .. BatchMax : submitted' = submitted + n
    BY <1>1 DEF BeginPublish
  <2>2. submitted' \in Nat /\ submitted' > submitted
    BY <1>0, <2>1 DEF Typed
  <2> QED
    BY <1>1, <2>2 DEF BeginPublish, Delivery!Next, Delivery!Submit
<1>2. CASE ReadResponse
  <2>1. /\ confirmed \subseteq confirmed' /\ confirmed' \subseteq ToSet(delivered)
        /\ UNCHANGED <<submitted, delivered>>
    BY <1>0, <1>2, ConfirmAnswered
  <2> QED
    BY <2>1 DEF Delivery!Next, Delivery!Confirm, ToSet
<1>3. CASE ServerHandles
  <2> DEFINE events == Head(requests).cmd.events
  <2>1. /\ delivered' = delivered \o events /\ requests # <<>>
        /\ UNCHANGED <<submitted, confirmed>>
    BY <1>3 DEF ServerHandles
  <2>2. /\ events \in Seq(1 .. submitted) /\ delivered \in Seq(1 .. submitted)
        /\ delivered' \in Seq(1 .. submitted)
    <3>1. events \in Seq(1 .. submitted) /\ delivered \in Seq(1 .. submitted)
      BY <1>0, <2>1, SequenceTypes DEF Typed, Message, Batch
    <3> HIDE DEF events
    <3> QED
      BY <2>1, <3>1, ConcatProperties
  <2> HIDE DEF events
  <2>3. CASE events = <<>>
    <3>1. delivered' = delivered
      BY <2>1, <2>2, <2>3, ConcatEmptySeq
    <3> QED
      BY <2>1, <3>1 DEF Delivery!vars
  <2>4. CASE events # <<>>
    <3>1. Delivery!Increasing(delivered')
      BY <1>0, <1>3, HandleInOrder DEF InOrder
    <3>2. \A i \in DOMAIN delivered' : delivered'[i] \in 1 .. submitted
      BY <2>2, ElementsTyped
    <3>3. \E n \in 1 .. Len(delivered') : delivered = SubSeq(delivered', 1, n - 1)
      <4>1. Len(delivered) \in Nat /\ Len(events) \in Nat /\ Len(events) # 0
        BY <2>2, <2>4, EmptySeq
      <4>2. Len(delivered') = Len(delivered) + Len(events)
        BY <2>1, <2>2, ConcatProperties
      <4>3. Len(delivered) + 1 \in 1 .. Len(delivered') /\ (Len(delivered) + 1) - 1 = Len(delivered)
        BY <4>1, <4>2
      <4>4. SubSeq(delivered', 1, Len(delivered)) = delivered
        BY <2>1, <2>2, SubSeqOfConcat1, SubSeqFull
      <4> QED
        BY <4>3, <4>4
    <3> QED
      BY <2>1, <3>1, <3>2, <3>3 DEF Delivery!Next, Delivery!Deliver
  <2> QED
    BY <2>3, <2>4
<1>4. CASE BeginControl \/ OpenReuse \/ OpenConnect \/ OpenFails \/ WriteHandshake \/ WriteCommand
             \/ NothingToWrite \/ RunnerStops \/ ServerCreates \/ ServerAccepts \/ Rest
  BY <1>4 DEF BeginControl, OpenReuse, OpenConnect, OpenFails, WriteHandshake, WriteCommand, Write,
              NothingToWrite, RunnerStops, ServerCreates, ServerAccepts, Rest, vars, ghosts, Delivery!vars
<1>5. CASE ShutdownClose \/ WriteFails \/ ReadFails \/ ReadHandshake \/ ServerTop \/ ServerReplies
             \/ ServerLosesClient
  BY <1>5 DEF ShutdownClose, WriteFails, ReadFails, ReadHandshake, ServerTop, ServerReplies,
              ServerLosesClient, ghosts, Delivery!vars
<1>6. CASE UNCHANGED vars
  BY <1>6 DEF vars, ghosts, Delivery!vars
<1> QED
  BY <1>1, <1>2, <1>3, <1>4, <1>5, <1>6 DEF Next, ClientStep, ServerStep

\* The pipe keeps the promise of EventDelivery: each event is consumed at most once,
\* in order, and success is reported only for what the host consumed, whatever fails
\* or comes late and however a batch is retried (pipe.cpp, pipe_server.cpp).
THEOREM DeliversInOrder == Spec => ImplementsDelivery
<1>1. Init => Delivery!Init
  BY DEF Init, Delivery!Init
<1> QED
  BY <1>1, InitPipe, NextPipe, StepDelivers, PTL DEF Spec, ImplementsDelivery, Delivery!Spec

\* After the first handle is closed none is opened again and nothing is confirmed any
\* more: the bundled hosts serve one connection (PipeServerThread, pipe_server.cpp).
THEOREM OneConnection == Spec => LostForGood
<1>1. PipeInv /\ [Next]_vars => [closed => ~open' /\ confirmed' = confirmed]_vars
  <2> SUFFICES ASSUME PipeInv, Next, closed PROVE ~open' /\ confirmed' = confirmed
    BY DEF vars
  <2>1. OneHandle /\ ~open /\ srv \notin {"creating", "listening"}
        /\ cpc \notin {"shake", "shaking", "write", "reading"}
    BY DEF PipeInv, OneHandle
  <2>2. CASE BeginPublish \/ BeginControl \/ ShutdownClose \/ RunnerStops \/ Rest
    <3>1. (open' = open \/ open' = FALSE) /\ confirmed' = confirmed
      BY <2>2 DEF BeginPublish, BeginControl, ShutdownClose, ClosePipe, RunnerStops, Rest, vars, client, ghosts
    <3> QED
      BY <2>1, <3>1
  <2>3. CASE ClientStep
    <3>1. OpenFails \/ OpenReuse
      BY <2>1, <2>3 DEF ClientStep, OpenConnect, WriteHandshake, WriteCommand, Write, NothingToWrite,
                        WriteFails, ReadHandshake, ReadResponse, ReadFails
    <3>2. open' = open /\ confirmed' = confirmed
      BY <3>1 DEF OpenFails, OpenReuse, ghosts
    <3> QED
      BY <2>1, <3>2
  <2>4. CASE ServerStep
    <3>1. open' = open /\ confirmed' = confirmed
      BY <2>4 DEF ServerStep, ServerCreates, ServerAccepts, ServerTop, ServerHandles, ServerReplies,
                  ServerLosesClient, client, ghosts
    <3> QED
      BY <2>1, <3>1
  <2> QED
    BY <2>2, <2>3, <2>4 DEF Next
<1> QED
  BY <1>1, InitPipe, NextPipe, PTL DEF Spec, LostForGood

-----------------------------------------------------------------------------
(* The watchdogs: one that does not publish has found what it found last,  *)
(* and what it found last was told or counted as shed.                      *)

\* Exports have names of their own: none is called like another subject.
ExportsAreExports == "mask" \notin Export /\ "map" \notin Export

\* The records the watchdogs keep: one entry for every subject, one for every export.
DogRecords ==
  /\ told = [s \in Dogs!Subject |-> told[s]]
  /\ tampered \in [Export -> BOOLEAN]

MaskTold      == (mask # Dogs!Unset /\ "mask" \notin lost) => told["mask"] = mask
ExportTold(e) == (tampered[e] /\ e \notin lost) => told[e] = "patched"
MapTold       == (signature # Dogs!NoMap /\ "map" \notin lost) => told["map"] = signature

ToldInv == DogRecords /\ MaskTold /\ MapTold /\ \A e \in Export : ExportTold(e)

-----------------------------------------------------------------------------
\* Before the first check nothing was found, so nothing has to have been told.
LEMMA InitTold == Dogs!Init => ToldInv
BY DEF Dogs!Init, ToldInv, DogRecords, MaskTold, ExportTold, MapTold, Dogs!Subject

\* Steps that touch neither what was found nor what was told keep the invariant.
LEMMA SameRecords ==
  ASSUME ToldInv, UNCHANGED <<mask, tampered, signature, told, lost>>
  PROVE  ToldInv'
BY DEF ToldInv, DogRecords, MaskTold, ExportTold, MapTold

\* A check of the hooks (PollHookIntegrityWatchdog): without an event the mask is
\* the one found last, also when the hooks are in place again.
LEMMA HooksTold ==
  ASSUME ExportsAreExports, ToldInv, NEW taken \in BOOLEAN, Dogs!PollHooks(taken)
  PROVE  ToldInv'
<1> DEFINE m == broken \cap ready
<1>1. /\ mask' = m
      /\ taken => Dogs!MaskPublished(m)
      /\ told' = IF taken THEN [told EXCEPT !["mask"] = m] ELSE told
      /\ lost' = (lost \ {s \in {"mask"} : taken})
                   \cup {s \in {"mask"} : Dogs!MaskPublished(m) /\ ~taken}
      /\ tampered' = tampered /\ signature' = signature
  BY DEF Dogs!PollHooks
<1>2. told'["mask"] = IF taken THEN m ELSE told["mask"]
  BY <1>1 DEF ToldInv, DogRecords, Dogs!Subject
<1>3. \A s \in Dogs!Subject \ {"mask"} : told'[s] = told[s] /\ (s \in lost' <=> s \in lost)
  BY <1>1 DEF ToldInv, DogRecords
<1>4. DogRecords'
  BY <1>1 DEF ToldInv, DogRecords
<1>5. MaskTold'
  <2>1. CASE taken
    BY <2>1, <1>1, <1>2 DEF MaskTold
  <2>2. CASE ~taken
    <3>1. SUFFICES ASSUME "mask" \notin lost', mask' # Dogs!Unset
                   PROVE  told'["mask"] = mask'
      BY DEF MaskTold
    <3>2. ~Dogs!MaskPublished(m) /\ "mask" \notin lost
      BY <2>2, <3>1, <1>1
    <3>3. m = mask
      BY <3>2 DEF Dogs!MaskPublished
    <3> QED  BY <2>2, <3>1, <3>2, <3>3, <1>1, <1>2 DEF ToldInv, MaskTold
  <2> QED  BY <2>1, <2>2
<1>6. MapTold'
  BY <1>1, <1>3 DEF ToldInv, MapTold, Dogs!Subject
<1>7. \A e \in Export : ExportTold(e)'
  BY <1>1, <1>3 DEF ToldInv, ExportTold, Dogs!Subject, ExportsAreExports
<1> QED  BY <1>4, <1>5, <1>6, <1>7 DEF ToldInv

\* A look at the exports (PollAmsiEtwPatchWatchdog): a patch without an event was
\* found by the look before.
LEMMA ExportsTold ==
  ASSUME ExportsAreExports, ToldInv,
         NEW readable \in SUBSET Export, NEW taken \in SUBSET Export,
         Dogs!PollExports(readable, taken)
  PROVE  ToldInv'
<1> DEFINE bad  == {e \in Export : Dogs!Present(e) /\ Dogs!Probe(e, readable)}
           sent == {e \in Export : Dogs!Present(e) /\ Dogs!ExportPublished(e, e \in bad)}
<1>1. /\ taken \subseteq sent
      /\ told' = [s \in Dogs!Subject |-> IF s \notin taken THEN told[s]
                                       ELSE IF s \in bad THEN "patched" ELSE "clean"]
      /\ lost' = (lost \ taken) \cup (sent \ taken)
      /\ tampered' = [e \in Export |-> e \in bad]
      /\ mask' = mask /\ signature' = signature
  BY DEF Dogs!PollExports
<1>2. DogRecords'
  BY <1>1 DEF DogRecords
<1>3. \A s \in {"mask", "map"} : told'[s] = told[s] /\ (s \in lost' <=> s \in lost)
  <2> SUFFICES ASSUME NEW s \in {"mask", "map"}
               PROVE  told'[s] = told[s] /\ (s \in lost' <=> s \in lost)
    OBVIOUS
  <2>1. s \in Dogs!Subject /\ s \notin taken /\ s \notin sent
    BY DEF Dogs!Subject, ExportsAreExports
  <2> QED  BY <2>1, <1>1
<1>4. MaskTold' /\ MapTold'
  BY <1>1, <1>3 DEF ToldInv, MaskTold, MapTold
<1>5. ASSUME NEW e \in Export  PROVE ExportTold(e)'
  <2>1. SUFFICES ASSUME tampered'[e], e \notin lost'
                 PROVE  told'[e] = "patched"
    BY DEF ExportTold
  <2>2. e \in Dogs!Subject /\ e \in bad
    BY <2>1, <1>1 DEF Dogs!Subject
  <2>3. CASE e \in taken
    BY <2>2, <2>3, <1>1
  <2>4. CASE e \notin taken
    <3>1. e \notin sent /\ e \notin lost
      BY <2>1, <2>4, <1>1
    <3>2. ~Dogs!ExportPublished(e, e \in bad)
      BY <3>1, <2>2
    <3>3. tampered[e]
      BY <3>2, <2>2 DEF Dogs!ExportPublished, ToldInv, DogRecords
    <3> QED  BY <3>1, <3>3, <2>2, <2>4, <1>1 DEF ToldInv, ExportTold
  <2> QED  BY <2>3, <2>4
<1> QED  BY <1>2, <1>4, <1>5 DEF ToldInv

\* A published map (PublishIxSelfMapSnapshotBestEffort): told in full, or counted
\* as shed.
LEMMA MapIsTold ==
  ASSUME ExportsAreExports, ToldInv, NEW taken \in SUBSET Content, Dogs!ScanPublishes(taken)
  PROVE  ToldInv'
<1>1. /\ signature' = Dogs!Snapshot
      /\ told' = [told EXCEPT !["map"] = taken]
      /\ lost' = (lost \ {"map"}) \cup {s \in {"map"} : taken # Dogs!Snapshot}
      /\ mask' = mask /\ tampered' = tampered
  BY DEF Dogs!ScanPublishes
<1>2. told'["map"] = taken
  BY <1>1 DEF ToldInv, DogRecords, Dogs!Subject
<1>3. \A s \in Dogs!Subject \ {"map"} : told'[s] = told[s] /\ (s \in lost' <=> s \in lost)
  BY <1>1 DEF ToldInv, DogRecords
<1>4. DogRecords'
  BY <1>1 DEF ToldInv, DogRecords
<1>5. MapTold'
  BY <1>1, <1>2 DEF MapTold
<1>6. MaskTold'
  BY <1>1, <1>3 DEF ToldInv, MaskTold, Dogs!Subject
<1>7. \A e \in Export : ExportTold(e)'
  BY <1>1, <1>3 DEF ToldInv, ExportTold, Dogs!Subject, ExportsAreExports
<1> QED  BY <1>4, <1>5, <1>6, <1>7 DEF ToldInv

-----------------------------------------------------------------------------
\* Every step of the program and of the event loop keeps the invariant.
LEMMA StepTold == ExportsAreExports /\ ToldInv /\ [Dogs!Next]_Dogs!vars => ToldInv'
<1> SUFFICES ASSUME ExportsAreExports, ToldInv, [Dogs!Next]_Dogs!vars  PROVE ToldInv'
  OBVIOUS
<1>1. CASE Dogs!Initialize
  BY <1>1, SameRecords DEF Dogs!Initialize, Dogs!memory
<1>2. CASE Dogs!PatchHook
  BY <1>2, SameRecords DEF Dogs!PatchHook, Dogs!memory
<1>3. CASE Dogs!PatchExport
  BY <1>3, SameRecords DEF Dogs!PatchExport, Dogs!memory
<1>4. CASE Dogs!ChangeMemory
  BY <1>4, SameRecords DEF Dogs!ChangeMemory, Dogs!memory
<1>5. CASE Dogs!Wake \/ Dogs!PollTooEarly \/ Dogs!PollUninitialized \/ Dogs!ScanNothing
  BY <1>5, SameRecords DEF Dogs!Wake, Dogs!PollTooEarly, Dogs!PollUninitialized, Dogs!ScanNothing, Dogs!memory
<1>6. CASE \E taken \in BOOLEAN : Dogs!PollHooks(taken)
  BY <1>6, HooksTold
<1>7. CASE \E readable \in SUBSET Export, taken \in SUBSET Export : Dogs!PollExports(readable, taken)
  BY <1>7, ExportsTold
<1>8. CASE \E taken \in SUBSET Content : Dogs!ScanPublishes(taken)
  BY <1>8, MapIsTold
<1>9. CASE UNCHANGED Dogs!vars
  BY <1>9, SameRecords DEF Dogs!vars, Dogs!memory
<1> QED  BY <1>1, <1>2, <1>3, <1>4, <1>5, <1>6, <1>7, <1>8, <1>9 DEF Dogs!Next, Dogs!LoopStep

-----------------------------------------------------------------------------
(* Types.                                                                  *)

\* No clock runs past the republication, and a mask names components.
LEMMA InitDogs == Republish \in Nat /\ Dogs!Init => Dogs!TypeOK
BY DEF Dogs!Init, Dogs!TypeOK, Dogs!Unset

\* The program changes what there is to find.
LEMMA ProgramTyped ==
  ASSUME Dogs!TypeOK, Dogs!Initialize \/ Dogs!PatchHook \/ Dogs!PatchExport \/ Dogs!ChangeMemory
  PROVE  Dogs!TypeOK'
BY DEF Dogs!TypeOK, Dogs!Initialize, Dogs!PatchHook, Dogs!PatchExport, Dogs!ChangeMemory, Dogs!memory, Dogs!Unset

\* A check that starts some clocks anew keeps them in their range.
LEMMA ClocksTyped ==
  ASSUME Republish \in Nat, Dogs!TypeOK, NEW clocks, Dogs!Now(clocks)
  PROVE  age' \in [Dogs!Clock -> 0..Republish]
BY DEF Dogs!TypeOK, Dogs!Now

\* The event loop remembers components, exports and subjects only.
LEMMA LoopTyped ==
  ASSUME Republish \in Nat, Dogs!TypeOK, Dogs!LoopStep
  PROVE  Dogs!TypeOK'
<1>1. CASE Dogs!Wake
  <2>1. \A k \in 0..Republish : k < Republish => k + 1 \in 0..Republish
    OBVIOUS
  <2>2. age' \in [Dogs!Clock -> 0..Republish]
    BY <1>1, <2>1 DEF Dogs!Wake, Dogs!TypeOK
  <2> QED
    BY <1>1, <2>2 DEF Dogs!Wake, Dogs!TypeOK, Dogs!program, Dogs!memory, Dogs!Unset
<1>2. CASE Dogs!PollTooEarly \/ Dogs!PollUninitialized \/ Dogs!ScanNothing
  <2>1. age' \in [Dogs!Clock -> 0..Republish]
    BY <1>2, ClocksTyped DEF Dogs!PollTooEarly, Dogs!PollUninitialized, Dogs!ScanNothing, Dogs!TypeOK
  <2> QED
    BY <1>2, <2>1 DEF Dogs!PollTooEarly, Dogs!PollUninitialized, Dogs!ScanNothing, Dogs!TypeOK, Dogs!program, Dogs!memory, Dogs!Unset
<1>3. ASSUME NEW taken \in BOOLEAN, Dogs!PollHooks(taken) PROVE Dogs!TypeOK'
  <2>1. age' \in [Dogs!Clock -> 0..Republish]
    BY <1>3, ClocksTyped DEF Dogs!PollHooks
  <2>2. mask' \subseteq Component /\ lost' \subseteq Dogs!Subject
    BY <1>3 DEF Dogs!PollHooks, Dogs!TypeOK, Dogs!Subject
  <2>3. turn' = "exports" /\ UNCHANGED <<ready, broken, own, first, tampered, expected>>
    BY <1>3 DEF Dogs!PollHooks, Dogs!program
  <2> QED
    BY <2>1, <2>2, <2>3 DEF Dogs!TypeOK
<1>4. ASSUME NEW readable \in SUBSET Export, NEW taken \in SUBSET Export, Dogs!PollExports(readable, taken)
      PROVE  Dogs!TypeOK'
  <2>1. age' \in [Dogs!Clock -> 0..Republish]
    BY <1>4, ClocksTyped DEF Dogs!PollExports
  <2>2. lost' \subseteq Dogs!Subject
    BY <1>4 DEF Dogs!PollExports, Dogs!TypeOK, Dogs!Subject
  <2>3. first' \in [Export -> BOOLEAN] /\ tampered' \in [Export -> BOOLEAN]
        /\ expected' \in [Export -> BOOLEAN]
    BY <1>4 DEF Dogs!PollExports, Dogs!Present
  <2>4. turn' = "map" /\ UNCHANGED <<ready, broken, own, mask>>
    BY <1>4 DEF Dogs!PollExports, Dogs!program
  <2> QED
    BY <2>1, <2>2, <2>3, <2>4 DEF Dogs!TypeOK, Dogs!Unset
<1>5. ASSUME NEW taken \in SUBSET Content, Dogs!ScanPublishes(taken) PROVE Dogs!TypeOK'
  <2>1. age' \in [Dogs!Clock -> 0..Republish]
    BY <1>5, ClocksTyped DEF Dogs!ScanPublishes
  <2> QED
    BY <1>5, <2>1 DEF Dogs!ScanPublishes, Dogs!TypeOK, Dogs!Subject, Dogs!program, Dogs!Unset
<1> QED
  BY <1>1, <1>2, <1>3, <1>4, <1>5 DEF Dogs!LoopStep

\* Every step keeps the types.
LEMMA StepDogs == Republish \in Nat /\ Dogs!TypeOK /\ [Dogs!Next]_Dogs!vars => Dogs!TypeOK'
<1> SUFFICES ASSUME Republish \in Nat, Dogs!TypeOK, [Dogs!Next]_Dogs!vars PROVE Dogs!TypeOK'
  OBVIOUS
<1>1. CASE UNCHANGED Dogs!vars
  BY <1>1 DEF Dogs!vars, Dogs!program, Dogs!memory, Dogs!TypeOK, Dogs!Unset
<1> QED
  BY <1>1, ProgramTyped, LoopTyped DEF Dogs!Next

-----------------------------------------------------------------------------
(* Over all runs.                                                          *)

\* What the host was last told of hooks, exports and memory is what the watchdogs
\* found last, unless that event was shed: no change is passed over in silence.
THEOREM NoChangeUntold ==
  ASSUME ExportsAreExports
  PROVE  Dogs!Spec => []Dogs!HostIsUpToDate
<1>1. Dogs!Init => ToldInv
  BY InitTold
<1>2. ToldInv /\ [Dogs!Next]_Dogs!vars => ToldInv'
  BY StepTold
<1>3. ToldInv => Dogs!HostIsUpToDate
  BY DEF ToldInv, MaskTold, ExportTold, MapTold, Dogs!HostIsUpToDate
<1> QED  BY <1>1, <1>2, <1>3, PTL DEF Dogs!Spec

-----------------------------------------------------------------------------
(* The start-up: its inductive invariant.                                  *)

Unhooked == {"absent", "connect", "transport", "policy", "hooks"}
Hooked == {"publish", "initialized", "loop", "loopPublish"}

\* The boot thread begins once, with nothing, and has the launch groups installed
\* from there on.
BootOnce ==
  /\ rpc = "inject" => boot = "absent"
  /\ mode = "guarded" /\ rpc \in {"inject", "readyWait", "resume"} => boot = "absent"
  /\ link = "none" => request = Start!NoRequest /\ boot \in {"absent", "connect", "failed", "ended"}
  /\ boot \in {"absent", "connect"} =>
       link # "open" /\ published = {} /\ observed = {} /\ request = Start!NoRequest
  /\ boot \in Unhooked => installed = {}
  /\ boot \in Hooked => LaunchGroup \subseteq installed

\* A request on the open connection is the one the boot thread waits for.
OwnRequest ==
  link = "open" /\ request # Start!NoRequest =>
    \/ boot = "transport" /\ request.mask = {Ipc}
    \/ boot = "policy" /\ request.mask = {}
    \/ boot \in {"publish", "loopPublish"} /\ request.mask = Start!Mask /\ published # Start!Mask

\* What was asked or answered was true, and what was answered was counted.
HonestMasks ==
  /\ observed \subseteq Start!Mask /\ request.mask \subseteq Start!Mask
  /\ answered => request.mask \subseteq observed
  /\ Start!AnnouncedIsObserved

\* Behind the gate the target waits for the loop.
GateWaits ==
  /\ mode = "guarded" /\ main = "user" => boot \in {"loop", "loopPublish"}
  /\ Start!GuardedVerdictHonest

StartInv == BootOnce /\ OwnRequest /\ HonestMasks /\ GateWaits

-----------------------------------------------------------------------------
(* Every step of a start-up keeps each part.                               *)

\* Groups are only ever added, so what the mask shows it goes on showing.
LEMMA MaskGrows ==
  ASSUME BootOnce, [Start!Next]_Start!vars
  PROVE  installed \subseteq installed' /\ Start!Mask \subseteq Start!Mask'
<1>1. installed \subseteq installed'
  <2>1. CASE Start!BootInstallsHooks
    BY <2>1 DEF Start!BootInstallsHooks, BootOnce, Unhooked
  <2>2. CASE Start!LoopEnsures
    BY <2>2 DEF Start!LoopEnsures
  <2>3. CASE installed' = installed
    BY <2>3
  <2>4. CASE Start!BootStep /\ ~Start!BootInstallsHooks /\ ~Start!LoopEnsures
    BY <2>4 DEF Start!BootStep, Start!BootConnects, Start!BootNotifiesTransport,
                Start!BootQueriesPolicy, Start!BootPublishes, Start!BootDone, Start!BootFailed,
                Start!LoopPublishes
  <2>5. CASE Start!ServerStep \/ Start!TargetExits \/ Start!RunnerStep
    BY <2>5 DEF Start!ServerStep, Start!ServerFails, Start!ServerListens, Start!ServerHandles,
                Start!ServerCountsTrap, Start!ServerEnds, Start!TargetExits, Start!RunnerStep,
                Start!RunnerInjects, Start!RunnerAwaitsReady, Start!RunnerResumes,
                Start!RunnerAwaitsChild, Start!RunnerStops, Start!RunnerJudges, Start!dll
  <2> QED
    BY <2>1, <2>2, <2>3, <2>4, <2>5 DEF Start!Next, Start!Over, Start!vars, Start!dll
<1> QED
  BY <1>1 DEF Start!Mask

\* The host's steps leave the boot thread and what it asks alone.
LEMMA ServerLeaves ==
  ASSUME Start!ServerStep
  PROVE  UNCHANGED <<mode, rpc, verdict, link, request, boot, installed, published, main, early>>
BY DEF Start!ServerStep, Start!ServerFails, Start!ServerListens, Start!ServerHandles,
       Start!ServerCountsTrap, Start!ServerEnds, Start!runner, Start!pipe, Start!dll, Start!target

\* There is one boot thread, and it installs the launch groups before it goes on.
LEMMA BootOnceKept ==
  ASSUME BootOnce, [Start!Next]_Start!vars
  PROVE  BootOnce'
<1>1. CASE UNCHANGED Start!vars \/ Start!Over
  BY <1>1 DEF BootOnce, Start!Over, Start!vars, Start!runner, Start!server, Start!pipe, Start!dll
<1>2. CASE Start!ServerStep
  <2>1. CASE Start!ServerHandles
    <3>1. boot \notin {"absent", "connect"}
      BY <2>1 DEF Start!ServerHandles, BootOnce
    <3> QED
      BY <1>2, <3>1, ServerLeaves DEF BootOnce
  <2>2. CASE ~Start!ServerHandles
    <3>1. observed' = observed
      BY <1>2, <2>2 DEF Start!ServerStep, Start!ServerFails, Start!ServerListens,
                        Start!ServerCountsTrap, Start!ServerEnds
    <3> QED
      BY <1>2, <3>1, ServerLeaves DEF BootOnce
  <2> QED
    BY <2>1, <2>2
<1>3. CASE Start!TargetExits
  BY <1>3 DEF BootOnce, Start!TargetExits, Start!runner, Start!server, Start!pipe, Start!dll
<1>4. CASE Start!BootConnects
  BY <1>4 DEF BootOnce, Start!BootConnects, Start!runner, Unhooked, Hooked
<1>5. CASE Start!BootNotifiesTransport \/ Start!BootQueriesPolicy
  BY <1>5 DEF BootOnce, Start!BootNotifiesTransport, Start!BootQueriesPolicy, Start!Send,
              Start!Answered, Start!Failed, Start!runner, Start!server, Unhooked, Hooked
<1>6. CASE Start!BootInstallsHooks
  BY <1>6 DEF BootOnce, Start!BootInstallsHooks, Start!runner, Start!server, Start!pipe, Unhooked,
              Hooked
<1>7. CASE Start!BootPublishes \/ Start!LoopPublishes
  BY <1>7 DEF BootOnce, Start!BootPublishes, Start!LoopPublishes, Start!PublishMask, Start!Send,
              Start!Answered, Start!Failed, Start!runner, Start!server, Start!pipe, Unhooked, Hooked
<1>8. CASE Start!BootDone \/ Start!BootFailed
  BY <1>8 DEF BootOnce, Start!BootDone, Start!BootFailed, Start!runner, Start!server, Start!pipe,
              Unhooked, Hooked
<1>9. CASE Start!LoopEnsures
  <2>1. boot = "loop" /\ boot' = "loopPublish" /\ UNCHANGED <<rpc, mode, link, request>>
    BY <1>9 DEF Start!LoopEnsures, Start!runner, Start!pipe
  <2>2. LaunchGroup \subseteq installed'
    BY <1>9, MaskGrows DEF BootOnce, Start!LoopEnsures, Hooked, Start!Next, Start!BootStep
  <2> QED
    BY <2>1, <2>2 DEF BootOnce, Unhooked, Hooked
<1>10. CASE Start!RunnerInjects
  BY <1>10 DEF BootOnce, Start!RunnerInjects, Start!RunnerGoes, Start!server, Start!pipe, Unhooked,
               Hooked
<1>11. CASE Start!RunnerAwaitsReady \/ Start!RunnerAwaitsChild \/ Start!RunnerStops \/ Start!RunnerJudges
  BY <1>11 DEF BootOnce, Start!RunnerAwaitsReady, Start!RunnerAwaitsChild, Start!RunnerStops,
               Start!RunnerJudges, Start!RunnerGoes, Start!server, Start!pipe, Start!dll
<1>12. CASE Start!RunnerResumes
  BY <1>12 DEF BootOnce, Start!RunnerResumes, Start!RunnerGoes, Start!server, Start!pipe, Unhooked,
               Hooked
<1> QED
  BY <1>1, <1>2, <1>3, <1>4, <1>5, <1>6, <1>7, <1>8, <1>9, <1>10, <1>11, <1>12
     DEF Start!Next, Start!BootStep, Start!RunnerStep

\* The boot thread waits for the answer to its own request, or closes the connection.
LEMMA OwnRequestKept ==
  ASSUME BootOnce, OwnRequest, [Start!Next]_Start!vars
  PROVE  OwnRequest'
<1>1. CASE UNCHANGED Start!vars \/ Start!Over
  BY <1>1 DEF OwnRequest, Start!Over, Start!vars, Start!pipe, Start!dll, Start!Mask
<1>2. CASE Start!ServerStep
  BY <1>2, ServerLeaves DEF OwnRequest, Start!Mask
<1>3. CASE Start!TargetExits
  BY <1>3 DEF OwnRequest, Start!TargetExits, Start!pipe, Start!dll, Start!Mask
<1>4. CASE Start!BootConnects
  BY <1>4 DEF BootOnce, OwnRequest, Start!BootConnects, Start!Mask
<1>5. CASE Start!BootNotifiesTransport \/ Start!BootQueriesPolicy
  BY <1>5 DEF OwnRequest, Start!BootNotifiesTransport, Start!BootQueriesPolicy, Start!Send,
              Start!Answered, Start!Failed, Start!Ready, Start!Query, Start!Mask
<1>6. CASE Start!BootInstallsHooks \/ Start!BootDone \/ Start!BootFailed \/ Start!LoopEnsures
  BY <1>6 DEF OwnRequest, Start!BootInstallsHooks, Start!BootDone, Start!BootFailed,
              Start!LoopEnsures, Start!pipe
<1>7. CASE Start!BootPublishes \/ Start!LoopPublishes
  <2>1. PICK at \in {"publish", "loopPublish"} : boot = at /\ \E next : Start!PublishMask(at, next)
    BY <1>7 DEF Start!BootPublishes, Start!LoopPublishes, Start!PublishMask, Start!Send,
                Start!Answered, Start!Failed
  <2>2. Start!Mask' = Start!Mask
    BY <1>7 DEF Start!BootPublishes, Start!LoopPublishes, Start!Mask
  <2>3. CASE published = Start!Mask /\ UNCHANGED Start!pipe
    BY <2>1, <2>3 DEF OwnRequest, Start!pipe
  <2>4. CASE /\ Start!Send(at, Start!Ready(Start!Mask)) /\ published # Start!Mask
             /\ UNCHANGED <<link, boot, published>>
    BY <2>1, <2>2, <2>4 DEF OwnRequest, Start!Send, Start!Ready
  <2>5. CASE Start!Answered(at) \/ Start!Failed(at)
    BY <2>5 DEF OwnRequest, Start!Answered, Start!Failed
  <2> QED
    BY <2>1, <2>3, <2>4, <2>5 DEF Start!PublishMask
<1>8. CASE Start!RunnerInjects
  BY <1>8 DEF BootOnce, OwnRequest, Start!RunnerInjects, Start!RunnerGoes, Start!pipe, Start!Mask
<1>9. CASE Start!RunnerAwaitsReady \/ Start!RunnerAwaitsChild \/ Start!RunnerStops \/ Start!RunnerJudges
  BY <1>9 DEF OwnRequest, Start!RunnerAwaitsReady, Start!RunnerAwaitsChild, Start!RunnerStops,
              Start!RunnerJudges, Start!pipe, Start!dll, Start!Mask
<1>10. CASE Start!RunnerResumes
  BY <1>10 DEF BootOnce, OwnRequest, Start!RunnerResumes, Start!RunnerGoes, Start!pipe, Start!Mask
<1> QED
  BY <1>1, <1>2, <1>3, <1>4, <1>5, <1>6, <1>7, <1>8, <1>9, <1>10
     DEF Start!Next, Start!BootStep, Start!RunnerStep

\* A mask is remembered with the answer to it, which comes after it was counted.
LEMMA HonestMasksKept ==
  ASSUME BootOnce, OwnRequest, HonestMasks, [Start!Next]_Start!vars
  PROVE  HonestMasks'
<1>1. Start!Mask \subseteq Start!Mask'
  BY MaskGrows
<1>2. CASE UNCHANGED <<observed, request, answered, published>>
  BY <1>1, <1>2 DEF HonestMasks, Start!AnnouncedIsObserved
<1>3. CASE Start!ServerHandles
  BY <1>1, <1>3 DEF HonestMasks, Start!AnnouncedIsObserved, Start!ServerHandles, Start!dll
<1>4. CASE Start!BootNotifiesTransport
  BY <1>1, <1>4 DEF HonestMasks, Start!AnnouncedIsObserved, OwnRequest, Start!BootNotifiesTransport,
                    Start!Send, Start!Answered, Start!Failed, Start!Ready, Start!NoRequest,
                    Start!Mask, Start!server
<1>5. CASE Start!BootQueriesPolicy
  BY <1>1, <1>5 DEF HonestMasks, Start!AnnouncedIsObserved, Start!BootQueriesPolicy, Start!Send,
                    Start!Answered, Start!Failed, Start!Query, Start!NoRequest, Start!server
<1>6. CASE Start!BootPublishes \/ Start!LoopPublishes
  <2>1. UNCHANGED <<observed, installed>> /\ Start!Mask' = Start!Mask
    BY <1>6 DEF Start!BootPublishes, Start!LoopPublishes, Start!server, Start!Mask
  <2>2. PICK at \in {"publish", "loopPublish"} : \E next : Start!PublishMask(at, next)
    BY <1>6 DEF Start!BootPublishes, Start!LoopPublishes
  <2>3. CASE UNCHANGED <<request, answered, published>>
    BY <2>1, <2>3 DEF HonestMasks, Start!AnnouncedIsObserved
  <2>4. CASE Start!Send(at, Start!Ready(Start!Mask)) /\ UNCHANGED published
    BY <2>1, <2>4 DEF HonestMasks, Start!AnnouncedIsObserved, Start!Send, Start!Ready
  <2>5. CASE Start!Answered(at) /\ published' = Start!Mask
    <3>1. request.mask = Start!Mask /\ answered
      BY <2>5 DEF OwnRequest, Start!Answered
    <3>2. request'.mask = {} /\ ~answered'
      BY <2>5 DEF Start!Answered, Start!NoRequest
    <3> QED
      BY <2>1, <2>5, <3>1, <3>2 DEF HonestMasks, Start!AnnouncedIsObserved
  <2> QED
    BY <2>2, <2>3, <2>4, <2>5 DEF Start!PublishMask, Start!Failed, Start!pipe
<1>7. CASE /\ Start!Next /\ ~Start!ServerHandles /\ ~Start!BootNotifiesTransport
           /\ ~Start!BootQueriesPolicy /\ ~Start!BootPublishes /\ ~Start!LoopPublishes
  BY <1>2, <1>7 DEF Start!Next, Start!Over, Start!vars, Start!ServerStep, Start!ServerFails,
                    Start!ServerListens, Start!ServerCountsTrap, Start!ServerEnds, Start!BootStep,
                    Start!BootConnects, Start!BootInstallsHooks, Start!BootDone, Start!BootFailed,
                    Start!LoopEnsures, Start!TargetExits, Start!RunnerStep, Start!RunnerInjects,
                    Start!RunnerAwaitsReady, Start!RunnerResumes, Start!RunnerAwaitsChild,
                    Start!RunnerStops, Start!RunnerJudges, Start!server, Start!pipe, Start!dll
<1> QED
  BY <1>2, <1>3, <1>4, <1>5, <1>6, <1>7 DEF Start!vars, Start!server, Start!pipe, Start!dll

\* The gate opens after the initialisation, and a verdict only looks at what is so.
LEMMA GateWaitsKept ==
  ASSUME BootOnce, HonestMasks, GateWaits, [Start!Next]_Start!vars
  PROVE  GateWaits'
<1>1. Start!Mask \subseteq Start!Mask'
  BY MaskGrows
<1> USE DEF GateWaits, Start!GuardedVerdictHonest, Start!GateHolds
<1>2. CASE UNCHANGED Start!vars \/ Start!Over
  BY <1>1, <1>2 DEF Start!Over, Start!vars, Start!runner, Start!dll, Start!target
<1>3. CASE Start!ServerStep
  BY <1>1, <1>3, ServerLeaves
<1>4. CASE Start!TargetExits
  BY <1>1, <1>4 DEF Start!TargetExits, Start!runner, Start!dll
<1>5. CASE \/ Start!BootConnects \/ Start!BootNotifiesTransport
           \/ Start!BootQueriesPolicy \/ Start!BootInstallsHooks
  BY <1>1, <1>5 DEF Start!BootConnects, Start!BootNotifiesTransport, Start!BootQueriesPolicy,
                    Start!BootInstallsHooks, Start!Send, Start!Answered, Start!Failed, Start!runner,
                    Start!target
<1>6. CASE Start!BootPublishes \/ Start!LoopPublishes
  BY <1>1, <1>6 DEF Start!BootPublishes, Start!LoopPublishes, Start!PublishMask, Start!Send,
                    Start!Answered, Start!Failed, Start!runner, Start!target
<1>7. CASE Start!BootDone
  BY <1>1, <1>7 DEF Start!BootDone, BootOnce, Hooked, Start!runner
<1>8. CASE Start!BootFailed
  BY <1>1, <1>8 DEF Start!BootFailed, Start!runner
<1>9. CASE Start!LoopEnsures
  BY <1>1, <1>9 DEF Start!LoopEnsures, Start!runner, Start!target
<1>10. CASE Start!RunnerInjects
  BY <1>1, <1>10 DEF Start!RunnerInjects, Start!RunnerGoes, BootOnce
<1>11. CASE Start!RunnerAwaitsReady \/ Start!RunnerStops
  BY <1>1, <1>11 DEF Start!RunnerAwaitsReady, Start!RunnerStops, Start!dll, Start!target
<1>12. CASE Start!RunnerAwaitsChild
  BY <1>1, <1>12 DEF Start!RunnerAwaitsChild, Start!dll
<1>13. CASE Start!RunnerJudges
  <2>1. verdict' = "ok" => Required \subseteq Start!Mask
    BY <1>13 DEF Start!RunnerJudges, HonestMasks
  <2> QED
    BY <1>1, <1>13, <2>1 DEF Start!RunnerJudges, Start!dll, Start!target
<1>14. CASE Start!RunnerResumes
  BY <1>1, <1>14 DEF Start!RunnerResumes, Start!RunnerGoes, BootOnce
<1> QED
  BY <1>2, <1>3, <1>4, <1>5, <1>6, <1>7, <1>8, <1>9, <1>10, <1>11, <1>12, <1>13, <1>14
     DEF Start!Next, Start!BootStep, Start!RunnerStep

-----------------------------------------------------------------------------
(* The invariant of a start-up.                                            *)

\* Nothing is connected, announced or running behind the gate at first.
LEMMA InitStart == Start!Init => StartInv
<1> SUFFICES ASSUME Start!Init PROVE StartInv
  OBVIOUS
<1>1. BootOnce
  BY DEF Start!Init, BootOnce, Unhooked, Hooked
<1>2. OwnRequest
  BY DEF Start!Init, OwnRequest
<1>3. HonestMasks
  BY DEF Start!Init, HonestMasks, Start!AnnouncedIsObserved, Start!NoRequest
<1>4. GateWaits
  BY DEF Start!Init, GateWaits, Start!GuardedVerdictHonest, Start!GateHolds
<1> QED
  BY <1>1, <1>2, <1>3, <1>4 DEF StartInv

\* Every step keeps the invariant.
LEMMA NextStart == StartInv /\ [Start!Next]_Start!vars => StartInv'
BY BootOnceKept, OwnRequestKept, HonestMasksKept, GateWaitsKept DEF StartInv

-----------------------------------------------------------------------------
(* The types of a start-up.                                                *)

\* Nothing is announced or asked but flags the host knows.
TypedStart == StartInv /\ Start!TypeOK

\* What the mask shows are flags.
LEMMA MaskTyped ==
  ASSUME Start!TypeOK
  PROVE  Start!Mask \in SUBSET Start!Flag /\ {Ipc} \in SUBSET Start!Flag
BY DEF Start!TypeOK, Start!Mask, Start!Flag

\* The boot thread keeps the types; the masks are compared by HonestMasks.
LEMMA BootTyped ==
  ASSUME LaunchGroup \subseteq Group, Start!TypeOK, Start!BootStep, HonestMasks'
  PROVE  Start!TypeOK'
<1>1. request' \in [kind : {"none", "query", "ready"}, mask : SUBSET Start!Flag]
  BY MaskTyped DEF Start!BootStep, Start!BootConnects, Start!BootNotifiesTransport,
                   Start!BootQueriesPolicy, Start!BootInstallsHooks, Start!BootPublishes,
                   Start!BootDone, Start!BootFailed, Start!LoopEnsures, Start!LoopPublishes,
                   Start!PublishMask, Start!Send, Start!Answered, Start!Failed, Start!Ready,
                   Start!Query, Start!NoRequest, Start!pipe, Start!TypeOK
<1>2. installed' \subseteq Group
  BY DEF Start!BootStep, Start!BootConnects, Start!BootNotifiesTransport, Start!BootQueriesPolicy,
         Start!BootInstallsHooks, Start!BootPublishes, Start!BootDone, Start!BootFailed,
         Start!LoopEnsures, Start!LoopPublishes, Start!TypeOK
<1>3. UNCHANGED <<mode, rpc, verdict, runStop, readyEvent, traps>>
  BY DEF Start!BootStep, Start!BootConnects, Start!BootNotifiesTransport, Start!BootQueriesPolicy,
         Start!BootInstallsHooks, Start!BootPublishes, Start!BootDone, Start!BootFailed,
         Start!LoopEnsures, Start!LoopPublishes, Start!runner, Start!server
<1>4. /\ runSrv' \in {runSrv, "serving"} /\ link' \in {link, "open", "lost"} /\ answered' \in BOOLEAN
      /\ trapQueued' \in BOOLEAN /\ early' \in BOOLEAN /\ main' \in {main, "user", "exited"}
  BY DEF Start!BootStep, Start!BootConnects, Start!BootNotifiesTransport, Start!BootQueriesPolicy,
         Start!BootInstallsHooks, Start!BootPublishes, Start!BootDone, Start!BootFailed,
         Start!LoopEnsures, Start!LoopPublishes, Start!PublishMask, Start!Send, Start!Answered,
         Start!Failed, Start!server, Start!pipe, Start!target, Start!TypeOK
<1>5. boot' \in {"absent", "connect", "transport", "policy", "hooks", "publish",
                 "initialized", "loop", "loopPublish", "failed", "ended"}
  BY DEF Start!BootStep, Start!BootConnects, Start!BootNotifiesTransport, Start!BootQueriesPolicy,
         Start!BootInstallsHooks, Start!BootPublishes, Start!BootDone, Start!BootFailed,
         Start!LoopEnsures, Start!LoopPublishes, Start!PublishMask, Start!Send, Start!Answered,
         Start!Failed, Start!TypeOK
<1> QED
  BY <1>1, <1>2, <1>3, <1>4, <1>5 DEF Start!TypeOK, HonestMasks, Start!AnnouncedIsObserved

\* The server, the runner and the target keep the types as well.
LEMMA StepTyped ==
  ASSUME LaunchGroup \subseteq Group, Start!TypeOK, [Start!Next]_Start!vars, HonestMasks'
  PROVE  Start!TypeOK'
<1>1. CASE Start!BootStep
  BY <1>1, BootTyped
<1>2. CASE Start!ServerStep
  <2>1. /\ runSrv' \in {runSrv, "listening", "ended"} /\ 
           {readyEvent', traps', answered', trapQueued'} \subseteq BOOLEAN
        /\ runStop' = runStop
    BY <1>2 DEF Start!ServerStep, Start!ServerFails, Start!ServerListens, Start!ServerHandles,
                Start!ServerCountsTrap, Start!ServerEnds, Start!pipe, Start!dll, Start!TypeOK
  <2> QED
    BY <1>2, <2>1, ServerLeaves DEF Start!TypeOK, HonestMasks, Start!AnnouncedIsObserved
<1>3. CASE Start!RunnerStep
  <2>1. /\ UNCHANGED <<mode, runSrv, readyEvent, observed, traps, Start!pipe>>
        /\ UNCHANGED <<installed, published, trapQueued>>
        /\ rpc' \in {"readyWait", "resume", "lateWait", "childWait", "stop", "judge", "done"}
        /\ verdict' \in {verdict, "ok", "failed"} /\ runStop' \in BOOLEAN
        /\ boot' \in {boot, "absent", "connect"}
        /\ main' \in {main, "gated", "user", "exited"} /\ early' \in BOOLEAN
    BY <1>3 DEF Start!RunnerStep, Start!RunnerInjects, Start!RunnerAwaitsReady, Start!RunnerResumes,
                Start!RunnerAwaitsChild, Start!RunnerStops, Start!RunnerJudges, Start!RunnerGoes,
                Start!server, Start!dll, Start!target, Start!TypeOK
  <2>2. UNCHANGED <<link, request, answered>> /\ Start!Mask' = Start!Mask
    BY <2>1 DEF Start!pipe, Start!Mask
  <2> QED
    BY <2>1, <2>2 DEF Start!TypeOK
<1>4. CASE Start!TargetExits
  BY <1>4 DEF Start!TargetExits, Start!TypeOK, Start!runner, Start!server, Start!pipe, Start!dll,
              Start!Mask
<1>5. CASE UNCHANGED Start!vars \/ Start!Over
  BY <1>5 DEF Start!Over, Start!vars, Start!runner, Start!server, Start!pipe, Start!dll,
              Start!target, Start!TypeOK, Start!Mask
<1> QED
  BY <1>1, <1>2, <1>3, <1>4, <1>5 DEF Start!Next

\* The types hold at first.
LEMMA InitTyped == Start!Init => Start!TypeOK
<1> SUFFICES ASSUME Start!Init PROVE Start!TypeOK
  OBVIOUS
<1>1. early \in BOOLEAN /\ main \in {"user", "suspended"}
  BY DEF Start!Init
<1>2. request \in [kind : {"none", "query", "ready"}, mask : SUBSET Start!Flag]
  BY DEF Start!Init, Start!NoRequest
<1> QED
  BY <1>1, <1>2 DEF Start!Init, Start!TypeOK, Start!NoRequest

\* Types and masks are kept together.
LEMMA NextTyped == LaunchGroup \subseteq Group /\ TypedStart /\ [Start!Next]_Start!vars => TypedStart'
BY NextStart, StepTyped DEF TypedStart, StartInv

-----------------------------------------------------------------------------
(* Over all start-ups.                                                     *)

\* In every run the host has counted what the DLL believes it announced, so no later
\* pass of the event loop skips a mask that was lost (bootstrap.cpp, pipe_server.cpp).
THEOREM AnnouncementsArrive == Start!Spec => []Start!AnnouncedIsObserved
<1>1. StartInv => Start!AnnouncedIsObserved
  BY DEF StartInv, HonestMasks
<1> QED
  BY <1>1, InitStart, NextStart, PTL DEF Start!Spec

\* In every guarded run no code of the target runs before the launch groups are
\* hooked, and a verdict of success means that what was required is in place
\* (BlindRunner.cpp, bootstrap.cpp).
THEOREM GuardedRunsAreGuarded == Start!Spec => []Start!GuardedVerdictHonest
<1>1. StartInv => Start!GuardedVerdictHonest
  BY DEF StartInv, GateWaits
<1> QED
  BY <1>1, InitStart, NextStart, PTL DEF Start!Spec

-----------------------------------------------------------------------------
(* The composition.                                                        *)

HostStep == PipeStep \/ StartStep \/ DogsStep
hostVars == <<part, vars, startVars, dogsVars>>

\* Only PipeStep moves the pipe, its client and its server.
LEMMA PipeAlone == [HostStep]_hostVars => [Next]_vars
BY DEF HostStep, hostVars, PipeStep, StartStep, DogsStep

\* Only StartStep moves the runner, its server and the boot thread.
LEMMA StartAlone == [HostStep]_hostVars => [Start!Next]_Start!vars
BY DEF HostStep, hostVars, PipeStep, StartStep, DogsStep, startVars, Start!vars,
       Start!runner, Start!server, Start!pipe, Start!dll, Start!target

\* Only DogsStep moves the turn of the event loop and what the watchdogs remember.
LEMMA DogsAlone == [HostStep]_hostVars => [Dogs!Next]_Dogs!vars
BY DEF HostStep, hostVars, PipeStep, StartStep, DogsStep, dogsVars, Dogs!vars,
       Dogs!program, Dogs!memory

\* The invariant of Startup is one of the composition.
LEMMA StartInvariant == MCSpec => []StartInv
<1>1. MCInit => StartInv
  BY InitStart DEF MCInit
<1>2. StartInv /\ [HostStep]_hostVars => StartInv'
  BY StartAlone, NextStart
<1> QED
  BY <1>1, <1>2, PTL DEF MCSpec, HostStep, hostVars

\* The pipe's invariant is one of the composition.
LEMMA PipeInvariant == MCSpec => []PipeInv
<1>1. MCInit => PipeInv
  BY InitPipe DEF MCInit
<1>2. PipeInv /\ [HostStep]_hostVars => PipeInv'
  BY PipeAlone, NextPipe
<1> QED
  BY <1>1, <1>2, PTL DEF MCSpec, HostStep, hostVars

\* The three stay type-correct together: the commands on the pipe, the masks the boot
\* thread announces, and the clocks and masks of the watchdogs.
THEOREM HostTypes == MCSpec => []TypesOK
<1> DEFINE Inv == PipeInv /\ TypedStart /\ Dogs!TypeOK
<1>1. MCInit => Inv
  BY Periods, InitPipe, InitStart, InitTyped, InitDogs DEF MCInit, TypedStart
<1>2. Inv /\ [HostStep]_hostVars => Inv'
  BY FlagsAreKnown, Periods, PipeAlone, StartAlone, DogsAlone, NextPipe, NextTyped, StepDogs
<1>3. Inv => TypesOK
  BY PipeTyped DEF TypesOK, TypedStart
<1> QED
  BY <1>1, <1>2, <1>3, PTL DEF MCSpec, HostStep, hostVars

\* What arrives at the host in the composition arrives in order, at most once, and is
\* only confirmed when it arrived (pipe.cpp, pipe_server.cpp).
THEOREM HostDelivers == MCSpec => ImplementsDelivery
<1>1. MCInit => Delivery!Init
  BY DEF MCInit, Init, Delivery!Init
<1>2. PipeInv /\ [HostStep]_hostVars => [Delivery!Next]_(Delivery!vars)
  BY PipeAlone, StepDelivers
<1> QED
  BY <1>1, <1>2, PipeInvariant, PTL DEF MCSpec, HostStep, hostVars, ImplementsDelivery, Delivery!Spec

\* In every run the host has counted what the DLL believes it announced, so no later
\* pass of the event loop skips a mask that was lost (bootstrap.cpp, pipe_server.cpp).
THEOREM HostAnnounces == MCSpec => []AnnouncedIsObserved
<1>1. StartInv => AnnouncedIsObserved
  BY DEF StartInv, HonestMasks, AnnouncedIsObserved
<1> QED
  BY <1>1, StartInvariant, PTL

\* In every guarded run no code of the target runs before the launch groups are
\* hooked, and a verdict of success means that what was required is in place
\* (BlindRunner.cpp, bootstrap.cpp).
THEOREM HostVerdicts == MCSpec => []GuardedVerdictHonest
<1>1. StartInv => GuardedVerdictHonest
  BY DEF StartInv, GateWaits, GuardedVerdictHonest
<1> QED
  BY <1>1, StartInvariant, PTL

\* What the host was last told of hooks, exports and memory is what the watchdogs
\* found last, unless that event was shed (integrity.cpp, runtime.cpp).
THEOREM HostIsTold ==
  ASSUME ExportsAreExports
  PROVE  MCSpec => []HostIsUpToDate
<1>1. MCInit => ToldInv
  BY InitTold DEF MCInit
<1>2. ToldInv /\ [HostStep]_hostVars => ToldInv'
  BY DogsAlone, StepTold
<1>3. ToldInv => HostIsUpToDate
  BY DEF ToldInv, MaskTold, ExportTold, MapTold,
         HostIsUpToDate, Dogs!HostIsUpToDate
<1> QED
  BY <1>1, <1>2, <1>3, PTL DEF MCSpec, HostStep, hostVars

=============================================================================
