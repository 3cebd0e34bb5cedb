---------------------------- MODULE PipeChannel ----------------------------
(***************************************************************************)
(* The request/response pipe between BLIND.dll and its host.               *)
(*                                                                         *)
(* Client: the DLL thread that holds g_pipeLock (src/DLL/ipc/pipe.cpp).    *)
(* It opens the pipe, negotiates, writes one request at a time and waits a *)
(* bounded time for the response with the same sequence number; any        *)
(* failure closes the handle.  A batch that failed is retried event by     *)
(* event.                                                                  *)
(*                                                                         *)
(* Host: PipeServerThread (src/Injector/Ipc/pipe_server.cpp): one pipe     *)
(* instance, one client, read - handle - answer until something fails or   *)
(* the runner asks it to stop.                                             *)
(*                                                                         *)
(* Events are numbered in the order they are handed over.  A control       *)
(* command (ready mask, policy query, registration) carries no event.      *)
(***************************************************************************)
EXTENDS Naturals, SequencesExt

CONSTANTS BatchMax,     \* IXIPC_MAX_HOOK_EVENT_BATCH
          MaxEvents,    \* bound: events handed over
          MaxControls   \* bound: control commands and connection attempts

ASSUME BoundsAreNatural ==
  BatchMax \in Nat \ {0} /\ MaxEvents \in Nat /\ MaxControls \in Nat

VARIABLES
  open,       \* the client has a pipe handle
  shaken,     \* g_handshakeComplete
  sequence,   \* g_sequence
  cpc,        \* where the client is
  plan,       \* the commands it has still to transact, first one first
  srv,        \* where the host is
  stop,       \* ServerContext::Stop
  requests,   \* written by the client, not yet read by the host
  responses,  \* written by the host, not yet read by the client
  answer,     \* the response the host is about to write
  submitted,  \* history: events handed over so far
  delivered,  \* history: events the host has consumed, in order
  confirmed,  \* history: events whose publication was reported a success
  controls,   \* control commands issued so far
  closed      \* history: the client has closed a handle

client == <<open, shaken, sequence, cpc, plan>>
host   == <<srv, stop, answer>>
ghosts == <<submitted, delivered, confirmed, controls>>
vars   == <<client, host, requests, responses, ghosts, closed>>

\* A command carries a sequence of events, empty for a control command.
Command(events) == [kind |-> "command", events |-> events]
Handshake       == [kind |-> "handshake", events |-> <<>>]
NoAnswer        == [seq |-> 0, cmd |-> Command(<<>>)]

Init ==
  /\ open = FALSE /\ shaken = FALSE /\ sequence = 1
  /\ cpc = "idle" /\ plan = <<>> /\ closed = FALSE
  /\ srv = "creating" /\ stop = FALSE /\ answer = NoAnswer
  /\ requests = <<>> /\ responses = <<>>
  /\ submitted = 0 /\ delivered = <<>> /\ confirmed = {} /\ controls = 0

-----------------------------------------------------------------------------
(* The client's calls.                                                     *)

BeginPublish ==
  /\ cpc = "idle"
  /\ \E n \in 1 .. BatchMax :
        /\ submitted + n <= MaxEvents
        /\ submitted' = submitted + n
        /\ plan' = << [i \in 1 .. n |-> submitted + i] >>
  /\ cpc' = "open"
  /\ UNCHANGED <<open, shaken, sequence, host, requests, responses,
                 delivered, confirmed, controls, closed>>

\* NotifyHookReady, QueryHookPolicy, Register*, or Initialize (no command).
BeginControl ==
  /\ cpc = "idle" /\ controls < MaxControls
  /\ plan' \in {<< <<>> >>, <<>>}
  /\ controls' = controls + 1
  /\ cpc' = "open"
  /\ UNCHANGED <<open, shaken, sequence, host, requests, responses,
                 submitted, delivered, confirmed, closed>>

\* Shutdown closes the handle when nobody is inside g_pipeLock.
ClosePipe ==
  /\ open' = FALSE /\ shaken' = FALSE
  /\ responses' = <<>>
  /\ closed' = TRUE

ShutdownClose ==
  /\ cpc = "idle" /\ open
  /\ ClosePipe
  /\ UNCHANGED <<sequence, cpc, plan, host, requests, ghosts>>

-----------------------------------------------------------------------------
(* TransactCommandLocked and the batch fallback around it.                 *)

After(ok) ==
  LET events == Head(plan)
      again  == plan # <<>> /\ ~ok /\ Len(events) > 1
  IN /\ plan' = IF again THEN [i \in 1 .. Len(events) |-> << events[i] >>]
                ELSE IF plan = <<>> THEN <<>> ELSE Tail(plan)
     /\ cpc' = IF again \/ Len(plan) > 1 THEN "open" ELSE "idle"

\* Any transport failure: close the handle and fail the command.
FailCommand ==
  /\ After(FALSE)
  /\ ClosePipe

\* EnsurePipeOpenLocked: reuse the handle, or connect to a listening instance.
OpenReuse ==
  /\ cpc = "open" /\ open
  /\ cpc' = IF shaken THEN "write" ELSE "shake"
  /\ UNCHANGED <<open, shaken, sequence, plan, host,
                 requests, responses, ghosts, closed>>

OpenConnect ==
  /\ cpc = "open" /\ ~open /\ srv = "listening"
  /\ open' = TRUE /\ shaken' = FALSE
  /\ srv' = "accepting"
  /\ cpc' = "shake"
  /\ UNCHANGED <<sequence, plan, stop, answer, requests,
                 responses, ghosts, closed>>

\* WaitNamedPipe times out or CreateFile fails; there is no handle to close.
OpenFails ==
  /\ cpc = "open" /\ ~open
  /\ After(FALSE)
  /\ UNCHANGED <<open, shaken, sequence, host, requests, responses, ghosts, closed>>

Connected == srv \notin {"creating", "listening", "closed"}

\* SendPacketLocked, first half.  Without a handshake Initialize has nothing
\* more to write; a command follows a completed handshake on the same handle.
Write(at, cmd, next) ==
  /\ cpc = at /\ Connected
  /\ sequence' = sequence + 1
  /\ requests' = Append(requests, [seq |-> sequence', cmd |-> cmd])
  /\ cpc' = next
  /\ UNCHANGED <<open, shaken, plan, host, responses, ghosts, closed>>

WriteHandshake == Write("shake", Handshake, "shaking")

WriteCommand == plan # <<>> /\ Write("write", Command(Head(plan)), "reading")

\* Initialize returns once the handshake is done.
NothingToWrite ==
  /\ cpc = "write" /\ plan = <<>>
  /\ After(TRUE)
  /\ UNCHANGED <<open, shaken, sequence, host, requests, responses, ghosts, closed>>

\* The write fails or times out; a cancelled write may have reached the host.
WriteFails ==
  /\ cpc = "shake" \/ (cpc = "write" /\ plan # <<>>)
  /\ LET cmd == IF cpc = "shake" THEN Handshake ELSE Command(Head(plan))
         req == [seq |-> sequence + 1, cmd |-> cmd]
     IN requests' \in {requests} \cup
          (IF Connected THEN {Append(requests, req)} ELSE {})
  /\ sequence' = sequence + 1
  /\ FailCommand
  /\ UNCHANGED <<host, ghosts>>

\* The response belongs to the request: same sequence number, same command.
Matches(r) ==
  /\ r.seq = sequence
  /\ r.cmd = IF cpc = "shaking" THEN Handshake ELSE Command(Head(plan))

ReadHandshake ==
  /\ cpc = "shaking" /\ responses # <<>> /\ Matches(Head(responses))
  /\ responses' = Tail(responses)
  /\ shaken' = TRUE /\ cpc' = "write"
  /\ UNCHANGED <<open, sequence, plan, host, requests, ghosts, closed>>

ReadResponse ==
  /\ cpc = "reading" /\ responses # <<>> /\ Matches(Head(responses))
  /\ responses' = Tail(responses)
  /\ confirmed' = confirmed \cup ToSet(Head(plan))
  /\ After(TRUE)
  /\ UNCHANGED <<open, shaken, sequence, host, requests, submitted, delivered,
                 controls, closed>>

\* A foreign response, a broken pipe, or no response in time.
ReadFails ==
  /\ cpc \in {"shaking", "reading"}
  /\ FailCommand
  /\ UNCHANGED <<sequence, host, requests, ghosts>>

-----------------------------------------------------------------------------
(* PipeServerThread.                                                       *)

ServerCreates ==
  /\ srv = "creating"
  /\ srv' \in {"listening", "closed"}
  /\ UNCHANGED <<client, stop, answer, requests, responses, ghosts, closed>>

\* A client that came and went before ConnectNamedPipe fails the connection.
ServerAccepts ==
  /\ srv = "accepting"
  /\ srv' \in IF open THEN {"top"} ELSE {"top", "closed"}
  /\ UNCHANGED <<client, stop, answer, requests, responses, ghosts, closed>>

\* DisconnectNamedPipe discards what the client has not read.
\* mutant of Disconnect: listen again for the next client
DisconnectAndListen ==
  /\ srv' = "listening"
  /\ requests' = <<>> /\ responses' = <<>>

Disconnect ==
  /\ srv' = "closed"
  /\ requests' = <<>> /\ responses' = <<>>

ServerTop ==
  /\ srv = "top"
  /\ IF stop THEN Disconnect
             ELSE srv' = "reading" /\ UNCHANGED <<requests, responses>>
  /\ UNCHANGED <<client, stop, answer, ghosts, closed>>

\* HandlePacket consumes the events before it answers.
ServerHandles ==
  /\ srv = "reading" /\ requests # <<>>
  /\ LET r == Head(requests)
     IN /\ delivered' = delivered \o r.cmd.events
        /\ answer' = r
  /\ requests' = Tail(requests)
  /\ srv' = "replying"
  /\ UNCHANGED <<client, stop, responses, submitted, confirmed, controls, closed>>

ServerReplies ==
  /\ srv = "replying" /\ open
  /\ responses' = Append(responses, answer)
  /\ answer' = NoAnswer
  /\ srv' = "top"
  /\ UNCHANGED <<client, stop, requests, ghosts, closed>>

\* The client has gone: the read finds a broken pipe, or the answer is refused.
ServerLosesClient ==
  /\ ~open
  /\ srv = "replying" \/ (srv = "reading" /\ requests = <<>>)
  /\ Disconnect
  /\ answer' = NoAnswer
  /\ UNCHANGED <<client, stop, ghosts, closed>>

RunnerStops ==
  /\ ~stop
  /\ stop' = TRUE
  /\ UNCHANGED <<client, srv, answer, requests, responses, ghosts, closed>>

-----------------------------------------------------------------------------
ClientStep ==
  \/ OpenReuse \/ OpenConnect \/ OpenFails
  \/ WriteHandshake \/ WriteCommand \/ NothingToWrite \/ WriteFails
  \/ ReadHandshake \/ ReadResponse \/ ReadFails

ServerStep ==
  \/ ServerCreates \/ ServerAccepts \/ ServerTop \/ ServerHandles
  \/ ServerReplies \/ ServerLosesClient

\* Nobody has to call: between two calls the client may rest for good.
Rest == cpc = "idle" /\ UNCHANGED vars

Next == BeginPublish \/ BeginControl \/ ShutdownClose \/ ClientStep
          \/ ServerStep \/ RunnerStops \/ Rest

Spec == Init /\ [][Next]_vars

\* Every wait of the client has a timeout, so the client alone is fair: the
\* host may be stopped in a debugger for all it knows.
FairSpec == Spec /\ WF_vars(ClientStep)

-----------------------------------------------------------------------------
(* Properties.                                                             *)

\* Every variable has its type, and no command carries more than a batch.
Batch == {b \in Seq(1 .. submitted) : Len(b) <= BatchMax}

TypeOK ==
  /\ open \in BOOLEAN /\ shaken \in BOOLEAN /\ stop \in BOOLEAN
  /\ closed \in BOOLEAN
  /\ sequence \in Nat /\ submitted \in Nat /\ controls \in Nat
  /\ cpc \in {"idle", "open", "shake", "shaking", "write", "reading"}
  /\ srv \in {"creating", "listening", "accepting", "top", "reading",
              "replying", "closed"}
  /\ plan \in Seq(Batch)
  /\ \A r \in ToSet(requests) \cup ToSet(responses) \cup {answer} :
       /\ r.seq \in Nat /\ r.cmd.kind \in {"handshake", "command"}
       /\ r.cmd.events \in Batch
  /\ delivered \in Seq(1 .. submitted) /\ confirmed \subseteq 1 .. submitted

\* The pipe keeps the promise of EventDelivery: each event at most once, in
\* order, and success only for what the host consumed, although a batch is
\* retried event by event and answers come late.
Delivery == INSTANCE EventDelivery WITH
  submitted <- submitted, delivered <- delivered, confirmed <- confirmed
ImplementsDelivery == Delivery!Spec

\* The bundled hosts serve one client connection: after the first handle is
\* closed (one answer later than 750 ms is enough) no handle is opened again and
\* nothing is confirmed any more, the event-by-event retry of the failed batch
\* included.
LostForGood == [][closed => ~open' /\ confirmed' = confirmed]_vars

=============================================================================
