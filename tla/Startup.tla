------------------------------- MODULE Startup -------------------------------
(***************************************************************************)
(* How a run starts and how it is judged.                                  *)
(*                                                                         *)
(* Runner: BlindRunner.cpp starts the target, injects the DLL, waits for   *)
(* readiness, resumes the target, waits for its end and gives a verdict.   *)
(* Server: PipeServerThread collects the ready mask of the DLL.            *)
(* Boot: the thread that initialises the DLL (bootstrap.cpp): a thread of  *)
(* its own, or with the guarded gate the first thread of the target that   *)
(* reaches gated code; afterwards the thread of the event loop.            *)
(*                                                                         *)
(* The gate itself is LaunchGate's business and the pipe PipeChannel's:    *)
(* here the gate keeps the target from its code until the initialisation   *)
(* has returned, and a transaction on the pipe that fails loses the only   *)
(* connection the host will serve.  That a second thread can slip through  *)
(* a page whose guard has just fired is LaunchGate's finding and is left   *)
(* out here.  The verdict is that of a run outside CLI mode; in CLI mode   *)
(* the exit code of the target replaces the check of the trap count.       *)
(***************************************************************************)
EXTENDS FiniteSets

CONSTANTS Group,      \* hook groups the policy enables: NT, KI, module
          LaunchGroup, \* those initialised before the launch gate opens
          Ipc,        \* IXIPC_HOOK_READY_FLAG_IPC_CONNECTED
          Required    \* CliReadyMaskForPolicy

Flag == Group \cup {Ipc}

VARIABLES
  mode,       \* "guarded", "suspended" or "running": how the target is started
  rpc,        \* where the runner is
  verdict,    \* "none", "ok" or "failed"
  srv,        \* where the server is
  stop,       \* ServerContext::Stop
  readyEvent, \* ServerContext::ReadyEvent is set
  observed,   \* ServerContext::ReadyMask
  traps,      \* ServerContext::LaunchGateTrapCount is not zero
  link,       \* the DLL's connection: "none", "open" or "lost"
  request,    \* the request in the pipe, if any
  answered,   \* the server has answered it
  boot,       \* where the DLL's boot thread is
  installed,  \* groups whose controllers are initialised
  published,  \* g_LastPublishedHookReadyMask
  trapQueued, \* the launch-gate trap event waits in the publisher
  main,       \* the target: "suspended", "gated", "user" or "exited"
  early       \* history: target code ran before the launch groups

runner == <<mode, rpc, verdict>>
server == <<srv, stop, readyEvent, observed, traps>>
pipe   == <<link, request, answered>>
dll    == <<boot, installed, published, trapQueued>>
target == <<main, early>>
vars   == <<runner, server, pipe, dll, target>>

NoRequest == [kind |-> "none", mask |-> {}]
Query     == [kind |-> "query", mask |-> {}]
Ready(m)  == [kind |-> "ready", mask |-> m]

Mask == {Ipc} \cup installed      \* BuildHookReadyMask(true)

Init ==
  /\ mode \in {"guarded", "suspended", "running"}
  /\ rpc = "inject" /\ verdict = "none"
  /\ srv = "creating" /\ stop = FALSE /\ readyEvent = FALSE
  /\ observed = {} /\ traps = FALSE
  /\ link = "none" /\ request = NoRequest /\ answered = FALSE
  /\ boot = "absent" /\ installed = {} /\ published = {} /\ trapQueued = FALSE
  /\ main = IF mode = "running" THEN "user" ELSE "suspended"
  /\ early = (mode = "running")

-----------------------------------------------------------------------------
(* PipeServerThread.                                                       *)

\* Without a pipe or a client the ready event is set all the same.
ServerFails ==
  /\ srv \in {"creating", "listening"}
  /\ srv' = "ended" /\ readyEvent' = TRUE
  /\ UNCHANGED <<runner, stop, observed, traps, pipe, dll, target>>

ServerListens ==
  /\ srv = "creating"
  /\ srv' = "listening"
  /\ UNCHANGED <<runner, stop, readyEvent, observed, traps, pipe, dll, target>>

\* HandlePacket of a ready notification or a policy query.
\* mutant of ServerHandles: count the required mask instead of the announced one
ServerHandlesAny ==
  /\ srv = "serving" /\ request # NoRequest /\ ~answered
  /\ observed' = observed \cup Required
  /\ readyEvent' = (readyEvent \/ request.kind = "ready")
  /\ answered' = TRUE
  /\ UNCHANGED <<runner, srv, stop, traps, link, request, dll, target>>

ServerHandles ==
  /\ srv = "serving" /\ request # NoRequest /\ ~answered
  /\ observed' = observed \cup request.mask
  /\ readyEvent' = (readyEvent \/ (request.kind = "ready" /\ Required \subseteq observed'))
  /\ answered' = TRUE
  /\ UNCHANGED <<runner, srv, stop, traps, link, request, dll, target>>

\* HandleHookEvent of the trap event, sent by the publisher between requests.
ServerCountsTrap ==
  /\ srv = "serving" /\ trapQueued /\ link = "open" /\ request = NoRequest
  /\ traps' = TRUE /\ trapQueued' = FALSE
  /\ UNCHANGED <<runner, srv, stop, readyEvent, observed, pipe, boot, installed,
                 published, target>>

\* The stop flag is seen between packets; a broken pipe or a failed read or
\* write ends the server as well.
ServerEnds ==
  /\ srv = "serving"
  /\ srv' = "ended"
  /\ UNCHANGED <<runner, stop, readyEvent, observed, traps, pipe, dll, target>>

-----------------------------------------------------------------------------
(* The DLL's transactions with the host.                                   *)

Running == main # "exited"

\* TransactCommandLocked writes the request, on a connection that is open.
Send(at, what) ==
  /\ boot = at /\ request = NoRequest /\ link = "open" /\ Running
  /\ request' = what /\ answered' = FALSE

\* The answer arrived in time.
Answered(at) ==
  /\ boot = at /\ link = "open" /\ request # NoRequest /\ answered /\ Running
  /\ request' = NoRequest /\ answered' = FALSE

\* It did not, or there was nobody to write to: the handle is closed.  What was
\* written stays in the pipe for the server to find, until it is gone.
Failed(at) ==
  /\ boot = at /\ Running
  /\ link' = "lost"
  /\ UNCHANGED <<request, answered>>

\* InitializeIpcWithRetry: until connected, or for at most 15 s.
BootConnects ==
  /\ boot = "connect" /\ Running
  /\ \/ /\ srv = "listening" /\ link = "none"
        /\ link' = "open" /\ srv' = "serving" /\ boot' = "transport"
     \/ /\ srv = "listening" /\ link = "none"      \* no answer to the handshake
        /\ link' = "lost" /\ srv' = "serving" /\ boot' = boot
     \/ /\ boot' = "failed"
        /\ UNCHANGED <<link, srv>>
  /\ UNCHANGED <<runner, stop, readyEvent, observed, traps, request, answered,
                 installed, published, trapQueued, target>>

\* NotifyHookReadyWithRetry; once the connection is lost the retries fail.
BootNotifiesTransport ==
  /\ \/ Send("transport", Ready({Ipc})) /\ UNCHANGED <<link, boot, published>>
     \/ /\ Answered("transport") /\ link' = link
        /\ boot' = "policy" /\ published' = {Ipc}
     \/ Failed("transport") /\ boot' = "failed" /\ published' = published
  /\ UNCHANGED <<runner, server, installed, trapQueued, target>>

\* QueryCliHookPolicyFromHost; its result is not looked at.
BootQueriesPolicy ==
  /\ \/ Send("policy", Query) /\ UNCHANGED <<link, boot>>
     \/ Answered("policy") /\ link' = link /\ boot' = "hooks"
     \/ Failed("policy") /\ boot' = "hooks"
  /\ UNCHANGED <<runner, server, installed, published, trapQueued, target>>

\* The NT and the module controller; either may fail.
BootInstallsHooks ==
  /\ boot = "hooks" /\ Running
  /\ \E groups \in SUBSET LaunchGroup :
        /\ installed' = groups
        /\ boot' = IF groups = LaunchGroup THEN "publish" ELSE "failed"
  /\ UNCHANGED <<runner, server, pipe, published, trapQueued, target>>

\* PublishCurrentHookReadyMaskBestEffort, only if the mask has changed.
\* mutants of PublishMask: announce a mask only once, or remember it without
\* waiting for the answer
PublishMaskOnce(at, next) ==
  \/ /\ boot = at /\ Running /\ published # {}
     /\ boot' = next
     /\ UNCHANGED <<pipe, published>>
  \/ /\ Send(at, Ready(Mask)) /\ published = {}
     /\ UNCHANGED <<link, boot, published>>
  \/ Answered(at) /\ boot' = next /\ published' = Mask /\ link' = link
  \/ published = {} /\ Failed(at) /\ boot' = next /\ published' = published

PublishMaskEarly(at, next) ==
  \/ /\ boot = at /\ Running /\ published = Mask /\ request = NoRequest
     /\ boot' = next
     /\ UNCHANGED <<pipe, published>>
  \/ /\ Send(at, Ready(Mask)) /\ published # Mask
     /\ published' = Mask
     /\ UNCHANGED <<link, boot>>
  \/ Answered(at) /\ boot' = next /\ UNCHANGED <<link, published>>
  \/ published # Mask /\ Failed(at) /\ boot' = next /\ published' = published

PublishMask(at, next) ==
  \/ /\ boot = at /\ Running /\ published = Mask
     /\ boot' = next
     /\ UNCHANGED <<pipe, published>>
  \/ /\ Send(at, Ready(Mask)) /\ published # Mask
     /\ UNCHANGED <<link, boot, published>>
  \/ Answered(at) /\ boot' = next /\ published' = Mask /\ link' = link
  \/ published # Mask /\ Failed(at) /\ boot' = next /\ published' = published

BootPublishes ==
  /\ PublishMask("publish", "initialized")
  /\ UNCHANGED <<runner, server, installed, trapQueued, target>>

-----------------------------------------------------------------------------
(* After the initialisation, and the event loop.                           *)

\* The gate lets the target go, after queueing the trap event.
\* mutant of BootDone: the gate opens however the initialisation went
BootDoneOrNot ==
  /\ boot \in {"initialized", "failed"} /\ Running
  /\ boot' = "loop"
  /\ trapQueued' = (mode = "guarded")
  /\ IF main = "gated"
     THEN main' = "user" /\ early' = ~(LaunchGroup \subseteq installed)
     ELSE UNCHANGED <<main, early>>
  /\ UNCHANGED <<runner, server, pipe, installed, published>>

BootDone ==
  /\ boot = "initialized" /\ Running
  /\ boot' = "loop"
  /\ trapQueued' = (mode = "guarded")
  /\ IF main = "gated"
     THEN main' = "user" /\ early' = ~(LaunchGroup \subseteq installed)
     ELSE UNCHANGED <<main, early>>
  /\ UNCHANGED <<runner, server, pipe, installed, published>>

\* IxRuntimeFailClosed behind the gate; a bootstrap thread just returns.
BootFailed ==
  /\ boot = "failed" /\ Running
  /\ boot' = "ended"
  /\ main' = IF mode = "guarded" THEN "exited" ELSE main
  /\ UNCHANGED <<runner, server, pipe, installed, published, trapQueued, early>>

\* EnsureCoreHookControllersReady: each missing controller is tried again.
LoopEnsures ==
  /\ boot = "loop" /\ Running
  /\ \E groups \in SUBSET Group : installed' = installed \cup groups
  /\ boot' = "loopPublish"
  /\ UNCHANGED <<runner, server, pipe, published, trapQueued, target>>

LoopPublishes ==
  /\ PublishMask("loopPublish", "loop")
  /\ UNCHANGED <<runner, server, installed, trapQueued, target>>

-----------------------------------------------------------------------------
(* The target, and the runner.                                             *)

TargetExits ==
  /\ main = "user"
  /\ main' = "exited"
  /\ UNCHANGED <<runner, server, pipe, dll, early>>

RunnerGoes(from, to) == rpc = from /\ rpc' = to

\* The remote LoadLibrary or the mapper; DllMain prepares the gate or creates
\* the bootstrap thread.  Whatever fails before the resumption ends the target.
RunnerInjects ==
  /\ \/ /\ RunnerGoes("inject", IF mode = "suspended" THEN "readyWait" ELSE "resume")
        /\ boot' = IF mode = "guarded" \/ ~Running THEN "absent" ELSE "connect"
        /\ UNCHANGED <<main, verdict>>
     \/ /\ RunnerGoes("inject", "done")
        /\ verdict' = "failed" /\ main' = "exited" /\ boot' = boot
  /\ UNCHANGED <<mode, server, pipe, installed, published, trapQueued, early>>

\* The ready event or 15 s, without a difference.
RunnerAwaitsReady ==
  /\ RunnerGoes("readyWait", "resume") \/ RunnerGoes("lateWait", "childWait")
  /\ UNCHANGED <<mode, verdict, server, pipe, dll, target>>

\* Behind the gate the resumed thread becomes the boot thread.
RunnerResumes ==
  /\ RunnerGoes("resume", IF mode = "suspended" THEN "childWait" ELSE "lateWait")
  /\ main' = IF main = "suspended"
             THEN IF mode = "guarded" THEN "gated" ELSE "user"
             ELSE main
  /\ boot' = IF mode = "guarded" THEN "connect" ELSE boot
  /\ early' = (early \/ (main' = "user" /\ ~(LaunchGroup \subseteq installed)))
  /\ UNCHANGED <<mode, verdict, server, pipe, installed, published, trapQueued>>

\* The target ended, or its time is up and it is ended.
RunnerAwaitsChild ==
  /\ RunnerGoes("childWait", "stop")
  /\ main' = "exited"
  /\ UNCHANGED <<mode, verdict, server, pipe, dll, early>>

RunnerStops ==
  /\ RunnerGoes("stop", "judge")
  /\ stop' = TRUE
  /\ UNCHANGED <<mode, verdict, srv, readyEvent, observed, traps, pipe, dll,
                 target>>

\* The server thread ended, or 1000 ms passed.  A run also fails for the exit
\* code of its target, or when no hook event at all was seen.
\* mutant of RunnerJudges: the ready event stands for the mask
RunnerTrustsEvent ==
  /\ RunnerGoes("judge", "done")
  /\ verdict' \in IF readyEvent THEN {"ok", "failed"} ELSE {"failed"}
  /\ UNCHANGED <<mode, server, pipe, dll, target>>

RunnerJudges ==
  /\ RunnerGoes("judge", "done")
  /\ verdict' \in IF Required \subseteq observed /\ (mode = "guarded" => traps)
                  THEN {"ok", "failed"} ELSE {"failed"}
  /\ UNCHANGED <<mode, server, pipe, dll, target>>

-----------------------------------------------------------------------------
ServerStep ==
  ServerFails \/ ServerListens \/ ServerHandles \/ ServerCountsTrap \/ ServerEnds

BootStep ==
  \/ BootConnects \/ BootNotifiesTransport \/ BootQueriesPolicy
  \/ BootInstallsHooks \/ BootPublishes \/ BootDone \/ BootFailed
  \/ LoopEnsures \/ LoopPublishes

RunnerStep ==
  \/ RunnerInjects \/ RunnerAwaitsReady \/ RunnerResumes \/ RunnerAwaitsChild
  \/ RunnerStops \/ RunnerJudges

\* The runner has given its verdict and the process of the runner ends.
Over == rpc = "done" /\ UNCHANGED vars

Next == ServerStep \/ BootStep \/ TargetExits \/ RunnerStep \/ Over

Spec == Init /\ [][Next]_vars

\* The boot thread is scheduled, and its waits are bounded.  A request in the
\* pipe is read: ReadFile returns it.
FairSpec ==
  /\ Spec
  /\ WF_vars(BootStep) /\ WF_vars(ServerHandles)

-----------------------------------------------------------------------------
(* Properties.                                                             *)

\* Every variable has its type; the host never holds a flag the DLL did not
\* earn, however late or lost the answers are.
TypeOK ==
  /\ mode \in {"guarded", "suspended", "running"}
  /\ rpc \in {"inject", "readyWait", "resume", "lateWait", "childWait", "stop",
              "judge", "done"}
  /\ verdict \in {"none", "ok", "failed"}
  /\ srv \in {"creating", "listening", "serving", "ended"}
  /\ stop \in BOOLEAN /\ readyEvent \in BOOLEAN /\ traps \in BOOLEAN
  /\ link \in {"none", "open", "lost"} /\ answered \in BOOLEAN
  /\ request \in [kind : {"none", "query", "ready"}, mask : SUBSET Flag]
  /\ boot \in {"absent", "connect", "transport", "policy", "hooks", "publish",
               "initialized", "loop", "loopPublish", "failed", "ended"}
  /\ installed \subseteq Group /\ published \subseteq Mask
  /\ observed \subseteq Mask /\ request.mask \subseteq Mask
  /\ trapQueued \in BOOLEAN /\ early \in BOOLEAN
  /\ main \in {"suspended", "gated", "user", "exited"}

\* What the DLL believes it has announced the host has counted: a mask is
\* remembered only with the answer to it, so no later pass of the event loop
\* skips an announcement that was lost.
AnnouncedIsObserved == published \subseteq observed

\* Behind the gate no code of the target runs before the launch groups are
\* hooked, whether or not the host still listens.
GateHolds == mode = "guarded" => ~early

\* A verdict of success on a guarded launch means that the hooks were in place
\* before the target's first instruction, and are in place; a launch that fails
\* does not let the target run without them.
GuardedVerdictHonest ==
  GateHolds /\ (verdict = "ok" /\ mode = "guarded" => Required \subseteq Mask)

\* Once the event loop runs and the required groups are in, the host hears of
\* it, unless the connection is lost, the server has ended or the target ends.
MaskConverges ==
  (boot = "loop" /\ Required \subseteq Mask) ~>
     (Required \subseteq observed \/ link = "lost" \/ srv = "ended" \/ ~Running)

=============================================================================
