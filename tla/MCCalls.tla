-------------------------------- MODULE MCCalls --------------------------------
(***************************************************************************)
(* TLC instance of what a hooked call reports: the Winsock and DNS         *)
(* functions with their hooks, the wrappers of the other modules' exports, *)
(* and the queue in which every controller's callback leaves what it is    *)
(* told.  A behaviour has one of them (part) and leaves the others as they *)
(* began: the queue's calls stand for callbacks of any wrapper.            *)
(***************************************************************************)
EXTENDS ModuleCalls

CONSTANTS
  Caller, Terminator, Loop, Key, Interesting, Dull, Unmergeable, TerminateKey,
  QueueMax, ScanMax, RepeatLimit, MaxCalls, MaxShutdowns,           \* HookQueue
  Early, Late, Exercised, Lengths, BufferMax, SockCallMax, WrapMax  \* WinsockHooks

ASSUME KeysClassified ==
  /\ Interesting \subseteq Key /\ Dull \subseteq Key /\ Unmergeable \subseteq Key
  /\ Interesting \cap Dull = {} /\ TerminateKey \in Interesting

ASSUME LimitsArePositive ==
  /\ QueueMax \in Nat \ {0} /\ ScanMax \in Nat \ {0}
  /\ RepeatLimit \in Nat \ {0}
  /\ MaxCalls \in Nat /\ MaxShutdowns \in Nat

ASSUME ThreadsDistinct ==
  /\ IsFiniteSet(Key) /\ IsFiniteSet(Caller) /\ IsFiniteSet(Terminator)
  /\ Loop \notin Caller \cup Terminator /\ Caller \cap Terminator = {}

ASSUME SocketsBounded ==
  /\ Early \cap Late = {} /\ Lengths \subseteq Nat
  /\ {BufferMax, SockCallMax} \subseteq Nat /\ WrapMax \in Nat \ {0}

\* Functions called together share one ring: the handles' or the packages'.
ASSUME FamiliesShareARing ==
  \A F \in Families :
    /\ IsFiniteSet(F) /\ Cardinality(F) > 1
    /\ \/ F \subseteq {"LsaLookupAuthenticationPackage", "LsaCallAuthenticationPackage"}
       \/ F \subseteq {"WinHttpConnect", "WinHttpOpenRequest", "WinHttpSendRequest",
                       "InternetConnectW", "HttpOpenRequestW", "HttpSendRequestW",
                       "InternetConnectA", "HttpOpenRequestA", "HttpSendRequestA"}

VARIABLES
  part,
  installed, ready, queue, workEvent, pc, hand, stopping, shutdowns, recorded, own,
  reported, forgotten,
  fn, told, hooked, mark, bytes, patch, original, import, remembered, present, stage,
  stack, socketCalls, sockReported, alone, disturbed, unprotected

Queue   == INSTANCE HookQueue
Winsock == INSTANCE WinsockHooks WITH Client <- User, reported <- sockReported

ASSUME FunctionsKnown == Exercised \subseteq DOMAIN Winsock!HookEntries

queueVars   == <<installed, ready, queue, workEvent, pc, hand, stopping, shutdowns, recorded, own,
                 reported, forgotten>>
winsockVars == <<fn, told, hooked, mark, bytes, patch, original, import, remembered, present, stage,
                 stack, socketCalls, sockReported, alone, disturbed, unprotected>>
all         == <<part, vars, queueVars, winsockVars>>

MCInit ==
  /\ part \in {"queue", "wrappers", "winsock"}
  /\ Init /\ Queue!Init /\ Winsock!Init
  /\ part # "wrappers" => subject = {"CoInitializeEx"}
  /\ part # "winsock" => fn = "connect"

QueueStep   == part = "queue" /\ Queue!Next /\ UNCHANGED <<part, vars, winsockVars>>
WrapperStep == part = "wrappers" /\ Next /\ UNCHANGED <<part, queueVars, winsockVars>>
WinsockStep == part = "winsock" /\ Winsock!Next /\ UNCHANGED <<part, vars, queueVars>>

\* A program may stop calling; the queue, which says itself when it is done, must
\* not come to rest before.
StopCalling == part # "queue" /\ UNCHANGED all

MCSpec == MCInit /\ [][QueueStep \/ WrapperStep \/ WinsockStep \/ StopCalling]_all

\* The other parts of a behaviour's states never change.
Active ==
  CASE part = "queue"    -> queueVars
    [] part = "wrappers" -> vars
    [] part = "winsock"  -> winsockVars

Symmetry == Permutations(User) \cup Permutations(Host)

-----------------------------------------------------------------------------
(* The properties of the three, as the components state them.              *)

\* The three are type-correct.
TypesOK ==
  /\ part = "queue" => Queue!TypeOK
  /\ part = "wrappers" => TypeOK
  /\ part = "winsock" => Winsock!TypeOK

\* See HookQueue: what the queue keeps, merges and hands on.
EveryCallCountedOnce == part = "queue" => Queue!EveryCallCountedOnce
BurstsCoalesced      == part = "queue" => Queue!BurstsCoalesced
LastEventFlushed     == part = "queue" => Queue!LastEventFlushed

\* See WinsockHooks: the jump that several threads lift.
JumpComesBack == part = "winsock" => Winsock!JumpComesBack

\* See WinsockHooks: what was there before the hooks stays callable under them and
\* is back after them.
OriginalSurvives == part = "winsock" => Winsock!OriginalIsCallable /\ Winsock!RemovedWithoutTrace

\* See WinsockHooks and ModuleCalls: a call is told once, and no mark that keeps the
\* callback from telling about itself stays up.
ToldAsDue ==
  /\ part = "wrappers" => ToldOnce
  /\ part = "winsock" => Winsock!SeenOnce /\ Winsock!MarkComesDown

\* See ModuleCalls: names taken from the rings and from the caller's memory.
ReportsNameTheCall ==
  part = "wrappers" => NamesItsConnection /\ NamesWhatWasPassed

=============================================================================
