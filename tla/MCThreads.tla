------------------------------ MODULE MCThreads ------------------------------
(***************************************************************************)
(* TLC instance of the threads that wait and wake inside BLIND.dll: the    *)
(* dispatch threads of the exception ring and of the event publisher, with *)
(* the drain that ends the process, and the threads held at the launch     *)
(* gate.  They share no state at this level: a behaviour exercises one of  *)
(* them (part) and leaves the others as they began, so that the instance   *)
(* has the sum and not the product of their states.                        *)
(***************************************************************************)
EXTENDS VehRing

CONSTANTS
  Producer, Drainer, Controller, Sender, Node, BatchMax, DrainMax, MaxEvents,
  MaxCalls, NoThread, NoEvent,                                   \* AsyncPublisher
  Target, Page, Park, MaxTouches, NoSlot                         \* LaunchGate

VARIABLES
  part,
  running, signal, nodes, free, pending, event, thread, pc, hand, batch, dispatched,
  calls, arrivals, handed, lost,
  deferred, prepared, open, readyEvent, armed, guarded, assigned, park, initialized,
  place, page, slot, touches, early, ended

Publisher == INSTANCE AsyncPublisherProofs WITH Worker <- Sender, pool <- nodes
Gate      == INSTANCE LaunchGateProofs WITH Thread <- Target, Slot <- Park, ready <- open, pc <- place

ASSUME GateCast == Gate!NullsAreNot /\ Gate!ThreadsAndPages

ASSUME PublisherCast ==
  /\ Producer \cap (Drainer \cup Controller \cup Sender) = {}
  /\ Drainer \cap (Controller \cup Sender) = {} /\ Controller \cap Sender = {}
  /\ NoThread \notin Publisher!Thread
  /\ {BatchMax, DrainMax} \subseteq Nat \ {0} /\ {MaxEvents, MaxCalls} \subseteq Nat

publisherVars == <<running, signal, nodes, free, pending, event, thread, pc, hand, batch,
                   dispatched, calls, arrivals, handed, lost>>
gateVars      == <<deferred, prepared, open, readyEvent, armed, guarded, assigned, park,
                   initialized, place, page, slot, touches, early, ended>>
all           == <<part, vars, publisherVars, gateVars>>

MCInit ==
  /\ part \in {"ring", "publisher", "gate"}
  /\ Init /\ Publisher!Init /\ Gate!Init
  /\ part # "gate" => ~deferred

RingPart      == part = "ring" /\ Next /\ UNCHANGED <<part, publisherVars, gateVars>>
PublisherPart == part = "publisher" /\ Publisher!Next /\ UNCHANGED <<part, vars, gateVars>>
GatePart      == part = "gate" /\ Gate!Next /\ UNCHANGED <<part, vars, publisherVars>>

\* Nobody has to raise an exception, to register or to unregister.
RingRests == part = "ring" /\ UNCHANGED all

\* The fairness of a component binds the behaviours that exercise it.
MCSpec ==
  /\ MCInit /\ [][RingPart \/ PublisherPart \/ GatePart \/ RingRests]_all
  /\ \A w \in Worker : WF_vars(part = "ring" /\ Running /\ WorkerStep(w))
  /\ \A p \in Producer : WF_publisherVars(part = "publisher" /\ Publisher!ProducerStep(p))
  /\ \A s \in Sender : WF_publisherVars(part = "publisher" /\ Publisher!WorkerStep(s))
  /\ \A d \in Drainer : WF_publisherVars(part = "publisher" /\ Publisher!DrainStep(d))
  /\ \A c \in Controller : WF_publisherVars(part = "publisher" /\ Publisher!ControllerStep(c))
  /\ \A t \in Target : WF_gateVars(part = "gate" /\ ended = "no" /\ Gate!Step(t))

-----------------------------------------------------------------------------
(* The properties of the three, as the components state them.              *)

\* See VehRing: what is on the list of a running ring is taken off it.
RingReports == part = "ring" => EventuallyReported

\* See AsyncPublisher: what becomes of an event it accepted.
AcceptedOnce     == Publisher!AcceptedOnce
EventuallyHanded == part = "publisher" => Publisher!EventuallyHanded

\* See LaunchGate: who opens the gate, and who waits for it in which slot.
GateIntact         == Gate!GateIntact
OneInitializer     == Gate!OneInitializer
EveryThreadResumes == part = "gate" => Gate!EveryThreadResumes

=============================================================================
