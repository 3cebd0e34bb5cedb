---------------------------- MODULE EventDelivery ----------------------------
(***************************************************************************)
(* What the event pipe promises to the code that publishes through it.     *)
(*                                                                         *)
(* Events are numbered in the order they are handed to the pipe.  The host *)
(* consumes a growing sequence of them: each at most once, never out of    *)
(* order, possibly with gaps.  Success is reported only for events the     *)
(* host has consumed; an event whose publication failed may have been      *)
(* consumed or not.                                                        *)
(***************************************************************************)
EXTENDS Naturals, Sequences

VARIABLES submitted,   \* how many events were handed to the pipe
          delivered,   \* the events the host consumed, in that order
          confirmed    \* the events whose publication was reported a success

vars == <<submitted, delivered, confirmed>>

Increasing(s) == \A i, j \in DOMAIN s : i < j => s[i] < s[j]

Init == submitted = 0 /\ delivered = <<>> /\ confirmed = {}

Submit ==
  /\ submitted' \in Nat /\ submitted' > submitted
  /\ UNCHANGED <<delivered, confirmed>>

Deliver ==
  /\ \E n \in 1 .. Len(delivered') : delivered = SubSeq(delivered', 1, n - 1)
  /\ Increasing(delivered')
  /\ \A i \in DOMAIN delivered' : delivered'[i] \in 1 .. submitted
  /\ UNCHANGED <<submitted, confirmed>>

Confirm ==
  /\ confirmed \subseteq confirmed'
  /\ confirmed' \subseteq {delivered[i] : i \in DOMAIN delivered}
  /\ UNCHANGED <<submitted, delivered>>

Next == Submit \/ Deliver \/ Confirm

Spec == Init /\ [][Next]_vars

=============================================================================
