-------------------------- MODULE MCAsyncPublisher --------------------------
(* AsyncPublisher on small instances.                                      *)
EXTENDS AsyncPublisher, TLC

\* Nodes are interchangeable, and no operator of the specification orders them.
NodeSymmetry == Permutations(Node)

=============================================================================
