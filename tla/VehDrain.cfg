SPECIFICATION Spec
CONSTANTS
  Raiser = {r1, r2}
  Worker = {w1, w2}
  NodeMax = 2
  RaiseMax = 2
  CallMax = 2
  Kinds = {"print", "guard", "plain"}
INVARIANTS DrainedWhenUnregistered
CHECK_DEADLOCK FALSE
