\* Two callbacks, one controller that starts, stops and restarts the publisher.
CONSTANTS
  Producer = {p1, p2}
  Drainer = {}
  Controller = {c1}
  Worker = {w1, w2}
  Node = {n1, n2, n3}
  BatchMax = 2
  DrainMax = 1
  MaxEvents = 2
  MaxCalls = 3
  NoThread = NoThread
  NoEvent = NoEvent
SPECIFICATION Spec
SYMMETRY NodeSymmetry
INVARIANTS TypeOK NoOrphanWorker PoolOutlivesUse NodesPartitioned
           ArrivalOrderKept
