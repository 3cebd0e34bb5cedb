\* Two raisers share a ring of two nodes that is started and stopped twice.  A drain
\* call runs against the publisher's dispatch thread, a callback and a shutdown.  Three
\* threads and two park slots meet at two gated pages; one of them finds no slot.
SPECIFICATION MCSpec
CONSTANTS
  Raiser = {r1, r2}
  Worker = {w1, w2}
  NodeMax = 2
  RaiseMax = 2
  CallMax = 2
  Kinds = {"print", "step"}
  Producer = {p1}
  Drainer = {d1}
  Controller = {c1}
  Sender = {w1}
  Node = {n1, n2}
  BatchMax = 1
  DrainMax = 1
  MaxEvents = 2
  MaxCalls = 2
  NoThread = NoThread
  NoEvent = NoEvent
  Target = {t1, t2, t3}
  Page = {entry, tls}
  Park = {s1, s2}
  MaxTouches = 1
  NoSlot = NoSlot
INVARIANTS RingIntact ReportedOnce AcceptedOnce GateIntact OneInitializer
PROPERTIES RingReports EventuallyHanded EveryThreadResumes
