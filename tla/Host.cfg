\* Batches of up to two events, four events, two control calls: a failed batch can
\* be retried while an answer to it is still on its way.  All three ways to start
\* the target with the core mask required.  Two hook controllers, both watched
\* exports and a map that outgrows its snapshot.
SPECIFICATION MCSpec
CONSTANTS
  BatchMax = 2
  MaxEvents = 4
  MaxControls = 2
  Group = {nt, ki, module}
  LaunchGroup = {nt, module}
  Ipc = ipc
  Required = {ipc, nt, ki}
  Component = {nt, module}
  Export = {amsi, etw}
  CheckPeriod = 2
  Republish = 3
  Content = {1, 2, 3}
  EntryMax = 2
INVARIANTS TypesOK AnnouncedIsObserved GuardedVerdictHonest HostIsUpToDate
PROPERTIES ImplementsDelivery LostForGood MaskConverges StandingStatesAreTold
