\* Private callers are ignored while a rule names the memory query.
SPECIFICATION Spec
CONSTANTS
  Program = {t1}
  Hooked = {"NtTerminateProcess", "NtAllocateVirtualMemory", "NtQueryVirtualMemory", "NtQueryInformationProcess"}
  Ruled = {"NtTerminateProcess"}
  CallMax = 1
  NestMax = 5
INVARIANTS QueriesEnd
CHECK_DEADLOCK FALSE
