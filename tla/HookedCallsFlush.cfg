\* The end of the process flushes the events of an allocating program.
SPECIFICATION Spec
CONSTANTS
  Program = {t1}
  Hooked = {"NtTerminateProcess", "NtAllocateVirtualMemory", "NtQueryVirtualMemory", "NtQueryInformationProcess"}
  Ruled = {"NtTerminateProcess"}
  CallMax = 1
  NestMax = 5
INVARIANTS QueueLockedOnce
CHECK_DEADLOCK FALSE
