\* Two threads and two installers everywhere; all thirty-six native functions,
\* with a rule for one that allocates, one that protects and one that
\* ends the process.
SPECIFICATION MCSpec
CONSTANTS
  Caller = {c1, c2}
  Pointer = {p1, p2}
  HandleType = {k1, k2}
  SlotMax = 2
  GenSize = 8
  GenStart = 5
  RegisterMax = 4
  Thread = {t1, t2}
  Owner = owner
  Importer = {app}
  Provider = amsi
  Methods = {"inline", "iat"}
  LoadMax = 2
  GateMax = 2
  DepthMax = 2
  RemoveMax = 1
  MayFail = TRUE
  Program = {t1}
  Hooked = {"NtCreateThread", "NtCreateThreadEx", "NtWriteVirtualMemory", "NtAllocateVirtualMemory", "NtProtectVirtualMemory", "NtReadVirtualMemory", "NtQueryVirtualMemory", "NtQuerySystemInformation", "NtQuerySystemInformationEx", "NtGetNextThread", "NtCreateSection", "NtTerminateProcess", "NtOpenProcessToken", "NtOpenThreadToken", "NtOpenFile", "NtQueryInformationProcess", "NtQueryInformationThread", "NtSetContextThread", "NtQuerySection", "NtQueryBootOptions", "NtOpenProcess", "NtOpenThread", "NtDuplicateObject", "NtGetContextThread", "NtSuspendThread", "NtResumeThread", "NtQueueApcThread", "NtAllocateVirtualMemoryEx", "NtMapViewOfSectionEx", "NtMapViewOfSection", "NtUnmapViewOfSection", "NtUnmapViewOfSectionEx", "NtQueueApcThreadEx", "NtQueueApcThreadEx2", "NtOpenProcessTokenEx", "NtOpenThreadTokenEx"}
  Ruled = {"NtAllocateVirtualMemory", "NtProtectVirtualMemory", "NtTerminateProcess"}
  CallMax = 1
  NestMax = 5
  NativeOrder <- MCOrder
  Protect = "protect"
  PatchKinds = {"jump", "break"}
  Int3Max = 2
  TurnMax = 3
  NativeCallMax = 3
VIEW Active
INVARIANTS TypesOK TokenNamesItsPointer JumpComesBack OriginalSurvives
  NestingEnds DeniedOrTold CallsGetThrough ShutdownRestores
CHECK_DEADLOCK FALSE
