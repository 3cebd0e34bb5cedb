\* A hooked call and a terminator fill a queue of three with four calls: repeats,
\* evictions of both kinds, a shutdown, and a flush by each thread.
\* Two threads; rings of two entries that four stores overwrite, three handle
\* values, two servers; two modules, one of which is loaded later.
SPECIFICATION MCSpec
CONSTANTS
  Caller = {a}
  Terminator = {t}
  Loop = loop
  Key = {alloc, regs, term}
  Interesting = {term}
  Dull = {regs}
  Unmergeable = {regs}
  TerminateKey = term
  QueueMax = 3
  ScanMax = 2
  RepeatLimit = 2
  MaxCalls = 4
  MaxShutdowns = 1
  User = {t1, t2}
  Families = {{"WinHttpConnect", "WinHttpOpenRequest", "WinHttpSendRequest"},
              {"InternetConnectW", "HttpOpenRequestA", "HttpSendRequestW"},
              {"LsaLookupAuthenticationPackage", "LsaCallAuthenticationPackage"}}
  Host = {h1, h2}
  HandleMax = 3
  RingMax = 2
  OpMax = 3
  Early = {app}
  Late = {dll}
  Exercised = {"WSASend", "WSARecv", "recv", "connect", "GetAddrInfoW"}
  Lengths = {1}
  BufferMax = 2
  SockCallMax = 2
  WrapMax = 2
SYMMETRY Symmetry
VIEW Active
INVARIANTS TypesOK EveryCallCountedOnce BurstsCoalesced LastEventFlushed
  JumpComesBack OriginalSurvives ToldAsDue ReportsNameTheCall
