\* Two program threads, one of which calls hooked functions, and the event loop;
\* a page of the original ntdll's export table, one of a second copy and a stub
\* page share a table of two ranges, with and without guards on stub pages.
CONSTANTS
  Target = {t1, t2}
  Hooked = {t1}
  Loop = loop
  Table = {eat, copy}
  Original = {eat}
  Stub = {s1}
  RangeMax = 2
  RearmMax = 2
  NoPage = NoPage
SPECIFICATION FairSpec
INVARIANTS TypeOK TableReadsSurvive
PROPERTIES GuardReturns
