\* One thread registers a stub page while another one reads it.
CONSTANTS
  Target = {t1, t2}
  Hooked = {t1}
  Loop = loop
  Table = {eat}
  Original = {eat}
  Stub = {s1}
  RangeMax = 2
  RearmMax = 2
  NoPage = NoPage
SPECIFICATION Spec
INVARIANTS FollowUpsCaptured
