\* Two threads meet at one page.
CONSTANTS
  Thread = {t1, t2}
  Page = {entry}
  Slot = {s1, s2}
  MaxTouches = 1
  NoThread = NoThread
  NoSlot = NoSlot
SPECIFICATION Spec
INVARIANTS HooksBeforeUserCode
