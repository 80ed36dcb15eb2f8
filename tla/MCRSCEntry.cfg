CONSTANTS
  Threads = {t1, t2, t3}
  Paths = {p1, p2, p3}
  Blocks = {b1, b2}
  None = None
  t1 = t1
  t2 = t2
  t3 = t3
  p1 = p1
  p2 = p2
  p3 = p3
  b1 = b1
  b2 = b2
SPECIFICATION Spec
SYMMETRY Symmetry
INVARIANTS
  EntryTypeOK
  StaleListLinked
  ReadsOwnBytes
  NoLockCycle
  OnlyMutexesBlock
  EntryOutlivesLock
  StaleStopsInAppend
CHECK_DEADLOCK FALSE
