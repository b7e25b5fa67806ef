SPECIFICATION FairSpec
CONSTANTS
  Setters = {s1, s2}
  Waiters = {w1, w2}
  Channels = {c1, c2, c3}
  Timers = {t1, t2}
  nil = nil
INVARIANTS
  TypeOK
  NoDoubleClose
  WaiterOnCurrentChannel
  DeadlineIsLastSet
PROPERTIES
  SetReturns
  DeadlineReleasesWaiter
