SPECIFICATION FairSpec
CONSTANTS
  Thread = {t1, t2, t3, t4}
  PoolSize = 2
INVARIANTS SlotLentOnce FreedWhenReturned NoLostWakeup
PROPERTIES DestructorReturns
CHECK_DEADLOCK FALSE
