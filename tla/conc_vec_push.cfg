CONSTANTS
  Threads = {t1, t2, t3}
  Nobody = nobody
  HalfBits = 4
SPECIFICATION FairSpec
INVARIANTS TypeOK ClaimsApart NoLeak AnnouncedIsStored
PROPERTIES StoredOnce PushReturns
CHECK_DEADLOCK FALSE
