\* Three rows that may all come to one full shard; two threads and the optimizer;
\* one row erased, which the next insertion may follow, one restart.
SPECIFICATION Spec
CONSTANTS
  ra = ra
  rb = rb
  rc = rc
  t1 = t1
  t2 = t2
  Rows = {ra, rb, rc}
  Stamp <- Stamps
  Erased = Erased
  Torn = Torn
  Threads = {t1, t2}
  MinimumShardSize = 2
  MaximumShardSize = 2
  ForwardGranularity = 50
  BacktrackGranularity = 4
  MaxCopies = 1
  MaxErasures = 1
  MaxRestarts = 1
SYMMETRY ThreadSymmetry
CHECK_DEADLOCK FALSE
INVARIANTS TypeOK NoRowAboveItsShard CacheIsFile ContentPresent
PROPERTIES ImplementsRowStore
