\* One thread reads what it has inserted, then inserts again; no split.
SPECIFICATION Spec
CONSTANTS
  ra = ra
  rb = rb
  rc = rc
  t1 = t1
  t2 = t2
  Rows = {ra, rb, rc}
  Stamp <- Stamps
  Erased = Erased
  Torn = Torn
  Threads = {t1}
  MinimumShardSize = 8
  MaximumShardSize = 8
  ForwardGranularity = 50
  BacktrackGranularity = 4
  MaxCopies = 1
  MaxErasures = 0
  MaxRestarts = 1
CHECK_DEADLOCK FALSE
INVARIANTS ContentOfTheRow
