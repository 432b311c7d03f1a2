\* One worker: the order of arrival makes no difference, and what waits for a
\* parent does not wait for ever.
SPECIFICATION FairSpec
CONSTANTS
  i = i
  c = c
  t = t
  r = r
  n = n
  u = u
  w1 = w1
  w2 = w2
  c1 = c1
  c2 = c2
  Local = Local
  NoFrame = NoFrame
  NoRow = NoRow
  Identities = {i}
  Channels = {c}
  Posts = {t, r, u}
  Parent <- TreeParent
  Author <- TreeAuthor
  Root <- TreeRoot
  Timestamp <- SameTime
  Installed = {i}
  Forged = {}
  WeakProof = {u}
  WeakThread = {}
  LongThread = {}
  Workers = {w1}
  Connections = {c1}
  Blacklist = {}
  Subscriptions = {c}
  TrackAllChannels = FALSE
  StoreEverything = FALSE
  NetworkPropagation = TRUE
  ProofAdjusted = FALSE
  MaxRejected = 1
  MaxUnsolicited = 1
  MaxAge = 1
  MaxSkew = 0
  WritesFail = FALSE
  MaxNow = 3
  MaxCopies <- Once
  MaxErasures = 0
CHECK_DEADLOCK FALSE
INVARIANTS NothingLost NobodyWaitsInVain
PROPERTIES DetachedDrains
