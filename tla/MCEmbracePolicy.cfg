\* A leaf node with a blacklisted thread and no subscriptions; a post arrives
\* twice, perhaps after the caches have been cleaned.
SPECIFICATION Spec
CONSTANTS
  i = i
  c = c
  t = t
  r = r
  n = n
  u = u
  w1 = w1
  w2 = w2
  c1 = c1
  c2 = c2
  Local = Local
  NoFrame = NoFrame
  NoRow = NoRow
  Identities = {i}
  Channels = {c}
  Posts = {t, u, r}
  Parent <- TreeParent
  Author <- TreeAuthor
  Root <- TreeRoot
  Timestamp <- SameTime
  Installed = {i}
  Forged = {}
  WeakProof = {}
  WeakThread = {}
  LongThread = {}
  Workers = {w1, w2}
  Connections = {c1}
  Blacklist = {t}
  Subscriptions = {}
  TrackAllChannels = FALSE
  StoreEverything = FALSE
  NetworkPropagation = FALSE
  ProofAdjusted = FALSE
  MaxRejected = 1
  MaxUnsolicited = 1
  MaxAge = 0
  MaxSkew = 0
  WritesFail = FALSE
  MaxNow = 1
  MaxCopies <- UTwice
  MaxErasures = 0
SYMMETRY WorkerSymmetry
CHECK_DEADLOCK FALSE
INVARIANTS BlacklistedNeverStored RefusedNeverStored OnlySubscribedStored RelayedOncePerLife
