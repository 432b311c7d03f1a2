\* Two workers, a post and its channel.
SPECIFICATION Spec
CONSTANTS
  i = i
  c = c
  t = t
  r = r
  n = n
  u = u
  w1 = w1
  w2 = w2
  c1 = c1
  c2 = c2
  Local = Local
  NoFrame = NoFrame
  NoRow = NoRow
  Identities = {i}
  Channels = {c}
  Posts = {t}
  Parent <- TreeParent
  Author <- TreeAuthor
  Root <- TreeRoot
  Timestamp <- SameTime
  Installed = {i}
  Forged = {}
  WeakProof = {}
  WeakThread = {}
  LongThread = {}
  Workers = {w1, w2}
  Connections = {c1}
  Blacklist = {}
  Subscriptions = {c}
  TrackAllChannels = FALSE
  StoreEverything = FALSE
  NetworkPropagation = TRUE
  ProofAdjusted = FALSE
  MaxRejected = 1
  MaxUnsolicited = 1
  MaxAge = 1
  MaxSkew = 0
  WritesFail = FALSE
  MaxNow = 0
  MaxCopies <- Once
  MaxErasures = 0
CHECK_DEADLOCK FALSE
INVARIANTS InsertedWhenParentArrives
