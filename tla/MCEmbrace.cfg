\* Two workers, a chain of posts in any order, failing writes and an erase.
SPECIFICATION Spec
CONSTANTS
  i = i
  c = c
  t = t
  r = r
  n = n
  u = u
  w1 = w1
  w2 = w2
  c1 = c1
  c2 = c2
  Local = Local
  NoFrame = NoFrame
  NoRow = NoRow
  Identities = {i}
  Channels = {c}
  Posts = {t, r, n, u}
  Parent <- TreeParent
  Author <- TreeAuthor
  Root <- TreeRoot
  Timestamp <- SameTime
  Installed = {c}
  Forged = {}
  WeakProof = {u}
  WeakThread = {u}
  LongThread = {}
  Workers = {w1, w2}
  Connections = {c1}
  Blacklist = {}
  Subscriptions = {c}
  TrackAllChannels = FALSE
  StoreEverything = FALSE
  NetworkPropagation = TRUE
  ProofAdjusted = FALSE
  MaxRejected = 0
  MaxUnsolicited = 1
  MaxAge = 1
  MaxSkew = 0
  WritesFail = TRUE
  MaxNow = 0
  MaxCopies <- Once
  MaxErasures = 1
CHECK_DEADLOCK FALSE
INVARIANTS TypeOK CausallyClosed RowsKnowTheirRoot
PROPERTIES ImplementsStore
