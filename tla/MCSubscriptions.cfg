SPECIFICATION Spec
CONSTANTS
  a1 = a1
  a2 = a2
  p1 = p1
  c = c
  x = x
  y = y
  z = z
  w = w
  Nothing = Nothing
  Apps = {a1, a2}
  Peers = {p1}
  Core = {}
  Topics = {c}
  Identities = {}
  Rows = {x, y, z, w}
  Root <- Where
  Near <- Where
  Own <- Where
  Stamp <- Times
  Stored = {x, y, z}
  Held <- First
  Arriving <- Coming
  MaxIndividual = 1
  MaxUnsolicited = 1
  Scale = 3
  Depth = 2
  Since = 9
  Offset = 1
  MaxAge = 0
  Start = 10
  MaxNow = 11
  MaxCommands = 3
  MaxBreaks = 1
CHECK_DEADLOCK FALSE
CONSTRAINT Brief
INVARIANTS TypeOK Asked NoGap FilesFollow
