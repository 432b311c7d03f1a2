SPECIFICATION Spec
CONSTANTS
  a = a
  b = b
  h = h
  i = i
  j = j
  g = g
  l = l
  f = f
  c = c
  Nodes = {a, b}
  Rows = {h, i, j, g, l, f, c}
  Nothing = Nothing
  Kind <- Kinds1
  Stamp <- Stamps
  Author <- Authors
  Participates <- Both
  Stored <- AtStart
  Arriving <- Coming
  Scale = 4
  Depth = 2
  Width = 1
  Offset = 0
  Backtrack = 2
  MaxAge = 2
  MaxSkew = 1
  Start = 4
  MaxNow = 5
  MaxBreaks = 1
  MaxShards = 2
CHECK_DEADLOCK FALSE
INVARIANTS TypeOK CaughtUp
PROPERTY Converges
