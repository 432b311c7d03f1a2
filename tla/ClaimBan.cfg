SPECIFICATION Spec
CONSTANTS
  h1 = h1
  h2 = h2
  Hosts = {h1, h2}
  Mirrors = {h1}
  Callers = {h1}
  Slots = {s1, s2}
  Main = Main
  User = User
  Absent = Absent
  Nobody = Nobody
  Connections = 4
  MaxConnections = 2
  MinCore = 1
  MaxCore = 1
  MaxAttempts = 2
  New = 1
  Fresh = 1
  Penalty = 2
  Top = 3
  Days <- OneDay
  MaxDay = 1
  MaxHeard = 1
  MaxInbound = 1
  Known <- SomeKnown
CHECK_DEADLOCK FALSE
CONSTRAINT Pairs
SYMMETRY Places
PROPERTY BanLastsItsDays
