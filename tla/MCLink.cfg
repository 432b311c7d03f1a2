\* One end sends twice, with two threads; one send may fail.
SPECIFICATION Spec
CONSTANTS
  a = a
  b = b
  Ends = {a, b}
  Messages = {"hello", "world"}
  Senders = {"s1", "s2"}
  Main = Main
  Reader = Reader
  NoOne = NoOne
  NoMessage = NoMessage
  Patience = 1
  MaxQueued = 1
  MaxFailures = 1
  Script <- TwoMessages
  Mode <- Modes
  Available <- Ciphers
CHECK_DEADLOCK FALSE
INVARIANTS TypeOK GarbledHasCause TornByKeepalives HealthyStays
PROPERTIES ImplementsFifo Flushed
