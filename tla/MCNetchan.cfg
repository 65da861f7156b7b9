CONSTANTS
  Server = Server
  Client = Client
  Data = {d1, d2}
  BuffSize = 2
  MaxSequence <- MCSequence
  MaxWritten <- MCWritten
SPECIFICATION Spec
CHECK_DEADLOCK FALSE
INVARIANTS
  NothingLost
PROPERTIES
  RetransmitsOnlyTheLost
  ImplementsStream
