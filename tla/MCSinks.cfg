SPECIFICATION WiredSpec
CONSTANTS
  b1 = b1
  b2 = b2
  a1 = a1
  a2 = a2
  o1 = o1
  Books = {b1, b2}
  NoKey = NoKey
  UnknownOrderId = UnknownOrderId
  FillRecords <- SomeFills
  EventRecords <- SomeEvents
  DiagnosticRecords <- SomeDiagnostics
  Addresses = {a1, a2}
  ThisSink = ThisSink
  OtherSink = OtherSink
  OwnSink = OwnSink
  NoSink = NoSink
  Pointers = {OwnSink}
  MaxLog = 2
  MaxRejected = 1
  MaxLots = 1
SYMMETRY Symmetry
INVARIANTS
  LedgersConsistent
  PointersAlive
PROPERTY SinksOfBooks
