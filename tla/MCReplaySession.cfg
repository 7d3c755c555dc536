SPECIFICATION Spec
CONSTANTS
  MaxInt64 = 16
  StrictEps <- Eps
  PerSecond = 1
  PerMicro = 1000
  TimeNames = {"time_received", "time_feed"}
  Instruments <- SomeInstruments
  Files <- SomeFiles
  Spans <- SomeSpans
  SteppedEvents <- SomeEvents
  MaxOpened = 2
  MaxUpdates = 2
INVARIANTS
  InOrder
  RowsReachEngine
  SummaryExact
CHECK_DEADLOCK FALSE
