SPECIFICATION LedgeredFairSpec
CONSTANTS
  o1 = o1
  o2 = o2
  o3 = o3
  o4 = o4
  o5 = o5
  UnknownOrderId = UnknownOrderId
  Ids = {o1, o2, o3, o4}
  Prices = {1, 2, 3}
  Events <- LedgerEvents
  L2Snapshots <- Rows2
  L3Snapshots <- Rows3
  HistoricalCapacity = 2
  PaperCapacity = 2
  MaxArrivals = 3
  MaxFilled = 1
INVARIANTS
  TypeOK
  BookIndexed
  ArrivalOrder
  TopOfBook
  PaperIndexed
  PriceTimePriority
  SweepComplete
  LotsConserved
  LedgerAgrees
PROPERTIES
  ClosedStays
  EveryCallReturns
  ImplementsOrderBook
