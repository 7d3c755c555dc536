SPECIFICATION Spec
CONSTANTS
  o1 = o1
  o2 = o2
  o3 = o3
  o4 = o4
  o5 = o5
  UnknownOrderId = UnknownOrderId
  Ids = {o1, o2, o3, o4}
  Prices = {1, 2}
  Events <- AllEvents
  L2Snapshots = {}
  L3Snapshots = {}
  HistoricalCapacity = 3
  PaperCapacity = 2
  MaxArrivals = 4
INVARIANT NoTradeThrough
