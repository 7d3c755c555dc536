SPECIFICATION Spec
CONSTANTS
  o1 = o1
  o2 = o2
  o3 = o3
  o4 = o4
  o5 = o5
  UnknownOrderId = UnknownOrderId
  Ids = {o1, o2, o3, o4, o5}
  Prices = {1}
  Events <- OneQueue
  L2Snapshots <- OneRow
  L3Snapshots <- TwoRows
  HistoricalCapacity = 3
  PaperCapacity = 2
  MaxArrivals = 5
SYMMETRY QueueSymmetry
PROPERTY LotsLeaveWithOrder
INVARIANTS
  QueuedLots
  MarketMirrored
  ServedInTurn
  PriorityInvariant
