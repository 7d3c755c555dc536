SPECIFICATION Spec
CONSTANTS
  b1 = b1
  b2 = b2
  Books = {b1, b2}
  Feeds <- MixedFeeds
  Submissions <- AllSubmissions
  DirectEvents <- LaterEvents
  Deadlines = {2, 3}
  Deltas = {0, 2}
  require_monotonic_ts_received = TRUE
  fail_fast = FALSE
  MaxTimestamp = 99
  NoTime = NoTime
  Malformed = Malformed
  Usage = {}
  MaxStrategyEvents = 2
SYMMETRY Symmetry
INVARIANTS
  MergeInvariant
PROPERTIES
  NoLookAhead
  StepUntilComplete
  NothingDropped
