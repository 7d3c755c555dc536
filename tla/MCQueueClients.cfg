SPECIFICATION FairSpec
CONSTANTS
  Producers = {p1, p2, p3}
  Consumers = {c1, c2}
  Closers = {p1, c1, x}
  Capacities = {0, 1, 2}
INVARIANTS
  TypeOK
  NoLostWakeup
PROPERTIES
  ClosedReleases
  NobodyForgotten
