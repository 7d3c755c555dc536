SPECIFICATION FairSpec
CONSTANTS
  Programs = {"memory", "udp", "udp with duration"}
  InboundCapacity = 1
  DiagnosticsCapacity = 1
  MaxDatagram = 2
  MaxUpdateDiagnostics = 2
  MaxLines = 3
INVARIANTS
  LinesProcessed
  DiagnosticsCounted
PROPERTIES
  EveryLineProcessed
  ProgramEnds
