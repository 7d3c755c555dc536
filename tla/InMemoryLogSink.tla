--------------------------- MODULE InMemoryLogSink ---------------------------
(***************************************************************************)
(* InMemoryLogSink of cpp/src/in_memory_sink.cpp: the logs of what an      *)
(* engine reports, which a strategy may drain, and the ledger derived from *)
(* them, which it may not.                                                 *)
(***************************************************************************)
EXTENDS PaperLedger, Sequences

CONSTANTS
  FillRecords,       \* the records an engine may report
  EventRecords,
  DiagnosticRecords,
  MaxLog,            \* bound on the logs, together
  MaxRejected,       \* bound on the rejected events
  MaxLots            \* bound on the filled lots of an entry

VARIABLES
  fills,
  events,
  diagnostics,
  paper_ledger,
  rejected_strategy_events

vars == <<fills, events, diagnostics, paper_ledger, rejected_strategy_events>>

LogsBounded ==
  Len(fills) + Len(events) + Len(diagnostics) < MaxLog

LotsBounded(ledger) == \A id \in DOMAIN ledger : ledger[id].filled <= MaxLots

on_fill(r) ==
  /\ LogsBounded
  /\ LotsBounded(WithFill(paper_ledger, r))
  /\ fills' = Append(fills, r)
  /\ paper_ledger' = WithFill(paper_ledger, r)
  /\ UNCHANGED <<events, diagnostics, rejected_strategy_events>>

on_event_apply(e) ==
  /\ LogsBounded
  /\ events' = Append(events, e)
  /\ paper_ledger' = update_strategy_order(paper_ledger, e)
  /\ rejected_strategy_events' =
       IF RejectedByLedger(paper_ledger, e)
         THEN Append(rejected_strategy_events, e)
         ELSE rejected_strategy_events
  /\ Len(rejected_strategy_events') <= MaxRejected
  /\ UNCHANGED <<fills, diagnostics>>

on_diagnostic(d) ==
  /\ LogsBounded
  /\ diagnostics' = Append(diagnostics, d)
  /\ UNCHANGED <<fills, events, paper_ledger, rejected_strategy_events>>

Empty == [x \in {} |-> x]

reset ==
  /\ fills' = <<>>
  /\ events' = <<>>
  /\ diagnostics' = <<>>
  /\ paper_ledger' = Empty
  /\ rejected_strategy_events' = <<>>

\* The caller takes a log; the ledger stays.
drain_fills ==
  /\ fills' = <<>>
  /\ UNCHANGED <<events, diagnostics, paper_ledger, rejected_strategy_events>>

drain_events ==
  /\ events' = <<>>
  /\ UNCHANGED <<fills, diagnostics, paper_ledger, rejected_strategy_events>>

\* Only the sink of several books has it.
drain_diagnostics ==
  /\ diagnostics' = <<>>
  /\ UNCHANGED <<fills, events, paper_ledger, rejected_strategy_events>>

Init ==
  /\ fills = <<>>
  /\ events = <<>>
  /\ diagnostics = <<>>
  /\ paper_ledger = Empty
  /\ rejected_strategy_events = <<>>

Next ==
  \/ \E r \in FillRecords : on_fill(r)
  \/ \E e \in EventRecords : on_event_apply(e)
  \/ \E d \in DiagnosticRecords : on_diagnostic(d)
  \/ drain_fills
  \/ drain_events
  \/ drain_diagnostics
  \/ reset

Spec == Init /\ [][Next]_vars
=============================================================================
