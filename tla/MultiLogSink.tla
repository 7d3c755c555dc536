---------------------------- MODULE MultiLogSink ----------------------------
(***************************************************************************)
(* InMemoryMultiLogSink of cpp/include/lobsim/multi_log_sink.hpp, and the  *)
(* BookScopedSinks through which the engines of the books report to it.    *)
(* One log holds the records of all books; an index per book says at which *)
(* positions its records are (from 0 in the code, from 1 here).  Ledgers   *)
(* are kept per book.                                                      *)
(*                                                                         *)
(* The three logs differ only in their records; the diagnostics are like   *)
(* the events without a ledger.                                            *)
(***************************************************************************)
EXTENDS PaperLedger, SequencesExt

CONSTANTS
  Books,        \* the book keys
  NoKey,        \* the empty book key
  FillRecords,  \* what engines report; the key is NoKey or that of a book
  EventRecords,
  DiagnosticRecords,
  MaxLog,       \* bound on the logs, together
  MaxRejected,  \* bound on the rejected events of a book
  MaxLots       \* bound on the filled lots of an entry

ASSUME RecordsAssumption ==
  /\ NoKey \notin Books
  /\ \A r \in FillRecords \cup EventRecords \cup DiagnosticRecords :
       "key" \in DOMAIN r /\ r.key \in Books \cup {NoKey}
  /\ \A r \in FillRecords \cup EventRecords :
       "qty" \in DOMAIN r /\ r.qty \in Int

ASSUME BoundsAssumption == {MaxLog, MaxRejected, MaxLots} \subseteq Nat

VARIABLES
  fills_, fill_index_,
  events_, event_index_,
  diagnostics_, diag_index_,
  paper_ledger_,               \* book key -> ledger
  rejected_strategy_events_    \* book key -> events

fillVars   == <<fills_, fill_index_>>
eventVars  == <<events_, event_index_>>
diagVars   == <<diagnostics_, diag_index_>>
ledgerVars == <<paper_ledger_, rejected_strategy_events_>>
vars       == <<fillVars, eventVars, diagVars, ledgerVars>>
-----------------------------------------------------------------------------
Empty == [x \in {} |-> x]

\* map[key], which creates an entry if there is none
At(f, key, default) == IF key \in DOMAIN f THEN f[key] ELSE default

With(f, key, v) ==
  [k \in DOMAIN f \cup {key} |-> IF k = key THEN v ELSE f[k]]

\* Mutated form of Indexed: the book of the record is new in the index.
IndexedAlone(index, key, position) == With(index, key, <<position>>)

Indexed(index, key, position) ==
  With(index, key, Append(At(index, key, <<>>), position))

\* BookScopedSink: a record that names no book is tagged with the book's key.
Tagged(b, r) == IF r.key = NoKey THEN [r EXCEPT !.key = b] ELSE r

\* A fill for a book whose ledger does not exist yet creates none.
LedgerFilled(r) ==
  IF r.key \in DOMAIN paper_ledger_
    THEN [paper_ledger_ EXCEPT ![r.key] = WithFill(paper_ledger_[r.key], r)]
    ELSE paper_ledger_

LogsBounded ==
  Len(fills_) + Len(events_) + Len(diagnostics_) < MaxLog

LotsBounded(ledger) == \A id \in DOMAIN ledger : ledger[id].filled <= MaxLots

on_fill(r) ==
  /\ LogsBounded
  /\ \A b \in DOMAIN paper_ledger_ : LotsBounded(LedgerFilled(r)[b])
  /\ fills_' = Append(fills_, r)
  /\ fill_index_' = Indexed(fill_index_, r.key, Len(fills_) + 1)
  /\ paper_ledger_' = LedgerFilled(r)
  /\ UNCHANGED <<eventVars, diagVars, rejected_strategy_events_>>

\* An event of a strategy creates the ledger of its book.
LedgerUpdated(e) ==
  LET ledger   == At(paper_ledger_, e.key, Empty)
      rejected == At(rejected_strategy_events_, e.key, <<>>)
  IN  IF e.source # "STRATEGY"
        THEN UNCHANGED ledgerVars
        ELSE /\ paper_ledger_' =
                  With(paper_ledger_, e.key, update_strategy_order(ledger, e))
             /\ rejected_strategy_events_' =
                  With(rejected_strategy_events_, e.key,
                       IF RejectedByLedger(ledger, e)
                         THEN Append(rejected, e) ELSE rejected)
             /\ Len(rejected_strategy_events_'[e.key]) <= MaxRejected

on_event_apply(e) ==
  /\ LogsBounded
  /\ events_' = Append(events_, e)
  /\ event_index_' = Indexed(event_index_, e.key, Len(events_) + 1)
  /\ LedgerUpdated(e)
  /\ UNCHANGED <<fillVars, diagVars>>

on_diagnostic(d) ==
  /\ LogsBounded
  /\ diagnostics_' = Append(diagnostics_, d)
  /\ diag_index_' = Indexed(diag_index_, d.key, Len(diagnostics_) + 1)
  /\ UNCHANGED <<fillVars, eventVars, ledgerVars>>

reset ==
  /\ fills_' = <<>> /\ fill_index_' = Empty
  /\ events_' = <<>> /\ event_index_' = Empty
  /\ diagnostics_' = <<>> /\ diag_index_' = Empty
  /\ paper_ledger_' = Empty
  /\ rejected_strategy_events_' = Empty

drain_fills ==
  /\ fills_' = <<>> /\ fill_index_' = Empty
  /\ UNCHANGED <<eventVars, diagVars, ledgerVars>>

drain_events ==
  /\ events_' = <<>> /\ event_index_' = Empty
  /\ UNCHANGED <<fillVars, diagVars, ledgerVars>>

drain_diagnostics ==
  /\ diagnostics_' = <<>> /\ diag_index_' = Empty
  /\ UNCHANGED <<fillVars, eventVars, ledgerVars>>

\* An engine that discards its state resets its sink; the scoped one does
\* not pass that on.
ScopedReset(b) == UNCHANGED vars

\* What the engine of a book reports.
Scoped(b) ==
  \/ \E r \in FillRecords : on_fill(Tagged(b, r))
  \/ \E e \in EventRecords : on_event_apply(Tagged(b, e))
  \/ \E d \in DiagnosticRecords : on_diagnostic(Tagged(b, d))
  \/ ScopedReset(b)
-----------------------------------------------------------------------------
Init ==
  /\ fills_ = <<>> /\ fill_index_ = Empty
  /\ events_ = <<>> /\ event_index_ = Empty
  /\ diagnostics_ = <<>> /\ diag_index_ = Empty
  /\ paper_ledger_ = Empty
  /\ rejected_strategy_events_ = Empty

Next ==
  \/ \E b \in Books : Scoped(b)
  \/ drain_fills
  \/ drain_events
  \/ drain_diagnostics
  \/ reset

Spec == Init /\ [][Next]_vars
-----------------------------------------------------------------------------
(***************************************************************************)
(* The queries.                                                            *)
(***************************************************************************)

RecordsAt(log, positions) == [i \in DOMAIN positions |-> log[positions[i]]]

fills_for(b)       == RecordsAt(fills_, At(fill_index_, b, <<>>))
events_for(b)      == RecordsAt(events_, At(event_index_, b, <<>>))
diagnostics_for(b) == RecordsAt(diagnostics_, At(diag_index_, b, <<>>))

paper_ledger_for(b)             == At(paper_ledger_, b, Empty)
rejected_strategy_events_for(b) == At(rejected_strategy_events_, b, <<>>)

ReportedFor(b, records) ==
  {r \in UNION {{Tagged(c, q) : q \in records} : c \in Books} : r.key = b}

\* The sink of a single book, as its queries show it.
Sink(b) == INSTANCE InMemoryLogSink WITH
  FillRecords              <- ReportedFor(b, FillRecords),
  EventRecords             <- ReportedFor(b, EventRecords),
  DiagnosticRecords        <- ReportedFor(b, DiagnosticRecords),
  fills                    <- fills_for(b),
  events                   <- events_for(b),
  diagnostics              <- diagnostics_for(b),
  paper_ledger             <- paper_ledger_for(b),
  rejected_strategy_events <- rejected_strategy_events_for(b)

(***************************************************************************)
(* What the queries return for a book is what an InMemoryLogSink would     *)
(* return that had been told of the records with this book's key only, was *)
(* drained and reset when the shared sink was: the shared log, its indexes *)
(* and the ledgers never mix two books, and no index outlives its log.     *)
(***************************************************************************)
SinksOfBooks ==
  /\ \A b \in Books : Sink(b)!Init
  /\ [][\A b \in Books : Sink(b)!Next \/ UNCHANGED Sink(b)!vars]_vars

(***************************************************************************)
(* The ledger of no book ever contradicts itself: see Consistent.          *)
(***************************************************************************)
LedgersConsistent ==
  \A b \in DOMAIN paper_ledger_ : EntriesConsistent(paper_ledger_[b])
=============================================================================
