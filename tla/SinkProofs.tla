----------------------------- MODULE SinkProofs -----------------------------
(***************************************************************************)
(* The sinks of several books: no ledger contradicts itself, no engine     *)
(* calls a sink that is gone, and no book sees what another one reported.  *)
(***************************************************************************)
EXTENDS SinkWiring, SequenceTheorems, TLAPS

(***************************************************************************)
(* The ledger: every event and fill leaves entries consistent.             *)
(***************************************************************************)
Sound(entry) == entry \in Entry /\ Consistent(entry)

SoundLedger(ledger) == \A id \in DOMAIN ledger : Sound(ledger[id])

LEMMA FilledSound ==
  ASSUME NEW entry, Sound(entry), entry.status # "CANCELLED",
         NEW qty \in Int, qty > 0
  PROVE  Sound(Filled(entry, qty))
<1> DEFINE left == IF qty >= entry.remaining THEN 0 ELSE entry.remaining - qty
<1>1. /\ entry \in Entry
      /\ entry.initial \in Nat /\ entry.remaining \in Nat /\ entry.filled \in Nat
      /\ entry.status \in LedgerStatus
  BY DEF Sound, Entry
<1>2. left \in Nat
  BY <1>1
<1>3. left > 0 => entry.filled + qty + left = entry.filled + entry.remaining
  BY <1>1
<1>4. Filled(entry, qty) =
        [entry EXCEPT !.filled = entry.filled + qty, !.remaining = left,
                      !.status = IF left = 0 THEN "FILLED" ELSE "PARTIALLY_FILLED"]
  BY DEF Filled
<1> HIDE DEF left
<1>5. Filled(entry, qty) =
        [initial |-> entry.initial, remaining |-> left, filled |-> entry.filled + qty,
         status |-> IF left = 0 THEN "FILLED" ELSE "PARTIALLY_FILLED"]
  BY <1>1, <1>4 DEF Entry
<1>6. entry.remaining > 0 => entry.filled + entry.remaining <= entry.initial
  BY <1>1 DEF Sound, Consistent, Closed, LedgerStatus
<1>7. left > 0 => entry.remaining > 0
  BY <1>1, <1>2 DEF left
<1> QED
  BY <1>1, <1>2, <1>3, <1>5, <1>6, <1>7
     DEF Sound, Entry, Consistent, Closed, LedgerStatus

LEMMA ChangedSound ==
  ASSUME NEW entry, Sound(entry), NEW e, e.qty \in Int
  PROVE  Sound(Changed(entry, e))
<1>1. /\ entry \in Entry
      /\ entry.initial \in Nat /\ entry.remaining \in Nat /\ entry.filled \in Nat
      /\ entry.status \in LedgerStatus
      /\ Consistent(entry)
  BY DEF Sound, Entry
<1>2. ASSUME NEW left \in Nat, NEW status, ~Closed(entry), left <= entry.remaining,
             status = IF left = 0 THEN "CANCELLED" ELSE entry.status
      PROVE  Sound([entry EXCEPT !.remaining = left, !.status = status])
  <2> DEFINE new == [entry EXCEPT !.remaining = left, !.status = status]
  <2>1. /\ new \in Entry
        /\ new.initial = entry.initial /\ new.filled = entry.filled
        /\ new.remaining = left /\ new.status = status
    BY <1>1, <1>2 DEF Entry, LedgerStatus
  <2>2. Sound(new)
    <3> HIDE DEF new
    <3> QED BY <1>1, <1>2, <2>1 DEF Sound, Entry, Consistent, Closed, LedgerStatus
  <2> QED BY <2>2
<1>3. ASSUME e.qty > 0, ~Closed(entry) PROVE Sound(Subtracted(entry, e.qty))
  <2> DEFINE left == IF e.qty >= entry.remaining THEN 0 ELSE entry.remaining - e.qty
  <2>1. left \in Nat /\ left <= entry.remaining
    BY <1>1, <1>3
  <2>2. Subtracted(entry, e.qty) =
          [entry EXCEPT !.remaining = left,
                        !.status = IF left = 0 THEN "CANCELLED" ELSE entry.status]
    BY DEF Subtracted
  <2> DEFINE status == IF left = 0 THEN "CANCELLED" ELSE entry.status
  <2>3. Sound([entry EXCEPT !.remaining = left, !.status = status])
    <3> HIDE DEF left
    <3> QED BY <1>2, <1>3, <2>1
  <2> QED BY <2>2, <2>3
<1>4. ASSUME ~Closed(entry) PROVE Sound(SetTo(entry, e.qty))
  <2> DEFINE left    == IF e.qty < 0 THEN 0 ELSE e.qty
             total   == entry.filled + left
             initial == IF total > entry.initial THEN total ELSE entry.initial
             status  == IF left = 0 THEN "CANCELLED"
                        ELSE IF entry.filled > 0 THEN "PARTIALLY_FILLED" ELSE "OPEN"
  <2>1. left \in Nat /\ initial \in Nat /\ entry.filled + left <= initial
    BY <1>1
  <2>2. SetTo(entry, e.qty) =
          [entry EXCEPT !.remaining = left, !.initial = initial, !.status = status]
    BY DEF SetTo
  <2>3. status \in LedgerStatus /\ (status = "CANCELLED" <=> left = 0)
          /\ (status = "PARTIALLY_FILLED" <=> left # 0 /\ entry.filled > 0)
          /\ (status = "OPEN" <=> left # 0 /\ ~(entry.filled > 0))
    BY DEF LedgerStatus
  <2> HIDE DEF left, initial, status
  <2>4. SetTo(entry, e.qty) = [initial |-> initial, remaining |-> left,
                               filled |-> entry.filled, status |-> status]
    BY <1>1, <2>2 DEF Entry
  <2> QED BY <1>1, <2>1, <2>3, <2>4 DEF Sound, Entry, Consistent, Closed, LedgerStatus
<1>5. Sound(Deleted(entry))
  <2>1. /\ Deleted(entry) \in Entry
        /\ Deleted(entry).remaining = 0 /\ Deleted(entry).status = "CANCELLED"
    BY <1>1 DEF Entry, LedgerStatus, Deleted
  <2> QED BY <1>1, <2>1 DEF Sound, Entry, Consistent, Closed, LedgerStatus
<1> QED BY <1>3, <1>4, <1>5 DEF Changed

LEMMA UpdatedSound ==
  ASSUME NEW ledger, SoundLedger(ledger), NEW e, e.qty \in Int
  PROVE  SoundLedger(update_strategy_order(ledger, e))
<1>1. CASE e.source # "STRATEGY" \/ RejectedByLedger(ledger, e)
  BY <1>1 DEF update_strategy_order
<1>2. CASE e.source = "STRATEGY" /\ ~RejectedByLedger(ledger, e) /\ e.type = "ADD"
  <2>1. e.qty > 0
    BY <1>2 DEF RejectedByLedger
  <2>2. Sound(NewEntry(e.qty))
    BY <2>1 DEF NewEntry, Sound, Entry, Consistent, Closed, LedgerStatus
  <2>3. update_strategy_order(ledger, e) = WithEntry(ledger, e.id, NewEntry(e.qty))
    BY <1>2 DEF update_strategy_order
  <2> QED BY <2>2, <2>3 DEF SoundLedger, WithEntry
<1>3. CASE e.source = "STRATEGY" /\ ~RejectedByLedger(ledger, e) /\ e.type # "ADD"
  <2>1. CASE e.id \in DOMAIN ledger
    <3>1. update_strategy_order(ledger, e) =
            [ledger EXCEPT ![e.id] = Changed(ledger[e.id], e)]
      BY <1>3, <2>1 DEF update_strategy_order
    <3>2. Sound(Changed(ledger[e.id], e))
      BY <2>1, ChangedSound DEF SoundLedger
    <3> QED BY <3>1, <3>2 DEF SoundLedger
  <2>2. CASE e.id \notin DOMAIN ledger
    BY <1>3, <2>2 DEF update_strategy_order
  <2> QED BY <2>1, <2>2
<1> QED BY <1>1, <1>2, <1>3

LEMMA FillSound ==
  ASSUME NEW ledger, SoundLedger(ledger), NEW r, r.qty \in Int
  PROVE  SoundLedger(WithFill(ledger, r))
<1>1. ASSUME NEW l, SoundLedger(l), NEW id, NEW source
      PROVE  SoundLedger(apply_strategy_fill(l, id, source, r.qty))
  <2>1. CASE TakesFill(l, id, source, r.qty)
    <3>1. Sound(Filled(l[id], r.qty))
      BY <1>1, <2>1, FilledSound DEF TakesFill, SoundLedger
    <3>2. apply_strategy_fill(l, id, source, r.qty) = [l EXCEPT ![id] = Filled(l[id], r.qty)]
      BY <2>1 DEF apply_strategy_fill
    <3> QED BY <1>1, <3>1, <3>2 DEF SoundLedger
  <2> QED BY <1>1, <2>1 DEF apply_strategy_fill
<1> QED BY <1>1 DEF WithFill

(***************************************************************************)
(* All ledgers are sound.                                                  *)
(***************************************************************************)
LedgersSound == \A b \in DOMAIN paper_ledger_ : SoundLedger(paper_ledger_[b])

LEMMA TaggedFacts ==
  ASSUME NEW b \in Books,
         NEW r \in FillRecords \cup EventRecords \cup DiagnosticRecords
  PROVE  /\ Tagged(b, r).key \in Books
         /\ r \in FillRecords \cup EventRecords => Tagged(b, r).qty \in Int
BY RecordsAssumption DEF Tagged

LEMMA FillKeepsSound ==
  ASSUME LedgersSound, NEW r, r.qty \in Int, on_fill(r)
  PROVE  LedgersSound'
<1>1. paper_ledger_' = LedgerFilled(r)
  BY DEF on_fill
<1>2. CASE r.key \in DOMAIN paper_ledger_
  <2>1. SoundLedger(WithFill(paper_ledger_[r.key], r))
    BY <1>2, FillSound DEF LedgersSound
  <2> QED BY <1>1, <1>2, <2>1 DEF LedgersSound, LedgerFilled
<1>3. CASE r.key \notin DOMAIN paper_ledger_
  BY <1>1, <1>3 DEF LedgersSound, LedgerFilled
<1> QED BY <1>2, <1>3

LEMMA EventKeepsSound ==
  ASSUME LedgersSound, NEW e, e.qty \in Int, on_event_apply(e)
  PROVE  LedgersSound'
<1> DEFINE ledger == At(paper_ledger_, e.key, Empty)
<1>1. SoundLedger(ledger)
  BY DEF LedgersSound, At, Empty, SoundLedger
<1>2. SoundLedger(update_strategy_order(ledger, e))
  BY <1>1, UpdatedSound
<1>3. LedgerUpdated(e)
  BY DEF on_event_apply
<1>4. \/ paper_ledger_' = paper_ledger_
      \/ paper_ledger_' =
           With(paper_ledger_, e.key, update_strategy_order(ledger, e))
  BY <1>3 DEF LedgerUpdated, ledgerVars
<1> HIDE DEF ledger
<1> QED BY <1>2, <1>4 DEF LedgersSound, With

LEMMA ScopedKeepsSound ==
  ASSUME LedgersSound, NEW b \in Books, Scoped(b)
  PROVE  LedgersSound'
<1>1. CASE \E r \in FillRecords : on_fill(Tagged(b, r))
  BY <1>1, FillKeepsSound, TaggedFacts
<1>2. CASE \E e \in EventRecords : on_event_apply(Tagged(b, e))
  BY <1>2, EventKeepsSound, TaggedFacts
<1>3. CASE \E d \in DiagnosticRecords : on_diagnostic(Tagged(b, d))
  BY <1>3 DEF on_diagnostic, ledgerVars, LedgersSound
<1>4. CASE ScopedReset(b)
  BY <1>4 DEF ScopedReset, vars, ledgerVars, LedgersSound
<1> QED BY <1>1, <1>2, <1>3, <1>4 DEF Scoped

LEMMA SinkStepKeepsSound ==
  ASSUME LedgersSound, [Next]_vars
  PROVE  LedgersSound'
<1>1. CASE \E b \in Books : Scoped(b)
  BY <1>1, ScopedKeepsSound
<1>2. CASE drain_fills \/ drain_events \/ drain_diagnostics
  BY <1>2 DEF drain_fills, drain_events, drain_diagnostics, ledgerVars, LedgersSound
<1>3. CASE reset
  BY <1>3 DEF reset, LedgersSound, Empty
<1>4. CASE UNCHANGED vars
  BY <1>4 DEF vars, ledgerVars, LedgersSound
<1> QED BY <1>1, <1>2, <1>3, <1>4 DEF Next

(***************************************************************************)
(* The pointers.  The simulator only has BookScopedSinks while it has a    *)
(* sink for all books, each has an address of its own, and an engine with  *)
(* the address of one has that of the book's own.                          *)
(***************************************************************************)
WiringInvariant ==
  /\ books_ \subseteq Books
  /\ DOMAIN book_sinks_ \subseteq books_
  /\ \A b \in DOMAIN book_sinks_ :
       /\ book_sinks_[b].address \in Addresses
       /\ book_sinks_[b] =
            [address |-> book_sinks_[b].address, parent |-> multi_sink_]
  /\ \A b, c \in DOMAIN book_sinks_ :
       book_sinks_[b].address = book_sinks_[c].address => b = c
  /\ \A b \in books_ : engine_sink[b] \in Addresses =>
       b \in DOMAIN book_sinks_ /\ engine_sink[b] = book_sinks_[b].address
  /\ DOMAIN engine_sink = books_
  /\ multi_sink_ = NoSink => DOMAIN book_sinks_ = {}

LEMMA WiringInitially == WiredInit => WiringInvariant
BY DEF WiredInit, WiringInvariant, Empty

LEMMA AddBookWired ==
  ASSUME WiringInvariant, NEW b \in Books, NEW pointer \in Pointers, AddBook(b, pointer)
  PROVE  WiringInvariant'
<1>1. /\ b \notin books_ /\ books_' = books_ \cup {b}
      /\ multi_sink_' = multi_sink_
      /\ Attach(b, pointer)
  BY DEF AddBook
<1>2. CASE multi_sink_ = NoSink
  <2>1. engine_sink' = With(engine_sink, b, pointer) /\ book_sinks_' = book_sinks_
    BY <1>1, <1>2 DEF Attach
  <2>2. pointer \notin Addresses
    BY SinksAssumption
  <2> QED BY <1>1, <1>2, <2>1, <2>2 DEF WiringInvariant, With
<1>3. CASE multi_sink_ # NoSink
  <2>1. PICK a \in Addresses \ AddressesIn(book_sinks_) :
          /\ engine_sink' = With(engine_sink, b, a)
          /\ book_sinks_' =
               With(book_sinks_, b, [address |-> a, parent |-> multi_sink_])
    BY <1>1, <1>3 DEF Attach
  <2>2. \A c \in DOMAIN book_sinks_ : book_sinks_[c].address # a
    BY <2>1 DEF AddressesIn
  <2> QED BY <1>1, <1>3, <2>1, <2>2 DEF WiringInvariant, With
<1> QED BY <1>2, <1>3

LEMMA EngineSetLogSinkWired ==
  ASSUME WiringInvariant, NEW b, NEW pointer \in Pointers, EngineSetLogSink(b, pointer)
  PROVE  WiringInvariant'
BY SinksAssumption DEF EngineSetLogSink, WiringInvariant

LEMMA SetLogSinkWired ==
  ASSUME WiringInvariant, NEW b, NEW pointer \in Pointers, set_log_sink(b, pointer)
  PROVE  WiringInvariant'
<1>1. CASE b \notin books_ /\ emit_diagnostic(b)
  BY <1>1 DEF emit_diagnostic, wiring, WiringInvariant
<1>2. CASE /\ b \in books_
           /\ engine_sink' = [engine_sink EXCEPT ![b] = pointer]
           /\ book_sinks_' = Without(book_sinks_, b)
           /\ UNCHANGED <<vars, books_, multi_sink_>>
  <2>1. pointer \notin Addresses
    BY SinksAssumption
  <2> QED BY <1>2, <2>1 DEF WiringInvariant, Without
<1> QED BY <1>1, <1>2 DEF set_log_sink

LEMMA SetMultiLogSinkWired ==
  ASSUME WiringInvariant, NEW m \in {ThisSink, OtherSink, NoSink}, set_multi_log_sink(m)
  PROVE  WiringInvariant'
<1>1. multi_sink_' = m /\ books_' = books_
  BY DEF set_multi_log_sink
<1>2. CASE m = NoSink
  <2>1. engine_sink' = Detached /\ book_sinks_' = Empty
    BY <1>2 DEF set_multi_log_sink
  <2>2. \A b \in books_ : engine_sink'[b] \notin Addresses
    BY <2>1, SinksAssumption DEF Detached, WiringInvariant
  <2> QED BY <1>1, <1>2, <2>1, <2>2 DEF WiringInvariant, Empty, Detached
<1>3. CASE m # NoSink
  <2>1. PICK address \in [books_ -> Addresses] :
          /\ IsInjective(address)
          /\ engine_sink' = address
          /\ book_sinks_' = [b \in books_ |-> [address |-> address[b], parent |-> m]]
    BY <1>3 DEF set_multi_log_sink
  <2> QED BY <1>1, <1>3, <2>1 DEF WiringInvariant, IsInjective
<1> QED BY <1>2, <1>3

LEMMA WiringKept ==
  ASSUME WiringInvariant, [WiredNext]_wiredVars
  PROVE  WiringInvariant'
<1>1. CASE UNCHANGED wiring
  BY <1>1 DEF wiring, WiringInvariant
<1>2. CASE \E b \in Books, pointer \in Pointers : AddBook(b, pointer)
  BY <1>2, AddBookWired
<1>3. CASE \E b \in Books, pointer \in Pointers : EngineSetLogSink(b, pointer)
  BY <1>3, EngineSetLogSinkWired
<1>4. CASE \E b \in Books, pointer \in Pointers : set_log_sink(b, pointer)
  BY <1>4, SetLogSinkWired
<1>5. CASE \E m \in {ThisSink, OtherSink, NoSink} : set_multi_log_sink(m)
  BY <1>5, SetMultiLogSinkWired
<1>6. CASE \/ \E b \in Books : emit_diagnostic(b)
           \/ \E b \in Books : Report(b)
           \/ Drain
  BY <1>1, <1>6 DEF emit_diagnostic, Report, Drain
<1> QED BY <1>1, <1>2, <1>3, <1>4, <1>5, <1>6 DEF WiredNext, wiredVars

LEMMA WiringIsAlive == WiringInvariant => PointersAlive
BY DEF WiringInvariant, PointersAlive, Called

\* Whatever becomes of the pointers, the shared sink makes one of its steps.
LEMMA SinkSteps ==
  ASSUME WiringInvariant, [WiredNext]_wiredVars
  PROVE  [Next]_vars
<1>1. ASSUME NEW b \in Books, emit_diagnostic(b) PROVE Next
  BY <1>1 DEF emit_diagnostic, Next, Scoped
<1>2. ASSUME NEW b \in Books, Report(b) PROVE Next
  BY <1>2 DEF Report, Called, WiringInvariant, Next
<1>3. CASE \E b \in Books, pointer \in Pointers : AddBook(b, pointer)
  BY <1>3 DEF AddBook
<1>4. CASE \E b \in Books, pointer \in Pointers : EngineSetLogSink(b, pointer)
  BY <1>4 DEF EngineSetLogSink
<1>5. CASE \E b \in Books, pointer \in Pointers : set_log_sink(b, pointer)
  BY <1>1, <1>5 DEF set_log_sink
<1>6. CASE \E m \in {ThisSink, OtherSink, NoSink} : set_multi_log_sink(m)
  BY <1>6 DEF set_multi_log_sink
<1>7. CASE Drain
  BY <1>7 DEF Drain, Next
<1>8. CASE UNCHANGED wiredVars
  BY <1>8 DEF wiredVars
<1> QED BY <1>1, <1>2, <1>3, <1>4, <1>5, <1>6, <1>7, <1>8 DEF WiredNext

(***************************************************************************)
(* In every order of adding books, exchanging pointers, and setting and    *)
(* taking away sinks, an engine that calls a BookScopedSink calls the one  *)
(* of its own book, which exists and passes on to the sink of all books.   *)
(***************************************************************************)
THEOREM NoDanglingSink == WiredSpec => []PointersAlive
<1>1. WiringInvariant /\ [WiredNext]_wiredVars => WiringInvariant'
  BY WiringKept
<1> QED BY <1>1, WiringInitially, WiringIsAlive, PTL DEF WiredSpec

(***************************************************************************)
(* The ledger of no book ever contradicts itself, whatever events and      *)
(* fills are reported.                                                     *)
(***************************************************************************)
THEOREM LedgersAlwaysConsistent == WiredSpec => []LedgersConsistent
<1>1. WiredInit => LedgersSound
  BY DEF WiredInit, Init, LedgersSound, Empty
<1>2. WiringInvariant /\ [WiredNext]_wiredVars => WiringInvariant'
  BY WiringKept
<1>3. LedgersSound /\ WiringInvariant /\ [WiredNext]_wiredVars => LedgersSound'
  BY SinkSteps, SinkStepKeepsSound
<1>4. LedgersSound => LedgersConsistent
  BY DEF LedgersSound, LedgersConsistent, SoundLedger, Sound, EntriesConsistent
<1> QED BY <1>1, <1>2, <1>3, <1>4, WiringInitially, PTL DEF WiredSpec

(***************************************************************************)
(* The logs.  An index names positions of its log, each later than the one *)
(* before; RecordsAt reads the records of one book from the shared log.    *)
(***************************************************************************)
IndexSound(log, index) ==
  \A b \in DOMAIN index :
    /\ index[b] \in Seq(Nat)
    /\ \A i \in DOMAIN index[b] : i <= index[b][i] /\ index[b][i] <= Len(log)

LEMMA RecordsShape ==
  ASSUME NEW R, NEW log \in Seq(R), NEW index, IndexSound(log, index), NEW b
  PROVE  LET positions == At(index, b, <<>>)
         IN  /\ positions \in Seq(Nat)
             /\ \A i \in 1 .. Len(positions) : i <= positions[i] /\ positions[i] <= Len(log)
             /\ RecordsAt(log, positions) \in Seq(R)
             /\ Len(RecordsAt(log, positions)) = Len(positions)
             /\ Len(positions) <= Len(log)
<1> DEFINE positions == At(index, b, <<>>)
<1>1. /\ positions \in Seq(Nat)
      /\ \A i \in 1 .. Len(positions) : i <= positions[i] /\ positions[i] <= Len(log)
  BY DEF IndexSound, At
<1>2. Len(positions) <= Len(log)
  BY <1>1
<1>3. RecordsAt(log, positions) = [i \in 1 .. Len(positions) |-> log[positions[i]]]
  BY <1>1 DEF RecordsAt
<1>4. \A i \in 1 .. Len(positions) : log[positions[i]] \in R
  BY <1>1
<1>5. Len(positions) \in Nat
  BY <1>1
<1> HIDE DEF positions
<1>6. RecordsAt(log, positions) \in Seq(R) /\ Len(RecordsAt(log, positions)) = Len(positions)
  BY <1>3, <1>4, <1>5
<1> QED BY <1>1, <1>2, <1>6 DEF positions

LEMMA LogGrows ==
  ASSUME NEW R, NEW log \in Seq(R), NEW r \in R, NEW index, IndexSound(log, index),
         NEW key, NEW b
  PROVE  LET log2   == Append(log, r)
             index2 == Indexed(index, key, Len(log) + 1)
             before == RecordsAt(log, At(index, b, <<>>))
         IN  /\ log2 \in Seq(R)
             /\ IndexSound(log2, index2)
             /\ RecordsAt(log2, At(index2, b, <<>>)) =
                  IF key = b THEN Append(before, r) ELSE before
<1> DEFINE log2   == Append(log, r)
           index2 == Indexed(index, key, Len(log) + 1)
           old    == At(index, key, <<>>)
           new    == Append(old, Len(log) + 1)
<1>1. /\ log2 \in Seq(R) /\ Len(log2) = Len(log) + 1 /\ Len(log) \in Nat
      /\ log2[Len(log) + 1] = r
      /\ \A i \in 1 .. Len(log) : log2[i] = log[i]
  OBVIOUS
<1>2. /\ old \in Seq(Nat)
      /\ \A i \in 1 .. Len(old) : i <= old[i] /\ old[i] <= Len(log)
      /\ Len(old) <= Len(log) /\ Len(old) \in Nat
  BY RecordsShape
<1>3. /\ new \in Seq(Nat) /\ Len(new) = Len(old) + 1
      /\ DOMAIN new = 1 .. Len(old) + 1
      /\ new[Len(old) + 1] = Len(log) + 1
      /\ \A i \in 1 .. Len(old) : new[i] = old[i]
  BY <1>1, <1>2
<1>4. \A i \in DOMAIN new : i <= new[i] /\ new[i] <= Len(log) + 1
  BY <1>1, <1>2, <1>3
<1>5. /\ DOMAIN index2 = DOMAIN index \cup {key}
      /\ index2[key] = new
      /\ \A k \in DOMAIN index : k # key => index2[k] = index[k]
  BY DEF Indexed, With
<1> HIDE DEF new, old, log2, index2
<1>6. IndexSound(log2, index2)
  <2> SUFFICES ASSUME NEW k \in DOMAIN index2
               PROVE  /\ index2[k] \in Seq(Nat)
                      /\ \A i \in DOMAIN index2[k] :
                           i <= index2[k][i] /\ index2[k][i] <= Len(log2)
    BY DEF IndexSound
  <2>1. CASE k = key
    BY <1>1, <1>3, <1>4, <1>5, <2>1
  <2>2. CASE k # key
    <3>1. k \in DOMAIN index /\ index2[k] = index[k]
      BY <1>5, <2>2
    <3>2. /\ index[k] \in Seq(Nat)
          /\ \A i \in DOMAIN index[k] : i <= index[k][i] /\ index[k][i] <= Len(log)
      BY <3>1 DEF IndexSound
    <3> QED BY <1>1, <3>1, <3>2
  <2> QED BY <2>1, <2>2
<1>7. CASE key = b
  <2>1. At(index2, b, <<>>) = new /\ At(index, b, <<>>) = old
    BY <1>5, <1>7 DEF At, old
  <2>2. RecordsAt(log2, new) = [i \in 1 .. Len(old) + 1 |-> log2[new[i]]]
    BY <1>3 DEF RecordsAt
  <2>3. RecordsAt(log, old) \in Seq(R) /\ Len(RecordsAt(log, old)) = Len(old)
    BY <2>1, RecordsShape
  <2>4. \A i \in 1 .. Len(old) : RecordsAt(log, old)[i] = log[old[i]]
    BY <1>2 DEF RecordsAt
  <2>5. /\ Append(RecordsAt(log, old), r) \in Seq(R)
        /\ Len(Append(RecordsAt(log, old), r)) = Len(old) + 1
        /\ Append(RecordsAt(log, old), r)[Len(old) + 1] = r
        /\ \A i \in 1 .. Len(old) :
             Append(RecordsAt(log, old), r)[i] = RecordsAt(log, old)[i]
    BY <1>2, <2>3
  <2>6. /\ RecordsAt(log2, new) \in Seq(R)
        /\ Len(RecordsAt(log2, new)) = Len(old) + 1
    <3>1. ASSUME NEW i \in 1 .. Len(old) PROVE log2[new[i]] \in R
      <4>1. new[i] = old[i] /\ old[i] \in 1 .. Len(log)
        BY <1>1, <1>2, <1>3
      <4> QED BY <1>1, <4>1
    <3>2. log2[new[Len(old) + 1]] \in R
      BY <1>1, <1>3
    <3>3. \A i \in 1 .. Len(old) + 1 : i = Len(old) + 1 \/ i \in 1 .. Len(old)
      BY <1>2
    <3>4. \A i \in 1 .. Len(old) + 1 : log2[new[i]] \in R
      BY <3>1, <3>2, <3>3
    <3> QED BY <1>2, <2>2, <3>4
  <2>7. \A i \in 1 .. Len(old) + 1 :
          RecordsAt(log2, new)[i] = Append(RecordsAt(log, old), r)[i]
    <3> SUFFICES ASSUME NEW i \in 1 .. Len(old) + 1
                 PROVE  log2[new[i]] = Append(RecordsAt(log, old), r)[i]
      BY <2>2
    <3>1. CASE i = Len(old) + 1
      BY <1>1, <1>3, <2>5, <3>1
    <3>2. CASE i \in 1 .. Len(old)
      <4>1. new[i] = old[i] /\ old[i] \in 1 .. Len(log)
        BY <1>1, <1>2, <1>3, <3>2
      <4>2. log2[new[i]] = log[old[i]]
        BY <1>1, <4>1
      <4>3. Append(RecordsAt(log, old), r)[i] = log[old[i]]
        BY <2>4, <2>5, <3>2
      <4> QED BY <4>2, <4>3
    <3>3. i = Len(old) + 1 \/ i \in 1 .. Len(old)
      BY <1>2
    <3> QED BY <3>1, <3>2, <3>3
  <2>8. RecordsAt(log2, new) = Append(RecordsAt(log, old), r)
    BY <2>5, <2>6, <2>7, SeqEqual
  <2> QED BY <1>1, <1>6, <1>7, <2>1, <2>8 DEF log2, index2
<1>8. CASE key # b
  <2>1. At(index2, b, <<>>) = At(index, b, <<>>)
    BY <1>5, <1>8 DEF At
  <2>2. /\ At(index, b, <<>>) \in Seq(Nat)
        /\ \A i \in 1 .. Len(At(index, b, <<>>)) :
             /\ i <= At(index, b, <<>>)[i]
             /\ At(index, b, <<>>)[i] <= Len(log)
    BY RecordsShape
  <2>3. \A i \in DOMAIN At(index, b, <<>>) :
          log2[At(index, b, <<>>)[i]] = log[At(index, b, <<>>)[i]]
    BY <1>1, <2>2
  <2>4. RecordsAt(log2, At(index2, b, <<>>)) = RecordsAt(log, At(index, b, <<>>))
    BY <2>1, <2>3 DEF RecordsAt
  <2> QED BY <1>1, <1>6, <1>8, <2>4 DEF log2, index2
<1> QED BY <1>7, <1>8

-----------------------------------------------------------------------------
(***************************************************************************)
(* The sink of one book.                                                   *)
(***************************************************************************)
TaggedOf(records) == UNION {{Tagged(c, q) : q \in records} : c \in Books}

LogsSound ==
  /\ fills_ \in Seq(TaggedOf(FillRecords))
  /\ events_ \in Seq(TaggedOf(EventRecords))
  /\ diagnostics_ \in Seq(TaggedOf(DiagnosticRecords))
  /\ IndexSound(fills_, fill_index_)
  /\ IndexSound(events_, event_index_)
  /\ IndexSound(diagnostics_, diag_index_)
  /\ \A b \in DOMAIN rejected_strategy_events_ :
       Len(rejected_strategy_events_[b]) <= MaxRejected

LEMMA SinksInitially ==
  ASSUME Init
  PROVE  LogsSound /\ \A b \in Books : Sink(b)!Init
<1>1. LogsSound
  BY DEF Init, LogsSound, IndexSound, Empty
<1>2. \A b \in Books : Sink(b)!Init
  BY DEF Init, Sink!Init, fills_for, events_for, diagnostics_for, paper_ledger_for,
         rejected_strategy_events_for, At, RecordsAt, Empty, Sink!Empty
<1> QED BY <1>1, <1>2

\* Both modules extend PaperLedger.
LEMMA SameLedger ==
  ASSUME NEW b \in Books, NEW ledger, NEW e
  PROVE  /\ Sink(b)!WithFill(ledger, e) = WithFill(ledger, e)
         /\ Sink(b)!update_strategy_order(ledger, e) = update_strategy_order(ledger, e)
         /\ Sink(b)!RejectedByLedger(ledger, e) <=> RejectedByLedger(ledger, e)
<1>1. Sink(b)!WithFill(ledger, e) = WithFill(ledger, e)
  BY DEF WithFill, apply_strategy_fill, TakesFill, Filled, Sink!WithFill,
         Sink!apply_strategy_fill, Sink!TakesFill, Sink!Filled
<1>2. Sink(b)!RejectedByLedger(ledger, e) <=> RejectedByLedger(ledger, e)
  BY DEF RejectedByLedger, Sink!RejectedByLedger
<1>3. Sink(b)!Changed(ledger[e.id], e) = Changed(ledger[e.id], e)
  BY DEF Changed, Closed, Subtracted, SetTo, Deleted, Sink!Changed, Sink!Closed,
         Sink!Subtracted, Sink!SetTo, Sink!Deleted
<1>4. Sink(b)!update_strategy_order(ledger, e) = update_strategy_order(ledger, e)
  BY <1>2, <1>3 DEF update_strategy_order, WithEntry, NewEntry,
         Sink!update_strategy_order, Sink!WithEntry, Sink!NewEntry
<1> QED BY <1>1, <1>2, <1>4

LEMMA BoundsOfBook ==
  ASSUME LogsSound, LogsBounded, NEW b \in Books
  PROVE  Sink(b)!LogsBounded
<1>1. /\ Len(fills_for(b)) <= Len(fills_) /\ Len(fills_for(b)) \in Nat
      /\ Len(events_for(b)) <= Len(events_) /\ Len(events_for(b)) \in Nat
      /\ Len(diagnostics_for(b)) <= Len(diagnostics_) /\ Len(diagnostics_for(b)) \in Nat
  BY RecordsShape DEF LogsSound, fills_for, events_for, diagnostics_for
<1>2. Len(fills_) \in Nat /\ Len(events_) \in Nat /\ Len(diagnostics_) \in Nat
  BY DEF LogsSound
<1> QED BY <1>1, <1>2, BoundsAssumption DEF LogsBounded, Sink!LogsBounded

LEMMA FillOfBook ==
  ASSUME LogsSound, NEW c \in Books, NEW q \in FillRecords, on_fill(Tagged(c, q)),
         NEW b \in Books
  PROVE  Sink(b)!Next \/ UNCHANGED Sink(b)!vars
<1> DEFINE r == Tagged(c, q)
<1>1. /\ LogsBounded
      /\ \A k \in DOMAIN paper_ledger_ : LotsBounded(LedgerFilled(r)[k])
      /\ fills_' = Append(fills_, r)
      /\ fill_index_' = Indexed(fill_index_, r.key, Len(fills_) + 1)
      /\ paper_ledger_' = LedgerFilled(r)
      /\ UNCHANGED <<eventVars, diagVars, rejected_strategy_events_>>
  BY DEF on_fill
<1>2. /\ events_for(b)' = events_for(b)
      /\ diagnostics_for(b)' = diagnostics_for(b)
      /\ rejected_strategy_events_for(b)' = rejected_strategy_events_for(b)
  BY <1>1 DEF eventVars, diagVars, events_for, diagnostics_for,
              rejected_strategy_events_for
<1>3. r \in TaggedOf(FillRecords)
  BY DEF TaggedOf
<1> HIDE DEF r
<1>4. fills_for(b)' = IF r.key = b THEN Append(fills_for(b), r) ELSE fills_for(b)
  BY <1>1, <1>3, LogGrows DEF LogsSound, fills_for
<1>5. CASE r.key = b
  <2>1. /\ paper_ledger_for(b)' = WithFill(paper_ledger_for(b), r)
        /\ LotsBounded(WithFill(paper_ledger_for(b), r))
    <3>1. CASE b \in DOMAIN paper_ledger_
      BY <1>1, <1>5, <3>1 DEF paper_ledger_for, At, LedgerFilled
    <3>2. CASE b \notin DOMAIN paper_ledger_
      <4>1. WithFill(Empty, r) = Empty
        BY DEF WithFill, apply_strategy_fill, TakesFill, Empty
      <4> QED BY <1>1, <1>5, <3>2, <4>1
              DEF paper_ledger_for, At, LedgerFilled, LotsBounded, Empty
    <3> QED BY <3>1, <3>2
  <2>2. Sink(b)!LotsBounded(Sink(b)!WithFill(paper_ledger_for(b), r))
    BY <2>1, SameLedger DEF LotsBounded, Sink!LotsBounded
  <2>3. Sink(b)!on_fill(r)
    BY <1>1, <1>2, <1>4, <1>5, <2>1, <2>2, BoundsOfBook, SameLedger DEF Sink!on_fill
  <2>4. r \in ReportedFor(b, FillRecords)
    BY <1>3, <1>5 DEF ReportedFor, TaggedOf
  <2> QED BY <2>3, <2>4 DEF Sink!Next
<1>6. CASE r.key # b
  <2>1. paper_ledger_for(b)' = paper_ledger_for(b)
    BY <1>1, <1>6 DEF paper_ledger_for, At, LedgerFilled
  <2> QED BY <1>2, <1>4, <1>6, <2>1 DEF Sink!vars
<1> QED BY <1>5, <1>6

LEMMA EventOfBook ==
  ASSUME LogsSound, NEW c \in Books, NEW q \in EventRecords,
         on_event_apply(Tagged(c, q)), NEW b \in Books
  PROVE  Sink(b)!Next \/ UNCHANGED Sink(b)!vars
<1> DEFINE e        == Tagged(c, q)
           ledger   == At(paper_ledger_, e.key, Empty)
           rejected == At(rejected_strategy_events_, e.key, <<>>)
<1>1. /\ LogsBounded
      /\ events_' = Append(events_, e)
      /\ event_index_' = Indexed(event_index_, e.key, Len(events_) + 1)
      /\ LedgerUpdated(e)
      /\ UNCHANGED <<fillVars, diagVars>>
  BY DEF on_event_apply
<1>2. fills_for(b)' = fills_for(b) /\ diagnostics_for(b)' = diagnostics_for(b)
  BY <1>1 DEF fillVars, diagVars, fills_for, diagnostics_for
<1>3. e \in TaggedOf(EventRecords)
  BY DEF TaggedOf
<1>4. events_for(b)' = IF e.key = b THEN Append(events_for(b), e) ELSE events_for(b)
  <2> HIDE DEF e
  <2> QED BY <1>1, <1>3, LogGrows DEF LogsSound, events_for
<1>5. \/ /\ e.source # "STRATEGY"
         /\ paper_ledger_' = paper_ledger_
         /\ rejected_strategy_events_' = rejected_strategy_events_
      \/ /\ e.source = "STRATEGY"
         /\ paper_ledger_' =
              With(paper_ledger_, e.key, update_strategy_order(ledger, e))
         /\ rejected_strategy_events_' =
              With(rejected_strategy_events_, e.key,
                   IF RejectedByLedger(ledger, e) THEN Append(rejected, e) ELSE rejected)
         /\ Len(rejected_strategy_events_'[e.key]) <= MaxRejected
  BY <1>1 DEF LedgerUpdated, ledgerVars
<1> HIDE DEF e
<1>6. CASE e.key = b
  <2>1. /\ paper_ledger_for(b) = ledger
        /\ rejected_strategy_events_for(b) = rejected
    BY <1>6 DEF paper_ledger_for, rejected_strategy_events_for
  <2>2. /\ paper_ledger_for(b)' = update_strategy_order(ledger, e)
        /\ rejected_strategy_events_for(b)' =
             IF RejectedByLedger(ledger, e) THEN Append(rejected, e) ELSE rejected
        /\ Len(rejected_strategy_events_for(b)') <= MaxRejected
    <3>1. CASE e.source # "STRATEGY"
      <4>1. update_strategy_order(ledger, e) = ledger /\ ~RejectedByLedger(ledger, e)
        BY <3>1 DEF update_strategy_order, RejectedByLedger
      <4>2. Len(rejected) <= MaxRejected
        BY BoundsAssumption DEF LogsSound, At
      <4>3. /\ paper_ledger_for(b)' = ledger
            /\ rejected_strategy_events_for(b)' = rejected
        BY <1>5, <1>6, <3>1 DEF paper_ledger_for, rejected_strategy_events_for
      <4> QED BY <4>1, <4>2, <4>3
    <3>2. CASE e.source = "STRATEGY"
      BY <1>5, <1>6, <3>2 DEF paper_ledger_for, rejected_strategy_events_for, At, With
    <3> QED BY <3>1, <3>2
  <2> HIDE DEF ledger, rejected
  <2>3. Sink(b)!on_event_apply(e)
    BY <1>1, <1>2, <1>4, <1>6, <2>1, <2>2, BoundsOfBook, SameLedger
       DEF Sink!on_event_apply
  <2>4. e \in ReportedFor(b, EventRecords)
    BY <1>3, <1>6 DEF ReportedFor, TaggedOf
  <2> QED BY <2>3, <2>4 DEF Sink!Next
<1>7. CASE e.key # b
  <2>1. /\ paper_ledger_for(b)' = paper_ledger_for(b)
        /\ rejected_strategy_events_for(b)' = rejected_strategy_events_for(b)
    BY <1>5, <1>7 DEF paper_ledger_for, rejected_strategy_events_for, At, With
  <2> QED BY <1>2, <1>4, <1>7, <2>1 DEF Sink!vars
<1> QED BY <1>6, <1>7

LEMMA DiagnosticOfBook ==
  ASSUME LogsSound, NEW c \in Books, NEW q \in DiagnosticRecords,
         on_diagnostic(Tagged(c, q)), NEW b \in Books
  PROVE  Sink(b)!Next \/ UNCHANGED Sink(b)!vars
<1> DEFINE d == Tagged(c, q)
<1>1. /\ LogsBounded
      /\ diagnostics_' = Append(diagnostics_, d)
      /\ diag_index_' = Indexed(diag_index_, d.key, Len(diagnostics_) + 1)
      /\ UNCHANGED <<fillVars, eventVars, ledgerVars>>
  BY DEF on_diagnostic
<1>2. /\ fills_for(b)' = fills_for(b) /\ events_for(b)' = events_for(b)
      /\ paper_ledger_for(b)' = paper_ledger_for(b)
      /\ rejected_strategy_events_for(b)' = rejected_strategy_events_for(b)
  BY <1>1 DEF fillVars, eventVars, ledgerVars, fills_for, events_for, paper_ledger_for,
              rejected_strategy_events_for
<1>3. d \in TaggedOf(DiagnosticRecords)
  BY DEF TaggedOf
<1> HIDE DEF d
<1>4. diagnostics_for(b)' = IF d.key = b THEN Append(diagnostics_for(b), d)
                                         ELSE diagnostics_for(b)
  BY <1>1, <1>3, LogGrows DEF LogsSound, diagnostics_for
<1>5. CASE d.key = b
  <2>1. Sink(b)!on_diagnostic(d)
    BY <1>1, <1>2, <1>4, <1>5, BoundsOfBook DEF Sink!on_diagnostic
  <2>2. d \in ReportedFor(b, DiagnosticRecords)
    BY <1>3, <1>5 DEF ReportedFor, TaggedOf
  <2> QED BY <2>1, <2>2 DEF Sink!Next
<1>6. CASE d.key # b
  BY <1>2, <1>4, <1>6 DEF Sink!vars
<1> QED BY <1>5, <1>6

\* The logs are emptied for all books at once.
LEMMA Emptied ==
  ASSUME NEW b \in Books
  PROVE  /\ drain_fills => Sink(b)!drain_fills
         /\ drain_events => Sink(b)!drain_events
         /\ drain_diagnostics => Sink(b)!drain_diagnostics
         /\ reset => Sink(b)!reset
<1>1. At(Empty, b, <<>>) = <<>> /\ At(Empty, b, Empty) = Empty
  BY DEF At, Empty
<1>2. RecordsAt(<<>>, <<>>) = <<>>
  BY DEF RecordsAt
<1> QED
  BY <1>1, <1>2 DEF drain_fills, drain_events, drain_diagnostics, reset, fillVars,
       eventVars, diagVars, ledgerVars, fills_for, events_for, diagnostics_for,
       paper_ledger_for, rejected_strategy_events_for, Sink!drain_fills,
       Sink!drain_events, Sink!drain_diagnostics, Sink!reset, Empty, Sink!Empty

LEMMA BooksApart ==
  ASSUME LogsSound, [Next]_vars, NEW b \in Books
  PROVE  Sink(b)!Next \/ UNCHANGED Sink(b)!vars
<1>1. ASSUME NEW c \in Books, Scoped(c)
      PROVE  Sink(b)!Next \/ UNCHANGED Sink(b)!vars
  <2>1. CASE ScopedReset(c)
    BY <2>1 DEF ScopedReset, vars, fillVars, eventVars, diagVars, ledgerVars, Sink!vars,
         fills_for, events_for, diagnostics_for, paper_ledger_for,
         rejected_strategy_events_for
  <2> QED BY <1>1, <2>1, FillOfBook, EventOfBook, DiagnosticOfBook DEF Scoped
<1>2. CASE drain_fills \/ drain_events \/ drain_diagnostics \/ reset
  BY <1>2, Emptied DEF Sink!Next
<1>3. CASE UNCHANGED vars
  BY <1>3 DEF vars, fillVars, eventVars, diagVars, ledgerVars, Sink!vars,
       fills_for, events_for, diagnostics_for, paper_ledger_for,
       rejected_strategy_events_for
<1> QED BY <1>1, <1>2, <1>3 DEF Next

\* What a step of the sink does to one of its logs.
LEMMA LogsStaySound ==
  ASSUME LogsSound, [Next]_vars
  PROVE  LogsSound'
<1>1. ASSUME NEW c \in Books, NEW q \in FillRecords, on_fill(Tagged(c, q))
      PROVE  LogsSound'
  <2>1. /\ fills_' = Append(fills_, Tagged(c, q))
        /\ fill_index_' = Indexed(fill_index_, Tagged(c, q).key, Len(fills_) + 1)
        /\ UNCHANGED <<eventVars, diagVars, rejected_strategy_events_>>
    BY <1>1 DEF on_fill
  <2>0. Tagged(c, q) \in TaggedOf(FillRecords)
    BY DEF TaggedOf
  <2>2. /\ fills_' \in Seq(TaggedOf(FillRecords))
        /\ IndexSound(fills_', fill_index_')
    BY <2>0, <2>1, LogGrows DEF LogsSound
  <2> QED BY <2>1, <2>2 DEF LogsSound, eventVars, diagVars, IndexSound
<1>2. ASSUME NEW c \in Books, NEW q \in EventRecords, on_event_apply(Tagged(c, q))
      PROVE  LogsSound'
  <2>1. /\ events_' = Append(events_, Tagged(c, q))
        /\ event_index_' = Indexed(event_index_, Tagged(c, q).key, Len(events_) + 1)
        /\ LedgerUpdated(Tagged(c, q))
        /\ UNCHANGED <<fillVars, diagVars>>
    BY <1>2 DEF on_event_apply
  <2>0. Tagged(c, q) \in TaggedOf(EventRecords)
    BY DEF TaggedOf
  <2>2. /\ events_' \in Seq(TaggedOf(EventRecords))
        /\ IndexSound(events_', event_index_')
    BY <2>0, <2>1, LogGrows DEF LogsSound
  <2>3. \A b \in DOMAIN rejected_strategy_events_' :
          Len(rejected_strategy_events_'[b]) <= MaxRejected
    <3> DEFINE e == Tagged(c, q)
    <3> HIDE DEF e
    <3>1. \A b \in DOMAIN rejected_strategy_events_ :
            Len(rejected_strategy_events_[b]) <= MaxRejected
      BY DEF LogsSound
    <3>2. CASE e.source # "STRATEGY"
      BY <2>1, <3>1, <3>2 DEF LedgerUpdated, ledgerVars, e
    <3>3. CASE e.source = "STRATEGY"
      <4>1. PICK v : rejected_strategy_events_' =
                       With(rejected_strategy_events_, e.key, v)
        BY <2>1, <3>3 DEF LedgerUpdated, e
      <4>2. Len(rejected_strategy_events_'[e.key]) <= MaxRejected
        BY <2>1, <3>3 DEF LedgerUpdated, e
      <4> QED BY <3>1, <4>1, <4>2 DEF With
    <3> QED BY <3>2, <3>3
  <2>4. UNCHANGED <<fills_, fill_index_, diagnostics_, diag_index_>>
    BY <2>1 DEF fillVars, diagVars
  <2>5. /\ fills_' \in Seq(TaggedOf(FillRecords))
        /\ diagnostics_' \in Seq(TaggedOf(DiagnosticRecords))
        /\ IndexSound(fills_', fill_index_')
        /\ IndexSound(diagnostics_', diag_index_')
    BY <2>4 DEF LogsSound
  <2> QED BY <2>2, <2>3, <2>5 DEF LogsSound, IndexSound
<1>3. ASSUME NEW c \in Books, NEW q \in DiagnosticRecords, on_diagnostic(Tagged(c, q))
      PROVE  LogsSound'
  <2>1. /\ diagnostics_' = Append(diagnostics_, Tagged(c, q))
        /\ diag_index_' = Indexed(diag_index_, Tagged(c, q).key, Len(diagnostics_) + 1)
        /\ UNCHANGED <<fillVars, eventVars, ledgerVars>>
    BY <1>3 DEF on_diagnostic
  <2>0. Tagged(c, q) \in TaggedOf(DiagnosticRecords)
    BY DEF TaggedOf
  <2>2. /\ diagnostics_' \in Seq(TaggedOf(DiagnosticRecords))
        /\ IndexSound(diagnostics_', diag_index_')
    BY <2>0, <2>1, LogGrows DEF LogsSound
  <2> QED BY <2>1, <2>2 DEF LogsSound, fillVars, eventVars, ledgerVars, IndexSound
<1>4. CASE drain_fills \/ drain_events \/ drain_diagnostics \/ reset
  <2>1. \A R : <<>> \in Seq(R) /\ IndexSound(<<>>, Empty)
    BY DEF IndexSound, Empty
  <2>2. CASE drain_fills
    BY <2>1, <2>2 DEF drain_fills, LogsSound, eventVars, diagVars, ledgerVars, IndexSound
  <2>3. CASE drain_events
    BY <2>1, <2>3 DEF drain_events, LogsSound, fillVars, diagVars, ledgerVars, IndexSound
  <2>4. CASE drain_diagnostics
    BY <2>1, <2>4 DEF drain_diagnostics, LogsSound, fillVars, eventVars, ledgerVars,
                      IndexSound
  <2>5. CASE reset
    <3>1. \A b \in DOMAIN rejected_strategy_events_' :
            Len(rejected_strategy_events_'[b]) <= MaxRejected
      BY <2>5 DEF reset, Empty
    <3> QED BY <2>1, <2>5, <3>1 DEF reset, LogsSound
  <2> QED BY <1>4, <2>2, <2>3, <2>4, <2>5
<1>5. CASE UNCHANGED vars
  BY <1>5 DEF vars, fillVars, eventVars, diagVars, ledgerVars, LogsSound, IndexSound
<1>6. ASSUME NEW c \in Books, ScopedReset(c) PROVE LogsSound'
  BY <1>5, <1>6 DEF ScopedReset
<1> QED BY <1>1, <1>2, <1>3, <1>4, <1>5, <1>6 DEF Next, Scoped

(***************************************************************************)
(* The shared sink implements a sink of its own for each book: what the    *)
(* queries for a book return changes as that sink would, and not at all    *)
(* when another book reports.                                              *)
(***************************************************************************)
THEOREM SinksImplemented == WiredSpec => SinksOfBooks
<1> DEFINE Step == \A b \in Books : Sink(b)!Next \/ UNCHANGED Sink(b)!vars
<1>1. WiredInit => LogsSound /\ \A b \in Books : Sink(b)!Init
  BY SinksInitially DEF WiredInit
<1>2. WiringInvariant /\ [WiredNext]_wiredVars => WiringInvariant'
  BY WiringKept
<1>3. LogsSound /\ WiringInvariant /\ [WiredNext]_wiredVars => LogsSound'
  BY SinkSteps, LogsStaySound
<1>4. LogsSound /\ WiringInvariant /\ [WiredNext]_wiredVars => [Step]_vars
  <2> SUFFICES ASSUME LogsSound, WiringInvariant, [WiredNext]_wiredVars, NEW b \in Books
               PROVE  Sink(b)!Next \/ UNCHANGED Sink(b)!vars
    OBVIOUS
  <2> QED BY SinkSteps, BooksApart
<1> HIDE DEF Step
<1>5. WiredSpec => (\A b \in Books : Sink(b)!Init) /\ [][Step]_vars
  BY <1>1, <1>2, <1>3, <1>4, WiringInitially, PTL DEF WiredSpec
<1> QED BY <1>5 DEF SinksOfBooks, Step
=============================================================================
