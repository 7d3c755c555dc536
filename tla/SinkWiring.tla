----------------------------- MODULE SinkWiring -----------------------------
(***************************************************************************)
(* How the engines of a MultiBookSimulator reach their sinks: each engine  *)
(* has a bare pointer, the simulator owns a BookScopedSink per book in     *)
(* book_sinks_, and the caller may change the pointers of both.  The       *)
(* memory of a BookScopedSink that is destroyed may hold another one next. *)
(* Here: multibook_simulator.hpp from add_book to get_best_price_ticks.    *)
(*                                                                         *)
(* One of the two sinks for several books that a caller has is the         *)
(* InMemoryMultiLogSink of MultiLogSink; what the other is told is not     *)
(* recorded.  Engines, streams and the clock are in other modules.         *)
(***************************************************************************)
EXTENDS MultiLogSink

CONSTANTS
  Addresses,   \* of BookScopedSinks
  ThisSink,    \* the sink of MultiLogSink
  OtherSink,   \* another sink for several books
  OwnSink,     \* a sink of the caller for a single book
  NoSink,
  Pointers     \* what callers set the pointer of an engine to

ASSUME SinksAssumption ==
  /\ {ThisSink, OtherSink, OwnSink, NoSink} \cap Addresses = {}
  /\ Pointers \subseteq {OwnSink, NoSink}

VARIABLES
  books_,       \* the keys of the books
  engine_sink,  \* book key -> the pointer of its engine
  book_sinks_,  \* book key -> [address, parent], the BookScopedSink it owns
  multi_sink_

wiring == <<books_, engine_sink, book_sinks_, multi_sink_>>
wiredVars == <<vars, wiring>>

Without(f, key) == [k \in DOMAIN f \ {key} |-> f[k]]

AddressesIn(sinks) == {sinks[b].address : b \in DOMAIN sinks}

-----------------------------------------------------------------------------
\* attach_book_sink: the new BookScopedSink is made before the old one goes.
Attach(b, pointer) ==
  IF multi_sink_ = NoSink
    THEN /\ engine_sink' = With(engine_sink, b, pointer)
         /\ UNCHANGED book_sinks_
    ELSE \E a \in Addresses \ AddressesIn(book_sinks_) :
           /\ engine_sink' = With(engine_sink, b, a)
           /\ book_sinks_' =
                With(book_sinks_, b, [address |-> a, parent |-> multi_sink_])

\* The caller may hand over an engine that has a sink.
AddBook(b, pointer) ==
  /\ b \notin books_
  /\ books_' = books_ \cup {b}
  /\ Attach(b, pointer)
  /\ UNCHANGED <<vars, multi_sink_>>

\* get_book(b)->set_log_sink: the simulator does not learn of it.
EngineSetLogSink(b, pointer) ==
  /\ b \in books_
  /\ engine_sink' = [engine_sink EXCEPT ![b] = pointer]
  /\ UNCHANGED <<vars, books_, book_sinks_, multi_sink_>>

\* What the simulator itself has to say of a book, which it may not have.
emit_diagnostic(b) ==
  /\ multi_sink_ = ThisSink
  /\ \E d \in DiagnosticRecords : on_diagnostic(Tagged(b, d))
  /\ UNCHANGED wiring

set_log_sink(b, pointer) ==
  \/ /\ b \in books_
     /\ engine_sink' = [engine_sink EXCEPT ![b] = pointer]
     /\ book_sinks_' = Without(book_sinks_, b)
     /\ UNCHANGED <<vars, books_, multi_sink_>>
  \/ b \notin books_ /\ emit_diagnostic(b)

\* Mutated form of Detached: the pointers are left as they are.
NotDetached == engine_sink

\* Engines with a BookScopedSink lose their pointer, whatever it points to.
Detached ==
  [b \in books_ |-> IF b \in DOMAIN book_sinks_ THEN NoSink ELSE engine_sink[b]]

set_multi_log_sink(m) ==
  /\ multi_sink_' = m
  /\ IF m = NoSink
       THEN engine_sink' = Detached /\ book_sinks_' = Empty
       ELSE \E address \in [books_ -> Addresses] :
              /\ IsInjective(address)
              /\ engine_sink' = address
              /\ book_sinks_' = [b \in books_ |->
                                   [address |-> address[b], parent |-> m]]
  /\ UNCHANGED <<vars, books_>>

\* The BookScopedSinks that the engine of a book would call, one or none.
Called(b) ==
  {c \in DOMAIN book_sinks_ : book_sinks_[c].address = engine_sink[b]}

Report(b) ==
  /\ b \in books_
  /\ \E c \in Called(b) : book_sinks_[c].parent = ThisSink /\ Scoped(c)
  /\ UNCHANGED wiring

\* The caller drains and resets the sink.
Drain ==
  /\ drain_fills \/ drain_events \/ drain_diagnostics \/ reset
  /\ UNCHANGED wiring

WiredInit ==
  /\ Init
  /\ books_ = {}
  /\ engine_sink = Empty
  /\ book_sinks_ = Empty
  /\ multi_sink_ = NoSink

WiredNext ==
  \/ \E b \in Books, pointer \in Pointers : AddBook(b, pointer)
  \/ \E b \in Books, pointer \in Pointers : EngineSetLogSink(b, pointer)
  \/ \E b \in Books, pointer \in Pointers : set_log_sink(b, pointer)
  \/ \E m \in {ThisSink, OtherSink, NoSink} : set_multi_log_sink(m)
  \/ \E b \in Books : emit_diagnostic(b)
  \/ \E b \in Books : Report(b)
  \/ Drain

WiredSpec == WiredInit /\ [][WiredNext]_wiredVars
-----------------------------------------------------------------------------
(***************************************************************************)
(* An engine never calls a BookScopedSink that was destroyed, or that of   *)
(* another book, or one that passes on to a sink that was taken away: in   *)
(* whatever order books are added, pointers are exchanged and the sink for *)
(* all books is set, taken away and set again.                             *)
(***************************************************************************)
PointersAlive ==
  \A b \in books_ : engine_sink[b] \in Addresses =>
    /\ b \in DOMAIN book_sinks_
    /\ book_sinks_[b] = [address |-> engine_sink[b], parent |-> multi_sink_]
    /\ Called(b) = {b}
=============================================================================
