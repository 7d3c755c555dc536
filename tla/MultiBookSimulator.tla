------------------------- MODULE MultiBookSimulator -------------------------
(***************************************************************************)
(* cpp/include/lobsim/multibook_simulator.hpp: the books of several        *)
(* instruments on one clock.  Each book may have a stream of historical    *)
(* events; a strategy submits events for later; step() takes the earliest  *)
(* of all these and hands it to the engine of its book.                    *)
(*                                                                         *)
(* The engine is one action that takes time (pc = "update"): its sink is   *)
(* called back meanwhile and may submit events.  The rest of step() is one *)
(* step per event read from a source, one for the choice, one per return.  *)
(*                                                                         *)
(* What is abstracted: an event is its two timestamps, symbols are the     *)
(* books; the sinks and the diagnostics are left out.  heap is a set: an   *)
(* entry is pushed for a stream that has none and for a new strategy       *)
(* event, so no entry is in it twice (HeapMirrors).  An exception ends the *)
(* call; one that a callback raises is caught there.                       *)
(***************************************************************************)
EXTENDS Integers, Sequences

CONSTANTS
  Books,             \* the book keys
  Feeds,             \* what the sources of streams yield
  Submissions,       \* the arguments of submit_strategy_event
  DirectEvents,      \* the events passed to apply
  Deadlines,         \* the arguments of step_until
  Deltas,            \* the arguments of step_for
  require_monotonic_ts_received,   \* Config
  fail_fast,
  MaxTimestamp,      \* the greatest std::int64_t
  NoTime,            \* for a timestamp or a latency that is not there
  Malformed,         \* a raw event that the adapter cannot normalize
  Usage,             \* what callers do besides stepping and submitting
  MaxStrategyEvents  \* bound on the events that strategies submit

Event == [ts_received : Int, ts_exchange : Int]

Submission == [book : Books, ts_received : Int, ts_exchange : Int,
               latency : Int \cup {NoTime}]

ASSUME TimeAssumption ==
  NoTime \notin Int /\ MaxTimestamp \in Int /\ Malformed \notin Event
ASSUME InputsAssumption ==
  /\ Feeds \subseteq Seq(Event \cup {Malformed})
  /\ Submissions \subseteq Submission
  /\ DirectEvents \subseteq Event
  /\ Deadlines \subseteq Int
  /\ Deltas \subseteq Int
  /\ MaxStrategyEvents \in Nat
ASSUME ConfigAssumption ==
  /\ require_monotonic_ts_received \in BOOLEAN
  /\ fail_fast \in BOOLEAN
  /\ Usage \subseteq {"apply", "late stream", "callback"}

VARIABLES
  books,                \* the books that were added
  streams,              \* the streams, in the order of registration
  strategy_events,      \* the events that strategies submitted
  heap,                 \* what may be taken next
  current_ts_received,  \* the clock, or NoTime
  call                  \* the call that runs

vars == <<books, streams, strategy_events, heap, current_ts_received, call>>
-----------------------------------------------------------------------------
StreamState == [book : Books, source : Seq(Event \cup {Malformed}),
                exhausted : BOOLEAN, has_buffered : BOOLEAN,
                buffered : Event, last_ts : Int \cup {NoTime}]

StrategyItem == [book : Books, ts_received : Int, ts_exchange : Int]

HeapEntry == [ts_received : Int, ts_exchange : Int,
              kind : {"Stream", "Strategy"}, index : Nat \ {0}]

Idle == [pc |-> "idle"]

\* mode is the operation that was called; ts_received is the timestamp of the
\* event that it has taken last, kind the kind of that event.
Call == [pc : {"prime", "pick", "update", "fill"},
         mode : {"step", "step_until", "apply"},
         until : Int, ts_received : Int, kind : {"Stream", "Strategy"}]

NoEvent == [ts_received |-> 0, ts_exchange |-> 0]

NewCall(pc, mode, until, ts) ==
  [pc |-> pc, mode |-> mode, until |-> until, ts_received |-> ts,
   kind |-> "Stream"]

Base == IF current_ts_received = NoTime THEN 0 ELSE current_ts_received

\* Mutated form of Late: the clock is not compared.
NeverLate(ts) == FALSE

\* An event that would turn the clock back.
Late(ts) ==
  /\ require_monotonic_ts_received
  /\ current_ts_received # NoTime
  /\ ts < current_ts_received

\* Mutated form of Before: the kind of an entry is not compared.
BeforeByTime(a, b) ==
  \/ a.ts_received < b.ts_received
  \/ /\ a.ts_received = b.ts_received
     /\ \/ a.ts_exchange < b.ts_exchange
        \/ a.ts_exchange = b.ts_exchange /\ a.index < b.index

\* HeapCompare: entry a is taken before entry b.
Before(a, b) ==
  \/ a.ts_received < b.ts_received
  \/ /\ a.ts_received = b.ts_received
     /\ \/ a.kind = "Stream" /\ b.kind = "Strategy"
        \/ /\ a.kind = b.kind
           /\ \/ a.ts_exchange < b.ts_exchange
              \/ a.ts_exchange = b.ts_exchange /\ a.index < b.index

\* heap_.top()
IsTop(e) == e \in heap /\ \A f \in heap : ~Before(f, e)

\* Mutated form of StreamEntry: the stream is counted from zero.
StreamEntryFromZero(i, event) ==
  [ts_received |-> event.ts_received, ts_exchange |-> event.ts_exchange,
   kind |-> "Stream", index |-> i - 1]

StreamEntry(i, event) ==
  [ts_received |-> event.ts_received, ts_exchange |-> event.ts_exchange,
   kind |-> "Stream", index |-> i]

StrategyEntry(i, item) ==
  [ts_received |-> item.ts_received, ts_exchange |-> item.ts_exchange,
   kind |-> "Strategy", index |-> i]
-----------------------------------------------------------------------------
AddBook(b) ==
  /\ call = Idle
  /\ b \notin books
  /\ books' = books \cup {b}
  /\ UNCHANGED <<streams, strategy_events, heap, current_ts_received, call>>

HasStream(b) == \E i \in DOMAIN streams : streams[i].book = b

\* A second stream for a book is refused.
AddStream(b, feed) ==
  /\ call = Idle
  /\ ~HasStream(b)
  /\ current_ts_received = NoTime \/ "late stream" \in Usage
  /\ streams' = Append(streams,
       [book |-> b, source |-> feed, exhausted |-> FALSE,
        has_buffered |-> FALSE, buffered |-> NoEvent, last_ts |-> NoTime])
  /\ books' = books \cup {b}
  /\ UNCHANGED <<strategy_events, heap, current_ts_received, call>>

\* When a submitted event reaches the book.
ArrivalTime(s) ==
  IF s.ts_received = 0
    THEN Base + (IF s.latency = NoTime THEN 1 ELSE s.latency)
    ELSE s.ts_received + (IF s.latency = NoTime THEN 0 ELSE s.latency)

\* An event for an unknown book is refused, and one that is late already.
SubmitStrategyEvent(s) ==
  LET item == [book |-> s.book, ts_received |-> ArrivalTime(s),
               ts_exchange |-> IF s.ts_exchange = 0 THEN MaxTimestamp
                                                    ELSE s.ts_exchange]
  IN  /\ \/ call = Idle
         \/ call.pc = "update" /\ "callback" \in Usage
      /\ Len(strategy_events) < MaxStrategyEvents
      /\ s.book \in books
      /\ ~Late(item.ts_received)
      /\ strategy_events' = Append(strategy_events, item)
      /\ heap' = heap \cup {StrategyEntry(Len(strategy_events) + 1, item)}
      /\ UNCHANGED <<books, streams, current_ts_received, call>>

\* apply: an event for an unknown book is refused, and a late one.
Apply(b, event) ==
  /\ call = Idle
  /\ "apply" \in Usage
  /\ b \in books
  /\ ~Late(event.ts_received)
  /\ call' = NewCall("update", "apply", 0, event.ts_received)
  /\ UNCHANGED <<books, streams, strategy_events, heap, current_ts_received>>

Step ==
  /\ call = Idle
  /\ call' = NewCall("prime", "step", 0, 0)
  /\ UNCHANGED <<books, streams, strategy_events, heap, current_ts_received>>

StepUntil(ts) ==
  /\ call = Idle
  /\ call' = NewCall("prime", "step_until", ts, 0)
  /\ UNCHANGED <<books, streams, strategy_events, heap, current_ts_received>>

StepFor(delta) == delta > 0 /\ StepUntil(Base + delta)
-----------------------------------------------------------------------------
(***************************************************************************)
(* prime_streams and fill_buffer: each stream that is not exhausted has    *)
(* its next event buffered before one is chosen.                           *)
(***************************************************************************)

\* Mutated forms of Ready.
ReadyIfExhausted(i) == streams[i].exhausted
ReadyIfBuffered(i) == streams[i].has_buffered

Ready(i) == streams[i].has_buffered \/ streams[i].exhausted

\* The first stream that has to be filled; at most one.
NextToFill ==
  {i \in DOMAIN streams : ~Ready(i) /\ \A j \in 1 .. i - 1 : Ready(j)}

\* Mutated form of Primed: the last stream is forgotten.
PrimedButLast == \A i \in 1 .. Len(streams) - 1 : Ready(i)

Primed == \A i \in DOMAIN streams : Ready(i)

\* Mutated form of InOrder: the events of a stream are not compared.
InAnyOrder(i, event) == TRUE

InOrder(i, event) ==
  require_monotonic_ts_received /\ streams[i].last_ts # NoTime =>
    event.ts_received >= streams[i].last_ts

Exhaust(i) ==
  /\ streams[i].source = <<>>
  /\ streams' = [streams EXCEPT ![i].exhausted = TRUE]
  /\ UNCHANGED <<heap, call>>

\* An event that cannot be used is skipped, or ends the call.
Skip(i) ==
  /\ streams[i].source # <<>>
  /\ LET item == Head(streams[i].source)
     IN  item = Malformed \/ ~InOrder(i, item)
  /\ streams' = [streams EXCEPT ![i].source = Tail(@)]
  /\ call' = IF fail_fast THEN Idle ELSE call
  /\ UNCHANGED heap

Buffer(i) ==
  LET stream == streams[i]
      item   == Head(stream.source)
  IN  /\ stream.source # <<>>
      /\ item # Malformed
      /\ InOrder(i, item)
      /\ streams' = [streams EXCEPT ![i] =
           [stream EXCEPT !.source = Tail(stream.source),
                          !.has_buffered = TRUE,
                          !.buffered = item,
                          !.last_ts = item.ts_received]]
      /\ heap' = heap \cup {StreamEntry(i, item)}
      /\ UNCHANGED call

FillBuffer ==
  /\ call.pc \in {"prime", "fill"}
  /\ \E i \in NextToFill : Exhaust(i) \/ Skip(i) \/ Buffer(i)
  /\ UNCHANGED <<books, strategy_events, current_ts_received>>

\* step() returns when the stream it took from is ready again; step_until
\* goes on.  (The priming in the step() that it calls finds nothing to do.)
Filled ==
  /\ call.pc \in {"prime", "fill"}
  /\ Primed
  /\ call' = IF call.pc = "fill" /\ call.mode = "step"
               THEN Idle ELSE [call EXCEPT !.pc = "pick"]
  /\ UNCHANGED <<books, streams, strategy_events, heap, current_ts_received>>
-----------------------------------------------------------------------------
\* Nothing is left, or nothing that is due.
NothingDue ==
  /\ call.pc = "pick"
  /\ \/ heap = {}
     \/ /\ call.mode = "step_until"
        /\ \E e \in heap : IsTop(e) /\ e.ts_received > call.until
  /\ call' = Idle
  /\ UNCHANGED <<books, streams, strategy_events, heap, current_ts_received>>

\* apply_to_book.  A late event is dropped; it is counted as applied.
Deliver(kind, ts) ==
  call' = IF ~Late(ts)
            THEN [call EXCEPT !.pc = "update", !.kind = kind,
                              !.ts_received = ts]
          ELSE IF fail_fast THEN Idle ELSE [call EXCEPT !.pc = "fill"]

TakeStrategyEvent(e) ==
  /\ e.kind = "Strategy"
  /\ IF e.index \in DOMAIN strategy_events
       THEN Deliver("Strategy", strategy_events[e.index].ts_received)
       ELSE call' = Idle
  /\ UNCHANGED streams

TakeStreamEvent(e) ==
  /\ e.kind = "Stream"
  /\ IF streams[e.index].has_buffered
       THEN /\ Deliver("Stream", streams[e.index].buffered.ts_received)
            /\ streams' = [streams EXCEPT ![e.index].has_buffered = FALSE]
       ELSE call' = Idle /\ UNCHANGED streams

Pick ==
  /\ call.pc = "pick"
  /\ \E e \in heap :
       /\ IsTop(e)
       /\ call.mode = "step_until" => e.ts_received <= call.until
       /\ TakeStrategyEvent(e) \/ TakeStreamEvent(e)
       /\ heap' = heap \ {e}
  /\ UNCHANGED <<books, strategy_events, current_ts_received>>

\* update() returns; only then the clock moves.
EndUpdate ==
  /\ call.pc = "update"
  /\ current_ts_received' = call.ts_received
  /\ call' = IF call.mode = "apply" THEN Idle ELSE [call EXCEPT !.pc = "fill"]
  /\ UNCHANGED <<books, streams, strategy_events, heap>>
-----------------------------------------------------------------------------
Init ==
  /\ books = {}
  /\ streams = <<>>
  /\ strategy_events = <<>>
  /\ heap = {}
  /\ current_ts_received = NoTime
  /\ call = Idle

Continue == FillBuffer \/ Filled \/ NothingDue \/ Pick \/ EndUpdate

Next ==
  \/ \E b \in Books : AddBook(b)
  \/ \E b \in Books, feed \in Feeds : AddStream(b, feed)
  \/ \E s \in Submissions : SubmitStrategyEvent(s)
  \/ \E b \in Books, event \in DirectEvents : Apply(b, event)
  \/ Step
  \/ \E ts \in Deadlines : StepUntil(ts)
  \/ \E delta \in Deltas : StepFor(delta)
  \/ Continue

Spec == Init /\ [][Next]_vars

\* A call that was made goes on.
FairSpec == Spec /\ WF_vars(Continue)
=============================================================================
