------------------------- MODULE MultiBookProperties -------------------------
(***************************************************************************)
(* What README.md promises of the simulator of several books: it "merges   *)
(* the next event across all registered streams by ts_received (no         *)
(* look-ahead)" and "maintains a single `current time'".                   *)
(***************************************************************************)
EXTENDS MultiBookSimulator

(***************************************************************************)
(* The types of the state.                                                 *)
(***************************************************************************)
TypeOK ==
  /\ books \in SUBSET Books
  /\ streams \in Seq(StreamState)
  /\ strategy_events \in Seq(StrategyItem)
  /\ heap \in SUBSET HeapEntry
  /\ current_ts_received \in Int \cup {NoTime}
  /\ call \in Call \cup {Idle}

(***************************************************************************)
(* The heap has exactly one entry for every buffered event, at the place   *)
(* where it is buffered, and otherwise entries for submitted events only:  *)
(* an exception between the two updates of heap and buffer, or a stream    *)
(* that is filled twice, leaves neither an entry without an event (the     *)
(* diagnostic HEAP_ENTRY_WITHOUT_BUFFERED_EVENT is never emitted) nor an   *)
(* event that is never taken.                                              *)
(***************************************************************************)
HeapMirrors ==
  /\ \A i \in DOMAIN streams :
       streams[i].has_buffered => StreamEntry(i, streams[i].buffered) \in heap
  /\ \A e \in heap :
       IF e.kind = "Stream"
         THEN /\ e.index \in DOMAIN streams
              /\ streams[e.index].has_buffered
              /\ e = StreamEntry(e.index, streams[e.index].buffered)
         ELSE /\ e.index \in DOMAIN strategy_events
              /\ e = StrategyEntry(e.index, strategy_events[e.index])

\* The timestamps of the events that a stream may still have taken.
Upcoming(i) ==
  (IF streams[i].has_buffered THEN {streams[i].buffered.ts_received} ELSE {})
    \cup
  {event.ts_received : event \in
     {streams[i].source[k] : k \in DOMAIN streams[i].source} \ {Malformed}}

\* The timestamps in Upcoming that its source delivers in order.
UpcomingInOrder(i) ==
  {ts \in Upcoming(i) :
     streams[i].last_ts # NoTime => ts >= streams[i].last_ts}

\* Nothing is left that comes before an event of this kind and timestamp.
NothingBefore(kind, ts) ==
  /\ \A e \in heap : e.ts_received >= ts
  /\ \A i \in DOMAIN streams : \A t \in UpcomingInOrder(i) :
       IF kind = "Strategy" THEN t > ts ELSE t >= ts

NothingDueBy(ts) ==
  /\ \A e \in heap : e.ts_received > ts
  /\ require_monotonic_ts_received =>
       \A i \in DOMAIN streams : \A t \in UpcomingInOrder(i) : t > ts

Taken == call.pc = "pick" /\ call'.pc = "update"

(***************************************************************************)
(* No look-ahead: when an event is handed to a book, no stream of any book *)
(* has an earlier one left, buffered or still in its source, and neither   *)
(* has a strategy.  An event of a strategy waits for all those of streams  *)
(* with the same timestamp.  (An event that a stream delivers out of order *)
(* is never taken.)                                                        *)
(***************************************************************************)
NoLookAhead ==
  [][Taken /\ require_monotonic_ts_received =>
       NothingBefore(call'.kind, call'.ts_received)]_vars

(***************************************************************************)
(* The clock never goes back, whatever is submitted, applied past the      *)
(* streams or registered late.                                             *)
(***************************************************************************)
ClockMonotone ==
  [][require_monotonic_ts_received /\ current_ts_received # NoTime =>
       /\ current_ts_received' # NoTime
       /\ current_ts_received' >= current_ts_received]_vars

(***************************************************************************)
(* When step_until(t) or step_for returns, rather than throws, nothing     *)
(* that is due by t is left: not in the heap, and not in a source either.  *)
(***************************************************************************)
StepUntilComplete ==
  [][call.pc = "pick" /\ call.mode = "step_until" /\ call' = Idle
       /\ heap' = heap =>
       NothingDueBy(call.until)]_vars

(***************************************************************************)
(* Unless events are applied past the streams, streams are registered when *)
(* the clock runs, or a sink submits events, every event that was buffered *)
(* or accepted is handed to its book when its turn comes: none is dropped  *)
(* as late.                                                                *)
(***************************************************************************)
NothingDropped ==
  [][Usage = {} /\ call.pc = "pick" /\ heap' # heap => call'.pc = "update"]_vars

(***************************************************************************)
(* Every call returns: each step_until comes to an event that is not due,  *)
(* although it refills its streams on the way.                             *)
(***************************************************************************)
EveryCallReturns == call # Idle ~> call = Idle

(***************************************************************************)
(* README.md: in an event that is submitted, ts_received = 0 "means        *)
(* `relative to current time'".  Violated: the clock moves only after      *)
(* update() has returned, so an event that a sink submits in reaction to   *)
(* a fill is relative to the event before that, and may precede the event  *)
(* it reacts to.                                                           *)
(***************************************************************************)
RelativeToCurrentTime ==
  [][\A s \in Submissions :
       /\ call.pc = "update"
       /\ s.ts_received = 0
       /\ s.latency # NoTime => s.latency >= 0
       /\ SubmitStrategyEvent(s)
       => ArrivalTime(s) >= call.ts_received]_vars
-----------------------------------------------------------------------------
(***************************************************************************)
(* The invariant behind these properties.                                  *)
(***************************************************************************)

\* last_ts is the timestamp of the event that is buffered, or was last; only
\* a source that has nothing left is exhausted.
StreamsConsistent ==
  \A i \in DOMAIN streams :
    /\ streams[i].has_buffered =>
         streams[i].last_ts = streams[i].buffered.ts_received
    /\ streams[i].exhausted => streams[i].source = <<>>

\* An event is chosen when all streams are primed, and is not late.
CallConsistent ==
  /\ call.pc = "pick" => Primed
  /\ call.pc = "update" => ~Late(call.ts_received)

\* The clock, once the update that runs returns.
Clock == IF call.pc = "update" THEN call.ts_received ELSE current_ts_received

\* Without disturbance, what may be taken, now or when a stream is refilled,
\* is not late.
OnTime ==
  Usage = {} /\ require_monotonic_ts_received /\ Clock # NoTime =>
    /\ \A e \in heap : e.ts_received >= Clock
    /\ \A i \in DOMAIN streams :
         ~Ready(i) => streams[i].last_ts # NoTime /\ streams[i].last_ts >= Clock

MergeInvariant ==
  /\ TypeOK
  /\ HeapMirrors
  /\ StreamsConsistent
  /\ CallConsistent
  /\ OnTime
=============================================================================
