---------------------------- MODULE ReplaySession ----------------------------
(***************************************************************************)
(* ReplaySession of cpp/include/lobsim/replay_session.hpp, the source it   *)
(* reads (CoinbaseFeed has the contents of a row) and the engine it calls. *)
(*                                                                         *)
(* Everything runs in one thread, but a call may end in an exception at    *)
(* any row: the source has then moved on, the session keeps what it has    *)
(* set, and the caller may go on with both - another run, a step, a new    *)
(* source.  One iteration of a loop is one step.                           *)
(*                                                                         *)
(* run_raw is the variant of the Python bindings: it converts every row    *)
(* before it replays the first.                                            *)
(***************************************************************************)
EXTENDS CoinbaseFeed, SequencesExt

CONSTANTS
  Instruments,  \* the InstrumentSpec of the adapter is one of these
  Files,        \* [columns, time_type, batches : non-empty sequences of rows]
  Spans,        \* the event sequences given to run
  SteppedEvents,\* the events given to step
  MaxOpened,    \* bound on the sources opened
  MaxUpdates    \* bound on the engine updates when a call begins

Config == [require_monotonic_ts_received : BOOLEAN, fail_fast : BOOLEAN]

ASSUME InputsAssumption ==
  /\ Instruments \subseteq InstrumentSpec
  /\ SteppedEvents \subseteq Event
  /\ Spans \subseteq Seq(Event)
  /\ \A f \in Files : f.batches \in Seq(Seq(Row) \ {<<>>})

VARIABLES
  spec,                  \* the instrument of the adapter
  source,                \* the file that is open and the position in it
  cfg,                   \* of the session: the last one it was given
  has_last_ts_received,
  last_ts_received,
  call,                  \* the run in progress, its arguments and locals
  returned,              \* the runs that returned last: one or none
  updates,               \* history: the events the engine was given
  read,                  \* history: the rows taken from the open source
  opened,                \* history: the number of sources opened
  dropped                \* history: rows converted by a run_raw that threw

sessionVars == <<cfg, has_last_ts_received, last_ts_received>>
historyVars == <<read, opened, dropped>>
vars == <<spec, source, sessionVars, call, returned, updates, historyVars>>

NoSource == [batches |-> <<>>, next_batch |-> 1, batch |-> 0, row_in_batch |-> 0]

Idle == [pc |-> "idle"]

NewSummary == [raw |-> 0, normalized |-> 0, updated |-> 0, failures |-> 0,
               range |-> <<>>]

\* rest: what is still to be replayed, or has been converted so far.
\* began_*: where the histories stood.
NewCall(pc, c, rest) ==
  [pc |-> pc, cfg |-> c, rest |-> rest, summary |-> NewSummary,
   began_read |-> Len(read), began_updates |-> Len(updates)]

Begins == call = Idle /\ Len(updates) < MaxUpdates
-----------------------------------------------------------------------------
(***************************************************************************)
(* step                                                                    *)
(***************************************************************************)

\* Mutated form of Late: an equal time is late.
LateOrEqual(ts) ==
  cfg.require_monotonic_ts_received /\ has_last_ts_received /\ ts <= last_ts_received

\* Mutated form of Late: the last time is that of the run.
LateInRun(ts) ==
  /\ cfg.require_monotonic_ts_received
  /\ call # Idle
  /\ call.summary.range # <<>>
  /\ ts < last_ts_received

Late(ts) ==
  cfg.require_monotonic_ts_received /\ has_last_ts_received /\ ts < last_ts_received

Refused(e) == e.ts < 0 \/ Late(e.ts)

\* row: the index in read, or 0 for an event that comes from elsewhere.
Deliver(e, row) ==
  /\ has_last_ts_received' = TRUE
  /\ last_ts_received' = e.ts
  /\ updates' = Append(updates,
       [event |-> e, row |-> row, opened |-> opened, seen |-> Len(read'),
        monotonic |-> cfg.require_monotonic_ts_received])
  /\ UNCHANGED cfg

step(e) ==
  /\ Begins
  /\ UNCHANGED <<spec, source, call, returned, historyVars>>
  /\ IF Refused(e) THEN UNCHANGED <<sessionVars, updates>> ELSE Deliver(e, 0)

\* Mutated form of Widened: the range only grows upwards.
WidenedUpwards(range, ts) ==
  IF range = <<>> THEN <<ts, ts>>
  ELSE <<range[1], IF ts > range[2] THEN ts ELSE range[2]>>

Widened(range, ts) ==
  IF range = <<>> THEN <<ts, ts>>
  ELSE <<IF ts < range[1] THEN ts ELSE range[1],
         IF ts > range[2] THEN ts ELSE range[2]>>

\* An exception leaves the run.  What it was to replay yet is dropped.
Throw(rest) ==
  /\ call' = Idle
  /\ dropped' = dropped \cup {p.row : p \in ToSet(rest)}

\* The body of both loops for an event: it is counted, then given to step.
Replay(e, row, counted, rest) ==
  LET seen == [counted EXCEPT !.normalized = @ + 1, !.range = Widened(@, e.ts)]
  IN  IF Refused(e)
        THEN Throw(rest) /\ UNCHANGED <<sessionVars, updates>>
        ELSE /\ Deliver(e, row)
             /\ call' = [call EXCEPT
                  !.summary = [seen EXCEPT !.updated = @ + 1],
                  !.rest = rest]
             /\ UNCHANGED dropped

Return ==
  /\ call' = Idle
  /\ returned' = {call}
  /\ UNCHANGED <<spec, sessionVars, updates, historyVars>>
-----------------------------------------------------------------------------
(***************************************************************************)
(* The source                                                              *)
(***************************************************************************)

\* A source whose columns are not as expected throws from its constructor.
open(file) ==
  /\ Begins
  /\ opened < MaxOpened
  /\ IF Openable(file)
       THEN /\ source' = [NoSource EXCEPT !.batches = file.batches]
            /\ opened' = opened + 1
            /\ read' = <<>>
            /\ dropped' = {}
            /\ returned' = {}
       ELSE UNCHANGED <<source, historyVars, returned>>
  /\ UNCHANGED <<spec, sessionVars, call, updates>>

AtBatchEnd ==
  source.batch # 0 => source.row_in_batch >= Len(source.batches[source.batch])

BatchesLeft == source.next_batch <= Len(source.batches)

\* load_next_batch
Loaded ==
  [source EXCEPT !.batch = source.next_batch, !.next_batch = @ + 1,
                 !.row_in_batch = 0]

Reading == call.pc \in {"source", "raw"}

\* The library fails to read a batch, and goes on with the one after it.
LoadThrows ==
  /\ Reading
  /\ AtBatchEnd
  /\ BatchesLeft
  /\ source' = [Loaded EXCEPT !.batch = 0]
  /\ Throw(call.rest)
  /\ UNCHANGED <<spec, sessionVars, returned, updates, read, opened>>

\* next takes a row, whatever then becomes of it.
TakeRow ==
  LET at == IF AtBatchEnd THEN Loaded ELSE source
  IN  /\ Reading
      /\ AtBatchEnd => BatchesLeft
      /\ source' = [at EXCEPT !.row_in_batch = @ + 1]
      /\ read' = Append(read, at.batches[at.batch][at.row_in_batch + 1])
      /\ UNCHANGED <<spec, returned, opened>>

\* An exception of the source ends a run, also without fail_fast.
NextThrows ==
  /\ TakeRow
  /\ RawEvents(Last(read')) = {}
  /\ Throw(call.rest)
  /\ UNCHANGED <<sessionVars, updates>>

Counted == [call.summary EXCEPT !.raw = @ + 1]

NormalizeThrows ==
  /\ TakeRow
  /\ \E raw \in RawEvents(Last(read')) : try_normalize(spec, raw) = {}
  /\ IF call.cfg.fail_fast
       THEN Throw(call.rest)
       ELSE /\ call' = [call EXCEPT !.summary = [Counted EXCEPT !.failures = @ + 1]]
            /\ UNCHANGED dropped
  /\ UNCHANGED <<sessionVars, updates>>

\* The events a row becomes: one or none.
Normalized(row) ==
  UNION {try_normalize(spec, raw) : raw \in RawEvents(row)}

ReplayRow ==
  /\ call.pc = "source"
  /\ TakeRow
  /\ \E e \in Normalized(Last(read')) : Replay(e, Len(read'), Counted, <<>>)
-----------------------------------------------------------------------------
(***************************************************************************)
(* The runs.  Each replaces the configuration of the session.              *)
(***************************************************************************)

RunSource(c) ==
  /\ Begins
  /\ source # NoSource
  /\ cfg' = c
  /\ call' = NewCall("source", c, <<>>)
  /\ returned' = {}
  /\ UNCHANGED <<spec, source, has_last_ts_received, last_ts_received, updates,
                 historyVars>>

EndOfSource ==
  /\ call.pc = "source"
  /\ AtBatchEnd
  /\ ~BatchesLeft
  /\ source' = [source EXCEPT !.batch = 0, !.row_in_batch = 0]
  /\ Return

RunSpan(events, c) ==
  /\ Begins
  /\ cfg' = c
  /\ call' = NewCall("span", c, [k \in DOMAIN events |->
                                   [event |-> events[k], row |-> 0]])
  /\ returned' = {}
  /\ UNCHANGED <<spec, source, has_last_ts_received, last_ts_received, updates,
                 historyVars>>

ReplayEvent ==
  /\ call.pc = "span"
  /\ call.rest # <<>>
  /\ UNCHANGED <<spec, source, returned, read, opened>>
  /\ Replay(Head(call.rest).event, Head(call.rest).row, call.summary,
            Tail(call.rest))

EndOfSpan ==
  /\ call.pc = "span"
  /\ call.rest = <<>>
  /\ Return
  /\ UNCHANGED source

\* run_raw sets the configuration of the session only when it replays.  It
\* asks for an iterator (py::iter) each time: the source here is one that is
\* its own iterator and goes on, while a list would begin again.
RunRaw(c) ==
  /\ Begins
  /\ source # NoSource
  /\ call' = NewCall("raw", c, <<>>)
  /\ returned' = {}
  /\ UNCHANGED <<spec, source, sessionVars, updates, historyVars>>

BufferRow ==
  /\ call.pc = "raw"
  /\ TakeRow
  /\ \E e \in Normalized(Last(read')) :
       call' = [call EXCEPT
         !.rest = Append(@, [event |-> e, row |-> Len(read')]),
         !.summary = Counted]
  /\ UNCHANGED <<sessionVars, updates, dropped>>

EndOfRaw ==
  /\ call.pc = "raw"
  /\ AtBatchEnd
  /\ ~BatchesLeft
  /\ source' = [source EXCEPT !.batch = 0, !.row_in_batch = 0]
  /\ cfg' = call.cfg
  /\ call' = [call EXCEPT !.pc = "span"]
  /\ UNCHANGED <<spec, has_last_ts_received, last_ts_received, returned,
                 updates, historyVars>>
-----------------------------------------------------------------------------
Init ==
  /\ spec \in Instruments
  /\ source = NoSource
  /\ cfg \in Config
  /\ has_last_ts_received = FALSE
  /\ last_ts_received = 0
  /\ call = Idle
  /\ returned = {}
  /\ updates = <<>>
  /\ read = <<>>
  /\ opened = 0
  /\ dropped = {}

Next ==
  \/ \E f \in Files : open(f)
  \/ \E e \in SteppedEvents : step(e)
  \/ \E c \in Config : RunSource(c)
  \/ \E c \in Config, events \in Spans : RunSpan(events, c)
  \/ \E c \in Config : RunRaw(c)
  \/ LoadThrows
  \/ NextThrows
  \/ NormalizeThrows
  \/ ReplayRow
  \/ EndOfSource
  \/ ReplayEvent
  \/ EndOfSpan
  \/ BufferRow
  \/ EndOfRaw

Spec == Init /\ [][Next]_vars
-----------------------------------------------------------------------------
\* The updates made of rows of the source that is open.
FromSource == {k \in DOMAIN updates : updates[k].opened = opened /\ updates[k].row > 0}

(***************************************************************************)
(* The rows of a source reach the engine in their order and at most once,  *)
(* through however many runs; and an event never precedes in time what the *)
(* engine was given before it, in whichever run, step or source, unless    *)
(* the session had been told not to care.                                  *)
(***************************************************************************)
InOrder ==
  /\ \A j, k \in FromSource : j < k => updates[j].row < updates[k].row
  /\ \A k \in DOMAIN updates : k > 1 /\ updates[k].monotonic =>
       updates[k - 1].event.ts <= updates[k].event.ts
  /\ \A k \in DOMAIN updates : updates[k].event.ts >= 0

\* The engine had been given a later event than e when row i was due.
CameTooLate(e, i) ==
  \E k \in DOMAIN updates :
    /\ updates[k].event.ts > e.ts
    /\ \/ updates[k].opened < opened
       \/ updates[k].seen <= i
       \/ updates[k].row \in 1 .. i - 1

(***************************************************************************)
(* A row that was taken from the source and can be converted is never      *)
(* lost, although a row before it threw: it has reached the engine, as the *)
(* rounding policies say, or is about to, or was too late - or run_raw had *)
(* converted it when it threw because of another row.                      *)
(***************************************************************************)
RowsReachEngine ==
  \A i \in DOMAIN read : \A e \in Normalized(read[i]) :
    \/ \E k \in FromSource :
         /\ updates[k].row = i
         /\ updates[k].event = e
         /\ OnGrid(e.price_ticks, read[i].price, spec.tick_size, spec.price_policy)
         /\ OnGrid(e.quantity_lots, read[i].size, spec.lot_size, spec.qty_policy)
    \/ call # Idle /\ \E p \in ToSet(call.rest) : p.row = i
    \/ CameTooLate(e, i)
    \/ i \in dropped

(***************************************************************************)
(* The summary of a run that returns: every row it took was converted or   *)
(* counted as a failure, every event it counted reached the engine, and    *)
(* the range of times is exactly that of these events.                     *)
(***************************************************************************)
SummaryExact ==
  \A run \in returned :
    LET s     == run.summary
        upto  == run.began_updates + s.updated
        given == {k \in DOMAIN updates : run.began_updates < k /\ k <= upto}
        times == {updates[k].event.ts : k \in given}
    IN  /\ s.normalized = s.updated
        /\ Cardinality(given) = s.updated
        /\ \A k \in DOMAIN updates \ 1 .. upto : updates[k].row = 0
        /\ s.raw = Len(read) - run.began_read
        /\ run.pc = "source" \/ s.raw > 0 => s.raw = s.normalized + s.failures
        /\ IF times = {} THEN s.range = <<>>
           ELSE /\ ToSet(s.range) \subseteq times
                /\ \A t \in times : s.range[1] <= t /\ t <= s.range[2]
=============================================================================
