--------------------------- MODULE MultiBookProofs ---------------------------
(***************************************************************************)
(* MergeInvariant is inductive, and what follows from it: no look-ahead, a *)
(* clock that never goes back, complete step_until, no dropped event.      *)
(***************************************************************************)
EXTENDS MultiBookProperties, SequenceTheorems, TLAPS

LEMMA StreamUpdated ==
  ASSUME streams \in Seq(StreamState), NEW i \in DOMAIN streams,
         NEW s \in StreamState, streams' = [streams EXCEPT ![i] = s]
  PROVE  /\ streams' \in Seq(StreamState)
         /\ DOMAIN streams' = DOMAIN streams
         /\ streams'[i] = s
         /\ \A j \in DOMAIN streams : j # i => streams'[j] = streams[j]
<1>1. DOMAIN streams = 1 .. Len(streams)
  BY LenProperties
<1> QED BY <1>1, ExceptSeq

LEMMA StreamFacts ==
  ASSUME TypeOK, NEW i \in DOMAIN streams
  PROVE  /\ streams[i] \in StreamState
         /\ streams[i].source # <<>> =>
              /\ Head(streams[i].source) \in Event \cup {Malformed}
              /\ Tail(streams[i].source) \in Seq(Event \cup {Malformed})
<1>1. streams[i] \in StreamState
  BY ElementOfSeq, LenProperties DEF TypeOK
<1>2. streams[i].source \in Seq(Event \cup {Malformed})
  BY <1>1 DEF StreamState
<1> QED BY <1>1, <1>2, HeadTailProperties

LEMMA CallFacts ==
  ASSUME TypeOK, call.pc # "idle"
  PROVE  call \in Call
BY DEF TypeOK, Idle

\* The event of an entry of the heap.
LEMMA EntryFacts ==
  ASSUME TypeOK, HeapMirrors, NEW e \in heap
  PROVE  /\ e \in HeapEntry
         /\ e.ts_received \in Int
         /\ e.kind = "Stream" =>
              /\ e.index \in DOMAIN streams
              /\ streams[e.index].has_buffered
              /\ e.ts_received = streams[e.index].buffered.ts_received
         /\ e.kind = "Strategy" =>
              /\ e.index \in DOMAIN strategy_events
              /\ e.ts_received = strategy_events[e.index].ts_received
<1>1. e \in HeapEntry
  BY DEF TypeOK
<1> QED BY <1>1 DEF HeapMirrors, HeapEntry, StreamEntry, StrategyEntry

\* What is on top of the heap comes before everything in it.
LEMMA TopFacts ==
  ASSUME TypeOK, NEW e \in heap, IsTop(e), NEW f \in heap
  PROVE  /\ f.ts_received >= e.ts_received
         /\ e.kind = "Strategy" /\ f.kind = "Stream" =>
              f.ts_received > e.ts_received
<1>1. e \in HeapEntry /\ f \in HeapEntry
  BY DEF TypeOK
<1>2. ~Before(f, e)
  BY DEF IsTop
<1> QED BY <1>1, <1>2 DEF Before, HeapEntry

LEMMA Initially == Init => MergeInvariant
<1> SUFFICES ASSUME Init PROVE MergeInvariant
  OBVIOUS
<1>1. TypeOK
  BY EmptySeq DEF Init, TypeOK
<1>2. HeapMirrors /\ StreamsConsistent
  BY EmptySeq DEF Init, HeapMirrors, StreamsConsistent
<1>3. CallConsistent /\ OnTime
  BY DEF Init, CallConsistent, OnTime, Clock, Idle
<1> QED BY <1>1, <1>2, <1>3 DEF MergeInvariant
-----------------------------------------------------------------------------
(***************************************************************************)
(* The calls.                                                              *)
(***************************************************************************)
LEMMA AddBookStep ==
  ASSUME MergeInvariant, NEW b \in Books, AddBook(b)
  PROVE  MergeInvariant'
<1>1. TypeOK'
  BY DEF MergeInvariant, TypeOK, AddBook
<1>2. (HeapMirrors /\ StreamsConsistent)'
  BY DEF MergeInvariant, HeapMirrors, StreamsConsistent, AddBook
<1>3. (CallConsistent /\ OnTime)'
  BY DEF MergeInvariant, CallConsistent, OnTime, Clock, Late, Primed, Ready,
         AddBook
<1> QED BY <1>1, <1>2, <1>3 DEF MergeInvariant

\* A new stream has no event yet, and the clock does not run yet.
LEMMA AddStreamStep ==
  ASSUME MergeInvariant, NEW b \in Books, NEW feed \in Feeds, AddStream(b, feed)
  PROVE  MergeInvariant'
<1> DEFINE stream == [book |-> b, source |-> feed, exhausted |-> FALSE,
                      has_buffered |-> FALSE, buffered |-> NoEvent,
                      last_ts |-> NoTime]
<1>1. stream \in StreamState
  BY InputsAssumption DEF StreamState, Event, NoEvent
<1>2. /\ streams \in Seq(StreamState)
      /\ streams' = Append(streams, stream)
  BY DEF MergeInvariant, TypeOK, AddStream
<1> HIDE DEF stream
<1>3. /\ streams' \in Seq(StreamState)
      /\ \A i \in DOMAIN streams : i \in DOMAIN streams' /\ streams'[i] = streams[i]
      /\ \A i \in DOMAIN streams' : i \in DOMAIN streams \/ streams'[i] = stream
  BY <1>1, <1>2, AppendProperties, LenProperties
<1>4. TypeOK'
  BY <1>3 DEF MergeInvariant, TypeOK, AddStream
<1>5. ~stream.has_buffered /\ ~stream.exhausted
  BY DEF stream
<1>6. HeapMirrors'
  BY <1>3, <1>5 DEF MergeInvariant, HeapMirrors, AddStream
<1>7. StreamsConsistent'
  BY <1>3, <1>5 DEF MergeInvariant, StreamsConsistent
<1>8. call = Idle /\ call' = Idle
  BY DEF AddStream
<1>9. CallConsistent'
  BY <1>8 DEF CallConsistent, Idle
<1>10. OnTime'
  BY <1>8 DEF OnTime, Clock, AddStream, Idle
<1> QED BY <1>4, <1>6, <1>7, <1>9, <1>10 DEF MergeInvariant

\* The new event is not late; it joins the heap with its entry.
LEMMA SubmitStep ==
  ASSUME MergeInvariant, NEW s \in Submissions, SubmitStrategyEvent(s)
  PROVE  MergeInvariant'
<1> DEFINE item == [book |-> s.book, ts_received |-> ArrivalTime(s),
                    ts_exchange |-> IF s.ts_exchange = 0 THEN MaxTimestamp
                                                         ELSE s.ts_exchange]
           n == Len(strategy_events) + 1
<1>1. s \in Submission
  BY InputsAssumption
<1>2. Base \in Int
  BY DEF MergeInvariant, TypeOK, Base
<1>3. item \in StrategyItem
  BY <1>1, <1>2, TimeAssumption DEF Submission, StrategyItem, ArrivalTime
<1>4. /\ strategy_events \in Seq(StrategyItem)
      /\ strategy_events' = Append(strategy_events, item)
      /\ heap' = heap \cup {StrategyEntry(n, item)}
      /\ ~Late(item.ts_received)
  BY DEF MergeInvariant, TypeOK, SubmitStrategyEvent
<1> HIDE DEF item
<1>5. /\ strategy_events' \in Seq(StrategyItem)
      /\ n \in DOMAIN strategy_events' /\ n \in Nat \ {0}
      /\ strategy_events'[n] = item
      /\ \A i \in DOMAIN strategy_events :
           i \in DOMAIN strategy_events' /\ strategy_events'[i] = strategy_events[i]
  BY <1>3, <1>4, AppendProperties, LenProperties
<1>6. StrategyEntry(n, item) \in HeapEntry
  BY <1>3, <1>5 DEF StrategyEntry, HeapEntry, StrategyItem
<1>7. TypeOK'
  BY <1>4, <1>5, <1>6 DEF MergeInvariant, TypeOK, SubmitStrategyEvent
<1>8. /\ StrategyEntry(n, item).kind = "Strategy"
      /\ StrategyEntry(n, item).index = n
      /\ StrategyEntry(n, item).ts_received = item.ts_received
  BY DEF StrategyEntry
<1>9. /\ streams' = streams
      /\ call' = call
      /\ current_ts_received' = current_ts_received
  BY DEF SubmitStrategyEvent
<1>10. HeapMirrors'
  BY <1>4, <1>5, <1>8, <1>9 DEF MergeInvariant, HeapMirrors
<1>11. (StreamsConsistent /\ CallConsistent)'
  BY <1>9 DEF MergeInvariant, StreamsConsistent, CallConsistent, Primed, Ready,
              Late
<1>12. OnTime'
  <2>1. ASSUME Usage = {}, require_monotonic_ts_received, Clock # NoTime
        PROVE  item.ts_received >= Clock
    <3>1. call = Idle
      BY <2>1 DEF SubmitStrategyEvent
    <3>2. Clock = current_ts_received
      BY <3>1 DEF Clock, Idle
    <3> QED BY <1>3, <1>4, <2>1, <3>2 DEF Late, StrategyItem, MergeInvariant, TypeOK
  <2>2. Clock' = Clock /\ \A i \in DOMAIN streams : Ready(i)' = Ready(i)
    BY <1>9 DEF Clock, Ready
  <2> QED BY <1>4, <1>8, <1>9, <2>1, <2>2 DEF MergeInvariant, OnTime
<1> QED BY <1>7, <1>10, <1>11, <1>12 DEF MergeInvariant

LEMMA ApplyStep ==
  ASSUME MergeInvariant, NEW b \in Books, NEW event \in DirectEvents,
         Apply(b, event)
  PROVE  MergeInvariant'
<1>1. event.ts_received \in Int
  BY InputsAssumption DEF Event
<1>2. /\ call' = NewCall("update", "apply", 0, event.ts_received)
      /\ UNCHANGED <<books, streams, strategy_events, heap, current_ts_received>>
      /\ Usage # {}
      /\ ~Late(event.ts_received)
  BY DEF Apply
<1>3. call' \in Call
  BY <1>1, <1>2 DEF NewCall, Call
<1>4. TypeOK'
  BY <1>2, <1>3 DEF MergeInvariant, TypeOK
<1>5. (HeapMirrors /\ StreamsConsistent)'
  BY <1>2 DEF MergeInvariant, HeapMirrors, StreamsConsistent
<1>6. CallConsistent'
  BY <1>2 DEF CallConsistent, Late, NewCall
<1>7. OnTime'
  BY <1>2 DEF OnTime
<1> QED BY <1>4, <1>5, <1>6, <1>7 DEF MergeInvariant

\* A call that only starts, goes on or ends.
LEMMA ControlStep ==
  ASSUME MergeInvariant, call.pc # "update",
         UNCHANGED <<books, streams, strategy_events, heap, current_ts_received>>,
         call' \in Call \cup {Idle}, call'.pc # "update",
         call'.pc = "pick" => Primed
  PROVE  MergeInvariant'
<1>1. (TypeOK /\ HeapMirrors /\ StreamsConsistent)'
  BY DEF MergeInvariant, TypeOK, HeapMirrors, StreamsConsistent
<1>2. CallConsistent'
  BY DEF CallConsistent, Primed, Ready
<1>3. OnTime'
  BY DEF MergeInvariant, OnTime, Clock, Ready
<1> QED BY <1>1, <1>2, <1>3 DEF MergeInvariant

LEMMA StepStep ==
  ASSUME MergeInvariant, Step
  PROVE  MergeInvariant'
<1>1. /\ call' \in Call
      /\ call'.pc = "prime"
  BY DEF Step, NewCall, Call
<1>2. call.pc # "update"
  BY DEF Step, Idle
<1> QED BY <1>1, <1>2, ControlStep DEF Step

LEMMA StepUntilStep ==
  ASSUME MergeInvariant, NEW ts \in Int, StepUntil(ts)
  PROVE  MergeInvariant'
<1>1. /\ call' \in Call
      /\ call'.pc = "prime"
  BY DEF StepUntil, NewCall, Call
<1>2. call.pc # "update"
  BY DEF StepUntil, Idle
<1> QED BY <1>1, <1>2, ControlStep DEF StepUntil

LEMMA StepForStep ==
  ASSUME MergeInvariant, NEW delta \in Int, StepFor(delta)
  PROVE  MergeInvariant'
<1>1. Base + delta \in Int
  BY DEF MergeInvariant, TypeOK, Base
<1> QED BY <1>1, StepUntilStep DEF StepFor
-----------------------------------------------------------------------------
(***************************************************************************)
(* Filling the buffers.  The clock does not move, and no stream but the    *)
(* one that is filled changes.                                             *)
(***************************************************************************)
LEMMA ExhaustStep ==
  ASSUME MergeInvariant, FillBuffer, NEW i \in NextToFill, Exhaust(i)
  PROVE  MergeInvariant'
<1> DEFINE stream == [streams[i] EXCEPT !.exhausted = TRUE]
<1>1. i \in DOMAIN streams /\ ~Ready(i)
  BY DEF NextToFill
<1>2. streams[i] \in StreamState
  BY <1>1, StreamFacts DEF MergeInvariant
<1>3. stream \in StreamState
  BY <1>2 DEF StreamState
<1>4. streams' = [streams EXCEPT ![i] = stream]
  BY DEF Exhaust
<1>5. /\ stream.exhausted
      /\ stream.source = <<>>
      /\ ~stream.has_buffered
  BY <1>1, <1>2 DEF StreamState, Exhaust, Ready
<1> HIDE DEF stream
<1>6. /\ streams' \in Seq(StreamState)
      /\ DOMAIN streams' = DOMAIN streams
      /\ streams'[i] = stream
      /\ \A j \in DOMAIN streams : j # i => streams'[j] = streams[j]
  BY <1>1, <1>3, <1>4, StreamUpdated DEF MergeInvariant, TypeOK
<1>7. /\ UNCHANGED <<books, strategy_events, current_ts_received, heap, call>>
      /\ call.pc \in {"prime", "fill"}
  BY DEF FillBuffer, Exhaust
<1>8. TypeOK'
  BY <1>6, <1>7 DEF MergeInvariant, TypeOK
<1>9. HeapMirrors'
  BY <1>1, <1>5, <1>6, <1>7 DEF MergeInvariant, HeapMirrors, Ready
<1>10. StreamsConsistent'
  BY <1>5, <1>6 DEF MergeInvariant, StreamsConsistent
<1>11. CallConsistent'
  BY <1>7 DEF CallConsistent
<1>12. OnTime'
  BY <1>5, <1>6, <1>7 DEF MergeInvariant, OnTime, Clock, Ready
<1> QED BY <1>8, <1>9, <1>10, <1>11, <1>12 DEF MergeInvariant

LEMMA SkipStep ==
  ASSUME MergeInvariant, FillBuffer, NEW i \in NextToFill, Skip(i)
  PROVE  MergeInvariant'
<1> DEFINE stream == [streams[i] EXCEPT !.source = Tail(streams[i].source)]
<1>1. i \in DOMAIN streams /\ ~Ready(i) /\ streams[i].source # <<>>
  BY DEF NextToFill, Skip
<1>2. /\ streams[i] \in StreamState
      /\ Tail(streams[i].source) \in Seq(Event \cup {Malformed})
  BY <1>1, StreamFacts DEF MergeInvariant
<1>3. stream \in StreamState
  BY <1>2 DEF StreamState
<1>4. streams' = [streams EXCEPT ![i] = stream]
  BY DEF Skip
<1>5. /\ ~stream.exhausted
      /\ ~stream.has_buffered
      /\ stream.last_ts = streams[i].last_ts
  BY <1>1, <1>2 DEF StreamState, Ready
<1> HIDE DEF stream
<1>6. /\ streams' \in Seq(StreamState)
      /\ DOMAIN streams' = DOMAIN streams
      /\ streams'[i] = stream
      /\ \A j \in DOMAIN streams : j # i => streams'[j] = streams[j]
  BY <1>1, <1>3, <1>4, StreamUpdated DEF MergeInvariant, TypeOK
<1>7. /\ UNCHANGED <<books, strategy_events, current_ts_received, heap>>
      /\ call.pc \in {"prime", "fill"}
      /\ call' = call \/ call' = Idle
  BY DEF FillBuffer, Skip
<1>8. TypeOK'
  BY <1>6, <1>7 DEF MergeInvariant, TypeOK
<1>9. HeapMirrors'
  BY <1>1, <1>5, <1>6, <1>7 DEF MergeInvariant, HeapMirrors, Ready
<1>10. StreamsConsistent'
  BY <1>5, <1>6 DEF MergeInvariant, StreamsConsistent
<1>11. CallConsistent'
  BY <1>7 DEF CallConsistent, Idle
<1>12. OnTime'
  BY <1>1, <1>5, <1>6, <1>7 DEF MergeInvariant, OnTime, Clock, Ready, Idle
<1> QED BY <1>8, <1>9, <1>10, <1>11, <1>12 DEF MergeInvariant

LEMMA BufferStep ==
  ASSUME MergeInvariant, FillBuffer, NEW i \in NextToFill, Buffer(i)
  PROVE  MergeInvariant'
<1> DEFINE item   == Head(streams[i].source)
           stream == [streams[i] EXCEPT !.source = Tail(streams[i].source),
                                        !.has_buffered = TRUE,
                                        !.buffered = item,
                                        !.last_ts = item.ts_received]
<1>1. /\ i \in DOMAIN streams
      /\ ~Ready(i)
      /\ streams[i].source # <<>>
      /\ item # Malformed
      /\ InOrder(i, item)
      /\ streams' = [streams EXCEPT ![i] = stream]
      /\ heap' = heap \cup {StreamEntry(i, item)}
  BY DEF NextToFill, Buffer
<1>2. /\ streams[i] \in StreamState
      /\ item \in Event
      /\ Tail(streams[i].source) \in Seq(Event \cup {Malformed})
  BY <1>1, StreamFacts DEF MergeInvariant
<1>3. item.ts_received \in Int
  BY <1>2 DEF Event
<1>4. stream \in StreamState
  BY <1>2, <1>3 DEF StreamState
<1>5. /\ ~stream.exhausted
      /\ stream.has_buffered
      /\ stream.buffered = item
      /\ stream.last_ts = item.ts_received
  BY <1>1, <1>2 DEF StreamState, Ready
<1>6. i \in Nat \ {0}
  BY <1>1, LenProperties DEF MergeInvariant, TypeOK
<1>7. /\ StreamEntry(i, item) \in HeapEntry
      /\ StreamEntry(i, item).kind = "Stream"
      /\ StreamEntry(i, item).index = i
      /\ StreamEntry(i, item).ts_received = item.ts_received
  BY <1>2, <1>6 DEF StreamEntry, HeapEntry, Event
<1> HIDE DEF stream, item
<1>8. /\ streams' \in Seq(StreamState)
      /\ DOMAIN streams' = DOMAIN streams
      /\ streams'[i] = stream
      /\ \A j \in DOMAIN streams : j # i => streams'[j] = streams[j]
  BY <1>1, <1>4, StreamUpdated DEF MergeInvariant, TypeOK
<1>9. /\ UNCHANGED <<books, strategy_events, current_ts_received, call>>
      /\ call.pc \in {"prime", "fill"}
  BY DEF FillBuffer, Buffer
<1>10. TypeOK'
  BY <1>1, <1>7, <1>8, <1>9 DEF MergeInvariant, TypeOK
<1>11. HeapMirrors'
  <2>1. \A e \in heap : e.kind = "Stream" => e.index # i
    BY <1>1 DEF MergeInvariant, HeapMirrors, Ready
  <2>2. ASSUME NEW j \in DOMAIN streams', streams'[j].has_buffered
        PROVE  StreamEntry(j, streams'[j].buffered) \in heap'
    BY <1>1, <1>5, <1>8, <2>2 DEF MergeInvariant, HeapMirrors
  <2>3. ASSUME NEW e \in heap'
        PROVE  IF e.kind = "Stream"
                 THEN /\ e.index \in DOMAIN streams'
                      /\ streams'[e.index].has_buffered
                      /\ e = StreamEntry(e.index, streams'[e.index].buffered)
                 ELSE /\ e.index \in DOMAIN strategy_events
                      /\ e = StrategyEntry(e.index, strategy_events[e.index])
    <3>1. CASE e \in heap
      BY <1>8, <2>1, <3>1 DEF MergeInvariant, HeapMirrors
    <3>2. CASE e = StreamEntry(i, item)
      BY <1>1, <1>5, <1>7, <1>8, <3>2
    <3> QED BY <1>1, <3>1, <3>2
  <2>4. strategy_events' = strategy_events
    BY <1>9
  <2> QED BY <2>2, <2>3, <2>4 DEF HeapMirrors, StreamEntry, StrategyEntry
<1>12. StreamsConsistent'
  BY <1>5, <1>8 DEF MergeInvariant, StreamsConsistent
<1>13. CallConsistent'
  BY <1>9 DEF CallConsistent
<1>14. OnTime'
  <2>1. ASSUME Usage = {}, require_monotonic_ts_received, Clock # NoTime
        PROVE  item.ts_received >= Clock
    <3>1. streams[i].last_ts # NoTime /\ streams[i].last_ts >= Clock
      BY <1>1, <2>1 DEF MergeInvariant, OnTime
    <3>2. streams[i].last_ts \in Int /\ Clock \in Int
      BY <1>2, <1>9, <2>1, <3>1 DEF StreamState, Clock, MergeInvariant, TypeOK
    <3> QED BY <1>1, <1>3, <2>1, <3>1, <3>2 DEF InOrder
  <2>2. Clock' = Clock
    BY <1>9 DEF Clock
  <2> QED
    BY <1>1, <1>5, <1>7, <1>8, <2>1, <2>2 DEF MergeInvariant, OnTime, Ready
<1> QED BY <1>10, <1>11, <1>12, <1>13, <1>14 DEF MergeInvariant

LEMMA FillBufferStep ==
  ASSUME MergeInvariant, FillBuffer
  PROVE  MergeInvariant'
<1>1. PICK i \in NextToFill : Exhaust(i) \/ Skip(i) \/ Buffer(i)
  BY DEF FillBuffer
<1> QED BY <1>1, ExhaustStep, SkipStep, BufferStep

LEMMA FilledStep ==
  ASSUME MergeInvariant, Filled
  PROVE  MergeInvariant'
<1>1. call \in Call
  BY CallFacts DEF MergeInvariant, Filled
<1>2. call' \in Call \cup {Idle} /\ call'.pc # "update"
  BY <1>1 DEF Filled, Call, Idle
<1> QED BY <1>2, ControlStep DEF Filled

LEMMA NothingDueStep ==
  ASSUME MergeInvariant, NothingDue
  PROVE  MergeInvariant'
<1>1. call' = Idle /\ call'.pc = "idle"
  BY DEF NothingDue, Idle
<1> QED BY <1>1, ControlStep DEF NothingDue
-----------------------------------------------------------------------------
(***************************************************************************)
(* Taking the event on top of the heap, and the end of its update.         *)
(***************************************************************************)
LEMMA DeliverFacts ==
  ASSUME call \in Call, NEW kind \in {"Stream", "Strategy"}, NEW ts \in Int,
         Deliver(kind, ts)
  PROVE  /\ call' \in Call \cup {Idle}
         /\ call'.pc # "pick"
         /\ call'.pc = "update" <=> ~Late(ts)
         /\ ~Late(ts) => call'.ts_received = ts /\ call'.kind = kind
BY DEF Deliver, Call, Idle

\* What Pick does when the heap mirrors the buffers.
LEMMA PickFacts ==
  ASSUME MergeInvariant, Pick
  PROVE  \E e \in heap :
           /\ IsTop(e)
           /\ heap' = heap \ {e}
           /\ call.mode = "step_until" => e.ts_received <= call.until
           /\ Deliver(e.kind, e.ts_received)
           /\ streams' = IF e.kind = "Stream"
                THEN [streams EXCEPT ![e.index].has_buffered = FALSE]
                ELSE streams
<1>1. PICK e \in heap :
        /\ IsTop(e)
        /\ call.mode = "step_until" => e.ts_received <= call.until
        /\ TakeStrategyEvent(e) \/ TakeStreamEvent(e)
        /\ heap' = heap \ {e}
  BY DEF Pick
<1>2. CASE e.kind = "Strategy"
  <2>1. /\ TakeStrategyEvent(e)
        /\ e.index \in DOMAIN strategy_events
        /\ e.ts_received = strategy_events[e.index].ts_received
    BY <1>1, <1>2, EntryFacts DEF MergeInvariant, TakeStreamEvent
  <2>2. Deliver(e.kind, e.ts_received) /\ streams' = streams
    BY <1>2, <2>1 DEF TakeStrategyEvent
  <2> QED BY <1>1, <1>2, <2>2
<1>3. CASE e.kind = "Stream"
  <2>1. /\ TakeStreamEvent(e)
        /\ streams[e.index].has_buffered
        /\ e.ts_received = streams[e.index].buffered.ts_received
    BY <1>1, <1>3, EntryFacts DEF MergeInvariant, TakeStrategyEvent
  <2>2. /\ Deliver(e.kind, e.ts_received)
        /\ streams' = [streams EXCEPT ![e.index].has_buffered = FALSE]
    BY <1>3, <2>1 DEF TakeStreamEvent
  <2> QED BY <1>1, <1>3, <2>2
<1>4. e.kind \in {"Stream", "Strategy"}
  BY <1>1, EntryFacts DEF MergeInvariant, HeapEntry
<1> QED BY <1>2, <1>3, <1>4

\* Without disturbance no event of the heap is late.
LEMMA NotLate ==
  ASSUME MergeInvariant, Usage = {}, call.pc # "update", NEW e \in heap
  PROVE  ~Late(e.ts_received)
<1> SUFFICES ASSUME Late(e.ts_received) PROVE FALSE
  OBVIOUS
<1>1. /\ Clock = current_ts_received
      /\ Clock # NoTime
      /\ e.ts_received < Clock
  BY DEF Late, Clock
<1>2. e.ts_received >= Clock
  BY <1>1 DEF MergeInvariant, OnTime, Late
<1>3. Clock \in Int /\ e.ts_received \in Int
  BY <1>1, EntryFacts DEF MergeInvariant, TypeOK
<1> QED BY <1>1, <1>2, <1>3

\* The stream whose event is taken waits for its next one, from the
\* timestamp of the event; everything else that waits comes after it.
LEMMA PickStep ==
  ASSUME MergeInvariant, Pick
  PROVE  MergeInvariant'
<1>1. PICK e \in heap :
        /\ IsTop(e)
        /\ heap' = heap \ {e}
        /\ Deliver(e.kind, e.ts_received)
        /\ streams' = IF e.kind = "Stream"
             THEN [streams EXCEPT ![e.index].has_buffered = FALSE]
             ELSE streams
  BY PickFacts
<1>2. /\ call.pc = "pick"
      /\ Primed
      /\ UNCHANGED <<books, strategy_events, current_ts_received>>
  BY DEF Pick, MergeInvariant, CallConsistent
<1>3. call \in Call
  BY <1>2, CallFacts DEF MergeInvariant
<1>4. /\ e \in HeapEntry
      /\ e.ts_received \in Int
      /\ e.kind \in {"Stream", "Strategy"}
      /\ e.kind = "Stream" =>
           /\ e.index \in DOMAIN streams
           /\ streams[e.index].has_buffered
           /\ e.ts_received = streams[e.index].buffered.ts_received
           /\ e = StreamEntry(e.index, streams[e.index].buffered)
  BY EntryFacts DEF MergeInvariant, HeapMirrors, HeapEntry
<1>5. /\ call' \in Call \cup {Idle}
      /\ call'.pc # "pick"
      /\ call'.pc = "update" <=> ~Late(e.ts_received)
      /\ ~Late(e.ts_received) => call'.ts_received = e.ts_received
  BY <1>1, <1>3, <1>4, DeliverFacts
<1>6. /\ streams' \in Seq(StreamState)
      /\ DOMAIN streams' = DOMAIN streams
      /\ \A j \in DOMAIN streams :
           IF e.kind = "Stream" /\ j = e.index
             THEN /\ ~streams'[j].has_buffered
                  /\ streams'[j].exhausted = streams[j].exhausted
                  /\ streams'[j].source = streams[j].source
                  /\ streams'[j].last_ts = streams[j].last_ts
             ELSE streams'[j] = streams[j]
  <2>1. CASE e.kind = "Stream"
    <3> DEFINE stream == [streams[e.index] EXCEPT !.has_buffered = FALSE]
    <3>1. streams[e.index] \in StreamState
      BY <1>4, <2>1, StreamFacts DEF MergeInvariant
    <3>2. /\ stream \in StreamState
          /\ ~stream.has_buffered
          /\ stream.exhausted = streams[e.index].exhausted
          /\ stream.source = streams[e.index].source
          /\ stream.last_ts = streams[e.index].last_ts
      BY <3>1 DEF StreamState
    <3>3. streams' = [streams EXCEPT ![e.index] = stream]
      BY <1>1, <2>1
    <3> HIDE DEF stream
    <3>4. /\ streams' \in Seq(StreamState)
          /\ DOMAIN streams' = DOMAIN streams
          /\ streams'[e.index] = stream
          /\ \A j \in DOMAIN streams : j # e.index => streams'[j] = streams[j]
      BY <1>4, <2>1, <3>2, <3>3, StreamUpdated DEF MergeInvariant, TypeOK
    <3> QED BY <2>1, <3>2, <3>4
  <2>2. CASE e.kind # "Stream"
    BY <1>1, <2>2 DEF MergeInvariant, TypeOK
  <2> QED BY <2>1, <2>2
<1>7. TypeOK'
  BY <1>1, <1>2, <1>5, <1>6 DEF MergeInvariant, TypeOK
<1>8. HeapMirrors'
  <2>1. ASSUME NEW j \in DOMAIN streams', streams'[j].has_buffered
        PROVE  StreamEntry(j, streams'[j].buffered) \in heap'
    <3>1. /\ streams'[j] = streams[j]
          /\ e.kind = "Stream" => j # e.index
      BY <1>6, <2>1
    <3>2. StreamEntry(j, streams[j].buffered) \in heap
      BY <1>6, <2>1, <3>1 DEF MergeInvariant, HeapMirrors
    <3>3. StreamEntry(j, streams[j].buffered) # e
      BY <3>1 DEF StreamEntry
    <3> QED BY <1>1, <3>1, <3>2, <3>3
  <2>2. ASSUME NEW f \in heap'
        PROVE  IF f.kind = "Stream"
                 THEN /\ f.index \in DOMAIN streams'
                      /\ streams'[f.index].has_buffered
                      /\ f = StreamEntry(f.index, streams'[f.index].buffered)
                 ELSE /\ f.index \in DOMAIN strategy_events
                      /\ f = StrategyEntry(f.index, strategy_events[f.index])
    <3>1. f \in heap /\ f # e
      BY <1>1
    <3>2. f.kind = "Stream" /\ e.kind = "Stream" => f.index # e.index
      BY <1>4, <3>1 DEF MergeInvariant, HeapMirrors
    <3> QED BY <1>6, <3>1, <3>2 DEF MergeInvariant, HeapMirrors
  <2> QED
    BY <1>2, <2>1, <2>2 DEF HeapMirrors, StreamEntry, StrategyEntry
<1>9. StreamsConsistent'
  BY <1>6 DEF MergeInvariant, StreamsConsistent
<1>10. CallConsistent'
  BY <1>2, <1>5 DEF CallConsistent, Late
<1>11. OnTime'
  <2> SUFFICES ASSUME Usage = {}, require_monotonic_ts_received,
                      Clock' # NoTime
               PROVE  /\ \A f \in heap' : f.ts_received >= Clock'
                      /\ \A j \in DOMAIN streams' : ~Ready(j)' =>
                           /\ streams'[j].last_ts # NoTime
                           /\ streams'[j].last_ts >= Clock'
    BY DEF OnTime
  <2>1. ~Late(e.ts_received)
    BY <1>2, NotLate
  <2>2. Clock' = e.ts_received
    BY <1>5, <2>1 DEF Clock
  <2>3. \A f \in heap : f.ts_received >= e.ts_received
    BY <1>1, TopFacts DEF MergeInvariant
  <2>4. ASSUME NEW j \in DOMAIN streams', ~Ready(j)'
        PROVE  streams'[j].last_ts = e.ts_received
    <3>1. e.kind = "Stream" /\ j = e.index
      BY <1>2, <1>6, <2>4 DEF Primed, Ready
    <3> QED BY <1>4, <1>6, <3>1 DEF MergeInvariant, StreamsConsistent
  <2> QED BY <1>1, <1>4, <2>2, <2>3, <2>4, TimeAssumption
<1> QED BY <1>7, <1>8, <1>9, <1>10, <1>11 DEF MergeInvariant

LEMMA EndUpdateStep ==
  ASSUME MergeInvariant, EndUpdate
  PROVE  MergeInvariant'
<1>1. call \in Call /\ call.pc = "update"
  BY CallFacts DEF MergeInvariant, EndUpdate
<1>2. /\ UNCHANGED <<books, streams, strategy_events, heap>>
      /\ current_ts_received' = call.ts_received
      /\ call' \in Call \cup {Idle}
      /\ call'.pc \in {"fill", "idle"}
      /\ call.ts_received \in Int
  BY <1>1 DEF EndUpdate, Call, Idle
<1>3. (TypeOK /\ HeapMirrors /\ StreamsConsistent /\ CallConsistent)'
  BY <1>2 DEF MergeInvariant, TypeOK, HeapMirrors, StreamsConsistent,
              CallConsistent
<1>4. OnTime'
  BY <1>1, <1>2 DEF MergeInvariant, OnTime, Clock, Ready
<1> QED BY <1>3, <1>4 DEF MergeInvariant
-----------------------------------------------------------------------------
(***************************************************************************)
(* MergeInvariant holds in every state.                                    *)
(***************************************************************************)
LEMMA Preserved ==
  ASSUME MergeInvariant, [Next]_vars
  PROVE  MergeInvariant'
<1>1. CASE UNCHANGED vars
  BY <1>1 DEF vars, MergeInvariant, TypeOK, HeapMirrors, StreamsConsistent,
              CallConsistent, OnTime, Clock, Late, Primed, Ready
<1>2. CASE \E b \in Books : AddBook(b)
  BY <1>2, AddBookStep
<1>3. CASE \E b \in Books, feed \in Feeds : AddStream(b, feed)
  BY <1>3, AddStreamStep
<1>4. CASE \E s \in Submissions : SubmitStrategyEvent(s)
  BY <1>4, SubmitStep
<1>5. CASE \E b \in Books, event \in DirectEvents : Apply(b, event)
  BY <1>5, ApplyStep
<1>6. CASE Step
  BY <1>6, StepStep
<1>7. CASE \E ts \in Deadlines : StepUntil(ts)
  BY <1>7, StepUntilStep, InputsAssumption
<1>8. CASE \E delta \in Deltas : StepFor(delta)
  BY <1>8, StepForStep, InputsAssumption
<1>9. CASE FillBuffer
  BY <1>9, FillBufferStep
<1>10. CASE Filled
  BY <1>10, FilledStep
<1>11. CASE NothingDue
  BY <1>11, NothingDueStep
<1>12. CASE Pick
  BY <1>12, PickStep
<1>13. CASE EndUpdate
  BY <1>13, EndUpdateStep
<1> QED
  BY <1>1, <1>2, <1>3, <1>4, <1>5, <1>6, <1>7, <1>8, <1>9, <1>10, <1>11,
     <1>12, <1>13 DEF Next, Continue

(***************************************************************************)
(* For any books, feeds and calls, the heap has exactly one entry for each *)
(* buffered event (and the rest of MergeInvariant).                        *)
(***************************************************************************)
THEOREM MergeCorrect == Spec => []MergeInvariant
<1>1. Init => MergeInvariant
  BY Initially
<1>2. MergeInvariant /\ [Next]_vars => MergeInvariant'
  BY Preserved
<1> QED BY <1>1, <1>2, PTL DEF Spec

\* The types of the state.
THEOREM MultiBookTypes == Spec => []TypeOK
<1>1. MergeInvariant => TypeOK
  BY DEF MergeInvariant
<1> QED BY <1>1, MergeCorrect, PTL

\* The heap has exactly one entry for every event that is buffered.
THEOREM HeapCorrect == Spec => []HeapMirrors
<1>1. MergeInvariant => HeapMirrors
  BY DEF MergeInvariant
<1> QED BY <1>1, MergeCorrect, PTL
-----------------------------------------------------------------------------
(***************************************************************************)
(* When all streams are primed, what a stream delivers in order does not   *)
(* come before the event that it has buffered, which is in the heap.       *)
(***************************************************************************)
LEMMA UpcomingFacts ==
  ASSUME MergeInvariant, Primed, NEW i \in DOMAIN streams,
         NEW t \in UpcomingInOrder(i)
  PROVE  /\ t \in Int
         /\ \E e \in heap : e.kind = "Stream" /\ t >= e.ts_received
<1>1. /\ streams[i] \in StreamState
      /\ streams[i].source \in Seq(Event \cup {Malformed})
      /\ streams[i].buffered.ts_received \in Int
  BY StreamFacts DEF MergeInvariant, StreamState, Event
<1>2. t \in Upcoming(i)
  BY DEF UpcomingInOrder
<1>3. \A k \in DOMAIN streams[i].source :
        streams[i].source[k] \in Event \cup {Malformed}
  BY <1>1, ElementOfSeq, LenProperties
<1>4. t \in Int
  BY <1>1, <1>2, <1>3 DEF Upcoming, Event
<1>5. streams[i].has_buffered
  <2>1. SUFFICES ASSUME ~streams[i].has_buffered PROVE FALSE
    OBVIOUS
  <2>2. streams[i].source = <<>>
    BY <2>1 DEF Primed, Ready, MergeInvariant, StreamsConsistent
  <2> QED BY <1>2, <2>1, <2>2 DEF Upcoming
<1>6. t >= streams[i].buffered.ts_received
  BY <1>1, <1>5, TimeAssumption
     DEF MergeInvariant, StreamsConsistent, UpcomingInOrder
<1>7. /\ StreamEntry(i, streams[i].buffered) \in heap
      /\ StreamEntry(i, streams[i].buffered).kind = "Stream"
      /\ StreamEntry(i, streams[i].buffered).ts_received
           = streams[i].buffered.ts_received
  BY <1>5 DEF MergeInvariant, HeapMirrors, StreamEntry
<1> QED BY <1>4, <1>6, <1>7

\* Only Pick takes something from the heap.
LEMMA OnlyPick ==
  ASSUME MergeInvariant, [Next]_vars, call.pc = "pick", heap' # heap
  PROVE  Pick
<1>1. call # Idle
  BY DEF Idle
<1> QED
  BY <1>1 DEF Next, Continue, AddBook, AddStream, SubmitStrategyEvent, Apply,
              Step, StepUntil, StepFor, FillBuffer, Filled, NothingDue,
              EndUpdate, vars

(***************************************************************************)
(* No look-ahead.  The event that is taken was on top of the heap, which   *)
(* has an entry for the first event of every stream that has one left; the *)
(* order of the heap puts streams before strategies.                       *)
(***************************************************************************)
THEOREM NoLookAheadCorrect == Spec => NoLookAhead
<1>1. ASSUME MergeInvariant, [Next]_vars, Taken
      PROVE  NothingBefore(call'.kind, call'.ts_received)
  <2>1. call # Idle /\ call.pc = "pick" /\ call'.pc = "update"
    BY <1>1 DEF Taken, Idle
  <2>2. Pick
    <3>1. ~NothingDue
      BY <2>1 DEF NothingDue, Idle
    <3>2. call' # call
      BY <2>1
    <3> QED
      BY <1>1, <2>1, <3>1, <3>2 DEF Next, Continue, AddBook, AddStream,
         SubmitStrategyEvent, Apply, Step, StepUntil, StepFor, FillBuffer,
         Filled, EndUpdate, vars
  <2>3. PICK e \in heap :
          IsTop(e) /\ Deliver(e.kind, e.ts_received)
    BY <1>1, <2>2, PickFacts
  <2>4. /\ e.ts_received \in Int
        /\ e.kind \in {"Stream", "Strategy"}
    BY <1>1, EntryFacts DEF MergeInvariant, HeapEntry
  <2>5. call'.kind = e.kind /\ call'.ts_received = e.ts_received
    BY <1>1, <2>1, <2>3, <2>4, CallFacts, DeliverFacts DEF MergeInvariant
  <2>6. \A f \in heap :
          /\ f.ts_received \in Int
          /\ f.ts_received >= e.ts_received
          /\ e.kind = "Strategy" /\ f.kind = "Stream" =>
               f.ts_received > e.ts_received
    BY <1>1, <2>3, TopFacts, EntryFacts DEF MergeInvariant
  <2>7. ASSUME NEW i \in DOMAIN streams, NEW t \in UpcomingInOrder(i)
        PROVE  IF e.kind = "Strategy" THEN t > e.ts_received
                                      ELSE t >= e.ts_received
    <3>1. Primed
      BY <1>1, <2>1 DEF MergeInvariant, CallConsistent
    <3>2. t \in Int /\ \E f \in heap : f.kind = "Stream" /\ t >= f.ts_received
      BY <1>1, <2>7, <3>1, UpcomingFacts
    <3> QED BY <2>4, <2>6, <3>2
  <2> QED BY <2>5, <2>6, <2>7 DEF NothingBefore
<1> QED BY <1>1, MergeCorrect, PTL DEF Spec, NoLookAhead

\* The clock only moves when an update returns, to a time that was not late.
THEOREM ClockMonotoneCorrect == Spec => ClockMonotone
<1>1. ASSUME MergeInvariant, [Next]_vars, require_monotonic_ts_received,
             current_ts_received # NoTime
      PROVE  /\ current_ts_received' # NoTime
             /\ current_ts_received' >= current_ts_received
  <2>1. current_ts_received \in Int
    BY <1>1 DEF MergeInvariant, TypeOK
  <2>2. CASE EndUpdate
    <3>1. call \in Call /\ ~Late(call.ts_received)
      BY <1>1, <2>2, CallFacts DEF MergeInvariant, CallConsistent, EndUpdate
    <3>2. call.ts_received \in Int
      BY <3>1 DEF Call
    <3> QED BY <1>1, <2>1, <2>2, <3>1, <3>2, TimeAssumption DEF Late, EndUpdate
  <2>3. CASE ~EndUpdate
    <3>1. UNCHANGED current_ts_received
      BY <1>1, <2>3 DEF Next, Continue, AddBook, AddStream, Apply, Step,
         SubmitStrategyEvent, StepUntil, StepFor, FillBuffer, Filled,
         NothingDue, Pick, vars
    <3> QED BY <1>1, <2>1, <3>1
  <2> QED BY <2>2, <2>3
<1>2. MergeInvariant /\ [Next]_vars =>
        (require_monotonic_ts_received /\ current_ts_received # NoTime =>
           /\ current_ts_received' # NoTime
           /\ current_ts_received' >= current_ts_received)
  BY <1>1
<1> QED BY <1>2, MergeCorrect, PTL DEF Spec, ClockMonotone

\* Without disturbance, what is taken from the heap reaches its book.
THEOREM NothingDroppedCorrect == Spec => NothingDropped
<1>1. ASSUME MergeInvariant, [Next]_vars, Usage = {}, call.pc = "pick",
             heap' # heap
      PROVE  call'.pc = "update"
  <2>1. Pick
    BY <1>1, OnlyPick
  <2>2. PICK e \in heap : Deliver(e.kind, e.ts_received)
    BY <1>1, <2>1, PickFacts
  <2>3. ~Late(e.ts_received)
    BY <1>1, NotLate
  <2> QED
    BY <1>1, <2>2, <2>3, EntryFacts, CallFacts, DeliverFacts
       DEF MergeInvariant, HeapEntry
<1>2. MergeInvariant /\ [Next]_vars =>
        (Usage = {} /\ call.pc = "pick" /\ heap' # heap =>
           call'.pc = "update")
  BY <1>1
<1> QED BY <1>2, MergeCorrect, PTL DEF Spec, NothingDropped

\* When step_until returns, everything that is left is later.
THEOREM StepUntilCorrect == Spec => StepUntilComplete
<1>1. ASSUME MergeInvariant, [Next]_vars, call.pc = "pick",
             call.mode = "step_until", call' = Idle, heap' = heap
      PROVE  NothingDueBy(call.until)
  <2>1. call # Idle /\ call.until \in Int
    BY <1>1, CallFacts DEF MergeInvariant, Call, Idle
  <2>2. NothingDue
    BY <1>1, <2>1 DEF Next, Continue, AddBook, AddStream, SubmitStrategyEvent,
       Apply, Step, StepUntil, StepFor, FillBuffer, Filled, Pick, EndUpdate,
       vars
  <2>3. ASSUME NEW f \in heap
        PROVE  f.ts_received \in Int /\ f.ts_received > call.until
    <3>1. PICK e \in heap : IsTop(e) /\ e.ts_received > call.until
      BY <1>1, <2>2 DEF NothingDue
    <3>2. /\ e.ts_received \in Int
          /\ f.ts_received \in Int
          /\ f.ts_received >= e.ts_received
      BY <1>1, <3>1, EntryFacts, TopFacts DEF MergeInvariant
    <3> QED BY <2>1, <3>1, <3>2
  <2>4. ASSUME NEW i \in DOMAIN streams, NEW t \in UpcomingInOrder(i)
        PROVE  t > call.until
    <3>1. Primed
      BY <1>1 DEF MergeInvariant, CallConsistent
    <3>2. t \in Int /\ \E f \in heap : t >= f.ts_received
      BY <1>1, <3>1, UpcomingFacts
    <3> QED BY <2>1, <2>3, <3>2
  <2> QED BY <2>3, <2>4 DEF NothingDueBy
<1> QED BY <1>1, MergeCorrect, PTL DEF Spec, StepUntilComplete
=============================================================================
