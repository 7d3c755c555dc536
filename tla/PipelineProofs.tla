---------------------------- MODULE PipelineProofs ----------------------------
(***************************************************************************)
(* Every line that the inbound queue takes reaches the engine, in order,   *)
(* and every diagnostic is counted or refused, for queues of any capacity  *)
(* and any number of lines and diagnostics.                                *)
(***************************************************************************)
EXTENDS ReplayPipeline, SequenceTheorems, TLAPS

Queues(capacity) ==
  [capacity : {capacity}, queue : Seq(Nat), isClosed : BOOLEAN,
   notFull : SUBSET Threads, notEmpty : SUBSET Threads]

Places ==
  {"check", "receive", "push", "close", "pop", "update", "sleep",
   "close inbound", "close diagnostics", "shut socket", "done"}

TypeOK ==
  /\ inbound \in Queues(InboundCapacity)
  /\ diagnostics \in Queues(DiagnosticsCapacity)
  /\ shutdown_requested \in BOOLEAN
  /\ {sent, unsent, unreported, emitted, dropped, diag_count} \subseteq Nat
  /\ accepted \in Seq(Nat) /\ processed \in Seq(Nat)
  /\ pc \in [Threads -> Places]
  /\ closing \in [Threads -> 0 .. 2]

\* The lines accepted were processed or are queued, and before a deadline
\* they are all that were sent.
LinesKept ==
  /\ accepted = processed \o inbound.queue
  /\ ~shutdown_requested => accepted = [n \in 1 .. sent |-> n]

\* Only the input thread and the timer close inbound, and processing leaves
\* it only closed and empty.
InboundSound ==
  /\ inbound.isClosed /\ ~shutdown_requested => pc["input"] \in {"close", "done"}
  /\ pc["processing"] \in {"close", "done"} =>
       inbound.isClosed /\ inbound.queue = <<>>

\* The diagnostics emitted were refused, were counted or are queued.
DiagnosticsKept ==
  /\ emitted = dropped + diag_count + Len(diagnostics.queue)
  /\ dropped > 0 => shutdown_requested

\* The same of the second queue, which processing and the timer close.
DiagnosticsSound ==
  /\ diagnostics.isClosed /\ ~shutdown_requested =>
       pc["processing"] \in {"close", "done"}
  /\ pc["diagnostics"] = "done" =>
       diagnostics.isClosed /\ diagnostics.queue = <<>>

\* The timer is past its sleep only with the shutdown requested.
TimerSound ==
  pc["timer"] \in {"close inbound", "close diagnostics", "shut socket"} =>
    shutdown_requested

PipelineInvariant ==
  /\ TypeOK
  /\ LinesKept
  /\ InboundSound
  /\ DiagnosticsKept
  /\ DiagnosticsSound
  /\ TimerSound
-----------------------------------------------------------------------------
(***************************************************************************)
(* What the operations of a queue do to the values that it holds.          *)
(***************************************************************************)
LEMMA NotifyOneSubset ==
  ASSUME NEW waiting \in SUBSET Threads, NEW rest \in NotifyOne(waiting)
  PROVE  rest \in SUBSET Threads
BY DEF NotifyOne

LEMMA QueueAfterPush ==
  ASSUME NEW c, NEW q \in Queues(c), NEW v \in Nat, NEW r \in Pushed(q, v)
  PROVE  /\ r \in Queues(c)
         /\ r.queue = Append(q.queue, v)
         /\ r.isClosed = q.isClosed
<1>1. PICK waiting \in NotifyOne(q.notEmpty) :
        r = [q EXCEPT !.queue = Append(@, v), !.notEmpty = waiting]
  BY DEF Pushed
<1>2. waiting \in SUBSET Threads
  BY NotifyOneSubset DEF Queues
<1>3. Append(q.queue, v) \in Seq(Nat)
  BY AppendProperties DEF Queues
<1> QED BY <1>1, <1>2, <1>3 DEF Queues

LEMMA QueueAfterPop ==
  ASSUME NEW c, NEW q \in Queues(c), q.queue # <<>>, NEW r \in Popped(q)
  PROVE  /\ r \in Queues(c)
         /\ r.queue = Tail(q.queue)
         /\ r.isClosed = q.isClosed
<1>1. PICK waiting \in NotifyOne(q.notFull) :
        r = [q EXCEPT !.queue = Tail(@), !.notFull = waiting]
  BY DEF Popped
<1>2. waiting \in SUBSET Threads
  BY NotifyOneSubset DEF Queues
<1>3. Tail(q.queue) \in Seq(Nat)
  BY HeadTailProperties DEF Queues
<1> QED BY <1>1, <1>2, <1>3 DEF Queues

LEMMA QueueAfterWait ==
  ASSUME NEW c, NEW q \in Queues(c), NEW t \in Threads,
         NEW r \in {AwaitRoom(q, t), AwaitValue(q, t), Woken(q, t)}
  PROVE  /\ r \in Queues(c)
         /\ r.queue = q.queue
         /\ r.isClosed = q.isClosed
BY DEF Queues, AwaitRoom, AwaitValue, Woken

LEMMA QueueAfterClose ==
  ASSUME NEW c, NEW q \in Queues(c), NEW k \in 0 .. 2
  PROVE  /\ AfterClose(q, k) \in Queues(c)
         /\ AfterClose(q, k).queue = q.queue
         /\ q.isClosed => AfterClose(q, k).isClosed
<1>1. /\ Closed(q) \in Queues(c)
      /\ Closed(q).queue = q.queue /\ Closed(q).isClosed
  BY DEF Closed, Queues
<1>2. /\ ConsumersNotified(q) \in Queues(c)
      /\ ConsumersNotified(q).queue = q.queue
      /\ ConsumersNotified(q).isClosed = q.isClosed
  BY DEF ConsumersNotified, Queues
<1>3. /\ ProducersNotified(q) \in Queues(c)
      /\ ProducersNotified(q).queue = q.queue
      /\ ProducersNotified(q).isClosed = q.isClosed
  BY DEF ProducersNotified, Queues
<1>4. \/ k = 0 /\ AfterClose(q, k) = Closed(q)
      \/ k = 1 /\ AfterClose(q, k) = ConsumersNotified(q)
      \/ k = 2 /\ AfterClose(q, k) = ProducersNotified(q)
  BY DEF AfterClose
<1> QED BY <1>1, <1>2, <1>3, <1>4

LEMMA AppendToTheSecond ==
  ASSUME NEW s \in Seq(Nat), NEW t \in Seq(Nat), NEW v \in Nat
  PROVE  Append(s \o t, v) = s \o Append(t, v)
<1>1. s \o t \in Seq(Nat) /\ <<v>> \in Seq(Nat)
  BY ConcatProperties
<1>2. /\ Append(s \o t, v) = (s \o t) \o <<v>>
      /\ Append(t, v) = t \o <<v>>
  BY <1>1, AppendIsConcat
<1>3. (s \o t) \o <<v>> = s \o (t \o <<v>>)
  BY <1>1, ConcatAssociative
<1> QED BY <1>2, <1>3

LEMMA HeadToTheFirst ==
  ASSUME NEW s \in Seq(Nat), NEW t \in Seq(Nat), t # <<>>
  PROVE  Append(s, Head(t)) \o Tail(t) = s \o t
<1>1. Head(t) \in Nat /\ Tail(t) \in Seq(Nat) /\ <<Head(t)>> \in Seq(Nat)
  BY HeadTailProperties
<1>2. <<Head(t)>> \o Tail(t) = t
  <2> DEFINE u == <<Head(t)>> \o Tail(t)
  <2>1. /\ u \in Seq(Nat)
        /\ Len(u) = 1 + (Len(t) - 1)
        /\ \A i \in 1 .. Len(u) :
             u[i] = IF i <= 1 THEN Head(t) ELSE Tail(t)[i - 1]
    BY <1>1, ConcatProperties, HeadTailProperties
  <2>2. Len(t) \in Nat
    BY LenProperties
  <2>3. \A i \in 1 .. Len(t) - 1 : Tail(t)[i] = t[i + 1]
    BY HeadTailProperties
  <2>4. Head(t) = t[1]
    OBVIOUS
  <2>5. Len(u) = Len(t) /\ \A i \in 1 .. Len(t) : u[i] = t[i]
    BY <2>1, <2>2, <2>3, <2>4
  <2> QED BY <2>1, <2>5, SeqEqual
<1>3. Append(s, Head(t)) = s \o <<Head(t)>>
  BY <1>1, AppendIsConcat
<1>4. (s \o <<Head(t)>>) \o Tail(t) = s \o (<<Head(t)>> \o Tail(t))
  BY <1>1, ConcatAssociative
<1> QED BY <1>2, <1>3, <1>4

LEMMA QueueFacts ==
  ASSUME NEW c, NEW q \in Queues(c)
  PROVE  /\ q.queue \in Seq(Nat)
         /\ Len(q.queue) \in Nat
         /\ q.isClosed \in BOOLEAN
BY LenProperties DEF Queues
-----------------------------------------------------------------------------
(***************************************************************************)
(* Types.                                                                  *)
(***************************************************************************)
LEMMA PlaceTypes ==
  ASSUME pc \in [Threads -> Places], closing \in [Threads -> 0 .. 2],
         NEW t \in Threads, NEW from, NEW to \in Places
  PROVE  /\ Goes(t, from, to) \/ Stays(t, from) \/ Closes(t, from, to) =>
              /\ pc' \in [Threads -> Places]
              /\ closing' \in [Threads -> 0 .. 2]
              /\ \A u \in Threads \ {t} : pc'[u] = pc[u]
              /\ pc[t] = from /\ pc'[t] \in {from, to}
         /\ Goes(t, from, to) => pc'[t] = to
<1>1. (closing[t] + 1) % 3 \in 0 .. 2
  <2>1. closing[t] \in {0, 1, 2}
    OBVIOUS
  <2> QED BY <2>1
<1>2. CASE Goes(t, from, to)
  BY <1>2 DEF Goes
<1>3. CASE Stays(t, from)
  BY <1>3 DEF Stays, Goes
<1>4. CASE Closes(t, from, to)
  BY <1>1, <1>4 DEF Closes, Goes
<1> QED BY <1>2, <1>3, <1>4

\* The same of one thread that goes to another place.
LEMMA ThreadGoes ==
  ASSUME pc \in [Threads -> Places], closing \in [Threads -> 0 .. 2],
         NEW t \in Threads, NEW from, NEW to \in Places, Goes(t, from, to)
  PROVE  /\ pc' \in [Threads -> Places]
         /\ closing' \in [Threads -> 0 .. 2]
         /\ \A u \in Threads \ {t} : pc'[u] = pc[u]
         /\ pc[t] = from /\ pc'[t] = to
BY DEF Goes

LEMMA ThreadFacts ==
  /\ {"input", "processing", "diagnostics", "timer"} = Threads
  /\ \A place \in {"check", "receive", "push", "close", "pop", "update",
                   "sleep", "close inbound", "close diagnostics",
                   "shut socket", "done"} : place \in Places
BY DEF Threads, Places

(***************************************************************************)
(* A step that leaves the lines, the diagnostics and the values of the     *)
(* queues alone, and opens no queue, keeps what says how many there are.   *)
(***************************************************************************)
SameCounts ==
  /\ UNCHANGED <<sent, accepted, processed, emitted, dropped, diag_count>>
  /\ inbound'.queue = inbound.queue
  /\ diagnostics'.queue = diagnostics.queue
  /\ inbound.isClosed => inbound'.isClosed
  /\ diagnostics.isClosed => diagnostics'.isClosed
  /\ shutdown_requested => shutdown_requested'

LEMMA SameCountsKept ==
  ASSUME LinesKept, DiagnosticsKept, SameCounts
  PROVE  LinesKept' /\ DiagnosticsKept'
BY DEF LinesKept, DiagnosticsKept, SameCounts
-----------------------------------------------------------------------------
(***************************************************************************)
(* The steps between the queues: they move a thread.                       *)
(***************************************************************************)
LEMMA MoveKeeps ==
  ASSUME PipelineInvariant,
         \/ CheckShutdown \/ ReceiveNothing \/ ReceiveFails \/ EndPushing
         \/ EndUpdate \/ Deadline \/ ShutSocket
         \/ \E lines \in 0 .. MaxDatagram : Receive(lines)
  PROVE  PipelineInvariant'
<1>1. /\ pc \in [Threads -> Places] /\ closing \in [Threads -> 0 .. 2]
      /\ TypeOK
  BY DEF PipelineInvariant, TypeOK
<1>2. UNCHANGED <<inbound, diagnostics, sent, accepted, processingVars,
                  diag_count>>
  BY DEF CheckShutdown, ReceiveNothing, ReceiveFails, EndPushing, EndUpdate,
         Deadline, ShutSocket, Receive, shutdownVars, inputVars,
         processingVars
<1>3. /\ shutdown_requested' \in BOOLEAN
      /\ shutdown_requested => shutdown_requested'
      /\ unsent' \in Nat
  <2>1. shutdown_requested' = shutdown_requested \/ shutdown_requested' = TRUE
    BY DEF CheckShutdown, ReceiveNothing, ReceiveFails, EndPushing, EndUpdate,
           Deadline, ShutSocket, Receive, shutdownVars
  <2>2. unsent' = unsent \/ unsent' \in 0 .. MaxDatagram
    BY DEF CheckShutdown, ReceiveNothing, ReceiveFails, EndPushing, EndUpdate,
           Deadline, ShutSocket, Receive, inputVars
  <2>3. shutdown_requested \in BOOLEAN /\ unsent \in Nat
    BY <1>1 DEF TypeOK
  <2>4. unsent' \in Nat
    BY <2>2, <2>3, BoundsAssumption
  <2> QED BY <2>1, <2>3, <2>4, Zenon
<1>4. PICK t \in Threads, from \in Places, to \in Places :
        /\ Goes(t, from, to)
        /\ \/ t = "input" /\ from \in {"check", "receive", "push"}
           \/ t = "processing" /\ to = "pop" /\ from = "update"
           \/ t = "timer" /\ from = "sleep" /\ shutdown_requested'
           \/ t = "timer" /\ to = "done"
  BY ThreadFacts
     DEF CheckShutdown, ReceiveNothing, ReceiveFails, EndPushing, EndUpdate,
         Deadline, ShutSocket, Receive
<1>5. /\ pc' \in [Threads -> Places]
      /\ closing' \in [Threads -> 0 .. 2]
      /\ \A u \in Threads \ {t} : pc'[u] = pc[u]
      /\ pc[t] = from /\ pc'[t] = to
  BY <1>1, <1>4, PlaceTypes
<1>6. TypeOK'
  BY <1>1, <1>2, <1>3, <1>5 DEF TypeOK, processingVars
<1>7. LinesKept' /\ DiagnosticsKept'
  BY <1>2, <1>3, SameCountsKept
     DEF PipelineInvariant, SameCounts, processingVars
<1>8. InboundSound'
  BY <1>2, <1>3, <1>4, <1>5, ThreadFacts DEF PipelineInvariant, InboundSound
<1>9. DiagnosticsSound'
  BY <1>2, <1>3, <1>4, <1>5, ThreadFacts
     DEF PipelineInvariant, DiagnosticsSound
<1>10. TimerSound'
  BY <1>3, <1>4, <1>5, ThreadFacts DEF PipelineInvariant, TimerSound
<1> QED BY <1>6, <1>7, <1>8, <1>9, <1>10 DEF PipelineInvariant

(***************************************************************************)
(* The steps of close(), and the waits of a thread and their ends.         *)
(***************************************************************************)
LEMMA CloseInboundKeeps ==
  ASSUME PipelineInvariant,
         \/ EndInput
         \/ CloseInbound("timer", "close inbound", "close diagnostics")
  PROVE  PipelineInvariant'
<1>1. /\ pc \in [Threads -> Places] /\ closing \in [Threads -> 0 .. 2]
      /\ inbound \in Queues(InboundCapacity)
      /\ TypeOK
  BY DEF PipelineInvariant, TypeOK
<1>2. PICK t \in Threads, from \in Places, to \in Places :
        /\ CloseInbound(t, from, to)
        /\ \/ t = "input" /\ from = "close" /\ to = "done"
           \/ t = "timer" /\ from = "close inbound" /\ to = "close diagnostics"
  BY ThreadFacts DEF EndInput
<1>3. /\ pc' \in [Threads -> Places]
      /\ closing' \in [Threads -> 0 .. 2]
      /\ \A u \in Threads \ {t} : pc'[u] = pc[u]
      /\ pc[t] = from /\ pc'[t] \in {from, to}
  BY <1>1, <1>2, PlaceTypes DEF CloseInbound
<1>4. PICK k \in 0 .. 2 : k = closing[t]
  BY <1>1
<1>5. /\ inbound' \in Queues(InboundCapacity)
      /\ inbound'.queue = inbound.queue
      /\ inbound.isClosed => inbound'.isClosed
  BY <1>1, <1>2, <1>4, QueueAfterClose DEF CloseInbound
<1>6. UNCHANGED <<diagnostics, shutdownVars, inputVars, processingVars,
                  diag_count>>
  BY <1>2 DEF CloseInbound
<1>7. TypeOK'
  BY <1>1, <1>3, <1>5, <1>6
     DEF TypeOK, shutdownVars, inputVars, processingVars
<1>8. LinesKept' /\ DiagnosticsKept'
  BY <1>5, <1>6, SameCountsKept
     DEF PipelineInvariant, SameCounts, shutdownVars, inputVars,
         processingVars
<1>9. t = "timer" => shutdown_requested
  BY <1>2, <1>3 DEF PipelineInvariant, TimerSound
<1>10. InboundSound'
  BY <1>2, <1>3, <1>5, <1>6, <1>9, ThreadFacts
     DEF PipelineInvariant, InboundSound, shutdownVars
<1>11. DiagnosticsSound'
  BY <1>2, <1>3, <1>6, <1>9, ThreadFacts
     DEF PipelineInvariant, DiagnosticsSound, shutdownVars
<1>12. TimerSound'
  BY <1>2, <1>3, <1>6, <1>9, ThreadFacts
     DEF PipelineInvariant, TimerSound, shutdownVars
<1> QED BY <1>7, <1>8, <1>10, <1>11, <1>12 DEF PipelineInvariant

LEMMA CloseDiagnosticsKeeps ==
  ASSUME PipelineInvariant,
         \/ EndProcessing
         \/ CloseDiagnostics("timer", "close diagnostics", "shut socket")
  PROVE  PipelineInvariant'
<1>1. /\ pc \in [Threads -> Places] /\ closing \in [Threads -> 0 .. 2]
      /\ diagnostics \in Queues(DiagnosticsCapacity)
      /\ TypeOK
  BY DEF PipelineInvariant, TypeOK
<1>2. PICK t \in Threads, from \in Places, to \in Places :
        /\ CloseDiagnostics(t, from, to)
        /\ \/ t = "processing" /\ from = "close" /\ to = "done"
           \/ t = "timer" /\ from = "close diagnostics" /\ to = "shut socket"
  BY ThreadFacts DEF EndProcessing
<1>3. /\ pc' \in [Threads -> Places]
      /\ closing' \in [Threads -> 0 .. 2]
      /\ \A u \in Threads \ {t} : pc'[u] = pc[u]
      /\ pc[t] = from /\ pc'[t] \in {from, to}
  BY <1>1, <1>2, PlaceTypes DEF CloseDiagnostics
<1>4. PICK k \in 0 .. 2 : k = closing[t]
  BY <1>1
<1>5. /\ diagnostics' \in Queues(DiagnosticsCapacity)
      /\ diagnostics'.queue = diagnostics.queue
      /\ diagnostics.isClosed => diagnostics'.isClosed
  BY <1>1, <1>2, <1>4, QueueAfterClose DEF CloseDiagnostics
<1>6. UNCHANGED <<inbound, shutdownVars, inputVars, processingVars,
                  diag_count>>
  BY <1>2 DEF CloseDiagnostics
<1>7. TypeOK'
  BY <1>1, <1>3, <1>5, <1>6
     DEF TypeOK, shutdownVars, inputVars, processingVars
<1>8. LinesKept' /\ DiagnosticsKept'
  BY <1>5, <1>6, SameCountsKept
     DEF PipelineInvariant, SameCounts, shutdownVars, inputVars,
         processingVars
<1>9. t = "timer" => shutdown_requested
  BY <1>2, <1>3 DEF PipelineInvariant, TimerSound
<1>10. InboundSound'
  BY <1>2, <1>3, <1>6, <1>9, ThreadFacts
     DEF PipelineInvariant, InboundSound, shutdownVars
<1>11. DiagnosticsSound'
  BY <1>2, <1>3, <1>5, <1>6, <1>9, ThreadFacts
     DEF PipelineInvariant, DiagnosticsSound, shutdownVars
<1>12. TimerSound'
  BY <1>2, <1>3, <1>6, <1>9, ThreadFacts
     DEF PipelineInvariant, TimerSound, shutdownVars
<1> QED BY <1>7, <1>8, <1>10, <1>11, <1>12 DEF PipelineInvariant

LEMMA WaitKeeps ==
  ASSUME PipelineInvariant,
         UNCHANGED <<shutdownVars, inputVars, processingVars, diag_count, pc,
                     closing>>,
         inbound' \in Queues(InboundCapacity),
         inbound'.queue = inbound.queue,
         inbound'.isClosed = inbound.isClosed,
         diagnostics' \in Queues(DiagnosticsCapacity),
         diagnostics'.queue = diagnostics.queue,
         diagnostics'.isClosed = diagnostics.isClosed
  PROVE  PipelineInvariant'
<1>1. TypeOK'
  BY DEF PipelineInvariant, TypeOK, shutdownVars, inputVars, processingVars
<1>2. LinesKept' /\ InboundSound'
  BY DEF PipelineInvariant, LinesKept, InboundSound, shutdownVars, inputVars,
         processingVars
<1>3. DiagnosticsKept' /\ DiagnosticsSound' /\ TimerSound'
  BY DEF PipelineInvariant, DiagnosticsKept, DiagnosticsSound, TimerSound,
         shutdownVars, processingVars
<1> QED BY <1>1, <1>2, <1>3 DEF PipelineInvariant

LEMMA WakeUpKeeps ==
  ASSUME PipelineInvariant, NEW t \in Threads, WakeUp(t)
  PROVE  PipelineInvariant'
<1>1. /\ inbound \in Queues(InboundCapacity)
      /\ diagnostics \in Queues(DiagnosticsCapacity)
  BY DEF PipelineInvariant, TypeOK
<1>2. /\ inbound' \in Queues(InboundCapacity)
      /\ inbound'.queue = inbound.queue
      /\ inbound'.isClosed = inbound.isClosed
  BY <1>1, QueueAfterWait DEF WakeUp
<1>3. /\ diagnostics' \in Queues(DiagnosticsCapacity)
      /\ diagnostics'.queue = diagnostics.queue
      /\ diagnostics'.isClosed = diagnostics.isClosed
  BY <1>1, QueueAfterWait DEF WakeUp
<1>4. UNCHANGED <<shutdownVars, inputVars, processingVars, diag_count, pc,
                  closing>>
  BY DEF WakeUp
<1> QED BY <1>2, <1>3, <1>4, WaitKeeps

(***************************************************************************)
(* A line is pushed, or refused.                                           *)
(***************************************************************************)
LEMMA PushLineKeeps ==
  ASSUME PipelineInvariant, PushLine
  PROVE  PipelineInvariant'
<1>1. /\ inbound \in Queues(InboundCapacity)
      /\ sent \in Nat /\ unsent \in Nat
      /\ accepted \in Seq(Nat) /\ processed \in Seq(Nat)
      /\ TypeOK
  BY DEF PipelineInvariant, TypeOK
<1>2. UNCHANGED <<diagnostics, shutdownVars, processingVars, diag_count, pc,
                  closing>>
  BY DEF PushLine, Stays
<1>3. CASE PushWaits(inbound)
  <2>1. inbound' = AwaitRoom(inbound, "input") /\ UNCHANGED inputVars
    BY <1>3 DEF PushLine
  <2>2. /\ inbound' \in Queues(InboundCapacity)
        /\ inbound'.queue = inbound.queue
        /\ inbound'.isClosed = inbound.isClosed
    BY <1>1, <2>1, QueueAfterWait, ThreadFacts
  <2>3. /\ diagnostics' \in Queues(DiagnosticsCapacity)
        /\ diagnostics' = diagnostics
    BY <1>1, <1>2 DEF TypeOK
  <2> QED BY <1>2, <2>1, <2>2, <2>3, WaitKeeps
<1>4. CASE ~PushWaits(inbound)
  <2>1. sent' = sent + 1 /\ unsent' = unsent - 1 /\ unsent > 0
    BY <1>4 DEF PushLine
  <2>2. pc["input"] = "push"
    BY DEF PushLine, Stays
  <2>3. CASE PushRefused(inbound)
    <3>1. UNCHANGED <<inbound, accepted>>
      BY <1>4, <2>3 DEF PushLine
    <3>2. inbound.isClosed
      <4>1. inbound.capacity = InboundCapacity
        BY <1>1 DEF Queues
      <4> QED BY <2>3, <4>1, BoundsAssumption DEF PushRefused
    <3>3. shutdown_requested
      BY <2>2, <3>2 DEF PipelineInvariant, InboundSound
    <3>4. TypeOK'
      BY <1>1, <1>2, <2>1, <3>1
         DEF TypeOK, shutdownVars, processingVars
    <3> QED BY <1>2, <3>1, <3>3, <3>4
            DEF PipelineInvariant, LinesKept, InboundSound, DiagnosticsKept,
                DiagnosticsSound, TimerSound, shutdownVars, processingVars
  <2>4. CASE ~PushRefused(inbound)
    <3>1. /\ inbound' \in Pushed(inbound, sent + 1)
          /\ accepted' = Append(accepted, sent + 1)
      BY <1>4, <2>1, <2>4 DEF PushLine
    <3>2. /\ inbound' \in Queues(InboundCapacity)
          /\ inbound'.queue = Append(inbound.queue, sent + 1)
          /\ inbound'.isClosed = inbound.isClosed
      <4>1. sent + 1 \in Nat
        BY <1>1
      <4> QED BY <1>1, <3>1, <4>1, QueueAfterPush
    <3>3. TypeOK'
      <4>1. sent + 1 \in Nat /\ unsent - 1 \in Nat
        BY <1>1, <2>1
      <4>2. accepted' \in Seq(Nat)
        BY <1>1, <3>1, <4>1, AppendProperties
      <4> QED BY <1>1, <1>2, <2>1, <3>2, <4>1, <4>2
              DEF TypeOK, shutdownVars, processingVars
    <3>4. ~inbound.isClosed
      BY <2>4 DEF PushRefused
    <3>5. LinesKept'
      <4>1. accepted' = processed' \o inbound'.queue
        <5>1. accepted = processed \o inbound.queue
          BY DEF PipelineInvariant, LinesKept
        <5>2. inbound.queue \in Seq(Nat) /\ sent + 1 \in Nat
          BY <1>1, QueueFacts
        <5>3. Append(accepted, sent + 1) =
                processed \o Append(inbound.queue, sent + 1)
          BY <1>1, <5>1, <5>2, AppendToTheSecond
        <5> QED BY <1>2, <3>1, <3>2, <5>3 DEF processingVars
      <4>2. ASSUME ~shutdown_requested'
            PROVE  accepted' = [n \in 1 .. sent' |-> n]
        <5>1. accepted = [n \in 1 .. sent |-> n]
          BY <1>2, <4>2 DEF PipelineInvariant, LinesKept, shutdownVars
        <5>2. Len(accepted) = sent
          BY <1>1, <5>1, LenProperties
        <5>3. /\ accepted' \in Seq(Nat)
              /\ DOMAIN accepted' = 1 .. sent + 1
              /\ \A n \in 1 .. sent : accepted'[n] = accepted[n]
              /\ accepted'[sent + 1] = sent + 1
          <6>1. sent + 1 \in Nat
            BY <1>1
          <6> QED BY <1>1, <3>1, <5>2, <6>1, AppendProperties, LenProperties
        <5>4. \A n \in 1 .. sent + 1 : accepted'[n] = n
          BY <1>1, <5>1, <5>3
        <5>5. accepted' = [n \in DOMAIN accepted' |-> accepted'[n]]
          BY <5>3
        <5> QED BY <2>1, <5>3, <5>4, <5>5
      <4> QED BY <4>1, <4>2 DEF LinesKept
    <3>6. InboundSound'
      BY <1>2, <3>2, <3>4 DEF PipelineInvariant, InboundSound, shutdownVars
    <3> QED BY <1>2, <3>3, <3>5, <3>6
            DEF PipelineInvariant, DiagnosticsKept, DiagnosticsSound,
                TimerSound, shutdownVars, processingVars
  <2> QED BY <2>3, <2>4
<1> QED BY <1>3, <1>4

(***************************************************************************)
(* A line is taken from the queue, or the queue is closed and empty.       *)
(***************************************************************************)
LEMMA PopLineKeeps ==
  ASSUME PipelineInvariant, PopLine
  PROVE  PipelineInvariant'
<1>1. /\ inbound \in Queues(InboundCapacity)
      /\ inbound.queue \in Seq(Nat)
      /\ accepted \in Seq(Nat) /\ processed \in Seq(Nat)
      /\ pc \in [Threads -> Places] /\ closing \in [Threads -> 0 .. 2]
      /\ TypeOK
  BY QueueFacts DEF PipelineInvariant, TypeOK
<1>2. UNCHANGED <<diagnostics, shutdownVars, inputVars, emitted, dropped,
                  diag_count>>
  BY DEF PopLine, processingVars
<1>3. CASE PopWaits(inbound)
  <2>1. /\ inbound' = AwaitValue(inbound, "processing")
        /\ UNCHANGED <<processingVars, pc, closing>>
    BY <1>3 DEF PopLine, Stays, PopEnds, PopWaits
  <2>2. /\ inbound' \in Queues(InboundCapacity)
        /\ inbound'.queue = inbound.queue
        /\ inbound'.isClosed = inbound.isClosed
    BY <1>1, <2>1, QueueAfterWait, ThreadFacts
  <2>3. /\ diagnostics' \in Queues(DiagnosticsCapacity)
        /\ diagnostics' = diagnostics
    BY <1>1, <1>2 DEF TypeOK
  <2> QED BY <1>2, <2>1, <2>2, <2>3, WaitKeeps
<1>4. CASE PopEnds(inbound)
  <2>1. /\ UNCHANGED <<inbound, processingVars>>
        /\ Goes("processing", "pop", "close")
    BY <1>4 DEF PopLine, PopEnds, PopWaits
  <2>2. /\ pc' \in [Threads -> Places]
        /\ closing' \in [Threads -> 0 .. 2]
        /\ \A u \in Threads \ {"processing"} : pc'[u] = pc[u]
        /\ pc["processing"] = "pop" /\ pc'["processing"] = "close"
    <3>1. "processing" \in Threads /\ "close" \in Places
      BY ThreadFacts
    <3> QED BY <1>1, <2>1, <3>1, ThreadGoes
  <2>3. TypeOK'
    BY <1>1, <1>2, <2>1, <2>2
       DEF TypeOK, shutdownVars, inputVars, processingVars
  <2>4. LinesKept' /\ DiagnosticsKept'
    BY <1>2, <2>1, SameCountsKept
       DEF PipelineInvariant, SameCounts, shutdownVars, inputVars,
           processingVars
  <2>5. inbound.isClosed /\ inbound.queue = <<>>
    BY <1>4 DEF PopEnds
  <2>6. InboundSound'
    BY <1>2, <2>1, <2>2, <2>5, ThreadFacts
       DEF PipelineInvariant, InboundSound, shutdownVars
  <2>7. DiagnosticsSound'
    BY <1>2, <2>2, ThreadFacts
       DEF PipelineInvariant, DiagnosticsSound, shutdownVars
  <2>8. TimerSound'
    BY <1>2, <2>2, ThreadFacts
       DEF PipelineInvariant, TimerSound, shutdownVars
  <2> QED BY <2>3, <2>4, <2>6, <2>7, <2>8 DEF PipelineInvariant
<1>5. CASE ~PopWaits(inbound) /\ ~PopEnds(inbound)
  <2>1. /\ inbound' \in Popped(inbound)
        /\ processed' = Append(processed, Head(inbound.queue))
        /\ unreported' \in 0 .. MaxUpdateDiagnostics
        /\ Goes("processing", "pop", "update")
    BY <1>5 DEF PopLine
  <2>2. inbound.queue # <<>>
    BY <1>5 DEF PopWaits, PopEnds
  <2>3. /\ inbound' \in Queues(InboundCapacity)
        /\ inbound'.queue = Tail(inbound.queue)
        /\ inbound'.isClosed = inbound.isClosed
    BY <1>1, <2>1, <2>2, QueueAfterPop
  <2>4. /\ pc' \in [Threads -> Places]
        /\ closing' \in [Threads -> 0 .. 2]
        /\ \A u \in Threads \ {"processing"} : pc'[u] = pc[u]
        /\ pc["processing"] = "pop" /\ pc'["processing"] = "update"
    <3>1. "processing" \in Threads /\ "update" \in Places
      BY ThreadFacts
    <3> QED BY <1>1, <2>1, <3>1, ThreadGoes
  <2>5. TypeOK'
    <3>1. unreported' \in Nat
      BY <2>1, BoundsAssumption
    <3>2. processed' \in Seq(Nat)
      <4>1. Head(inbound.queue) \in Nat
        BY <1>1, <2>2, HeadTailProperties
      <4> QED BY <1>1, <2>1, <4>1, AppendProperties
    <3> QED BY <1>1, <1>2, <2>3, <2>4, <3>1, <3>2
            DEF TypeOK, shutdownVars, inputVars
  <2>6. LinesKept'
    <3>1. processed' \o inbound'.queue = processed \o inbound.queue
      BY <1>1, <2>1, <2>2, <2>3, HeadToTheFirst
    <3> QED BY <1>2, <3>1
            DEF PipelineInvariant, LinesKept, shutdownVars, inputVars
  <2>7. InboundSound'
    BY <1>2, <2>3, <2>4, ThreadFacts
       DEF PipelineInvariant, InboundSound, shutdownVars
  <2>8. DiagnosticsSound'
    BY <1>2, <2>4, ThreadFacts
       DEF PipelineInvariant, DiagnosticsSound, shutdownVars
  <2>9. TimerSound' /\ DiagnosticsKept'
    BY <1>2, <2>4, ThreadFacts
       DEF PipelineInvariant, TimerSound, DiagnosticsKept, shutdownVars
  <2> QED BY <2>5, <2>6, <2>7, <2>8, <2>9 DEF PipelineInvariant
<1> QED BY <1>3, <1>4, <1>5

(***************************************************************************)
(* A diagnostic is pushed, or refused, and popped.                         *)
(***************************************************************************)
LEMMA OnDiagnosticKeeps ==
  ASSUME PipelineInvariant, on_diagnostic
  PROVE  PipelineInvariant'
<1>1. /\ diagnostics \in Queues(DiagnosticsCapacity)
      /\ inbound \in Queues(InboundCapacity)
      /\ Len(diagnostics.queue) \in Nat
      /\ diagnostics.queue \in Seq(Nat)
      /\ unreported \in Nat /\ emitted \in Nat /\ dropped \in Nat
      /\ diag_count \in Nat
      /\ TypeOK
  BY QueueFacts DEF PipelineInvariant, TypeOK
<1>2. UNCHANGED <<inbound, shutdownVars, inputVars, processed, diag_count,
                  pc, closing>>
  BY DEF on_diagnostic, Stays
<1>3. CASE PushWaits(diagnostics)
  <2>1. /\ diagnostics' = AwaitRoom(diagnostics, "processing")
        /\ UNCHANGED processingVars
    BY <1>2, <1>3 DEF on_diagnostic, processingVars
  <2>2. /\ diagnostics' \in Queues(DiagnosticsCapacity)
        /\ diagnostics'.queue = diagnostics.queue
        /\ diagnostics'.isClosed = diagnostics.isClosed
    BY <1>1, <2>1, QueueAfterWait, ThreadFacts
  <2>3. inbound' \in Queues(InboundCapacity) /\ inbound' = inbound
    BY <1>1, <1>2
  <2> QED BY <1>2, <2>1, <2>2, <2>3, WaitKeeps
<1>4. CASE ~PushWaits(diagnostics)
  <2>1. /\ unreported' = unreported - 1 /\ unreported > 0
        /\ emitted' = emitted + 1
    BY <1>4 DEF on_diagnostic
  <2>2. pc["processing"] = "update"
    BY DEF on_diagnostic, Stays
  <2>3. unreported' \in Nat /\ emitted' \in Nat
    BY <1>1, <2>1
  <2>4. LinesKept' /\ InboundSound' /\ TimerSound'
    BY <1>2
       DEF PipelineInvariant, LinesKept, InboundSound, TimerSound,
           shutdownVars, inputVars
  <2>5. emitted = dropped + diag_count + Len(diagnostics.queue)
    BY DEF PipelineInvariant, DiagnosticsKept
  <2>6. CASE PushRefused(diagnostics)
    <3>1. dropped' = dropped + 1 /\ diagnostics' = diagnostics
      BY <1>4, <2>6 DEF on_diagnostic
    <3>2. diagnostics.isClosed
      <4>1. diagnostics.capacity = DiagnosticsCapacity
        BY <1>1 DEF Queues
      <4> QED BY <2>6, <4>1, BoundsAssumption DEF PushRefused
    <3>3. shutdown_requested /\ shutdown_requested'
      BY <1>2, <2>2, <3>2
         DEF PipelineInvariant, DiagnosticsSound, shutdownVars
    <3>4. dropped' \in Nat
      BY <1>1, <3>1
    <3>5. emitted' = dropped' + diag_count' + Len(diagnostics'.queue)
      <4>1. PICK e \in Nat, d \in Nat, c \in Nat, n \in Nat :
              /\ e = emitted /\ d = dropped /\ c = diag_count
              /\ n = Len(diagnostics.queue)
        BY <1>1
      <4>2. e = d + c + n
        BY <2>5, <4>1
      <4>3. e + 1 = (d + 1) + c + n
        BY <4>2
      <4>4. emitted + 1 = (dropped + 1) + diag_count + Len(diagnostics.queue)
        BY <4>1, <4>3
      <4> QED BY <1>2, <2>1, <3>1, <4>4
    <3>6. TypeOK'
      BY <1>1, <1>2, <2>3, <3>1, <3>4 DEF TypeOK, shutdownVars, inputVars
    <3>7. DiagnosticsSound'
      BY <1>2, <3>1, <3>3
         DEF PipelineInvariant, DiagnosticsSound, shutdownVars
    <3> QED BY <2>4, <3>3, <3>5, <3>6, <3>7
            DEF PipelineInvariant, DiagnosticsKept
  <2>7. CASE ~PushRefused(diagnostics)
    <3>1. /\ diagnostics' \in Pushed(diagnostics, emitted')
          /\ dropped' = dropped
      BY <1>4, <2>7 DEF on_diagnostic
    <3>2. PICK v \in Nat : v = emitted'
      BY <2>3
    <3>3. /\ diagnostics' \in Queues(DiagnosticsCapacity)
          /\ diagnostics'.queue = Append(diagnostics.queue, v)
          /\ diagnostics'.isClosed = diagnostics.isClosed
      BY <1>1, <3>1, <3>2, QueueAfterPush
    <3>4. Len(diagnostics'.queue) = Len(diagnostics.queue) + 1
      BY <1>1, <3>3, AppendProperties
    <3>5. emitted' = dropped' + diag_count' + Len(diagnostics'.queue)
      <4>1. PICK e \in Nat, d \in Nat, c \in Nat, n \in Nat :
              /\ e = emitted /\ d = dropped /\ c = diag_count
              /\ n = Len(diagnostics.queue)
        BY <1>1
      <4>2. e = d + c + n
        BY <2>5, <4>1
      <4>3. e + 1 = d + c + (n + 1)
        BY <4>2
      <4>4. emitted + 1 = dropped + diag_count + (Len(diagnostics.queue) + 1)
        BY <4>1, <4>3
      <4> QED BY <1>2, <2>1, <3>1, <3>4, <4>4
    <3>6. TypeOK'
      BY <1>1, <1>2, <2>3, <3>1, <3>3 DEF TypeOK, shutdownVars, inputVars
    <3>7. ~diagnostics.isClosed
      BY <2>7 DEF PushRefused
    <3>8. pc["diagnostics"] # "done"
      BY <3>7 DEF PipelineInvariant, DiagnosticsSound
    <3>9. DiagnosticsSound'
      BY <1>2, <3>3, <3>7, <3>8 DEF DiagnosticsSound
    <3>10. DiagnosticsKept'
      BY <1>2, <3>1, <3>5
         DEF PipelineInvariant, DiagnosticsKept, shutdownVars
    <3> QED BY <2>4, <3>6, <3>9, <3>10 DEF PipelineInvariant
  <2> QED BY <2>6, <2>7
<1> QED BY <1>3, <1>4

LEMMA PopDiagnosticKeeps ==
  ASSUME PipelineInvariant, PopDiagnostic
  PROVE  PipelineInvariant'
<1>1. /\ diagnostics \in Queues(DiagnosticsCapacity)
      /\ inbound \in Queues(InboundCapacity)
      /\ Len(diagnostics.queue) \in Nat
      /\ diagnostics.queue \in Seq(Nat)
      /\ emitted \in Nat /\ dropped \in Nat /\ diag_count \in Nat
      /\ pc \in [Threads -> Places] /\ closing \in [Threads -> 0 .. 2]
      /\ TypeOK
  BY QueueFacts DEF PipelineInvariant, TypeOK
<1>2. UNCHANGED <<inbound, shutdownVars, inputVars, processingVars>>
  BY DEF PopDiagnostic
<1>3. CASE PopWaits(diagnostics)
  <2>1. /\ diagnostics' = AwaitValue(diagnostics, "diagnostics")
        /\ UNCHANGED <<diag_count, pc, closing>>
    BY <1>3 DEF PopDiagnostic, Stays, PopEnds, PopWaits
  <2>2. /\ diagnostics' \in Queues(DiagnosticsCapacity)
        /\ diagnostics'.queue = diagnostics.queue
        /\ diagnostics'.isClosed = diagnostics.isClosed
    BY <1>1, <2>1, QueueAfterWait, ThreadFacts
  <2>3. inbound' \in Queues(InboundCapacity) /\ inbound' = inbound
    BY <1>1, <1>2
  <2> QED BY <1>2, <2>1, <2>2, <2>3, WaitKeeps
<1>4. CASE PopEnds(diagnostics)
  <2>1. /\ UNCHANGED <<diagnostics, diag_count>>
        /\ Goes("diagnostics", "pop", "done")
    BY <1>4 DEF PopDiagnostic, PopEnds, PopWaits
  <2>2. /\ pc' \in [Threads -> Places]
        /\ closing' \in [Threads -> 0 .. 2]
        /\ \A u \in Threads \ {"diagnostics"} : pc'[u] = pc[u]
    <3>1. "diagnostics" \in Threads /\ "done" \in Places
      BY ThreadFacts
    <3> QED BY <1>1, <2>1, <3>1, ThreadGoes
  <2>3. TypeOK'
    BY <1>1, <1>2, <2>1, <2>2
       DEF TypeOK, shutdownVars, inputVars, processingVars
  <2>4. LinesKept' /\ DiagnosticsKept'
    BY <1>2, <2>1, SameCountsKept
       DEF PipelineInvariant, SameCounts, shutdownVars, inputVars,
           processingVars
  <2>5. InboundSound' /\ TimerSound'
    BY <1>2, <2>2, ThreadFacts
       DEF PipelineInvariant, InboundSound, TimerSound, shutdownVars
  <2>6. diagnostics.isClosed /\ diagnostics.queue = <<>>
    BY <1>4 DEF PopEnds
  <2>7. DiagnosticsSound'
    BY <1>2, <2>1, <2>2, <2>6, ThreadFacts
       DEF PipelineInvariant, DiagnosticsSound, shutdownVars
  <2> QED BY <2>3, <2>4, <2>5, <2>7 DEF PipelineInvariant
<1>5. CASE ~PopWaits(diagnostics) /\ ~PopEnds(diagnostics)
  <2>1. /\ diagnostics' \in Popped(diagnostics)
        /\ diag_count' = diag_count + 1
        /\ pc["diagnostics"] = "pop"
        /\ UNCHANGED <<pc, closing>>
    BY <1>5 DEF PopDiagnostic, Stays
  <2>2. diagnostics.queue # <<>>
    BY <1>5 DEF PopWaits, PopEnds
  <2>3. /\ diagnostics' \in Queues(DiagnosticsCapacity)
        /\ diagnostics'.queue = Tail(diagnostics.queue)
        /\ diagnostics'.isClosed = diagnostics.isClosed
    BY <1>1, <2>1, <2>2, QueueAfterPop
  <2>4. Len(diagnostics'.queue) = Len(diagnostics.queue) - 1
    BY <1>1, <2>2, <2>3, HeadTailProperties
  <2>5. emitted = dropped + diag_count + Len(diagnostics.queue)
    BY DEF PipelineInvariant, DiagnosticsKept
  <2>6. emitted = dropped + diag_count' + Len(diagnostics'.queue)
    <3>1. PICK e \in Nat, d \in Nat, c \in Nat, n \in Nat :
            /\ e = emitted /\ d = dropped /\ c = diag_count
            /\ n = Len(diagnostics.queue)
      BY <1>1
    <3>2. e = d + c + n
      BY <2>5, <3>1
    <3>3. e = d + (c + 1) + (n - 1)
      BY <3>2
    <3>4. emitted = dropped + (diag_count + 1) + (Len(diagnostics.queue) - 1)
      BY <3>1, <3>3
    <3> QED BY <2>1, <2>4, <3>4
  <2>7. diag_count' \in Nat
    BY <1>1, <2>1
  <2>8. TypeOK'
    BY <1>1, <1>2, <2>1, <2>3, <2>7
       DEF TypeOK, shutdownVars, inputVars, processingVars
  <2>9. DiagnosticsKept'
    BY <1>2, <2>6
       DEF PipelineInvariant, DiagnosticsKept, shutdownVars, processingVars
  <2>10. DiagnosticsSound'
    BY <1>2, <2>1, <2>3
       DEF PipelineInvariant, DiagnosticsSound, shutdownVars
  <2>11. LinesKept' /\ InboundSound' /\ TimerSound'
    BY <1>2, <2>1
       DEF PipelineInvariant, LinesKept, InboundSound, TimerSound,
           shutdownVars, inputVars, processingVars
  <2> QED BY <2>8, <2>9, <2>10, <2>11 DEF PipelineInvariant
<1> QED BY <1>3, <1>4, <1>5
-----------------------------------------------------------------------------
(***************************************************************************)
(* The invariant holds, and what follows from it.                          *)
(***************************************************************************)
LEMMA InitInvariant == Init => PipelineInvariant
<1> SUFFICES ASSUME Init PROVE PipelineInvariant
  OBVIOUS
<1>1. /\ NewQueue(InboundCapacity) \in Queues(InboundCapacity)
      /\ NewQueue(DiagnosticsCapacity) \in Queues(DiagnosticsCapacity)
      /\ NewQueue(InboundCapacity).queue = <<>>
      /\ NewQueue(DiagnosticsCapacity).queue = <<>>
      /\ ~NewQueue(InboundCapacity).isClosed
      /\ ~NewQueue(DiagnosticsCapacity).isClosed
  BY DEF NewQueue, Queues
<1>2. /\ inbound = NewQueue(InboundCapacity)
      /\ diagnostics = NewQueue(DiagnosticsCapacity)
      /\ shutdown_requested = FALSE
      /\ sent = 0 /\ unreported = 0 /\ emitted = 0 /\ dropped = 0
      /\ diag_count = 0 /\ accepted = <<>> /\ processed = <<>>
  BY DEF Init
<1>3. unsent \in Nat
  <2>1. unsent \in 0 .. MaxLines \/ unsent = 0
    BY DEF Init
  <2> QED BY <2>1, BoundsAssumption
<1>4. closing \in [Threads -> 0 .. 2]
  <2>1. closing = [t \in Threads |-> 0]
    BY DEF Init
  <2> QED BY <2>1
<1>5. PICK at \in {"push", "check"}, asleep \in {"sleep", "done"} :
        pc = [input |-> at, processing |-> "pop", diagnostics |-> "pop",
              timer |-> asleep]
  BY DEF Init
<1>6. /\ pc \in [Threads -> Places]
      /\ pc["processing"] = "pop" /\ pc["diagnostics"] = "pop"
      /\ pc["timer"] \in {"sleep", "done"}
  <2>1. /\ pc["input"] = at /\ pc["processing"] = "pop"
        /\ pc["diagnostics"] = "pop" /\ pc["timer"] = asleep
    BY <1>5
  <2>2. pc = [t \in Threads |-> pc[t]]
    BY <1>5 DEF Threads
  <2>3. \A t \in Threads : pc[t] \in Places
    BY <2>1 DEF Threads, Places
  <2> QED BY <2>1, <2>2, <2>3
<1>7. TypeOK
  <2>1. shutdown_requested \in BOOLEAN
    BY <1>2
  <2>2. accepted \in Seq(Nat) /\ processed \in Seq(Nat)
    BY <1>2
  <2>3. {sent, unsent, unreported, emitted, dropped, diag_count} \subseteq Nat
    BY <1>2, <1>3
  <2> QED BY <1>1, <1>2, <1>4, <1>6, <2>1, <2>2, <2>3 DEF TypeOK
<1>8. LinesKept
  <2>1. [n \in 1 .. 0 |-> n] = <<>>
    OBVIOUS
  <2> QED BY <1>1, <1>2, <2>1 DEF LinesKept
<1>9. DiagnosticsKept
  BY <1>1, <1>2 DEF DiagnosticsKept
<1>10. InboundSound /\ DiagnosticsSound /\ TimerSound
  BY <1>1, <1>2, <1>6 DEF InboundSound, DiagnosticsSound, TimerSound
<1> QED BY <1>7, <1>8, <1>9, <1>10 DEF PipelineInvariant

LEMMA StepKeeps == PipelineInvariant /\ [Next]_vars => PipelineInvariant'
<1> SUFFICES ASSUME PipelineInvariant, [Next]_vars
             PROVE  PipelineInvariant'
  OBVIOUS
<1>1. CASE Input
  BY <1>1, MoveKeeps, PushLineKeeps, CloseInboundKeeps DEF Input, TimesOut
<1>2. CASE \/ \E lines \in 0 .. MaxDatagram : Receive(lines)
           \/ ReceiveNothing \/ ReceiveFails
  BY <1>2, MoveKeeps
<1>3. CASE Processing
  BY <1>3, MoveKeeps, PopLineKeeps, OnDiagnosticKeeps, CloseDiagnosticsKeeps
     DEF Processing
<1>4. CASE PopDiagnostic
  BY <1>4, PopDiagnosticKeeps
<1>5. CASE Timer
  BY <1>5, MoveKeeps, CloseInboundKeeps, CloseDiagnosticsKeeps DEF Timer
<1>6. CASE \E t \in Threads : WakeUp(t)
  BY <1>6, WakeUpKeeps
<1>7. CASE UNCHANGED vars
  BY <1>7
     DEF PipelineInvariant, TypeOK, LinesKept, InboundSound, DiagnosticsKept,
         DiagnosticsSound, TimerSound, vars, shutdownVars, inputVars,
         processingVars
<1> QED BY <1>1, <1>2, <1>3, <1>4, <1>5, <1>6, <1>7 DEF Next, Exit

(***************************************************************************)
(* The number of lines and of diagnostics that each thread has seen        *)
(* accounts for all of them, whatever the capacities and at every step of  *)
(* the three programs.                                                     *)
(***************************************************************************)
THEOREM PipelineInvariance == Spec => []PipelineInvariant
BY InitInvariant, StepKeeps, PTL DEF Spec

(***************************************************************************)
(* Every line that the queue of lines accepts is processed, in its order   *)
(* and once, and all of them when the program ends, with the queue closed  *)
(* by whatever thread.                                                     *)
(***************************************************************************)
THEOREM EveryAcceptedLine == Spec => []LinesProcessed
<1>1. PipelineInvariant => LinesProcessed
  <2> SUFFICES ASSUME PipelineInvariant PROVE LinesProcessed
    OBVIOUS
  <2>1. /\ processed \in Seq(Nat) /\ inbound.queue \in Seq(Nat)
        /\ accepted = processed \o inbound.queue
    BY QueueFacts DEF PipelineInvariant, TypeOK, LinesKept
  <2>2. IsPrefix(processed, accepted)
    <3>1. /\ Len(processed) \in Nat /\ Len(inbound.queue) \in Nat
          /\ accepted \in Seq(Nat)
          /\ Len(accepted) = Len(processed) + Len(inbound.queue)
      BY <2>1, LenProperties, ConcatProperties
    <3>2. CASE Len(processed) = 0
      BY <2>1, <3>1, <3>2 DEF IsPrefix
    <3>3. CASE Len(processed) > 0
      <4>1. 1 \in 1 .. Len(processed) /\ Len(processed) \in 1 .. Len(processed)
        BY <3>1, <3>3
      <4>2. SubSeq(accepted, 1, Len(processed)) =
              SubSeq(processed, 1, Len(processed))
        BY <2>1, <4>1, SubSeqOfConcat1
      <4> QED BY <3>1, <4>2 DEF IsPrefix
    <3> QED BY <3>1, <3>2, <3>3
  <2>3. ASSUME Ended PROVE processed = accepted
    <3>1. inbound.queue = <<>>
      BY <2>3, ThreadFacts DEF Ended, PipelineInvariant, InboundSound
    <3> QED BY <2>1, <3>1, ConcatEmptySeq
  <2> QED BY <2>2, <2>3 DEF LinesProcessed, PipelineInvariant, LinesKept
<1> QED BY <1>1, PipelineInvariance, PTL

(***************************************************************************)
(* When the program ends every diagnostic was counted or refused, and none *)
(* is refused before a deadline closed the queue.                          *)
(***************************************************************************)
THEOREM EveryDiagnostic == Spec => []DiagnosticsCounted
<1>1. PipelineInvariant => DiagnosticsCounted
  <2> SUFFICES ASSUME PipelineInvariant PROVE DiagnosticsCounted
    OBVIOUS
  <2>1. /\ emitted = dropped + diag_count + Len(diagnostics.queue)
        /\ dropped > 0 => shutdown_requested
    BY DEF PipelineInvariant, DiagnosticsKept
  <2>2. ASSUME Ended PROVE diag_count + dropped = emitted
    <3>1. diagnostics.queue = <<>>
      BY <2>2, ThreadFacts DEF Ended, PipelineInvariant, DiagnosticsSound
    <3>2. dropped \in Nat /\ diag_count \in Nat /\ Len(diagnostics.queue) = 0
      BY <3>1 DEF PipelineInvariant, TypeOK
    <3> QED BY <2>1, <3>2
  <2> QED BY <2>1, <2>2 DEF DiagnosticsCounted
<1> QED BY <1>1, PipelineInvariance, PTL
=============================================================================
