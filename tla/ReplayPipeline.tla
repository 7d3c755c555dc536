--------------------------- MODULE ReplayPipeline ---------------------------
(***************************************************************************)
(* The programs lobsim_udp_main.cpp and lobsim_memory_replay_main.cpp of   *)
(* benchmark/: an input thread pushes lines into a queue, a processing     *)
(* thread pops them and updates the engine, whose sink pushes diagnostics  *)
(* into a second queue, and a third thread pops and counts these.  The     *)
(* input is a socket, or events generated beforehand.  With the variable   *)
(* ENGINE_DURATION_SEC a fourth thread shuts the first program down.       *)
(*                                                                         *)
(* The engine is modelled in PaperTradingSimulator; here an update is the  *)
(* number of its diagnostics.  Header lines and lines that do not parse    *)
(* have none either.  Left out: clocks, rates, metrics, the set-up of the  *)
(* socket.                                                                 *)
(***************************************************************************)
EXTENDS BlockingQueue, SequencesExt

CONSTANTS
  Programs,              \* the programs that run
  InboundCapacity,       \* kInboundQueueCapacity
  DiagnosticsCapacity,   \* kDiagnosticsQueueCapacity
  MaxDatagram,           \* the greatest number of lines in a datagram
  MaxUpdateDiagnostics,  \* the greatest number of diagnostics of an update
  MaxLines               \* bound on the lines that arrive

ASSUME ProgramsAssumption ==
  Programs \subseteq {"memory", "udp", "udp with duration"}
ASSUME BoundsAssumption ==
  /\ InboundCapacity \in Nat \ {0}
  /\ DiagnosticsCapacity \in Nat \ {0}
  /\ MaxDatagram \in Nat
  /\ MaxUpdateDiagnostics \in Nat
  /\ MaxLines \in Nat

Threads == {"input", "processing", "diagnostics", "timer"}

VARIABLES
  program,             \* the program that runs
  inbound,             \* the queue of lines, numbered as they arrive
  diagnostics,         \* the queue of diagnostics, numbered as they arise
  shutdown_requested,
  sock_shut,           \* whether ::shutdown(sock) was called
  sent,                \* the number of lines that were given to inbound
  unsent,              \* how many are left of a datagram, or in memory
  accepted,            \* the lines that inbound took
  processed,           \* the lines that were popped from it
  unreported,          \* diagnostics that the update is still to emit
  emitted,             \* the number of diagnostics emitted
  dropped,             \* those that the queue refused
  diag_count,          \* those that were counted
  pc,                  \* where each thread is
  closing              \* how far it is in a close()

inputVars      == <<sent, unsent, accepted>>
processingVars == <<processed, unreported, emitted, dropped>>
shutdownVars   == <<shutdown_requested, sock_shut>>
vars == <<program, inbound, diagnostics, shutdownVars, inputVars,
          processingVars, diag_count, pc, closing>>
-----------------------------------------------------------------------------
Goes(t, from, to) ==
  pc[t] = from /\ pc' = [pc EXCEPT ![t] = to] /\ UNCHANGED closing

Stays(t, at) == pc[t] = at /\ UNCHANGED <<pc, closing>>

\* The steps of close(), the last of which leads to another place.
Closes(t, from, to) ==
  /\ pc[t] = from
  /\ closing' = [closing EXCEPT ![t] = (@ + 1) % 3]
  /\ pc' = IF closing[t] = 2 THEN [pc EXCEPT ![t] = to] ELSE pc

AfterClose(q, k) ==
  CASE k = 0 -> Closed(q)
    [] k = 1 -> ConsumersNotified(q)
    [] k = 2 -> ProducersNotified(q)

CloseInbound(t, from, to) ==
  /\ Closes(t, from, to)
  /\ inbound' = AfterClose(inbound, closing[t])
  /\ UNCHANGED <<program, diagnostics, shutdownVars, inputVars,
                 processingVars, diag_count>>

\* Mutated form of CloseDiagnostics: the queue stays open.
LeaveDiagnostics(t, from, to) ==
  /\ Closes(t, from, to)
  /\ UNCHANGED <<program, inbound, diagnostics, shutdownVars, inputVars,
                 processingVars, diag_count>>

CloseDiagnostics(t, from, to) ==
  /\ Closes(t, from, to)
  /\ diagnostics' = AfterClose(diagnostics, closing[t])
  /\ UNCHANGED <<program, inbound, shutdownVars, inputVars, processingVars,
                 diag_count>>
-----------------------------------------------------------------------------
(***************************************************************************)
(* The input thread.                                                       *)
(***************************************************************************)
CheckShutdown ==
  /\ Goes("input", "check", IF shutdown_requested THEN "close" ELSE "receive")
  /\ UNCHANGED <<program, inbound, diagnostics, shutdownVars, inputVars,
                 processingVars, diag_count>>

\* A datagram of so many lines that are not blank.
Receive(lines) ==
  /\ sent + lines <= MaxLines
  /\ Goes("input", "receive", "push")
  /\ unsent' = lines
  /\ UNCHANGED <<program, inbound, diagnostics, shutdownVars, sent, accepted,
                 processingVars, diag_count>>

\* A signal, a timeout, or the end of a socket that was shut down.
ReceiveNothing ==
  /\ Goes("input", "receive", "check")
  /\ UNCHANGED <<program, inbound, diagnostics, shutdownVars, inputVars,
                 processingVars, diag_count>>

ReceiveFails ==
  /\ Goes("input", "receive", "close")
  /\ UNCHANGED <<program, inbound, diagnostics, shutdownVars, inputVars,
                 processingVars, diag_count>>

\* A line that the queue refuses is gone.
PushLine ==
  /\ Stays("input", "push")
  /\ unsent > 0
  /\ ~Waits(inbound, "input")
  /\ IF PushWaits(inbound)
       THEN /\ inbound' = AwaitRoom(inbound, "input")
            /\ UNCHANGED inputVars
       ELSE /\ sent' = sent + 1
            /\ unsent' = unsent - 1
            /\ IF PushRefused(inbound)
                 THEN UNCHANGED <<inbound, accepted>>
                 ELSE /\ inbound' \in Pushed(inbound, sent')
                      /\ accepted' = Append(accepted, sent')
  /\ UNCHANGED <<program, diagnostics, shutdownVars, processingVars,
                 diag_count>>

EndPushing ==
  /\ unsent = 0
  /\ Goes("input", "push", IF program = "memory" THEN "close" ELSE "check")
  /\ UNCHANGED <<program, inbound, diagnostics, shutdownVars, inputVars,
                 processingVars, diag_count>>

EndInput == CloseInbound("input", "close", "done")
-----------------------------------------------------------------------------
(***************************************************************************)
(* The processing thread.                                                  *)
(***************************************************************************)
PopLine ==
  /\ ~Waits(inbound, "processing")
  /\ \/ /\ PopWaits(inbound)
        /\ Stays("processing", "pop")
        /\ inbound' = AwaitValue(inbound, "processing")
        /\ UNCHANGED processingVars
     \/ /\ PopEnds(inbound)
        /\ Goes("processing", "pop", "close")
        /\ UNCHANGED <<inbound, processingVars>>
     \/ /\ ~PopWaits(inbound)
        /\ ~PopEnds(inbound)
        /\ Goes("processing", "pop", "update")
        /\ inbound' \in Popped(inbound)
        /\ processed' = Append(processed, Head(inbound.queue))
        /\ unreported' \in 0 .. MaxUpdateDiagnostics
        /\ UNCHANGED <<emitted, dropped>>
  /\ UNCHANGED <<program, diagnostics, shutdownVars, inputVars, diag_count>>

\* DiagnosticQueueSink::on_diagnostic, called back by the engine.
on_diagnostic ==
  /\ Stays("processing", "update")
  /\ unreported > 0
  /\ ~Waits(diagnostics, "processing")
  /\ IF PushWaits(diagnostics)
       THEN /\ diagnostics' = AwaitRoom(diagnostics, "processing")
            /\ UNCHANGED <<unreported, emitted, dropped>>
       ELSE /\ unreported' = unreported - 1
            /\ emitted' = emitted + 1
            /\ IF PushRefused(diagnostics)
                 THEN /\ dropped' = dropped + 1
                      /\ UNCHANGED diagnostics
                 ELSE /\ diagnostics' \in Pushed(diagnostics, emitted')
                      /\ UNCHANGED dropped
  /\ UNCHANGED <<program, inbound, shutdownVars, inputVars, processed,
                 diag_count>>

EndUpdate ==
  /\ unreported = 0
  /\ Goes("processing", "update", "pop")
  /\ UNCHANGED <<program, inbound, diagnostics, shutdownVars, inputVars,
                 processingVars, diag_count>>

EndProcessing == CloseDiagnostics("processing", "close", "done")
-----------------------------------------------------------------------------
\* The diagnostics thread.
PopDiagnostic ==
  /\ ~Waits(diagnostics, "diagnostics")
  /\ \/ /\ PopWaits(diagnostics)
        /\ Stays("diagnostics", "pop")
        /\ diagnostics' = AwaitValue(diagnostics, "diagnostics")
        /\ UNCHANGED diag_count
     \/ /\ PopEnds(diagnostics)
        /\ Goes("diagnostics", "pop", "done")
        /\ UNCHANGED <<diagnostics, diag_count>>
     \/ /\ ~PopWaits(diagnostics)
        /\ ~PopEnds(diagnostics)
        /\ Stays("diagnostics", "pop")
        /\ diagnostics' \in Popped(diagnostics)
        /\ diag_count' = diag_count + 1
  /\ UNCHANGED <<program, inbound, shutdownVars, inputVars, processingVars>>
-----------------------------------------------------------------------------
(***************************************************************************)
(* The timer, with request_shutdown.                                       *)
(***************************************************************************)
Deadline ==
  /\ Goes("timer", "sleep", "close inbound")
  /\ shutdown_requested' = TRUE
  /\ UNCHANGED <<program, inbound, diagnostics, sock_shut, inputVars,
                 processingVars, diag_count>>

ShutSocket ==
  /\ Goes("timer", "shut socket", "done")
  /\ sock_shut' = TRUE
  /\ UNCHANGED <<program, inbound, diagnostics, shutdown_requested, inputVars,
                 processingVars, diag_count>>

Timer ==
  \/ Deadline
  \/ CloseInbound("timer", "close inbound", "close diagnostics")
  \/ CloseDiagnostics("timer", "close diagnostics", "shut socket")
  \/ ShutSocket
-----------------------------------------------------------------------------
\* A thread may wake up without having been notified.
WakeUp(t) ==
  /\ Waits(inbound, t) \/ Waits(diagnostics, t)
  /\ inbound' = Woken(inbound, t)
  /\ diagnostics' = Woken(diagnostics, t)
  /\ UNCHANGED <<program, shutdownVars, inputVars, processingVars, diag_count,
                 pc, closing>>

\* main() has joined all threads.
Ended == \A t \in Threads : pc[t] = "done"

Exit == Ended /\ UNCHANGED vars

Init ==
  /\ program \in Programs
  /\ inbound = NewQueue(InboundCapacity)
  /\ diagnostics = NewQueue(DiagnosticsCapacity)
  /\ shutdown_requested = FALSE
  /\ sock_shut = FALSE
  /\ sent = 0
  /\ unsent \in IF program = "memory" THEN 0 .. MaxLines ELSE {0}
  /\ accepted = <<>>
  /\ processed = <<>>
  /\ unreported = 0
  /\ emitted = 0
  /\ dropped = 0
  /\ diag_count = 0
  /\ pc = [input       |-> IF program = "memory" THEN "push" ELSE "check",
           processing  |-> "pop",
           diagnostics |-> "pop",
           timer       |-> IF program = "udp with duration" THEN "sleep"
                                                            ELSE "done"]
  /\ closing = [t \in Threads |-> 0]

\* With a duration the socket has a receive timeout.
TimesOut == (program = "udp with duration" \/ sock_shut) /\ ReceiveNothing

Input      == CheckShutdown \/ TimesOut \/ PushLine \/ EndPushing \/ EndInput
Processing == PopLine \/ on_diagnostic \/ EndUpdate \/ EndProcessing

Next ==
  \/ Input
  \/ \E lines \in 0 .. MaxDatagram : Receive(lines)
  \/ ReceiveNothing
  \/ ReceiveFails
  \/ Processing
  \/ PopDiagnostic
  \/ Timer
  \/ \E t \in Threads : WakeUp(t)
  \/ Exit

Spec == Init /\ [][Next]_vars

\* Every thread goes on unless it waits, for a queue or for a datagram.
FairSpec ==
  /\ Spec
  /\ WF_vars(Input)
  /\ WF_vars(Processing)
  /\ WF_vars(PopDiagnostic)
  /\ WF_vars(Timer)
-----------------------------------------------------------------------------
(***************************************************************************)
(* The engine gets the lines that the queue accepted, in their order and   *)
(* each once, and all of them before the program ends, also when a         *)
(* deadline closes the queue under both threads.  Only then is a line      *)
(* refused.                                                                *)
(***************************************************************************)
LinesProcessed ==
  /\ IsPrefix(processed, accepted)
  /\ Ended => processed = accepted
  /\ ~shutdown_requested => accepted = [n \in 1 .. sent |-> n]

(***************************************************************************)
(* When the program ends every diagnostic was counted or refused, and it   *)
(* is refused only after the deadline: processing is never done with       *)
(* diagnostics that the third thread does not get to see.                  *)
(***************************************************************************)
DiagnosticsCounted ==
  /\ dropped > 0 => shutdown_requested
  /\ Ended => diag_count + dropped = emitted

(***************************************************************************)
(* Every line in the queue is processed at last: although all threads may  *)
(* wait at once, at two full queues, none waits for ever.                  *)
(***************************************************************************)
EveryLineProcessed ==
  \A n \in 1 .. MaxLines : Len(accepted) >= n ~> Len(processed) >= n

(***************************************************************************)
(* The program ends: a replay from memory, one with a duration whatever    *)
(* arrives, and the others once their input thread is done, with every     *)
(* thread joined.                                                          *)
(***************************************************************************)
ProgramEnds ==
  program # "udp" \/ pc["input"] = "close" ~> Ended
=============================================================================
