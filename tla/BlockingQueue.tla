---------------------------- MODULE BlockingQueue ----------------------------
(***************************************************************************)
(* benchmark/blocking_queue.hpp: a bounded queue with two condition        *)
(* variables.  All that push and pop do with the lock held, up to the next *)
(* wait or the return, is one step; close() is three, since it notifies    *)
(* after it has released the lock.  The operators below give the queue     *)
(* after each of these steps: a thread that waits is in notFull or in      *)
(* notEmpty, and one that has been notified contends for the lock again    *)
(* and finds what the predicate of wait() then says.                       *)
(*                                                                         *)
(* The mutex is left out, as are the statistics.                           *)
(***************************************************************************)
EXTENDS Naturals, Sequences

NewQueue(capacity) ==
  [capacity |-> capacity, queue |-> <<>>, isClosed |-> FALSE,
   notFull |-> {}, notEmpty |-> {}]

\* Mutated form of NotifyOne: nobody is notified.
NotifyNone(waiting) == {waiting}

\* notify_one: one of those that wait goes on, if there is any.
NotifyOne(waiting) ==
  IF waiting = {} THEN {waiting} ELSE {waiting \ {t} : t \in waiting}

Waits(q, t) == t \in q.notFull \cup q.notEmpty

\* Mutated form of PushWaits: one value too many.
PushWaitsBeyond(q) ==
  q.capacity > 0 /\ ~q.isClosed /\ Len(q.queue) > q.capacity

\* push has to wait; otherwise it is refused or appends the value.
PushWaits(q) == q.capacity > 0 /\ ~q.isClosed /\ Len(q.queue) >= q.capacity

PushRefused(q) == q.capacity = 0 \/ q.isClosed

AwaitRoom(q, t) == [q EXCEPT !.notFull = @ \cup {t}]

Pushed(q, value) ==
  {[q EXCEPT !.queue = Append(@, value), !.notEmpty = waiting] :
     waiting \in NotifyOne(q.notEmpty)}

\* pop has to wait; otherwise it ends or takes the first value.
PopWaits(q) == ~q.isClosed /\ q.queue = <<>>

\* Mutated form of PopEnds: what a closed queue holds is forgotten.
PopEndsWhenClosed(q) == q.isClosed

PopEnds(q) == q.isClosed /\ q.queue = <<>>

AwaitValue(q, t) == [q EXCEPT !.notEmpty = @ \cup {t}]

Popped(q) ==
  {[q EXCEPT !.queue = Tail(@), !.notFull = waiting] :
     waiting \in NotifyOne(q.notFull)}

\* close(), the part with the lock and then the two notify_all.
Closed(q) == [q EXCEPT !.isClosed = TRUE]

\* Mutated form of ConsumersNotified: the notification is missing.
NobodyNotified(q) == q

ConsumersNotified(q) == [q EXCEPT !.notEmpty = {}]

ProducersNotified(q) == [q EXCEPT !.notFull = {}]

\* A thread may wake up without having been notified.
Woken(q, t) ==
  [q EXCEPT !.notFull = @ \ {t}, !.notEmpty = @ \ {t}]
=============================================================================
