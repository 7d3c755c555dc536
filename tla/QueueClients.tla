---------------------------- MODULE QueueClients ----------------------------
(***************************************************************************)
(* A queue of benchmark/blocking_queue.hpp and all that the threads it is  *)
(* meant for may do with it: any number of producers and consumers, any of *)
(* which, and others, may close it at any time.                            *)
(***************************************************************************)
EXTENDS BlockingQueue, Integers, FiniteSets

CONSTANTS
  Producers,   \* the threads that push
  Consumers,   \* the threads that pop
  Closers,     \* the threads that close, among these or others
  Capacities   \* the capacities a queue may have

Threads == Producers \cup Consumers \cup Closers

ASSUME ThreadsAssumption == IsFiniteSet(Threads)
ASSUME CapacitiesAssumption == Capacities \subseteq Nat

VARIABLES
  q,  \* the queue
  pc  \* what each thread does

vars == <<q, pc>>
-----------------------------------------------------------------------------
Goes(t, from, to) == pc[t] = from /\ pc' = [pc EXCEPT ![t] = to]

Stays(t, at) == pc[t] = at /\ UNCHANGED pc

Call(t) ==
  /\ \/ t \in Producers /\ Goes(t, "idle", "push")
     \/ t \in Consumers /\ Goes(t, "idle", "pop")
  /\ UNCHANGED q

Push(t) ==
  /\ ~Waits(q, t)
  /\ \/ /\ PushWaits(q)
        /\ Stays(t, "push")
        /\ q' = AwaitRoom(q, t)
     \/ /\ ~PushWaits(q)
        /\ PushRefused(q)
        /\ Goes(t, "push", "idle")
        /\ UNCHANGED q
     \/ /\ ~PushWaits(q)
        /\ ~PushRefused(q)
        /\ Goes(t, "push", "idle")
        /\ q' \in Pushed(q, t)

Pop(t) ==
  /\ ~Waits(q, t)
  /\ \/ /\ PopWaits(q)
        /\ Stays(t, "pop")
        /\ q' = AwaitValue(q, t)
     \/ /\ PopEnds(q)
        /\ Goes(t, "pop", "idle")
        /\ UNCHANGED q
     \/ /\ q.queue # <<>>
        /\ Goes(t, "pop", "idle")
        /\ q' \in Popped(q)

Close(t) ==
  /\ t \in Closers
  /\ Goes(t, "idle", "notify consumers")
  /\ q' = Closed(q)

NotifyConsumers(t) ==
  /\ Goes(t, "notify consumers", "notify producers")
  /\ q' = ConsumersNotified(q)

NotifyProducers(t) ==
  /\ Goes(t, "notify producers", "idle")
  /\ q' = ProducersNotified(q)

\* Spurious, from the point of view of the predicate.
WakeUp(t) ==
  /\ Waits(q, t)
  /\ q' = Woken(q, t)
  /\ UNCHANGED pc

Init ==
  /\ q \in {NewQueue(capacity) : capacity \in Capacities}
  /\ pc = [t \in Threads |-> "idle"]

Continue(t) == Push(t) \/ Pop(t) \/ NotifyConsumers(t) \/ NotifyProducers(t)

Next ==
  \E t \in Threads : Call(t) \/ Close(t) \/ WakeUp(t) \/ Continue(t)

Spec == Init /\ [][Next]_vars

\* A thread that can run does run, and gets the lock.
FairSpec == Spec /\ \A t \in Threads : WF_vars(Continue(t))
-----------------------------------------------------------------------------
States ==
  {"idle", "push", "pop", "notify consumers", "notify producers"}

Queues ==
  [capacity : Capacities, queue : Seq(Producers), isClosed : BOOLEAN,
   notFull : SUBSET Threads, notEmpty : SUBSET Threads]

RolesKept ==
  \A t \in Threads :
    /\ t \in q.notFull => pc[t] = "push"
    /\ t \in q.notEmpty => pc[t] = "pop"
    /\ pc[t] = "push" => t \in Producers
    /\ pc[t] = "pop" => t \in Consumers

(***************************************************************************)
(* The types of the state; only who pushes (pops) waits for room (a        *)
(* value), and nothing exceeds the capacity.                               *)
(***************************************************************************)
TypeOK ==
  /\ pc \in [Threads -> States]
  /\ q \in Queues
  /\ RolesKept
  /\ Len(q.queue) <= q.capacity

\* The threads that are in push or pop and do not wait.
Running(at) == {t \in Threads : pc[t] = at /\ ~Waits(q, t)}

\* Nobody waits in a closed queue but for the thread that closes it.
ConsumersWoken ==
  q.notEmpty # {} =>
    IF q.isClosed
      THEN \E t \in Threads : pc[t] = "notify consumers"
      ELSE Len(q.queue) <= Cardinality(Running("pop"))

ProducersWoken ==
  q.notFull # {} =>
    IF q.isClosed
      THEN \E t \in Threads : pc[t] \in {"notify consumers", "notify producers"}
      ELSE q.capacity - Len(q.queue) <= Cardinality(Running("push"))

(***************************************************************************)
(* No lost wakeup.  While a consumer waits, every value in the queue has a *)
(* consumer of its own that is on the way to it, although each push wakes  *)
(* one and anyone else may take the value first; likewise for producers    *)
(* and free places.                                                        *)
(***************************************************************************)
NoLostWakeup == ConsumersWoken /\ ProducersWoken

(***************************************************************************)
(* Once a queue is closed every call returns, also those that wait.        *)
(***************************************************************************)
ClosedReleases ==
  \A t \in Threads :
    q.isClosed /\ pc[t] \in {"push", "pop"} ~> pc[t] = "idle"

(***************************************************************************)
(* No consumer waits for ever while there are values, and no producer      *)
(* while there is room.                                                    *)
(***************************************************************************)
NobodyForgotten ==
  \A t \in Threads :
    /\ []<>(t \notin q.notEmpty \/ q.queue = <<>>)
    /\ []<>(t \notin q.notFull \/ Len(q.queue) = q.capacity)
=============================================================================
