----------------------------- MODULE QueueProofs -----------------------------
(***************************************************************************)
(* No wakeup is lost, for any number of producers, consumers and closers   *)
(* and any capacity.                                                       *)
(***************************************************************************)
EXTENDS QueueClients, FiniteSetTheorems, SequenceTheorems, TLAPS

LEMMA RunningFacts ==
  ASSUME NEW at
  PROVE  /\ IsFiniteSet(Running(at)) /\ Cardinality(Running(at)) \in Nat
         /\ IsFiniteSet(Running(at)') /\ Cardinality(Running(at)') \in Nat
<1>1. Running(at) \subseteq Threads /\ Running(at)' \subseteq Threads
  BY DEF Running
<1>2. IsFiniteSet(Running(at)) /\ IsFiniteSet(Running(at)')
  BY <1>1, ThreadsAssumption, FS_Subset
<1> QED BY <1>2, FS_CardinalityType

\* The number of threads that run does not fall when none of them stops,
LEMMA MoreRunning ==
  ASSUME NEW S, NEW T, IsFiniteSet(T), S \subseteq T
  PROVE  Cardinality(S) <= Cardinality(T)
BY FS_Subset

\* grows when one more goes on,
LEMMA OneMore ==
  ASSUME NEW S, NEW T, NEW t, IsFiniteSet(S), IsFiniteSet(T), t \notin S,
         S \cup {t} \subseteq T
  PROVE  Cardinality(S) + 1 <= Cardinality(T)
<1>1. Cardinality(S \cup {t}) = Cardinality(S) + 1
  BY FS_AddElement
<1>2. Cardinality(S \cup {t}) <= Cardinality(T)
  BY MoreRunning
<1> QED BY <1>1, <1>2

\* and falls by at most one when one of them stops.
LEMMA OneLess ==
  ASSUME NEW S, NEW T, NEW t, IsFiniteSet(S), IsFiniteSet(T), S \ {t} \subseteq T
  PROVE  Cardinality(S) - 1 <= Cardinality(T)
<1>1. IsFiniteSet(S \ {t}) /\ Cardinality(S) \in Nat /\ Cardinality(T) \in Nat
  BY FS_RemoveElement, FS_CardinalityType
<1>2. Cardinality(S \ {t}) <= Cardinality(T)
  BY MoreRunning
<1>3. CASE t \in S
  <2>1. Cardinality(S \ {t}) = Cardinality(S) - 1
    BY <1>3, FS_RemoveElement
  <2> QED BY <1>1, <1>2, <2>1
<1>4. CASE t \notin S
  <2>1. S \ {t} = S
    BY <1>4
  <2> QED BY <1>1, <1>2, <2>1
<1> QED BY <1>3, <1>4

LEMMA QueueFacts ==
  ASSUME TypeOK
  PROVE  /\ q.capacity \in Nat
         /\ q.queue \in Seq(Producers)
         /\ Len(q.queue) \in Nat
         /\ q.notFull \subseteq Threads
         /\ q.notEmpty \subseteq Threads
         /\ q.isClosed \in BOOLEAN
         /\ q.notFull \cap q.notEmpty = {}
<1>1. /\ q.capacity \in Nat
      /\ q.queue \in Seq(Producers)
      /\ q.notFull \subseteq Threads
      /\ q.notEmpty \subseteq Threads
      /\ q.isClosed \in BOOLEAN
  BY CapacitiesAssumption DEF TypeOK, Queues
<1>2. Len(q.queue) \in Nat
  BY <1>1, LenProperties
<1>3. q.notFull \cap q.notEmpty = {}
  BY <1>1 DEF TypeOK, RolesKept
<1> QED BY <1>1, <1>2, <1>3

QueueInvariant == TypeOK /\ NoLostWakeup

LEMMA InitQueue == Init => QueueInvariant
<1> SUFFICES ASSUME Init PROVE QueueInvariant
  OBVIOUS
<1>1. PICK capacity \in Capacities : q = NewQueue(capacity)
  BY DEF Init
<1>2. /\ q.capacity = capacity
      /\ q.queue = <<>>
      /\ q.notFull = {}
      /\ q.notEmpty = {}
  BY <1>1 DEF NewQueue
<1>3. capacity \in Nat /\ Len(q.queue) = 0
  BY <1>2, CapacitiesAssumption
<1>4. TypeOK
  BY <1>1, <1>2, <1>3, EmptySeq
     DEF TypeOK, Queues, RolesKept, States, Init, NewQueue
<1> QED BY <1>2, <1>4 DEF QueueInvariant, NoLostWakeup, ConsumersWoken, ProducersWoken

(***************************************************************************)
(* What most steps do to those that wait: they wake some or none, and the  *)
(* threads that answer for the others go on.                               *)
(***************************************************************************)
LEMMA ConsumersStay ==
  ASSUME ConsumersWoken, q.isClosed \in BOOLEAN,
         q'.isClosed = q.isClosed, q'.notEmpty \subseteq q.notEmpty,
         q.isClosed => \A t \in Threads :
           pc[t] = "notify consumers" => pc'[t] = "notify consumers",
         ~q.isClosed => /\ q'.queue = q.queue
                        /\ Running("pop") \subseteq Running("pop")'
                        /\ Len(q.queue) \in Nat
  PROVE  ConsumersWoken'
<1>1. SUFFICES ASSUME q'.notEmpty # {}
               PROVE  ConsumersWoken'
  BY DEF ConsumersWoken
<1>2. q.notEmpty # {}
  BY <1>1
<1>3. CASE q.isClosed
  BY <1>2, <1>3 DEF ConsumersWoken
<1>4. CASE ~q.isClosed
  <2>0. /\ Cardinality(Running("pop")) \in Nat
        /\ Cardinality(Running("pop")') \in Nat
    BY RunningFacts
  <2>1. Cardinality(Running("pop")) <= Cardinality(Running("pop")')
    BY <1>4, MoreRunning, RunningFacts
  <2>2. Len(q.queue) <= Cardinality(Running("pop"))
    BY <1>2, <1>4 DEF ConsumersWoken
  <2>3. q'.queue = q.queue /\ Len(q.queue) \in Nat
    BY <1>4
  <2>4. Len(q.queue) <= Cardinality(Running("pop")')
    BY ONLY <2>0, <2>1, <2>2, <2>3
  <2> QED BY <1>4, <2>3, <2>4 DEF ConsumersWoken
<1> QED BY <1>3, <1>4

LEMMA ProducersStay ==
  ASSUME ProducersWoken, q.isClosed \in BOOLEAN,
         q'.isClosed = q.isClosed, q'.notFull \subseteq q.notFull,
         q.isClosed => \A t \in Threads :
           pc[t] \in {"notify consumers", "notify producers"} =>
             pc'[t] \in {"notify consumers", "notify producers"},
         ~q.isClosed => /\ q'.queue = q.queue
                        /\ q'.capacity = q.capacity
                        /\ Running("push") \subseteq Running("push")'
                        /\ Len(q.queue) \in Nat /\ q.capacity \in Nat
  PROVE  ProducersWoken'
<1>1. SUFFICES ASSUME q'.notFull # {}
               PROVE  ProducersWoken'
  BY DEF ProducersWoken
<1>2. q.notFull # {}
  BY <1>1
<1>3. CASE q.isClosed
  BY <1>2, <1>3 DEF ProducersWoken
<1>4. CASE ~q.isClosed
  <2>0. /\ Cardinality(Running("push")) \in Nat
        /\ Cardinality(Running("push")') \in Nat
    BY RunningFacts
  <2>1. Cardinality(Running("push")) <= Cardinality(Running("push")')
    BY <1>4, MoreRunning, RunningFacts
  <2>2. q.capacity - Len(q.queue) <= Cardinality(Running("push"))
    BY <1>2, <1>4 DEF ProducersWoken
  <2>3. /\ q'.queue = q.queue /\ q'.capacity = q.capacity
        /\ Len(q.queue) \in Nat /\ q.capacity \in Nat
    BY <1>4
  <2>4. q.capacity - Len(q.queue) <= Cardinality(Running("push")')
    BY ONLY <2>0, <2>1, <2>2, <2>3
  <2> QED BY <1>4, <2>3, <2>4 DEF ProducersWoken
<1> QED BY <1>3, <1>4
-----------------------------------------------------------------------------
(***************************************************************************)
(* The steps of a thread.                                                  *)
(***************************************************************************)
LEMMA CallStep ==
  ASSUME QueueInvariant, NEW t \in Threads, Call(t)
  PROVE  QueueInvariant'
<1>1. /\ pc[t] = "idle"
      /\ \/ t \in Producers /\ pc' = [pc EXCEPT ![t] = "push"]
         \/ t \in Consumers /\ pc' = [pc EXCEPT ![t] = "pop"]
      /\ q' = q
  BY DEF Call, Goes
<1>2. TypeOK'
  BY <1>1 DEF QueueInvariant, TypeOK, States, RolesKept
<1>3. /\ Running("pop") \subseteq Running("pop")'
      /\ Running("push") \subseteq Running("push")'
  BY <1>1 DEF Running, Waits, QueueInvariant, TypeOK
<1>4. \A u \in Threads : pc'[u] = pc[u] \/ u = t
  BY <1>1 DEF QueueInvariant, TypeOK
<1>5. ConsumersWoken'
  BY <1>1, <1>3, <1>4, QueueFacts, ConsumersStay DEF QueueInvariant, NoLostWakeup
<1>6. ProducersWoken'
  BY <1>1, <1>3, <1>4, QueueFacts, ProducersStay DEF QueueInvariant, NoLostWakeup
<1> QED BY <1>2, <1>5, <1>6 DEF QueueInvariant, NoLostWakeup

\* A producer that waits leaves those that run when there is no room.
LEMMA AwaitRoomStep ==
  ASSUME QueueInvariant, NEW t \in Threads, ~Waits(q, t), PushWaits(q),
         Stays(t, "push"), q' = AwaitRoom(q, t)
  PROVE  QueueInvariant'
<1>1. /\ pc[t] = "push" /\ pc' = pc
      /\ q' = [q EXCEPT !.notFull = @ \cup {t}]
      /\ ~q.isClosed
      /\ Len(q.queue) >= q.capacity
  BY DEF Stays, AwaitRoom, PushWaits
<1>2. /\ q'.notEmpty = q.notEmpty
      /\ q'.notFull = q.notFull \cup {t}
      /\ q'.isClosed = q.isClosed
      /\ q'.queue = q.queue
      /\ q'.capacity = q.capacity
  BY <1>1 DEF QueueInvariant, TypeOK, Queues
<1>3. TypeOK'
  <2>1. q' \in Queues
    BY <1>1 DEF QueueInvariant, TypeOK, Queues
  <2>2. RolesKept'
    BY <1>1, <1>2 DEF QueueInvariant, TypeOK, RolesKept
  <2> QED BY <1>1, <1>2, <2>1, <2>2 DEF QueueInvariant, TypeOK
<1>4. Running("pop") \subseteq Running("pop")'
  BY <1>1, <1>2 DEF Running, Waits
<1>5. ConsumersWoken'
  BY <1>1, <1>2, <1>4, QueueFacts, ConsumersStay DEF QueueInvariant, NoLostWakeup
<1>6. ProducersWoken'
  <2>1. /\ Cardinality(Running("push")') \in Nat
        /\ q.capacity \in Nat /\ Len(q.queue) \in Nat
    BY RunningFacts, QueueFacts DEF QueueInvariant
  <2>2. Len(q.queue) >= q.capacity
    BY <1>1
  <2>3. q.capacity - Len(q.queue) <= Cardinality(Running("push")')
    BY ONLY <2>1, <2>2
  <2> QED BY <1>1, <1>2, <2>3 DEF ProducersWoken
<1> QED BY <1>3, <1>5, <1>6 DEF QueueInvariant, NoLostWakeup

\* The value has a consumer on the way to it; the producer leaves.
LEMMA PushedStep ==
  ASSUME QueueInvariant, NEW t \in Threads, ~Waits(q, t), ~PushWaits(q),
         ~PushRefused(q), Goes(t, "push", "idle"), q' \in Pushed(q, t)
  PROVE  QueueInvariant'
<1>1. PICK waiting \in NotifyOne(q.notEmpty) :
        q' = [q EXCEPT !.queue = Append(@, t), !.notEmpty = waiting]
  BY DEF Pushed
<1>2. /\ pc[t] = "push" /\ pc' = [pc EXCEPT ![t] = "idle"]
      /\ ~q.isClosed
      /\ Len(q.queue) < q.capacity
  BY QueueFacts DEF Goes, PushWaits, PushRefused, QueueInvariant
<1>3. t \in Producers /\ t \notin q.notFull /\ t \notin q.notEmpty
  BY <1>2 DEF QueueInvariant, TypeOK, RolesKept, Waits
<1>4. waiting \subseteq q.notEmpty
  BY DEF NotifyOne
<1>5. /\ Append(q.queue, t) \in Seq(Producers)
      /\ Len(Append(q.queue, t)) = Len(q.queue) + 1
  BY <1>3, QueueFacts, AppendProperties DEF QueueInvariant
<1>6. /\ q'.notEmpty = waiting
      /\ q'.notFull = q.notFull
      /\ q'.isClosed = q.isClosed
      /\ q'.capacity = q.capacity
      /\ q'.queue = Append(q.queue, t)
  BY <1>1 DEF QueueInvariant, TypeOK, Queues
<1>7. TypeOK'
  <2>1. waiting \in SUBSET Threads
    BY <1>4, QueueFacts DEF QueueInvariant
  <2>2. q' \in Queues
    BY <1>1, <1>5, <2>1 DEF QueueInvariant, TypeOK, Queues
  <2>3. RolesKept'
    BY <1>2, <1>3, <1>4, <1>6 DEF QueueInvariant, TypeOK, RolesKept
  <2>4. Len(q'.queue) <= q'.capacity
    BY <1>2, <1>5, <1>6, QueueFacts DEF QueueInvariant
  <2>5. pc' \in [Threads -> States]
    BY <1>2 DEF QueueInvariant, TypeOK, States
  <2> QED BY <2>2, <2>3, <2>4, <2>5 DEF TypeOK
<1>8. /\ Len(q.queue) \in Nat /\ q.capacity \in Nat
      /\ Cardinality(Running("pop")) \in Nat
      /\ Cardinality(Running("pop")') \in Nat
      /\ Cardinality(Running("push")) \in Nat
      /\ Cardinality(Running("push")') \in Nat
  BY RunningFacts, QueueFacts DEF QueueInvariant
<1>9. ConsumersWoken'
  <2>1. SUFFICES ASSUME q'.notEmpty # {}
                 PROVE  Len(q.queue) + 1 <= Cardinality(Running("pop")')
    BY <1>2, <1>5, <1>6 DEF ConsumersWoken
  <2>2. PICK u \in q.notEmpty : waiting = q.notEmpty \ {u}
    BY <1>6, <2>1 DEF NotifyOne
  <2>3. u \in Threads /\ pc[u] = "pop" /\ u # t /\ u \notin q.notFull
    BY <1>2, <2>2, QueueFacts DEF QueueInvariant, TypeOK, RolesKept
  <2>4. u \notin Running("pop")
    BY <2>2 DEF Running, Waits
  <2>5. u \in Running("pop")'
    BY <1>2, <1>6, <2>2, <2>3 DEF Running, Waits, QueueInvariant, TypeOK
  <2>6. Running("pop") \subseteq Running("pop")'
    BY <1>2, <1>4, <1>6 DEF Running, Waits, QueueInvariant, TypeOK
  <2>7. Cardinality(Running("pop")) + 1 <= Cardinality(Running("pop")')
    BY <2>4, <2>5, <2>6, OneMore, RunningFacts
  <2>8. Len(q.queue) <= Cardinality(Running("pop"))
    BY <1>2, <2>2 DEF QueueInvariant, NoLostWakeup, ConsumersWoken
  <2> QED BY ONLY <1>8, <2>7, <2>8
<1>10. ProducersWoken'
  <2>1. SUFFICES ASSUME q'.notFull # {}
                 PROVE  q.capacity - (Len(q.queue) + 1) <= Cardinality(Running("push")')
    BY <1>2, <1>5, <1>6 DEF ProducersWoken
  <2>2. Running("push") \ {t} \subseteq Running("push")'
    BY <1>2, <1>4, <1>6 DEF Running, Waits, QueueInvariant, TypeOK
  <2>3. Cardinality(Running("push")) - 1 <= Cardinality(Running("push")')
    BY <2>2, OneLess, RunningFacts
  <2>4. q.capacity - Len(q.queue) <= Cardinality(Running("push"))
    BY <1>2, <1>6, <2>1 DEF QueueInvariant, NoLostWakeup, ProducersWoken
  <2> QED BY ONLY <1>8, <2>3, <2>4
<1> QED BY <1>7, <1>9, <1>10 DEF QueueInvariant, NoLostWakeup

\* A call returns with nothing done: the queue is closed or has no capacity.
LEMMA ReturnStep ==
  ASSUME QueueInvariant, NEW t \in Threads, ~Waits(q, t),
         NEW at \in {"push", "pop"}, Goes(t, at, "idle"), q' = q,
         q.isClosed \/ (at = "push" /\ q.capacity = 0)
  PROVE  QueueInvariant'
<1>1. pc[t] = at /\ pc' = [pc EXCEPT ![t] = "idle"]
  BY DEF Goes
<1>2. TypeOK'
  <2>1. t \notin q.notFull /\ t \notin q.notEmpty
    BY DEF Waits
  <2> QED BY <1>1, <2>1 DEF QueueInvariant, TypeOK, States, RolesKept
<1>3. \A u \in Threads : pc'[u] = pc[u] \/ (u = t /\ pc[u] = at)
  BY <1>1 DEF QueueInvariant, TypeOK
<1>4. CASE q.isClosed
  <2>1. ConsumersWoken'
    BY <1>3, <1>4, QueueFacts, ConsumersStay DEF QueueInvariant, NoLostWakeup
  <2>2. ProducersWoken'
    BY <1>3, <1>4, QueueFacts, ProducersStay DEF QueueInvariant, NoLostWakeup
  <2> QED BY <1>2, <2>1, <2>2 DEF QueueInvariant, NoLostWakeup
<1>5. CASE ~q.isClosed
  <2>1. at = "push" /\ q.capacity = 0
    BY <1>5
  <2>2. Running("pop") \subseteq Running("pop")'
    BY <1>1, <2>1 DEF Running, Waits, QueueInvariant, TypeOK
  <2>3. ConsumersWoken'
    BY <1>5, <2>2, QueueFacts, ConsumersStay DEF QueueInvariant, NoLostWakeup
  <2>4. Len(q.queue) \in Nat /\ Cardinality(Running("push")') \in Nat
    BY QueueFacts, RunningFacts DEF QueueInvariant
  <2>5. 0 - Len(q.queue) <= Cardinality(Running("push")')
    BY ONLY <2>4
  <2>6. ProducersWoken'
    BY <1>5, <2>1, <2>5 DEF ProducersWoken
  <2> QED BY <1>2, <2>3, <2>6 DEF QueueInvariant, NoLostWakeup
<1> QED BY <1>4, <1>5

LEMMA PushStep ==
  ASSUME QueueInvariant, NEW t \in Threads, Push(t)
  PROVE  QueueInvariant'
<1>1. CASE PushWaits(q)
  BY <1>1, AwaitRoomStep DEF Push
<1>2. CASE ~PushWaits(q) /\ PushRefused(q)
  BY <1>2, ReturnStep DEF Push, PushRefused
<1>3. CASE ~PushWaits(q) /\ ~PushRefused(q)
  BY <1>3, PushedStep DEF Push
<1> QED BY <1>1, <1>2, <1>3

\* A consumer that waits leaves those that run when there is nothing.
LEMMA AwaitValueStep ==
  ASSUME QueueInvariant, NEW t \in Threads, ~Waits(q, t), PopWaits(q),
         Stays(t, "pop"), q' = AwaitValue(q, t)
  PROVE  QueueInvariant'
<1>1. /\ pc[t] = "pop" /\ pc' = pc
      /\ q' = [q EXCEPT !.notEmpty = @ \cup {t}]
      /\ ~q.isClosed
      /\ q.queue = <<>>
  BY DEF Stays, AwaitValue, PopWaits
<1>2. /\ q'.notFull = q.notFull
      /\ q'.notEmpty = q.notEmpty \cup {t}
      /\ q'.isClosed = q.isClosed
      /\ q'.queue = q.queue
      /\ q'.capacity = q.capacity
  BY <1>1 DEF QueueInvariant, TypeOK, Queues
<1>3. TypeOK'
  <2>1. q' \in Queues
    BY <1>1 DEF QueueInvariant, TypeOK, Queues
  <2>2. RolesKept'
    BY <1>1, <1>2 DEF QueueInvariant, TypeOK, RolesKept
  <2> QED BY <1>1, <1>2, <2>1, <2>2 DEF QueueInvariant, TypeOK
<1>4. Running("push") \subseteq Running("push")'
  BY <1>1, <1>2 DEF Running, Waits
<1>5. ProducersWoken'
  BY <1>1, <1>2, <1>4, QueueFacts, ProducersStay DEF QueueInvariant, NoLostWakeup
<1>6. ConsumersWoken'
  <2>1. Len(q.queue) = 0 /\ Cardinality(Running("pop")') \in Nat
    BY <1>1, RunningFacts
  <2>2. Len(q.queue) <= Cardinality(Running("pop")')
    BY ONLY <2>1
  <2> QED BY <1>1, <1>2, <2>2 DEF ConsumersWoken
<1> QED BY <1>3, <1>5, <1>6 DEF QueueInvariant, NoLostWakeup

\* The place that becomes free has a producer on the way to it.
LEMMA PoppedStep ==
  ASSUME QueueInvariant, NEW t \in Threads, ~Waits(q, t), q.queue # <<>>,
         Goes(t, "pop", "idle"), q' \in Popped(q)
  PROVE  QueueInvariant'
<1>1. PICK waiting \in NotifyOne(q.notFull) :
        q' = [q EXCEPT !.queue = Tail(@), !.notFull = waiting]
  BY DEF Popped
<1>2. /\ pc[t] = "pop" /\ pc' = [pc EXCEPT ![t] = "idle"]
      /\ t \notin q.notFull /\ t \notin q.notEmpty
  BY DEF Goes, Waits
<1>3. waiting \subseteq q.notFull
  BY DEF NotifyOne
<1>4. /\ Tail(q.queue) \in Seq(Producers)
      /\ Len(Tail(q.queue)) = Len(q.queue) - 1
  BY QueueFacts, HeadTailProperties DEF QueueInvariant
<1>5. /\ q'.notFull = waiting
      /\ q'.notEmpty = q.notEmpty
      /\ q'.isClosed = q.isClosed
      /\ q'.capacity = q.capacity
      /\ q'.queue = Tail(q.queue)
  BY <1>1 DEF QueueInvariant, TypeOK, Queues
<1>6. TypeOK'
  <2>1. waiting \in SUBSET Threads
    BY <1>3, QueueFacts DEF QueueInvariant
  <2>2. q' \in Queues
    BY <1>1, <1>4, <2>1 DEF QueueInvariant, TypeOK, Queues
  <2>3. RolesKept'
    BY <1>2, <1>3, <1>5 DEF QueueInvariant, TypeOK, RolesKept
  <2>4. Len(q'.queue) <= q'.capacity
    BY <1>4, <1>5, QueueFacts DEF QueueInvariant, TypeOK
  <2>5. pc' \in [Threads -> States]
    BY <1>2 DEF QueueInvariant, TypeOK, States
  <2> QED BY <2>2, <2>3, <2>4, <2>5 DEF TypeOK
<1>7. \A u \in Threads : pc'[u] = pc[u] \/ (u = t /\ pc[u] = "pop")
  BY <1>2 DEF QueueInvariant, TypeOK
<1>8. /\ Len(q.queue) \in Nat /\ q.capacity \in Nat
      /\ Cardinality(Running("pop")) \in Nat
      /\ Cardinality(Running("pop")') \in Nat
      /\ Cardinality(Running("push")) \in Nat
      /\ Cardinality(Running("push")') \in Nat
  BY RunningFacts, QueueFacts DEF QueueInvariant
<1>9. ConsumersWoken'
  <2>1. CASE q.isClosed
    BY <1>5, <1>7, <2>1, QueueFacts, ConsumersStay DEF QueueInvariant, NoLostWakeup
  <2>2. CASE ~q.isClosed /\ q.notEmpty # {}
    <3>1. Running("pop") \ {t} \subseteq Running("pop")'
      BY <1>2, <1>3, <1>5 DEF Running, Waits, QueueInvariant, TypeOK
    <3>2. Cardinality(Running("pop")) - 1 <= Cardinality(Running("pop")')
      BY <3>1, OneLess, RunningFacts
    <3>3. Len(q.queue) <= Cardinality(Running("pop"))
      BY <2>2 DEF QueueInvariant, NoLostWakeup, ConsumersWoken
    <3>4. Len(q.queue) - 1 <= Cardinality(Running("pop")')
      BY ONLY <1>8, <3>2, <3>3
    <3> QED BY <1>4, <1>5, <2>2, <3>4 DEF ConsumersWoken
  <2> QED BY <1>5, <2>1, <2>2 DEF ConsumersWoken
<1>10. ProducersWoken'
  <2>1. CASE q.isClosed
    BY <1>3, <1>5, <1>7, <2>1, QueueFacts, ProducersStay
       DEF QueueInvariant, NoLostWakeup
  <2>2. CASE ~q.isClosed /\ waiting # {}
    <3>1. PICK u \in q.notFull : waiting = q.notFull \ {u}
      BY <2>2 DEF NotifyOne
    <3>2. u \in Threads /\ pc[u] = "push" /\ u # t /\ u \notin q.notEmpty
      BY <1>2, <3>1, QueueFacts DEF QueueInvariant, TypeOK, RolesKept
    <3>3. u \notin Running("push")
      BY <3>1 DEF Running, Waits
    <3>4. u \in Running("push")'
      BY <1>2, <1>5, <3>1, <3>2 DEF Running, Waits, QueueInvariant, TypeOK
    <3>5. Running("push") \subseteq Running("push")'
      BY <1>2, <1>3, <1>5 DEF Running, Waits, QueueInvariant, TypeOK
    <3>6. Cardinality(Running("push")) + 1 <= Cardinality(Running("push")')
      BY <3>3, <3>4, <3>5, OneMore, RunningFacts
    <3>7. q.capacity - Len(q.queue) <= Cardinality(Running("push"))
      BY <2>2, <3>1 DEF QueueInvariant, NoLostWakeup, ProducersWoken
    <3>8. q.capacity - (Len(q.queue) - 1) <= Cardinality(Running("push")')
      BY ONLY <1>8, <3>6, <3>7
    <3> QED BY <1>4, <1>5, <2>2, <3>8 DEF ProducersWoken
  <2> QED BY <1>5, <2>1, <2>2 DEF ProducersWoken
<1> QED BY <1>6, <1>9, <1>10 DEF QueueInvariant, NoLostWakeup

LEMMA PopStep ==
  ASSUME QueueInvariant, NEW t \in Threads, Pop(t)
  PROVE  QueueInvariant'
<1>1. CASE PopWaits(q) /\ Stays(t, "pop") /\ q' = AwaitValue(q, t)
  BY <1>1, AwaitValueStep DEF Pop
<1>2. CASE PopEnds(q) /\ Goes(t, "pop", "idle") /\ q' = q
  BY <1>2, ReturnStep DEF Pop, PopEnds
<1>3. CASE q.queue # <<>> /\ Goes(t, "pop", "idle") /\ q' \in Popped(q)
  BY <1>3, PoppedStep DEF Pop
<1> QED BY <1>1, <1>2, <1>3 DEF Pop
-----------------------------------------------------------------------------
(***************************************************************************)
(* Closing takes three steps; whoever waits has the closer to wake it.     *)
(***************************************************************************)
LEMMA CloseStep ==
  ASSUME QueueInvariant, NEW t \in Threads, Close(t)
  PROVE  QueueInvariant'
<1>1. /\ pc[t] = "idle" /\ pc' = [pc EXCEPT ![t] = "notify consumers"]
      /\ q' = [q EXCEPT !.isClosed = TRUE]
  BY DEF Close, Goes, Closed
<1>2. q' \in Queues
  BY <1>1 DEF QueueInvariant, TypeOK, Queues
<1>3. /\ q'.isClosed /\ pc'[t] = "notify consumers"
      /\ q'.notFull = q.notFull /\ q'.notEmpty = q.notEmpty
      /\ q'.queue = q.queue /\ q'.capacity = q.capacity
  BY <1>1 DEF QueueInvariant, TypeOK, Queues
<1>4. TypeOK'
  BY <1>1, <1>2, <1>3 DEF QueueInvariant, TypeOK, States, RolesKept
<1> QED BY <1>3, <1>4 DEF QueueInvariant, NoLostWakeup, ConsumersWoken, ProducersWoken

LEMMA NotifyConsumersStep ==
  ASSUME QueueInvariant, NEW t \in Threads, NotifyConsumers(t)
  PROVE  QueueInvariant'
<1>1. /\ pc[t] = "notify consumers"
      /\ pc' = [pc EXCEPT ![t] = "notify producers"]
      /\ q' = [q EXCEPT !.notEmpty = {}]
  BY DEF NotifyConsumers, Goes, ConsumersNotified
<1>2. q' \in Queues
  BY <1>1 DEF QueueInvariant, TypeOK, Queues
<1>3. /\ q'.notEmpty = {} /\ q'.notFull = q.notFull
      /\ q'.isClosed = q.isClosed
      /\ q'.queue = q.queue /\ q'.capacity = q.capacity
      /\ \A u \in Threads : \/ pc'[u] = pc[u]
                            \/ pc'[u] = "notify producers"
  BY <1>1 DEF QueueInvariant, TypeOK, Queues
<1>4. TypeOK'
  BY <1>1, <1>2, <1>3 DEF QueueInvariant, TypeOK, States, RolesKept
<1>5. Running("push") \subseteq Running("push")'
  BY <1>1, <1>3 DEF Running, Waits, QueueInvariant, TypeOK
<1>6. ConsumersWoken'
  BY <1>3 DEF ConsumersWoken
<1>7. ProducersWoken'
  BY <1>3, <1>5, QueueFacts, ProducersStay DEF QueueInvariant, NoLostWakeup
<1> QED BY <1>4, <1>6, <1>7 DEF QueueInvariant, NoLostWakeup

LEMMA NotifyProducersStep ==
  ASSUME QueueInvariant, NEW t \in Threads, NotifyProducers(t)
  PROVE  QueueInvariant'
<1>1. /\ pc[t] = "notify producers" /\ pc' = [pc EXCEPT ![t] = "idle"]
      /\ q' = [q EXCEPT !.notFull = {}]
  BY DEF NotifyProducers, Goes, ProducersNotified
<1>2. q' \in Queues
  BY <1>1 DEF QueueInvariant, TypeOK, Queues
<1>3. /\ q'.notFull = {} /\ q'.notEmpty = q.notEmpty
      /\ q'.isClosed = q.isClosed
      /\ q'.queue = q.queue /\ q'.capacity = q.capacity
      /\ \A u \in Threads : \/ pc'[u] = pc[u]
                            \/ pc[u] = "notify producers"
  BY <1>1 DEF QueueInvariant, TypeOK, Queues
<1>4. TypeOK'
  BY <1>1, <1>2, <1>3 DEF QueueInvariant, TypeOK, States, RolesKept
<1>5. Running("pop") \subseteq Running("pop")'
  BY <1>1, <1>3 DEF Running, Waits, QueueInvariant, TypeOK
<1>6. ProducersWoken'
  BY <1>3 DEF ProducersWoken
<1>7. ConsumersWoken'
  BY <1>3, <1>5, QueueFacts, ConsumersStay DEF QueueInvariant, NoLostWakeup
<1> QED BY <1>4, <1>6, <1>7 DEF QueueInvariant, NoLostWakeup

LEMMA WakeUpStep ==
  ASSUME QueueInvariant, NEW t \in Threads, WakeUp(t)
  PROVE  QueueInvariant'
<1>1. /\ pc' = pc
      /\ q' = [q EXCEPT !.notFull = @ \ {t}, !.notEmpty = @ \ {t}]
  BY DEF WakeUp, Woken
<1>2. q' \in Queues
  BY <1>1 DEF QueueInvariant, TypeOK, Queues
<1>3. /\ q'.notEmpty = q.notEmpty \ {t} /\ q'.notFull = q.notFull \ {t}
      /\ q'.isClosed = q.isClosed
      /\ q'.queue = q.queue /\ q'.capacity = q.capacity
  BY <1>1 DEF QueueInvariant, TypeOK, Queues
<1>4. TypeOK'
  BY <1>1, <1>2, <1>3 DEF QueueInvariant, TypeOK, RolesKept
<1>5. /\ Running("pop") \subseteq Running("pop")'
      /\ Running("push") \subseteq Running("push")'
  BY <1>1, <1>3 DEF Running, Waits
<1>6. ConsumersWoken'
  BY <1>1, <1>3, <1>5, QueueFacts, ConsumersStay DEF QueueInvariant, NoLostWakeup
<1>7. ProducersWoken'
  BY <1>1, <1>3, <1>5, QueueFacts, ProducersStay DEF QueueInvariant, NoLostWakeup
<1> QED BY <1>4, <1>6, <1>7 DEF QueueInvariant, NoLostWakeup
-----------------------------------------------------------------------------
LEMMA QueuePreserved ==
  ASSUME QueueInvariant, [Next]_vars
  PROVE  QueueInvariant'
<1>1. CASE UNCHANGED vars
  BY <1>1 DEF vars, QueueInvariant, TypeOK, RolesKept, NoLostWakeup,
              ConsumersWoken, ProducersWoken, Running, Waits
<1>2. CASE Next
  <2>1. PICK t \in Threads : Call(t) \/ Close(t) \/ WakeUp(t) \/ Continue(t)
    BY <1>2 DEF Next
  <2> QED
    BY <2>1, CallStep, CloseStep, NotifyConsumersStep, NotifyProducersStep,
       WakeUpStep, PushStep, PopStep DEF Continue
<1> QED BY <1>1, <1>2

(***************************************************************************)
(* While a thread waits for a value or for room, every value and every     *)
(* free place has a thread on the way to it; nobody waits in a closed      *)
(* queue without a closer that will wake it.                               *)
(***************************************************************************)
THEOREM WakeupsKept == Spec => []NoLostWakeup
<1>1. QueueInvariant /\ [Next]_vars => QueueInvariant'
  BY QueuePreserved
<1>2. QueueInvariant => NoLostWakeup
  BY DEF QueueInvariant
<1> QED BY <1>1, <1>2, InitQueue, PTL DEF Spec

(***************************************************************************)
(* The queue stays within its capacity, and only who pushes or pops waits. *)
(***************************************************************************)
THEOREM QueueTypes == Spec => []TypeOK
<1>1. QueueInvariant /\ [Next]_vars => QueueInvariant'
  BY QueuePreserved
<1>2. QueueInvariant => TypeOK
  BY DEF QueueInvariant
<1> QED BY <1>1, <1>2, InitQueue, PTL DEF Spec
=============================================================================
