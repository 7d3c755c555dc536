---------------------------- MODULE PriorityProofs ----------------------------
(***************************************************************************)
(* PriorityInvariant holds in every state, and what follows from it for    *)
(* lots and paper orders: the trees of a paper level hold all lots of its  *)
(* orders (and perhaps some of orders that are gone) and of the nodes      *)
(* ahead of them, no lot of an order is lost, sweeps are complete, and     *)
(* paper orders are served in the order of their arrival.  Last, the       *)
(* Fenwick tree that the code keeps computes the prefix sums that all of   *)
(* this reasons about.                                                     *)
(***************************************************************************)
EXTENDS PaperTradingProofs, FenwickTree

(***************************************************************************)
(* Prefix sums.                                                            *)
(***************************************************************************)
LEMMA AddedPrefix ==
  ASSUME NEW t \in Seq(Int), NEW index \in Nat, NEW delta \in Int,
         NEW count \in 0 .. Len(t)
  PROVE  PrefixSum(AddAt(t, index, delta), count) =
           PrefixSum(t, count) + IF count > index THEN delta ELSE 0
<1>1. /\ Len(t) \in Nat
      /\ DOMAIN t = 1 .. Len(t)
  BY LenProperties
<1>2. CASE count = 0
  BY <1>2 DEF PrefixSum
<1>3. CASE count # 0
  <2>1. count \in 1 .. Len(t)
    BY <1>1, <1>3
  <2>2. t[count] \in Int
    BY <2>1, ElementOfSeq
  <2>3. AddAt(t, index, delta)[count] =
          IF count > index THEN t[count] + delta ELSE t[count]
    BY <1>1, <2>1 DEF AddAt
  <2> QED BY <1>3, <2>2, <2>3 DEF PrefixSum
<1> QED BY <1>2, <1>3

\* add changes the quantity at one index, and the sum of all by as much.
LEMMA AddedValues ==
  ASSUME NEW t \in Seq(Int), NEW index \in Nat, index < Len(t), NEW delta \in Int
  PROVE  /\ Total(AddAt(t, index, delta)) = Total(t) + delta
         /\ \A i \in 0 .. Len(t) - 1 :
              ValueAt(AddAt(t, index, delta), i) =
                ValueAt(t, i) + IF i = index THEN delta ELSE 0
<1>1. Len(t) \in Nat /\ Len(AddAt(t, index, delta)) = Len(t)
  BY LenProperties, AddAtProperties
<1>2. Total(AddAt(t, index, delta)) = Total(t) + delta
  <2>1. Len(t) \in 0 .. Len(t) /\ Len(t) > index
    BY <1>1
  <2> QED BY <1>1, <2>1, AddedPrefix DEF Total
<1>3. ASSUME NEW i \in 0 .. Len(t) - 1
      PROVE  ValueAt(AddAt(t, index, delta), i) =
               ValueAt(t, i) + IF i = index THEN delta ELSE 0
  <2>1. i \in 0 .. Len(t) /\ i + 1 \in 0 .. Len(t)
    BY <1>1
  <2>2. /\ PrefixSum(AddAt(t, index, delta), i) =
             PrefixSum(t, i) + IF i > index THEN delta ELSE 0
        /\ PrefixSum(AddAt(t, index, delta), i + 1) =
             PrefixSum(t, i + 1) + IF i + 1 > index THEN delta ELSE 0
    BY <2>1, AddedPrefix
  <2>3. PICK a \in Int, b \in Int : a = PrefixSum(t, i) /\ b = PrefixSum(t, i + 1)
    BY <2>1, PrefixSumType
  <2> QED BY <2>2, <2>3 DEF ValueAt
<1> QED BY <1>2, <1>3

\* A tree that grows has the new quantity last and keeps the others.
LEMMA PushedValues ==
  ASSUME NEW t \in Seq(Int), NEW value \in Int
  PROVE  /\ Total(Push(t, value)) = Total(t) + value
         /\ ValueAt(Push(t, value), Len(t)) = value
         /\ \A i \in 0 .. Len(t) - 1 : ValueAt(Push(t, value), i) = ValueAt(t, i)
<1> DEFINE u == Push(t, value)
<1>1. Len(t) \in Nat
  BY LenProperties
<1>2. Total(t) \in Int
  BY <1>1, PrefixSumType DEF Total
<1>3. /\ Len(u) = Len(t) + 1
      /\ \A k \in 1 .. Len(t) : u[k] = t[k]
      /\ u[Len(t) + 1] = Total(t) + value
  BY <1>1, <1>2, AppendProperties DEF Push
<1> HIDE DEF u
<1>4. \A count \in 0 .. Len(t) : PrefixSum(u, count) = PrefixSum(t, count)
  BY <1>1, <1>3 DEF PrefixSum
<1>5. PrefixSum(u, Len(t) + 1) = Total(t) + value
  BY <1>1, <1>3 DEF PrefixSum
<1>6. Total(u) = Total(t) + value
  BY <1>3, <1>5 DEF Total
<1>7. ValueAt(u, Len(t)) = value
  <2>1. PrefixSum(u, Len(t)) = Total(t)
    BY <1>1, <1>4 DEF Total
  <2> QED BY <1>2, <1>5, <2>1 DEF ValueAt
<1>8. ASSUME NEW i \in 0 .. Len(t) - 1 PROVE ValueAt(u, i) = ValueAt(t, i)
  <2>1. i \in 0 .. Len(t) /\ i + 1 \in 0 .. Len(t)
    BY <1>1
  <2> QED BY <1>4, <2>1 DEF ValueAt
<1> QED BY <1>6, <1>7, <1>8 DEF u

(***************************************************************************)
(* A level's tree holds the lots of its orders, and perhaps of some that   *)
(* are gone.                                                               *)
(***************************************************************************)
LotsHeld(ids, sums, lots, orders) ==
  /\ lots = Total(sums)
  /\ \A k \in DOMAIN ids :
       /\ orders[ids[k]].paper_index < Len(sums)
       /\ ValueAt(sums, orders[ids[k]].paper_index) = orders[ids[k]].remaining
  /\ \A index \in 0 .. Len(sums) - 1 :
       (\A k \in DOMAIN ids : orders[ids[k]].paper_index # index) =>
         ValueAt(sums, index) >= 0
  /\ \A j, k \in DOMAIN ids : j < k =>
       /\ orders[ids[j]].paper_index < orders[ids[k]].paper_index
       /\ orders[ids[j]].placement_seq < orders[ids[k]].placement_seq

LEMMA LotsHeldByQueue ==
  ASSUME NEW level, NEW orders
  PROVE  LotsHeld(level.orders, level.paper_qty, level.queued_lots, orders) <=>
           LET queue == [k \in DOMAIN level.orders |-> orders[level.orders[k]]]
           IN  /\ level.queued_lots = Total(level.paper_qty)
               /\ \A k \in DOMAIN queue :
                    /\ queue[k].paper_index < Len(level.paper_qty)
                    /\ ValueAt(level.paper_qty, queue[k].paper_index) =
                         queue[k].remaining
               /\ \A index \in 0 .. Len(level.paper_qty) - 1 :
                    (\A k \in DOMAIN queue : queue[k].paper_index # index) =>
                      ValueAt(level.paper_qty, index) >= 0
               /\ \A j, k \in DOMAIN queue : j < k =>
                    /\ queue[j].paper_index < queue[k].paper_index
                    /\ queue[j].placement_seq < queue[k].placement_seq
<1> DEFINE queue == [k \in DOMAIN level.orders |-> orders[level.orders[k]]]
<1>1. /\ DOMAIN queue = DOMAIN level.orders
      /\ \A k \in DOMAIN level.orders : queue[k] = orders[level.orders[k]]
  OBVIOUS
<1> HIDE DEF queue
<1>2. LotsHeld(level.orders, level.paper_qty, level.queued_lots, orders) <=>
        /\ level.queued_lots = Total(level.paper_qty)
        /\ \A k \in DOMAIN queue :
             /\ queue[k].paper_index < Len(level.paper_qty)
             /\ ValueAt(level.paper_qty, queue[k].paper_index) = queue[k].remaining
        /\ \A index \in 0 .. Len(level.paper_qty) - 1 :
             (\A k \in DOMAIN queue : queue[k].paper_index # index) =>
               ValueAt(level.paper_qty, index) >= 0
        /\ \A j, k \in DOMAIN queue : j < k =>
             /\ queue[j].paper_index < queue[k].paper_index
             /\ queue[j].placement_seq < queue[k].placement_seq
  BY <1>1 DEF LotsHeld
<1> QED BY <1>2 DEF queue

LEMMA QueuedLotsHeld ==
  QueuedLots <=>
    \A side \in Sides : \A p \in DOMAIN paper[side] :
      LotsHeld(paper[side][p].orders, paper[side][p].paper_qty,
               paper[side][p].queued_lots, paper_orders)
BY LotsHeldByQueue, ZenonT(40) DEF QueuedLots

LEMMA QueuedLotsHeldNext ==
  QueuedLots' <=>
    \A side \in Sides : \A p \in DOMAIN paper'[side] :
      LotsHeld(paper'[side][p].orders, paper'[side][p].paper_qty,
               paper'[side][p].queued_lots, paper_orders')
BY LotsHeldByQueue, ZenonT(40) DEF QueuedLots

\* Only the orders of the queue matter.
LEMMA LotsHeldElsewhere ==
  ASSUME NEW ids, NEW sums, NEW lots, NEW orders, NEW new,
         LotsHeld(ids, sums, lots, orders),
         \A id \in ToSet(ids) : new[id] = orders[id]
  PROVE  LotsHeld(ids, sums, lots, new)
<1>1. \A k \in DOMAIN ids : new[ids[k]] = orders[ids[k]]
  BY DEF ToSet
<1> QED BY <1>1 DEF LotsHeld

LEMMA NoLotsHeld ==
  ASSUME NEW orders
  PROVE  LotsHeld(<<>>, <<>>, 0, orders)
<1>1. DOMAIN <<>> = {} /\ Len(<<>>) = 0
  OBVIOUS
<1> QED BY <1>1 DEF LotsHeld, Total, PrefixSum

TypedQueue(ids, orders) ==
  /\ ids \in Seq(Ids)
  /\ IsInjective(ids)
  /\ \A x \in ToSet(ids) : /\ orders[x].paper_index \in Nat
                           /\ orders[x].placement_seq \in Nat
                           /\ orders[x].remaining \in Nat

\* Each order of a queue has an index of its own.
LEMMA IndicesDiffer ==
  ASSUME NEW ids, NEW sums, NEW lots, NEW orders, TypedQueue(ids, orders),
         LotsHeld(ids, sums, lots, orders),
         NEW j \in DOMAIN ids, NEW k \in DOMAIN ids, j # k
  PROVE  /\ ids[j] # ids[k]
         /\ orders[ids[j]].paper_index # orders[ids[k]].paper_index
<1>1. DOMAIN ids = 1 .. Len(ids) /\ Len(ids) \in Nat
  BY LenProperties DEF TypedQueue
<1>2. ids[j] \in ToSet(ids) /\ ids[k] \in ToSet(ids)
  BY DEF ToSet
<1>3. orders[ids[j]].paper_index \in Nat /\ orders[ids[k]].paper_index \in Nat
  BY <1>2 DEF TypedQueue
<1>4. j < k \/ k < j
  BY <1>1
<1>5. \/ orders[ids[j]].paper_index < orders[ids[k]].paper_index
      \/ orders[ids[k]].paper_index < orders[ids[j]].paper_index
  BY <1>4 DEF LotsHeld
<1>6. orders[ids[j]].paper_index # orders[ids[k]].paper_index
  BY <1>3, <1>5
<1> QED BY <1>6

\* Lots leave an order that stays in the queue, or join it.
LEMMA OrderKeepsPlace ==
  ASSUME NEW ids, NEW sums \in Seq(Int), NEW lots \in Int, NEW orders, NEW new,
         TypedQueue(ids, orders), LotsHeld(ids, sums, lots, orders),
         NEW id \in ToSet(ids), NEW qty \in Int,
         \A x \in ToSet(ids) :
           /\ new[x].paper_index = orders[x].paper_index
           /\ new[x].placement_seq = orders[x].placement_seq
           /\ x # id => new[x].remaining = orders[x].remaining,
         new[id].remaining = orders[id].remaining - qty
  PROVE  LotsHeld(ids, AddAt(sums, orders[id].paper_index, -qty), lots - qty, new)
<1>1. \A k \in DOMAIN ids : ids[k] \in ToSet(ids)
  BY DEF ToSet
<1>2. PICK k0 \in DOMAIN ids : ids[k0] = id
  BY DEF ToSet
<1>3. PICK index \in Nat : index = orders[id].paper_index
  BY DEF TypedQueue
<1>4. \A k \in DOMAIN ids :
        k # k0 => ids[k] # id /\ orders[ids[k]].paper_index # index
  BY <1>2, <1>3, IndicesDiffer
<1>5. PICK t \in Seq(Int) : t = AddAt(sums, index, -qty)
  BY AddAtProperties
<1>6. index < Len(sums)
  BY <1>2, <1>3 DEF LotsHeld
<1>7. /\ Len(t) = Len(sums)
      /\ Len(sums) \in Nat
      /\ Total(t) = Total(sums) - qty
      /\ \A i \in 0 .. Len(sums) - 1 :
           ValueAt(t, i) = ValueAt(sums, i) + IF i = index THEN -qty ELSE 0
  <2>1. PICK d \in Int : d = -qty
    OBVIOUS
  <2>2. t = AddAt(sums, index, d)
    BY <1>5, <2>1
  <2>3. Len(t) = Len(sums) /\ Len(sums) \in Nat
    BY <2>2, LenProperties, AddAtProperties
  <2>4. /\ Total(t) = Total(sums) + d
        /\ \A i \in 0 .. Len(sums) - 1 :
             ValueAt(t, i) = ValueAt(sums, i) + IF i = index THEN d ELSE 0
    BY <1>6, <2>2, AddedValues
  <2>5. Total(sums) \in Int
    BY <2>3, PrefixSumType DEF Total
  <2>6. Total(t) = Total(sums) - qty
    BY <2>1, <2>4, <2>5
  <2> QED BY <2>1, <2>3, <2>4, <2>6
<1>8. \A i \in 0 .. Len(sums) - 1 : ValueAt(sums, i) \in Int
  <2> SUFFICES ASSUME NEW i \in 0 .. Len(sums) - 1 PROVE ValueAt(sums, i) \in Int
    OBVIOUS
  <2>1. i \in 0 .. Len(sums) /\ i + 1 \in 0 .. Len(sums)
    BY <1>7
  <2> QED BY <2>1, PrefixSumType DEF ValueAt
<1>9. ASSUME NEW k \in DOMAIN ids
      PROVE  /\ new[ids[k]].paper_index < Len(t)
             /\ ValueAt(t, new[ids[k]].paper_index) = new[ids[k]].remaining
  <2>1. PICK i \in Nat : i = orders[ids[k]].paper_index
    BY <1>1 DEF TypedQueue
  <2>2. /\ new[ids[k]].paper_index = i
        /\ i < Len(sums)
        /\ ValueAt(sums, i) = orders[ids[k]].remaining
    BY <1>1, <2>1 DEF LotsHeld
  <2>3. i \in 0 .. Len(sums) - 1
    BY <1>7, <2>2
  <2>4. orders[ids[k]].remaining \in Nat
    BY <1>1 DEF TypedQueue
  <2>5. CASE k = k0
    <3>1. i = index /\ new[ids[k]].remaining = orders[ids[k]].remaining - qty
      BY <1>2, <1>3, <2>1, <2>5
    <3>2. ValueAt(t, i) = ValueAt(sums, i) + (-qty)
      BY <1>7, <2>3, <3>1
    <3> QED BY <1>7, <2>2, <2>4, <3>1, <3>2
  <2>6. CASE k # k0
    <3>1. i # index /\ new[ids[k]].remaining = orders[ids[k]].remaining
      BY <1>1, <1>4, <2>1, <2>6
    <3>2. ValueAt(t, i) = ValueAt(sums, i) + 0
      BY <1>7, <2>3, <3>1
    <3> QED BY <1>7, <2>2, <2>4, <3>1, <3>2
  <2> QED BY <2>5, <2>6
<1>10. ASSUME NEW i \in 0 .. Len(t) - 1,
              \A k \in DOMAIN ids : new[ids[k]].paper_index # i
       PROVE  ValueAt(t, i) >= 0
  <2>1. \A k \in DOMAIN ids : orders[ids[k]].paper_index # i
    BY <1>1, <1>10
  <2>2. i \in 0 .. Len(sums) - 1
    BY <1>7
  <2>3. ValueAt(sums, i) >= 0 /\ i # index
    BY <1>2, <1>3, <2>1, <2>2 DEF LotsHeld
  <2>4. ValueAt(t, i) = ValueAt(sums, i) + 0
    BY <1>7, <2>2, <2>3
  <2>5. ValueAt(sums, i) \in Int
    <3>1. Len(sums) \in Nat
      BY LenProperties
    <3>2. i \in 0 .. Len(sums) /\ i + 1 \in 0 .. Len(sums)
      BY <2>2, <3>1
    <3> QED BY <3>2, PrefixSumType DEF ValueAt
  <2> QED BY <2>3, <2>4, <2>5
<1>11. \A j, k \in DOMAIN ids : j < k =>
         /\ new[ids[j]].paper_index < new[ids[k]].paper_index
         /\ new[ids[j]].placement_seq < new[ids[k]].placement_seq
  BY <1>1 DEF LotsHeld
<1>12. lots - qty = Total(t)
  BY <1>7 DEF LotsHeld
<1> QED BY <1>3, <1>5, <1>9, <1>10, <1>11, <1>12 DEF LotsHeld

\* An order leaves the queue, with its lots or without.
LEMMA OrderLeavesQueue ==
  ASSUME NEW ids, NEW sums \in Seq(Int), NEW lots \in Int, NEW orders, NEW new,
         TypedQueue(ids, orders), LotsHeld(ids, sums, lots, orders),
         NEW id \in ToSet(ids), NEW told \in Int, told <= orders[id].remaining,
         \A x \in ToSet(ids) : x # id => new[x] = orders[x]
  PROVE  LotsHeld(Unlinked(ids, id), AddAt(sums, orders[id].paper_index, -told),
                  lots - told, new)
<1> DEFINE i == PositionOf(ids, id)
<1>1. /\ DOMAIN ids = 1 .. Len(ids)
      /\ Len(ids) \in Nat
      /\ ids \in Seq(Ids)
      /\ IsInjective(ids)
      /\ \A k \in 1 .. Len(ids) : ids[k] \in ToSet(ids)
  BY LenProperties DEF TypedQueue, ToSet
<1>2. i \in 1 .. Len(ids) /\ ids[i] = id
  BY <1>1 DEF ToSet, PositionOf
<1>3. PICK u : u = Unlinked(ids, id)
  OBVIOUS
<1>4. /\ u \in Seq(Ids)
      /\ Len(u) = Len(ids) - 1
      /\ \A k \in 1 .. Len(ids) - 1 : u[k] = IF k < i THEN ids[k] ELSE ids[k + 1]
  BY <1>1, <1>2, <1>3, RemoveAtProperties DEF Unlinked
<1> HIDE DEF i
<1>5. DOMAIN u = 1 .. Len(ids) - 1
  BY <1>4, LenProperties
<1> DEFINE old(k) == IF k < i THEN k ELSE k + 1
<1>6. \A k \in DOMAIN u : /\ old(k) \in 1 .. Len(ids)
                          /\ old(k) # i
                          /\ u[k] = ids[old(k)]
  BY <1>1, <1>2, <1>4, <1>5
<1>7. \A j, k \in DOMAIN u : j < k => old(j) < old(k)
  BY <1>1, <1>2, <1>5
<1>8. \A k \in 1 .. Len(ids) : k # i => \E j \in DOMAIN u : old(j) = k
  <2> SUFFICES ASSUME NEW k \in 1 .. Len(ids), k # i
               PROVE  \E j \in DOMAIN u : old(j) = k
    OBVIOUS
  <2>1. CASE k < i
    <3>1. k \in DOMAIN u /\ old(k) = k
      BY <1>1, <1>2, <1>5, <2>1
    <3> QED BY <3>1
  <2>2. CASE k > i
    <3>1. k - 1 \in DOMAIN u /\ old(k - 1) = k
      BY <1>1, <1>2, <1>5, <2>2
    <3> QED BY <3>1
  <2> QED BY <1>1, <1>2, <2>1, <2>2
<1> HIDE DEF old
<1>9. \A k \in DOMAIN u : /\ u[k] \in ToSet(ids)
                          /\ u[k] # id
                          /\ new[u[k]] = orders[ids[old(k)]]
  BY <1>1, <1>2, <1>6, IndicesDiffer
<1>10. PICK index \in Nat : index = orders[id].paper_index
  BY DEF TypedQueue
<1>11. \A k \in DOMAIN ids : k # i => orders[ids[k]].paper_index # index
  BY <1>1, <1>2, <1>10, IndicesDiffer
<1>12. PICK t \in Seq(Int) : t = AddAt(sums, index, -told)
  BY AddAtProperties
<1>13. /\ index < Len(sums)
       /\ ValueAt(sums, index) = orders[id].remaining
       /\ orders[id].remaining \in Nat
  BY <1>1, <1>2, <1>10 DEF LotsHeld, TypedQueue
<1>14. /\ Len(t) = Len(sums)
       /\ Len(sums) \in Nat
       /\ Total(t) = Total(sums) - told
       /\ \A n \in 0 .. Len(sums) - 1 :
            ValueAt(t, n) = ValueAt(sums, n) + IF n = index THEN -told ELSE 0
  <2>1. PICK d \in Int : d = -told
    OBVIOUS
  <2>2. t = AddAt(sums, index, d)
    BY <1>12, <2>1
  <2>3. Len(t) = Len(sums) /\ Len(sums) \in Nat
    BY <2>2, LenProperties, AddAtProperties
  <2>4. /\ Total(t) = Total(sums) + d
        /\ \A n \in 0 .. Len(sums) - 1 :
             ValueAt(t, n) = ValueAt(sums, n) + IF n = index THEN d ELSE 0
    BY <1>13, <2>2, AddedValues
  <2>5. Total(sums) \in Int
    BY <2>3, PrefixSumType DEF Total
  <2>6. Total(t) = Total(sums) - told
    BY <2>1, <2>4, <2>5
  <2> QED BY <2>1, <2>3, <2>4, <2>6
<1>15. ASSUME NEW k \in DOMAIN u
       PROVE  /\ new[u[k]].paper_index < Len(t)
              /\ ValueAt(t, new[u[k]].paper_index) = new[u[k]].remaining
  <2>1. PICK m \in DOMAIN ids : m = old(k) /\ m # i
    BY <1>1, <1>6
  <2>2. PICK n \in Nat : n = orders[ids[m]].paper_index
    BY <1>1 DEF TypedQueue
  <2>3. /\ new[u[k]] = orders[ids[m]]
        /\ n < Len(sums)
        /\ ValueAt(sums, n) = orders[ids[m]].remaining
        /\ n # index
    BY <1>9, <1>11, <2>1, <2>2 DEF LotsHeld
  <2>4. n \in 0 .. Len(sums) - 1 /\ orders[ids[m]].remaining \in Nat
    BY <1>1, <1>14, <2>3 DEF TypedQueue
  <2>5. ValueAt(t, n) = ValueAt(sums, n) + 0
    BY <1>14, <2>3, <2>4
  <2> QED BY <1>14, <2>2, <2>3, <2>4, <2>5
<1>16. ASSUME NEW n \in 0 .. Len(t) - 1,
              \A k \in DOMAIN u : new[u[k]].paper_index # n
       PROVE  ValueAt(t, n) >= 0
  <2>1. n \in 0 .. Len(sums) - 1
    BY <1>14
  <2>2. \A k \in DOMAIN ids : k # i => orders[ids[k]].paper_index # n
    BY <1>1, <1>8, <1>9, <1>16
  <2>3. CASE n = index
    <3>1. ValueAt(t, n) = orders[id].remaining + (-told)
      BY <1>13, <1>14, <2>1, <2>3
    <3> QED BY <1>13, <3>1
  <2>4. CASE n # index
    <3>1. \A k \in DOMAIN ids : orders[ids[k]].paper_index # n
      BY <1>2, <1>10, <2>2, <2>4
    <3>2. ValueAt(sums, n) >= 0 /\ ValueAt(sums, n) \in Int
      <4>1. n \in 0 .. Len(sums) /\ n + 1 \in 0 .. Len(sums)
        BY <1>14, <2>1
      <4> QED BY <2>1, <3>1, <4>1, PrefixSumType DEF LotsHeld, ValueAt
    <3>3. ValueAt(t, n) = ValueAt(sums, n) + 0
      BY <1>14, <2>1, <2>4
    <3> QED BY <3>2, <3>3
  <2> QED BY <2>3, <2>4
<1>17. ASSUME NEW j \in DOMAIN u, NEW k \in DOMAIN u, j < k
       PROVE  /\ new[u[j]].paper_index < new[u[k]].paper_index
              /\ new[u[j]].placement_seq < new[u[k]].placement_seq
  <2>1. /\ old(j) \in DOMAIN ids
        /\ old(k) \in DOMAIN ids
        /\ old(j) < old(k)
    BY <1>1, <1>6, <1>7, <1>17
  <2> QED BY <1>9, <2>1 DEF LotsHeld
<1>18. lots - told = Total(t)
  BY <1>14 DEF LotsHeld
<1> QED BY <1>3, <1>10, <1>12, <1>15, <1>16, <1>17, <1>18 DEF LotsHeld

\* An order that arrived after all of a queue joins it.
LEMMA OrderJoinsQueue ==
  ASSUME NEW ids, NEW sums \in Seq(Int), NEW lots \in Int, NEW orders, NEW new,
         TypedQueue(ids, orders), LotsHeld(ids, sums, lots, orders),
         NEW id, id \notin ToSet(ids), NEW qty \in Int, NEW seq \in Nat,
         \A x \in ToSet(ids) :
           new[x] = orders[x] /\ orders[x].placement_seq < seq,
         new[id].remaining = qty,
         new[id].placement_seq = seq,
         new[id].paper_index = Len(sums)
  PROVE  LotsHeld(Append(ids, id), Push(sums, qty), lots + qty, new)
<1>1. /\ DOMAIN ids = 1 .. Len(ids)
      /\ Len(ids) \in Nat
      /\ ids \in Seq(Ids)
      /\ \A k \in 1 .. Len(ids) : ids[k] \in ToSet(ids)
  BY LenProperties DEF TypedQueue, ToSet
<1>2. PICK u : u = Append(ids, id)
  OBVIOUS
<1>3. /\ DOMAIN u = 1 .. Len(ids) + 1
      /\ u[Len(ids) + 1] = id
      /\ \A k \in 1 .. Len(ids) : u[k] = ids[k]
  <2>1. PICK S : ids \in Seq(S) /\ id \in S
    <3>1. ids \in Seq(Ids \cup {id})
      <4>1. \A k \in 1 .. Len(ids) : ids[k] \in Ids \cup {id}
        BY <1>1, ElementOfSeq
      <4> QED BY <1>1, <4>1, IsASeq
    <3> QED BY <3>1
  <2> QED BY <1>1, <1>2, <2>1, AppendProperties
<1>4. PICK t : t = Push(sums, qty)
  OBVIOUS
<1>5. /\ Len(sums) \in Nat
      /\ Len(t) = Len(sums) + 1
      /\ Total(t) = Total(sums) + qty
      /\ ValueAt(t, Len(sums)) = qty
      /\ \A i \in 0 .. Len(sums) - 1 : ValueAt(t, i) = ValueAt(sums, i)
  BY <1>4, LenProperties, PushProperties, PushedValues
<1>6. \A k \in 1 .. Len(ids) :
        /\ new[u[k]] = orders[ids[k]]
        /\ orders[ids[k]].placement_seq < seq
        /\ orders[ids[k]].paper_index \in Nat
        /\ orders[ids[k]].paper_index < Len(sums)
        /\ ValueAt(sums, orders[ids[k]].paper_index) = orders[ids[k]].remaining
  BY <1>1, <1>3 DEF LotsHeld, TypedQueue
<1>7. \A k \in DOMAIN u : k \in 1 .. Len(ids) \/ k = Len(ids) + 1
  BY <1>1, <1>3
<1>8. ASSUME NEW k \in DOMAIN u
      PROVE  /\ new[u[k]].paper_index < Len(t)
             /\ ValueAt(t, new[u[k]].paper_index) = new[u[k]].remaining
  <2>1. CASE k \in 1 .. Len(ids)
    <3>1. PICK n \in Nat : n = orders[ids[k]].paper_index /\ n < Len(sums)
      BY <1>6, <2>1
    <3>2. n \in 0 .. Len(sums) - 1 /\ n < Len(t)
      BY <1>5, <3>1
    <3> QED BY <1>5, <1>6, <2>1, <3>1, <3>2
  <2>2. CASE k = Len(ids) + 1
    BY <1>3, <1>5, <2>2
  <2> QED BY <1>7, <2>1, <2>2
<1>9. ASSUME NEW n \in 0 .. Len(t) - 1,
             \A k \in DOMAIN u : new[u[k]].paper_index # n
      PROVE  ValueAt(t, n) >= 0
  <2>1. n # Len(sums)
    BY <1>1, <1>3, <1>9
  <2>2. n \in 0 .. Len(sums) - 1
    BY <1>5, <2>1
  <2>3. ASSUME NEW k \in DOMAIN ids PROVE orders[ids[k]].paper_index # n
    <3>1. k \in 1 .. Len(ids) /\ k \in DOMAIN u
      BY <1>1, <1>3
    <3>2. new[u[k]] = orders[ids[k]] /\ new[u[k]].paper_index # n
      BY <1>6, <1>9, <3>1
    <3> QED BY <3>2
  <2> QED BY <1>5, <2>2, <2>3 DEF LotsHeld
<1>10. ASSUME NEW j \in DOMAIN u, NEW k \in DOMAIN u, j < k
       PROVE  /\ new[u[j]].paper_index < new[u[k]].paper_index
              /\ new[u[j]].placement_seq < new[u[k]].placement_seq
  <2>1. j \in 1 .. Len(ids)
    BY <1>1, <1>3, <1>10
  <2>2. CASE k \in 1 .. Len(ids)
    BY <1>1, <1>6, <1>10, <2>1, <2>2 DEF LotsHeld
  <2>3. CASE k = Len(ids) + 1
    BY <1>3, <1>6, <2>1, <2>3
  <2> QED BY <1>7, <2>2, <2>3
<1>11. lots + qty = Total(t)
  BY <1>5 DEF LotsHeld
<1> QED BY <1>2, <1>4, <1>8, <1>9, <1>10, <1>11 DEF LotsHeld

(***************************************************************************)
(* The steps that change a queue or its tree.                              *)
(***************************************************************************)
LEMMA QueueTyped ==
  ASSUME PaperInvariant, NEW side \in Sides, NEW p \in DOMAIN paper[side]
  PROVE  /\ TypedQueue(paper[side][p].orders, paper_orders)
         /\ paper[side][p].paper_qty \in Seq(Int)
         /\ paper[side][p].queued_lots \in Int
         /\ \A x \in ToSet(paper[side][p].orders) :
              /\ x \in DOMAIN paper_orders
              /\ paper_order_info[x] = [side |-> side, price |-> p]
<1>1. \A x \in ToSet(paper[side][p].orders) :
        /\ x \in DOMAIN paper_orders
        /\ paper_order_info[x] = [side |-> side, price |-> p]
  BY LevelFacts DEF RestingAt
<1> QED BY <1>1, LevelFacts, PaperOrderFacts DEF TypedQueue

LEMMA OrdersAfterTake ==
  ASSUME PaperInvariant, NEW id \in DOMAIN paper_orders,
         NEW qty \in Int, NEW told, NEW status, LeavePaperOrder(id, qty, told, status)
  PROVE  /\ DOMAIN paper_orders' \subseteq DOMAIN paper_orders
         /\ \A x \in DOMAIN paper_orders :
              x # id => /\ x \in DOMAIN paper_orders'
                        /\ paper_orders'[x] = paper_orders[x]
         /\ qty # paper_orders[id].remaining =>
              /\ paper_orders'[id].remaining = paper_orders[id].remaining - qty
              /\ paper_orders'[id].placement_seq = paper_orders[id].placement_seq
              /\ paper_orders'[id].paper_index = paper_orders[id].paper_index
<1>1. CASE qty = paper_orders[id].remaining
  <2>1. paper_orders' = Erased(paper_orders, id)
    BY <1>1 DEF LeavePaperOrder
  <2> QED BY <1>1, <2>1 DEF Erased, Restrict
<1>2. CASE qty # paper_orders[id].remaining
  <2>1. paper_orders[id] \in PaperOrder
    BY PaperOrderFacts
  <2>2. PICK order : order = [paper_orders[id] EXCEPT
                                !.remaining = paper_orders[id].remaining - qty,
                                !.status = status]
    OBVIOUS
  <2>3. paper_orders' = [paper_orders EXCEPT ![id] = order]
    BY <1>2, <2>2 DEF LeavePaperOrder
  <2>4. /\ order.remaining = paper_orders[id].remaining - qty
        /\ order.placement_seq = paper_orders[id].placement_seq
        /\ order.paper_index = paper_orders[id].paper_index
    BY <2>1, <2>2 DEF PaperOrder
  <2> QED BY <2>3, <2>4
<1> QED BY <1>1, <1>2

LEMMA TakenLotsHeld ==
  ASSUME PaperInvariant, QueuedLots, NEW id \in DOMAIN paper_orders,
         NEW qty \in Int, NEW told \in Int, told <= paper_orders[id].remaining,
         qty # paper_orders[id].remaining => told = qty,
         NEW status, LeavePaperOrder(id, qty, told, status)
  PROVE  QueuedLots'
<1>1. PICK side, p :
        /\ side \in Sides
        /\ side = paper_order_info[id].side
        /\ p = paper_order_info[id].price
        /\ p \in DOMAIN paper[side]
        /\ id \in ToSet(paper[side][p].orders)
  BY PaperOrderFacts
<1> side \in Sides
  BY <1>1
<1>2. PICK level :
        level = [paper[side][p] EXCEPT
          !.orders = IF qty = paper_orders[id].remaining THEN Unlinked(@, id) ELSE @,
          !.queued_lots = @ - told,
          !.paper_qty = AddAt(@, paper_orders[id].paper_index, -told)]
  OBVIOUS
<1>3. paper' = [paper EXCEPT ![side] =
                  IF level.orders = <<>> THEN Erased(@, p)
                                         ELSE [@ EXCEPT ![p] = level]]
  BY <1>1, <1>2 DEF LeavePaperOrder
<1>4. /\ level.orders = IF qty = paper_orders[id].remaining
                          THEN Unlinked(paper[side][p].orders, id)
                          ELSE paper[side][p].orders
      /\ level.queued_lots = paper[side][p].queued_lots - told
      /\ level.paper_qty =
           AddAt(paper[side][p].paper_qty, paper_orders[id].paper_index, -told)
  <2>1. paper[side][p] \in PaperOrderLevel
    BY <1>1, LevelFacts
  <2> QED BY <1>2, <2>1 DEF PaperOrderLevel
<1>5. LotsHeld(level.orders, level.paper_qty, level.queued_lots, paper_orders')
  <2>1. /\ TypedQueue(paper[side][p].orders, paper_orders)
        /\ paper[side][p].paper_qty \in Seq(Int)
        /\ paper[side][p].queued_lots \in Int
        /\ \A x \in ToSet(paper[side][p].orders) : x \in DOMAIN paper_orders
    BY <1>1, QueueTyped
  <2>2. LotsHeld(paper[side][p].orders, paper[side][p].paper_qty,
                 paper[side][p].queued_lots, paper_orders)
    BY <1>1, QueuedLotsHeld
  <2>3. CASE qty = paper_orders[id].remaining
    <3>1. \A x \in ToSet(paper[side][p].orders) :
            x # id => paper_orders'[x] = paper_orders[x]
      BY <2>1, OrdersAfterTake
    <3>2. LotsHeld(Unlinked(paper[side][p].orders, id),
                   AddAt(paper[side][p].paper_qty, paper_orders[id].paper_index, -told),
                   paper[side][p].queued_lots - told, paper_orders')
      BY <1>1, <2>1, <2>2, <3>1, OrderLeavesQueue
    <3> QED BY <1>4, <2>3, <3>2
  <2>4. CASE qty # paper_orders[id].remaining
    <3>1. /\ \A x \in ToSet(paper[side][p].orders) :
               /\ paper_orders'[x].paper_index = paper_orders[x].paper_index
               /\ paper_orders'[x].placement_seq = paper_orders[x].placement_seq
               /\ x # id => paper_orders'[x].remaining = paper_orders[x].remaining
          /\ paper_orders'[id].remaining = paper_orders[id].remaining - qty
      BY <2>1, <2>4, OrdersAfterTake
    <3>2. LotsHeld(paper[side][p].orders,
                   AddAt(paper[side][p].paper_qty, paper_orders[id].paper_index, -qty),
                   paper[side][p].queued_lots - qty, paper_orders')
      BY <1>1, <2>1, <2>2, <3>1, OrderKeepsPlace
    <3> QED BY <1>4, <2>4, <3>2
  <2> QED BY <2>3, <2>4
<1>6. DOMAIN paper = Sides
  BY DEF PaperInvariant, PaperTypes
<1>7. /\ \A s \in Sides : s # side => paper'[s] = paper[s]
      /\ paper'[side] = IF level.orders = <<>> THEN Erased(paper[side], p)
                        ELSE [paper[side] EXCEPT ![p] = level]
  BY <1>3, <1>6
<1>8. \A s \in Sides : \A q \in DOMAIN paper'[s] :
        \/ s = side /\ q = p /\ paper'[s][q] = level
        \/ /\ s # side \/ q # p
           /\ q \in DOMAIN paper[s]
           /\ paper'[s][q] = paper[s][q]
  BY <1>7 DEF Erased, Restrict
<1>9. ASSUME NEW s \in Sides, NEW q \in DOMAIN paper[s], s # side \/ q # p
      PROVE  LotsHeld(paper[s][q].orders, paper[s][q].paper_qty,
                      paper[s][q].queued_lots, paper_orders')
  <2>1. \A x \in ToSet(paper[s][q].orders) : x \in DOMAIN paper_orders /\ x # id
    <3>1. \A x \in ToSet(paper[s][q].orders) :
            /\ x \in DOMAIN paper_orders
            /\ paper_order_info[x] = [side |-> s, price |-> q]
      BY QueueTyped
    <3>2. paper_order_info[id].side = side /\ paper_order_info[id].price = p
      BY <1>1
    <3> QED BY <1>9, <3>1, <3>2
  <2>2. \A x \in ToSet(paper[s][q].orders) : paper_orders'[x] = paper_orders[x]
    BY <2>1, OrdersAfterTake
  <2> QED BY <2>2, QueuedLotsHeld, LotsHeldElsewhere
<1> QED BY <1>5, <1>8, <1>9, QueuedLotsHeldNext

\* The levels with what they hold of paper orders, whatever they know of the
\* market.
LotsStay ==
  /\ \A side \in Sides : \A p \in DOMAIN paper'[side] :
       /\ p \in DOMAIN paper[side]
       /\ paper'[side][p].orders = paper[side][p].orders
       /\ paper'[side][p].paper_qty = paper[side][p].paper_qty
       /\ paper'[side][p].queued_lots = paper[side][p].queued_lots
  /\ paper_orders' = paper_orders

LEMMA StayingLotsHeld ==
  ASSUME QueuedLots, LotsStay
  PROVE  QueuedLots'
BY QueuedLotsHeld, QueuedLotsHeldNext DEF LotsStay

LEMMA MarketChangesHeld ==
  ASSUME PaperInvariant, NEW side \in Sides, NEW p \in DOMAIN paper[side], NEW level,
         level.orders = paper[side][p].orders,
         level.paper_qty = paper[side][p].paper_qty,
         level.queued_lots = paper[side][p].queued_lots,
         paper' = [paper EXCEPT ![side][p] = level],
         paper_orders' = paper_orders
  PROVE  LotsStay
<1>1. DOMAIN paper = Sides
  BY DEF PaperInvariant, PaperTypes
<1>2. /\ \A s \in Sides : s # side => paper'[s] = paper[s]
      /\ paper'[side] = [paper[side] EXCEPT ![p] = level]
  BY <1>1
<1> QED BY <1>2 DEF LotsStay

LEMMA AdjustedLotsStay ==
  ASSUME PaperInvariant, NEW side \in Sides, NEW p, NEW seq, NEW delta,
         paper' = PaperMarketAdjusted(side, p, seq, delta),
         paper_orders' = paper_orders
  PROVE  LotsStay
<1>1. CASE ~HasPaperLevel(side, p)
  BY <1>1 DEF PaperMarketAdjusted, LotsStay
<1>2. CASE HasPaperLevel(side, p)
  <2>1. p \in DOMAIN paper[side] /\ paper[side][p] \in PaperOrderLevel
    BY <1>2, LevelFacts DEF HasPaperLevel
  <2>2. PICK level : level = MarketAdjusted(paper[side][p], seq, delta)
    OBVIOUS
  <2>3. paper' = [paper EXCEPT ![side][p] = level]
    BY <1>2, <2>2 DEF PaperMarketAdjusted
  <2>4. /\ level.orders = paper[side][p].orders
        /\ level.paper_qty = paper[side][p].paper_qty
        /\ level.queued_lots = paper[side][p].queued_lots
    BY <2>1, <2>2 DEF MarketAdjusted, PaperOrderLevel
  <2> QED BY <2>1, <2>3, <2>4, MarketChangesHeld
<1> QED BY <1>1, <1>2

LEMMA JoinedMarketLotsStay ==
  ASSUME PaperInvariant, NEW side \in Sides, NEW p \in DOMAIN paper[side],
         NEW seq, NEW qty,
         paper' = [paper EXCEPT ![side][p] = WithMarket(@, seq, qty)],
         paper_orders' = paper_orders
  PROVE  LotsStay
<1>1. paper[side][p] \in PaperOrderLevel
  BY LevelFacts
<1>2. PICK level : level = WithMarket(paper[side][p], seq, qty)
  OBVIOUS
<1>3. paper' = [paper EXCEPT ![side][p] = level]
  BY <1>2
<1>4. /\ level.orders = paper[side][p].orders
      /\ level.paper_qty = paper[side][p].paper_qty
      /\ level.queued_lots = paper[side][p].queued_lots
  BY <1>1, <1>2 DEF WithMarket, PaperOrderLevel
<1> QED BY ONLY PaperInvariant, side \in Sides, p \in DOMAIN paper[side],
                <1>3, <1>4, paper_orders' = paper_orders, MarketChangesHeld

LEMMA NewLevelHeld ==
  ASSUME PaperInvariant, QueuedLots, NEW side \in Sides, NEW p,
         paper' = [paper EXCEPT ![side] = Put(@, p, NewPaperLevel)],
         paper_orders' = paper_orders
  PROVE  QueuedLots'
<1>1. DOMAIN paper = Sides
  BY DEF PaperInvariant, PaperTypes
<1>2. /\ \A s \in Sides : s # side => paper'[s] = paper[s]
      /\ paper'[side] = Put(paper[side], p, NewPaperLevel)
  BY <1>1
<1>3. \A s \in Sides : \A q \in DOMAIN paper'[s] :
        \/ paper'[s][q] = NewPaperLevel
        \/ q \in DOMAIN paper[s] /\ paper'[s][q] = paper[s][q]
  BY <1>2 DEF Put
<1>4. LotsHeld(NewPaperLevel.orders, NewPaperLevel.paper_qty,
               NewPaperLevel.queued_lots, paper_orders)
  BY NoLotsHeld DEF NewPaperLevel
<1> QED BY <1>3, <1>4, QueuedLotsHeld, QueuedLotsHeldNext

LEMMA JoinedLotsHeld ==
  ASSUME Inductive, QueuedLots, PlacedBefore, RestStrategy
  PROVE  QueuedLots' /\ PlacedBefore'
<1>1. /\ call.event.side \in Sides
      /\ call.event.price \in DOMAIN paper[call.event.side]
      /\ call.event.id \notin DOMAIN paper_orders
      /\ call.remaining \in Nat
      /\ PaperInvariant
      /\ order_arrival_seq \in Nat
  <2>1. call.pc = "mirror"
    BY DEF RestStrategy
  <2> QED BY <2>1, HandlerFacts, HandlerKinds
          DEF Inductive, HandlerState, HasPaperLevel, BookInvariant, BookTypes
<1>2. PICK side, p :
        /\ side \in Sides
        /\ side = call.event.side
        /\ p = call.event.price
        /\ p \in DOMAIN paper[side]
  BY <1>1
<1> side \in Sides
  BY <1>2
<1>3. PICK id : id = call.event.id /\ id \notin DOMAIN paper_orders
  BY <1>1
<1>4. PICK order :
        order = [remaining     |-> call.remaining,
                 status        |-> IF call.remaining < call.event.qty
                                     THEN "PARTIALLY_FILLED" ELSE "OPEN",
                 placement_seq |-> order_arrival_seq,
                 paper_index   |-> Len(paper[side][p].paper_qty)]
  OBVIOUS
<1>5. PICK level : level = Joined(paper[side][p], id, call.remaining)
  OBVIOUS
<1>6. /\ paper_orders' = Put(paper_orders, id, order)
      /\ paper' = [paper EXCEPT ![side][p] = level]
      /\ order_arrival_seq' = order_arrival_seq + 1
  BY <1>2, <1>3, <1>4, <1>5 DEF RestStrategy
<1>7. /\ DOMAIN paper_orders' = DOMAIN paper_orders \cup {id}
      /\ paper_orders'[id] = order
      /\ \A x \in DOMAIN paper_orders : paper_orders'[x] = paper_orders[x]
  BY <1>3, <1>6 DEF Put
<1>8. /\ level.orders = Append(paper[side][p].orders, id)
      /\ level.queued_lots = paper[side][p].queued_lots + call.remaining
      /\ level.paper_qty = Push(paper[side][p].paper_qty, call.remaining)
  <2>1. paper[side][p] \in PaperOrderLevel
    BY <1>1, <1>2, LevelFacts
  <2> QED BY <1>5, <2>1 DEF Joined, PaperOrderLevel
<1>9. LotsHeld(level.orders, level.paper_qty, level.queued_lots, paper_orders')
  <2>1. /\ TypedQueue(paper[side][p].orders, paper_orders)
        /\ paper[side][p].paper_qty \in Seq(Int)
        /\ paper[side][p].queued_lots \in Int
        /\ \A x \in ToSet(paper[side][p].orders) : x \in DOMAIN paper_orders
    BY <1>1, <1>2, QueueTyped
  <2>2. LotsHeld(paper[side][p].orders, paper[side][p].paper_qty,
                 paper[side][p].queued_lots, paper_orders)
    BY <1>2, QueuedLotsHeld
  <2>3. /\ id \notin ToSet(paper[side][p].orders)
        /\ \A x \in ToSet(paper[side][p].orders) :
             /\ paper_orders'[x] = paper_orders[x]
             /\ paper_orders[x].placement_seq < order_arrival_seq
    BY <1>3, <1>7, <2>1 DEF PlacedBefore
  <2>4. /\ paper_orders'[id].remaining = call.remaining
        /\ paper_orders'[id].placement_seq = order_arrival_seq
        /\ paper_orders'[id].paper_index = Len(paper[side][p].paper_qty)
    BY <1>4, <1>7
  <2>5. LotsHeld(Append(paper[side][p].orders, id),
                 Push(paper[side][p].paper_qty, call.remaining),
                 paper[side][p].queued_lots + call.remaining, paper_orders')
    <3>1. call.remaining \in Int /\ order_arrival_seq \in Nat
      BY <1>1
    <3> QED BY <2>1, <2>2, <2>3, <2>4, <3>1, OrderJoinsQueue
  <2> QED BY <1>8, <2>5
<1>10. \A s \in Sides : \A q \in DOMAIN paper'[s] :
         \/ s = side /\ q = p /\ paper'[s][q] = level
         \/ q \in DOMAIN paper[s] /\ paper'[s][q] = paper[s][q]
  <2>1. DOMAIN paper = Sides
    BY <1>1 DEF PaperInvariant, PaperTypes
  <2>2. /\ \A s \in Sides : s # side => paper'[s] = paper[s]
        /\ paper'[side] = [paper[side] EXCEPT ![p] = level]
    BY <1>6, <2>1
  <2> QED BY <2>2
<1>11. ASSUME NEW s \in Sides, NEW q \in DOMAIN paper[s]
       PROVE  LotsHeld(paper[s][q].orders, paper[s][q].paper_qty,
                       paper[s][q].queued_lots, paper_orders')
  <2>1. \A x \in ToSet(paper[s][q].orders) : x \in DOMAIN paper_orders
    BY <1>1, QueueTyped
  <2>2. \A x \in ToSet(paper[s][q].orders) : paper_orders'[x] = paper_orders[x]
    BY <1>7, <2>1
  <2> QED BY <2>2, QueuedLotsHeld, LotsHeldElsewhere
<1>12. QueuedLots'
  BY <1>9, <1>10, <1>11, QueuedLotsHeldNext
<1>13. PlacedBefore'
  <2>1. order.placement_seq = order_arrival_seq
    BY <1>4
  <2>2. \A x \in DOMAIN paper_orders :
          /\ paper_orders[x].placement_seq \in Nat
          /\ paper_orders[x].placement_seq < order_arrival_seq
    BY <1>1, PaperOrderFacts DEF PlacedBefore
  <2>3. \A x \in DOMAIN paper_orders' :
          paper_orders'[x].placement_seq < order_arrival_seq + 1
    BY <1>1, <1>7, <2>1, <2>2
  <2> QED BY <1>6, <2>3 DEF PlacedBefore
<1> QED BY <1>12, <1>13

(***************************************************************************)
(* The other steps add no order, and no arrival is taken back.             *)
(***************************************************************************)
LEMMA PlacedBeforeKept ==
  ASSUME Inductive, PlacedBefore,
         order_arrival_seq' \in {order_arrival_seq, order_arrival_seq + 1},
         \A x \in DOMAIN paper_orders' :
           /\ x \in DOMAIN paper_orders
           /\ paper_orders'[x].placement_seq = paper_orders[x].placement_seq
  PROVE  PlacedBefore'
<1>1. order_arrival_seq \in Nat
  BY DEF Inductive, BookInvariant, BookTypes
<1>2. \A x \in DOMAIN paper_orders :
        /\ paper_orders[x].placement_seq \in Nat
        /\ paper_orders[x].placement_seq < order_arrival_seq
  BY PaperOrderFacts DEF PlacedBefore, Inductive
<1>3. \A x \in DOMAIN paper_orders' :
        paper_orders'[x].placement_seq < order_arrival_seq'
  BY <1>1, <1>2
<1> QED BY <1>3 DEF PlacedBefore

LEMMA UntouchedLotsHeld ==
  ASSUME Inductive, QueuedLots, PlacedBefore, LotsStay,
         order_arrival_seq' \in {order_arrival_seq, order_arrival_seq + 1}
  PROVE  QueuedLots' /\ PlacedBefore'
<1>1. \A x \in DOMAIN paper_orders' :
        /\ x \in DOMAIN paper_orders
        /\ paper_orders'[x].placement_seq = paper_orders[x].placement_seq
  BY DEF LotsStay
<1> QED BY <1>1, StayingLotsHeld, PlacedBeforeKept

LEMMA ReducedLotsHeld ==
  ASSUME Inductive, QueuedLots, PlacedBefore,
         order_arrival_seq' = order_arrival_seq,
         NEW id \in DOMAIN paper_orders, NEW qty \in Int,
         NEW told \in Int, told <= paper_orders[id].remaining,
         qty # paper_orders[id].remaining => told = qty,
         NEW status, LeavePaperOrder(id, qty, told, status)
  PROVE  QueuedLots' /\ PlacedBefore'
<1>1. PaperInvariant
  BY DEF Inductive
<1>2. \A x \in DOMAIN paper_orders' :
        /\ x \in DOMAIN paper_orders
        /\ paper_orders'[x].placement_seq = paper_orders[x].placement_seq
  <2>1. CASE qty = paper_orders[id].remaining
    <3>1. paper_orders' = Erased(paper_orders, id)
      BY <2>1 DEF LeavePaperOrder
    <3> QED BY <3>1 DEF Erased, Restrict
  <2>2. CASE qty # paper_orders[id].remaining
    BY <1>1, <2>2, OrdersAfterTake
  <2> QED BY <2>1, <2>2
<1> QED BY <1>1, <1>2, TakenLotsHeld, PlacedBeforeKept

LEMMA LotsOnUpdate ==
  ASSUME Inductive, QueuedLots, PlacedBefore, NEW e \in Event,
         OnDelete(e) \/ OnSubtract(e) \/ OnSet(e)
  PROVE  QueuedLots' /\ PlacedBefore'
<1>1. ~Unknown(e) /\ e.source \in Sources /\ e.qty \in Int
  BY DEF OnDelete, OnSubtract, OnSet, Accepts, Rejected, SubtractRejected, Event
<1>2. CASE e.source = "HISTORICAL"
  <2>1. e.id \in DOMAIN order_info
    BY <1>1, <1>2, Known
  <2>2. PICK qty : SetHistorical(e.id, qty)
    BY <1>2 DEF OnDelete, OnSubtract, OnSet
  <2>3. LotsStay
    <3>1. Side(e.id) \in Sides
      BY <2>1, OrderFacts DEF Inductive
    <3> QED BY <2>2, <3>1, AdjustedLotsStay DEF SetHistorical, Inductive
  <2> QED BY <2>2, <2>3, UntouchedLotsHeld DEF SetHistorical
<1>3. CASE e.source = "STRATEGY"
  <2>1. e.id \in DOMAIN paper_orders
    BY <1>1, <1>3, Known
  <2>2. paper_orders[e.id].remaining \in Int
    BY <2>1, PaperQuantity
  <2>3. PICK qty \in Int : /\ qty <= paper_orders[e.id].remaining
                           /\ \E status : LeavePaperOrder(e.id, qty, qty, status)
    <3>1. PICK had \in Int : had = paper_orders[e.id].remaining
      BY <2>2
    <3>2. /\ Lesser(had, e.qty) \in Int
          /\ Lesser(had, e.qty) <= had
          /\ had - (IF e.qty < 0 THEN 0 ELSE e.qty) \in Int
          /\ had - (IF e.qty < 0 THEN 0 ELSE e.qty) <= had
          /\ had <= had
      BY <1>1 DEF Lesser
    <3> QED BY <1>3, <3>1, <3>2 DEF OnDelete, OnSubtract, OnSet, TakeFromPaperOrder
  <2>4. order_arrival_seq' = order_arrival_seq
    BY <1>3 DEF OnDelete, OnSubtract, OnSet
  <2> QED BY <2>1, <2>3, <2>4, ReducedLotsHeld
<1> QED BY <1>1, <1>2, <1>3 DEF Sources

LEMMA LotsOnPaperTrade ==
  ASSUME Inductive, QueuedLots, PlacedBefore, QueueFill \/ TradeAgainstPaper
  PROVE  QueuedLots' /\ PlacedBefore'
<1>1. /\ call.pc \in {"queue", "paper"}
      /\ order_arrival_seq' = order_arrival_seq
  BY Zenon DEF QueueFill, TradeAgainstPaper
<1>2. /\ call.side \in Sides
      /\ call.lots \in Nat
      /\ call.consumed \in Nat
      /\ call.remaining \in Nat
  BY <1>1, HandlerFacts
<1>3. ASSUME NEW p \in DOMAIN paper[call.side]
      PROVE  Head(paper[call.side][p].orders) \in DOMAIN paper_orders
  <2>1. paper[call.side][p].orders # <<>>
    BY <1>1, <1>2, LevelsHaveOrders
  <2> QED BY <1>2, <2>1, LevelFacts DEF Inductive
<1>4. CASE QueueFill
  <2>1. PICK id : id = Head(QueueLevel.orders)
    OBVIOUS
  <2>2. call.price \in DOMAIN paper[call.side]
    BY <1>4 DEF QueueFill, Reached, HasPaperLevel
  <2>3. id \in DOMAIN paper_orders /\ FirstOrder = paper_orders[id]
    BY <1>3, <2>1, <2>2 DEF QueueLevel, FirstOrder
  <2>4. AheadMarket \in Int
    <3>1. FirstOrder.placement_seq \in Nat
      BY <2>3, PaperOrderFacts DEF Inductive
    <3>2. MarketAhead(QueueLevel, FirstOrder.placement_seq) \in Int
      BY <1>2, <2>2, <3>1, MarketAheadType DEF Inductive, QueueLevel
    <3> QED BY <1>2, <3>2 DEF AheadMarket
  <2>5. AheadPaper \in Int
    <3>1. /\ QueueLevel.paper_qty \in Seq(Int)
          /\ Len(QueueLevel.paper_qty) \in Nat
      BY <1>2, <2>2, LevelFacts, LenProperties DEF Inductive, QueueLevel
    <3>2. /\ FirstOrder.paper_index \in Nat
          /\ FirstOrder.paper_index < Len(QueueLevel.paper_qty)
      <4>1. paper[call.side][call.price].orders # <<>>
        BY <1>1, <1>2, <2>2, LevelsHaveOrders
      <4>2. paper_order_info[id] = [side |-> call.side, price |-> call.price]
        BY <1>2, <2>1, <2>2, <4>1, LevelFacts DEF Inductive, QueueLevel
      <4>3. paper_orders[id].paper_index < Len(paper[call.side][call.price].paper_qty)
        BY <2>3, <4>2 DEF Inductive, PaperInvariant, OrdersIndexed
      <4> QED BY <2>3, <4>3, PaperOrderFacts DEF Inductive, QueueLevel
    <3>3. FirstOrder.paper_index \in 0 .. Len(QueueLevel.paper_qty)
      BY <3>1, <3>2
    <3> QED BY <3>1, <3>3, PrefixSumType DEF AheadPaper
  <2>6. PICK fill \in Int : /\ fill <= paper_orders[id].remaining
                            /\ LeavePaperOrder(id, fill, fill, "PARTIALLY_FILLED")
    <3>1. paper_orders[id].remaining \in Int
      BY <2>3, PaperQuantity
    <3>2. PICK fill \in Int :
            /\ fill = Lesser(FirstOrder.remaining,
                             call.lots - (AheadMarket + AheadPaper))
            /\ fill <= paper_orders[id].remaining
      BY <1>2, <2>3, <2>4, <2>5, <3>1 DEF Lesser
    <3> QED BY <1>4, <2>1, <3>2 DEF QueueFill, TakeFromPaperOrder
  <2> QED BY <1>1, <2>3, <2>6, ReducedLotsHeld
<1>5. CASE TradeAgainstPaper
  <2>1. PICK id \in DOMAIN paper_orders, fill \in Nat :
          /\ fill <= paper_orders[id].remaining
          /\ FillPaperOrder(id, fill)
    BY <1>5, PaperTradeTakes
  <2>2. PICK told \in Int : /\ told = IF fill = paper_orders[id].remaining
                                        THEN 0 ELSE fill
                            /\ told <= paper_orders[id].remaining
                            /\ fill # paper_orders[id].remaining => told = fill
    <3>1. paper_orders[id].remaining \in Int
      BY PaperQuantity
    <3> QED BY <2>1, <3>1
  <2>3. LeavePaperOrder(id, fill, told, "PARTIALLY_FILLED")
    BY <2>1, <2>2, FilledOrderLeaves DEF Inductive
  <2>4. fill \in Int
    OBVIOUS
  <2> QED BY <1>1, <2>1, <2>2, <2>3, <2>4, ReducedLotsHeld
<1> QED BY <1>4, <1>5

LEMMA LotsOnRest ==
  ASSUME Inductive, QueuedLots, PlacedBefore,
         RestHistorical \/ AcquirePaperNode \/ MirrorNode
  PROVE  QueuedLots' /\ PlacedBefore'
<1>1. /\ call.pc \in {"rest", "mirror"}
      /\ call.event.side \in Sides
      /\ call.pc = "mirror" =>
           call.event.price \in DOMAIN paper[call.event.side]
  <2>1. call.pc \in {"rest", "mirror"}
    BY DEF RestHistorical, AcquirePaperNode, MirrorNode
  <2> QED BY <2>1, HandlerFacts DEF HandlerState, HasPaperLevel
<1>2. PaperInvariant
  BY DEF Inductive
<1>3. ASSUME UNCHANGED <<paper, paper_orders>> PROVE LotsStay
  BY <1>3 DEF LotsStay
<1>4. CASE RestHistorical
  <2>1. LotsStay
    <3>1. CASE ~HasPaperLevel(call.event.side, call.event.price)
      BY <1>3, <1>4, <3>1 DEF RestHistorical
    <3>2. CASE HasPaperLevel(call.event.side, call.event.price)
      BY <1>1, <1>2, <1>4, <3>2, JoinedMarketLotsStay DEF RestHistorical, HasPaperLevel
    <3> QED BY <3>1, <3>2
  <2>2. order_arrival_seq' = order_arrival_seq + 1
    BY <1>4 DEF RestHistorical, AppendNode
  <2> QED BY <2>1, <2>2, UntouchedLotsHeld
<1>5. CASE AcquirePaperNode
  <2>1. order_arrival_seq' = order_arrival_seq /\ paper_orders' = paper_orders
    BY <1>5 DEF AcquirePaperNode
  <2>2. QueuedLots'
    <3>1. CASE HasPaperLevel(call.event.side, call.event.price)
      BY <1>3, <1>5, <2>1, <3>1, StayingLotsHeld DEF AcquirePaperNode
    <3>2. CASE ~HasPaperLevel(call.event.side, call.event.price)
      BY <1>1, <1>2, <1>5, <2>1, <3>2, NewLevelHeld DEF AcquirePaperNode
    <3> QED BY <3>1, <3>2
  <2>3. PlacedBefore'
    BY <2>1, PlacedBeforeKept
  <2> QED BY <2>2, <2>3
<1>6. CASE MirrorNode
  <2>1. LotsStay /\ order_arrival_seq' = order_arrival_seq
    BY <1>1, <1>2, <1>6, JoinedMarketLotsStay DEF MirrorNode
  <2> QED BY <2>1, UntouchedLotsHeld
<1> QED BY <1>4, <1>5, <1>6

LEMMA LotsOnCleared ==
  ASSUME clear_state
  PROVE  QueuedLots' /\ PlacedBefore'
BY DEF clear_state, QueuedLots, PlacedBefore, Empty

LEMMA LotsStep ==
  ASSUME Inductive, QueuedLots, PlacedBefore, [Next]_vars
  PROVE  QueuedLots' /\ PlacedBefore'
<1>1. ASSUME UNCHANGED <<paper, paper_orders>>,
             order_arrival_seq' \in {order_arrival_seq, order_arrival_seq + 1}
      PROVE  QueuedLots' /\ PlacedBefore'
  <2>1. LotsStay
    BY <1>1 DEF LotsStay
  <2> QED BY <1>1, <2>1, UntouchedLotsHeld
<1>2. ASSUME NEW e \in Events, update(e) PROVE QueuedLots' /\ PlacedBefore'
  <2>1. CASE OnAdd(e) \/ OnAggressiveTrade(e) \/ OnMatch(e) \/ Reject(e)
    <3>1. UNCHANGED <<paper, paper_orders, order_arrival_seq>>
      BY <2>1 DEF OnAdd, OnAggressiveTrade, OnMatch, Reject, vars, paperVars
    <3> QED BY <1>1, <3>1
  <2>2. CASE OnDelete(e) \/ OnSubtract(e) \/ OnSet(e)
    <3>1. e \in Event
      BY EventsAssumption
    <3> QED BY <2>2, <3>1, LotsOnUpdate
  <2> QED BY <1>2, <2>1, <2>2 DEF update
<1>3. ASSUME NEW rows, InitFromL2Snapshot(rows) \/ InitFromL3Snapshot(rows)
      PROVE  QueuedLots' /\ PlacedBefore'
  BY <1>3, LotsOnCleared DEF InitFromL2Snapshot, InitFromL3Snapshot
<1>4. ASSUME NEW side \in Sides, GetBestPriceTicks(side)
      PROVE  QueuedLots' /\ PlacedBefore'
  BY <1>1, <1>4 DEF GetBestPriceTicks, paperVars
<1>5. ASSUME Continue PROVE QueuedLots' /\ PlacedBefore'
  <2>1. CASE \/ StrategySweep \/ HistoricalSweep \/ EndSweep \/ EndQueue \/ EndLevel
             \/ EndPaper \/ EndAdd \/ MatchFill \/ EndMatch \/ EndSnapshot
    <3>1. UNCHANGED <<paper, paper_orders, order_arrival_seq>>
      BY <2>1, Zenon DEF StrategySweep, HistoricalSweep, EndSweep, EndQueue, EndLevel,
                  EndPaper, EndAdd, MatchFill, EndMatch, EndSnapshot, paperVars
    <3> QED BY <1>1, <3>1
  <2>2. CASE QueueFill \/ TradeAgainstPaper
    BY <2>2, LotsOnPaperTrade
  <2>3. CASE Settle
    <3>1. call.side \in Sides
      BY <2>3, HandlerFacts DEF Settle
    <3>2. LotsStay
      BY <2>3, <3>1, AdjustedLotsStay DEF Settle, Inductive
    <3> QED BY <2>3, <3>2, UntouchedLotsHeld DEF Settle
  <2>4. CASE RestHistorical \/ AcquirePaperNode \/ MirrorNode
    BY <2>4, LotsOnRest
  <2>5. CASE RestStrategy
    BY <2>5, JoinedLotsHeld
  <2>6. CASE L2Row \/ L3Row
    <3>1. UNCHANGED <<paper, paper_orders>>
      BY <2>6 DEF L2Row, L3Row, paperVars
    <3>2. order_arrival_seq' \in {order_arrival_seq, order_arrival_seq + 1}
      BY <2>6 DEF L2Row, L3Row, AppendNode
    <3> QED BY <1>1, <3>1, <3>2
  <2> QED BY <1>5, <2>1, <2>2, <2>3, <2>4, <2>5, <2>6 DEF Continue
<1>6. CASE UNCHANGED vars
  BY <1>1, <1>6 DEF vars, paperVars
<1> QED BY <1>2, <1>3, <1>4, <1>5, <1>6 DEF Next

(***************************************************************************)
(* The tree of a level holds the remaining lots of the orders of its       *)
(* queue, each at its index, and queued_lots is the sum of the tree.  What *)
(* stands at other indices, lots of orders that a crossing order filled    *)
(* completely, is never negative: the lots that the code counts ahead of   *)
(* an order may be more than those of the orders before it, never fewer.   *)
(***************************************************************************)
THEOREM LotsAlwaysQueued == Spec => []QueuedLots
<1>1. Init => QueuedLots /\ PlacedBefore
  BY DEF Init, QueuedLots, PlacedBefore, Empty
<1>2. Inductive /\ QueuedLots /\ PlacedBefore /\ [Next]_vars =>
        (QueuedLots /\ PlacedBefore)'
  BY LotsStep
<1> QED BY <1>1, <1>2, Invariance, PTL DEF Spec
-----------------------------------------------------------------------------
(***************************************************************************)
(* Sums.  The sum over a set that MapThenSumSet computes is that of a      *)
(* function on its subsets, which takes out one element after the other.   *)
(* There is exactly one such function (SolutionExists, SolutionUnique: two *)
(* would differ at a least subset), and it does not matter which element   *)
(* is taken out first (SumWithout).                                        *)
(***************************************************************************)
Chosen(s) == CHOOSE x \in s : TRUE

Solves(F, g, T) ==
  F = [s \in SUBSET T |-> IF s = {} THEN 0 ELSE g[Chosen(s)] + F[s \ {Chosen(s)}]]

SumOver(g, S) == MapThenSumSet(LAMBDA k : g[k], S)

LEMMA SolvesFacts ==
  ASSUME NEW F, NEW g, NEW T, Solves(F, g, T)
  PROVE  /\ DOMAIN F = SUBSET T
         /\ F[{}] = 0
         /\ \A s \in SUBSET T : s # {} =>
              /\ Chosen(s) \in s
              /\ F[s] = g[Chosen(s)] + F[s \ {Chosen(s)}]
<1>1. \A s : s # {} => Chosen(s) \in s
  BY DEF Chosen
<1>2. {} \in SUBSET T
  OBVIOUS
<1>3. /\ DOMAIN F = SUBSET T
      /\ \A s \in SUBSET T : F[s] = IF s = {} THEN 0 ELSE g[Chosen(s)] + F[s \ {Chosen(s)}]
  BY DEF Solves
<1> QED BY <1>1, <1>2, <1>3

LEMMA SolvedAt ==
  ASSUME NEW F, NEW g, NEW T, Solves(F, g, T), NEW s \in SUBSET T
  PROVE  F[s] = IF s = {} THEN 0 ELSE g[Chosen(s)] + F[s \ {Chosen(s)}]
<1> DEFINE D(t) == IF t = {} THEN 0 ELSE g[Chosen(t)] + F[t \ {Chosen(t)}]
<1>1. F = [t \in SUBSET T |-> D(t)]
  BY DEF Solves
<1> HIDE DEF D
<1>2. F[s] = D(s)
  BY <1>1
<1> QED BY <1>2 DEF D

LEMMA Narrowed ==
  ASSUME NEW F, NEW g, NEW T, Solves(F, g, T), NEW U, U \subseteq T
  PROVE  Solves([s \in SUBSET U |-> F[s]], g, U)
<1> DEFINE G == [s \in SUBSET U |-> F[s]]
<1>1. ASSUME NEW s \in SUBSET U
      PROVE  G[s] = IF s = {} THEN 0 ELSE g[Chosen(s)] + G[s \ {Chosen(s)}]
  <2>1. s \in SUBSET T /\ s \ {Chosen(s)} \in SUBSET U
    OBVIOUS
  <2>2. F[s] = IF s = {} THEN 0 ELSE g[Chosen(s)] + F[s \ {Chosen(s)}]
    BY <2>1, SolvedAt
  <2>3. G[s] = F[s] /\ G[s \ {Chosen(s)}] = F[s \ {Chosen(s)}]
    BY <2>1
  <2> QED BY <2>2, <2>3
<1>2. G = [s \in SUBSET U |-> G[s]]
  OBVIOUS
<1> HIDE DEF G
<1>3. G = [s \in SUBSET U |-> IF s = {} THEN 0 ELSE g[Chosen(s)] + G[s \ {Chosen(s)}]]
  BY <1>1, <1>2
<1> QED BY <1>3 DEF Solves, G

\* What holds of a set if it holds of all smaller ones holds of all finite ones.
LEMMA LeastSubset ==
  ASSUME NEW B, NEW S \in B, IsFiniteSet(S)
  PROVE  \E T \in B : IsFiniteSet(T) /\ \A U \in B : U \subseteq T => U = T
<1> DEFINE N == {Cardinality(T) : T \in B \cap SUBSET S}
<1>1. \A T \in SUBSET S : IsFiniteSet(T) /\ Cardinality(T) \in Nat
  BY FS_Subset, FS_CardinalityType
<1>2. PICK n \in N : \A m \in N : n <= m
  <2>1. N \subseteq Nat /\ N # {}
    BY <1>1
  <2> HIDE DEF N
  <2> QED BY <2>1, LeastNatural
<1>3. PICK T \in B \cap SUBSET S : n = Cardinality(T)
  BY <1>2
<1>4. ASSUME NEW U \in B, U \subseteq T PROVE U = T
  <2>1. U \in B \cap SUBSET S /\ IsFiniteSet(T)
    BY <1>1, <1>3, <1>4
  <2>2. Cardinality(T) <= Cardinality(U)
    BY <1>2, <1>3, <2>1
  <2>3. /\ Cardinality(U) <= Cardinality(T)
        /\ Cardinality(U) = Cardinality(T) => U = T
    BY <1>4, <2>1, FS_Subset
  <2>4. Cardinality(T) \in Nat /\ Cardinality(U) \in Nat
    BY <1>1, <1>3, <2>1
  <2> QED BY <2>2, <2>3, <2>4
<1> QED BY <1>1, <1>3, <1>4

LEMMA SolutionUnique ==
  ASSUME NEW g, NEW S, IsFiniteSet(S), NEW F, NEW G, Solves(F, g, S), Solves(G, g, S)
  PROVE  F = G
<1> DEFINE B == {s \in SUBSET S : F[s] # G[s]}
<1>1. ASSUME NEW s \in B PROVE FALSE
  <2>1. IsFiniteSet(s)
    BY FS_Subset
  <2>2. PICK T \in B : \A U \in B : U \subseteq T => U = T
    <3> HIDE DEF B
    <3> QED BY <1>1, <2>1, LeastSubset
  <2>3. T # {}
    BY SolvesFacts
  <2>4. Chosen(T) \in T
    BY <2>3 DEF Chosen
  <2>5. F[T \ {Chosen(T)}] = G[T \ {Chosen(T)}]
    BY <2>2, <2>4
  <2>6. /\ F[T] = g[Chosen(T)] + F[T \ {Chosen(T)}]
        /\ G[T] = g[Chosen(T)] + G[T \ {Chosen(T)}]
    <3>1. T \in SUBSET S
      BY <2>2
    <3> HIDE DEF B
    <3> QED BY <2>3, <3>1, SolvedAt
  <2> QED BY <2>2, <2>5, <2>6
<1>2. \A s \in SUBSET S : F[s] = G[s]
  BY <1>1
<1>3. /\ F = [s \in SUBSET S |-> F[s]]
      /\ G = [s \in SUBSET S |-> G[s]]
  BY DEF Solves
<1> QED BY <1>2, <1>3

LEMMA SolutionExists ==
  ASSUME NEW g, NEW S, IsFiniteSet(S)
  PROVE  \E F : Solves(F, g, S)
<1> DEFINE B == {T \in SUBSET S : ~\E F : Solves(F, g, T)}
<1> SUFFICES ASSUME S \in B PROVE FALSE
  OBVIOUS
<1>1. PICK T \in B : IsFiniteSet(T) /\ \A U \in B : U \subseteq T => U = T
  <2> HIDE DEF B
  <2> QED BY LeastSubset
<1> DEFINE Sol(s) == CHOOSE F : Solves(F, g, s)
           a == Chosen(T)
           G == [s \in SUBSET T |->
                   IF s = {} THEN 0
                   ELSE IF s = T THEN g[a] + Sol(T \ {a})[T \ {a}]
                   ELSE Sol(s)[s]]
<1>2. ASSUME NEW s \in SUBSET T, s # T PROVE Solves(Sol(s), g, s) /\ IsFiniteSet(s)
  <2>1. \E F : Solves(F, g, s)
    BY <1>1, <1>2
  <2>2. Solves(Sol(s), g, s)
    BY <2>1
  <2> QED BY <1>1, <2>2, FS_Subset
<1>3. \A s : s # {} => Chosen(s) \in s
  BY DEF Chosen
<1>4. ASSUME NEW s \in SUBSET T, s # T PROVE G[s] = Sol(s)[s]
  <2>1. CASE s = {}
    <3>1. Sol(s)[s] = 0
      <4> HIDE DEF Sol
      <4> QED BY <1>2, <1>4, <2>1, SolvesFacts
    <3> QED BY <2>1, <3>1
  <2> QED BY <1>4, <2>1
<1>5. ASSUME NEW s \in SUBSET T
      PROVE  G[s] = IF s = {} THEN 0 ELSE g[Chosen(s)] + G[s \ {Chosen(s)}]
  <2>1. CASE s = {}
    BY <2>1
  <2>2. CASE s = T /\ s # {}
    <3>1. T \ {a} \in SUBSET T /\ T \ {a} # T
      BY <1>3, <2>2
    <3>2. G[T \ {a}] = Sol(T \ {a})[T \ {a}]
      BY <1>4, <3>1
    <3>3. G[T] = g[a] + Sol(T \ {a})[T \ {a}]
      BY <2>2
    <3> HIDE DEF G, Sol
    <3> QED BY <2>2, <3>2, <3>3
  <2>3. CASE s # T /\ s # {}
    <3> DEFINE u == s \ {Chosen(s)}
    <3>1. u \in SUBSET T /\ u # T /\ u \subseteq s
      BY <2>3
    <3>2. G[s] = Sol(s)[s] /\ G[u] = Sol(u)[u]
      BY <1>4, <2>3, <3>1
    <3>3. Solves(Sol(s), g, s) /\ Solves(Sol(u), g, u) /\ IsFiniteSet(u)
      BY <1>2, <2>3, <3>1
    <3> HIDE DEF Sol, G
    <3>4. Sol(s)[s] = g[Chosen(s)] + Sol(s)[u]
      BY <2>3, <3>3, SolvedAt
    <3>5. Solves([t \in SUBSET u |-> Sol(s)[t]], g, u)
      BY <3>1, <3>3, Narrowed
    <3>6. [t \in SUBSET u |-> Sol(s)[t]] = Sol(u)
      BY <3>3, <3>5, SolutionUnique
    <3>7. Sol(u)[u] = Sol(s)[u]
      <4> HIDE DEF u
      <4>1. u \in SUBSET u
        OBVIOUS
      <4> QED BY <3>6, <4>1
    <3> QED BY <2>3, <3>2, <3>4, <3>7
  <2> QED BY <2>1, <2>2, <2>3
<1>6. G = [s \in SUBSET T |-> G[s]]
  OBVIOUS
<1> HIDE DEF G
<1>7. G = [s \in SUBSET T |-> IF s = {} THEN 0 ELSE g[Chosen(s)] + G[s \ {Chosen(s)}]]
  BY <1>5, <1>6
<1>8. Solves(G, g, T)
  BY <1>7 DEF Solves
<1> QED BY <1>8

LEMMA SumIs ==
  ASSUME NEW g, NEW S, NEW F, Solves(F, g, S), \A G : Solves(G, g, S) => G = F
  PROVE  SumOver(g, S) = F[S]
BY DEF SumOver, MapThenSumSet, MapThenFoldSet, Solves, Chosen

LEMMA SumStep ==
  ASSUME NEW g, NEW S, IsFiniteSet(S)
  PROVE  /\ S = {} => SumOver(g, S) = 0
         /\ S # {} => /\ Chosen(S) \in S
                      /\ SumOver(g, S) = g[Chosen(S)] + SumOver(g, S \ {Chosen(S)})
<1>1. PICK F : Solves(F, g, S)
  BY SolutionExists
<1>2. SumOver(g, S) = F[S]
  BY <1>1, SolutionUnique, SumIs
<1>3. F[S] = IF S = {} THEN 0 ELSE g[Chosen(S)] + F[S \ {Chosen(S)}]
  BY <1>1, SolvedAt
<1>4. S # {} => Chosen(S) \in S
  BY DEF Chosen
<1>5. SumOver(g, S \ {Chosen(S)}) = F[S \ {Chosen(S)}]
  <2> DEFINE u == S \ {Chosen(S)}
             H == [s \in SUBSET u |-> F[s]]
  <2>1. u \subseteq S /\ IsFiniteSet(u)
    BY FS_Subset
  <2>2. Solves(H, g, u)
    <3> HIDE DEF u
    <3> QED BY <1>1, <2>1, Narrowed
  <2>3. SumOver(g, u) = H[u]
    <3> HIDE DEF H, u
    <3> QED BY <2>1, <2>2, SolutionUnique, SumIs
  <2>4. H[u] = F[u]
    <3> HIDE DEF u
    <3> QED OBVIOUS
  <2> QED BY <2>3, <2>4
<1> QED BY <1>2, <1>3, <1>4, <1>5

LEMMA SumType ==
  ASSUME NEW g, NEW S, IsFiniteSet(S), \A x \in S : g[x] \in Int
  PROVE  SumOver(g, S) \in Int
<1> DEFINE B == {s \in SUBSET S : SumOver(g, s) \notin Int}
<1> SUFFICES ASSUME S \in B PROVE FALSE
  OBVIOUS
<1>1. PICK T \in B : IsFiniteSet(T) /\ \A U \in B : U \subseteq T => U = T
  <2> HIDE DEF B
  <2> QED BY LeastSubset
<1>2. T # {}
  <2>1. T = {} => SumOver(g, T) = 0
    <3> HIDE DEF B
    <3> QED BY <1>1, SumStep
  <2> QED BY <1>1, <2>1
<1>3. /\ Chosen(T) \in T
      /\ SumOver(g, T) = g[Chosen(T)] + SumOver(g, T \ {Chosen(T)})
  BY <1>1, <1>2, SumStep
<1>4. SumOver(g, T \ {Chosen(T)}) \in Int
  BY <1>1, <1>3
<1> QED BY <1>1, <1>3, <1>4

LEMMA TakenEitherWay ==
  ASSUME NEW t \in Int, NEW u \in Int, NEW v \in Int, NEW w \in Int,
         NEW b \in Int, NEW c \in Int, t = c + u
  PROVE  /\ t = u + c
         /\ u = w + b /\ v = w + c => t = v + b
OBVIOUS

\* Any element may be taken out first.
LEMMA SumWithout ==
  ASSUME NEW g, NEW S, IsFiniteSet(S), \A x \in S : g[x] \in Int, NEW a \in S
  PROVE  SumOver(g, S) = SumOver(g, S \ {a}) + g[a]
<1> DEFINE Splits(s) == \A y \in s : SumOver(g, s) = SumOver(g, s \ {y}) + g[y]
           B == {s \in SUBSET S : ~Splits(s)}
<1> SUFFICES ASSUME S \in B PROVE FALSE
  OBVIOUS
<1>1. PICK T \in B : IsFiniteSet(T) /\ \A U \in B : U \subseteq T => U = T
  <2> HIDE DEF B
  <2> QED BY LeastSubset
<1>2. PICK y \in T : SumOver(g, T) # SumOver(g, T \ {y}) + g[y]
  BY <1>1
<1>3. PICK c \in T : SumOver(g, T) = g[c] + SumOver(g, T \ {c})
  BY <1>1, <1>2, SumStep
<1>4. \A s \in SUBSET T : SumOver(g, s) \in Int
  BY <1>1, FS_Subset, SumType
<1>5. /\ SumOver(g, T) \in Int
      /\ SumOver(g, T \ {y}) \in Int
      /\ SumOver(g, T \ {c}) \in Int
  BY <1>4
<1>6. g[y] \in Int /\ g[c] \in Int
  BY <1>1
<1>7. y # c
  <2>1. SumOver(g, T) = SumOver(g, T \ {c}) + g[c]
    BY <1>3, <1>6, <1>5, TakenEitherWay
  <2> HIDE DEF B, Splits
  <2> QED BY <1>2, <2>1
<1>8. /\ SumOver(g, T \ {c}) = SumOver(g, (T \ {c}) \ {y}) + g[y]
      /\ SumOver(g, T \ {y}) = SumOver(g, (T \ {y}) \ {c}) + g[c]
  BY <1>1, <1>7
<1>9. (T \ {c}) \ {y} = (T \ {y}) \ {c}
  OBVIOUS
<1>10. SumOver(g, (T \ {y}) \ {c}) \in Int
  BY <1>4
<1> HIDE DEF B
<1>11. SumOver(g, T) = SumOver(g, T \ {y}) + g[y]
  <2> DEFINE t == SumOver(g, T)
             u == SumOver(g, T \ {c})
             v == SumOver(g, T \ {y})
             w == SumOver(g, (T \ {y}) \ {c})
  <2>1. /\ t = g[c] + u
        /\ u = w + g[y]
        /\ v = w + g[c]
        /\ {t, u, v, w, g[y], g[c]} \subseteq Int
    BY <1>3, <1>6, <1>8, <1>9, <1>10, <1>5
  <2> HIDE DEF t, u, v, w
  <2>2. t = v + g[y]
    BY <2>1, TakenEitherWay
  <2> QED BY <2>2 DEF t, v
<1> QED BY <1>2, <1>11

\* Functions that agree on a set have the same sum over it.
LEMMA SumSame ==
  ASSUME NEW g, NEW h, NEW S, IsFiniteSet(S), \A x \in S : g[x] = h[x]
  PROVE  SumOver(g, S) = SumOver(h, S)
<1>1. PICK F : Solves(F, g, S)
  BY SolutionExists
<1>2. F = [s \in SUBSET S |-> F[s]]
  BY <1>1 DEF Solves
<1>3. ASSUME NEW s \in SUBSET S
      PROVE  F[s] = IF s = {} THEN 0 ELSE h[Chosen(s)] + F[s \ {Chosen(s)}]
  <2>1. s # {} => Chosen(s) \in S
    BY DEF Chosen
  <2> QED BY <1>1, <2>1, SolvedAt
<1>4. Solves(F, h, S)
  BY <1>2, <1>3 DEF Solves
<1> QED BY <1>1, <1>4, SolutionUnique, SumIs

(***************************************************************************)
(* Fills and their lots.                                                   *)
(***************************************************************************)
LotsOf(fills, ks) == MapThenSumSet(LAMBDA k : fills[k].qty, ks)

QuantitiesOf(fills) == [k \in DOMAIN fills |-> fills[k].qty]

SolvesLots(F, fills, T) ==
  F = [s \in SUBSET T |-> IF s = {} THEN 0 ELSE fills[Chosen(s)].qty + F[s \ {Chosen(s)}]]

LEMMA LotsIs ==
  ASSUME NEW fills, NEW S, NEW F, SolvesLots(F, fills, S),
         \A G : SolvesLots(G, fills, S) => G = F
  PROVE  LotsOf(fills, S) = F[S]
BY DEF LotsOf, MapThenSumSet, MapThenFoldSet, SolvesLots, Chosen

\* Lots are sums of the quantities.
LEMMA LotsAreSums ==
  ASSUME NEW fills, NEW S, S \subseteq DOMAIN fills, IsFiniteSet(S)
  PROVE  LotsOf(fills, S) = SumOver(QuantitiesOf(fills), S)
<1> DEFINE g == QuantitiesOf(fills)
<1>1. \A s \in SUBSET S : s # {} => g[Chosen(s)] = fills[Chosen(s)].qty
  BY DEF QuantitiesOf, Chosen
<1> HIDE DEF g
<1>2. ASSUME NEW F
      PROVE  Solves(F, g, S) <=> SolvesLots(F, fills, S)
  <2> DEFINE D(s) == IF s = {} THEN 0 ELSE g[Chosen(s)] + F[s \ {Chosen(s)}]
             E(s) == IF s = {} THEN 0 ELSE fills[Chosen(s)].qty + F[s \ {Chosen(s)}]
  <2>1. \A s \in SUBSET S : D(s) = E(s)
    BY <1>1
  <2> HIDE DEF D, E
  <2>2. [s \in SUBSET S |-> D(s)] = [s \in SUBSET S |-> E(s)]
    BY <2>1
  <2> QED BY <2>2 DEF Solves, SolvesLots, D, E
<1>3. PICK F : Solves(F, g, S)
  BY SolutionExists
<1>4. SumOver(g, S) = F[S]
  BY <1>3, SolutionUnique, SumIs
<1>5. LotsOf(fills, S) = F[S]
  BY <1>2, <1>3, SolutionUnique, LotsIs
<1> QED BY <1>4, <1>5 DEF g

LEMMA DomainFinite ==
  ASSUME NEW fills \in Seq(Fill)
  PROVE  IsFiniteSet(DOMAIN fills)
BY FillFacts, FS_Interval

\* The lots of some of the fills of a call are a number.
LEMMA LotsType ==
  ASSUME NEW fills \in Seq(Fill), NEW S, S \subseteq DOMAIN fills
  PROVE  IsFiniteSet(S) /\ LotsOf(fills, S) \in Int
<1>1. IsFiniteSet(S)
  BY DomainFinite, FS_Subset
<1>2. \A k \in S : QuantitiesOf(fills)[k] \in Int
  <2>1. \A k \in DOMAIN fills : fills[k].qty \in Nat
    BY FillFacts DEF Fill
  <2> QED BY <2>1 DEF QuantitiesOf
<1>3. SumOver(QuantitiesOf(fills), S) \in Int
  BY <1>1, <1>2, SumType
<1> QED BY <1>1, <1>3, LotsAreSums

\* Fills that agree have the same lots.
LEMMA LotsSame ==
  ASSUME NEW fills, NEW new, NEW S, IsFiniteSet(S),
         S \subseteq DOMAIN fills, S \subseteq DOMAIN new,
         \A k \in S : new[k] = fills[k]
  PROVE  LotsOf(new, S) = LotsOf(fills, S)
<1>1. \A k \in S : QuantitiesOf(fills)[k] = QuantitiesOf(new)[k]
  BY DEF QuantitiesOf
<1>2. SumOver(QuantitiesOf(fills), S) = SumOver(QuantitiesOf(new), S)
  BY <1>1, SumSame
<1> QED BY <1>2, LotsAreSums

\* The lots of some fills are those of one of them and of the others.
LEMMA LotsSplit ==
  ASSUME NEW fills \in Seq(Fill), NEW S, S \subseteq DOMAIN fills, NEW k \in S
  PROVE  LotsOf(fills, S) = LotsOf(fills, S \ {k}) + fills[k].qty
<1> DEFINE g == QuantitiesOf(fills)
           T == S \ {k}
<1>1. IsFiniteSet(S) /\ IsFiniteSet(T) /\ T \subseteq DOMAIN fills
  BY LotsType, FS_Subset
<1>2. /\ \A j \in S : g[j] \in Int
      /\ g[k] = fills[k].qty
  <2>1. \A j \in DOMAIN fills : fills[j].qty \in Nat
    BY FillFacts DEF Fill
  <2> QED BY <2>1 DEF QuantitiesOf
<1> HIDE DEF g
<1>3. SumOver(g, S) = SumOver(g, T) + g[k]
  BY <1>1, <1>2, SumWithout
<1> HIDE DEF T
<1>4. LotsOf(fills, S) = SumOver(g, S) /\ LotsOf(fills, T) = SumOver(g, T)
  BY <1>1, LotsAreSums DEF g
<1> QED BY <1>2, <1>3, <1>4 DEF T

\* No fills have no lots.
LEMMA NoLots ==
  ASSUME NEW fills
  PROVE  LotsOf(fills, {}) = 0
<1>1. IsFiniteSet({}) /\ {} \subseteq DOMAIN fills
  BY FS_EmptySet
<1>2. LotsOf(fills, {}) = SumOver(QuantitiesOf(fills), {})
  BY <1>1, LotsAreSums
<1> QED BY <1>1, <1>2, SumStep

-----------------------------------------------------------------------------
(***************************************************************************)
(* Lots are conserved.                                                     *)
(***************************************************************************)
BookFillsOf(fills) == {k \in DOMAIN fills : fills[k].source = "HISTORICAL"}

\* What LotsConserved says of the handler that runs.
Balanced(c) ==
  c.event.type # "MATCH" =>
    /\ c.event.source = "STRATEGY" =>
         LotsOf(c.fills, DOMAIN c.fills) + c.remaining = c.event.qty
    /\ c.pc \in {"sweep", "queue", "settle"} =>
         LotsOf(c.fills, BookFillsOf(c.fills)) + c.remaining = c.event.qty

LEMMA ConservedBalance == LotsConserved <=> (Handling => Balanced(call))
<1>1. /\ Lots(DOMAIN call.fills) = LotsOf(call.fills, DOMAIN call.fills)
      /\ Lots({k \in DOMAIN call.fills : call.fills[k].source = "HISTORICAL"})
           = LotsOf(call.fills, BookFillsOf(call.fills))
  BY DEF Lots, LotsOf, BookFillsOf
<1> QED BY <1>1 DEF LotsConserved, Balanced, Running

LEMMA ConservedBalanceNext == LotsConserved' <=> (Handling' => Balanced(call'))
<1>1. /\ Lots(DOMAIN call.fills)' = LotsOf(call'.fills, DOMAIN call'.fills)
      /\ Lots({k \in DOMAIN call.fills : call.fills[k].source = "HISTORICAL"})'
           = LotsOf(call'.fills, BookFillsOf(call'.fills))
  BY DEF Lots, LotsOf, BookFillsOf, MapThenSumSet, MapThenFoldSet
<1> QED BY <1>1 DEF LotsConserved, Balanced, Running

Sweeping == {"sweep", "queue", "settle"}

\* Nothing is filled.
LEMMA BalanceKept ==
  ASSUME NEW c, NEW d, Balanced(c),
         d.event = c.event, d.fills = c.fills, d.remaining = c.remaining,
         d.pc \in Sweeping => c.pc \in Sweeping
  PROVE  Balanced(d)
BY DEF Balanced, Sweeping

\* What is filled no longer remains.
LEMMA BalanceFilled ==
  ASSUME NEW c, NEW d, Balanced(c), c.fills \in Seq(Fill), c.remaining \in Nat,
         NEW f \in Fill, d.event = c.event, d.fills = Append(c.fills, f),
         d.remaining = c.remaining - f.qty,
         d.pc \in Sweeping => c.pc \in Sweeping /\ f.source = "HISTORICAL"
  PROVE  Balanced(d)
<1> DEFINE last == Len(c.fills) + 1
<1>1. /\ DOMAIN d.fills = DOMAIN c.fills \cup {last}
      /\ last \notin DOMAIN c.fills
      /\ d.fills[last] = f
      /\ \A k \in DOMAIN c.fills : d.fills[k] = c.fills[k]
  BY AppendedFill
<1>2. BookFillsOf(c.fills) \subseteq DOMAIN c.fills
  BY DEF BookFillsOf
<1>3. f.source = "HISTORICAL" =>
        BookFillsOf(d.fills) = BookFillsOf(c.fills) \cup {last}
  BY <1>1 DEF BookFillsOf
<1> HIDE DEF last
<1>4. ASSUME NEW S, S \subseteq DOMAIN c.fills
      PROVE  LotsOf(d.fills, S \cup {last}) = LotsOf(c.fills, S) + f.qty
  <2>1. PICK T : T = S \cup {last}
    OBVIOUS
  <2>2. /\ d.fills \in Seq(Fill)
        /\ last \in T /\ T \ {last} = S
        /\ T \subseteq DOMAIN d.fills /\ S \subseteq DOMAIN d.fills
    BY <1>1, <1>4, <2>1, AppendedFill
  <2>3. LotsOf(d.fills, T) = LotsOf(d.fills, T \ {last}) + d.fills[last].qty
    BY <2>2, LotsSplit
  <2>4. LotsOf(d.fills, S) = LotsOf(c.fills, S)
    <3>1. IsFiniteSet(S) /\ \A k \in S : d.fills[k] = c.fills[k]
      BY <1>1, <1>4, LotsType
    <3> QED BY <1>4, <2>2, <3>1, LotsSame
  <2> QED BY <1>1, <2>1, <2>2, <2>3, <2>4
<1>5. /\ LotsOf(c.fills, DOMAIN c.fills) \in Int
      /\ LotsOf(c.fills, BookFillsOf(c.fills)) \in Int
      /\ f.qty \in Nat
  BY <1>2, LotsType DEF Fill
<1>6. LotsOf(d.fills, DOMAIN d.fills) = LotsOf(c.fills, DOMAIN c.fills) + f.qty
  BY <1>1, <1>4
<1>7. f.source = "HISTORICAL" =>
        LotsOf(d.fills, BookFillsOf(d.fills)) = LotsOf(c.fills, BookFillsOf(c.fills)) + f.qty
  BY <1>2, <1>3, <1>4
<1>8. LotsOf(d.fills, DOMAIN d.fills) + d.remaining
        = LotsOf(c.fills, DOMAIN c.fills) + c.remaining
  BY <1>5, <1>6
<1>9. f.source = "HISTORICAL" =>
        LotsOf(d.fills, BookFillsOf(d.fills)) + d.remaining
          = LotsOf(c.fills, BookFillsOf(c.fills)) + c.remaining
  BY <1>5, <1>7
<1> QED BY <1>8, <1>9 DEF Balanced, Sweeping

\* A paper order takes part in a trade of a historical order.
LEMMA BalancePassed ==
  ASSUME NEW c, NEW d, Balanced(c), c.fills \in Seq(Fill),
         NEW f \in Fill, d.event = c.event, d.fills = Append(c.fills, f),
         d.remaining = c.remaining, f.source = "STRATEGY",
         c.event.type # "MATCH" => c.event.source = "HISTORICAL",
         d.pc \in Sweeping => c.pc \in Sweeping
  PROVE  Balanced(d)
<1>1. BookFillsOf(d.fills) = BookFillsOf(c.fills)
  BY AppendedFill DEF BookFillsOf
<1>2. LotsOf(d.fills, BookFillsOf(c.fills)) = LotsOf(c.fills, BookFillsOf(c.fills))
  <2>1. BookFillsOf(c.fills) \subseteq DOMAIN c.fills
    BY DEF BookFillsOf
  <2>2. /\ \A k \in DOMAIN c.fills : d.fills[k] = c.fills[k]
        /\ DOMAIN c.fills \subseteq DOMAIN d.fills
    BY AppendedFill
  <2>3. IsFiniteSet(BookFillsOf(c.fills))
    BY <2>1, LotsType
  <2> QED BY <2>1, <2>2, <2>3, LotsSame
<1> QED BY <1>1, <1>2 DEF Balanced, Sweeping

\* An order of the book gives lots, or none.
LEMMA BalanceTaken ==
  ASSUME Balanced(call), call \in Handler, NEW n \in DOMAIN node, NEW p \in Prices,
         NEW take \in Nat, Inductive,
         call'.event = call.event, call'.remaining = call.remaining - take,
         call'.fills = IF take > 0 THEN Append(call.fills, BookFill(n, p, take))
                                   ELSE call.fills,
         call'.pc \in Sweeping => call.pc \in Sweeping
  PROVE  Balanced(call')
<1>1. call.fills \in Seq(Fill) /\ call.remaining \in Nat /\ call.side \in Sides
  BY DEF Handler
<1>2. CASE take > 0
  <2>1. /\ BookFill(n, p, take) \in Fill
        /\ BookFill(n, p, take).source = "HISTORICAL"
        /\ BookFill(n, p, take).qty = take
    BY <1>1, BookFillType DEF BookFill
  <2>2. PICK f \in Fill : f = BookFill(n, p, take)
    BY <2>1
  <2> QED BY <1>1, <1>2, <2>1, <2>2, BalanceFilled
<1>3. CASE ~(take > 0)
  <2>1. call'.remaining = call.remaining /\ call'.fills = call.fills
    BY <1>1, <1>3
  <2> QED BY <2>1, BalanceKept
<1> QED BY <1>2, <1>3

LEMMA StrategySweepBalance ==
  ASSUME Inductive, StrategySweep, Balanced(call)
  PROVE  Balanced(call')
<1>1. call.pc = "sweep"
  BY DEF StrategySweep
<1>2. /\ call \in Handler
      /\ call.remaining \in Nat
      /\ call.side \in Sides
      /\ call.it \in Nat \ {0}
      /\ HandlerState
  BY <1>1, HandlerFacts
<1>3. PICK p \in NextPrice :
        LET queue == book[call.side][p]
            n     == queue[call.it]
            take  == Lesser(node[n].qty, call.remaining)
            left  == take = call.remaining \/ call.it = Len(queue)
            stack == Pruned(call.heap_copy, call.side)
        IN  call' = [call EXCEPT
               !.price = p,
               !.remaining = @ - take,
               !.it = IF left THEN 1 ELSE @ + 1,
               !.heap_copy = IF left THEN AllPopped(stack, p) ELSE stack,
               !.fills = IF take > 0 THEN Append(@, BookFill(n, p, take)) ELSE @]
  BY Zenon DEF StrategySweep
<1>4. p \in Prices /\ p \in DOMAIN book[call.side]
  BY <1>2, NextPriceFacts
<1>5. PICK queue, n : queue = book[call.side][p] /\ n = queue[call.it]
  OBVIOUS
<1>6. n \in DOMAIN node
  <2>1. p \in BestPrice(call.heap_copy, call.side)
    BY <1>2, <1>3, Zenon DEF NextPrice, StrategySweep
  <2>2. call.it <= Len(queue)
    BY <1>1, <1>2, <1>5, <2>1 DEF HandlerState, StrategySweep
  <2>3. /\ Len(queue) \in Nat
        /\ \A k \in 1 .. Len(queue) : queue[k] \in ToSet(queue)
        /\ \A m \in ToSet(queue) : m \in DOMAIN node
    BY <1>2, <1>4, <1>5, QueueAtFacts DEF Inductive, QueueAt
  <2> QED BY <1>2, <1>5, <2>2, <2>3
<1>7. PICK take \in Nat : take = Lesser(node[n].qty, call.remaining)
  <2>1. node[n].qty \in Nat
    BY <1>6 DEF Inductive, BookInvariant, BookTypes, IsPartial, Node
  <2>2. Lesser(node[n].qty, call.remaining) \in Nat
    BY <1>2, <2>1 DEF Lesser
  <2> QED BY <2>2
<1>8. /\ call'.event = call.event
      /\ call'.pc = call.pc
      /\ call'.remaining = call.remaining - take
      /\ call'.fills = IF take > 0 THEN Append(call.fills, BookFill(n, p, take))
                                   ELSE call.fills
  BY <1>2, <1>3, <1>5, <1>7, Zenon DEF Handler
<1> QED BY <1>2, <1>4, <1>6, <1>8, BalanceTaken

LEMMA HistoricalSweepBalance ==
  ASSUME Inductive, HistoricalSweep, Balanced(call)
  PROVE  Balanced(call')
<1>1. call.pc = "sweep"
  BY Zenon DEF HistoricalSweep
<1>2. call \in Handler /\ call.side \in Sides
  BY <1>1, HandlerFacts
<1>3. PICK p \in NextPrice, n \in DOMAIN node, take \in Nat :
        /\ call'.event = call.event
        /\ call'.remaining = call.remaining - take
        /\ call'.fills = IF take > 0 THEN Append(call.fills, BookFill(n, p, take))
                                     ELSE call.fills
  BY SweepKind
<1>4. p \in Prices
  BY <1>2, NextPriceFacts
<1> QED BY <1>1, <1>2, <1>3, <1>4, BalanceTaken DEF Sweeping

LEMMA PaperFillBalance ==
  ASSUME Inductive, QueueFill \/ TradeAgainstPaper, Balanced(call)
  PROVE  Balanced(call')
<1>1. call.pc \in {"queue", "paper"}
  BY Zenon DEF QueueFill, TradeAgainstPaper
<1>2. /\ call \in Handler
      /\ call.fills \in Seq(Fill)
      /\ call.remaining \in Nat
      /\ HandlerState
  BY <1>1, HandlerFacts
<1>3. ASSUME NEW F, F.source = "STRATEGY", call'.pc = call.pc,
             call'.fills = Append(call.fills, F)
      PROVE  F \in Fill
  <2>1. Inductive'
    BY QueueFillStep, TradeAgainstPaperStep
  <2>2. call' \in Handler
    BY <1>1, <1>3, <2>1 DEF Inductive, CallInvariant, Idle, Load
  <2>3. Append(call.fills, F) \in Seq(Fill)
    BY <1>3, <2>2 DEF Handler
  <2> QED BY <1>2, <2>3, LastAppended
<1>4. CASE QueueFill
  <2>1. PICK id, fill, lots, consumed :
          call' = [call EXCEPT
               !.lots = lots,
               !.consumed = consumed,
               !.fills = Append(@, PaperFill(id, call.price, fill))]
    BY <1>4 DEF QueueFill
  <2>2. PICK F : F = PaperFill(id, call.price, fill)
    OBVIOUS
  <2>3. /\ call.pc = "queue"
        /\ call'.pc = call.pc
        /\ call'.event = call.event
        /\ call'.fills = Append(call.fills, F)
        /\ call'.remaining = call.remaining
        /\ F.source = "STRATEGY"
    BY <1>2, <1>4, <2>1, <2>2 DEF Handler, QueueFill, PaperFill
  <2>4. call.event.type # "MATCH" => call.event.source = "HISTORICAL"
    BY <1>2, <2>3 DEF HandlerState
  <2>5. F \in Fill
    BY <1>3, <2>3
  <2> QED BY <1>2, <2>3, <2>4, <2>5, BalancePassed
<1>5. CASE TradeAgainstPaper
  <2>1. PICK f \in Fill : /\ f.source = "STRATEGY"
                          /\ call'.remaining = call.remaining - f.qty
                          /\ call'.fills = Append(call.fills, f)
    BY <1>5, PaperTrade
  <2>2. call'.pc = "paper" /\ call'.event = call.event
    BY <1>5, PaperTrade
  <2> QED BY <1>2, <2>1, <2>2, BalanceFilled DEF Sweeping
<1> QED BY <1>4, <1>5

\* The steps of a handler that report no fill, or that of a MATCH.
LEMMA NoFillBalance ==
  ASSUME Inductive, Balanced(call),
         \/ EndSweep \/ EndQueue \/ Settle \/ EndLevel \/ EndPaper
         \/ AcquirePaperNode \/ MirrorNode \/ MatchFill
  PROVE  call' = Idle \/ Balanced(call')
<1>1. call.pc \in {"sweep", "queue", "settle", "paper", "rest", "mirror"}
  BY DEF EndSweep, EndQueue, Settle, EndLevel, EndPaper, AcquirePaperNode,
         MirrorNode, MatchFill
<1>2. call \in Handler
  BY <1>1, HandlerFacts
<1>3. CASE MatchFill
  <2>1. call'.event = call.event /\ call.event.type = "MATCH"
    BY <1>2, <1>3 DEF MatchFill, Handler
  <2> QED BY <2>1 DEF Balanced
<1>4. CASE ~MatchFill /\ call' # Idle
  <2>1. \/ /\ call.pc \in Sweeping
           /\ call' \in {[call EXCEPT !.pc = "settle"],
                         [call EXCEPT !.pc = "rest"],
                         [call EXCEPT !.pc = "paper"],
                         [call EXCEPT !.deltas = Tail(@)],
                         [call EXCEPT !.pc = "sweep", !.lots = 0, !.consumed = 0]}
        \/ call' = [call EXCEPT !.pc = "rest"]
        \/ call.pc = "mirror" /\ call' = [call EXCEPT !.it = @ + 1]
        \/ call' = [call EXCEPT !.pc = "mirror", !.it = 1]
    BY <1>4 DEF EndSweep, EndQueue, Settle, EndLevel, EndPaper, AcquirePaperNode,
                MirrorNode, Sweeping
  <2>2. /\ call'.event = call.event
        /\ call'.fills = call.fills
        /\ call'.remaining = call.remaining
        /\ call'.pc \in Sweeping => call.pc \in Sweeping
    BY <1>2, <2>1 DEF Handler, Sweeping
  <2> QED BY <2>2, BalanceKept
<1> QED BY <1>3, <1>4

\* Every step of the engine keeps the balance.
LEMMA BalanceStep ==
  ASSUME Inductive, LotsConserved, [Next]_vars
  PROVE  LotsConserved'
<1> SUFFICES ASSUME Handling' PROVE Balanced(call')
  BY ConservedBalanceNext
<1>1. call' # Idle
  BY DEF Handling, Idle
<1>2. ASSUME call' = call PROVE Balanced(call')
  BY <1>2, ConservedBalance DEF Handling
<1>3. ASSUME NEW e \in Events, update(e) PROVE Balanced(call')
  <2>1. CASE OnAdd(e) \/ OnAggressiveTrade(e)
    <3>1. e \in Event
      BY EventsAssumption
    <3>2. /\ call'.event = e
          /\ call'.fills = <<>>
          /\ call'.remaining = e.qty
      BY <2>1 DEF OnAdd, OnAggressiveTrade, NewCall
    <3>3. DOMAIN call'.fills = {} /\ BookFillsOf(call'.fills) = {}
      BY <3>2 DEF BookFillsOf
    <3>4. LotsOf(call'.fills, {}) = 0 /\ e.qty \in Int
      BY <3>1, NoLots DEF Event
    <3>5. /\ LotsOf(call'.fills, DOMAIN call'.fills) + call'.remaining = call'.event.qty
          /\ LotsOf(call'.fills, BookFillsOf(call'.fills)) + call'.remaining
               = call'.event.qty
      <4>1. /\ LotsOf(call'.fills, DOMAIN call'.fills) = 0
            /\ LotsOf(call'.fills, BookFillsOf(call'.fills)) = 0
        BY <3>3, <3>4
      <4>2. 0 + e.qty = e.qty
        BY <3>4
      <4> QED BY <3>2, <4>1, <4>2
    <3> QED BY <3>5 DEF Balanced
  <2>2. CASE OnMatch(e)
    BY <2>2 DEF OnMatch, NewCall, Accepts, Balanced
  <2>3. CASE Reject(e) \/ OnDelete(e) \/ OnSubtract(e) \/ OnSet(e)
    <3>1. call' = call
      BY <2>3 DEF Reject, vars, OnDelete, OnSubtract, OnSet, SetHistorical
    <3> QED BY <1>2, <3>1
  <2> QED BY <1>3, <2>1, <2>2, <2>3 DEF update
<1>4. ASSUME NEW rows, InitFromL2Snapshot(rows) \/ InitFromL3Snapshot(rows)
      PROVE  FALSE
  BY <1>4 DEF InitFromL2Snapshot, InitFromL3Snapshot, Handling
<1>5. ASSUME NEW side \in Sides, GetBestPriceTicks(side)
      PROVE  Balanced(call')
  BY <1>2, <1>5 DEF GetBestPriceTicks
<1>6. ASSUME Continue PROVE Balanced(call')
  <2>1. CASE EndAdd \/ RestHistorical \/ RestStrategy \/ EndMatch \/ EndSnapshot
    BY <1>1, <2>1 DEF EndAdd, RestHistorical, RestStrategy, EndMatch, EndSnapshot
  <2>2. CASE L2Row \/ L3Row
    <3>1. call.pc \in {"l2", "l3"} /\ call \in Load
      BY <2>2, CallKinds DEF L2Row, L3Row
    <3>2. NextRow
      BY <1>1, <2>2 DEF L2Row, L3Row
    <3>3. ~Handling'
      BY <3>1, <3>2 DEF NextRow, Load, Handling
    <3> QED BY <3>3
  <2>3. CASE ~(\/ EndAdd \/ RestHistorical \/ RestStrategy \/ EndMatch \/ EndSnapshot
               \/ L2Row \/ L3Row)
    <3>1. Handling
      BY <1>6, <2>3, Zenon DEF Continue, StrategySweep, HistoricalSweep, EndSweep, QueueFill,
           EndQueue, Settle, EndLevel, TradeAgainstPaper, EndPaper, AcquirePaperNode,
           MirrorNode, MatchFill, Handling
    <3>2. Balanced(call)
      BY <3>1, ConservedBalance
    <3> QED BY <1>1, <1>6, <2>3, <3>2, StrategySweepBalance, HistoricalSweepBalance,
               PaperFillBalance, NoFillBalance DEF Continue
  <2> QED BY <2>1, <2>2, <2>3
<1>7. CASE UNCHANGED vars
  BY <1>2, <1>7 DEF vars
<1> QED BY <1>3, <1>4, <1>5, <1>6, <1>7 DEF Next

(***************************************************************************)
(* No lot of an order that trades appears or vanishes.                     *)
(***************************************************************************)
THEOREM NoLotLost == Spec => []LotsConserved
<1>1. Init => LotsConserved
  BY DEF Init, LotsConserved, Handling, Idle
<1>2. Inductive /\ LotsConserved /\ [Next]_vars => LotsConserved'
  BY BalanceStep
<1> QED BY <1>1, <1>2, Invariance, PTL DEF Spec

-----------------------------------------------------------------------------
(***************************************************************************)
(* Sweeps are complete.                                                    *)
(***************************************************************************)
FillsOf(fills, p, n) ==
  {k \in DOMAIN fills : /\ fills[k].source = "HISTORICAL"
                        /\ fills[k].price = p
                        /\ fills[k].seq = n}

FilledBy(fills, p, n) == LotsOf(fills, FillsOf(fills, p, n))

LEMMA FilledOfBook ==
  ASSUME NEW p, NEW n
  PROVE  /\ FilledOf("HISTORICAL", p, n) = FilledBy(call.fills, p, n)
         /\ FilledOf("HISTORICAL", p, n)' = FilledBy(call'.fills, p, n)
<1>1. /\ {k \in FillsAt("HISTORICAL", p) : call.fills[k].seq = n}
           = FillsOf(call.fills, p, n)
      /\ {k \in FillsAt("HISTORICAL", p) : call.fills[k].seq = n}'
           = FillsOf(call'.fills, p, n)
  BY DEF FillsAt, FillsOf
<1>2. \A ks : Lots(ks) = LotsOf(call.fills, ks)
  BY DEF Lots, LotsOf, MapThenSumSet, MapThenFoldSet
<1>3. ASSUME NEW ks PROVE Lots(ks)' = LotsOf(call'.fills, ks)
  BY DEF Lots, LotsOf, MapThenSumSet, MapThenFoldSet
<1> QED BY <1>1, <1>2, <1>3 DEF FilledOf, FilledBy

\* The fills by other makers do not matter.
LEMMA FilledSame ==
  ASSUME NEW fills \in Seq(Fill), NEW new, NEW p, NEW n,
         DOMAIN fills \subseteq DOMAIN new,
         FillsOf(new, p, n) \subseteq DOMAIN fills,
         \A k \in DOMAIN fills : new[k] = fills[k]
  PROVE  FilledBy(new, p, n) = FilledBy(fills, p, n)
<1>1. FillsOf(new, p, n) = FillsOf(fills, p, n)
  BY DEF FillsOf
<1>2. /\ FillsOf(fills, p, n) \subseteq DOMAIN fills
      /\ FillsOf(fills, p, n) \subseteq DOMAIN new
      /\ \A k \in FillsOf(fills, p, n) : new[k] = fills[k]
  BY DEF FillsOf
<1>3. IsFiniteSet(FillsOf(fills, p, n))
  BY <1>2, LotsType
<1>4. LotsOf(new, FillsOf(fills, p, n)) = LotsOf(fills, FillsOf(fills, p, n))
  BY <1>2, <1>3, LotsSame
<1> QED BY <1>1, <1>4 DEF FilledBy

\* The first fill by a maker.
LEMMA FilledFirst ==
  ASSUME NEW fills \in Seq(Fill), NEW f \in Fill, NEW new, new = Append(fills, f),
         f.source = "HISTORICAL", FillsOf(fills, f.price, f.seq) = {}
  PROVE  FilledBy(new, f.price, f.seq) = f.qty
<1> DEFINE last == Len(fills) + 1
           S == {last}
<1>1. /\ new \in Seq(Fill)
      /\ DOMAIN new = DOMAIN fills \cup {last}
      /\ new[last] = f
      /\ \A k \in DOMAIN fills : new[k] = fills[k]
  BY AppendedFill
<1>2. FillsOf(new, f.price, f.seq) = S
  BY <1>1 DEF FillsOf
<1>3. S \subseteq DOMAIN new /\ last \in S /\ S \ {last} = {}
  BY <1>1
<1> HIDE DEF last, S
<1>4. LotsOf(new, S) = LotsOf(new, S \ {last}) + new[last].qty
  <2>1. new \in Seq(Fill)
    BY <1>1
  <2> QED BY <1>3, <2>1, LotsSplit
<1>5. LotsOf(new, {}) = 0 /\ f.qty \in Nat
  BY NoLots DEF Fill
<1>6. LotsOf(new, S) = f.qty
  <2>1. LotsOf(new, S \ {last}) = 0
    BY <1>3, <1>5
  <2> QED BY <1>1, <1>4, <1>5, <2>1
<1> QED BY <1>2, <1>6 DEF FilledBy

\* A node that comes after all fills has not been filled.
LEMMA NotFilledYet ==
  ASSUME NEW p \in Prices, NEW n \in Nat, FilledBefore(p, n), call.side \in Sides,
         call.fills \in Seq(Fill)
  PROVE  FillsOf(call.fills, p, n) = {}
<1> SUFFICES ASSUME NEW k \in FillsOf(call.fills, p, n) PROVE FALSE
  OBVIOUS
<1>1. k \in BookFills /\ call.fills[k].price = p /\ call.fills[k].seq = n
  BY DEF FillsOf, BookFills
<1>2. ~Better(call.side, p, p) /\ ~(n < n)
  BY BetterOrders
<1> QED BY <1>1, <1>2 DEF FilledBefore

(***************************************************************************)
(* What a strategy passes while it sweeps.                                 *)
(***************************************************************************)
LEMMA SweptFacts ==
  ASSUME SweptSoFar, call.pc = "sweep", call.event.source = "STRATEGY",
         call.remaining > 0, NEW p \in Prices,
         NEW k \in DOMAIN QueueAt(call.side, p), Passed(p, k)
  PROVE  FilledBy(call.fills, p, QueueAt(call.side, p)[k])
           = node[QueueAt(call.side, p)[k]].qty
<1>1. PICK n : n = QueueAt(call.side, p)[k]
  OBVIOUS
<1>2. FilledOf("HISTORICAL", p, n) = node[n].qty
  BY <1>1 DEF SweptSoFar
<1> QED BY <1>1, <1>2, FilledOfBook

\* At first nothing has been passed: each level is in the copy of the heap.
LEMMA SweepStarts ==
  ASSUME Inductive, HeapCovers, NEW e \in Event, OnAdd(e) \/ OnAggressiveTrade(e)
  PROVE  SweptSoFar'
<1> SUFFICES ASSUME e.source = "STRATEGY" PROVE SweptSoFar'
  <2>1. call'.event = e
    BY DEF OnAdd, OnAggressiveTrade, NewCall
  <2> QED BY <2>1 DEF SweptSoFar
<1>1. PICK side \in Sides : side = Opposite(e.side)
  BY OppositeSide DEF Event
<1>2. /\ call'.heap_copy = heap[side]
      /\ call'.side = side
      /\ call'.it = 1
      /\ UNCHANGED book
  BY <1>1 DEF OnAdd, OnAggressiveTrade, NewCall, bookVars
<1>3. ASSUME NEW p \in Prices, NEW k \in DOMAIN QueueAt(side, p)
      PROVE  heap[side][p] > 0 /\ ~(k < 1)
  <2>1. k \in 1 .. Len(QueueAt(side, p)) /\ Len(QueueAt(side, p)) \in Nat
    BY <1>1, QueueAtFacts DEF Inductive
  <2>2. QueueAt(side, p) # <<>>
    BY <2>1
  <2>3. Live(side, p)
    BY <1>1, <2>2, QueueAtFacts DEF Inductive
  <2> QED BY <1>1, <2>1, <2>3 DEF HeapCovers
<1>4. ASSUME NEW p \in Prices, NEW k \in DOMAIN QueueAt(side, p)
      PROVE  ~Passed(p, k)'
  <2>1. heap[side][p] # 0
    <3>1. heap[side][p] \in Nat
      BY DEF Inductive, HeapTypes, Bag
    <3> QED BY <1>3, <1>4, <3>1
  <2> QED BY <1>2, <1>3, <1>4, <2>1 DEF Passed
<1>5. \A p : QueueAt(side, p)' = QueueAt(side, p)
  BY <1>2 DEF QueueAt
<1>6. \A p \in Prices : \A k \in DOMAIN QueueAt(side, p)' : ~Passed(p, k)'
  BY <1>4, <1>5
<1> QED BY <1>2, <1>6 DEF SweptSoFar

\* The node a strategy passes gives all it has, or the sweep has nothing left.
LEMMA StrategySweepSwept ==
  ASSUME Inductive, SweepProceeds, SweptSoFar, StrategySweep
  PROVE  SweptSoFar'
<1>1. /\ call.pc = "sweep"
      /\ call.event.source = "STRATEGY"
      /\ call.remaining > 0
      /\ UNCHANGED <<book, node>>
  BY DEF StrategySweep, bookVars
<1>2. /\ call \in Handler
      /\ call.remaining \in Nat
      /\ call.fills \in Seq(Fill)
      /\ HandlerState
  BY <1>1, HandlerFacts
<1>3. PICK side \in Sides, h \in Bag, it \in Nat \ {0} :
        side = call.side /\ h = call.heap_copy /\ it = call.it
  BY <1>1, HandlerFacts
<1>4. PICK p \in BestPrice(h, side) :
        LET queue == book[call.side][p]
            n     == queue[call.it]
            take  == Lesser(node[n].qty, call.remaining)
            left  == take = call.remaining \/ call.it = Len(queue)
            stack == Pruned(call.heap_copy, call.side)
        IN  call' = [call EXCEPT
               !.price = p,
               !.remaining = @ - take,
               !.it = IF left THEN 1 ELSE @ + 1,
               !.heap_copy = IF left THEN AllPopped(stack, p) ELSE stack,
               !.fills = IF take > 0 THEN Append(@, BookFill(n, p, take)) ELSE @]
  BY <1>1, <1>3, Zenon DEF StrategySweep, NextPrice
<1>5. /\ p \in Prices
      /\ h[p] > 0
      /\ Live(side, p)
      /\ \A q \in BestPrice(h, side) : q = p
  BY <1>3, BestPriceFacts DEF BestPrice
<1>6. PICK queue, n, take, left, stack :
        /\ queue = book[side][p]
        /\ n = queue[it]
        /\ take = Lesser(node[n].qty, call.remaining)
        /\ left <=> (take = call.remaining \/ it = Len(queue))
        /\ stack = Pruned(h, side)
  OBVIOUS
<1>7. QueueAt(side, p) = queue
  BY <1>5, <1>6 DEF QueueAt, Live
<1>8. /\ Len(queue) \in Nat
      /\ DOMAIN queue = 1 .. Len(queue)
      /\ Increasing(queue)
      /\ \A k \in 1 .. Len(queue) : queue[k] \in ToSet(queue)
      /\ \A m \in ToSet(queue) : m \in Nat /\ m \in DOMAIN node /\ node[m] \in Node
  BY <1>7, QueueAtFacts DEF Inductive
<1>9. it \in 1 .. Len(queue)
  <2>1. it <= Len(queue)
    BY <1>1, <1>2, <1>3, <1>6 DEF HandlerState
  <2> QED BY <1>8, <2>1
<1>10. /\ n \in Nat /\ n \in DOMAIN node
       /\ node[n].qty \in Nat
       /\ take \in Nat /\ (take # call.remaining => take = node[n].qty)
  <2>1. n \in Nat /\ n \in DOMAIN node /\ node[n] \in Node
    BY <1>6, <1>8, <1>9
  <2>2. node[n].qty \in Nat
    BY <2>1 DEF Node
  <2> QED BY <1>2, <1>6, <2>1, <2>2 DEF Lesser
<1>11. call' = [call EXCEPT
          !.price = p,
          !.remaining = @ - take,
          !.it = IF left THEN 1 ELSE @ + 1,
          !.heap_copy = IF left THEN AllPopped(stack, p) ELSE stack,
          !.fills = IF take > 0 THEN Append(@, BookFill(n, p, take)) ELSE @]
  BY <1>3, <1>4, <1>6, Zenon
<1>12. /\ call'.side = side
       /\ call'.remaining = call.remaining - take
       /\ call'.it = IF left THEN 1 ELSE it + 1
       /\ call'.heap_copy = IF left THEN AllPopped(stack, p) ELSE stack
       /\ call'.fills = IF take > 0 THEN Append(call.fills, BookFill(n, p, take))
                                    ELSE call.fills
  BY <1>1, <1>2, <1>3, <1>11 DEF Handler
<1> SUFFICES ASSUME call'.remaining > 0 PROVE SweptSoFar'
  BY DEF SweptSoFar
<1>13. /\ take = node[n].qty
       /\ left <=> it = Len(queue)
  BY <1>2, <1>6, <1>10, <1>12
<1>14. FillsOf(call.fills, p, n) = {}
  <2>1. it \in it .. Len(QueueAt(call.side, p))
    BY <1>3, <1>7, <1>8, <1>9
  <2>2. FilledBefore(p, QueueAt(call.side, p)[it])
    BY <1>1, <1>3, <1>5, <2>1 DEF SweepProceeds
  <2>3. FilledBefore(p, n) /\ call.side \in Sides
    BY <1>3, <1>6, <1>7, <2>2
  <2> QED BY <1>2, <1>5, <1>10, <2>3, NotFilledYet
<1>15. PICK fills, new :
         /\ fills = call.fills
         /\ new = call'.fills
         /\ fills \in Seq(Fill)
  BY <1>2
<1>16. FilledBy(new, p, n) = take
  <2>1. CASE take > 0
    <3>1. PICK f \in Fill : f = BookFill(n, p, take)
      BY <1>2, <1>5, <1>10, BookFillType
    <3>2. /\ f.source = "HISTORICAL"
          /\ f.price = p /\ f.seq = n /\ f.qty = take
          /\ new = Append(fills, f)
      BY <1>12, <1>15, <2>1, <3>1 DEF BookFill
    <3>3. FillsOf(fills, f.price, f.seq) = {}
      BY <1>14, <1>15, <3>2
    <3>4. FilledBy(new, f.price, f.seq) = f.qty
      BY <1>15, <3>2, <3>3, FilledFirst
    <3> QED BY <3>2, <3>4
  <2>2. CASE ~(take > 0)
    <3>1. new = fills /\ take = 0
      BY <1>10, <1>12, <1>15, <2>2
    <3> QED BY <1>14, <1>15, <3>1, NoLots DEF FilledBy
  <2> QED BY <2>1, <2>2
<1>17. ASSUME NEW r \in Prices, NEW m, r # p \/ m # n
       PROVE  FilledBy(new, r, m) = FilledBy(fills, r, m)
  <2>1. CASE take > 0
    <3>1. PICK f \in Fill : f = BookFill(n, p, take)
      BY <1>2, <1>5, <1>10, BookFillType
    <3>2. /\ f.source # "HISTORICAL" \/ f.price # r \/ f.seq # m
          /\ new = Append(fills, f)
          /\ fills \in Seq(Fill)
      BY <1>12, <1>15, <1>17, <2>1, <3>1 DEF BookFill
    <3>3. /\ DOMAIN new = DOMAIN fills \cup {Len(fills) + 1}
          /\ new[Len(fills) + 1] = f
          /\ \A k \in DOMAIN fills : new[k] = fills[k]
      BY <1>15, <3>2, AppendedFill
    <3>4. FillsOf(new, r, m) \subseteq DOMAIN fills
      BY <3>2, <3>3 DEF FillsOf
    <3> QED BY <1>15, <3>3, <3>4, FilledSame
  <2>2. CASE ~(take > 0)
    BY <1>12, <1>15, <2>2
  <2> QED BY <2>1, <2>2
<1>18. stack \in Bag /\ \A r \in Prices : Live(side, r) => (stack[r] = 0 <=> h[r] = 0)
  <2>1. stack \in Bag
    BY <1>3, <1>5, <1>6, HeapShapes
  <2>2. ASSUME NEW r \in Prices, Live(side, r) PROVE stack[r] = 0 <=> h[r] = 0
    <3>1. h[r] \in Nat /\ ~Better(side, r, r)
      BY <1>3, BetterOrders DEF Bag
    <3> QED BY <1>6, <2>2, <3>1 DEF Pruned
  <2> QED BY <2>1, <2>2
<1>19. ASSUME NEW r \in Prices, NEW q, q = QueueAt(side, r), NEW k \in DOMAIN q,
              Passed(r, k)'
       PROVE  FilledBy(new, r, q[k]) = node[q[k]].qty
  <2>1. /\ Len(q) \in Nat
        /\ DOMAIN q = 1 .. Len(q)
        /\ q # <<>> => Live(side, r)
    BY <1>19, QueueAtFacts DEF Inductive
  <2>2. Live(side, r) /\ k \in Nat /\ k >= 1 /\ k <= Len(q)
    <3>1. k \in 1 .. Len(q)
      BY <2>1
    <3>2. q # <<>>
      BY <2>1, <3>1
    <3> QED BY <2>1, <3>1, <3>2
  <2>3. Passed(r, k) => FilledBy(fills, r, q[k]) = node[q[k]].qty
    BY <1>1, <1>3, <1>15, <1>19, SweptFacts
  <2>4. CASE r # p
    <3>1. h[r] = 0
      <4>1. CASE call'.heap_copy[r] = 0
        <5>1. stack[r] = 0
          BY <1>5, <1>12, <1>18, <2>4, <4>1 DEF AllPopped, Bag
        <5> QED BY <1>18, <2>2, <5>1
      <4>2. CASE r \in BestPrice(call'.heap_copy, side) /\ k < call'.it
        <5>1. ~left
          BY <1>12, <2>2, <4>2
        <5>2. r \in BestPrice(stack, side)
          BY <1>12, <4>2, <5>1
        <5>3. r \in BestPrice(h, side)
          BY <1>3, <1>6, <5>2, PrunedBestPrice
        <5> QED BY <1>5, <2>4, <5>3
      <4>3. BestPrice(call.heap_copy, call.side)' = BestPrice(call'.heap_copy, side)
        BY <1>1, <1>12 DEF BestPrice, Live
      <4> QED BY <1>19, <4>1, <4>2, <4>3 DEF Passed
    <3>2. Passed(r, k)
      BY <1>3, <3>1 DEF Passed
    <3>3. FilledBy(new, r, q[k]) = FilledBy(fills, r, q[k])
      BY <1>17, <2>4
    <3> QED BY <2>3, <3>2, <3>3
  <2>5. CASE r = p
    <3>1. q = queue
      BY <1>7, <1>19, <2>5
    <3>2. CASE k = it
      <4>1. q[k] = n
        BY <1>6, <3>1, <3>2
      <4> QED BY <1>13, <1>16, <2>5, <4>1
    <3>3. CASE k < it
      <4>1. queue[k] < queue[it] /\ queue[k] \in Nat /\ queue[it] \in Nat
        BY <1>8, <1>9, <2>1, <3>1, <3>3 DEF Increasing
      <4>2. q[k] # n
        BY <1>6, <3>1, <4>1
      <4>3. Passed(r, k)
        BY <1>3, <2>5, <3>3 DEF Passed
      <4>4. FilledBy(new, r, q[k]) = FilledBy(fills, r, q[k])
        BY <1>17, <4>2
      <4> QED BY <2>3, <4>3, <4>4
    <3>4. CASE k > it
      <4>1. ~left
        <5>1. Len(q) = Len(queue)
          BY <3>1
        <5>2. it # Len(queue)
          BY <1>3, <1>8, <2>2, <3>4, <5>1
        <5> QED BY <1>13, <5>2
      <4>2. call'.heap_copy[r] # 0
        BY <1>5, <1>12, <1>18, <2>5, <4>1
      <4>3. ~(k < call'.it)
        BY <1>12, <2>2, <3>4, <4>1
      <4> QED BY <1>19, <4>2, <4>3 DEF Passed
    <3> QED BY <2>2, <3>2, <3>3, <3>4
  <2> QED BY <2>4, <2>5
<1>20. \A r : QueueAt(side, r)' = QueueAt(side, r)
  BY <1>1 DEF QueueAt
<1>21. ASSUME NEW r \in Prices, NEW k \in DOMAIN QueueAt(side, r)', Passed(r, k)'
       PROVE  FilledOf("HISTORICAL", r, QueueAt(side, r)[k])'
                = node'[QueueAt(side, r)'[k]].qty
  <2>1. PICK q, m : q = QueueAt(side, r) /\ q = QueueAt(side, r)' /\ m = q[k]
    BY <1>20
  <2>2. FilledBy(new, r, m) = node[m].qty
    BY <1>19, <1>21, <2>1
  <2>3. FilledOf("HISTORICAL", r, m)' = FilledBy(call'.fills, r, m)
    BY FilledOfBook
  <2> QED BY <1>1, <1>15, <2>1, <2>2, <2>3
<1> QED BY <1>12, <1>21 DEF SweptSoFar

\* Outside of a strategy's sweep there is nothing to keep.
LEMMA NotSweeping ==
  ASSUME call'.pc # "sweep" \/ call'.event.source # "STRATEGY"
  PROVE  SweptSoFar'
BY DEF SweptSoFar

After == {"paper", "rest", "mirror"}

\* What SweepComplete says of a level.
LEMMA CompleteFacts ==
  ASSUME SweepComplete, call.pc \in After, call.remaining > 0,
         NEW p \in Prices, Live(call.side, p), Crosses(call.event, p)
  PROVE  /\ call.event.source = "STRATEGY"
         /\ \A n \in ToSet(book[call.side][p]) : FilledBy(call.fills, p, n) = node[n].qty
BY FilledOfBook DEF SweepComplete, Running, After

LEMMA CompleteNext ==
  ASSUME UNCHANGED <<book, node>>,
         \A p \in Prices :
           /\ call'.pc \in After
           /\ call'.remaining > 0
           /\ Live(call'.side, p)
           /\ Crosses(call'.event, p)
           => /\ call'.event.source = "STRATEGY"
              /\ \A n \in ToSet(book[call'.side][p]) :
                   FilledBy(call'.fills, p, n) = node[n].qty
  PROVE  SweepComplete'
<1>1. ASSUME NEW p \in Prices, call'.pc \in After, call'.remaining > 0,
             Live(call.side, p)', Crosses(call.event, p)'
      PROVE  /\ call'.event.source = "STRATEGY"
             /\ \A n \in ToSet(book'[call'.side][p]) :
                  FilledOf("HISTORICAL", p, n)' = node'[n].qty
  <2>1. Live(call'.side, p) /\ Crosses(call'.event, p)
    BY <1>1 DEF Live, Crosses
  <2> QED BY <1>1, <2>1, FilledOfBook
<1> QED BY <1>1 DEF SweepComplete, Running, After

\* A strategy that finds no price to trade at has passed all it crosses.
LEMMA StrategySweepEnds ==
  ASSUME Inductive, SweptSoFar, call.pc = "sweep", call.event.source = "STRATEGY",
         call.remaining > 0, NextPrice = {},
         call.event.type = "ADD" => call.side = Opposite(call.event.side),
         NEW p \in Prices, Live(call.side, p), Crosses(call.event, p),
         NEW n \in ToSet(book[call.side][p])
  PROVE  FilledBy(call.fills, p, n) = node[n].qty
<1>1. /\ call.side \in Sides
      /\ call.event.side \in Sides
      /\ call.event.price \in Prices
      /\ call.event.type \in {"ADD", "AGGRESSIVE_TRADE"}
      /\ call.heap_copy \in Bag
  <2>1. HandlerState /\ call.event.type \in {"ADD", "AGGRESSIVE_TRADE", "MATCH"}
    BY HandlerFacts
  <2> QED BY <2>1, HandlerFacts DEF HandlerState
<1>2. call.heap_copy[p] = 0
  <2> SUFFICES ASSUME call.heap_copy[p] # 0 PROVE FALSE
    OBVIOUS
  <2> DEFINE S == {q \in Prices : call.heap_copy[q] > 0 /\ Live(call.side, q)}
  <2>1. p \in S
    BY <1>1 DEF Bag
  <2>2. PICK q \in S : \A r \in S : ~Better(call.side, r, q)
    BY <1>1, <2>1, BestExists
  <2>3. q \in BestPrice(call.heap_copy, call.side) /\ ~Better(call.side, p, q)
    BY <2>1, <2>2 DEF BestPrice
  <2>4. ~Crosses(call.event, q) /\ q \in Prices
    BY <2>3 DEF NextPrice
  <2>5. /\ call.event.type = "ADD"
        /\ ~Better(call.side, call.event.price, p)
        /\ Better(call.side, call.event.price, q)
    BY <1>1, <2>4 DEF Crosses
  <2> QED BY <1>1, <2>3, <2>4, <2>5, BetterOrders
<1>3. PICK q : q = QueueAt(call.side, p) /\ q = book[call.side][p]
  BY DEF Live, QueueAt
<1>4. PICK k \in DOMAIN q : q[k] = n
  BY <1>3 DEF ToSet
<1>5. Passed(p, k)
  BY <1>2 DEF Passed
<1> QED BY <1>3, <1>4, <1>5, SweptFacts

\* When no price is left to trade at, the sweep is complete.
LEMMA SweepEnds ==
  ASSUME Inductive, HeapCovers, SweepProceeds, SweptSoFar, EndSweep
  PROVE  SweepComplete' /\ SweptSoFar'
<1>1. /\ call.pc = "sweep"
      /\ Handling
      /\ UNCHANGED <<book, node>>
  BY DEF EndSweep, Handling
<1>2. call \in Handler /\ call.remaining \in Nat /\ call.event.source \in Sources
  BY <1>1, HandlerFacts
<1>3. call' \in {[call EXCEPT !.pc = "rest"], [call EXCEPT !.pc = "paper"]}
  BY DEF EndSweep
<1>4. /\ call'.pc \in {"rest", "paper"}
      /\ call'.event = call.event
      /\ call'.side = call.side
      /\ call'.fills = call.fills
      /\ call'.remaining = call.remaining
  BY <1>2, <1>3 DEF Handler
<1>5. ASSUME NEW p \in Prices, call'.remaining > 0,
             Live(call'.side, p), Crosses(call'.event, p)
      PROVE  /\ call'.event.source = "STRATEGY"
             /\ \A n \in ToSet(book[call'.side][p]) :
                  FilledBy(call'.fills, p, n) = node[n].qty
  <2>1. NextPrice = {}
    BY <1>2, <1>4, <1>5 DEF EndSweep
  <2>2. call.event.source = "STRATEGY"
    <3> SUFFICES ASSUME call.event.source = "HISTORICAL" PROVE FALSE
      BY <1>2 DEF Sources
    <3>1. ~Crosses(call.event, p)
      BY <1>1, <1>4, <1>5, <2>1, NothingLeftToTrade
    <3> QED BY <1>4, <1>5, <3>1
  <2>3. call.event.type = "ADD" => call.side = Opposite(call.event.side)
    BY <1>1 DEF SweepProceeds
  <2> QED BY <1>1, <1>4, <1>5, <2>1, <2>2, <2>3, StrategySweepEnds
<1> QED BY <1>1, <1>4, <1>5, CompleteNext, NotSweeping

\* Whoever trades with paper orders, or comes to rest, has swept the book.
LEMMA StaysComplete ==
  ASSUME Inductive, SweepComplete, UNCHANGED <<book, node>>,
         call.pc \in After, call'.pc \in After, call'.event = call.event,
         call'.side = call.side, call'.remaining > 0 => call.remaining > 0,
         NoBookFill
  PROVE  SweepComplete' /\ SweptSoFar'
<1>1. PICK fills, new : /\ fills = call.fills
                        /\ new = call'.fills
                        /\ fills \in Seq(Fill)
  BY HandlerFacts DEF After
<1>2. ASSUME NEW p, NEW n
      PROVE  FilledBy(new, p, n) = FilledBy(fills, p, n)
  <2>1. CASE new = fills
    BY <2>1
  <2>2. CASE \E f \in Fill : f.source = "STRATEGY" /\ new = Append(fills, f)
    <3>1. PICK f \in Fill : f.source = "STRATEGY" /\ new = Append(fills, f)
      BY <2>2
    <3>2. /\ DOMAIN new = DOMAIN fills \cup {Len(fills) + 1}
          /\ new[Len(fills) + 1] = f
          /\ \A k \in DOMAIN fills : new[k] = fills[k]
      BY <1>1, <3>1, AppendedFill
    <3>3. FillsOf(new, p, n) \subseteq DOMAIN fills
      BY <3>1, <3>2 DEF FillsOf
    <3> QED BY <1>1, <3>2, <3>3, FilledSame
  <2> QED BY <1>1, <2>1, <2>2 DEF NoBookFill
<1>3. ASSUME NEW p \in Prices, call'.remaining > 0,
             Live(call'.side, p), Crosses(call'.event, p)
      PROVE  /\ call'.event.source = "STRATEGY"
             /\ \A n \in ToSet(book[call'.side][p]) :
                  FilledBy(call'.fills, p, n) = node[n].qty
  <2>1. /\ call.event.source = "STRATEGY"
        /\ \A n \in ToSet(book[call.side][p]) : FilledBy(fills, p, n) = node[n].qty
    BY <1>1, <1>3, CompleteFacts
  <2> QED BY <1>1, <1>2, <2>1
<1>4. SweptSoFar'
  BY NotSweeping DEF After
<1> QED BY <1>3, <1>4, CompleteNext

\* The steps after the sweep, up to the one that lets the order rest.
LEMMA AfterSweep ==
  ASSUME Inductive, SweepComplete, call' # Idle,
         TradeAgainstPaper \/ EndPaper \/ AcquirePaperNode \/ MirrorNode
  PROVE  SweepComplete' /\ SweptSoFar'
<1>1. CASE TradeAgainstPaper
  <2>1. /\ call.pc = "paper"
        /\ call'.pc = "paper"
        /\ call.remaining > 0
        /\ call'.event = call.event
        /\ call'.side = call.side
        /\ UNCHANGED <<book, node>>
    BY <1>1, PaperTrade
  <2>2. NoBookFill
    <3>1. \E f \in Fill : f.source = "STRATEGY" /\ call'.fills = Append(call.fills, f)
      BY <1>1, PaperTrade
    <3> QED BY <2>1, <3>1 DEF NoBookFill
  <2> QED BY <2>1, <2>2, StaysComplete DEF After
<1>2. CASE EndPaper \/ AcquirePaperNode \/ MirrorNode
  <2>1. call.pc \in {"paper", "rest", "mirror"} /\ UNCHANGED <<book, node>>
    BY <1>2, Zenon DEF EndPaper, AcquirePaperNode, MirrorNode, bookVars
  <2>2. call \in Handler
    BY <2>1, HandlerFacts
  <2>3. call' \in {[call EXCEPT !.pc = "rest"],
                   [call EXCEPT !.pc = "mirror", !.it = 1],
                   [call EXCEPT !.it = @ + 1]}
    BY <1>2, Zenon DEF EndPaper, AcquirePaperNode, MirrorNode
  <2>4. call'.pc \in {"rest", "mirror", call.pc}
    BY <2>2, <2>3 DEF Handler
  <2>5. /\ call'.event = call.event
        /\ call'.side = call.side
        /\ call'.fills = call.fills
        /\ call'.remaining = call.remaining
    BY <2>2, <2>3 DEF Handler
  <2> QED BY <2>1, <2>4, <2>5, StaysComplete DEF After, NoBookFill
<1> QED BY <1>1, <1>2

\* The other steps of a handler neither end a sweep nor are a strategy's sweep.
LEMMA OtherStepsComplete ==
  ASSUME Inductive, call' # Idle,
         \/ HistoricalSweep \/ QueueFill \/ EndQueue \/ Settle \/ EndLevel
         \/ MatchFill
  PROVE  SweepComplete' /\ SweptSoFar'
<1>1. call.pc \in {"sweep", "queue", "settle"}
  BY Zenon DEF HistoricalSweep, QueueFill, EndQueue, Settle, EndLevel, MatchFill
<1>2. call \in Handler /\ HandlerState
  BY <1>1, HandlerFacts
<1>3. CASE HistoricalSweep
  <2>1. /\ call.event.source = "HISTORICAL"
        /\ call'.event = call.event
        /\ call'.pc \in {"sweep", "queue"}
    BY <1>3, SweepKind, Zenon DEF HistoricalSweep
  <2> QED BY <2>1, NotSweeping DEF SweepComplete, Running
<1>4. CASE QueueFill \/ EndQueue \/ Settle \/ MatchFill
  <2>1. call'.pc \in {"queue", "settle", "reduce"}
    BY <1>2, <1>4 DEF QueueFill, EndQueue, Settle, MatchFill, Handler
  <2> QED BY <2>1, NotSweeping DEF SweepComplete, Running
<1>5. CASE EndLevel
  <2>1. /\ call'.event = call.event
        /\ call'.pc = "sweep"
        /\ call.event.source = "HISTORICAL"
    BY <1>2, <1>5 DEF EndLevel, Handler, HandlerState
  <2> QED BY <2>1, NotSweeping DEF SweepComplete, Running
<1> QED BY <1>3, <1>4, <1>5

\* Every step of the engine keeps both.
LEMMA CompleteStep ==
  ASSUME Inductive, HeapCovers, SweepProceeds, SweepComplete, SweptSoFar,
         [Next]_vars
  PROVE  SweepComplete' /\ SweptSoFar'
<1>1. Idle.pc = "idle"
  BY DEF Idle
<1>2. ASSUME call'.pc \notin {"sweep", "paper", "rest", "mirror"}
      PROVE  SweepComplete' /\ SweptSoFar'
  BY <1>2, NotSweeping DEF SweepComplete, Running
<1>3. ASSUME NEW e \in Events, update(e) PROVE SweepComplete' /\ SweptSoFar'
  <2>1. CASE OnAdd(e) \/ OnAggressiveTrade(e)
    <3>1. e \in Event
      BY EventsAssumption
    <3>2. call'.pc = "sweep"
      BY <2>1 DEF OnAdd, OnAggressiveTrade, NewCall
    <3> QED BY <2>1, <3>1, <3>2, SweepStarts DEF SweepComplete, Running
  <2>2. CASE OnMatch(e)
    <3>1. call'.pc \in {"queue", "settle"}
      BY <2>2 DEF OnMatch, NewCall
    <3> QED BY <1>2, <3>1
  <2>3. CASE Reject(e) \/ OnDelete(e) \/ OnSubtract(e) \/ OnSet(e)
    <3>1. call' = Idle
      BY <2>3 DEF Reject, vars, OnDelete, OnSubtract, OnSet, SetHistorical, Accepts
    <3> QED BY <1>1, <1>2, <3>1
  <2> QED BY <1>3, <2>1, <2>2, <2>3 DEF update
<1>4. ASSUME NEW rows, InitFromL2Snapshot(rows) \/ InitFromL3Snapshot(rows)
      PROVE  SweepComplete' /\ SweptSoFar'
  <2>1. call'.pc \in {"l2", "l3"}
    BY <1>4 DEF InitFromL2Snapshot, InitFromL3Snapshot
  <2> QED BY <1>2, <2>1
<1>5. ASSUME NEW side \in Sides, GetBestPriceTicks(side)
      PROVE  SweepComplete' /\ SweptSoFar'
  BY <1>1, <1>2, <1>5 DEF GetBestPriceTicks
<1>6. ASSUME Continue PROVE SweepComplete' /\ SweptSoFar'
  <2>1. CASE call' = Idle
    BY <1>1, <1>2, <2>1
  <2>2. CASE L2Row \/ L3Row
    <3>1. call.pc \in {"l2", "l3"} /\ call \in Load
      BY <2>2, CallKinds DEF L2Row, L3Row
    <3>2. call' = Idle \/ NextRow
      BY <2>2 DEF L2Row, L3Row
    <3>3. NextRow => call'.pc = call.pc
      BY <3>1 DEF NextRow, Load
    <3> QED BY <1>2, <2>1, <3>1, <3>2, <3>3
  <2>3. CASE StrategySweep
    <3>1. call.pc = "sweep" /\ call \in Handler
      BY <2>3, HandlerFacts DEF StrategySweep
    <3>2. call'.pc = "sweep"
      BY <2>3, <3>1 DEF StrategySweep, Handler
    <3> QED BY <2>3, <3>2, StrategySweepSwept DEF SweepComplete, Running
  <2>4. CASE EndAdd \/ RestHistorical \/ RestStrategy \/ EndMatch \/ EndSnapshot
    BY <2>1, <2>4 DEF EndAdd, RestHistorical, RestStrategy, EndMatch, EndSnapshot
  <2> QED BY <1>6, <2>1, <2>2, <2>3, <2>4, SweepEnds, AfterSweep,
             OtherStepsComplete DEF Continue
<1>7. CASE UNCHANGED vars
  <2>1. UNCHANGED <<book, node, call>>
    BY <1>7 DEF vars, bookVars
  <2>2. SweepComplete'
    <3>1. ASSUME NEW p \in Prices, call'.pc \in After, call'.remaining > 0,
                 Live(call'.side, p), Crosses(call'.event, p)
          PROVE  /\ call'.event.source = "STRATEGY"
                 /\ \A n \in ToSet(book[call'.side][p]) :
                      FilledBy(call'.fills, p, n) = node[n].qty
      BY <2>1, <3>1, CompleteFacts
    <3> QED BY <2>1, <3>1, CompleteNext
  <2>3. SweptSoFar'
    <3> SUFFICES ASSUME call'.pc = "sweep", call'.event.source = "STRATEGY",
                        call'.remaining > 0, NEW p \in Prices,
                        NEW k \in DOMAIN QueueAt(call.side, p)', Passed(p, k)'
                 PROVE  FilledOf("HISTORICAL", p, QueueAt(call.side, p)[k])'
                          = node'[QueueAt(call.side, p)'[k]].qty
      BY DEF SweptSoFar
    <3>1. PICK q : q = QueueAt(call.side, p) /\ q = QueueAt(call.side, p)'
      BY <2>1 DEF QueueAt
    <3>2. Passed(p, k)
      BY <2>1 DEF Passed, BestPrice, Live
    <3>3. FilledBy(call.fills, p, q[k]) = node[q[k]].qty
      BY <2>1, <3>1, <3>2, SweptFacts
    <3>4. PICK n : n = q[k]
      OBVIOUS
    <3>5. FilledOf("HISTORICAL", p, n)' = node'[n].qty
      BY <2>1, <3>3, <3>4, FilledOfBook
    <3> QED BY <3>1, <3>4, <3>5
  <2> QED BY <2>2, <2>3
<1> QED BY <1>3, <1>4, <1>5, <1>6, <1>7 DEF Next

(***************************************************************************)
(* An order goes on to paper orders, or comes to rest, only when the       *)
(* historical book has nothing left for it: each level a historical order  *)
(* crosses is empty, and a strategy has been filled against the whole      *)
(* quantity of every order it crosses.                                     *)
(***************************************************************************)
THEOREM NothingLeftBehind == Spec => []SweepComplete
<1>1. Init => SweepProceeds /\ PriceTimePriority /\ SweepComplete /\ SweptSoFar
  BY DEF Init, SweepProceeds, PriceTimePriority, SweepComplete, SweptSoFar,
         Running, Trading, Handling, Idle
<1>2. Init => HeapCovers
  BY DEF Init, HeapCovers, Live, Empty
<1> DEFINE J == /\ HeapCovers
                /\ SweepProceeds
                /\ PriceTimePriority
                /\ SweepComplete
                /\ SweptSoFar
<1>3. Inductive /\ J /\ [Next]_vars => J'
  BY HeapStep, PriorityStep, CompleteStep
<1>4. J => SweepComplete
  OBVIOUS
<1> HIDE DEF J
<1>5. Init => J
  BY <1>1, <1>2 DEF J
<1> QED BY <1>3, <1>4, <1>5, Invariance, PTL DEF Spec
-----------------------------------------------------------------------------
(***************************************************************************)
(* What a level has to be told of a node.                                  *)
(***************************************************************************)
\* The lots of one element and of the others, for any list with quantities.
LEMMA QuantitySplit ==
  ASSUME NEW list, NEW S, S \subseteq DOMAIN list, IsFiniteSet(S),
         \A j \in S : list[j].qty \in Int, NEW k \in S
  PROVE  /\ LotsOf(list, S) \in Int
         /\ LotsOf(list, S) = LotsOf(list, S \ {k}) + list[k].qty
<1> DEFINE g == QuantitiesOf(list)
           T == S \ {k}
<1>1. IsFiniteSet(T) /\ T \subseteq DOMAIN list
  BY FS_Subset
<1>2. /\ \A j \in S : g[j] \in Int
      /\ g[k] = list[k].qty
  BY DEF QuantitiesOf
<1> HIDE DEF g
<1>3. SumOver(g, S) = SumOver(g, T) + g[k] /\ SumOver(g, S) \in Int
  BY <1>2, SumWithout, SumType
<1> HIDE DEF T
<1>4. LotsOf(list, S) = SumOver(g, S) /\ LotsOf(list, T) = SumOver(g, T)
  BY <1>1, LotsAreSums DEF g
<1> QED BY <1>2, <1>3, <1>4 DEF T

Delta == [seq : Nat, qty : Nat]

DeltasOf(deltas, n) == {k \in DOMAIN deltas : deltas[k].seq = n}

DeltaLots(deltas, n) == LotsOf(deltas, DeltasOf(deltas, n))

\* What the level at the price of a MATCH will have been told too much.
Matched(n) == IF call.event.type = "MATCH" /\ n = NodeOf(call.event.id)
                THEN Taken(call.event) ELSE 0

LEMMA UntoldIs ==
  ASSUME NEW n
  PROVE  /\ Untold(n) = DeltaLots(call.deltas, n) - Matched(n)
         /\ Untold(n)' = DeltaLots(call'.deltas, n) - Matched(n)'
<1>1. \A ks : MapThenSumSet(LAMBDA k : call.deltas[k].qty, ks) = LotsOf(call.deltas, ks)
  BY DEF LotsOf, MapThenSumSet, MapThenFoldSet
<1>2. ASSUME NEW ks
      PROVE  MapThenSumSet(LAMBDA k : call'.deltas[k].qty, ks) = LotsOf(call'.deltas, ks)
  BY DEF LotsOf, MapThenSumSet, MapThenFoldSet
<1>3. DeltaLots(call.deltas, n) =
        MapThenSumSet(LAMBDA k : call.deltas[k].qty,
                      {k \in DOMAIN call.deltas : call.deltas[k].seq = n})
  BY <1>1 DEF DeltaLots, DeltasOf
<1>4. DeltaLots(call'.deltas, n) =
        MapThenSumSet(LAMBDA k : call'.deltas[k].qty,
                      {k \in DOMAIN call'.deltas : call'.deltas[k].seq = n})
  BY <1>2 DEF DeltaLots, DeltasOf
<1> QED BY <1>3, <1>4 DEF Untold, Matched, MapThenSumSet, MapThenFoldSet

LEMMA DeltaFacts ==
  ASSUME NEW deltas \in Seq(Delta)
  PROVE  /\ Len(deltas) \in Nat
         /\ DOMAIN deltas = 1 .. Len(deltas)
         /\ \A k \in DOMAIN deltas : /\ k \in Nat
                                     /\ deltas[k] \in Delta
                                     /\ deltas[k].seq \in Nat
                                     /\ deltas[k].qty \in Nat
         /\ \A n : /\ DeltasOf(deltas, n) \subseteq DOMAIN deltas
                   /\ IsFiniteSet(DeltasOf(deltas, n))
                   /\ \A k \in DeltasOf(deltas, n) : deltas[k].qty \in Int
<1>1. Len(deltas) \in Nat /\ DOMAIN deltas = 1 .. Len(deltas)
  BY LenProperties
<1>2. \A k \in 1 .. Len(deltas) : deltas[k] \in Delta
  BY ElementOfSeq
<1>3. \A k \in DOMAIN deltas : deltas[k].seq \in Nat /\ deltas[k].qty \in Nat
  BY <1>1, <1>2 DEF Delta
<1>4. ASSUME NEW n
      PROVE  /\ DeltasOf(deltas, n) \subseteq DOMAIN deltas
             /\ IsFiniteSet(DeltasOf(deltas, n))
             /\ \A k \in DeltasOf(deltas, n) : deltas[k].qty \in Int
  <2>1. DeltasOf(deltas, n) \subseteq DOMAIN deltas
    BY DEF DeltasOf
  <2>2. IsFiniteSet(DOMAIN deltas)
    BY <1>1, FS_Interval
  <2>3. IsFiniteSet(DeltasOf(deltas, n))
    BY <2>1, <2>2, FS_Subset
  <2> QED BY <1>3, <2>1, <2>3
<1> QED BY <1>1, <1>2, <1>3, <1>4

LEMMA DeltaLotsType ==
  ASSUME NEW deltas \in Seq(Delta), NEW n
  PROVE  DeltaLots(deltas, n) \in Int
<1>1. CASE DeltasOf(deltas, n) = {}
  BY <1>1, NoLots DEF DeltaLots
<1>2. CASE DeltasOf(deltas, n) # {}
  BY <1>2, DeltaFacts, QuantitySplit DEF DeltaLots
<1> QED BY <1>1, <1>2

LEMMA NoDeltas ==
  ASSUME NEW n
  PROVE  DeltaLots(<<>>, n) = 0
<1>1. DeltasOf(<<>>, n) = {}
  BY DEF DeltasOf
<1> QED BY <1>1, NoLots DEF DeltaLots

LEMMA DeltaAppended ==
  ASSUME NEW deltas \in Seq(Delta), NEW d \in Delta, NEW n
  PROVE  DeltaLots(Append(deltas, d), n) =
           DeltaLots(deltas, n) + IF d.seq = n THEN d.qty ELSE 0
<1> DEFINE last == Len(deltas) + 1
           S == DeltasOf(deltas, n)
<1>0. PICK new : new = Append(deltas, d)
  OBVIOUS
<1>1. Len(deltas) \in Nat /\ DOMAIN deltas = 1 .. Len(deltas)
  BY DeltaFacts
<1>2. /\ new \in Seq(Delta)
      /\ Len(new) = last
      /\ \A k \in 1 .. Len(deltas) : new[k] = deltas[k]
      /\ new[last] = d
  BY <1>0, AppendProperties
<1>3. DOMAIN new = 1 .. last
  BY <1>2, LenProperties
<1>4. /\ DOMAIN new = DOMAIN deltas \cup {last}
      /\ last \notin DOMAIN deltas
      /\ \A k \in DOMAIN deltas : new[k] = deltas[k]
      /\ new[last] = d
  BY <1>1, <1>2, <1>3
<1>5. S \subseteq DOMAIN deltas /\ IsFiniteSet(S) /\ \A k \in S : deltas[k].qty \in Int
  BY DeltaFacts
<1>6. DeltasOf(new, n) = IF d.seq = n THEN S \cup {last} ELSE S
  <2> HIDE DEF last
  <2> QED BY <1>4 DEF DeltasOf
<1>7. d.qty \in Nat
  BY DEF Delta
<1> HIDE DEF last, S
<1>8. LotsOf(new, S) = LotsOf(deltas, S)
  BY <1>4, <1>5, LotsSame
<1>9. LotsOf(deltas, S) \in Int
  BY DeltaLotsType DEF DeltaLots, S
<1>10. CASE d.seq = n
  <2> DEFINE U == S \cup {last}
  <2>1. /\ U \subseteq DOMAIN new
        /\ IsFiniteSet(U)
        /\ \A k \in U : new[k].qty \in Int
        /\ last \in U
        /\ U \ {last} = S
    BY <1>4, <1>5, <1>7, FS_AddElement
  <2> HIDE DEF U
  <2>2. LotsOf(new, U) = LotsOf(new, U \ {last}) + new[last].qty
    BY <2>1, QuantitySplit
  <2>3. LotsOf(new, U) = LotsOf(deltas, S) + d.qty
    BY <1>4, <1>8, <2>1, <2>2
  <2>4. DeltasOf(new, n) = U
    BY <1>6, <1>10 DEF U
  <2> QED BY <1>0, <1>10, <2>3, <2>4 DEF DeltaLots, S
<1>11. CASE d.seq # n
  BY <1>0, <1>6, <1>8, <1>9, <1>11 DEF DeltaLots, S
<1> QED BY <1>0, <1>10, <1>11

\* A sum over numbers is the sum over the next ones.
LEMMA SumShifted ==
  ASSUME NEW g, NEW h, NEW S, S \subseteq Nat, IsFiniteSet(S),
         IsFiniteSet({k + 1 : k \in S}),
         \A k \in S : h[k] = g[k + 1] /\ g[k + 1] \in Int
  PROVE  SumOver(h, S) = SumOver(g, {k + 1 : k \in S})
<1> DEFINE up(s) == {k + 1 : k \in s}
           B == {s \in SUBSET S : SumOver(h, s) # SumOver(g, up(s))}
<1> SUFFICES ASSUME S \in B PROVE FALSE
  OBVIOUS
<1>1. PICK T \in B : IsFiniteSet(T) /\ \A U \in B : U \subseteq T => U = T
  <2> HIDE DEF B, up
  <2> QED BY ONLY S \in B, IsFiniteSet(S), LeastSubset
<1>2. T \subseteq S /\ T \subseteq Nat
  BY <1>1
<1>3. IsFiniteSet(up(T))
  <2>1. IsFiniteSet(up(S)) /\ up(T) \subseteq up(S)
    BY <1>2
  <2> QED BY <2>1, FS_Subset
<1>4. T # {}
  <2>1. up({}) = {} /\ IsFiniteSet({})
    BY FS_EmptySet
  <2>2. SumOver(h, {}) = 0 /\ SumOver(g, {}) = 0
    BY <2>1, SumStep
  <2> QED BY <1>1, <2>1, <2>2
<1>5. PICK a \in T : TRUE
  BY <1>4
<1>6. up(T) \ {a + 1} = up(T \ {a}) /\ a + 1 \in up(T)
  BY <1>2, <1>5
<1>7. SumOver(h, T \ {a}) = SumOver(g, up(T \ {a}))
  BY <1>1, <1>5
<1>8. \A x \in T : h[x] \in Int
  BY <1>2
<1>9. \A x \in up(T) : g[x] \in Int
  BY <1>2
<1>10. SumOver(h, T) = SumOver(h, T \ {a}) + h[a]
  BY <1>1, <1>5, <1>8, SumWithout
<1>11. SumOver(g, up(T)) = SumOver(g, up(T) \ {a + 1}) + g[a + 1]
  <2> HIDE DEF up, B
  <2> QED BY <1>3, <1>6, <1>9, SumWithout
<1>12. h[a] = g[a + 1]
  BY <1>2, <1>5
<1>13. SumOver(h, T) = SumOver(g, up(T))
  <2> HIDE DEF up, B
  <2> QED BY <1>6, <1>7, <1>10, <1>11, <1>12
<1> QED BY <1>1, <1>13

LEMMA DeltaTold ==
  ASSUME NEW deltas \in Seq(Delta), deltas # <<>>, NEW n
  PROVE  /\ Tail(deltas) \in Seq(Delta)
         /\ DeltaLots(Tail(deltas), n) =
              DeltaLots(deltas, n) - IF Head(deltas).seq = n THEN Head(deltas).qty ELSE 0
<1> DEFINE new == Tail(deltas)
           S == DeltasOf(new, n)
           up == {k + 1 : k \in S}
           g == QuantitiesOf(deltas)
           h == QuantitiesOf(new)
<1>1. /\ Len(deltas) \in Nat
      /\ DOMAIN deltas = 1 .. Len(deltas)
      /\ \A k \in DOMAIN deltas : deltas[k].qty \in Nat
  BY DeltaFacts
<1>2. /\ Len(deltas) >= 1
      /\ Head(deltas) = deltas[1]
  BY <1>1, EmptySeq
<1>3. /\ new \in Seq(Delta)
      /\ Len(new) = Len(deltas) - 1
      /\ \A k \in 1 .. Len(new) : new[k] = deltas[k + 1]
  BY HeadTailProperties
<1>4. DOMAIN new = 1 .. Len(deltas) - 1
  BY <1>3, LenProperties
<1> HIDE DEF new
<1>5. /\ S \subseteq DOMAIN new
      /\ S \subseteq Nat
      /\ IsFiniteSet(S)
  BY <1>3, DeltaFacts
<1>6. \A k \in S : /\ k + 1 \in DOMAIN deltas
                   /\ new[k] = deltas[k + 1]
  BY <1>1, <1>3, <1>4, <1>5
<1>7. \A k \in S : h[k] = g[k + 1] /\ g[k + 1] \in Int
  BY <1>1, <1>5, <1>6 DEF QuantitiesOf
<1>8. /\ up \subseteq DOMAIN deltas
      /\ IsFiniteSet(up)
      /\ 1 \notin up
  <2>1. IsFiniteSet(up)
    <3>1. up \subseteq DOMAIN deltas /\ IsFiniteSet(DOMAIN deltas)
      BY <1>1, <1>6, FS_Interval
    <3> QED BY <3>1, FS_Subset
  <2>2. 1 \notin up
    BY <1>4, <1>5
  <2> QED BY <1>6, <2>1, <2>2
<1>9. DeltasOf(deltas, n) = IF deltas[1].seq = n THEN up \cup {1} ELSE up
  <2>1. ASSUME NEW k \in DOMAIN deltas, k # 1, deltas[k].seq = n PROVE k \in up
    <3>1. k - 1 \in DOMAIN new /\ k = (k - 1) + 1
      BY <1>1, <1>4, <2>1
    <3>2. new[k - 1] = deltas[k]
      BY <1>1, <1>3, <1>4, <3>1
    <3>3. k - 1 \in S
      BY <2>1, <3>1, <3>2 DEF DeltasOf
    <3> QED BY <3>1, <3>3
  <2>2. \A k \in up : k \in DOMAIN deltas /\ deltas[k].seq = n
    BY <1>6 DEF DeltasOf
  <2>3. 1 \in DOMAIN deltas
    BY <1>1, <1>2
  <2> HIDE DEF up
  <2> QED BY <2>1, <2>2, <2>3 DEF DeltasOf
<1>10. LotsOf(new, S) = LotsOf(deltas, up)
  <2>1. SumOver(h, S) = SumOver(g, up)
    <3>1. IsFiniteSet({k + 1 : k \in S})
      BY <1>8
    <3> HIDE DEF S, g, h, up
    <3>2. SumOver(h, S) = SumOver(g, {k + 1 : k \in S})
      BY <1>5, <1>7, <3>1, SumShifted
    <3> QED BY <3>2 DEF up
  <2>2. LotsOf(new, S) = SumOver(h, S)
    BY <1>5, LotsAreSums
  <2>3. LotsOf(deltas, up) = SumOver(g, up)
    <3> HIDE DEF up
    <3> QED BY <1>8, LotsAreSums
  <2> QED BY <2>1, <2>2, <2>3
<1>11. DeltaLots(new, n) = LotsOf(deltas, up) /\ DeltaLots(new, n) \in Int
  BY <1>3, <1>10, DeltaLotsType DEF DeltaLots
<1> HIDE DEF S, g, h, up
<1>12. CASE deltas[1].seq = n
  <2> DEFINE U == up \cup {1}
  <2>1. /\ U \subseteq DOMAIN deltas
        /\ IsFiniteSet(U)
        /\ 1 \in U
        /\ U \ {1} = up
    BY <1>1, <1>2, <1>8, FS_AddElement
  <2>2. \A k \in U : deltas[k].qty \in Int
    BY <1>1, <2>1
  <2> HIDE DEF U
  <2>3. LotsOf(deltas, U) = LotsOf(deltas, up) + deltas[1].qty
    BY <2>1, <2>2, QuantitySplit
  <2>4. DeltasOf(deltas, n) = U
    BY <1>9, <1>12 DEF U
  <2>5. DeltaLots(deltas, n) = DeltaLots(new, n) + deltas[1].qty
    BY <1>11, <2>3, <2>4 DEF DeltaLots
  <2>6. deltas[1].qty \in Int
    BY <2>1, <2>2
  <2> QED BY <1>2, <1>3, <1>11, <1>12, <2>5, <2>6 DEF new
<1>13. CASE deltas[1].seq # n
  <2>1. DeltaLots(deltas, n) = DeltaLots(new, n)
    BY <1>9, <1>11, <1>13 DEF DeltaLots
  <2> QED BY <1>2, <1>3, <1>11, <1>13, <2>1 DEF new
<1> QED BY <1>12, <1>13

-----------------------------------------------------------------------------
(***************************************************************************)
(* What a handler has to tell.                                             *)
(***************************************************************************)

\* A step of a handler after which the handler has the same to tell.
TellsTheSame ==
  /\ call'.deltas = call.deltas
  /\ call'.event = call.event
  /\ call'.side = call.side
  /\ UNCHANGED <<book, node, order_info>>

LEMMA HandlerMoves ==
  ASSUME Inductive,
         \/ StrategySweep \/ EndSweep \/ QueueFill \/ EndQueue \/ TradeAgainstPaper
         \/ EndPaper \/ EndAdd \/ AcquirePaperNode \/ MirrorNode \/ MatchFill
  PROVE  \/ call' = Idle /\ UNCHANGED <<book, node, order_info>>
         \/ TellsTheSame
<1>1. call \in Handler /\ call.pc \notin {"idle", "l2", "l3"}
  <2>1. call.pc \notin {"idle", "l2", "l3"}
    BY Zenon DEF StrategySweep, EndSweep, QueueFill, EndQueue, TradeAgainstPaper,
       EndPaper, EndAdd, AcquirePaperNode, MirrorNode, MatchFill
  <2> QED BY <2>1, HandlerFacts
<1>2. UNCHANGED <<book, node, order_info>>
  BY Zenon DEF StrategySweep, EndSweep, QueueFill, EndQueue, TradeAgainstPaper,
     EndPaper, EndAdd, AcquirePaperNode, MirrorNode, MatchFill, bookVars, paperVars
<1>3. CASE StrategySweep
  <2>1. PICK p \in NextPrice :
          LET queue == book[call.side][p]
              n     == queue[call.it]
              take  == Lesser(node[n].qty, call.remaining)
              left  == take = call.remaining \/ call.it = Len(queue)
              stack == Pruned(call.heap_copy, call.side)
          IN  call' = [call EXCEPT
                        !.price = p,
                        !.remaining = @ - take,
                        !.it = IF left THEN 1 ELSE @ + 1,
                        !.heap_copy = IF left THEN AllPopped(stack, p) ELSE stack,
                        !.fills = IF take > 0
                                  THEN Append(@, BookFill(n, p, take)) ELSE @]
    BY <1>3, Zenon DEF StrategySweep
  <2> QED BY <1>1, <1>2, <2>1, Zenon DEF TellsTheSame, Handler
<1>4. CASE TradeAgainstPaper
  <2>1. PICK price, remaining, fills :
          call' = [call EXCEPT !.price = price, !.remaining = remaining,
                               !.fills = fills]
    BY <1>4, Zenon DEF TradeAgainstPaper
  <2> QED BY <1>1, <1>2, <2>1 DEF TellsTheSame, Handler
<1>5. CASE QueueFill
  <2>1. PICK lots, consumed, fills :
          call' = [call EXCEPT !.lots = lots, !.consumed = consumed, !.fills = fills]
    BY <1>5, Zenon DEF QueueFill
  <2> QED BY <1>1, <1>2, <2>1 DEF TellsTheSame, Handler
<1>6. CASE EndSweep \/ EndQueue \/ EndPaper \/ EndAdd
  <2>1. call' = Idle \/ \E pc : call' = [call EXCEPT !.pc = pc]
    BY <1>6, Zenon DEF EndSweep, EndQueue, EndPaper, EndAdd
  <2> QED BY <1>1, <1>2, <2>1 DEF TellsTheSame, Handler
<1>7. CASE AcquirePaperNode \/ MirrorNode
  <2>1. \E pc, it : call' = [call EXCEPT !.pc = pc, !.it = it]
    <3>1. CASE AcquirePaperNode
      BY <3>1, Zenon DEF AcquirePaperNode
    <3>2. CASE MirrorNode
      <4>1. call' = [call EXCEPT !.it = @ + 1]
        BY <3>2 DEF MirrorNode
      <4>2. call' = [call EXCEPT !.pc = call.pc, !.it = call.it + 1]
        BY <1>1, <4>1 DEF Handler
      <4> QED BY <4>2
    <3> QED BY <1>7, <3>1, <3>2
  <2> QED BY <1>1, <1>2, <2>1 DEF TellsTheSame, Handler
<1>8. CASE MatchFill
  <2>1. PICK fills : call' = [call EXCEPT !.pc = "reduce", !.fills = fills]
    BY <1>8 DEF MatchFill
  <2> QED BY <1>1, <1>2, <2>1 DEF TellsTheSame, Handler
<1> QED BY <1>3, <1>4, <1>5, <1>6, <1>7, <1>8

\* A historical sweep that ends has told all.
LEMMA SweepEndsTold ==
  ASSUME Inductive, HeapCovers, SweepStays, EndSweep
  PROVE  call.deltas = <<>>
<1> SUFFICES ASSUME call.deltas # <<>> PROVE FALSE
  OBVIOUS
<1>1. call.pc = "sweep" /\ (call.remaining = 0 \/ NextPrice = {})
  BY Zenon DEF EndSweep
<1>2. call.side \in Sides /\ call.price \in Prices /\ call.event.source \in Sources
  BY <1>1, HandlerFacts
<1>3. /\ call.event.source = "HISTORICAL"
      /\ call.remaining > 0
      /\ Live(call.side, call.price)
      /\ Crosses(call.event, call.price)
      /\ \A q \in Prices : Live(call.side, q) => ~Better(call.side, q, call.price)
  BY <1>1 DEF SweepStays
<1>4. heap[call.side][call.price] > 0
  BY <1>2, <1>3 DEF HeapCovers
<1>5. call.price \in NextPrice
  BY <1>2, <1>3, <1>4 DEF NextPrice, BestPrice
<1> QED BY <1>1, <1>3, <1>5

\* Unless the sweep is done with the level, its next step is at the same level.
LEMMA SweepAtLevel ==
  ASSUME Inductive, HeapCovers, SweepStays, call.pc = "sweep", call.deltas # <<>>,
         NEW p \in NextPrice
  PROVE  p = call.price
<1>2. call.side \in Sides /\ call.price \in Prices
  BY HandlerFacts
<1>3. /\ call.event.source = "HISTORICAL"
      /\ Live(call.side, call.price)
      /\ \A q \in Prices : Live(call.side, q) => ~Better(call.side, q, call.price)
  BY DEF SweepStays
<1>4. heap[call.side][call.price] > 0
  BY <1>2, <1>3 DEF HeapCovers
<1>5. p \in Prices /\ Live(call.side, p) /\ ~Better(call.side, call.price, p)
  BY <1>2, <1>3, <1>4 DEF NextPrice, BestPrice
<1> QED BY <1>2, <1>3, <1>5, BetterOrders

\* It stops at a level that no other level is better than.
LEMMA SweepAtBest ==
  ASSUME Inductive, HeapCovers, HistoricalSweep, NEW p \in NextPrice
  PROVE  /\ p \in Prices
         /\ Live(call.side, p)
         /\ Crosses(call.event, p)
         /\ \A q \in Prices : Live(call.side, q) => ~Better(call.side, q, p)
<1>1. call.pc = "sweep" /\ call.event.source = "HISTORICAL"
  BY Zenon DEF HistoricalSweep
<1>2. call.side \in Sides
  BY <1>1, HandlerFacts
<1> QED BY <1>1, <1>2 DEF NextPrice, BestPrice, HeapCovers

\* A level from which a node is unlinked that was not its last has others.
LEMMA StillLive ==
  ASSUME BookInvariant, BookInvariant', NEW side \in Sides, NEW p \in Prices, NEW n,
         NodeTaken(side, p, n), Len(QueueAt(side, p)) # 1
  PROVE  Live(side, p)'
<1>1. PICK q : q = QueueAt(side, p)
  OBVIOUS
<1>2. /\ q \in Seq(Nat)
      /\ IsInjective(q)
      /\ n \in ToSet(q)
      /\ Len(q) \in Nat
      /\ DOMAIN q = 1 .. Len(q)
  BY <1>1, QueueAtFacts, IncreasingIsInjective DEF NodeTaken
<1>3. Len(Unlinked(q, n)) = Len(q) - 1
  BY <1>2, UnlinkedProperties
<1>4. Len(q) - 1 # 0
  BY <1>1, <1>2
<1>5. QueueAt(side, p)' # <<>>
  BY <1>1, <1>3, <1>4 DEF NodeTaken
<1> QED BY <1>5 DEF QueueAt, Live

\* No level gets orders.
LEMMA NotLiveStays ==
  ASSUME NEW side \in Sides, NEW p \in Prices, QueueAt(side, p)' = QueueAt(side, p)
  PROVE  Live(side, p)' <=> Live(side, p)
BY DEF QueueAt, Live

\* The steps between two lots of a trade with paper orders, and after them.
LEMMA TradeMoves ==
  ASSUME Inductive, QueueFill \/ EndQueue \/ MatchFill
  PROVE  /\ TellsTheSame
         /\ call'.price = call.price
         /\ call.pc \in {"queue", "settle"}
         /\ call'.pc \in {"queue", "settle", "reduce"}
         /\ MatchFill => call.deltas = <<>>
         /\ call'.pc = "reduce" => MatchFill
<1>1. call.pc \in {"queue", "settle"}
  BY Zenon DEF QueueFill, EndQueue, MatchFill
<1>2. call \in Handler
  BY <1>1, HandlerFacts
<1>3. UNCHANGED <<book, node, order_info>>
  BY Zenon DEF QueueFill, EndQueue, MatchFill, bookVars, paperVars
<1>4. CASE QueueFill
  <2>1. PICK lots, consumed, fills :
          call' = [call EXCEPT !.lots = lots, !.consumed = consumed, !.fills = fills]
    BY <1>4, Zenon DEF QueueFill
  <2>2. call.pc = "queue" /\ ~(MatchFill /\ call.deltas # <<>>)
    BY <1>4 DEF QueueFill, MatchFill
  <2> QED BY <1>2, <1>3, <2>1, <2>2 DEF TellsTheSame, Handler
<1>5. CASE EndQueue
  <2>1. call.pc = "queue" /\ call' = [call EXCEPT !.pc = "settle"]
    BY <1>5 DEF EndQueue
  <2>2. ~(MatchFill /\ call.deltas # <<>>)
    BY DEF MatchFill
  <2> QED BY <1>2, <1>3, <2>1, <2>2 DEF TellsTheSame, Handler
<1>6. CASE MatchFill
  <2>1. PICK fills : call' = [call EXCEPT !.pc = "reduce", !.fills = fills]
    BY <1>6 DEF MatchFill
  <2>2. call.pc = "settle" /\ call.deltas = <<>>
    BY <1>6 DEF MatchFill
  <2> QED BY <1>2, <1>3, <1>6, <2>1, <2>2 DEF TellsTheSame, Handler
<1> QED BY <1>4, <1>5, <1>6

\* A MATCH comes to the level where its order rests, and brings its news.
LEMMA MatchComes ==
  ASSUME Inductive, NEW e \in Event, OnMatch(e)
  PROVE  /\ call = Idle
         /\ call'.event = e
         /\ e.type = "MATCH"
         /\ e.id \in DOMAIN order_info
         /\ Taken(e) \in Nat
         /\ call'.side = Side(e.id)
         /\ call'.price = Price(e.id)
         /\ call'.pc = IF Taken(e) > 0 THEN "queue" ELSE "settle"
         /\ call'.lots = Taken(e)
         /\ call'.consumed = 0
         /\ call'.fills = <<>>
         /\ call'.deltas = IF Taken(e) > 0
                             THEN <<[seq |-> NodeOf(e.id), qty |-> Taken(e)]>> ELSE <<>>
         /\ UNCHANGED <<book, node, order_info, paper, paper_orders, paper_order_info,
                        order_arrival_seq>>
<1>1. /\ call = Idle
      /\ e.type = "MATCH"
      /\ e.id \in DOMAIN order_info
      /\ e.qty > 0
      /\ UNCHANGED <<bookVars, order_arrival_seq, paperVars>>
  BY DEF OnMatch, Accepts, Rejected, MatchRejected, Event
<1>2. Taken(e) \in Nat
  <2>1. e.qty \in Int
    BY DEF Event
  <2> QED BY <1>1, <2>1, TakenFacts
<1>3. call' = [NewCall(IF Taken(e) > 0 THEN "queue" ELSE "settle", e,
                       Side(e.id), Price(e.id)) EXCEPT
                 !.lots = Taken(e),
                 !.deltas = IF Taken(e) > 0
                   THEN <<[seq |-> NodeOf(e.id), qty |-> Taken(e)]>>
                   ELSE <<>>]
  BY Zenon DEF OnMatch
<1> QED BY <1>1, <1>2, <1>3 DEF NewCall, bookVars, paperVars

\* One news is told.
LEMMA SettleTells ==
  ASSUME Inductive, Settle
  PROVE  /\ call.pc = "settle"
         /\ call'.pc = "settle"
         /\ call.deltas # <<>>
         /\ call'.deltas = Tail(call.deltas)
         /\ call'.event = call.event
         /\ call'.side = call.side
         /\ call'.price = call.price
         /\ paper' = PaperMarketAdjusted(call.side, call.price, Head(call.deltas).seq,
                                         -Head(call.deltas).qty)
         /\ UNCHANGED <<book, node, order_info, order_arrival_seq>>
<1>1. /\ call.pc = "settle"
      /\ call.deltas # <<>>
      /\ call' = [call EXCEPT !.deltas = Tail(@)]
      /\ paper' = PaperMarketAdjusted(call.side, call.price, Head(call.deltas).seq,
                                      -Head(call.deltas).qty)
      /\ UNCHANGED <<bookVars, order_arrival_seq>>
  BY DEF Settle
<1>2. call \in Handler
  BY <1>1, HandlerFacts
<1> QED BY <1>1, <1>2 DEF Handler, bookVars

\* A historical sweep that goes on at a level.
LEMMA SweepGoesOn ==
  ASSUME Inductive, Inductive', HeapCovers, SweepStays, HistoricalSweep
  PROVE  SweepStays'
<1> SUFFICES ASSUME call'.pc = "sweep", call'.deltas # <<>>
             PROVE  /\ call'.event.source = "HISTORICAL"
                    /\ call'.lots > 0
                    /\ call'.remaining > 0
                    /\ Live(call.side, call.price)'
                    /\ Crosses(call.event, call.price)'
                    /\ \A q \in Prices : Live(call.side, q)' =>
                                           ~Better(call.side, q, call.price)'
  BY Zenon DEF SweepStays
<1>1. call.pc = "sweep" /\ call.event.source = "HISTORICAL" /\ call.remaining > 0
  BY Zenon DEF HistoricalSweep
<1>2. /\ call.remaining \in Nat
      /\ call.lots \in Nat
      /\ call.side \in Sides
  BY <1>1, HandlerFacts
<1>3. PICK side \in Sides, p \in NextPrice, n \in DOMAIN node, take \in Nat :
           /\ side = call.side
           /\ Live(side, p)
           /\ n = Head(QueueAt(side, p))
           /\ take = Lesser(node[n].qty, call.remaining)
           /\ take <= call.remaining
           /\ node[n].qty \in Nat
           /\ n \in ToSet(QueueAt(side, p))
           /\ call'.pc = "queue" <=>
                /\ \/ take = call.remaining
                   \/ take = node[n].qty /\ Len(QueueAt(side, p)) = 1
                /\ call.lots + take > 0
           /\ call'.price = p
           /\ call'.lots = call.lots + take
           /\ call'.consumed = call.consumed
           /\ call'.deltas = IF take > 0 THEN Append(call.deltas, [seq |-> n, qty |-> take])
                                         ELSE call.deltas
           /\ call'.event = call.event
           /\ call'.side = call.side
           /\ call'.remaining = call.remaining - take
           /\ call'.pc \in {"sweep", "queue"}
           /\ call'.fills = IF take > 0 THEN Append(call.fills, BookFill(n, p, take))
                                        ELSE call.fills
           /\ take = node[n].qty => NodeTaken(side, p, n)
           /\ take # node[n].qty => NodeRestocked(n, node[n].qty - take)
  BY SweepDetail
<1>4. call'.lots > 0
  <2>1. CASE take > 0
    BY <1>2, <1>3, <2>1
  <2>2. CASE take = 0
    <3>1. call.deltas # <<>>
      BY <1>3, <2>2
    <3> QED BY <1>1, <1>2, <1>3, <3>1 DEF SweepStays
  <2> QED BY <1>3, <2>1, <2>2
<1>5. /\ take # call.remaining
      /\ ~(take = node[n].qty /\ Len(QueueAt(side, p)) = 1)
  BY <1>3, <1>4
<1>6. p \in Prices /\ Crosses(call.event, p)
      /\ \A q \in Prices : Live(call.side, q) => ~Better(call.side, q, p)
  BY <1>3, SweepAtBest
<1>7. Live(side, p)'
  <2>1. CASE take = node[n].qty
    BY <1>3, <1>5, <1>6, <2>1, StillLive DEF Inductive
  <2>2. CASE take # node[n].qty
    <3>1. QueueAt(side, p)' = QueueAt(side, p)
      BY <1>3, <1>6, <2>2 DEF NodeRestocked, QueuesStay
    <3> QED BY <1>3, <1>6, <3>1, NotLiveStays
  <2> QED BY <2>1, <2>2
<1>8. ASSUME NEW q \in Prices, Live(side, q)'
      PROVE  ~Better(side, q, p)
  <2>1. CASE q = p
    BY <1>6, <1>3, <2>1
  <2>2. CASE q # p
    <3>1. QueueAt(side, q)' = QueueAt(side, q)
      BY <1>3, <2>2 DEF NodeTaken, NodeRestocked, QueuesStay
    <3> QED BY <1>3, <1>6, <1>8, <3>1, NotLiveStays
  <2> QED BY <2>1, <2>2
<1>9. call'.side = side /\ call'.price = p /\ call'.event = call.event
  BY <1>3
<1>10. Live(call.side, call.price)'
  BY <1>7, <1>9 DEF Live
<1>11. \A q \in Prices : Live(call.side, q)' => ~Better(call.side, q, call.price)'
  BY <1>8, <1>9 DEF Live, Better
<1>12. Crosses(call.event, call.price)'
  BY <1>6, <1>9 DEF Crosses, Better, Opposite
<1> QED BY <1>1, <1>2, <1>3, <1>4, <1>5, <1>9, <1>10, <1>11, <1>12

LEMMA ToldStays ==
  ASSUME Inductive, ToldInTime, SweepStays, TellsTheSame,
         call.pc \notin {"idle", "l2", "l3"},
         call.deltas = <<>> \/ call'.pc \in {"queue", "settle"},
         call.event.type = "MATCH" => call'.price = call.price
  PROVE  SweepStays' /\ ToldInTime'
<1>1. /\ call'.deltas = call.deltas
      /\ call'.event = call.event
      /\ call'.side = call.side
      /\ UNCHANGED order_info
  BY DEF TellsTheSame
<1>2. SweepStays'
  BY <1>1 DEF SweepStays
<1>3. call.event.type = "MATCH" =>
        /\ call'.side = Side(call.event.id)'
        /\ call'.price = Price(call.event.id)'
  BY <1>1 DEF ToldInTime, Handling, Side, Price
<1> QED BY <1>1, <1>2, <1>3 DEF ToldInTime, Handling, Side, Price

LEMMA NothingTold ==
  ASSUME call'.pc \in {"idle", "l2", "l3"} \/
           (call'.deltas = <<>> /\ call'.event.type # "MATCH")
  PROVE  SweepStays' /\ ToldInTime'
BY DEF SweepStays, ToldInTime, Handling

LEMMA DeltasStep ==
  ASSUME Inductive, Inductive', HeapCovers, SweepStays, ToldInTime, [Next]_vars
  PROVE  SweepStays' /\ ToldInTime'
<1>1. Idle.pc = "idle"
  BY DEF Idle
<1>2. ASSUME UNCHANGED <<call, order_info, book>>
      PROVE  SweepStays' /\ ToldInTime'
  BY <1>2 DEF SweepStays, ToldInTime, Handling, Live, Side, Price
<1>3. ASSUME NEW e \in Events, update(e) PROVE SweepStays' /\ ToldInTime'
  <2>1. CASE OnAdd(e) \/ OnAggressiveTrade(e)
    <3>1. e.type # "MATCH"
      BY <2>1 DEF OnAdd, OnAggressiveTrade, Accepts
    <3>2. call'.event = e /\ call'.deltas = <<>>
      <4>1. CASE OnAdd(e)
        BY <4>1 DEF OnAdd, NewCall
      <4>2. CASE OnAggressiveTrade(e)
        BY <4>2 DEF OnAggressiveTrade, NewCall
      <4> QED BY <2>1, <4>1, <4>2
    <3> QED BY <3>1, <3>2, NothingTold
  <2>2. CASE OnMatch(e)
    <3>1. /\ call'.event = e
          /\ call'.side = Side(e.id)
          /\ call'.price = Price(e.id)
          /\ call'.pc \in {"queue", "settle"}
          /\ UNCHANGED order_info
      <4>1. e \in Event
        BY EventsAssumption
      <4> QED BY <2>2, <4>1, MatchComes
    <3> QED BY <3>1 DEF SweepStays, ToldInTime, Handling, Side, Price
  <2>3. CASE Reject(e)
    BY <1>2, <2>3 DEF Reject, vars, bookVars
  <2>4. CASE OnDelete(e) \/ OnSubtract(e) \/ OnSet(e)
    <3>1. call' = Idle
      BY <2>4 DEF OnDelete, OnSubtract, OnSet, Accepts, SetHistorical
    <3> QED BY <1>1, <3>1, NothingTold
  <2> QED BY <1>3, <2>1, <2>2, <2>3, <2>4 DEF update
<1>4. ASSUME NEW rows, InitFromL2Snapshot(rows) \/ InitFromL3Snapshot(rows)
      PROVE  SweepStays' /\ ToldInTime'
  <2>1. call'.pc \in {"l2", "l3"}
    BY <1>4 DEF InitFromL2Snapshot, InitFromL3Snapshot
  <2> QED BY <2>1, NothingTold
<1>5. ASSUME NEW side \in Sides, GetBestPriceTicks(side)
      PROVE  SweepStays' /\ ToldInTime'
  BY <1>2, <1>5 DEF GetBestPriceTicks
<1>6. ASSUME Continue PROVE SweepStays' /\ ToldInTime'
  <2>1. CASE StrategySweep \/ EndSweep
    <3>1. call.pc = "sweep"
      BY <2>1, Zenon DEF StrategySweep, EndSweep
    <3>2. call.event.type # "MATCH"
      BY <3>1, HandlerFacts DEF HandlerState
    <3>3. call.deltas = <<>>
      <4>1. CASE StrategySweep
        <5>1. call.event.source = "STRATEGY"
          BY <4>1, Zenon DEF StrategySweep
        <5> QED BY <3>1, <5>1 DEF SweepStays
      <4> QED BY <2>1, <4>1, SweepEndsTold
    <3>4. TellsTheSame \/ call' = Idle
      BY <2>1, HandlerMoves
    <3> QED BY <1>1, <3>1, <3>2, <3>3, <3>4, ToldStays, NothingTold
  <2>2. CASE HistoricalSweep
    <3>1. SweepStays'
      BY <2>2, SweepGoesOn
    <3>2. call'.pc \in {"sweep", "queue"} /\ call'.event = call.event
      BY <2>2, SweepKind
    <3>3. call.event.type # "MATCH"
      <4>1. call.pc = "sweep"
        BY <2>2, Zenon DEF HistoricalSweep
      <4> QED BY <4>1, HandlerFacts DEF HandlerState
    <3> QED BY <3>1, <3>2, <3>3 DEF ToldInTime, Handling
  <2>3. CASE QueueFill \/ EndQueue \/ MatchFill
    <3>1. call.pc \notin {"idle", "l2", "l3"}
      BY <2>3, TradeMoves
    <3> QED BY <2>3, <3>1, TradeMoves, ToldStays
  <2>4. CASE Settle
    <3>1. /\ call.pc = "settle"
          /\ call'.pc = "settle"
          /\ call'.event = call.event
          /\ call'.side = call.side
          /\ call'.price = call.price
          /\ UNCHANGED order_info
      BY <2>4, SettleTells
    <3> QED BY <3>1 DEF SweepStays, ToldInTime, Handling, Side, Price
  <2>5. CASE EndLevel
    <3>1. /\ call.pc = "settle"
          /\ call.deltas = <<>>
          /\ call.event.type = "ADD"
          /\ call' = [call EXCEPT !.pc = "sweep", !.lots = 0, !.consumed = 0]
      BY <2>5 DEF EndLevel
    <3>2. call \in Handler
      BY <3>1, HandlerFacts
    <3>3. call'.deltas = <<>> /\ call'.event.type # "MATCH"
      BY <3>1, <3>2 DEF Handler
    <3> QED BY <3>3, NothingTold
  <2>6. CASE TradeAgainstPaper \/ EndPaper \/ EndAdd \/ AcquirePaperNode \/ MirrorNode
    <3>1. call.pc \in {"paper", "rest", "mirror"}
      BY <2>6, Zenon DEF TradeAgainstPaper, EndPaper, EndAdd, AcquirePaperNode, MirrorNode
    <3>2. call.deltas = <<>>
      BY <3>1 DEF ToldInTime, Handling
    <3>3. call.event.type # "MATCH"
      BY <3>1, HandlerFacts DEF HandlerState
    <3>4. TellsTheSame \/ call' = Idle
      BY <2>6, HandlerMoves
    <3> QED BY <1>1, <3>1, <3>2, <3>3, <3>4, ToldStays, NothingTold
  <2>7. CASE RestHistorical \/ RestStrategy \/ EndMatch \/ EndSnapshot
    <3>1. call' = Idle
      BY <2>7 DEF RestHistorical, RestStrategy, EndMatch, EndSnapshot
    <3> QED BY <1>1, <3>1, NothingTold
  <2>8. CASE L2Row \/ L3Row
    <3>1. call.pc \in {"l2", "l3"} /\ call \in Load
      BY <2>8, CallKinds DEF L2Row, L3Row
    <3>2. call'.pc \in {"idle", "l2", "l3"}
      <4>1. call' = Idle \/ NextRow
        BY <2>8 DEF L2Row, L3Row
      <4>2. NextRow => call'.pc = call.pc
        BY <3>1 DEF NextRow, Load
      <4> QED BY <1>1, <3>1, <4>1, <4>2
    <3> QED BY <3>2, NothingTold
  <2> QED BY <1>6, <2>1, <2>2, <2>3, <2>4, <2>5, <2>6, <2>7, <2>8 DEF Continue
<1>7. CASE UNCHANGED vars
  BY <1>2, <1>7 DEF vars, bookVars
<1> QED BY <1>3, <1>4, <1>5, <1>6, <1>7 DEF Next

-----------------------------------------------------------------------------
(***************************************************************************)
(* What a step does to what levels know of the market: nothing; a level    *)
(* is told of a difference; it learns of a node; levels without knowledge  *)
(* come.                                                                   *)
(***************************************************************************)
MarketTold(side, p, n, delta) ==
  paper' = PaperMarketAdjusted(side, p, n, delta)

MarketJoined(side, p, n, qty) ==
  /\ p \in DOMAIN paper[side]
  /\ p \in DOMAIN paper'[side]
  /\ paper'[side][p].market_seqs = Append(paper[side][p].market_seqs, n)
  /\ paper'[side][p].market_qty = Push(paper[side][p].market_qty, qty)
  /\ \A s \in Sides : \A q \in DOMAIN paper'[s] :
       s # side \/ q # p => q \in DOMAIN paper[s] /\ paper'[s][q] = paper[s][q]

LevelsCome ==
  \A side \in Sides : \A p \in DOMAIN paper'[side] :
    \/ p \in DOMAIN paper[side] /\ paper'[side][p] = paper[side][p]
    \/ paper'[side][p] = NewPaperLevel

LEMMA RestJoins ==
  ASSUME Inductive, RestHistorical
  PROVE  \E side \in Sides, p \in Prices, qty \in Nat : \E id :
           /\ NodeJoined(side, p, id, qty)
           /\ \/ MarketJoined(side, p, order_arrival_seq, qty)
              \/ p \notin DOMAIN paper[side] /\ MarketStays
           /\ call.pc = "rest"
           /\ call' = Idle
<1>1. /\ call.pc = "rest"
      /\ call.event.side \in Sides
      /\ call.event.price \in Prices
      /\ call.remaining \in Nat
  BY HandlerFacts DEF RestHistorical
<1>2. PICK side \in Sides, p \in Prices, qty \in Nat :
        /\ side = call.event.side
        /\ p = call.event.price
        /\ qty = call.remaining
  BY <1>1
<1>3. /\ AppendNode(side, p, call.event.id, qty)
      /\ call' = Idle
      /\ paper' = IF p \in DOMAIN paper[side]
                    THEN [paper EXCEPT ![side][p] = WithMarket(@, order_arrival_seq, qty)]
                    ELSE paper
  BY <1>2 DEF RestHistorical, HasPaperLevel
<1>4. NodeJoined(side, p, call.event.id, qty)
  BY <1>3, AppendKind DEF Inductive
<1>5. CASE p \in DOMAIN paper[side]
  <2>1. DOMAIN paper = Sides /\ paper[side][p] \in PaperOrderLevel
    BY <1>5, LevelFacts DEF Inductive, PaperInvariant, PaperTypes
  <2>2. /\ \A s \in Sides : s # side => paper'[s] = paper[s]
        /\ paper'[side] = [paper[side] EXCEPT ![p] =
                             WithMarket(@, order_arrival_seq, qty)]
    BY <1>3, <1>5, <2>1
  <2>3. paper'[side][p] = WithMarket(paper[side][p], order_arrival_seq, qty)
    BY <1>5, <2>2
  <2>4. /\ paper'[side][p].market_seqs =
             Append(paper[side][p].market_seqs, order_arrival_seq)
        /\ paper'[side][p].market_qty = Push(paper[side][p].market_qty, qty)
    BY <2>1, <2>3 DEF WithMarket, PaperOrderLevel
  <2>5. MarketJoined(side, p, order_arrival_seq, qty)
    BY <1>5, <2>2, <2>4 DEF MarketJoined
  <2> QED BY <1>1, <1>3, <1>4, <2>5
<1>6. CASE p \notin DOMAIN paper[side]
  BY <1>1, <1>3, <1>4, <1>6 DEF MarketStays
<1> QED BY <1>5, <1>6

LEMMA MirrorJoins ==
  ASSUME Inductive, MirrorNode
  PROVE  \E side \in Sides, p \in Prices, n \in DOMAIN node :
           /\ n \in ToSet(QueueAt(side, p))
           /\ MarketJoined(side, p, n, node[n].qty)
<1>1. /\ call.pc = "mirror"
      /\ call \in Handler
      /\ call.it \in Nat \ {0}
      /\ call.event.side \in Sides
      /\ call.event.price \in DOMAIN paper[call.event.side]
  BY HandlerFacts DEF MirrorNode, HandlerState, HasPaperLevel
<1>2. PICK side, p :
        /\ side \in Sides
        /\ side = call.event.side
        /\ p = call.event.price
        /\ p \in DOMAIN paper[side]
  BY <1>1
<1> side \in Sides
  BY <1>2
<1>3. OwnQueue = QueueAt(side, p)
  BY <1>2 DEF OwnQueue, QueueAt
<1>4. PICK n : n = QueueAt(side, p)[call.it]
  OBVIOUS
<1>5. /\ call.it <= Len(QueueAt(side, p))
      /\ paper' = [paper EXCEPT ![side][p] = WithMarket(@, n, node[n].qty)]
  BY <1>2, <1>3, <1>4 DEF MirrorNode, Mirroring
<1>6. n \in ToSet(QueueAt(side, p)) /\ n \in DOMAIN node
  BY <1>1, <1>4, <1>5, QueueAtFacts DEF Inductive
<1>7. DOMAIN paper = Sides /\ paper[side][p] \in PaperOrderLevel /\ p \in Prices
  BY <1>2, LevelFacts DEF Inductive, PaperInvariant, PaperTypes
<1>8. /\ \A s \in Sides : s # side => paper'[s] = paper[s]
      /\ paper'[side] = [paper[side] EXCEPT ![p] = WithMarket(@, n, node[n].qty)]
  BY <1>5, <1>7
<1>9. paper'[side][p] = WithMarket(paper[side][p], n, node[n].qty)
  BY <1>2, <1>8
<1>10. /\ paper'[side][p].market_seqs = Append(paper[side][p].market_seqs, n)
       /\ paper'[side][p].market_qty = Push(paper[side][p].market_qty, node[n].qty)
  BY <1>7, <1>9 DEF WithMarket, PaperOrderLevel
<1>11. MarketJoined(side, p, n, node[n].qty)
  BY <1>2, <1>8, <1>10 DEF MarketJoined
<1> QED BY <1>6, <1>7, <1>11

LEMMA AcquireBringsLevel ==
  ASSUME Inductive, AcquirePaperNode
  PROVE  LevelsCome
<1>1. call.pc = "rest" /\ call.event.side \in Sides
  BY HandlerFacts DEF AcquirePaperNode
<1>2. PICK side, p :
        /\ side \in Sides
        /\ side = call.event.side
        /\ p = call.event.price
  BY <1>1
<1> side \in Sides
  BY <1>2
<1>3. paper' = IF p \in DOMAIN paper[side] THEN paper
               ELSE [paper EXCEPT ![side] = Put(@, p, NewPaperLevel)]
  BY <1>2 DEF AcquirePaperNode, HasPaperLevel
<1>4. DOMAIN paper = Sides
  BY DEF Inductive, PaperInvariant, PaperTypes
<1> QED BY <1>3, <1>4 DEF LevelsCome, Put

LEMMA JoiningTeachesNothing ==
  ASSUME Inductive, RestStrategy
  PROVE  MarketStays
<1>1. /\ call.pc = "mirror"
      /\ call.event.side \in Sides
      /\ call.event.price \in DOMAIN paper[call.event.side]
  BY HandlerFacts DEF RestStrategy, HandlerState, HasPaperLevel
<1>2. PICK side, p :
        /\ side \in Sides
        /\ side = call.event.side
        /\ p = call.event.price
        /\ p \in DOMAIN paper[side]
  BY <1>1
<1>3. paper' = [paper EXCEPT ![side][p] =
                  Joined(paper[side][p], call.event.id, call.remaining)]
  BY <1>2 DEF RestStrategy
<1>4. DOMAIN paper = Sides /\ paper[side][p] \in PaperOrderLevel
  BY <1>2, LevelFacts DEF Inductive, PaperInvariant, PaperTypes
<1>5. /\ \A s \in Sides : s # side => paper'[s] = paper[s]
      /\ paper'[side] = [paper[side] EXCEPT ![p] =
                           Joined(paper[side][p], call.event.id, call.remaining)]
  BY <1>2, <1>3, <1>4
<1>6. paper'[side][p] = Joined(paper[side][p], call.event.id, call.remaining)
  BY <1>2, <1>5
<1>7. /\ paper'[side][p].market_seqs = paper[side][p].market_seqs
      /\ paper'[side][p].market_qty = paper[side][p].market_qty
  BY <1>4, <1>6 DEF Joined, PaperOrderLevel
<1> QED BY <1>2, <1>5, <1>7 DEF MarketStays

LEMMA FillTeachesNothing ==
  ASSUME Inductive, QueueFill \/ TradeAgainstPaper
  PROVE  MarketStays
<1>1. call.pc \in {"queue", "paper"}
  BY Zenon DEF QueueFill, TradeAgainstPaper
<1>2. call.side \in Sides
  BY <1>1, HandlerFacts
<1>3. PICK p, qty, told, status :
        /\ p \in DOMAIN paper[call.side]
        /\ LeavePaperOrder(Head(paper[call.side][p].orders), qty, told, status)
  <2>1. CASE QueueFill
    BY <2>1 DEF QueueFill, QueueLevel, Reached, HasPaperLevel, TakeFromPaperOrder
  <2>2. CASE TradeAgainstPaper
    BY <2>2, Zenon DEF TradeAgainstPaper, BestPaperPrice, FillPaperOrder
  <2> QED BY <2>1, <2>2
<1>4. paper[call.side][p].orders # <<>>
  BY <1>1, <1>2, <1>3, LevelsHaveOrders
<1>5. Head(paper[call.side][p].orders) \in DOMAIN paper_orders
  BY <1>2, <1>3, <1>4, LevelFacts DEF Inductive
<1> QED BY <1>3, <1>5, OrderTakenTeachesNothing DEF Inductive

(***************************************************************************)
(* Nodes that levels know are queued.                                      *)
(***************************************************************************)

\* A node that leaves a queue leaves the book.
NodesLeave ==
  /\ DOMAIN node' \subseteq DOMAIN node
  /\ \A side \in Sides, p \in Prices : \A n \in ToSet(QueueAt(side, p)) :
       n \in DOMAIN node' => n \in ToSet(QueueAt(side, p)')

LEMMA StayingNodesLeave ==
  ASSUME NodesStay \/ \E n, qty : NodeRestocked(n, qty)
  PROVE  NodesLeave
BY DEF NodesLeave, NodesStay, NodeRestocked, QueuesStay

LEMMA TakenNodeLeaves ==
  ASSUME BookInvariant, NEW side \in Sides, NEW p \in Prices, NEW n,
         NodeTaken(side, p, n)
  PROVE  NodesLeave
<1>1. PICK q : q = QueueAt(side, p)
  OBVIOUS
<1>2. q \in Seq(Nat) /\ IsInjective(q) /\ n \in ToSet(q)
  BY <1>1, QueueAtFacts, IncreasingIsInjective DEF NodeTaken
<1>3. ToSet(Unlinked(q, n)) = ToSet(q) \ {n}
  BY <1>2, UnlinkedProperties
<1>4. DOMAIN node' = DOMAIN node \ {n}
  BY DEF NodeTaken, Erased, Restrict
<1>5. \A m \in ToSet(QueueAt(side, p)) :
        m \in DOMAIN node' => m \in ToSet(QueueAt(side, p)')
  BY <1>1, <1>3, <1>4 DEF NodeTaken
<1> QED BY <1>4, <1>5 DEF NodeTaken, NodesLeave

LEMMA RequantifiedLeaves ==
  ASSUME BookInvariant, NEW id \in DOMAIN order_info, NEW qty \in Int,
         Requantify(id, qty)
  PROVE  NodesLeave
<1>1. PICK side \in Sides, p \in Prices, n \in ToSet(QueueAt(Side(id), Price(id))) :
           /\ side = Side(id) /\ p = Price(id) /\ n = NodeOf(id)
           /\ qty > 0 => NodeRestocked(n, qty)
           /\ qty <= 0 => NodeTaken(side, p, n)
  BY RequantifyKind
<1>2. qty > 0 \/ qty <= 0
  OBVIOUS
<1> QED BY <1>1, <1>2, StayingNodesLeave, TakenNodeLeaves

LEMMA SweptNodeLeaves ==
  ASSUME Inductive, HistoricalSweep
  PROVE  NodesLeave
<1>1. PICK side \in Sides, p \in NextPrice, n \in DOMAIN node, take \in Nat :
        /\ take = node[n].qty => NodeTaken(side, p, n)
        /\ take # node[n].qty => NodeRestocked(n, node[n].qty - take)
  BY SweepKind
<1>2. p \in Prices
  BY DEF NextPrice, BestPrice
<1>3. CASE take = node[n].qty
  BY <1>1, <1>2, <1>3, TakenNodeLeaves DEF Inductive
<1>4. CASE take # node[n].qty
  BY <1>1, <1>4, StayingNodesLeave
<1> QED BY <1>3, <1>4

\* Levels know what they knew.
SeqsStay ==
  \A side \in Sides : \A p \in DOMAIN paper'[side] :
    /\ p \in DOMAIN paper[side]
    /\ paper'[side][p].market_seqs = paper[side][p].market_seqs

LEMMA KnownKept ==
  ASSUME Inductive, KnownAreQueued, NodesLeave,
         SeqsStay \/ MarketStays \/ NothingLearnt \/ UNCHANGED paper
  PROVE  KnownAreQueued'
<1>1. SeqsStay
  BY DEF SeqsStay, MarketStays, NothingLearnt
<1> SUFFICES ASSUME NEW side \in Sides, NEW p \in DOMAIN paper'[side],
                    NEW n \in ToSet(paper'[side][p].market_seqs), n \in DOMAIN node'
             PROVE  n \in ToSet(QueueAt(side, p)')
  BY DEF KnownAreQueued
<1>2. p \in DOMAIN paper[side] /\ n \in ToSet(paper[side][p].market_seqs)
  BY <1>1 DEF SeqsStay
<1>3. p \in Prices
  BY <1>2, LevelFacts DEF Inductive
<1>4. n \in DOMAIN node
  BY DEF NodesLeave
<1>5. n \in ToSet(QueueAt(side, p))
  BY <1>2, <1>4 DEF KnownAreQueued
<1> QED BY <1>3, <1>5 DEF NodesLeave

LEMMA KnownOnRest ==
  ASSUME Inductive, MarketKnown, KnownAreQueued, RestHistorical
  PROVE  KnownAreQueued'
<1>1. PICK side \in Sides, p \in Prices, qty \in Nat : \E id :
           /\ NodeJoined(side, p, id, qty)
           /\ \/ MarketJoined(side, p, order_arrival_seq, qty)
              \/ p \notin DOMAIN paper[side] /\ MarketStays
           /\ call.pc = "rest"
           /\ call' = Idle
  BY RestJoins
<1>2. /\ DOMAIN node' = DOMAIN node \cup {order_arrival_seq}
      /\ QueueAt(side, p)' = Append(QueueAt(side, p), order_arrival_seq)
      /\ \A s \in Sides, q \in Prices :
           s # side \/ q # p => QueueAt(s, q)' = QueueAt(s, q)
  BY <1>1 DEF NodeJoined, Put
<1>3. order_arrival_seq \in Nat
  BY DEF Inductive, BookInvariant, BookTypes
<1>4. ToSet(Append(QueueAt(side, p), order_arrival_seq)) =
        ToSet(QueueAt(side, p)) \cup {order_arrival_seq}
  BY <1>3, QueueAtFacts, PushedBackProperties DEF Inductive
<1> SUFFICES ASSUME NEW s \in Sides, NEW q \in DOMAIN paper'[s],
                    NEW n \in ToSet(paper'[s][q].market_seqs), n \in DOMAIN node'
             PROVE  n \in ToSet(QueueAt(s, q)')
  BY DEF KnownAreQueued
<1>5. \/ /\ q \in DOMAIN paper[s]
         /\ n \in ToSet(paper[s][q].market_seqs)
      \/ s = side /\ q = p /\ n = order_arrival_seq
  <2>1. CASE MarketStays
    BY <2>1 DEF MarketStays
  <2>2. CASE MarketJoined(side, p, order_arrival_seq, qty)
    <3>1. CASE s = side /\ q = p
      <4>1. p \in DOMAIN paper[side]
        BY <2>2 DEF MarketJoined
      <4>2. paper[side][p].market_seqs \in Seq(Nat)
        BY <4>1, LevelFacts DEF Inductive
      <4>3. n \in ToSet(Append(paper[side][p].market_seqs, order_arrival_seq))
        BY <2>2, <3>1 DEF MarketJoined
      <4>4. n \in ToSet(paper[side][p].market_seqs) \cup {order_arrival_seq}
        BY <1>3, <4>2, <4>3, PushedBackProperties
      <4> QED BY <3>1, <4>1, <4>4
    <3>2. CASE s # side \/ q # p
      BY <2>2, <3>2 DEF MarketJoined
    <3> QED BY <3>1, <3>2
  <2> QED BY <1>1, <2>1, <2>2
<1>6. CASE s = side /\ q = p /\ n = order_arrival_seq
  BY <1>2, <1>4, <1>6
<1>7. CASE q \in DOMAIN paper[s] /\ n \in ToSet(paper[s][q].market_seqs)
  <2>1. n < order_arrival_seq
    BY <1>7 DEF MarketKnown
  <2>2. n \in DOMAIN node
    BY <1>2, <1>3, <2>1
  <2>3. n \in ToSet(QueueAt(s, q)) /\ q \in Prices
    BY <1>7, <2>2, LevelFacts DEF KnownAreQueued, Inductive
  <2> QED BY <1>2, <1>4, <2>3
<1> QED BY <1>5, <1>6, <1>7

LEMMA KnownOnMirror ==
  ASSUME Inductive, KnownAreQueued, MirrorNode
  PROVE  KnownAreQueued'
<1>1. PICK side \in Sides, p \in Prices, m \in DOMAIN node :
           /\ m \in ToSet(QueueAt(side, p))
           /\ MarketJoined(side, p, m, node[m].qty)
  BY MirrorJoins
<1>2. UNCHANGED <<book, node>>
  BY DEF MirrorNode, bookVars
<1>3. \A s \in Sides : \A q : QueueAt(s, q)' = QueueAt(s, q)
  BY <1>2 DEF QueueAt
<1> SUFFICES ASSUME NEW s \in Sides, NEW q \in DOMAIN paper'[s],
                    NEW n \in ToSet(paper'[s][q].market_seqs), n \in DOMAIN node'
             PROVE  n \in ToSet(QueueAt(s, q)')
  BY DEF KnownAreQueued
<1>4. CASE s = side /\ q = p
  <2>1. p \in DOMAIN paper[side]
    BY <1>1 DEF MarketJoined
  <2>2. paper[side][p].market_seqs \in Seq(Nat) /\ m \in Nat
    BY <1>1, <2>1, LevelFacts, QueueAtFacts DEF Inductive
  <2>3. n \in ToSet(Append(paper[side][p].market_seqs, m))
    BY <1>1, <1>4 DEF MarketJoined
  <2>4. n \in ToSet(paper[side][p].market_seqs) \cup {m}
    BY <2>2, <2>3, PushedBackProperties
  <2> QED BY <1>1, <1>2, <1>3, <1>4, <2>1, <2>4 DEF KnownAreQueued
<1>5. CASE s # side \/ q # p
  <2>1. q \in DOMAIN paper[s] /\ paper'[s][q] = paper[s][q]
    BY <1>1, <1>5 DEF MarketJoined
  <2> QED BY <1>2, <1>3, <2>1 DEF KnownAreQueued
<1> QED BY <1>4, <1>5

LEMMA KnownOnAcquire ==
  ASSUME Inductive, KnownAreQueued, AcquirePaperNode
  PROVE  KnownAreQueued'
<1>1. LevelsCome
  BY AcquireBringsLevel
<1>2. UNCHANGED <<book, node>>
  BY DEF AcquirePaperNode, bookVars
<1>3. \A s \in Sides : \A q : QueueAt(s, q)' = QueueAt(s, q)
  BY <1>2 DEF QueueAt
<1>4. ToSet(NewPaperLevel.market_seqs) = {}
  BY DEF NewPaperLevel, ToSet
<1> QED BY <1>1, <1>2, <1>3, <1>4 DEF LevelsCome, KnownAreQueued

\* A cancel or a resize of a historical order, and what the level is told.
LEMMA UpdateTold ==
  ASSUME Inductive, NEW e \in Event, OnDelete(e) \/ OnSubtract(e) \/ OnSet(e)
  PROVE  /\ call = Idle
         /\ call' = Idle
         /\ UNCHANGED order_arrival_seq
         /\ \/ \E qty \in Nat : e.id \in DOMAIN order_info /\ SetHistorical(e.id, qty)
            \/ MarketStays /\ UNCHANGED <<book, node, order_info>>
<1>1. ~Unknown(e) /\ e.source \in Sources /\ e.qty \in Int
  BY DEF OnDelete, OnSubtract, OnSet, Accepts, Rejected, SubtractRejected, Event
<1>2. call = Idle /\ call' = Idle /\ UNCHANGED order_arrival_seq
  BY DEF OnDelete, OnSubtract, OnSet, Accepts, SetHistorical
<1>3. CASE e.source = "HISTORICAL"
  <2>1. e.id \in DOMAIN order_info
    BY <1>1, <1>3, Known
  <2>2. PICK qty \in Nat : SetHistorical(e.id, qty)
    <3>1. node[NodeOf(e.id)].qty \in Nat
      BY <1>1, <2>1, TakenFacts
    <3>2. Taken(e) \in Int /\ Taken(e) <= node[NodeOf(e.id)].qty
      <4>1. node[NodeOf(e.id)].qty \in Int /\ e.qty \in Int
        BY <1>1, <3>1
      <4> QED BY <4>1, LesserFacts DEF Taken
    <3>3. /\ 0 \in Nat
          /\ node[NodeOf(e.id)].qty - Taken(e) \in Nat
          /\ (IF e.qty < 0 THEN 0 ELSE e.qty) \in Nat
      BY <1>1, <3>1, <3>2
    <3> QED BY <1>3, <3>3 DEF OnDelete, OnSubtract, OnSet
  <2> QED BY <1>2, <2>1, <2>2
<1>4. CASE e.source = "STRATEGY"
  <2>1. e.id \in DOMAIN paper_orders
    BY <1>1, <1>4, Known
  <2>2. PICK qty, status : LeavePaperOrder(e.id, qty, qty, status)
    BY <1>4 DEF OnDelete, OnSubtract, OnSet, TakeFromPaperOrder
  <2>3. UNCHANGED <<book, node, order_info>>
    BY <1>4 DEF OnDelete, OnSubtract, OnSet, bookVars
  <2> QED BY <1>2, <2>1, <2>2, <2>3, OrderTakenTeachesNothing DEF Inductive
<1> QED BY <1>1, <1>3, <1>4 DEF Sources

\* A MATCH reduces its order last.
LEMMA MatchReduces ==
  ASSUME Inductive, EndMatch
  PROVE  /\ call.pc = "reduce"
         /\ call' = Idle
         /\ call.event.type = "MATCH"
         /\ call.event.id \in DOMAIN order_info
         /\ node[NodeOf(call.event.id)].qty \in Nat
         /\ Taken(call.event) \in Nat
         /\ Taken(call.event) <= node[NodeOf(call.event.id)].qty
         /\ Requantify(call.event.id,
                       node[NodeOf(call.event.id)].qty - Taken(call.event))
         /\ UNCHANGED <<paper, order_arrival_seq>>
<1>1. /\ call.pc = "reduce"
      /\ call' = Idle
      /\ Requantify(call.event.id,
                    node[NodeOf(call.event.id)].qty - Taken(call.event))
      /\ UNCHANGED <<paper, order_arrival_seq>>
  BY DEF EndMatch, paperVars
<1>2. /\ call.event.type = "MATCH"
      /\ call.event.id \in DOMAIN order_info
      /\ call.event.qty \in Nat
  BY <1>1, HandlerFacts, HandlerKinds
<1>3. node[NodeOf(call.event.id)].qty \in Nat /\ Taken(call.event) \in Nat
  BY <1>2, TakenFacts
<1>4. Taken(call.event) <= node[NodeOf(call.event.id)].qty
  BY <1>2, <1>3, LesserFacts DEF Taken
<1> QED BY <1>1, <1>2, <1>3, <1>4

LEMMA KnownStep ==
  ASSUME Inductive, MarketKnown, KnownAreQueued, [Next]_vars
  PROVE  KnownAreQueued'
<1>1. BookInvariant /\ PaperTypes
  BY DEF Inductive, PaperInvariant
<1>2. ASSUME UNCHANGED <<book, node>>, UNCHANGED paper \/ MarketStays \/ NothingLearnt
      PROVE  KnownAreQueued'
  <2>1. NodesLeave
    BY <1>2, BookUntouched, StayingNodesLeave
  <2> QED BY <1>2, <2>1, KnownKept
<1>3. ASSUME \A side \in Sides : DOMAIN paper'[side] = {}
      PROVE  KnownAreQueued'
  BY <1>3 DEF KnownAreQueued
<1>4. ASSUME NEW e \in Events, update(e) PROVE KnownAreQueued'
  <2>0. e \in Event
    BY EventsAssumption
  <2>1. CASE OnAdd(e) \/ OnAggressiveTrade(e) \/ OnMatch(e) \/ Reject(e)
    <3>1. UNCHANGED <<book, node, paper>>
      BY <2>1 DEF OnAdd, OnAggressiveTrade, OnMatch, Reject, vars, bookVars, paperVars
    <3> QED BY <1>2, <3>1
  <2>2. CASE OnDelete(e) \/ OnSubtract(e) \/ OnSet(e)
    <3>1. \/ \E qty \in Nat : e.id \in DOMAIN order_info /\ SetHistorical(e.id, qty)
          \/ MarketStays /\ UNCHANGED <<book, node, order_info>>
      BY <2>0, <2>2, UpdateTold
    <3>2. ASSUME NEW qty \in Nat, e.id \in DOMAIN order_info, SetHistorical(e.id, qty)
          PROVE  KnownAreQueued'
      <4>1. NodesLeave
        BY <1>1, <3>2, RequantifiedLeaves DEF SetHistorical
      <4>2. Side(e.id) \in Sides
        BY <1>1, <3>2, OrderFacts
      <4>3. NothingLearnt
        BY <1>1, <3>2, <4>2, AdjustedTeachesNothing DEF SetHistorical
      <4> QED BY <4>1, <4>3, KnownKept
    <3> QED BY <1>2, <3>1, <3>2
  <2> QED BY <1>4, <2>1, <2>2 DEF update
<1>5. ASSUME NEW rows, InitFromL2Snapshot(rows) \/ InitFromL3Snapshot(rows)
      PROVE  KnownAreQueued'
  BY <1>3, <1>5 DEF InitFromL2Snapshot, InitFromL3Snapshot, clear_state, Empty
<1>6. ASSUME NEW side \in Sides, GetBestPriceTicks(side) PROVE KnownAreQueued'
  BY <1>2, <1>6 DEF GetBestPriceTicks, paperVars
<1>7. ASSUME Continue PROVE KnownAreQueued'
  <2>1. CASE \/ StrategySweep \/ EndSweep \/ EndQueue \/ EndPaper \/ EndAdd
             \/ MatchFill \/ EndSnapshot
    <3>1. UNCHANGED <<book, node, paper>>
      BY <2>1, Zenon DEF StrategySweep, EndSweep, EndQueue, EndPaper, EndAdd, MatchFill,
                  EndSnapshot, bookVars, paperVars
    <3> QED BY <1>2, <3>1
  <2>2. CASE HistoricalSweep
    <3>1. UNCHANGED paper
      BY <2>2, Zenon DEF HistoricalSweep, paperVars
    <3> QED BY <2>2, <3>1, SweptNodeLeaves, KnownKept
  <2>3. CASE QueueFill \/ TradeAgainstPaper \/ RestStrategy
    <3>1. UNCHANGED <<book, node>>
      BY <2>3, Zenon DEF QueueFill, TradeAgainstPaper, RestStrategy, bookVars
    <3> QED BY <1>2, <2>3, <3>1, FillTeachesNothing, JoiningTeachesNothing
  <2>4. CASE Settle
    <3>1. call.side \in Sides
      BY <2>4, HandlerFacts DEF Settle
    <3> QED BY <1>1, <1>2, <2>4, <3>1, SettleTells, AdjustedTeachesNothing
  <2>5. CASE EndLevel
    <3>1. NodesLeave
      BY <2>5, EndLevelKind, StayingNodesLeave
    <3>2. UNCHANGED paper
      BY <2>5 DEF EndLevel, paperVars
    <3> QED BY <3>1, <3>2, KnownKept
  <2>6. CASE RestHistorical
    BY <2>6, KnownOnRest
  <2>7. CASE AcquirePaperNode
    BY <2>7, KnownOnAcquire
  <2>8. CASE MirrorNode
    BY <2>8, KnownOnMirror
  <2>9. CASE EndMatch
    <3>1. PICK qty \in Int : Requantify(call.event.id, qty)
      <4>1. node[NodeOf(call.event.id)].qty - Taken(call.event) \in Int
        BY <2>9, MatchReduces
      <4> QED BY <2>9, <4>1, MatchReduces
    <3> QED BY <1>1, <2>9, <3>1, MatchReduces, RequantifiedLeaves, KnownKept
  <2>10. CASE L2Row \/ L3Row
    <3>1. call.pc \in {"l2", "l3"} /\ UNCHANGED paper
      BY <2>10 DEF L2Row, L3Row, paperVars
    <3> QED BY <1>3, <3>1, NoLevels
  <2> QED BY <1>7, <2>1, <2>2, <2>3, <2>4, <2>5, <2>6, <2>7, <2>8, <2>9, <2>10
          DEF Continue
<1>8. CASE UNCHANGED vars
  BY <1>2, <1>8 DEF vars, bookVars, paperVars
<1> QED BY <1>4, <1>5, <1>6, <1>7, <1>8 DEF Next

-----------------------------------------------------------------------------
(***************************************************************************)
(* Levels mirror the market.                                               *)
(***************************************************************************)
Owed(side, p, n) ==
  IF Handling /\ side = call.side /\ p = call.price THEN Untold(n) ELSE 0

Due(side, p, n) == Quantity(n) + Owed(side, p, n)

NothingOwed ==
  \/ call.pc \in {"idle", "l2", "l3"}
  \/ call.deltas = <<>> /\ call.event.type # "MATCH"

LEMMA OwedNothing ==
  ASSUME NEW side, NEW p, NEW n
  PROVE  /\ NothingOwed => Owed(side, p, n) = 0
         /\ NothingOwed' => Owed(side, p, n)' = 0
<1>1. DeltaLots(<<>>, n) = 0
  BY NoDeltas
<1>2. NothingOwed => Owed(side, p, n) = 0
  <2>1. CASE call.deltas = <<>> /\ call.event.type # "MATCH"
    <3>1. Untold(n) = 0
      BY <1>1, <2>1, UntoldIs DEF Matched
    <3> QED BY <3>1 DEF Owed
  <2>2. CASE call.pc \in {"idle", "l2", "l3"}
    BY <2>2 DEF Owed, Handling
  <2> QED BY <2>1, <2>2 DEF NothingOwed
<1>3. NothingOwed' => Owed(side, p, n)' = 0
  <2>1. CASE call'.deltas = <<>> /\ call'.event.type # "MATCH"
    <3>1. Matched(n)' = 0
      BY <2>1 DEF Matched
    <3>2. Untold(n)' = 0
      BY <1>1, <2>1, <3>1, UntoldIs
    <3> QED BY <3>2 DEF Owed
  <2>2. CASE call'.pc \in {"idle", "l2", "l3"}
    BY <2>2 DEF Owed, Handling
  <2> QED BY <2>1, <2>2 DEF NothingOwed
<1> QED BY <1>2, <1>3

LEMMA OwedStays ==
  ASSUME TellsTheSame, call'.price = call.price, Handling, Handling',
         NEW side, NEW p, NEW n
  PROVE  Owed(side, p, n)' = Owed(side, p, n)
<1>1. /\ call'.deltas = call.deltas
      /\ call'.event = call.event
      /\ call'.side = call.side
      /\ node' = node
      /\ order_info' = order_info
  BY DEF TellsTheSame
<1>2. Matched(n)' = Matched(n)
  BY <1>1 DEF Matched, NodeOf, Taken
<1>3. Untold(n)' = Untold(n)
  BY <1>1, <1>2, UntoldIs
<1> QED BY <1>1, <1>3 DEF Owed

LEMMA OwedType ==
  ASSUME Inductive, NEW side, NEW p, NEW n
  PROVE  /\ Quantity(n) \in Nat
         /\ Owed(side, p, n) \in Int
<1>1. Quantity(n) \in Nat
  BY DEF Quantity, Inductive, BookInvariant, BookTypes, IsPartial, Node
<1>2. CASE Handling
  <2>1. call.pc \notin {"idle", "l2", "l3"}
    BY <1>2 DEF Handling
  <2>2. DeltaLots(call.deltas, n) \in Int
    BY <2>1, HandlerFacts, DeltaLotsType DEF Delta
  <2>3. Matched(n) \in Int
    <3>1. CASE call.event.type = "MATCH"
      <4>1. call.event.id \in DOMAIN order_info /\ call.event.qty \in Int
        BY <2>1, <3>1, HandlerFacts, HandlerKinds
      <4> QED BY <4>1, TakenFacts DEF Matched
    <3>2. CASE call.event.type # "MATCH"
      BY <3>2 DEF Matched
    <3> QED BY <3>1, <3>2
  <2> QED BY <1>1, <2>2, <2>3, UntoldIs DEF Owed
<1>3. CASE ~Handling
  BY <1>1, <1>3 DEF Owed
<1> QED BY <1>2, <1>3

LEMMA MirroredAt ==
  ASSUME MarketMirrored, NEW side \in Sides, NEW p \in DOMAIN paper[side]
  PROVE  /\ Len(paper[side][p].market_qty) = Len(paper[side][p].market_seqs)
         /\ \A k \in DOMAIN paper[side][p].market_seqs :
              ValueAt(paper[side][p].market_qty, k - 1) =
                Due(side, p, paper[side][p].market_seqs[k])
BY DEF MarketMirrored, Due, Owed

LEMMA MirroredNext ==
  ASSUME \A side \in Sides : \A p \in DOMAIN paper'[side] :
           /\ Len(paper'[side][p].market_qty) = Len(paper'[side][p].market_seqs)
           /\ \A k \in DOMAIN paper'[side][p].market_seqs :
                \A n : n = paper'[side][p].market_seqs[k] =>
                  ValueAt(paper'[side][p].market_qty, k - 1) = Due(side, p, n)'
  PROVE  MarketMirrored'
<1> SUFFICES ASSUME NEW side \in Sides, NEW p \in DOMAIN paper'[side],
                    NEW k \in DOMAIN paper'[side][p].market_seqs,
                    NEW n, n = paper'[side][p].market_seqs[k]
             PROVE  ValueAt(paper'[side][p].market_qty, k - 1) =
                      Quantity(n)' + (IF Handling' /\ side = call'.side /\ p = call'.price
                                        THEN Untold(n)' ELSE 0)
  BY DEF MarketMirrored, Quantity, Untold, MapThenSumSet, MapThenFoldSet, NodeOf, Taken
<1> QED BY DEF Due, Owed

\* Nothing is due that was not.
LEMMA MirroredKept ==
  ASSUME MarketMirrored, MarketStays,
         \A side \in Sides : \A p \in DOMAIN paper[side] :
           \A n \in ToSet(paper[side][p].market_seqs) :
             Due(side, p, n)' = Due(side, p, n)
  PROVE  MarketMirrored'
<1> SUFFICES ASSUME NEW side \in Sides, NEW p \in DOMAIN paper'[side]
             PROVE  /\ Len(paper'[side][p].market_qty) = Len(paper'[side][p].market_seqs)
                    /\ \A k \in DOMAIN paper'[side][p].market_seqs :
                         \A n : n = paper'[side][p].market_seqs[k] =>
                           ValueAt(paper'[side][p].market_qty, k - 1) = Due(side, p, n)'
  BY MirroredNext
<1>1. /\ p \in DOMAIN paper[side]
      /\ paper'[side][p].market_seqs = paper[side][p].market_seqs
      /\ paper'[side][p].market_qty = paper[side][p].market_qty
  BY DEF MarketStays
<1>2. \A k \in DOMAIN paper[side][p].market_seqs :
        paper[side][p].market_seqs[k] \in ToSet(paper[side][p].market_seqs)
  BY DEF ToSet
<1> QED BY <1>1, <1>2, MirroredAt

\* A level is told of a difference as it becomes due.
LEMMA MirroredTold ==
  ASSUME Inductive, MarketKnown, MarketMirrored,
         NEW side \in Sides, NEW p, NEW m, NEW delta \in Int,
         MarketTold(side, p, m, delta),
         \A s \in Sides : \A q \in DOMAIN paper[s] :
           \A n \in ToSet(paper[s][q].market_seqs) :
             Due(s, q, n)' = Due(s, q, n) +
               IF s = side /\ q = p /\ n = m THEN delta ELSE 0
  PROVE  MarketMirrored'
<1> SUFFICES ASSUME NEW s \in Sides, NEW q \in DOMAIN paper'[s]
             PROVE  /\ Len(paper'[s][q].market_qty) = Len(paper'[s][q].market_seqs)
                    /\ \A k \in DOMAIN paper'[s][q].market_seqs :
                         \A n : n = paper'[s][q].market_seqs[k] =>
                           ValueAt(paper'[s][q].market_qty, k - 1) = Due(s, q, n)'
  BY MirroredNext
<1>1. DOMAIN paper = Sides
  BY DEF Inductive, PaperInvariant, PaperTypes
<1>2. \A n : Due(s, q, n) \in Int
  BY OwedType DEF Due
<1>3. q \in DOMAIN paper[s]
  BY <1>1 DEF MarketTold, PaperMarketAdjusted, HasPaperLevel
<1>4. /\ Len(paper[s][q].market_qty) = Len(paper[s][q].market_seqs)
      /\ \A k \in DOMAIN paper[s][q].market_seqs :
           ValueAt(paper[s][q].market_qty, k - 1) = Due(s, q, paper[s][q].market_seqs[k])
  BY <1>3, MirroredAt
<1>5. \A k \in DOMAIN paper[s][q].market_seqs :
        paper[s][q].market_seqs[k] \in ToSet(paper[s][q].market_seqs)
  BY DEF ToSet
<1>6. CASE s # side \/ q # p
  <2>1. paper'[s][q] = paper[s][q]
    BY <1>1, <1>3, <1>6 DEF MarketTold, PaperMarketAdjusted, HasPaperLevel
  <2>2. ASSUME NEW k \in DOMAIN paper[s][q].market_seqs,
               NEW n, n = paper[s][q].market_seqs[k]
        PROVE  Due(s, q, n)' = Due(s, q, n)
    <3>1. n \in ToSet(paper[s][q].market_seqs)
      BY <1>5, <2>2
    <3> QED BY <1>2, <1>3, <1>6, <3>1
  <2> QED BY <1>4, <2>1, <2>2
<1>7. CASE s = side /\ q = p
  <2>1. PICK level : level = paper[s][q]
    OBVIOUS
  <2>2. paper'[s][q] = MarketAdjusted(level, m, delta)
    BY <1>1, <1>3, <1>7, <2>1 DEF MarketTold, PaperMarketAdjusted, HasPaperLevel
  <2>3. /\ level \in PaperOrderLevel
        /\ level.market_seqs \in Seq(Nat)
        /\ level.market_qty \in Seq(Int)
        /\ Increasing(level.market_seqs)
    BY <1>3, <2>1, LevelFacts DEF Inductive, MarketKnown
  <2>4. /\ Len(level.market_seqs) \in Nat
        /\ DOMAIN level.market_seqs = 1 .. Len(level.market_seqs)
        /\ Len(level.market_qty) = Len(level.market_seqs)
        /\ \A i, j \in DOMAIN level.market_seqs :
             level.market_seqs[i] = level.market_seqs[j] => i = j
    BY <1>4, <2>1, <2>3, LenProperties, IncreasingIsInjective DEF IsInjective
  <2>5. CASE \E k \in DOMAIN level.market_seqs : level.market_seqs[k] = m
    <3>1. PICK i : i = PositionOf(level.market_seqs, m)
      OBVIOUS
    <3>2. i \in DOMAIN level.market_seqs /\ level.market_seqs[i] = m
      BY <2>5, <3>1 DEF PositionOf
    <3>3. /\ paper'[s][q].market_seqs = level.market_seqs
          /\ paper'[s][q].market_qty = AddAt(level.market_qty, i - 1, delta)
      BY <2>2, <2>3, <2>5, <3>1 DEF MarketAdjusted, PaperOrderLevel
    <3>4. i - 1 \in Nat /\ i - 1 < Len(level.market_qty)
      BY <2>4, <3>2
    <3>5. Len(AddAt(level.market_qty, i - 1, delta)) = Len(level.market_qty)
      BY <2>3, AddAtProperties
    <3>6. ASSUME NEW k \in DOMAIN level.market_seqs
          PROVE  ValueAt(AddAt(level.market_qty, i - 1, delta), k - 1) =
                   Due(s, q, level.market_seqs[k]) + IF k = i THEN delta ELSE 0
      <4>1. k - 1 \in 0 .. Len(level.market_qty) - 1
        BY <2>4
      <4>2. ValueAt(AddAt(level.market_qty, i - 1, delta), k - 1) =
              ValueAt(level.market_qty, k - 1) + IF k - 1 = i - 1 THEN delta ELSE 0
        BY <2>3, <3>4, <4>1, AddedValues
      <4>3. k - 1 = i - 1 <=> k = i
        BY <2>4, <3>2
      <4> QED BY <1>4, <2>1, <4>2, <4>3
    <3>7. ASSUME NEW k \in DOMAIN level.market_seqs, NEW n, n = level.market_seqs[k]
          PROVE  Due(s, q, n)' = Due(s, q, n) + IF k = i THEN delta ELSE 0
      <4>1. n = m <=> k = i
        BY <2>4, <3>2, <3>7
      <4>2. n \in ToSet(paper[s][q].market_seqs)
        BY <1>5, <2>1, <3>7
      <4> QED BY <1>3, <1>7, <4>1, <4>2
    <3> QED BY <2>4, <3>3, <3>5, <3>6, <3>7
  <2>6. CASE ~\E k \in DOMAIN level.market_seqs : level.market_seqs[k] = m
    <3>1. paper'[s][q] = level
      BY <2>2, <2>6 DEF MarketAdjusted
    <3>2. ASSUME NEW k \in DOMAIN level.market_seqs, NEW n, n = level.market_seqs[k]
          PROVE  Due(s, q, n)' = Due(s, q, n)
      <4>1. n # m /\ n \in ToSet(paper[s][q].market_seqs)
        BY <1>5, <2>1, <2>6, <3>2
      <4> QED BY <1>2, <1>3, <4>1
    <3> QED BY <1>4, <2>1, <3>1, <3>2
  <2> QED BY <2>5, <2>6
<1> QED BY <1>6, <1>7

\* A level learns of a node with what is due of it.
LEMMA MirroredJoined ==
  ASSUME Inductive, MarketMirrored,
         NEW side \in Sides, NEW p, NEW m \in Nat, NEW qty \in Int,
         MarketJoined(side, p, m, qty), Due(side, p, m)' = qty,
         \A s \in Sides : \A q \in DOMAIN paper[s] :
           \A n \in ToSet(paper[s][q].market_seqs) : Due(s, q, n)' = Due(s, q, n)
  PROVE  MarketMirrored'
<1> SUFFICES ASSUME NEW s \in Sides, NEW q \in DOMAIN paper'[s]
             PROVE  /\ Len(paper'[s][q].market_qty) = Len(paper'[s][q].market_seqs)
                    /\ \A k \in DOMAIN paper'[s][q].market_seqs :
                         \A n : n = paper'[s][q].market_seqs[k] =>
                           ValueAt(paper'[s][q].market_qty, k - 1) = Due(s, q, n)'
  BY MirroredNext
<1>1. q \in DOMAIN paper[s]
  BY DEF MarketJoined
<1>2. /\ Len(paper[s][q].market_qty) = Len(paper[s][q].market_seqs)
      /\ \A k \in DOMAIN paper[s][q].market_seqs :
           ValueAt(paper[s][q].market_qty, k - 1) = Due(s, q, paper[s][q].market_seqs[k])
  BY <1>1, MirroredAt
<1>3. ASSUME NEW k \in DOMAIN paper[s][q].market_seqs,
             NEW n, n = paper[s][q].market_seqs[k]
      PROVE  Due(s, q, n)' = Due(s, q, n)
  <2>1. n \in ToSet(paper[s][q].market_seqs)
    BY <1>3 DEF ToSet
  <2> QED BY <1>1, <2>1
<1>4. CASE s # side \/ q # p
  <2>1. paper'[s][q] = paper[s][q]
    BY <1>4 DEF MarketJoined
  <2> QED BY <1>2, <1>3, <2>1
<1>5. CASE s = side /\ q = p
  <2>1. PICK seqs, sums : seqs = paper[s][q].market_seqs /\ sums = paper[s][q].market_qty
    OBVIOUS
  <2>2. /\ paper'[s][q].market_seqs = Append(seqs, m)
        /\ paper'[s][q].market_qty = Push(sums, qty)
    BY <1>5, <2>1 DEF MarketJoined
  <2>3. /\ seqs \in Seq(Nat)
        /\ sums \in Seq(Int)
        /\ Len(sums) = Len(seqs)
        /\ Len(seqs) \in Nat
        /\ DOMAIN seqs = 1 .. Len(seqs)
    BY <1>1, <1>2, <2>1, LevelFacts, LenProperties DEF Inductive
  <2>4. /\ Append(seqs, m) \in Seq(Nat)
        /\ Len(Append(seqs, m)) = Len(seqs) + 1
        /\ \A k \in 1 .. Len(seqs) : Append(seqs, m)[k] = seqs[k]
        /\ Append(seqs, m)[Len(seqs) + 1] = m
    BY <2>3, AppendProperties
  <2>5. DOMAIN Append(seqs, m) = 1 .. Len(seqs) + 1
    BY <2>4, LenProperties
  <2>6. Len(Push(sums, qty)) = Len(sums) + 1
    BY <2>3, PushProperties
  <2>7. /\ ValueAt(Push(sums, qty), Len(seqs)) = qty
        /\ \A i \in 0 .. Len(seqs) - 1 : ValueAt(Push(sums, qty), i) = ValueAt(sums, i)
    BY <2>3, PushedValues
  <2>8. ASSUME NEW k \in DOMAIN Append(seqs, m), NEW n, n = Append(seqs, m)[k]
        PROVE  ValueAt(Push(sums, qty), k - 1) = Due(s, q, n)'
    <3>1. CASE k = Len(seqs) + 1
      <4>1. k - 1 = Len(seqs) /\ n = m
        BY <2>3, <2>4, <2>8, <3>1
      <4> QED BY <1>5, <2>7, <4>1
    <3>2. CASE k # Len(seqs) + 1
      <4>1. k \in 1 .. Len(seqs) /\ k - 1 \in 0 .. Len(seqs) - 1
        BY <2>3, <2>5, <3>2
      <4>2. n = seqs[k]
        BY <2>4, <2>8, <4>1
      <4>3. Due(s, q, n)' = Due(s, q, n)
        BY <1>3, <2>1, <2>3, <4>1, <4>2
      <4>4. ValueAt(sums, k - 1) = Due(s, q, n)
        BY <1>2, <2>1, <2>3, <4>1, <4>2
      <4> QED BY <2>7, <4>1, <4>3, <4>4
    <3> QED BY <3>1, <3>2
  <2> QED BY <2>2, <2>3, <2>4, <2>6, <2>8
<1> QED BY <1>4, <1>5

\* No node is known to two levels, and only its own changes what is due.
LEMMA KnownOnce ==
  ASSUME Inductive, KnownAreQueued, NEW side \in Sides, NEW p,
         NEW n \in ToSet(QueueAt(side, p)),
         NEW s \in Sides, NEW q \in DOMAIN paper[s],
         n \in ToSet(paper[s][q].market_seqs)
  PROVE  s = side /\ q = p
<1>1. n \in DOMAIN node
  BY QueueAtFacts DEF Inductive
<1>2. n \in ToSet(QueueAt(s, q))
  BY <1>1 DEF KnownAreQueued
<1> QED BY <1>2, OnePlace DEF Inductive

LEMMA RestockedQuantity ==
  ASSUME Inductive, NEW n, NEW qty, NodeRestocked(n, qty), NEW m
  PROVE  Quantity(m)' = IF m = n THEN qty ELSE Quantity(m)
<1>1. /\ n \in DOMAIN node
      /\ node' = [node EXCEPT ![n].qty = qty]
  BY DEF NodeRestocked
<1>2. DOMAIN node' = DOMAIN node /\ \A k \in DOMAIN node : k # n => node'[k] = node[k]
  BY <1>1
<1>3. node'[n] = [node[n] EXCEPT !.qty = qty]
  BY <1>1
<1>4. CASE m = n
  <2>1. node[n] \in Node
    BY <1>1 DEF Inductive, BookInvariant, BookTypes, IsPartial
  <2>2. node'[n].qty = qty
    BY <1>3, <2>1 DEF Node
  <2> QED BY <1>1, <1>2, <1>4, <2>2 DEF Quantity
<1>5. CASE m # n
  BY <1>2, <1>5 DEF Quantity
<1> QED BY <1>4, <1>5

LEMMA TakenQuantity ==
  ASSUME NEW side, NEW p, NEW n, NodeTaken(side, p, n), NEW m
  PROVE  Quantity(m)' = IF m = n THEN 0 ELSE Quantity(m)
<1>1. node' = Erased(node, n)
  BY DEF NodeTaken
<1>2. DOMAIN node' = DOMAIN node \ {n} /\ \A k \in DOMAIN node \ {n} : node'[k] = node[k]
  BY <1>1 DEF Erased, Restrict
<1> QED BY <1>2 DEF Quantity

LEMMA RequantifiedQuantity ==
  ASSUME Inductive, KnownAreQueued, NEW id \in DOMAIN order_info, NEW qty \in Nat,
         Requantify(id, qty)
  PROVE  /\ Side(id) \in Sides
         /\ NodeOf(id) \in DOMAIN node
         /\ Quantity(NodeOf(id)) = node[NodeOf(id)].qty
         /\ \A m : Quantity(m)' = IF m = NodeOf(id) THEN qty ELSE Quantity(m)
         /\ \A s \in Sides : \A q \in DOMAIN paper[s] :
              NodeOf(id) \in ToSet(paper[s][q].market_seqs) =>
                s = Side(id) /\ q = Price(id)
<1>1. PICK side \in Sides, p \in Prices, n \in ToSet(QueueAt(Side(id), Price(id))) :
           /\ side = Side(id) /\ p = Price(id) /\ n = NodeOf(id)
           /\ qty > 0 => NodeRestocked(n, qty)
           /\ qty <= 0 => NodeTaken(side, p, n)
  BY RequantifyKind DEF Inductive
<1>2. n \in ToSet(QueueAt(side, p))
  BY <1>1
<1>3. n \in DOMAIN node
  BY <1>2, QueueAtFacts DEF Inductive
<1>4. ASSUME NEW m PROVE Quantity(m)' = IF m = n THEN qty ELSE Quantity(m)
  <2>1. CASE qty > 0
    BY <1>1, <2>1, RestockedQuantity
  <2>2. CASE qty = 0
    BY <1>1, <2>2, TakenQuantity
  <2> QED BY <2>1, <2>2
<1>5. \A s \in Sides : \A q \in DOMAIN paper[s] :
        n \in ToSet(paper[s][q].market_seqs) => s = side /\ q = p
  BY <1>2, KnownOnce
<1> QED BY <1>1, <1>3, <1>4, <1>5 DEF Quantity

\* A cancel or a resize.
LEMMA MirroredOnUpdate ==
  ASSUME Inductive, MarketKnown, KnownAreQueued, MarketMirrored,
         NEW id \in DOMAIN order_info, NEW qty \in Nat, SetHistorical(id, qty),
         call = Idle, call' = Idle
  PROVE  MarketMirrored'
<1>1. /\ Requantify(id, qty)
      /\ MarketTold(Side(id), Price(id), NodeOf(id), qty - node[NodeOf(id)].qty)
  BY DEF SetHistorical, MarketTold
<1>2. /\ Side(id) \in Sides
      /\ NodeOf(id) \in DOMAIN node
      /\ Quantity(NodeOf(id)) = node[NodeOf(id)].qty
      /\ \A m : Quantity(m)' = IF m = NodeOf(id) THEN qty ELSE Quantity(m)
      /\ \A s \in Sides : \A q \in DOMAIN paper[s] :
           NodeOf(id) \in ToSet(paper[s][q].market_seqs) =>
             s = Side(id) /\ q = Price(id)
  BY <1>1, RequantifiedQuantity
<1>3. \A s, q, n : Owed(s, q, n) = 0 /\ Owed(s, q, n)' = 0
  <2>1. NothingOwed /\ NothingOwed'
    BY DEF NothingOwed, Idle
  <2> QED BY <2>1, OwedNothing
<1>4. PICK side, p, m, delta :
        /\ side \in Sides
        /\ side = Side(id)
        /\ p = Price(id)
        /\ m = NodeOf(id)
        /\ delta = qty - Quantity(m)
  BY <1>2
<1> side \in Sides
  BY <1>4
<1>5. \A n : Quantity(n) \in Nat
  BY OwedType
<1>6. delta \in Int
  BY <1>4, <1>5
<1>7. ASSUME NEW s \in Sides, NEW q \in DOMAIN paper[s],
             NEW n \in ToSet(paper[s][q].market_seqs)
      PROVE  Due(s, q, n)' = Due(s, q, n) +
               IF s = side /\ q = p /\ n = m THEN delta ELSE 0
  <2>1. Due(s, q, n) = Quantity(n) /\ Due(s, q, n)' = Quantity(n)'
    <3>1. Quantity(n)' \in Nat
      BY <1>2, <1>5
    <3> QED BY <1>3, <1>5, <3>1 DEF Due
  <2>2. CASE n = m
    <3>1. s = side /\ q = p
      BY <1>2, <1>4, <1>7, <2>2
    <3>2. Quantity(n)' = qty
      BY <1>2, <1>4, <2>2
    <3> QED BY <1>4, <1>5, <2>1, <2>2, <3>1, <3>2
  <2>3. CASE n # m
    BY <1>2, <1>4, <1>5, <2>1, <2>3
  <2> QED BY <2>2, <2>3
<1>8. MarketTold(side, p, m, delta)
  BY <1>1, <1>2, <1>4
<1> QED BY <1>6, <1>7, <1>8, MirroredTold

\* The end of a MATCH: what was told of its node comes true.
LEMMA MirroredOnMatch ==
  ASSUME Inductive, MarketKnown, KnownAreQueued, ToldInTime, MarketMirrored, EndMatch
  PROVE  MarketMirrored'
<1>1. PICK id, qty, taken :
        /\ id = call.event.id
        /\ id \in DOMAIN order_info
        /\ taken = Taken(call.event)
        /\ taken \in Nat
        /\ qty = node[NodeOf(id)].qty - taken
        /\ qty \in Nat
        /\ Requantify(id, qty)
        /\ node[NodeOf(id)].qty \in Nat
  <2>1. node[NodeOf(call.event.id)].qty - Taken(call.event) \in Nat
    BY MatchReduces
  <2> QED BY <2>1, MatchReduces
<1>2. call.pc = "reduce" /\ call' = Idle /\ UNCHANGED paper /\ call.event.type = "MATCH"
  BY MatchReduces
<1>3. /\ Side(id) \in Sides
      /\ NodeOf(id) \in DOMAIN node
      /\ Quantity(NodeOf(id)) = node[NodeOf(id)].qty
      /\ \A m : Quantity(m)' = IF m = NodeOf(id) THEN qty ELSE Quantity(m)
      /\ \A s \in Sides : \A q \in DOMAIN paper[s] :
           NodeOf(id) \in ToSet(paper[s][q].market_seqs) =>
             s = Side(id) /\ q = Price(id)
  BY <1>1, RequantifiedQuantity
<1>4. /\ call.deltas = <<>>
      /\ call.side = Side(id)
      /\ call.price = Price(id)
      /\ Handling
  BY <1>1, <1>2 DEF ToldInTime, Handling
<1>5. \A s, q, n : Owed(s, q, n)' = 0
  <2>1. NothingOwed'
    BY <1>2 DEF NothingOwed, Idle
  <2> QED BY <2>1, OwedNothing
<1>6. \A n : Untold(n) = 0 - IF n = NodeOf(id) THEN taken ELSE 0
  BY <1>1, <1>2, <1>4, UntoldIs, NoDeltas DEF Matched
<1>7. ASSUME NEW s \in Sides, NEW q \in DOMAIN paper[s],
             NEW n \in ToSet(paper[s][q].market_seqs)
      PROVE  Due(s, q, n)' = Due(s, q, n)
  <2>1. Quantity(n) \in Nat
    BY OwedType
  <2>2. CASE n = NodeOf(id)
    <3>1. s = call.side /\ q = call.price
      BY <1>3, <1>4, <1>7, <2>2
    <3>2. Owed(s, q, n) = 0 - taken
      BY <1>4, <1>6, <2>2, <3>1 DEF Owed
    <3>3. Quantity(n)' = Quantity(n) - taken
      BY <1>1, <1>3, <2>2
    <3> QED BY <1>1, <1>5, <2>1, <3>2, <3>3 DEF Due
  <2>3. CASE n # NodeOf(id)
    <3>1. Owed(s, q, n) = 0
      BY <1>6, <2>3 DEF Owed
    <3> QED BY <1>3, <1>5, <2>3, <3>1 DEF Due
  <2> QED BY <2>2, <2>3
<1>8. MarketStays
  BY <1>2 DEF MarketStays
<1> QED BY <1>7, <1>8, MirroredKept

\* What a level is told of a trade is no longer owed.
LEMMA MirroredOnSettle ==
  ASSUME Inductive, MarketKnown, MarketMirrored, Settle
  PROVE  MarketMirrored'
<1>1. /\ call.pc = "settle"
      /\ call'.pc = "settle"
      /\ call.deltas # <<>>
      /\ call'.deltas = Tail(call.deltas)
      /\ call'.event = call.event
      /\ call'.side = call.side
      /\ call'.price = call.price
      /\ paper' = PaperMarketAdjusted(call.side, call.price, Head(call.deltas).seq,
                                      -Head(call.deltas).qty)
      /\ UNCHANGED <<book, node, order_info, order_arrival_seq>>
  BY SettleTells
<1>2. call.side \in Sides /\ call.deltas \in Seq(Delta)
  BY <1>1, HandlerFacts DEF Delta
<1>3. PICK side, p, m, delta :
        /\ side \in Sides
        /\ side = call.side
        /\ p = call.price
        /\ m = Head(call.deltas).seq
        /\ delta = -Head(call.deltas).qty
  BY <1>2
<1> side \in Sides
  BY <1>3
<1>4. Head(call.deltas).qty \in Int
  <2>1. Head(call.deltas) \in Delta
    BY <1>1, <1>2, HeadTailProperties
  <2> QED BY <2>1 DEF Delta
<1>5. delta \in Int /\ MarketTold(side, p, m, delta)
  BY <1>1, <1>3, <1>4 DEF MarketTold
<1>6. \A n : Matched(n)' = Matched(n) /\ Quantity(n)' = Quantity(n)
  BY <1>1 DEF Matched, NodeOf, Taken, Quantity
<1>7. ASSUME NEW n
      PROVE  Untold(n)' = Untold(n) + IF n = m THEN delta ELSE 0
  <2>1. DeltaLots(call'.deltas, n) =
          DeltaLots(call.deltas, n) -
            IF Head(call.deltas).seq = n THEN Head(call.deltas).qty ELSE 0
    BY <1>1, <1>2, DeltaTold
  <2>2. DeltaLots(call.deltas, n) \in Int
    BY <1>2, DeltaLotsType
  <2>3. Untold(n) = DeltaLots(call.deltas, n) - Matched(n)
        /\ Untold(n)' = DeltaLots(call'.deltas, n) - Matched(n)
    BY <1>6, UntoldIs
  <2>4. Matched(n) \in Int
    <3>1. Handling /\ call.side = call.side /\ call.price = call.price
      BY <1>1 DEF Handling
    <3>2. Owed(call.side, call.price, n) \in Int
      BY OwedType
    <3>3. Untold(n) \in Int
      BY <3>1, <3>2 DEF Owed
    <3>4. CASE call.event.type = "MATCH"
      <4>1. call.event.id \in DOMAIN order_info /\ call.event.qty \in Int
        BY <1>1, <3>4, HandlerFacts, HandlerKinds
      <4> QED BY <4>1, TakenFacts DEF Matched
    <3>5. CASE call.event.type # "MATCH"
      BY <3>5 DEF Matched
    <3> QED BY <3>4, <3>5
  <2> QED BY <1>3, <1>4, <2>1, <2>2, <2>3, <2>4
<1>8. ASSUME NEW s \in Sides, NEW q, NEW n
      PROVE  Due(s, q, n)' = Due(s, q, n) +
               IF s = side /\ q = p /\ n = m THEN delta ELSE 0
  <2>1. Handling /\ Handling'
    BY <1>1 DEF Handling
  <2>2. Owed(s, q, n) = IF s = side /\ q = p THEN Untold(n) ELSE 0
    BY <1>3, <2>1 DEF Owed
  <2>3. Owed(s, q, n)' = IF s = side /\ q = p THEN Untold(n)' ELSE 0
    BY <1>1, <1>3, <2>1 DEF Owed
  <2>4. Quantity(n) \in Int /\ Owed(s, q, n) \in Int
    BY OwedType
  <2>5. Owed(s, q, n)' = Owed(s, q, n) +
          IF s = side /\ q = p /\ n = m THEN delta ELSE 0
    BY <1>5, <1>7, <2>2, <2>3, <2>4
  <2> QED BY <1>5, <1>6, <2>4, <2>5 DEF Due
<1> QED BY <1>5, <1>8, MirroredTold

\* A MATCH owes its level what it will take, and that it has not taken it.
LEMMA MirroredOnArrival ==
  ASSUME Inductive, MarketMirrored, NEW e \in Event, OnMatch(e)
  PROVE  MarketMirrored'
<1>1. /\ call = Idle
      /\ call'.event = e
      /\ e.type = "MATCH"
      /\ Taken(e) \in Nat
      /\ call'.deltas = IF Taken(e) > 0
                          THEN <<[seq |-> NodeOf(e.id), qty |-> Taken(e)]>> ELSE <<>>
      /\ UNCHANGED <<book, node, order_info, paper>>
      /\ e.id \in DOMAIN order_info
  BY MatchComes
<1>2. NodeOf(e.id) \in Nat
  BY <1>1, OrderFacts DEF Inductive
<1>3. ASSUME NEW n PROVE Untold(n)' = 0
  <2>1. Matched(n)' = IF n = NodeOf(e.id) THEN Taken(e) ELSE 0
    BY <1>1 DEF Matched, NodeOf, Taken
  <2>2. DeltaLots(call'.deltas, n) = IF n = NodeOf(e.id) THEN Taken(e) ELSE 0
    <3>1. CASE Taken(e) > 0
      <4>1. PICK d : d = [seq |-> NodeOf(e.id), qty |-> Taken(e)]
        OBVIOUS
      <4>2. d \in Delta /\ d.seq = NodeOf(e.id) /\ d.qty = Taken(e)
        BY <1>1, <1>2, <4>1 DEF Delta
      <4>3. PICK none, new : none = <<>> /\ new = call'.deltas
        OBVIOUS
      <4>4. none \in Seq(Delta) /\ new = Append(none, d)
        BY <1>1, <3>1, <4>1, <4>3
      <4>5. DeltaLots(new, n) = DeltaLots(none, n) + IF d.seq = n THEN d.qty ELSE 0
        BY <4>2, <4>4, DeltaAppended
      <4> QED BY <1>1, <4>2, <4>3, <4>5, NoDeltas
    <3>2. CASE Taken(e) = 0
      BY <1>1, <3>2, NoDeltas
    <3> QED BY <1>1, <3>1, <3>2
  <2> QED BY <1>1, <2>1, <2>2, UntoldIs
<1>4. \A s, q, n : Due(s, q, n)' = Due(s, q, n)
  <2>1. NothingOwed
    BY <1>1 DEF NothingOwed, Idle
  <2>2. \A s, q, n : Owed(s, q, n) = 0 /\ Owed(s, q, n)' = 0
    BY <1>3, <2>1, OwedNothing DEF Owed
  <2>3. \A n : Quantity(n)' = Quantity(n)
    BY <1>1 DEF Quantity
  <2> QED BY <2>2, <2>3 DEF Due
<1>5. MarketStays
  BY <1>1 DEF MarketStays
<1> QED BY <1>4, <1>5, MirroredKept

\* What a historical order takes from a node is owed to the node's level.
LEMMA MirroredOnSweep ==
  ASSUME Inductive, Inductive', HeapCovers, SweepStays, KnownAreQueued, MarketMirrored,
         HistoricalSweep
  PROVE  MarketMirrored'
<1>1. PICK side \in Sides, p \in NextPrice, m \in DOMAIN node, take \in Nat :
           /\ side = call.side
           /\ Live(side, p)
           /\ m = Head(QueueAt(side, p))
           /\ take = Lesser(node[m].qty, call.remaining)
           /\ take <= call.remaining
           /\ node[m].qty \in Nat
           /\ m \in ToSet(QueueAt(side, p))
           /\ call'.pc = "queue" <=>
                /\ \/ take = call.remaining
                   \/ take = node[m].qty /\ Len(QueueAt(side, p)) = 1
                /\ call.lots + take > 0
           /\ call'.price = p
           /\ call'.lots = call.lots + take
           /\ call'.consumed = call.consumed
           /\ call'.deltas = IF take > 0 THEN Append(call.deltas, [seq |-> m, qty |-> take])
                                         ELSE call.deltas
           /\ call'.event = call.event
           /\ call'.side = call.side
           /\ call'.remaining = call.remaining - take
           /\ call'.pc \in {"sweep", "queue"}
           /\ call'.fills = IF take > 0 THEN Append(call.fills, BookFill(m, p, take))
                                        ELSE call.fills
           /\ take = node[m].qty => NodeTaken(side, p, m)
           /\ take # node[m].qty => NodeRestocked(m, node[m].qty - take)
  BY SweepDetail
<1>2. call.pc = "sweep" /\ UNCHANGED paper
  BY Zenon DEF HistoricalSweep, paperVars
<1>3. /\ call.deltas \in Seq(Delta)
      /\ call.event.type # "MATCH"
      /\ m \in Nat
  <2>1. call.deltas \in Seq(Delta) /\ call.event.type # "MATCH"
    BY <1>2, HandlerFacts DEF Delta, HandlerState
  <2>2. m \in Nat
    BY DEF Inductive, BookInvariant, BookTypes, IsPartial
  <2> QED BY <2>1, <2>2
<1>4. ASSUME NEW n PROVE Quantity(n)' = Quantity(n) - IF n = m THEN take ELSE 0
  <2>0. Quantity(n) \in Nat /\ Quantity(m) = node[m].qty
    BY OwedType DEF Quantity
  <2>1. CASE take = node[m].qty
    BY <1>1, <2>0, <2>1, TakenQuantity
  <2>2. CASE take # node[m].qty
    BY <1>1, <2>0, <2>2, RestockedQuantity
  <2> QED BY <2>1, <2>2
<1>5. ASSUME NEW n
      PROVE  /\ Untold(n) = DeltaLots(call.deltas, n)
             /\ Untold(n)' = DeltaLots(call.deltas, n) + IF n = m THEN take ELSE 0
             /\ DeltaLots(call.deltas, n) \in Int
  <2>1. DeltaLots(call.deltas, n) \in Int
    BY <1>3, DeltaLotsType
  <2>2. Matched(n) = 0 /\ Matched(n)' = 0
    BY <1>1, <1>3 DEF Matched
  <2>3. DeltaLots(call'.deltas, n) =
          DeltaLots(call.deltas, n) + IF n = m THEN take ELSE 0
    <3>1. CASE take > 0
      <4>1. PICK d : d = [seq |-> m, qty |-> take]
        OBVIOUS
      <4>2. d \in Delta /\ d.seq = m /\ d.qty = take
        BY <1>3, <4>1 DEF Delta
      <4>3. PICK old, new : old = call.deltas /\ new = call'.deltas
        OBVIOUS
      <4>4. old \in Seq(Delta) /\ new = Append(old, d)
        BY <1>1, <1>3, <3>1, <4>1, <4>3
      <4>5. DeltaLots(new, n) = DeltaLots(old, n) + IF d.seq = n THEN d.qty ELSE 0
        BY <4>2, <4>4, DeltaAppended
      <4> QED BY <4>2, <4>3, <4>5
    <3>2. CASE take = 0
      BY <1>1, <2>1, <3>2
    <3> QED BY <3>1, <3>2
  <2> QED BY <2>1, <2>2, <2>3, UntoldIs
<1>6. call.deltas = <<>> \/ p = call.price
  BY <1>2, SweepAtLevel
<1>7. Handling /\ Handling'
  BY <1>1, <1>2 DEF Handling
<1>8. ASSUME NEW s \in Sides, NEW q \in DOMAIN paper[s],
             NEW n \in ToSet(paper[s][q].market_seqs)
      PROVE  Due(s, q, n)' = Due(s, q, n)
  <2>1. Quantity(n) \in Nat
    BY OwedType
  <2>2. Owed(s, q, n) = IF s = side /\ q = p THEN DeltaLots(call.deltas, n) ELSE 0
    <3>1. CASE call.deltas = <<>>
      <4>1. DeltaLots(call.deltas, n) = 0
        BY <3>1, NoDeltas
      <4> QED BY <1>5, <4>1 DEF Owed
    <3>2. CASE p = call.price
      BY <1>1, <1>5, <1>7, <3>2 DEF Owed
    <3> QED BY <1>6, <3>1, <3>2
  <2>3. Owed(s, q, n)' =
          IF s = side /\ q = p
            THEN DeltaLots(call.deltas, n) + IF n = m THEN take ELSE 0 ELSE 0
    BY <1>1, <1>5, <1>7 DEF Owed
  <2>4. n = m => s = side /\ q = p
    BY <1>1, <1>8, KnownOnce
  <2> QED BY <1>4, <1>5, <2>1, <2>2, <2>3, <2>4 DEF Due
<1>9. MarketStays
  BY <1>2 DEF MarketStays
<1> QED BY <1>8, <1>9, MirroredKept

\* The orders that come to rest, and the nodes that a new level copies.
LEMMA MirroredOnRest ==
  ASSUME Inductive, MarketKnown, KnownAreQueued, ToldInTime, MarketMirrored,
         RestHistorical
  PROVE  MarketMirrored'
<1>1. PICK side \in Sides, p \in Prices, qty \in Nat : \E id :
           /\ NodeJoined(side, p, id, qty)
           /\ \/ MarketJoined(side, p, order_arrival_seq, qty)
              \/ p \notin DOMAIN paper[side] /\ MarketStays
           /\ call.pc = "rest"
           /\ call' = Idle
  BY RestJoins
<1>2. PICK m : m = order_arrival_seq
  OBVIOUS
<1>3. m \in Nat
  BY <1>2 DEF Inductive, BookInvariant, BookTypes
<1>4. PICK id : node' = Put(node, m, [id |-> id, qty |-> qty])
  BY <1>1, <1>2 DEF NodeJoined
<1>5. ASSUME NEW n PROVE Quantity(n)' = IF n = m THEN qty ELSE Quantity(n)
  <2>1. DOMAIN node' = DOMAIN node \cup {m}
    BY <1>4 DEF Put
  <2>2. CASE n = m
    BY <1>4, <2>2 DEF Put, Quantity
  <2>3. CASE n # m
    BY <1>4, <2>1, <2>3 DEF Put, Quantity
  <2> QED BY <2>2, <2>3
<1>6. NothingOwed /\ NothingOwed'
  <2>1. call.deltas = <<>>
    BY <1>1 DEF ToldInTime, Handling
  <2>2. call.event.type # "MATCH"
    BY <1>1, HandlerFacts DEF HandlerState
  <2> QED BY <1>1, <2>1, <2>2 DEF NothingOwed, Idle
<1>7. \A s, q, n : Owed(s, q, n) = 0 /\ Owed(s, q, n)' = 0
  BY <1>6, OwedNothing
<1>8. ASSUME NEW s \in Sides, NEW q \in DOMAIN paper[s],
             NEW n \in ToSet(paper[s][q].market_seqs)
      PROVE  Due(s, q, n)' = Due(s, q, n)
  <2>1. n < m
    BY <1>2 DEF MarketKnown
  <2>2. n # m
    BY <1>3, <2>1
  <2> QED BY <1>5, <1>7, <2>2 DEF Due
<1>9. CASE MarketStays
  BY <1>8, <1>9, MirroredKept
<1>10. CASE MarketJoined(side, p, m, qty)
  <2>1. Due(side, p, m)' = qty
    BY <1>5, <1>7 DEF Due
  <2> QED BY <1>3, <1>8, <1>10, <2>1, MirroredJoined
<1> QED BY <1>1, <1>2, <1>9, <1>10

LEMMA MirroredOnMirror ==
  ASSUME Inductive, ToldInTime, MarketMirrored, MirrorNode \/ AcquirePaperNode
  PROVE  MarketMirrored'
<1>1. call.pc \in {"rest", "mirror"} /\ UNCHANGED <<book, node>>
  BY DEF MirrorNode, AcquirePaperNode, bookVars
<1>2. NothingOwed
  <2>1. call.deltas = <<>>
    BY <1>1 DEF ToldInTime, Handling
  <2>2. call.event.type # "MATCH"
    BY <1>1, HandlerFacts DEF HandlerState
  <2> QED BY <2>1, <2>2 DEF NothingOwed
<1>3. NothingOwed'
  <2>1. TellsTheSame \/ call' = Idle
    BY HandlerMoves
  <2> QED BY <1>1, <1>2, <2>1 DEF NothingOwed, TellsTheSame, Idle
<1>4. \A s, q, n : Due(s, q, n)' = Due(s, q, n)
  <2>1. \A s, q, n : Owed(s, q, n) = 0 /\ Owed(s, q, n)' = 0
    BY <1>2, <1>3, OwedNothing
  <2>2. \A n : Quantity(n)' = Quantity(n)
    BY <1>1 DEF Quantity
  <2> QED BY <2>1, <2>2 DEF Due
<1>5. CASE MirrorNode
  <2>1. PICK side \in Sides, p \in Prices, n \in DOMAIN node :
           /\ n \in ToSet(QueueAt(side, p))
           /\ MarketJoined(side, p, n, node[n].qty)
    BY <1>5, MirrorJoins
  <2>2. n \in Nat /\ node[n].qty \in Int
    BY <2>1, QueueAtFacts DEF Inductive, Node
  <2>3. Due(side, p, n)' = node[n].qty
    <3>1. Owed(side, p, n) = 0
      BY <1>2, OwedNothing
    <3> QED BY <1>4, <2>2, <3>1 DEF Due, Quantity
  <2> QED BY <1>4, <2>1, <2>2, <2>3, MirroredJoined
<1>6. CASE AcquirePaperNode
  <2>1. LevelsCome
    BY <1>6, AcquireBringsLevel
  <2>2. /\ Len(NewPaperLevel.market_qty) = Len(NewPaperLevel.market_seqs)
        /\ DOMAIN NewPaperLevel.market_seqs = {}
    BY DEF NewPaperLevel
  <2> SUFFICES ASSUME NEW s \in Sides, NEW q \in DOMAIN paper'[s]
               PROVE  /\ Len(paper'[s][q].market_qty) = Len(paper'[s][q].market_seqs)
                      /\ \A k \in DOMAIN paper'[s][q].market_seqs :
                           \A n : n = paper'[s][q].market_seqs[k] =>
                             ValueAt(paper'[s][q].market_qty, k - 1) = Due(s, q, n)'
    BY MirroredNext
  <2>3. CASE q \in DOMAIN paper[s] /\ paper'[s][q] = paper[s][q]
    BY <1>4, <2>3, MirroredAt
  <2>4. CASE paper'[s][q] = NewPaperLevel
    BY <2>2, <2>4
  <2> QED BY <2>1, <2>3, <2>4 DEF LevelsCome
<1> QED BY <1>5, <1>6

LEMMA MirroredStep ==
  ASSUME Inductive, Inductive', HeapCovers, MarketKnown, KnownAreQueued,
         SweepStays, ToldInTime, MarketMirrored, [Next]_vars
  PROVE  MarketMirrored'
<1>1. ASSUME MarketStays, NodesStay, NothingOwed, NothingOwed'
      PROVE  MarketMirrored'
  <2>1. \A s, q, n : Due(s, q, n)' = Due(s, q, n)
    <3>1. \A s, q, n : Owed(s, q, n) = 0 /\ Owed(s, q, n)' = 0
      BY <1>1, OwedNothing
    <3>2. \A n : Quantity(n)' = Quantity(n)
      BY <1>1 DEF NodesStay, Quantity
    <3> QED BY <3>1, <3>2 DEF Due
  <2> QED BY <1>1, <2>1, MirroredKept
<1>2. ASSUME UNCHANGED paper PROVE MarketStays
  BY <1>2 DEF MarketStays
<1>3. ASSUME UNCHANGED <<book, node>> PROVE NodesStay
  BY <1>3, BookUntouched
<1>4. ASSUME \A side \in Sides : DOMAIN paper'[side] = {}
      PROVE  MarketMirrored'
  <2> SUFFICES ASSUME NEW s \in Sides, NEW q \in DOMAIN paper'[s] PROVE FALSE
    BY MirroredNext
  <2> QED BY <1>4
<1>5. (call = Idle => NothingOwed) /\ (call' = Idle => NothingOwed')
  BY DEF NothingOwed, Idle
<1>6. ASSUME UNCHANGED <<paper, book, node, order_info, call>> PROVE MarketMirrored'
  <2>1. \A n : Untold(n)' = Untold(n)
    <3>1. \A n : Matched(n)' = Matched(n)
      BY <1>6 DEF Matched, NodeOf, Taken
    <3> QED BY <1>6, <3>1, UntoldIs
  <2>2. \A s, q, n : Due(s, q, n)' = Due(s, q, n)
    <3>1. \A n : Quantity(n)' = Quantity(n)
      BY <1>6 DEF Quantity
    <3>2. Handling' = Handling
      BY <1>6 DEF Handling
    <3>3. \A s, q, n : Owed(s, q, n)' = Owed(s, q, n)
      BY <1>6, <2>1, <3>2 DEF Owed
    <3> QED BY <3>1, <3>3 DEF Due
  <2> QED BY <1>2, <1>6, <2>2, MirroredKept
<1>7. ASSUME NEW e \in Events, update(e) PROVE MarketMirrored'
  <2>0. e \in Event
    BY EventsAssumption
  <2>1. CASE OnAdd(e) \/ OnAggressiveTrade(e)
    <3>1. /\ call = Idle
          /\ e.type # "MATCH"
          /\ UNCHANGED <<paper, book, node>>
      BY <2>1 DEF OnAdd, OnAggressiveTrade, Accepts, bookVars, paperVars
    <3>2. call'.event = e /\ call'.deltas = <<>>
      <4>1. CASE OnAdd(e)
        BY <4>1 DEF OnAdd, NewCall
      <4>2. CASE OnAggressiveTrade(e)
        BY <4>2 DEF OnAggressiveTrade, NewCall
      <4> QED BY <2>1, <4>1, <4>2
    <3>3. NothingOwed'
      BY <3>1, <3>2 DEF NothingOwed
    <3> QED BY <1>1, <1>2, <1>3, <1>5, <3>1, <3>3
  <2>2. CASE OnMatch(e)
    BY <2>0, <2>2, MirroredOnArrival
  <2>3. CASE Reject(e)
    BY <1>6, <2>3 DEF Reject, vars, bookVars, paperVars
  <2>4. CASE OnDelete(e) \/ OnSubtract(e) \/ OnSet(e)
    <3>1. /\ call = Idle
          /\ call' = Idle
          /\ \/ \E qty \in Nat : e.id \in DOMAIN order_info /\ SetHistorical(e.id, qty)
             \/ MarketStays /\ UNCHANGED <<book, node, order_info>>
      BY <2>0, <2>4, UpdateTold
    <3> QED BY <1>1, <1>3, <1>5, <3>1, MirroredOnUpdate
  <2> QED BY <1>7, <2>1, <2>2, <2>3, <2>4 DEF update
<1>8. ASSUME NEW rows, InitFromL2Snapshot(rows) \/ InitFromL3Snapshot(rows)
      PROVE  MarketMirrored'
  BY <1>4, <1>8 DEF InitFromL2Snapshot, InitFromL3Snapshot, clear_state, Empty
<1>9. ASSUME NEW side \in Sides, GetBestPriceTicks(side) PROVE MarketMirrored'
  BY <1>6, <1>9 DEF GetBestPriceTicks, paperVars
<1>10. ASSUME Continue PROVE MarketMirrored'
  <2>0. ASSUME call.pc \in {"paper", "rest", "mirror"} PROVE NothingOwed
    <3>1. call.deltas = <<>>
      BY <2>0 DEF ToldInTime, Handling
    <3>2. call.event.type # "MATCH"
      BY <2>0, HandlerFacts DEF HandlerState
    <3> QED BY <3>1, <3>2 DEF NothingOwed
  <2>1. CASE \/ StrategySweep \/ EndSweep \/ TradeAgainstPaper \/ EndPaper \/ EndAdd
    <3>1. NothingOwed
      <4>1. CASE StrategySweep \/ EndSweep
        <5>1. call.pc = "sweep"
          BY <4>1, Zenon DEF StrategySweep, EndSweep
        <5>2. call.event.type # "MATCH"
          BY <5>1, HandlerFacts DEF HandlerState
        <5>3. CASE StrategySweep
          <6>1. call.event.source = "STRATEGY"
            BY <5>3, Zenon DEF StrategySweep
          <6> QED BY <5>1, <5>2, <6>1 DEF SweepStays, NothingOwed
        <5> QED BY <4>1, <5>2, <5>3, SweepEndsTold DEF NothingOwed
      <4>2. CASE TradeAgainstPaper \/ EndPaper \/ EndAdd
        <5>1. call.pc \in {"paper", "rest"}
          BY <4>2, Zenon DEF TradeAgainstPaper, EndPaper, EndAdd
        <5> QED BY <2>0, <5>1
      <4> QED BY <2>1, <4>1, <4>2
    <3>2. /\ UNCHANGED <<book, node>>
          /\ TellsTheSame \/ call' = Idle
      BY <2>1, HandlerMoves DEF TellsTheSame
    <3>3. NothingOwed'
      <4>1. CASE TellsTheSame
        <5>1. call.pc \notin {"idle", "l2", "l3"}
          BY <2>1, Zenon
             DEF StrategySweep, EndSweep, TradeAgainstPaper, EndPaper, EndAdd
        <5> QED BY <3>1, <4>1, <5>1 DEF NothingOwed, TellsTheSame
      <4> QED BY <1>5, <3>2, <4>1
    <3>4. MarketStays
      <4>1. CASE StrategySweep \/ EndSweep \/ EndPaper \/ EndAdd
        <5>1. UNCHANGED paper
          BY <4>1, Zenon DEF StrategySweep, EndSweep, EndPaper, EndAdd, paperVars
        <5> QED BY <1>2, <5>1
      <4> QED BY <2>1, <4>1, FillTeachesNothing
    <3> QED BY <1>1, <1>3, <3>1, <3>2, <3>3, <3>4
  <2>2. CASE HistoricalSweep
    BY <2>2, MirroredOnSweep
  <2>3. CASE QueueFill \/ EndQueue \/ MatchFill
    <3>1. /\ TellsTheSame
          /\ call'.price = call.price
          /\ Handling
          /\ Handling'
      BY <2>3, TradeMoves DEF Handling
    <3>2. \A s, q, n : Due(s, q, n)' = Due(s, q, n)
      <4>1. \A n : Quantity(n)' = Quantity(n)
        BY <3>1 DEF TellsTheSame, Quantity
      <4> QED BY <3>1, <4>1, OwedStays DEF Due
    <3>3. MarketStays
      <4>1. CASE EndQueue \/ MatchFill
        BY <1>2, <4>1 DEF EndQueue, MatchFill, paperVars
      <4> QED BY <2>3, <4>1, FillTeachesNothing
    <3> QED BY <3>2, <3>3, MirroredKept
  <2>4. CASE Settle
    BY <2>4, MirroredOnSettle
  <2>5. CASE EndLevel
    <3>1. /\ call.pc = "settle"
          /\ call.deltas = <<>>
          /\ call.event.type = "ADD"
          /\ call' = [call EXCEPT !.pc = "sweep", !.lots = 0, !.consumed = 0]
          /\ UNCHANGED paper
      BY <2>5 DEF EndLevel, paperVars
    <3>2. call \in Handler
      BY <3>1, HandlerFacts
    <3>3. NothingOwed /\ NothingOwed'
      BY <3>1, <3>2 DEF Handler, NothingOwed
    <3> QED BY <1>1, <1>2, <2>5, <3>1, <3>3, EndLevelKind
  <2>6. CASE RestHistorical
    BY <2>6, MirroredOnRest
  <2>7. CASE AcquirePaperNode \/ MirrorNode
    BY <2>7, MirroredOnMirror
  <2>8. CASE RestStrategy
    <3>1. call.pc = "mirror" /\ call' = Idle /\ UNCHANGED <<book, node>>
      BY <2>8 DEF RestStrategy, bookVars
    <3> QED BY <1>1, <1>3, <1>5, <2>0, <2>8, <3>1, JoiningTeachesNothing
  <2>9. CASE EndMatch
    BY <2>9, MirroredOnMatch
  <2>10. CASE EndSnapshot
    <3>1. /\ call.pc \in {"l2", "l3"}
          /\ call' = Idle
          /\ UNCHANGED <<paper, book, node>>
      BY <2>10 DEF EndSnapshot, bookVars, paperVars
    <3>2. NothingOwed
      BY <3>1 DEF NothingOwed
    <3> QED BY <1>1, <1>2, <1>3, <1>5, <3>1, <3>2
  <2>11. CASE L2Row \/ L3Row
    <3>1. call.pc \in {"l2", "l3"} /\ UNCHANGED paper
      BY <2>11 DEF L2Row, L3Row, paperVars
    <3> QED BY <1>4, <3>1, NoLevels
  <2> QED BY <1>10, <2>1, <2>2, <2>3, <2>4, <2>5, <2>6, <2>7, <2>8, <2>9, <2>10, <2>11
          DEF Continue
<1>11. CASE UNCHANGED vars
  BY <1>6, <1>11 DEF vars, bookVars, paperVars
<1> QED BY <1>7, <1>8, <1>9, <1>10, <1>11 DEF Next

(***************************************************************************)
(* Queue positions do not go stale: the tree of a paper level holds the    *)
(* quantity of every node that the level knows, whatever has been filled,  *)
(* cancelled or resized in the book since the level was made, up to what   *)
(* the running handler has yet to tell it.                                 *)
(***************************************************************************)
THEOREM QueuesMirrored == Spec => []MarketMirrored
<1> DEFINE Mirrors == /\ HeapCovers
                      /\ MarketKnown
                      /\ MirrorFollows
                      /\ KnownAreQueued
                      /\ SweepStays
                      /\ ToldInTime
                      /\ MarketMirrored
<1>1. Init => Mirrors
  <2> SUFFICES ASSUME Init PROVE Mirrors
    OBVIOUS
  <2>1. /\ \A side \in Sides : DOMAIN paper[side] = {} /\ DOMAIN book[side] = {}
        /\ call = Idle
    BY DEF Init, Empty
  <2>2. HeapCovers
    BY <2>1 DEF HeapCovers, Live
  <2>3. MarketKnown /\ KnownAreQueued /\ MarketMirrored
    BY <2>1 DEF MarketKnown, KnownAreQueued, MarketMirrored
  <2>4. MirrorFollows /\ SweepStays /\ ToldInTime
    BY <2>1 DEF MirrorFollows, SweepStays, ToldInTime, Handling, Idle
  <2> QED BY <2>2, <2>3, <2>4
<1>2. Inductive /\ Inductive' /\ Mirrors /\ [Next]_vars => Mirrors'
  BY HeapStep, MarketStep, KnownStep, DeltasStep, MirroredStep
<1>3. Mirrors => MarketMirrored
  OBVIOUS
<1> HIDE DEF Mirrors
<1> QED BY <1>1, <1>2, <1>3, Invariance, PTL DEF Spec
-----------------------------------------------------------------------------
(***************************************************************************)
(* Queue priority.                                                         *)
(***************************************************************************)
LEMMA SumOnSet ==
  ASSUME NEW g, NEW S
  PROVE  SumFunctionOnSet(g, S) = SumOver(g, S)
BY DEF SumFunctionOnSet, FoldFunctionOnSet, SumOver, MapThenSumSet, MapThenFoldSet

LEMMA SmallerSum ==
  ASSUME NEW x \in Int, NEW y \in Int, x <= y, NEW b \in Nat, NEW c \in Nat, b <= c
  PROVE  x + b <= y + c
OBVIOUS

\* A sum over more, of more, is not less.
LEMMA SumMonotone ==
  ASSUME NEW f, NEW g, NEW S, NEW T, IsFiniteSet(T), S \subseteq T,
         \A x \in T : g[x] \in Nat, \A x \in S : f[x] \in Nat /\ f[x] <= g[x]
  PROVE  SumOver(f, S) <= SumOver(g, T)
<1> DEFINE B == {u \in SUBSET T : ~(SumOver(f, u \cap S) <= SumOver(g, u))}
<1> SUFFICES ASSUME T \in B PROVE FALSE
  <2> T \cap S = S
    OBVIOUS
  <2> QED OBVIOUS
<1>1. PICK u \in B : IsFiniteSet(u) /\ \A v \in B : v \subseteq u => v = u
  <2> HIDE DEF B
  <2> QED BY ONLY T \in B, IsFiniteSet(T), LeastSubset
<1>2. /\ IsFiniteSet(u \cap S)
      /\ \A x \in u \cap S : f[x] \in Int
      /\ \A x \in u : g[x] \in Int
  BY <1>1, FS_Subset
<1>3. u # {}
  <2>1. SumOver(f, {}) = 0 /\ SumOver(g, {}) = 0
    BY SumStep, FS_EmptySet
  <2>2. u = {} => u \cap S = {}
    OBVIOUS
  <2>3. u = {} => SumOver(f, u \cap S) = 0 /\ SumOver(g, u) = 0
    BY <2>1, <2>2
  <2>4. u = {} => SumOver(f, u \cap S) <= SumOver(g, u)
    BY <2>3
  <2> QED BY <1>1, <2>4
<1>4. PICK a \in u : TRUE
  BY <1>3
<1>5. SumOver(g, u) = SumOver(g, u \ {a}) + g[a]
  BY <1>1, <1>2, <1>4, SumWithout
<1>6. /\ IsFiniteSet(u \ {a})
      /\ SumOver(g, u \ {a}) \in Int
      /\ SumOver(f, (u \ {a}) \cap S) \in Int
  <2>1. IsFiniteSet(u \ {a}) /\ IsFiniteSet((u \ {a}) \cap S)
    BY <1>1, FS_Subset
  <2> QED BY <1>2, <2>1, SumType
<1>7. SumOver(f, (u \ {a}) \cap S) <= SumOver(g, u \ {a})
  BY <1>1, <1>4
<1>8. g[a] \in Nat
  BY <1>1, <1>4
<1>9. CASE a \in S
  <2>1. (u \cap S) \ {a} = (u \ {a}) \cap S
    OBVIOUS
  <2>2. SumOver(f, u \cap S) = SumOver(f, (u \cap S) \ {a}) + f[a]
    BY <1>2, <1>4, <1>9, SumWithout
  <2>3. f[a] \in Nat /\ f[a] <= g[a]
    BY <1>9
  <2>4. SumOver(f, u \cap S) = SumOver(f, (u \ {a}) \cap S) + f[a]
    BY <2>1, <2>2
  <2>5. SumOver(f, u \cap S) <= SumOver(g, u)
    BY <1>5, <1>6, <1>7, <1>8, <2>3, <2>4, SmallerSum
  <2> QED BY <1>1, <2>5
<1>10. CASE a \notin S
  <2>1. u \cap S = (u \ {a}) \cap S
    BY <1>10
  <2>2. SumOver(f, u \cap S) = SumOver(f, (u \ {a}) \cap S)
    BY <2>1
  <2>3. SumOver(f, u \cap S) + 0 <= SumOver(g, u)
    BY <1>5, <1>6, <1>7, <1>8, <2>2, SmallerSum
  <2>4. SumOver(f, u \cap S) <= SumOver(g, u)
    BY <1>6, <2>2, <2>3
  <2> QED BY <1>1, <2>4
<1> QED BY <1>9, <1>10

\* A sum of nothing but zeros.
LEMMA SumZero ==
  ASSUME NEW g, NEW S, NEW T, IsFiniteSet(T), S \subseteq T,
         \A x \in S : g[x] \in Int, \A x \in T \ S : g[x] = 0
  PROVE  SumOver(g, T) = SumOver(g, S)
<1> DEFINE B == {u \in SUBSET T : SumOver(g, u) # SumOver(g, u \cap S)}
<1> SUFFICES ASSUME T \in B PROVE FALSE
  <2> T \cap S = S
    OBVIOUS
  <2> QED OBVIOUS
<1>1. PICK u \in B : IsFiniteSet(u) /\ \A v \in B : v \subseteq u => v = u
  <2> HIDE DEF B
  <2> QED BY ONLY T \in B, IsFiniteSet(T), LeastSubset
<1>2. PICK a \in u : a \notin S
  <2>1. u \cap S # u
    BY <1>1
  <2> QED BY <2>1
<1>3. \A x \in u : g[x] \in Int
  BY <1>1
<1>4. SumOver(g, u) = SumOver(g, u \ {a}) + g[a]
  BY <1>1, <1>2, <1>3, SumWithout
<1>5. SumOver(g, u \ {a}) \in Int
  <2> IsFiniteSet(u \ {a})
    BY <1>1, FS_Subset
  <2> QED BY <1>3, SumType
<1>6. g[a] = 0
  BY <1>1, <1>2
<1>7. SumOver(g, u \ {a}) = SumOver(g, (u \ {a}) \cap S)
  BY <1>1, <1>2
<1>8. (u \ {a}) \cap S = u \cap S
  BY <1>2
<1> QED BY <1>1, <1>4, <1>5, <1>6, <1>7, <1>8

\* One more element.
LEMMA SumAdded ==
  ASSUME NEW g, NEW S, IsFiniteSet(S), NEW a, a \notin S,
         \A x \in S \cup {a} : g[x] \in Int
  PROVE  /\ IsFiniteSet(S \cup {a})
         /\ SumOver(g, S) \in Int
         /\ SumOver(g, S \cup {a}) = SumOver(g, S) + g[a]
<1>1. IsFiniteSet(S \cup {a})
  BY FS_AddElement
<1>2. (S \cup {a}) \ {a} = S
  OBVIOUS
<1>3. SumOver(g, S \cup {a}) = SumOver(g, (S \cup {a}) \ {a}) + g[a]
  <2> DEFINE u == S \cup {a}
  <2>1. IsFiniteSet(u) /\ (\A x \in u : g[x] \in Int) /\ a \in u
    BY <1>1
  <2> HIDE DEF u
  <2>2. SumOver(g, u) = SumOver(g, u \ {a}) + g[a]
    BY <2>1, SumWithout
  <2> QED BY <2>2 DEF u
<1> QED BY <1>1, <1>2, <1>3, SumType

\* The fills of a list by makers of a source at a price, and by one of them.
FillsIn(fills, source, p) ==
  {k \in DOMAIN fills : fills[k].source = source /\ fills[k].price = p}

FillsWith(fills, source, p, n) == {k \in FillsIn(fills, source, p) : fills[k].seq = n}

LotsIn(fills, source, p) == LotsOf(fills, FillsIn(fills, source, p))

LotsWith(fills, source, p, n) == LotsOf(fills, FillsWith(fills, source, p, n))

SeqsIn(fills, source, p) == {fills[k].seq : k \in FillsIn(fills, source, p)}

LEMMA FillsAre ==
  ASSUME NEW source, NEW p
  PROVE  /\ FillsAt(source, p) = FillsIn(call.fills, source, p)
         /\ Lots(FillsAt(source, p)) = LotsIn(call.fills, source, p)
         /\ \A n : FilledOf(source, p, n) = LotsWith(call.fills, source, p, n)
<1>1. FillsAt(source, p) = FillsIn(call.fills, source, p)
  BY DEF FillsAt, FillsIn
<1>2. \A ks : Lots(ks) = LotsOf(call.fills, ks)
  BY DEF Lots, LotsOf, MapThenSumSet, MapThenFoldSet
<1> QED BY <1>1, <1>2 DEF FilledOf, LotsIn, LotsWith, FillsWith

LEMMA FillsAreNext ==
  ASSUME NEW source, NEW p
  PROVE  /\ FillsAt(source, p)' = FillsIn(call'.fills, source, p)
         /\ Lots(FillsAt(source, p))' = LotsIn(call'.fills, source, p)
         /\ \A n : FilledOf(source, p, n)' = LotsWith(call'.fills, source, p, n)
<1>1. FillsAt(source, p)' = FillsIn(call'.fills, source, p)
  BY DEF FillsAt, FillsIn
<1>2. ASSUME NEW ks
      PROVE  MapThenSumSet(LAMBDA k : call'.fills[k].qty, ks) = LotsOf(call'.fills, ks)
  BY DEF LotsOf, MapThenSumSet, MapThenFoldSet
<1>3. Lots(FillsAt(source, p))' = LotsIn(call'.fills, source, p)
  BY <1>1, <1>2 DEF Lots, LotsIn, MapThenSumSet, MapThenFoldSet
<1>4. ASSUME NEW n
      PROVE  FilledOf(source, p, n)' = LotsWith(call'.fills, source, p, n)
  <2>1. {k \in FillsAt(source, p) : call.fills[k].seq = n}'
          = FillsWith(call'.fills, source, p, n)
    BY <1>1 DEF FillsWith
  <2> QED BY <1>2, <2>1 DEF FilledOf, Lots, LotsWith, MapThenSumSet, MapThenFoldSet
<1> QED BY <1>1, <1>3, <1>4

LEMMA FillsFacts ==
  ASSUME NEW fills \in Seq(Fill), NEW source, NEW p, NEW n
  PROVE  /\ FillsIn(fills, source, p) \subseteq DOMAIN fills
         /\ FillsWith(fills, source, p, n) \subseteq DOMAIN fills
         /\ IsFiniteSet(FillsIn(fills, source, p))
         /\ IsFiniteSet(FillsWith(fills, source, p, n))
         /\ LotsIn(fills, source, p) \in Int
         /\ LotsWith(fills, source, p, n) \in Int
<1>1. /\ FillsIn(fills, source, p) \subseteq DOMAIN fills
      /\ FillsWith(fills, source, p, n) \subseteq DOMAIN fills
  BY DEF FillsIn, FillsWith
<1> QED BY <1>1, LotsType DEF LotsIn, LotsWith

\* Lots are not negative.
LEMMA LotsNatural ==
  ASSUME NEW fills \in Seq(Fill), NEW S, S \subseteq DOMAIN fills
  PROVE  LotsOf(fills, S) \in Nat
<1>1. IsFiniteSet(S) /\ LotsOf(fills, S) \in Int
  BY LotsType
<1> DEFINE g == QuantitiesOf(fills)
<1>2. \A x \in S : g[x] \in Nat
  <2> \A x \in DOMAIN fills : fills[x] \in Fill
    BY LenProperties, ElementOfSeq
  <2> QED BY DEF QuantitiesOf, Fill
<1>3. LotsOf(fills, S) = SumOver(g, S)
  BY <1>1, LotsAreSums
<1> HIDE DEF g
<1>4. SumOver(g, {}) <= SumOver(g, S)
  BY <1>1, <1>2, SumMonotone
<1>5. SumOver(g, {}) = 0
  BY SumStep, FS_EmptySet
<1> QED BY <1>1, <1>3, <1>4, <1>5

LEMMA NothingFilled ==
  ASSUME NEW fills, NEW source, NEW p, NEW n, n \notin SeqsIn(fills, source, p)
  PROVE  FillsWith(fills, source, p, n) = {} /\ LotsWith(fills, source, p, n) = 0
<1>1. FillsWith(fills, source, p, n) = {}
  BY DEF SeqsIn, FillsWith
<1> QED BY <1>1, NoLots DEF LotsWith

\* One more fill.
ExtendedBy(new, fills, last) ==
  /\ fills \in Seq(Fill)
  /\ new \in Seq(Fill)
  /\ DOMAIN fills \subseteq DOMAIN new
  /\ \A k \in DOMAIN fills : new[k] = fills[k]
  /\ last \in DOMAIN new
  /\ last \notin DOMAIN fills

LEMMA LotsAppended ==
  ASSUME NEW new, NEW fills, NEW last, ExtendedBy(new, fills, last),
         NEW S, S \subseteq DOMAIN fills
  PROVE  /\ LotsOf(fills, S) \in Int
         /\ LotsOf(new, S) = LotsOf(fills, S)
         /\ LotsOf(new, S \cup {last}) = LotsOf(fills, S) + new[last].qty
<1>1. IsFiniteSet(S) /\ LotsOf(fills, S) \in Int
  BY LotsType DEF ExtendedBy
<1>2. LotsOf(new, S) = LotsOf(fills, S)
  <2> S \subseteq DOMAIN new /\ \A k \in S : new[k] = fills[k]
    BY DEF ExtendedBy
  <2> QED BY <1>1, LotsSame
<1>3. LotsOf(new, S \cup {last}) = LotsOf(new, S) + new[last].qty
  <2> DEFINE U == S \cup {last}
  <2>1. U \subseteq DOMAIN new /\ last \in U /\ U \ {last} = S
    BY DEF ExtendedBy
  <2>3. new \in Seq(Fill)
    BY DEF ExtendedBy
  <2> HIDE DEF U
  <2>2. LotsOf(new, U) = LotsOf(new, U \ {last}) + new[last].qty
    BY <2>1, <2>3, LotsSplit
  <2> QED BY <2>1, <2>2 DEF U
<1> QED BY <1>1, <1>2, <1>3

OneMore(new, fills, f) == fills \in Seq(Fill) /\ f \in Fill /\ new = Append(fills, f)

LEMMA OneMoreFill ==
  ASSUME NEW new, NEW fills, NEW f, OneMore(new, fills, f), NEW source, NEW p
  PROVE  /\ LotsIn(new, source, p) = LotsIn(fills, source, p) +
              IF f.source = source /\ f.price = p THEN f.qty ELSE 0
         /\ SeqsIn(new, source, p) = SeqsIn(fills, source, p) \cup
              IF f.source = source /\ f.price = p THEN {f.seq} ELSE {}
         /\ \A n : LotsWith(new, source, p, n) = LotsWith(fills, source, p, n) +
              IF f.source = source /\ f.price = p /\ f.seq = n THEN f.qty ELSE 0
<1> DEFINE last == Len(fills) + 1
<1>3. fills \in Seq(Fill)
  BY DEF OneMore
<1>4. /\ new \in Seq(Fill)
      /\ DOMAIN new = DOMAIN fills \cup {last}
      /\ last \notin DOMAIN fills
      /\ \A k \in DOMAIN fills : new[k] = fills[k]
      /\ new[last] = f
  BY AppendedFill DEF OneMore
<1> HIDE DEF last
<1>5. FillsIn(new, source, p) = FillsIn(fills, source, p) \cup
        IF f.source = source /\ f.price = p THEN {last} ELSE {}
  BY <1>4 DEF FillsIn
<1>6. \A n : FillsWith(new, source, p, n) = FillsWith(fills, source, p, n) \cup
        IF f.source = source /\ f.price = p /\ f.seq = n THEN {last} ELSE {}
  BY <1>4, <1>5 DEF FillsWith, FillsIn
<1>7. \A n : /\ FillsIn(fills, source, p) \subseteq DOMAIN fills
             /\ FillsWith(fills, source, p, n) \subseteq DOMAIN fills
             /\ LotsIn(fills, source, p) \in Int
             /\ LotsWith(fills, source, p, n) \in Int
  BY <1>3, FillsFacts
<1>8. ASSUME NEW S, S \subseteq DOMAIN fills
      PROVE  /\ LotsOf(new, S \cup {}) = LotsOf(fills, S) + 0
             /\ LotsOf(new, S \cup {last}) = LotsOf(fills, S) + f.qty
  <2>1. /\ LotsOf(fills, S) \in Int
        /\ LotsOf(new, S) = LotsOf(fills, S)
        /\ LotsOf(new, S \cup {last}) = LotsOf(fills, S) + new[last].qty
    <3>1. /\ DOMAIN fills \subseteq DOMAIN new
          /\ last \in DOMAIN new
      BY <1>4
    <3>2. ExtendedBy(new, fills, last)
      BY <1>3, <1>4, <3>1 DEF ExtendedBy
    <3> QED BY <1>8, <3>2, LotsAppended
  <2>2. S \cup {} = S
    OBVIOUS
  <2> QED BY <1>4, <2>1, <2>2
<1>9. LotsIn(new, source, p) = LotsIn(fills, source, p) +
        IF f.source = source /\ f.price = p THEN f.qty ELSE 0
  <2> DEFINE S == FillsIn(fills, source, p)
  <2>1. S \subseteq DOMAIN fills
    BY <1>7
  <2> HIDE DEF S
  <2>2. /\ LotsOf(new, S \cup {}) = LotsOf(fills, S) + 0
        /\ LotsOf(new, S \cup {last}) = LotsOf(fills, S) + f.qty
    BY <1>8, <2>1
  <2>3. FillsIn(new, source, p) =
          S \cup IF f.source = source /\ f.price = p THEN {last} ELSE {}
    BY <1>5 DEF S
  <2>4. CASE f.source = source /\ f.price = p
    BY <2>2, <2>3, <2>4 DEF LotsIn, S
  <2>5. CASE ~(f.source = source /\ f.price = p)
    BY <2>2, <2>3, <2>5 DEF LotsIn, S
  <2> QED BY <2>4, <2>5
<1>10. ASSUME NEW n
       PROVE  LotsWith(new, source, p, n) = LotsWith(fills, source, p, n) +
                IF f.source = source /\ f.price = p /\ f.seq = n THEN f.qty ELSE 0
  <2> DEFINE S == FillsWith(fills, source, p, n)
  <2>1. S \subseteq DOMAIN fills
    BY <1>7
  <2> HIDE DEF S
  <2>2. /\ LotsOf(new, S \cup {}) = LotsOf(fills, S) + 0
        /\ LotsOf(new, S \cup {last}) = LotsOf(fills, S) + f.qty
    BY <1>8, <2>1
  <2>3. FillsWith(new, source, p, n) =
          S \cup IF f.source = source /\ f.price = p /\ f.seq = n THEN {last} ELSE {}
    BY <1>6 DEF S
  <2>4. CASE f.source = source /\ f.price = p /\ f.seq = n
    BY <2>2, <2>3, <2>4 DEF LotsWith, S
  <2>5. CASE ~(f.source = source /\ f.price = p /\ f.seq = n)
    BY <2>2, <2>3, <2>5 DEF LotsWith, S
  <2> QED BY <2>4, <2>5
<1>11. SeqsIn(new, source, p) = SeqsIn(fills, source, p) \cup
         IF f.source = source /\ f.price = p THEN {f.seq} ELSE {}
  BY <1>4, <1>5 DEF SeqsIn, FillsIn
<1> QED BY <1>9, <1>10, <1>11

\* A prefix sum of a tree whose quantities are those of a list's elements.
LEMMA PrefixIsSum ==
  ASSUME NEW t \in Seq(Int), NEW seqs \in Seq(Nat), Len(t) = Len(seqs),
         Increasing(seqs), NEW g,
         \A k \in DOMAIN seqs : ValueAt(t, k - 1) = g[seqs[k]],
         NEW c \in 0 .. Len(t)
  PROVE  /\ IsFiniteSet({seqs[k] : k \in 1 .. c})
         /\ PrefixSum(t, c) = SumOver(g, {seqs[k] : k \in 1 .. c})
<1> DEFINE first(n) == {seqs[k] : k \in 1 .. n}
           Right(n) == IsFiniteSet(first(n)) /\ PrefixSum(t, n) = SumOver(g, first(n))
           B == {n \in 0 .. Len(t) : ~Right(n)}
<1> SUFFICES ASSUME c \in B PROVE FALSE
  OBVIOUS
<1>1. Len(t) \in Nat /\ DOMAIN seqs = 1 .. Len(t)
  BY LenProperties
<1>2. /\ first(0) = {}
      /\ \A n \in 1 .. Len(t) : first(n) = first(n - 1) \cup {seqs[n]}
  <2>1. ASSUME NEW n \in 1 .. Len(t) PROVE first(n) = first(n - 1) \cup {seqs[n]}
    <3>1. 1 .. n = (1 .. n - 1) \cup {n}
      BY <1>1
    <3> QED BY <3>1
  <2>2. 1 .. 0 = {}
    OBVIOUS
  <2> QED BY <2>1, <2>2
<1>3. \A n \in 1 .. Len(t) : /\ seqs[n] \notin first(n - 1)
                             /\ \A x \in first(n) : \E k \in DOMAIN seqs : x = seqs[k]
  <2> SUFFICES ASSUME NEW n \in 1 .. Len(t)
               PROVE  /\ \A k \in 1 .. n - 1 : seqs[k] # seqs[n]
                      /\ \A k \in 1 .. n : k \in DOMAIN seqs
    BY <1>1
  <2>1. \A k \in 1 .. n : k \in DOMAIN seqs /\ seqs[k] \in Nat
    BY <1>1, ElementOfSeq
  <2>2. ASSUME NEW k \in 1 .. n - 1 PROVE seqs[k] # seqs[n]
    <3>1. k \in DOMAIN seqs /\ n \in DOMAIN seqs /\ k < n
      BY <1>1
    <3>2. seqs[k] < seqs[n]
      BY <3>1 DEF Increasing
    <3>3. seqs[k] \in Nat /\ seqs[n] \in Nat
      BY <3>1, ElementOfSeq
    <3> QED BY <3>2, <3>3
  <2> QED BY <2>1, <2>2
<1> HIDE DEF first
<1>4. PICK n \in B : \A m \in B : n <= m
  <2>1. B \subseteq 0 .. Len(t)
    OBVIOUS
  <2>2. B \subseteq Nat /\ B # {}
    <3> HIDE DEF B
    <3> QED BY <1>1, <2>1
  <2> HIDE DEF B
  <2> QED BY <2>2, LeastNatural
<1>5. \A m \in 0 .. Len(t) : PrefixSum(t, m) \in Int
  BY PrefixSumType
<1>6. Right(0)
  <2>1. SumOver(g, {}) = 0 /\ IsFiniteSet({})
    BY SumStep, FS_EmptySet
  <2>2. PrefixSum(t, 0) = 0
    BY DEF PrefixSum
  <2> QED BY <1>2, <2>1, <2>2
<1>7. n \in 0 .. Len(t) /\ ~Right(n)
  BY <1>4
<1>8. n \in 1 .. Len(t) /\ n - 1 \in 0 .. Len(t)
  <2> HIDE DEF Right
  <2>1. n # 0
    BY <1>6, <1>7
  <2> QED BY <1>1, <1>7, <2>1
<1>9. Right(n - 1)
  <2>1. ~(n <= n - 1)
    BY <1>8
  <2> QED BY <1>4, <1>8, <2>1
<1>10. \A k \in DOMAIN seqs : g[seqs[k]] \in Int
  <2> SUFFICES ASSUME NEW k \in DOMAIN seqs PROVE g[seqs[k]] \in Int
    OBVIOUS
  <2>1. k - 1 \in 0 .. Len(t) /\ (k - 1) + 1 \in 0 .. Len(t)
    BY <1>1
  <2>2. ValueAt(t, k - 1) \in Int
    BY <1>5, <2>1 DEF ValueAt
  <2> QED BY <2>2
<1>11. \A x \in first(n - 1) \cup {seqs[n]} : g[x] \in Int
  <2> SUFFICES ASSUME NEW x \in first(n - 1) \cup {seqs[n]} PROVE g[x] \in Int
    OBVIOUS
  <2>1. x \in first(n)
    BY <1>2, <1>8
  <2>2. PICK k \in DOMAIN seqs : x = seqs[k]
    BY <1>3, <1>8, <2>1
  <2> QED BY <1>10, <2>2
<1>12. PrefixSum(t, n) - PrefixSum(t, n - 1) = g[seqs[n]]
  <2>1. ValueAt(t, n - 1) = g[seqs[n]]
    BY <1>1, <1>8
  <2>2. n - 1 + 1 = n
    BY <1>8
  <2> QED BY <2>1, <2>2 DEF ValueAt
<1>13. /\ IsFiniteSet(first(n))
       /\ SumOver(g, first(n - 1)) \in Int
       /\ SumOver(g, first(n)) = SumOver(g, first(n - 1)) + g[seqs[n]]
  <2>1. first(n) = first(n - 1) \cup {seqs[n]} /\ seqs[n] \notin first(n - 1)
    BY <1>2, <1>3, <1>8
  <2> QED BY <1>9, <1>11, <2>1, SumAdded
<1>14. PrefixSum(t, n) \in Int /\ g[seqs[n]] \in Int
  BY <1>1, <1>5, <1>8, <1>10
<1>15. PrefixSum(t, n) = SumOver(g, first(n))
  BY <1>9, <1>12, <1>13, <1>14
<1> QED BY <1>7, <1>13, <1>15

\* The elements of a list that come before a number are its first ones.
LEMMA PassedElements ==
  ASSUME NEW seqs \in Seq(Nat), Increasing(seqs), NEW s \in Nat
  PROVE  LET c == Cardinality({k \in DOMAIN seqs : \A j \in 1 .. k : seqs[j] < s})
         IN  /\ c \in 0 .. Len(seqs)
             /\ {seqs[k] : k \in 1 .. c} = {x \in ToSet(seqs) : x < s}
<1> DEFINE K == {k \in DOMAIN seqs : \A j \in 1 .. k : seqs[j] < s}
           M == {k \in 1 .. Len(seqs) + 1 : k \notin K}
<1>1. Len(seqs) \in Nat /\ DOMAIN seqs = 1 .. Len(seqs)
  BY LenProperties
<1>2. PICK m \in M : \A k \in M : m <= k
  <2>1. M \subseteq Nat /\ Len(seqs) + 1 \in M
    BY <1>1
  <2> HIDE DEF M
  <2> QED BY <2>1, LeastNatural
<1>3. m \in Nat /\ m - 1 \in 0 .. Len(seqs)
  BY <1>1, <1>2
<1>4. \A k \in DOMAIN seqs : seqs[k] \in Nat
  BY <1>1, ElementOfSeq
<1>5. \A k \in 1 .. m - 1 : k \in K
  BY <1>1, <1>2, <1>3
<1>6. \A k \in DOMAIN seqs : k >= m => ~(seqs[k] < s)
  <2> SUFFICES ASSUME NEW k \in DOMAIN seqs, k >= m, seqs[k] < s PROVE FALSE
    OBVIOUS
  <2>1. m \in DOMAIN seqs /\ m \notin K
    BY <1>1, <1>2
  <2>2. PICK j \in 1 .. m : ~(seqs[j] < s)
    BY <2>1
  <2>3. j \in DOMAIN seqs /\ j <= k
    BY <1>1, <2>1, <2>2
  <2>4. seqs[j] <= seqs[k]
    BY <1>1, <1>4, <2>3 DEF Increasing
  <2> QED BY <1>4, <2>2, <2>3, <2>4
<1>7. K = 1 .. m - 1
  <2>1. ASSUME NEW k \in K PROVE k \in 1 .. m - 1
    <3>1. k \in 1 .. Len(seqs) /\ seqs[k] < s
      BY <1>1
    <3>2. ~(k >= m)
      BY <1>1, <1>6, <3>1
    <3> QED BY <1>3, <3>1, <3>2
  <2> QED BY <1>5, <2>1
<1>8. Cardinality(K) = m - 1
  <2>1. m - 1 \in Int /\ 1 \in Int
    BY <1>3
  <2>2. Cardinality(1 .. m - 1) = IF 1 > m - 1 THEN 0 ELSE (m - 1) - 1 + 1
    BY <2>1, FS_Interval
  <2>3. Cardinality(1 .. m - 1) = m - 1
    BY <1>3, <2>2
  <2> HIDE DEF K
  <2> QED BY <1>7, <2>3
<1>9. {seqs[k] : k \in 1 .. m - 1} = {x \in ToSet(seqs) : x < s}
  <2>1. ToSet(seqs) = {seqs[k] : k \in DOMAIN seqs}
    BY DEF ToSet
  <2>2. \A k \in 1 .. m - 1 : k \in DOMAIN seqs /\ seqs[k] < s
    BY <1>3, <1>5
  <2>3. \A k \in DOMAIN seqs : seqs[k] < s => k \in 1 .. m - 1
    BY <1>1, <1>3, <1>6
  <2> HIDE DEF K, M
  <2> QED BY <2>1, <2>2, <2>3
<1> QED BY <1>3, <1>8, <1>9

\* What is ahead of a paper order in its level's list is a sum over the nodes
\* that the level knows.
LEMMA AheadIsSum ==
  ASSUME NEW level \in PaperOrderLevel, Increasing(level.market_seqs),
         Len(level.market_qty) = Len(level.market_seqs), NEW g,
         \A k \in DOMAIN level.market_seqs :
           ValueAt(level.market_qty, k - 1) = g[level.market_seqs[k]],
         NEW s \in Nat
  PROVE  /\ IsFiniteSet({x \in ToSet(level.market_seqs) : x < s})
         /\ MarketAhead(level, s) = SumOver(g, {x \in ToSet(level.market_seqs) : x < s})
<1>1. level.market_qty \in Seq(Int) /\ level.market_seqs \in Seq(Nat)
  BY DEF PaperOrderLevel
<1>2. PICK t \in Seq(Int), seqs \in Seq(Nat) :
        t = level.market_qty /\ seqs = level.market_seqs
  BY <1>1
<1> DEFINE c == Cardinality({k \in DOMAIN seqs : \A j \in 1 .. k : seqs[j] < s})
<1>3. MarketAhead(level, s) = PrefixSum(t, c)
  BY <1>2 DEF MarketAhead
<1>4. /\ c \in 0 .. Len(seqs)
      /\ {seqs[k] : k \in 1 .. c} = {x \in ToSet(seqs) : x < s}
  BY <1>2, PassedElements
<1> HIDE DEF c
<1>5. /\ IsFiniteSet({seqs[k] : k \in 1 .. c})
      /\ PrefixSum(t, c) = SumOver(g, {seqs[k] : k \in 1 .. c})
  <2>1. Len(t) = Len(seqs) /\ Increasing(seqs) /\ c \in 0 .. Len(t)
    BY <1>2, <1>4
  <2>2. \A k \in DOMAIN seqs : ValueAt(t, k - 1) = g[seqs[k]]
    BY <1>2
  <2> QED BY <2>1, <2>2, PrefixIsSum
<1> QED BY <1>2, <1>3, <1>4, <1>5

\* A tree has nothing up to the first quantity that is not 0.
LEMMA ZeroPrefix ==
  ASSUME NEW t \in Seq(Int), NEW c \in 0 .. Len(t),
         \A i \in 0 .. c - 1 : ValueAt(t, i) = 0
  PROVE  PrefixSum(t, c) = 0
<1> DEFINE B == {n \in 0 .. c : PrefixSum(t, n) # 0}
<1> SUFFICES ASSUME c \in B PROVE FALSE
  BY LenProperties
<1>1. Len(t) \in Nat
  BY LenProperties
<1>2. PICK n \in B : \A m \in B : n <= m
  <2>1. B \subseteq Nat /\ B # {}
    BY <1>1
  <2> HIDE DEF B
  <2> QED BY <2>1, LeastNatural
<1>3. n \in 0 .. c /\ PrefixSum(t, n) # 0
  BY <1>2
<1>4. n # 0
  BY <1>3 DEF PrefixSum
<1>5. n - 1 \in 0 .. c - 1 /\ n - 1 \in 0 .. c /\ (n - 1) + 1 = n
  BY <1>1, <1>3, <1>4
<1>6. PrefixSum(t, n - 1) = 0
  <2>1. ~(n <= n - 1)
    BY <1>5
  <2> QED BY <1>2, <1>5, <2>1
<1>7. PrefixSum(t, n) - PrefixSum(t, n - 1) = 0
  <2>1. ValueAt(t, n - 1) = 0
    BY <1>5
  <2> QED BY <1>5, <2>1 DEF ValueAt
<1>8. PrefixSum(t, n) \in Int
  BY <1>1, <1>3, PrefixSumType
<1> QED BY <1>3, <1>6, <1>7, <1>8

\* What a tree has before an index is not negative if no quantity there is.
LEMMA NaturalPrefix ==
  ASSUME NEW t \in Seq(Int), NEW c \in 0 .. Len(t),
         \A i \in 0 .. c - 1 : ValueAt(t, i) >= 0
  PROVE  PrefixSum(t, c) \in Nat
<1> DEFINE B == {n \in 0 .. c : ~(PrefixSum(t, n) >= 0)}
<1>1. Len(t) \in Nat
  BY LenProperties
<1>2. \A n \in 0 .. c : PrefixSum(t, n) \in Int
  BY <1>1, PrefixSumType
<1> SUFFICES ASSUME c \in B PROVE FALSE
  BY <1>1, <1>2
<1>3. PICK n \in B : \A m \in B : n <= m
  <2>1. B \subseteq Nat /\ B # {}
    BY <1>1
  <2> HIDE DEF B
  <2> QED BY <2>1, LeastNatural
<1>4. n \in 0 .. c /\ ~(PrefixSum(t, n) >= 0)
  BY <1>3
<1>5. n # 0
  BY <1>4 DEF PrefixSum
<1>6. n - 1 \in 0 .. c - 1 /\ n - 1 \in 0 .. c /\ (n - 1) + 1 = n
  BY <1>1, <1>4, <1>5
<1>7. PrefixSum(t, n - 1) >= 0
  <2>1. ~(n <= n - 1)
    BY <1>6
  <2> QED BY <1>3, <1>6, <2>1
<1>8. PrefixSum(t, n) - PrefixSum(t, n - 1) >= 0
  <2>1. ValueAt(t, n - 1) >= 0
    BY <1>6
  <2> QED BY <1>6, <2>1 DEF ValueAt
<1>9. PrefixSum(t, n) \in Int /\ PrefixSum(t, n - 1) \in Int
  BY <1>2, <1>4, <1>6
<1> QED BY <1>4, <1>7, <1>8, <1>9

LEMMA ImageFinite ==
  ASSUME NEW f, IsFiniteSet(DOMAIN f)
  PROVE  IsFiniteSet({f[x] : x \in DOMAIN f})
<1> DEFINE S == DOMAIN f
           T == {f[x] : x \in DOMAIN f}
           h == [x \in S |-> f[x]]
<1>1. h \in Surjection(S, T)
  BY DEF Surjection
<1> HIDE DEF S, T, h
<1>2. IsFiniteSet(S)
  BY DEF S
<1>3. IsFiniteSet(T)
  BY <1>1, <1>2, FS_Surjection
<1> QED BY <1>3 DEF T

(***************************************************************************)
(* The level where lots have traded: its nodes, its paper orders and their *)
(* quantities.                                                             *)
(***************************************************************************)
LEMMA MarketBeforeIs ==
  ASSUME NEW n
  PROVE  /\ MarketBefore(n) = SumOver(MarketLots, {m \in TradingNodes : m < n})
         /\ MarketBefore(n)' = SumOver(MarketLots', {m \in TradingNodes' : m < n})
<1>1. MarketBefore(n) = SumOver(MarketLots, {m \in TradingNodes : m < n})
  BY SumOnSet DEF MarketBefore
<1>2. MarketBefore(n)' = SumOver(MarketLots', {m \in TradingNodes' : m < n})
  BY DEF MarketBefore, SumFunctionOnSet, FoldFunctionOnSet, SumOver, MapThenSumSet,
         MapThenFoldSet
<1> QED BY <1>1, <1>2

LEMMA LotsAheadIs ==
  ASSUME NEW n
  PROVE  /\ LotsAhead(n) =
              MarketBefore(n) + SumOver(PaperLots, {m \in TradingPapers : m < n})
         /\ LotsAhead(n)' =
              MarketBefore(n)' + SumOver(PaperLots', {m \in TradingPapers' : m < n})
<1>1. SumFunctionOnSet(PaperLots, {m \in TradingPapers : m < n})
        = SumOver(PaperLots, {m \in TradingPapers : m < n})
  BY SumOnSet
<1>2. SumFunctionOnSet(PaperLots, {m \in TradingPapers : m < n})'
        = SumOver(PaperLots', {m \in TradingPapers' : m < n})
  BY DEF SumFunctionOnSet, FoldFunctionOnSet, SumOver, MapThenSumSet, MapThenFoldSet
<1>3. LotsAhead(n) = MarketBefore(n) + SumOver(PaperLots, {m \in TradingPapers : m < n})
  BY <1>1 DEF LotsAhead
<1>4. LotsAhead(n)' =
        MarketBefore(n)' + SumFunctionOnSet(PaperLots, {m \in TradingPapers : m < n})'
  BY DEF LotsAhead
<1> QED BY <1>2, <1>3, <1>4

PlacementOf(id) == paper_orders[id].placement_seq

RestingWith(n) == {id \in RestingIds : PlacementOf(id) = n}

RestingLots == [id \in RestingIds |-> paper_orders[id].remaining]

LEMMA TradingNodesFacts ==
  ASSUME Inductive, ToldInTime, call.pc = "queue"
  PROVE  /\ call.side \in Sides
         /\ call.price \in DOMAIN book[call.side]
         /\ TradingNodes = ToSet(QueueAt(call.side, call.price)) \cup
                             SeqsIn(call.fills, "HISTORICAL", call.price)
         /\ IsFiniteSet(TradingNodes)
         /\ DOMAIN MarketLots = TradingNodes
         /\ \A n \in TradingNodes :
              /\ n \in Nat
              /\ MarketLots[n] =
                   Quantity(n) + LotsWith(call.fills, "HISTORICAL", call.price, n)
              /\ MarketLots[n] \in Nat
<1>1. /\ call.side \in Sides
      /\ call.fills \in Seq(Fill)
      /\ call.event.type \in {"ADD", "MATCH"}
      /\ call.event.type = "ADD" => call.price \in DOMAIN book[call.side]
      /\ call.event.type = "MATCH" => call.event.id \in DOMAIN order_info
  BY HandlerFacts DEF HandlerState
<1>2. call.price \in DOMAIN book[call.side]
  <2>1. CASE call.event.type = "ADD"
    BY <1>1, <2>1
  <2>2. CASE call.event.type = "MATCH"
    <3>1. call.side = Side(call.event.id) /\ call.price = Price(call.event.id)
      BY <2>2 DEF ToldInTime, Handling
    <3>2. Price(call.event.id) \in DOMAIN book[Side(call.event.id)]
      BY <1>1, <2>2, OrderFacts DEF Inductive
    <3> QED BY <3>1, <3>2
  <2> QED BY <1>1, <2>1, <2>2
<1> DEFINE queue == QueueAt(call.side, call.price)
           seqs == SeqsIn(call.fills, "HISTORICAL", call.price)
<1>3. TradingNodes = ToSet(queue) \cup seqs
  BY <1>2, FillsAre DEF TradingNodes, QueueAt, SeqsIn
<1>4. /\ Len(queue) \in Nat
      /\ DOMAIN queue = 1 .. Len(queue)
      /\ \A n \in ToSet(queue) : n \in Nat
  BY <1>1, QueueAtFacts DEF Inductive
<1>5. IsFiniteSet(ToSet(queue))
  <2>1. IsFiniteSet(DOMAIN queue)
    BY <1>4, FS_Interval
  <2> HIDE DEF queue
  <2> QED BY <2>1, ImageFinite DEF ToSet
<1>6. IsFiniteSet(seqs) /\ \A n \in seqs : n \in Nat
  <2> DEFINE S == FillsIn(call.fills, "HISTORICAL", call.price)
             f == [k \in S |-> call.fills[k].seq]
  <2>1. S \subseteq DOMAIN call.fills /\ IsFiniteSet(S)
    BY <1>1, FillsFacts
  <2>2. DOMAIN f = S
    OBVIOUS
  <2>3. seqs = {f[k] : k \in DOMAIN f}
    BY DEF SeqsIn
  <2>4. IsFiniteSet({f[k] : k \in DOMAIN f})
    <3> HIDE DEF f, S
    <3> QED BY <2>1, <2>2, ImageFinite
  <2>5. \A k \in S : call.fills[k].seq \in Nat
    BY <1>1, <2>1, FillFacts
  <2> QED BY <2>3, <2>4, <2>5
<1> HIDE DEF queue, seqs
<1>7. IsFiniteSet(TradingNodes) /\ \A n \in TradingNodes : n \in Nat
  BY <1>3, <1>4, <1>5, <1>6, FS_Union
<1>8. DOMAIN MarketLots = TradingNodes
  BY DEF MarketLots
<1>9. ASSUME NEW n \in TradingNodes
      PROVE  /\ MarketLots[n] =
                  Quantity(n) + LotsWith(call.fills, "HISTORICAL", call.price, n)
             /\ MarketLots[n] \in Nat
  <2>1. MarketLots[n] = Quantity(n) + LotsWith(call.fills, "HISTORICAL", call.price, n)
    BY FillsAre DEF MarketLots
  <2>2. LotsWith(call.fills, "HISTORICAL", call.price, n) \in Nat
    BY <1>1, FillsFacts, LotsNatural DEF LotsWith
  <2> QED BY <2>1, <2>2, OwedType
<1> QED BY <1>1, <1>2, <1>3, <1>7, <1>8, <1>9 DEF queue, seqs

LEMMA TradingPapersFacts ==
  ASSUME Inductive, call.pc = "queue"
  PROVE  /\ FilledSeqs = SeqsIn(call.fills, "STRATEGY", call.price)
         /\ TradingPapers = {PlacementOf(id) : id \in RestingIds} \cup FilledSeqs
         /\ IsFiniteSet(TradingPapers)
         /\ IsFiniteSet(FilledSeqs)
         /\ IsFiniteSet(RestingIds)
         /\ \A n \in TradingPapers : n \in Nat
         /\ \A id \in RestingIds :
              /\ id \in DOMAIN paper_orders
              /\ PlacementOf(id) \in Nat
              /\ RestingLots[id] = paper_orders[id].remaining
              /\ RestingLots[id] \in Nat
         /\ DOMAIN PaperLots = TradingPapers
         /\ \A n \in TradingPapers :
              /\ PaperLots[n] = LotsWith(call.fills, "STRATEGY", call.price, n) +
                                  SumOver(RestingLots, RestingWith(n))
              /\ PaperLots[n] \in Nat
         /\ \A n : LotsWith(call.fills, "STRATEGY", call.price, n) \in Nat
<1>1. call.fills \in Seq(Fill)
  BY HandlerFacts
<1>2. FilledSeqs = SeqsIn(call.fills, "STRATEGY", call.price)
  BY FillsAre DEF FilledSeqs, SeqsIn
<1>3. TradingPapers = {PlacementOf(id) : id \in RestingIds} \cup FilledSeqs
  BY DEF TradingPapers, PlacementOf
<1>4. IsFiniteSet(FilledSeqs) /\ \A n \in FilledSeqs : n \in Nat
  <2> DEFINE S == FillsIn(call.fills, "STRATEGY", call.price)
             f == [k \in S |-> call.fills[k].seq]
  <2>1. S \subseteq DOMAIN call.fills /\ IsFiniteSet(S)
    BY <1>1, FillsFacts
  <2>2. DOMAIN f = S
    OBVIOUS
  <2>3. FilledSeqs = {f[k] : k \in DOMAIN f}
    BY <1>2 DEF SeqsIn
  <2>4. IsFiniteSet({f[k] : k \in DOMAIN f})
    <3> HIDE DEF f, S
    <3> QED BY <2>1, <2>2, ImageFinite
  <2>5. \A k \in S : call.fills[k].seq \in Nat
    BY <1>1, <2>1, FillFacts
  <2> QED BY <2>3, <2>4, <2>5
<1>5. IsFiniteSet(RestingIds)
  <2>1. RestingIds \subseteq paper_pool
    BY DEF RestingIds, Inductive, PoolMatches
  <2>2. IsFiniteSet(paper_pool)
    BY DEF Inductive, PoolMatches
  <2> QED BY <2>1, <2>2, FS_Subset
<1>6. \A id \in RestingIds :
        /\ id \in DOMAIN paper_orders
        /\ PlacementOf(id) \in Nat
        /\ RestingLots[id] = paper_orders[id].remaining
        /\ RestingLots[id] \in Nat
  BY PaperOrderFacts DEF RestingIds, PlacementOf, RestingLots, Inductive
<1>7. IsFiniteSet({PlacementOf(id) : id \in RestingIds})
  <2> DEFINE f == [id \in RestingIds |-> PlacementOf(id)]
  <2>1. DOMAIN f = RestingIds
    OBVIOUS
  <2>2. IsFiniteSet({f[id] : id \in DOMAIN f})
    <3> HIDE DEF f
    <3> QED BY <1>5, <2>1, ImageFinite
  <2> QED BY <2>2
<1>8. IsFiniteSet(TradingPapers) /\ \A n \in TradingPapers : n \in Nat
  BY <1>3, <1>4, <1>6, <1>7, FS_Union
<1>9. \A n : LotsWith(call.fills, "STRATEGY", call.price, n) \in Nat
  BY <1>1, FillsFacts, LotsNatural DEF LotsWith
<1>10. DOMAIN PaperLots = TradingPapers
  BY DEF PaperLots
<1>11. ASSUME NEW n \in TradingPapers
       PROVE  /\ PaperLots[n] = LotsWith(call.fills, "STRATEGY", call.price, n) +
                                  SumOver(RestingLots, RestingWith(n))
              /\ PaperLots[n] \in Nat
  <2>1. SumFunctionOnSet(RestingLots, RestingWith(n)) = SumOver(RestingLots, RestingWith(n))
    BY SumOnSet
  <2>2. PaperLots[n] = FilledOf("STRATEGY", call.price, n) +
                         SumFunctionOnSet(RestingLots, RestingWith(n))
    BY DEF PaperLots, RestingLots, RestingWith, PlacementOf
  <2>3. FilledOf("STRATEGY", call.price, n) = LotsWith(call.fills, "STRATEGY", call.price, n)
    BY FillsAre
  <2>4. SumOver(RestingLots, RestingWith(n)) \in Nat
    <3> DEFINE S == RestingWith(n)
    <3>1. IsFiniteSet(S) /\ \A id \in S : RestingLots[id] \in Nat
      BY <1>5, <1>6, FS_Subset DEF RestingWith
    <3> HIDE DEF S
    <3>2. SumOver(RestingLots, {}) <= SumOver(RestingLots, S)
      BY <3>1, SumMonotone
    <3>3. SumOver(RestingLots, {}) = 0 /\ SumOver(RestingLots, S) \in Int
      BY <3>1, SumStep, SumType, FS_EmptySet
    <3> QED BY <3>2, <3>3 DEF S
  <2> QED BY <1>9, <2>1, <2>2, <2>3, <2>4
<1> QED BY <1>2, <1>3, <1>4, <1>5, <1>6, <1>8, <1>9, <1>10, <1>11

\* Paper orders that rest at the level: no two were placed at once, and the
\* first of the queue was placed first.  Only stale lots are ahead of it.
LEMMA QueueHead ==
  ASSUME Inductive, QueuedLots, call.pc = "queue", NEW id \in RestingIds
  PROVE  /\ HasPaperLevel(call.side, call.price)
         /\ QueueLevel \in PaperOrderLevel
         /\ QueueLevel.orders # <<>>
         /\ Head(QueueLevel.orders) \in RestingIds
         /\ PlacementOf(Head(QueueLevel.orders)) <= PlacementOf(id)
         /\ PlacementOf(Head(QueueLevel.orders)) = PlacementOf(id) =>
              id = Head(QueueLevel.orders)
         /\ AheadPaper \in Nat
         /\ NothingStale => AheadPaper = 0
         /\ RestingWith(PlacementOf(id)) = {id}
<1> DEFINE side == call.side
           p == call.price
           level == paper[side][p]
           ids == level.orders
<1>1. side \in Sides /\ PaperInvariant
  BY HandlerFacts DEF Inductive
<1>2. id \in DOMAIN paper_orders /\ paper_order_info[id] = [side |-> side, price |-> p]
  BY DEF RestingIds
<1>3. p \in DOMAIN paper[side] /\ id \in ToSet(ids)
  <2>1. /\ paper_order_info[id].side = side
        /\ paper_order_info[id].price = p
    BY <1>2
  <2> QED BY <1>1, <1>2, <2>1, PaperOrderFacts
<1>4. /\ TypedQueue(ids, paper_orders)
      /\ level \in PaperOrderLevel
      /\ level.paper_qty \in Seq(Int)
      /\ \A x \in ToSet(ids) : x \in RestingIds
  BY <1>1, <1>3, QueueTyped, LevelFacts DEF RestingIds
<1>5. LotsHeld(ids, level.paper_qty, level.queued_lots, paper_orders)
  BY <1>1, <1>3, QueuedLotsHeld
<1>6. \A x \in RestingIds : x \in ToSet(ids)
  BY <1>1, <1>3, LevelFacts DEF RestingIds, RestingAt
<1> HIDE DEF level, ids
<1>7. /\ ids \in Seq(Ids)
      /\ Len(ids) \in Nat
      /\ DOMAIN ids = 1 .. Len(ids)
      /\ \A x \in ToSet(ids) : \E k \in DOMAIN ids : x = ids[k]
      /\ \A k \in DOMAIN ids : ids[k] \in ToSet(ids)
  BY <1>4, LenProperties DEF TypedQueue, ToSet
<1>8. ids # <<>> /\ 1 \in DOMAIN ids /\ Head(ids) = ids[1]
  <2>1. PICK k \in DOMAIN ids : id = ids[k]
    BY <1>3, <1>7
  <2>2. Len(ids) # 0 /\ 1 \in DOMAIN ids
    BY <1>7, <2>1
  <2> QED BY <1>7, <2>2, EmptySeq, HeadTailProperties
<1>9. /\ \A k \in DOMAIN ids :
           /\ PlacementOf(ids[k]) \in Nat
           /\ paper_orders[ids[k]].paper_index \in Nat
      /\ \A j, k \in DOMAIN ids : j < k =>
           /\ PlacementOf(ids[j]) < PlacementOf(ids[k])
           /\ paper_orders[ids[j]].paper_index < paper_orders[ids[k]].paper_index
  BY <1>4, <1>5, <1>7 DEF TypedQueue, LotsHeld, PlacementOf
<1>10. \A j, k \in DOMAIN ids : PlacementOf(ids[j]) = PlacementOf(ids[k]) => j = k
  BY <1>7, <1>9
<1>11. PICK k \in DOMAIN ids : id = ids[k]
  BY <1>3, <1>7
<1>12. /\ PlacementOf(ids[1]) <= PlacementOf(id)
       /\ PlacementOf(ids[1]) = PlacementOf(id) => id = ids[1]
  BY <1>7, <1>8, <1>9, <1>10, <1>11
<1>13. RestingWith(PlacementOf(id)) = {id}
  <2>1. ASSUME NEW x \in RestingWith(PlacementOf(id)) PROVE x = id
    <3>1. x \in ToSet(ids) /\ PlacementOf(x) = PlacementOf(id)
      BY <1>6, <2>1 DEF RestingWith
    <3>2. PICK j \in DOMAIN ids : x = ids[j]
      BY <1>7, <3>1
    <3> QED BY <1>10, <1>11, <3>1, <3>2
  <2> QED BY <2>1 DEF RestingWith
<1>14. /\ PrefixSum(level.paper_qty, paper_orders[ids[1]].paper_index) \in Nat
       /\ NothingStale =>
            PrefixSum(level.paper_qty, paper_orders[ids[1]].paper_index) = 0
  <2> DEFINE c == paper_orders[ids[1]].paper_index
  <2>1. /\ Len(level.paper_qty) \in Nat
        /\ c \in Nat
        /\ c < Len(level.paper_qty)
    BY <1>4, <1>5, <1>8, <1>9, LenProperties DEF LotsHeld
  <2>2. ASSUME NEW i \in 0 .. c - 1
        PROVE  /\ ValueAt(level.paper_qty, i) >= 0
               /\ NothingStale => ValueAt(level.paper_qty, i) = 0
    <3>1. \A j \in DOMAIN ids : paper_orders[ids[j]].paper_index # i
      <4> SUFFICES ASSUME NEW j \in DOMAIN ids PROVE paper_orders[ids[j]].paper_index >= c
        BY <1>9, <2>1
      <4>1. j = 1 \/ 1 < j
        BY <1>7
      <4> QED BY <1>8, <1>9, <4>1
    <3>2. i \in 0 .. Len(level.paper_qty) - 1
      BY <2>1
    <3>3. ValueAt(level.paper_qty, i) >= 0
      BY <1>5, <3>1, <3>2 DEF LotsHeld
    <3>4. ASSUME NothingStale PROVE ValueAt(level.paper_qty, i) = 0
      <4>1. \A x \in ToSet(ids) : paper_orders[x].paper_index # i
        BY <1>7, <3>1
      <4> QED BY <3>2, <3>4, <4>1 DEF NothingStale, NoStaleLots, level, ids
    <3> QED BY <3>3, <3>4
  <2>3. c \in 0 .. Len(level.paper_qty)
    BY <2>1
  <2> HIDE DEF c
  <2>4. PrefixSum(level.paper_qty, c) \in Nat
    BY <1>4, <2>2, <2>3, NaturalPrefix
  <2>5. NothingStale => PrefixSum(level.paper_qty, c) = 0
    BY <1>4, <2>2, <2>3, ZeroPrefix
  <2> QED BY <2>4, <2>5 DEF c
<1>15. QueueLevel = level /\ QueueLevel.orders = ids
  BY DEF QueueLevel, level, ids
<1>16. AheadPaper \in Nat /\ (NothingStale => AheadPaper = 0)
  BY <1>8, <1>14, <1>15 DEF AheadPaper, FirstOrder
<1> QED BY <1>3, <1>4, <1>7, <1>8, <1>12, <1>13, <1>15, <1>16 DEF HasPaperLevel

\* The level's tree agrees with what its nodes had before the trade.
LEMMA QueueMarket ==
  ASSUME Inductive, MarketKnown, KnownAreQueued, ToldInTime, MarketMirrored, LevelTrades,
         call.pc = "queue", HasPaperLevel(call.side, call.price),
         QueueLevel.orders # <<>>, NEW s \in Nat
  PROVE  MarketAhead(QueueLevel, s) = MarketBefore(s)
<1> DEFINE side == call.side
           p == call.price
           level == QueueLevel
           seqs == level.market_seqs
           fills == call.fills
           g == [n \in ToSet(seqs) |-> Quantity(n) + LotsWith(fills, "HISTORICAL", p, n)]
           K == {x \in ToSet(seqs) : x < s}
           T == {m \in TradingNodes : m < s}
<1>1. /\ side \in Sides
      /\ p \in DOMAIN paper[side]
      /\ level = paper[side][p]
      /\ Handling
      /\ PaperInvariant
      /\ fills \in Seq(Fill)
  BY HandlerFacts DEF HasPaperLevel, QueueLevel, Handling, Inductive
<1>2. /\ level \in PaperOrderLevel
      /\ Increasing(seqs)
      /\ seqs \in Seq(Nat)
      /\ Len(level.market_qty) = Len(seqs)
      /\ \A n \in ToSet(seqs) : n < order_arrival_seq /\ n \in 0 .. order_arrival_seq
      /\ ToSet(QueueAt(side, p)) \subseteq ToSet(seqs)
  <2>1. /\ level \in PaperOrderLevel
        /\ Len(level.market_qty) = Len(seqs)
        /\ seqs \in Seq(Nat)
    BY <1>1, LevelFacts
  <2>2. /\ Increasing(seqs)
        /\ \A n \in ToSet(seqs) : n < order_arrival_seq
        /\ ToSet(QueueAt(side, p)) \subseteq ToSet(seqs)
    BY <1>1 DEF MarketKnown
  <2>3. \A n \in ToSet(seqs) : n \in Nat
    BY <2>1, LenProperties, ElementOfSeq DEF ToSet
  <2>4. order_arrival_seq \in Nat
    BY DEF Inductive, BookInvariant, BookTypes
  <2> QED BY <2>1, <2>2, <2>3, <2>4
<1>3. \A n \in ToSet(seqs) : Due(side, p, n) = g[n]
  <2> SUFFICES ASSUME NEW n \in ToSet(seqs)
               PROVE  Due(side, p, n) = Quantity(n) + LotsWith(fills, "HISTORICAL", p, n)
    OBVIOUS
  <2>1. Untold(n) = FilledOf("HISTORICAL", p, n)
    BY <1>2 DEF LevelTrades
  <2>2. Owed(side, p, n) = Untold(n)
    BY <1>1 DEF Owed
  <2> QED BY <2>1, <2>2, FillsAre DEF Due
<1>4. \A k \in DOMAIN seqs : ValueAt(level.market_qty, k - 1) = g[seqs[k]]
  <2> SUFFICES ASSUME NEW k \in DOMAIN seqs
               PROVE  ValueAt(level.market_qty, k - 1) = g[seqs[k]]
    OBVIOUS
  <2>1. seqs[k] \in ToSet(seqs)
    BY DEF ToSet
  <2>2. ValueAt(level.market_qty, k - 1) = Due(side, p, seqs[k])
    BY <1>1, MirroredAt
  <2> HIDE DEF g, seqs
  <2> QED BY <1>3, <2>1, <2>2
<1>5. TradingNodes = ToSet(QueueAt(side, p)) \cup SeqsIn(fills, "HISTORICAL", p)
  BY TradingNodesFacts
<1>6. TradingNodes \subseteq ToSet(seqs)
  <2>1. \A k \in FillsAt("HISTORICAL", p) : fills[k].seq \in ToSet(seqs)
    BY <1>1 DEF LevelTrades, HasPaperLevel
  <2>2. SeqsIn(fills, "HISTORICAL", p) \subseteq ToSet(seqs)
    BY <2>1, FillsAre DEF SeqsIn
  <2> QED BY <1>2, <1>5, <2>2
<1>7. \A n \in TradingNodes : MarketLots[n] = g[n] /\ MarketLots[n] \in Nat
  BY <1>6, TradingNodesFacts
<1>8. \A n \in ToSet(seqs) : n \notin TradingNodes => g[n] = 0
  <2> SUFFICES ASSUME NEW n \in ToSet(seqs), n \notin TradingNodes
               PROVE  Quantity(n) + LotsWith(fills, "HISTORICAL", p, n) = 0
    OBVIOUS
  <2>1. n \notin DOMAIN node
    BY <1>1, <1>5 DEF KnownAreQueued
  <2>2. LotsWith(fills, "HISTORICAL", p, n) = 0
    BY <1>5, NothingFilled
  <2> QED BY <2>1, <2>2 DEF Quantity
<1> HIDE DEF g
<1>9. IsFiniteSet(K) /\ MarketAhead(level, s) = SumOver(g, K)
  <2> HIDE DEF seqs
  <2>1. /\ Increasing(level.market_seqs)
        /\ Len(level.market_qty) = Len(level.market_seqs)
        /\ \A k \in DOMAIN level.market_seqs :
             ValueAt(level.market_qty, k - 1) = g[level.market_seqs[k]]
    BY <1>2, <1>4 DEF seqs
  <2>2. level \in PaperOrderLevel
    BY <1>2
  <2> HIDE DEF level
  <2> QED BY <2>1, <2>2, AheadIsSum DEF seqs
<1>10. /\ T \subseteq K
       /\ \A x \in T : g[x] \in Int /\ g[x] = MarketLots[x]
       /\ \A x \in K \ T : g[x] = 0
       /\ IsFiniteSet(T)
  <2>1. \A x \in TradingNodes : g[x] \in Int
    BY <1>7
  <2>2. T \subseteq K /\ \A x \in K \ T : x \in ToSet(seqs) /\ x \notin TradingNodes
    BY <1>6
  <2>3. IsFiniteSet(T)
    BY TradingNodesFacts, FS_Subset
  <2> QED BY <1>7, <1>8, <2>1, <2>2, <2>3
<1> HIDE DEF K, T
<1>11. SumOver(g, K) = SumOver(g, T)
  BY <1>9, <1>10, SumZero
<1>12. SumOver(g, T) = SumOver(MarketLots, T)
  BY <1>10, SumSame
<1> QED BY <1>9, <1>11, <1>12, MarketBeforeIs DEF T

\* Who came later has at least as much ahead.
LEMMA MarketBeforeGrows ==
  ASSUME Inductive, ToldInTime, call.pc = "queue", NEW s \in Nat, NEW n \in Nat, s <= n
  PROVE  /\ MarketBefore(s) \in Nat
         /\ MarketBefore(s) <= MarketBefore(n)
<1> DEFINE S == {m \in TradingNodes : m < s}
           T == {m \in TradingNodes : m < n}
           g == MarketLots
<1>1. /\ IsFiniteSet(TradingNodes)
      /\ \A m \in TradingNodes : m \in Nat /\ g[m] \in Nat
  BY TradingNodesFacts
<1>2. S \subseteq T
  BY <1>1
<1>3. IsFiniteSet(S) /\ IsFiniteSet(T) /\ \A m \in T : g[m] \in Nat
  BY <1>1, FS_Subset
<1>4. MarketBefore(s) = SumOver(g, S) /\ MarketBefore(n) = SumOver(g, T)
  BY MarketBeforeIs
<1> HIDE DEF S, T, g
<1>5. SumOver(g, S) <= SumOver(g, T)
  <2> \A x \in S : g[x] \in Nat /\ g[x] <= g[x]
    BY <1>2, <1>3
  <2> QED BY <1>2, <1>3, SumMonotone
<1>6. SumOver(g, {}) <= SumOver(g, S)
  <2> \A x \in S : g[x] \in Nat
    BY <1>2, <1>3
  <2> {} \subseteq S
    OBVIOUS
  <2> QED BY <1>3, SumMonotone
<1>7. SumOver(g, {}) = 0 /\ SumOver(g, S) \in Int
  <2>1. \A x \in S : g[x] \in Int
    BY <1>2, <1>3
  <2> QED BY <1>3, <2>1, SumStep, SumType, FS_EmptySet
<1> QED BY <1>4, <1>5, <1>6, <1>7

LEMMA FilledSumIs ==
  /\ SumFunctionOnSet(FilledLots, FilledSeqs) = SumOver(FilledLots, FilledSeqs)
  /\ SumFunctionOnSet(FilledLots, FilledSeqs)' = SumOver(FilledLots', FilledSeqs')
<1>1. SumFunctionOnSet(FilledLots, FilledSeqs) = SumOver(FilledLots, FilledSeqs)
  BY SumOnSet
<1>2. SumFunctionOnSet(FilledLots, FilledSeqs)' = SumOver(FilledLots', FilledSeqs')
  BY DEF SumFunctionOnSet, FoldFunctionOnSet, SumOver, MapThenSumSet, MapThenFoldSet
<1> QED BY <1>1, <1>2

LEMMA FilledLotsFacts ==
  ASSUME Inductive, call.pc = "queue"
  PROVE  /\ FilledSeqs \subseteq TradingPapers
         /\ \A n \in FilledSeqs :
              /\ FilledLots[n] = LotsWith(call.fills, "STRATEGY", call.price, n)
              /\ FilledLots[n] \in Nat
              /\ FilledLots[n] <= PaperLots[n]
         /\ SumOver(FilledLots, FilledSeqs) \in Int
<1>1. FilledSeqs \subseteq TradingPapers
  BY TradingPapersFacts
<1>2. ASSUME NEW n \in FilledSeqs
      PROVE  /\ FilledLots[n] = LotsWith(call.fills, "STRATEGY", call.price, n)
             /\ FilledLots[n] \in Nat
             /\ FilledLots[n] <= PaperLots[n]
  <2>1. FilledLots[n] = LotsWith(call.fills, "STRATEGY", call.price, n)
    BY FillsAre DEF FilledLots
  <2>2. /\ PaperLots[n] = FilledLots[n] + SumOver(RestingLots, RestingWith(n))
        /\ FilledLots[n] \in Nat
    BY <1>1, <2>1, TradingPapersFacts
  <2>3. SumOver(RestingLots, RestingWith(n)) \in Nat
    <3> DEFINE S == RestingWith(n)
    <3>1. IsFiniteSet(S) /\ \A id \in S : RestingLots[id] \in Nat
      BY TradingPapersFacts, FS_Subset DEF RestingWith
    <3> HIDE DEF S
    <3>2. SumOver(RestingLots, {}) <= SumOver(RestingLots, S)
      BY <3>1, SumMonotone
    <3>3. SumOver(RestingLots, {}) = 0 /\ SumOver(RestingLots, S) \in Int
      BY <3>1, SumStep, SumType, FS_EmptySet
    <3> QED BY <3>2, <3>3 DEF S
  <2> QED BY <2>1, <2>2, <2>3
<1>3. SumOver(FilledLots, FilledSeqs) \in Int
  <2> IsFiniteSet(FilledSeqs) /\ \A n \in FilledSeqs : FilledLots[n] \in Int
    BY <1>2, TradingPapersFacts
  <2> QED BY SumType
<1> QED BY <1>1, <1>2, <1>3

\* An order that came after all that are filled has all they were filled ahead.
LEMMA FilledAhead ==
  ASSUME Inductive, ToldInTime, call.pc = "queue", NEW n \in Nat,
         \A m \in FilledSeqs : m < n
  PROVE  /\ LotsAhead(n) \in Int
         /\ MarketBefore(n) + SumOver(FilledLots, FilledSeqs) <= LotsAhead(n)
<1> DEFINE T == {m \in TradingPapers : m < n}
<1>1. /\ IsFiniteSet(T)
      /\ FilledSeqs \subseteq T
      /\ \A m \in T : PaperLots[m] \in Nat
      /\ \A m \in FilledSeqs : FilledLots[m] \in Nat /\ FilledLots[m] <= PaperLots[m]
  BY TradingPapersFacts, FilledLotsFacts, FS_Subset
<1> HIDE DEF T
<1>2. SumOver(FilledLots, FilledSeqs) <= SumOver(PaperLots, T)
  BY <1>1, SumMonotone
<1>3. SumOver(FilledLots, FilledSeqs) \in Int /\ SumOver(PaperLots, T) \in Int
  BY <1>1, FilledLotsFacts, SumType
<1>4. MarketBefore(n) \in Nat
  BY MarketBeforeGrows
<1>5. LotsAhead(n) = MarketBefore(n) + SumOver(PaperLots, T)
  BY LotsAheadIs DEF T
<1> QED BY <1>2, <1>3, <1>4, <1>5

\* The lots that trade are a quantity.
LEMMA TradedType ==
  ASSUME Inductive, call.pc = "queue"
  PROVE  TradedLots \in Int
<1>1. /\ call.fills \in Seq(Fill)
      /\ call.event.qty \in Int
      /\ call.event.type = "MATCH" => call.event.id \in DOMAIN order_info
  BY HandlerFacts DEF HandlerState, Event
<1>2. CASE call.event.type = "MATCH"
  <2>1. Taken(call.event) \in Int
    BY <1>1, <1>2, TakenFacts
  <2> QED BY <1>2, <2>1 DEF TradedLots
<1>3. CASE call.event.type # "MATCH"
  <2>1. LotsIn(call.fills, "HISTORICAL", call.price) \in Int
    BY <1>1, FillsFacts
  <2>2. Lots(FillsAt("HISTORICAL", call.price))
          = LotsIn(call.fills, "HISTORICAL", call.price)
    BY FillsAre
  <2> QED BY <1>3, <2>1, <2>2 DEF TradedLots
<1> QED BY <1>2, <1>3

\* Once the paper orders have been served, each has what reached it.
LEMMA ServedInOrder ==
  ASSUME Inductive, MarketKnown, KnownAreQueued, ToldInTime, MarketMirrored, LevelTrades,
         QueuedLots, QueueServed
  PROVE  ServedInTurn
<1> DEFINE filled(n) == FilledOf("STRATEGY", call.price, n)
           clean == HasPaperLevel(call.side, call.price)
                      => NoStaleLots(call.side, call.price)
<1> SUFFICES ASSUME call.pc = "queue", ~Reached, NEW n \in TradingPapers
             PROVE  /\ filled(n) <= LotsDue(n)
                    /\ filled(n) > 0 => \A m \in TradingPapers : m < n =>
                                          filled(m) = PaperLots[m]
                    /\ clean => filled(n) = LotsDue(n)
  BY DEF ServedInTurn
<1>1. /\ call.lots \in Nat
      /\ call.consumed \in Nat
      /\ call.fills \in Seq(Fill)
  BY HandlerFacts
<1>2. n \in Nat /\ PaperLots[n] \in Nat
  BY TradingPapersFacts
<1>3. SumOver(FilledLots, FilledSeqs) \in Int
  BY FilledLotsFacts
<1>4. /\ NothingStale =>
           call.lots + call.consumed + SumOver(FilledLots, FilledSeqs) = TradedLots
      /\ \A id \in RestingIds :
           /\ \A m \in FilledSeqs :
                /\ m <= PlacementOf(id)
                /\ m = PlacementOf(id) => call.lots = 0
           /\ call.consumed <= MarketBefore(PlacementOf(id))
  BY FilledSumIs DEF QueueServed, PlacementOf
<1>5. TradedLots \in Int
  BY TradedType
<1>6. ASSUME NEW m \in TradingPapers
      PROVE  /\ filled(m) = LotsWith(call.fills, "STRATEGY", call.price, m)
             /\ filled(m) \in Nat
             /\ RestingWith(m) = {} => filled(m) = PaperLots[m]
  <2>1. /\ filled(m) = LotsWith(call.fills, "STRATEGY", call.price, m)
        /\ filled(m) \in Nat
    BY FillsAre, TradingPapersFacts
  <2>2. PaperLots[m] = filled(m) + SumOver(RestingLots, RestingWith(m))
    BY <2>1, TradingPapersFacts
  <2>3. RestingWith(m) = {} => SumOver(RestingLots, RestingWith(m)) = 0
    BY SumStep, FS_EmptySet
  <2> HIDE DEF filled
  <2> QED BY <2>1, <2>2, <2>3
<1>7. LotsAhead(n) \in Int
  <2> DEFINE T == {m \in TradingPapers : m < n}
  <2>1. IsFiniteSet(T) /\ \A m \in T : PaperLots[m] \in Int
    BY TradingPapersFacts, FS_Subset
  <2>2. MarketBefore(n) \in Nat
    BY <1>2, MarketBeforeGrows
  <2>3. LotsAhead(n) = MarketBefore(n) + SumOver(PaperLots, T)
    BY LotsAheadIs
  <2> HIDE DEF T
  <2> QED BY <2>1, <2>2, <2>3, SumType
<1>8. ASSUME clean, NEW id \in RestingIds PROVE NothingStale
  BY <1>8, QueueHead DEF NothingStale
<1>9. CASE n \in FilledSeqs
  <2>1. /\ TradedLots > LotsAhead(n)
        /\ FilledLots[n] <= TradedLots - LotsAhead(n)
        /\ NothingStale => FilledLots[n] = Lesser(TradedLots - LotsAhead(n), PaperLots[n])
    BY <1>9 DEF QueueServed
  <2>2. filled(n) = FilledLots[n] /\ filled(n) \in Nat /\ filled(n) <= PaperLots[n]
    BY <1>6, <1>9, FilledLotsFacts
  <2>3. LotsDue(n) = Lesser(TradedLots - LotsAhead(n), PaperLots[n])
    BY <1>5, <1>7, <2>1 DEF LotsDue
  <2>4. filled(n) <= LotsDue(n)
    <3> HIDE DEF filled
    <3> QED BY <1>2, <1>5, <1>7, <2>1, <2>2, <2>3 DEF Lesser
  <2>5. ASSUME NEW m \in TradingPapers, m < n PROVE filled(m) = PaperLots[m]
    <3>1. m \in Nat
      BY TradingPapersFacts
    <3>2. RestingWith(m) = {}
      <4> SUFFICES ASSUME NEW id \in RestingWith(m) PROVE FALSE
        OBVIOUS
      <4>1. id \in RestingIds /\ PlacementOf(id) = m
        BY DEF RestingWith
      <4>2. n <= m
        BY <1>4, <1>9, <4>1
      <4> QED BY <1>2, <2>5, <3>1, <4>2
    <3> QED BY <1>6, <3>2
  <2>6. ASSUME clean PROVE filled(n) = LotsDue(n)
    <3>1. CASE RestingIds = {}
      <4>1. filled(n) = PaperLots[n]
        BY <1>6, <3>1 DEF RestingWith
      <4>2. LotsDue(n) <= PaperLots[n] /\ LotsDue(n) \in Int
        BY <1>2, <1>5, <1>7, <2>3 DEF Lesser
      <4> HIDE DEF filled
      <4> QED BY <1>2, <2>4, <4>1, <4>2
    <3>2. CASE RestingIds # {}
      <4>1. NothingStale
        BY <1>8, <2>6, <3>2
      <4> QED BY <2>1, <2>2, <2>3, <4>1
    <3> QED BY <3>1, <3>2
  <2> QED BY <2>4, <2>5, <2>6
<1>10. CASE n \notin FilledSeqs
  <2>1. filled(n) = 0
    BY <1>6, <1>10, TradingPapersFacts, NothingFilled
  <2>2. PICK id \in RestingIds : n = PlacementOf(id)
    BY <1>10, TradingPapersFacts
  <2>3. LotsDue(n) >= 0
    BY <1>2, <1>5, <1>7 DEF LotsDue, Lesser
  <2>4. ASSUME clean PROVE TradedLots <= LotsAhead(n)
    <3>1. /\ NothingStale
          /\ HasPaperLevel(call.side, call.price)
          /\ QueueLevel.orders # <<>>
          /\ Head(QueueLevel.orders) \in RestingIds
          /\ PlacementOf(Head(QueueLevel.orders)) <= n
          /\ AheadPaper = 0
      BY <1>8, <2>2, <2>4, QueueHead
    <3>2. \A m \in FilledSeqs : m < n
      <4> SUFFICES ASSUME NEW m \in FilledSeqs PROVE m < n
        OBVIOUS
      <4>1. m <= n /\ m # n
        BY <1>4, <1>10, <2>2
      <4>2. m \in Nat
        BY FilledLotsFacts, TradingPapersFacts
      <4> QED BY <1>2, <4>1, <4>2
    <3>3. MarketBefore(n) + SumOver(FilledLots, FilledSeqs) <= LotsAhead(n)
      BY <1>2, <3>2, FilledAhead
    <3>4. MarketBefore(n) \in Nat
      BY <1>2, MarketBeforeGrows
    <3>5. call.lots + call.consumed <= MarketBefore(n)
      <4>1. call.consumed <= MarketBefore(n)
        BY <1>4, <2>2
      <4>2. CASE call.lots = 0
        BY <1>1, <3>4, <4>1, <4>2
      <4>3. CASE call.lots > 0
        <5> DEFINE s == PlacementOf(Head(QueueLevel.orders))
        <5>1. s \in Nat /\ s <= n
          BY <3>1, TradingPapersFacts
        <5>2. MarketAhead(QueueLevel, s) = MarketBefore(s)
          BY <3>1, <5>1, QueueMarket
        <5>3. MarketBefore(s) \in Nat /\ MarketBefore(s) <= MarketBefore(n)
          BY <1>2, <5>1, MarketBeforeGrows
        <5>4. AheadMarket = IF MarketBefore(s) > call.consumed
                              THEN MarketBefore(s) - call.consumed ELSE 0
          BY <5>2 DEF AheadMarket, FirstOrder, PlacementOf
        <5>5. ~(AheadMarket + AheadPaper < call.lots)
          BY <3>1, <4>3 DEF Reached
        <5> HIDE DEF s
        <5>6. AheadMarket \in Nat /\ AheadMarket >= call.lots
          BY <1>1, <3>1, <5>3, <5>4, <5>5
        <5>7. MarketBefore(s) >= call.lots + call.consumed
          BY <1>1, <4>3, <5>3, <5>4, <5>6
        <5> QED BY <1>1, <3>4, <5>3, <5>7
      <4> QED BY <1>1, <4>2, <4>3
    <3> QED BY <1>1, <1>3, <1>4, <1>5, <1>7, <3>1, <3>3, <3>4, <3>5
  <2>5. clean => LotsDue(n) = 0
    BY <2>4 DEF LotsDue
  <2> HIDE DEF clean, filled
  <2> QED BY <2>1, <2>3, <2>5
<1> QED BY <1>9, <1>10

(***************************************************************************)
(* The same after a step.                                                  *)
(***************************************************************************)
LEMMA LotsNext ==
  ASSUME NEW ks
  PROVE  MapThenSumSet(LAMBDA k : call'.fills[k].qty, ks) = LotsOf(call'.fills, ks)
BY DEF LotsOf, MapThenSumSet, MapThenFoldSet

LEMMA FilledOfNext ==
  ASSUME NEW source, NEW n
  PROVE  FilledOf(source, call.price, n)' = LotsWith(call'.fills, source, call'.price, n)
<1>1. {k \in FillsAt(source, call.price) : call.fills[k].seq = n}'
        = FillsWith(call'.fills, source, call'.price, n)
  BY DEF FillsAt, FillsIn, FillsWith
<1> QED BY <1>1, LotsNext DEF FilledOf, Lots, LotsWith, MapThenSumSet, MapThenFoldSet

LEMMA TradedNext ==
  TradedLots' = IF call'.event.type = "MATCH" THEN Taken(call.event)'
                ELSE LotsIn(call'.fills, "HISTORICAL", call'.price)
<1>1. FillsAt("HISTORICAL", call.price)' = FillsIn(call'.fills, "HISTORICAL", call'.price)
  BY DEF FillsAt, FillsIn
<1>2. Lots(FillsAt("HISTORICAL", call.price))'
        = LotsIn(call'.fills, "HISTORICAL", call'.price)
  BY <1>1, LotsNext DEF Lots, LotsIn, MapThenSumSet, MapThenFoldSet
<1> QED BY <1>2 DEF TradedLots

LEMMA NodesNext ==
  /\ TradingNodes' = ToSet(book'[call'.side][call'.price]) \cup
                       SeqsIn(call'.fills, "HISTORICAL", call'.price)
  /\ MarketLots' = [n \in TradingNodes' |->
       Quantity(n)' + LotsWith(call'.fills, "HISTORICAL", call'.price, n)]
<1>1. TradingNodes' = ToSet(book'[call'.side][call'.price]) \cup
                       SeqsIn(call'.fills, "HISTORICAL", call'.price)
  BY DEF TradingNodes, FillsAt, SeqsIn, FillsIn, ToSet
<1>2. MarketLots' = [n \in TradingNodes' |->
                       Quantity(n)' + FilledOf("HISTORICAL", call.price, n)']
  BY DEF MarketLots
<1> QED BY <1>1, <1>2, FilledOfNext

LEMMA PapersNext ==
  /\ RestingIds' = {id \in DOMAIN paper_orders' :
       paper_order_info'[id] = [side |-> call'.side, price |-> call'.price]}
  /\ FilledSeqs' = SeqsIn(call'.fills, "STRATEGY", call'.price)
  /\ FilledLots' = [n \in FilledSeqs' |->
                      LotsWith(call'.fills, "STRATEGY", call'.price, n)]
  /\ TradingPapers' = {PlacementOf(id)' : id \in RestingIds'} \cup FilledSeqs'
  /\ RestingLots' = [id \in RestingIds' |-> paper_orders'[id].remaining]
  /\ PaperLots' = [n \in TradingPapers' |->
       LotsWith(call'.fills, "STRATEGY", call'.price, n) +
         SumOver(RestingLots', {id \in RestingIds' : PlacementOf(id)' = n})]
<1>1. RestingIds' = {id \in DOMAIN paper_orders' :
        paper_order_info'[id] = [side |-> call'.side, price |-> call'.price]}
  BY DEF RestingIds
<1>2. FilledSeqs' = SeqsIn(call'.fills, "STRATEGY", call'.price)
  BY DEF FilledSeqs, FillsAt, SeqsIn, FillsIn
<1>3. FilledLots' = [n \in FilledSeqs' |-> FilledOf("STRATEGY", call.price, n)']
  BY DEF FilledLots
<1>4. TradingPapers' = {PlacementOf(id)' : id \in RestingIds'} \cup FilledSeqs'
  BY DEF TradingPapers, PlacementOf
<1>5. RestingLots' = [id \in RestingIds' |-> paper_orders'[id].remaining]
  BY DEF RestingLots
<1>6. PaperLots' = [n \in TradingPapers' |->
        FilledOf("STRATEGY", call.price, n)' +
          SumFunctionOnSet([id \in RestingIds |-> paper_orders[id].remaining],
                        {id \in RestingIds : paper_orders[id].placement_seq = n})']
  BY DEF PaperLots
<1>7. ASSUME NEW n
      PROVE  SumFunctionOnSet([id \in RestingIds |-> paper_orders[id].remaining],
                 {id \in RestingIds : paper_orders[id].placement_seq = n})'
               = SumOver(RestingLots', {id \in RestingIds' : PlacementOf(id)' = n})
  BY DEF SumFunctionOnSet, FoldFunctionOnSet, SumOver, MapThenSumSet, MapThenFoldSet,
         RestingLots, PlacementOf
<1> HIDE DEF RestingLots
<1> QED BY <1>1, <1>2, <1>3, <1>4, <1>5, <1>6, <1>7, FilledOfNext

\* The orders of a level, one of which loses lots.
LEMMA RestingAfterTake ==
  ASSUME PaperInvariant, NEW id \in RestingIds, NEW qty \in Int, NEW status,
         LeavePaperOrder(id, qty, qty, status),
         call'.side = call.side, call'.price = call.price
  PROVE  /\ RestingIds' = IF qty = paper_orders[id].remaining
                          THEN RestingIds \ {id} ELSE RestingIds
         /\ \A x \in RestingIds : x # id => paper_orders'[x] = paper_orders[x]
         /\ qty # paper_orders[id].remaining =>
              /\ paper_orders'[id].remaining = paper_orders[id].remaining - qty
              /\ paper_orders'[id].placement_seq = paper_orders[id].placement_seq
<1>1. id \in DOMAIN paper_orders /\ DOMAIN paper_orders = DOMAIN paper_order_info
  BY DEF RestingIds, PaperInvariant, OrdersIndexed
<1>2. /\ \A x \in DOMAIN paper_orders : x # id => paper_orders'[x] = paper_orders[x]
      /\ qty # paper_orders[id].remaining =>
              /\ paper_orders'[id].remaining = paper_orders[id].remaining - qty
              /\ paper_orders'[id].placement_seq = paper_orders[id].placement_seq
  BY <1>1, OrdersAfterTake
<1>3. CASE qty = paper_orders[id].remaining
  <2>1. /\ paper_orders' = Erased(paper_orders, id)
        /\ paper_order_info' = Erased(paper_order_info, id)
    BY <1>3 DEF LeavePaperOrder
  <2>2. /\ DOMAIN paper_orders' = DOMAIN paper_orders \ {id}
        /\ \A x \in DOMAIN paper_orders \ {id} : paper_order_info'[x] = paper_order_info[x]
    BY <1>1, <2>1 DEF Erased, Restrict
  <2>3. RestingIds' = RestingIds \ {id}
    BY <2>2, PapersNext DEF RestingIds
  <2> QED BY <1>2, <1>3, <2>3 DEF RestingIds
<1>4. CASE qty # paper_orders[id].remaining
  <2>1. /\ DOMAIN paper_orders' = DOMAIN paper_orders
        /\ paper_order_info' = paper_order_info
    BY <1>4 DEF LeavePaperOrder
  <2>2. RestingIds' = RestingIds
    BY <2>1, PapersNext DEF RestingIds
  <2> QED BY <1>2, <1>4, <2>2 DEF RestingIds
<1> QED BY <1>3, <1>4

\* The first paper order of the level takes what has come past the nodes and
\* the stale lots.
ServesHead(id, fill) ==
  /\ id \in RestingIds
  /\ fill \in Nat
  /\ fill > 0
  /\ AheadMarket \in Nat
  /\ AheadPaper \in Nat
  /\ AheadMarket + AheadPaper < call.lots
  /\ fill = Lesser(paper_orders[id].remaining, call.lots - (AheadMarket + AheadPaper))
  /\ PaperFill(id, call.price, fill) \in Fill
  /\ LeavePaperOrder(id, fill, fill, "PARTIALLY_FILLED")
  /\ call'.pc = "queue"
  /\ call'.side = call.side
  /\ call'.price = call.price
  /\ call'.event = call.event
  /\ call'.deltas = call.deltas
  /\ call'.remaining = call.remaining
  /\ call'.lots = call.lots - (AheadMarket + AheadPaper) - fill
  /\ call'.consumed = call.consumed + AheadMarket
  /\ call'.fills = Append(call.fills, PaperFill(id, call.price, fill))
  /\ UNCHANGED <<bookVars, order_arrival_seq>>

LEMMA QueueFillServes ==
  ASSUME Inductive, QueuedLots, QueueFill
  PROVE  /\ call.pc = "queue"
         /\ HasPaperLevel(call.side, call.price)
         /\ QueueLevel.orders # <<>>
         /\ \E fill : ServesHead(Head(QueueLevel.orders), fill)
<1> DEFINE id   == Head(QueueLevel.orders)
           lots == call.lots - (AheadMarket + AheadPaper)
           fill == Lesser(FirstOrder.remaining, lots)
<1>1. /\ call.pc = "queue"
      /\ Reached
      /\ LeavePaperOrder(id, fill, fill, "PARTIALLY_FILLED")
      /\ call' = [call EXCEPT
           !.lots = lots - fill,
           !.consumed = @ + AheadMarket,
           !.fills = Append(@, PaperFill(id, call.price, fill))]
      /\ UNCHANGED <<bookVars, order_arrival_seq>>
  BY DEF QueueFill, TakeFromPaperOrder
<1>2. /\ call \in Handler
      /\ call.side \in Sides
      /\ call.price \in Prices
      /\ call.lots \in Nat
      /\ call.consumed \in Nat
      /\ PaperInvariant
  BY <1>1, HandlerFacts DEF Inductive
<1>3. call.price \in DOMAIN paper[call.side] /\ HasPaperLevel(call.side, call.price)
  BY <1>1 DEF Reached, HasPaperLevel
<1>4. QueueLevel.orders # <<>>
  BY <1>1, <1>2, <1>3, LevelsHaveOrders DEF QueueLevel
<1>5. id \in RestingIds
  <2> QED BY <1>2, <1>3, <1>4, LevelFacts DEF QueueLevel, RestingIds
<1>6. AheadPaper \in Nat
  BY <1>1, <1>5, QueueHead
<1>7. /\ id \in Ids
      /\ paper_orders[id].remaining \in Nat
      /\ paper_orders[id].remaining > 0
      /\ paper_orders[id].placement_seq \in Nat
      /\ FirstOrder = paper_orders[id]
  <2>1. FirstOrder = paper_orders[id]
    BY DEF FirstOrder
  <2> HIDE DEF id
  <2> QED BY <1>2, <1>5, <2>1, PaperOrderFacts DEF RestingIds
<1>8. AheadMarket \in Nat
  <2>1. MarketAhead(QueueLevel, FirstOrder.placement_seq) \in Int
    BY <1>2, <1>3, MarketAheadType DEF QueueLevel
  <2> QED BY <1>2, <2>1 DEF AheadMarket
<1>9. /\ lots = call.lots - (AheadMarket + AheadPaper)
      /\ AheadMarket + AheadPaper < call.lots
      /\ lots \in Nat
      /\ lots > 0
  BY <1>1, <1>2, <1>6, <1>8 DEF Reached
<1> HIDE DEF lots, id, fill
<1>10. /\ fill \in Nat
       /\ fill > 0
       /\ fill = Lesser(paper_orders[id].remaining, call.lots - (AheadMarket + AheadPaper))
  <2>1. fill = Lesser(paper_orders[id].remaining, lots)
    BY <1>7 DEF fill
  <2>2. paper_orders[id].remaining \in Int /\ lots \in Int
    BY <1>7, <1>9
  <2> QED BY <1>7, <1>9, <2>1, <2>2, LesserFacts
<1>11. PaperFill(id, call.price, fill) \in Fill
  BY <1>2, <1>7, <1>10 DEF PaperFill, Fill, Sources
<1>12. /\ call'.pc = "queue"
       /\ call'.side = call.side
       /\ call'.price = call.price
       /\ call'.event = call.event
       /\ call'.deltas = call.deltas
       /\ call'.remaining = call.remaining
       /\ call'.lots = lots - fill
       /\ call'.consumed = call.consumed + AheadMarket
       /\ call'.fills = Append(call.fills, PaperFill(id, call.price, fill))
  BY <1>1, <1>2 DEF Handler
<1>13. ServesHead(id, fill)
  BY <1>1, <1>5, <1>6, <1>8, <1>9, <1>10, <1>11, <1>12 DEF ServesHead
<1> QED BY <1>1, <1>3, <1>4, <1>13 DEF id

\* Stale lots stay where they are when an order is served with its own.
LEMMA StaleStays ==
  ASSUME Inductive, QueuedLots, call.pc = "queue",
         NEW id \in RestingIds, NEW qty \in Int, NEW status,
         LeavePaperOrder(id, qty, qty, status),
         call'.side = call.side, call'.price = call.price, NothingStale'
  PROVE  NothingStale
<1> PICK side, p : side = call.side /\ p = call.price
  OBVIOUS
<1>1. /\ side \in Sides
      /\ PaperInvariant
      /\ id \in DOMAIN paper_orders
      /\ paper_order_info[id].side = side
      /\ paper_order_info[id].price = p
  BY HandlerFacts DEF RestingIds, Inductive
<1>2. p \in DOMAIN paper[side] /\ id \in ToSet(paper[side][p].orders)
  BY <1>1, PaperOrderFacts
<1> PICK old : old = paper[side][p]
  OBVIOUS
<1> PICK new : new = paper'[side][p]
  OBVIOUS
<1>3. /\ old.orders \in Seq(Ids)
      /\ old.paper_qty \in Seq(Int)
      /\ old \in PaperOrderLevel
      /\ \A x \in ToSet(old.orders) : x \in DOMAIN paper_orders
      /\ TypedQueue(old.orders, paper_orders)
  BY <1>1, <1>2, LevelFacts, QueueTyped
<1>4. /\ p \in DOMAIN paper'[side]
      /\ \A i \in 0 .. Len(new.paper_qty) - 1 :
           (\A x \in ToSet(new.orders) : paper_orders'[x].paper_index # i) =>
             ValueAt(new.paper_qty, i) = 0
  BY DEF NothingStale, HasPaperLevel, NoStaleLots
<1>5. /\ new.orders = IF qty = paper_orders[id].remaining
                         THEN Unlinked(old.orders, id) ELSE old.orders
      /\ new.paper_qty = AddAt(old.paper_qty, paper_orders[id].paper_index, -qty)
  <2>1. PICK level :
          level = [old EXCEPT
            !.orders = IF qty = paper_orders[id].remaining THEN Unlinked(@, id) ELSE @,
            !.queued_lots = @ - qty,
            !.paper_qty = AddAt(@, paper_orders[id].paper_index, -qty)]
    OBVIOUS
  <2>2. paper' = [paper EXCEPT ![side] =
                    IF level.orders = <<>> THEN Erased(@, p)
                                           ELSE [@ EXCEPT ![p] = level]]
    BY <1>1, <2>1 DEF LeavePaperOrder
  <2>3. DOMAIN paper = Sides
    BY <1>1 DEF PaperInvariant, PaperTypes
  <2>4. paper'[side] = IF level.orders = <<>> THEN Erased(paper[side], p)
                       ELSE [paper[side] EXCEPT ![p] = level]
    BY <1>1, <2>2, <2>3
  <2>5. new = level
    BY <1>2, <1>4, <2>4 DEF Erased, Restrict
  <2> QED BY <1>3, <2>1, <2>5 DEF PaperOrderLevel
<1>6. \A x \in DOMAIN paper_orders : x # id => paper_orders'[x] = paper_orders[x]
  BY <1>1, OrdersAfterTake
<1>7. /\ qty # paper_orders[id].remaining =>
           paper_orders'[id].paper_index = paper_orders[id].paper_index
  BY <1>1, OrdersAfterTake
<1>8. PICK index \in Nat : index = paper_orders[id].paper_index
  BY <1>2, <1>3 DEF TypedQueue
<1>9. index < Len(old.paper_qty)
  <2>1. LotsHeld(old.orders, old.paper_qty, old.queued_lots, paper_orders)
    BY <1>1, <1>2, QueuedLotsHeld
  <2>2. PICK k \in DOMAIN old.orders : old.orders[k] = id
    BY <1>2 DEF ToSet
  <2> QED BY <1>8, <2>1, <2>2 DEF LotsHeld
<1>10. \A x \in ToSet(new.orders) :
         /\ x \in ToSet(old.orders)
         /\ paper_orders'[x].paper_index = paper_orders[x].paper_index
  <2>1. CASE qty = paper_orders[id].remaining
    <3>1. ToSet(new.orders) = ToSet(old.orders) \ {id}
      BY <1>2, <1>3, <1>5, <2>1, UnlinkedProperties DEF TypedQueue
    <3> QED BY <1>3, <1>6, <3>1
  <2>2. CASE qty # paper_orders[id].remaining
    BY <1>3, <1>5, <1>6, <1>7, <2>2
  <2> QED BY <2>1, <2>2
<1>11. ASSUME NEW i \in 0 .. Len(old.paper_qty) - 1,
              \A x \in ToSet(old.orders) : paper_orders[x].paper_index # i
       PROVE  ValueAt(old.paper_qty, i) = 0
  <2>1. i # index
    BY <1>2, <1>8, <1>11
  <2>2. PICK t \in Seq(Int), d \in Int : d = -qty /\ t = new.paper_qty
                                         /\ t = AddAt(old.paper_qty, index, d)
    BY <1>3, <1>5, <1>8, AddAtProperties
  <2>3. /\ Len(t) = Len(old.paper_qty)
        /\ Len(old.paper_qty) \in Nat
        /\ ValueAt(t, i) = ValueAt(old.paper_qty, i) + 0
    <3> PICK sums \in Seq(Int) : sums = old.paper_qty
      BY <1>3
    <3>1. /\ Len(t) = Len(sums)
          /\ Len(sums) \in Nat
      BY <2>2, LenProperties, AddAtProperties
    <3>2. \A n \in 0 .. Len(sums) - 1 :
            ValueAt(t, n) = ValueAt(sums, n) + IF n = index THEN d ELSE 0
      BY <1>9, <2>2, AddedValues
    <3> QED BY <2>1, <3>1, <3>2
  <2>4. ValueAt(t, i) = 0
    BY <1>4, <1>10, <1>11, <2>2, <2>3
  <2>5. ValueAt(old.paper_qty, i) \in Int
    <3> PICK sums \in Seq(Int) : sums = old.paper_qty
      BY <1>3
    <3>1. i \in 0 .. Len(sums) /\ i + 1 \in 0 .. Len(sums)
      BY <2>3
    <3>2. PrefixSum(sums, i) \in Int
      BY <3>1, PrefixSumType
    <3>3. PrefixSum(sums, i + 1) \in Int
      BY <3>1, PrefixSumType
    <3>4. ValueAt(sums, i) \in Int
      BY <3>2, <3>3 DEF ValueAt
    <3> QED BY <3>4
  <2> QED BY <2>3, <2>4, <2>5
<1> QED BY <1>2, <1>11 DEF NothingStale, HasPaperLevel, NoStaleLots

\* What it takes changes neither the lots that trade nor who is before whom.
LEMMA HeadServed ==
  ASSUME Inductive, QueuedLots, ToldInTime, call.pc = "queue", NEW id, NEW fill,
         ServesHead(id, fill)
  PROVE  /\ TradedLots' = TradedLots
         /\ TradingNodes' = TradingNodes
         /\ MarketLots' = MarketLots
         /\ FilledSeqs' = FilledSeqs \cup {PlacementOf(id)}
         /\ \A n : LotsWith(call'.fills, "STRATEGY", call'.price, n)
                     = LotsWith(call.fills, "STRATEGY", call.price, n) +
                         IF n = PlacementOf(id) THEN fill ELSE 0
         /\ \A n : LotsWith(call'.fills, "HISTORICAL", call'.price, n)
                     = LotsWith(call.fills, "HISTORICAL", call.price, n)
         /\ SeqsIn(call'.fills, "HISTORICAL", call'.price)
              = SeqsIn(call.fills, "HISTORICAL", call.price)
<1> DEFINE f == PaperFill(id, call.price, fill)
<1>1. /\ f.source = "STRATEGY"
      /\ f.price = call.price
      /\ f.qty = fill
      /\ f.seq = PlacementOf(id)
      /\ f \in Fill
  BY DEF PaperFill, PlacementOf, ServesHead
<1>2. /\ call'.fills = Append(call.fills, f)
      /\ call'.price = call.price
      /\ call'.side = call.side
      /\ call'.event = call.event
      /\ book' = book /\ node' = node /\ order_info' = order_info
  BY DEF ServesHead, bookVars
<1>3. /\ call.fills \in Seq(Fill)
      /\ fill \in Nat
  BY HandlerFacts DEF ServesHead
<1> HIDE DEF f
<1> PICK p : p = call.price
  OBVIOUS
<1>4. /\ LotsIn(call'.fills, "HISTORICAL", p) = LotsIn(call.fills, "HISTORICAL", p)
      /\ SeqsIn(call'.fills, "HISTORICAL", p) = SeqsIn(call.fills, "HISTORICAL", p)
      /\ SeqsIn(call'.fills, "STRATEGY", p)
           = SeqsIn(call.fills, "STRATEGY", p) \cup {PlacementOf(id)}
      /\ \A n : LotsWith(call'.fills, "STRATEGY", p, n)
                  = LotsWith(call.fills, "STRATEGY", p, n) +
                      IF n = PlacementOf(id) THEN fill ELSE 0
      /\ \A n : LotsWith(call'.fills, "HISTORICAL", p, n)
                  = LotsWith(call.fills, "HISTORICAL", p, n)
  <2> PICK new : new = call'.fills
    OBVIOUS
  <2> PICK old : old = call.fills
    OBVIOUS
  <2> PICK g : g = f
    OBVIOUS
  <2>1. g.source # "HISTORICAL"
    BY <1>1
  <2>5. OneMore(new, old, g)
    BY <1>1, <1>2, <1>3 DEF OneMore
  <2>6. ASSUME NEW source
        PROVE  /\ LotsIn(new, source, p) = LotsIn(old, source, p) +
                     IF g.source = source /\ g.price = p THEN g.qty ELSE 0
               /\ SeqsIn(new, source, p) = SeqsIn(old, source, p) \cup
                     IF g.source = source /\ g.price = p THEN {g.seq} ELSE {}
               /\ \A n : LotsWith(new, source, p, n) = LotsWith(old, source, p, n) +
                     IF g.source = source /\ g.price = p /\ g.seq = n THEN g.qty ELSE 0
    BY <2>5, OneMoreFill
  <2>2. /\ LotsIn(new, "HISTORICAL", p) = LotsIn(old, "HISTORICAL", p) + 0
        /\ SeqsIn(new, "HISTORICAL", p) = SeqsIn(old, "HISTORICAL", p) \cup {}
        /\ \A n : LotsWith(new, "HISTORICAL", p, n) = LotsWith(old, "HISTORICAL", p, n) + 0
    BY ONLY <2>1, <2>6
  <2>3. /\ SeqsIn(new, "STRATEGY", p)
             = SeqsIn(old, "STRATEGY", p) \cup {PlacementOf(id)}
        /\ \A n : LotsWith(new, "STRATEGY", p, n)
                    = LotsWith(old, "STRATEGY", p, n) +
                        IF n = PlacementOf(id) THEN fill ELSE 0
    <3>1. /\ SeqsIn(new, "STRATEGY", p) = SeqsIn(old, "STRATEGY", p) \cup
              IF g.source = "STRATEGY" /\ g.price = p THEN {g.seq} ELSE {}
          /\ \A n : LotsWith(new, "STRATEGY", p, n)
                    = LotsWith(old, "STRATEGY", p, n) +
                   IF g.source = "STRATEGY" /\ g.price = p /\ g.seq = n THEN g.qty ELSE 0
      BY ONLY <2>6
    <3> QED BY <1>1, <3>1
  <2>4. LotsIn(old, "HISTORICAL", p) \in Int /\ \A n : LotsWith(old, "HISTORICAL", p, n) \in Int
    BY <1>3, FillsFacts
  <2> QED BY <2>2, <2>3, <2>4
<1>5. TradedLots' = TradedLots
  <2>1. Taken(call.event)' = Taken(call.event)
    BY <1>2 DEF Taken, NodeOf
  <2>2. LotsIn(call'.fills, "HISTORICAL", call'.price) = LotsIn(call.fills, "HISTORICAL", call.price)
    BY <1>2, <1>4
  <2>3. Lots(FillsAt("HISTORICAL", call.price)) = LotsIn(call.fills, "HISTORICAL", call.price)
    BY FillsAre
  <2> QED BY <1>2, <2>1, <2>2, <2>3, TradedNext DEF TradedLots
<1>6. TradingNodes' = TradingNodes
  <2>1. FillsAt("HISTORICAL", call.price) = FillsIn(call.fills, "HISTORICAL", call.price)
    BY FillsAre
  <2>2. TradingNodes = ToSet(book[call.side][call.price]) \cup
                         SeqsIn(call.fills, "HISTORICAL", call.price)
    BY <2>1 DEF TradingNodes, SeqsIn
  <2>3. TradingNodes' = ToSet(book'[call'.side][call'.price]) \cup
                         SeqsIn(call'.fills, "HISTORICAL", call'.price)
    BY NodesNext
  <2> QED BY <1>2, <1>4, <2>2, <2>3
<1>7. MarketLots' = MarketLots
  <2>1. MarketLots = [n \in TradingNodes |->
           Quantity(n) + LotsWith(call.fills, "HISTORICAL", call.price, n)]
    BY FillsAre DEF MarketLots
  <2>2. MarketLots' = [n \in TradingNodes' |->
           Quantity(n)' + LotsWith(call'.fills, "HISTORICAL", call'.price, n)]
    BY NodesNext
  <2>3. \A n : Quantity(n)' = Quantity(n)
    BY <1>2 DEF Quantity
  <2> QED BY <1>2, <1>4, <1>6, <2>1, <2>2, <2>3
<1>8. FilledSeqs' = FilledSeqs \cup {PlacementOf(id)}
  <2>1. FilledSeqs = SeqsIn(call.fills, "STRATEGY", call.price)
    BY TradingPapersFacts
  <2>2. FilledSeqs' = SeqsIn(call'.fills, "STRATEGY", call'.price)
    BY PapersNext
  <2> QED BY <1>2, <1>4, <2>1, <2>2
<1>9. /\ \A n : LotsWith(call'.fills, "STRATEGY", call'.price, n)
                  = LotsWith(call.fills, "STRATEGY", call.price, n) +
                      IF n = PlacementOf(id) THEN fill ELSE 0
      /\ \A n : LotsWith(call'.fills, "HISTORICAL", call'.price, n)
                  = LotsWith(call.fills, "HISTORICAL", call.price, n)
      /\ SeqsIn(call'.fills, "HISTORICAL", call'.price)
           = SeqsIn(call.fills, "HISTORICAL", call.price)
  BY <1>2, <1>4
<1> QED BY <1>5, <1>6, <1>7, <1>8, <1>9

LEMMA SumOfOne ==
  ASSUME NEW g, NEW a, g[a] \in Int
  PROVE  SumOver(g, {a}) = g[a]
<1>1. IsFiniteSet({}) /\ SumOver(g, {}) = 0
  BY FS_EmptySet, SumStep
<1>2. {} \cup {a} = {a}
  OBVIOUS
<1>3. SumOver(g, {} \cup {a}) = SumOver(g, {}) + g[a]
  BY <1>1, SumAdded
<1> QED BY <1>1, <1>2, <1>3

LEMMA HeadTakesItsOwn ==
  ASSUME Inductive, QueuedLots, ToldInTime, call.pc = "queue", NEW id, NEW fill,
         ServesHead(id, fill), FilledSeqs' = FilledSeqs \cup {PlacementOf(id)},
         \A n : LotsWith(call'.fills, "STRATEGY", call'.price, n)
                     = LotsWith(call.fills, "STRATEGY", call.price, n) +
                         IF n = PlacementOf(id) THEN fill ELSE 0
  PROVE  /\ RestingIds' \subseteq RestingIds
         /\ \A x \in RestingIds' : x # id => PlacementOf(x)' = PlacementOf(x)
         /\ id \in RestingIds' => /\ PlacementOf(id)' = PlacementOf(id)
                                  /\ fill = call.lots - (AheadMarket + AheadPaper)
         /\ TradingPapers' = TradingPapers
         /\ PaperLots' = PaperLots
<1> DEFINE s == PlacementOf(id)
<1>1. /\ id \in RestingIds
      /\ fill \in Nat
      /\ fill = Lesser(paper_orders[id].remaining, call.lots - (AheadMarket + AheadPaper))
      /\ LeavePaperOrder(id, fill, fill, "PARTIALLY_FILLED")
      /\ call'.side = call.side
      /\ call'.price = call.price
  BY DEF ServesHead
<1>2. /\ PaperInvariant
      /\ call.lots \in Nat
      /\ paper_orders[id].remaining \in Nat
  BY <1>1, HandlerFacts, TradingPapersFacts DEF Inductive
<1>3. /\ RestingIds' = IF fill = paper_orders[id].remaining
                          THEN RestingIds \ {id} ELSE RestingIds
      /\ \A x \in RestingIds : x # id => paper_orders'[x] = paper_orders[x]
      /\ fill # paper_orders[id].remaining =>
              /\ paper_orders'[id].remaining = paper_orders[id].remaining - fill
              /\ paper_orders'[id].placement_seq = paper_orders[id].placement_seq
  BY <1>1, <1>2, RestingAfterTake
<1>4. /\ RestingIds' \subseteq RestingIds
      /\ \A x \in RestingIds : x # id => PlacementOf(x)' = PlacementOf(x)
      /\ id \in RestingIds' => /\ fill # paper_orders[id].remaining
                               /\ PlacementOf(id)' = PlacementOf(id)
                               /\ fill = call.lots - (AheadMarket + AheadPaper)
  <2>1. /\ RestingIds' \subseteq RestingIds
        /\ \A x \in RestingIds : x # id => PlacementOf(x)' = PlacementOf(x)
    BY <1>3 DEF PlacementOf
  <2>2. id \in RestingIds' => fill # paper_orders[id].remaining
    BY <1>3
  <2>3. fill # paper_orders[id].remaining =>
          fill = call.lots - (AheadMarket + AheadPaper)
    BY <1>1 DEF Lesser
  <2>4. fill # paper_orders[id].remaining => PlacementOf(id)' = PlacementOf(id)
    BY <1>3 DEF PlacementOf
  <2> QED BY <2>1, <2>2, <2>3, <2>4
<1>5. TradingPapers' = TradingPapers
  <2>1. /\ TradingPapers' = {PlacementOf(x)' : x \in RestingIds'} \cup FilledSeqs'
        /\ TradingPapers = {PlacementOf(x) : x \in RestingIds} \cup FilledSeqs
    BY PapersNext, TradingPapersFacts
  <2>2. {PlacementOf(x)' : x \in RestingIds'} \cup {s}
          = {PlacementOf(x) : x \in RestingIds} \cup {s}
    <3>1. RestingIds' \cup {id} = RestingIds
      BY <1>1, <1>3
    <3>2. \A x \in RestingIds' : PlacementOf(x)' = PlacementOf(x)
      BY <1>4
    <3> QED BY <3>1, <3>2
  <2>3. s \in {PlacementOf(x) : x \in RestingIds}
    BY <1>1
  <2> QED BY <2>1, <2>2, <2>3
<1>6. PaperLots' = PaperLots
  <2>1. PaperLots' = [n \in TradingPapers' |->
           LotsWith(call'.fills, "STRATEGY", call'.price, n) +
             SumOver(RestingLots', {x \in RestingIds' : PlacementOf(x)' = n})]
    BY PapersNext
  <2>2. /\ DOMAIN PaperLots = TradingPapers
        /\ \A n \in TradingPapers :
             PaperLots[n] = LotsWith(call.fills, "STRATEGY", call.price, n) +
                                  SumOver(RestingLots, RestingWith(n))
    BY TradingPapersFacts
  <2>3. ASSUME NEW n \in TradingPapers
        PROVE  PaperLots'[n] = PaperLots[n]
    <3> DEFINE T == {x \in RestingIds' : PlacementOf(x)' = n}
               was == LotsWith(call.fills, "STRATEGY", call.price, n)
    <3>1. PaperLots'[n] = was + (IF n = s THEN fill ELSE 0) + SumOver(RestingLots', T)
      BY <1>5, <2>1
    <3>2. /\ PaperLots[n] = was + SumOver(RestingLots, RestingWith(n))
          /\ was \in Nat
      BY <2>2, TradingPapersFacts
    <3>3. /\ IsFiniteSet(RestingWith(n))
          /\ \A x \in RestingWith(n) : RestingLots[x] \in Nat
      BY TradingPapersFacts, FS_Subset DEF RestingWith
    <3>4. RestingLots' = [x \in RestingIds' |-> paper_orders'[x].remaining]
      BY PapersNext
    <3>5. CASE n # s
      <4>1. T = RestingWith(n)
        BY <1>3, <1>4, <3>5 DEF RestingWith
      <4>2. \A x \in T : RestingLots'[x] = RestingLots[x]
        BY <1>3, <1>4, <3>4, <3>5, <4>1, TradingPapersFacts DEF RestingWith
      <4> HIDE DEF T
      <4>3. SumOver(RestingLots', T) = SumOver(RestingLots, T)
        BY <3>3, <4>1, <4>2, SumSame
      <4>4. SumOver(RestingLots, T) \in Int
        BY <3>3, <4>1, SumType
      <4> QED BY <3>1, <3>2, <3>5, <4>1, <4>3, <4>4
    <3>6. CASE n = s
      <4>1. RestingWith(n) = {id} /\ RestingLots[id] = paper_orders[id].remaining
        BY <1>1, <3>6, QueueHead, TradingPapersFacts
      <4>2. SumOver(RestingLots, {id}) = paper_orders[id].remaining
        BY <1>2, <4>1, SumOfOne
      <4>3. SumOver(RestingLots', T) = paper_orders[id].remaining - fill
        <5> PICK h : h = RestingLots'
          OBVIOUS
        <5>1. CASE fill = paper_orders[id].remaining
          <6>1. T = {}
            <7> SUFFICES ASSUME NEW x \in T PROVE FALSE
              OBVIOUS
            <7>1. x \in RestingIds /\ x # id /\ PlacementOf(x) = n
              BY <1>3, <1>4, <5>1
            <7> QED BY <4>1, <7>1 DEF RestingWith
          <6> HIDE DEF T
          <6>2. SumOver(h, T) = 0
            BY <6>1, SumStep, FS_EmptySet
          <6> QED BY <1>1, <1>2, <5>1, <6>2
        <5>2. CASE fill # paper_orders[id].remaining
          <6>1. T = {id}
            <7>1. id \in T
              BY <1>1, <1>3, <1>4, <3>6, <5>2
            <7>2. ASSUME NEW x \in T, x # id PROVE FALSE
              <8>1. x \in RestingIds /\ PlacementOf(x) = n
                BY <1>3, <1>4, <5>2, <7>2
              <8> QED BY <4>1, <7>2, <8>1 DEF RestingWith
            <7> HIDE DEF T
            <7> QED BY <7>1, <7>2
          <6>2. RestingLots'[id] = paper_orders[id].remaining - fill
            BY <1>1, <1>3, <3>4, <5>2
          <6> HIDE DEF T
          <6>3. h[id] = paper_orders[id].remaining - fill /\ h[id] \in Int
            BY <1>1, <1>2, <6>2
          <6>4. SumOver(h, T) = h[id]
            BY <6>1, <6>3, SumOfOne
          <6> QED BY <6>3, <6>4
        <5> QED BY <5>1, <5>2
      <4> HIDE DEF T, was
      <4> QED BY <1>1, <1>2, <3>1, <3>2, <3>6, <4>1, <4>2, <4>3
    <3> QED BY <3>5, <3>6
  <2>4. DOMAIN PaperLots' = TradingPapers
    BY <1>5, <2>1
  <2>5. PaperLots' = [n \in TradingPapers |-> PaperLots'[n]]
    BY <1>5, <2>1
  <2>6. PaperLots = [n \in TradingPapers |-> PaperLots[n]]
    BY DEF PaperLots
  <2> QED BY <2>3, <2>5, <2>6
<1> QED BY <1>4, <1>5, <1>6

\* The lots ahead of the first order are those that have gone to the filled.
LEMMA AheadOfHead ==
  ASSUME Inductive, QueuedLots, ToldInTime, QueueServed, call.pc = "queue",
         call.lots > 0, NEW id \in RestingIds, id = Head(QueueLevel.orders)
  PROVE  /\ PlacementOf(id) \in Nat
         /\ \A m \in FilledSeqs : m < PlacementOf(id)
         /\ LotsAhead(PlacementOf(id)) =
              MarketBefore(PlacementOf(id)) + SumOver(FilledLots, FilledSeqs)
         /\ PaperLots[PlacementOf(id)] = paper_orders[id].remaining
<1> DEFINE s == PlacementOf(id)
           T == {m \in TradingPapers : m < s}
<1>1. /\ s \in Nat
      /\ s \in TradingPapers
      /\ \A n \in TradingPapers : n \in Nat
      /\ RestingLots[id] = paper_orders[id].remaining
      /\ RestingLots[id] \in Nat
      /\ FilledSeqs \subseteq TradingPapers
  BY TradingPapersFacts
<1>2. \A m \in FilledSeqs : m <= s /\ m # s
  BY DEF QueueServed, PlacementOf
<1>3. \A x \in RestingIds : s <= PlacementOf(x) /\ PlacementOf(x) \in Nat
  BY QueueHead, TradingPapersFacts
<1>4. \A m \in FilledSeqs : m < s
  BY <1>1, <1>2
<1>5. T = FilledSeqs
  <2>1. ASSUME NEW m \in T PROVE m \in FilledSeqs
    <3>1. ~ \E x \in RestingIds : m = PlacementOf(x)
      BY <1>1, <1>3
    <3>2. m \in {PlacementOf(x) : x \in RestingIds} \cup FilledSeqs
      BY TradingPapersFacts
    <3> QED BY <3>1, <3>2
  <2> QED BY <1>1, <1>4, <2>1
<1>6. \A m \in FilledSeqs : PaperLots[m] = FilledLots[m]
  <2> SUFFICES ASSUME NEW m \in FilledSeqs PROVE PaperLots[m] = FilledLots[m]
    OBVIOUS
  <2>1. RestingWith(m) = {}
    BY <1>1, <1>3, <1>4 DEF RestingWith
  <2>2. PaperLots[m] = LotsWith(call.fills, "STRATEGY", call.price, m) +
                         SumOver(RestingLots, RestingWith(m))
    BY <1>1, TradingPapersFacts
  <2>3. SumOver(RestingLots, RestingWith(m)) = 0
    BY <2>1, SumStep, FS_EmptySet
  <2>4. /\ FilledLots[m] = LotsWith(call.fills, "STRATEGY", call.price, m)
        /\ FilledLots[m] \in Nat
    BY FilledLotsFacts
  <2> QED BY <2>2, <2>3, <2>4
<1>7. LotsAhead(s) = MarketBefore(s) + SumOver(PaperLots, T)
  BY LotsAheadIs
<1>8. SumOver(PaperLots, FilledSeqs) = SumOver(FilledLots, FilledSeqs)
  BY <1>6, TradingPapersFacts, SumSame
<1>9. PaperLots[s] = paper_orders[id].remaining
  <2>1. /\ PaperLots[s] = LotsWith(call.fills, "STRATEGY", call.price, s) +
                           SumOver(RestingLots, RestingWith(s))
        /\ FilledSeqs = SeqsIn(call.fills, "STRATEGY", call.price)
    BY <1>1, TradingPapersFacts
  <2>2. LotsWith(call.fills, "STRATEGY", call.price, s) = 0
    BY <1>2, <2>1, NothingFilled
  <2>3. RestingWith(s) = {id}
    BY QueueHead
  <2>4. SumOver(RestingLots, {id}) = paper_orders[id].remaining
    BY <1>1, SumOfOne
  <2> QED BY <1>1, <2>1, <2>2, <2>3, <2>4
<1> QED BY <1>1, <1>4, <1>5, <1>7, <1>8, <1>9

LEMMA QueueFillKeeps ==
  ASSUME Inductive, MarketKnown, KnownAreQueued, ToldInTime, MarketMirrored, LevelTrades,
         QueuedLots, QueueServed, QueueFill
  PROVE  QueueServed'
<1> PICK id : id = Head(QueueLevel.orders)
  OBVIOUS
<1> PICK s : s = PlacementOf(id)
  OBVIOUS
<1> DEFINE M  == MarketBefore(s)
           S  == SumOver(FilledLots, FilledSeqs)
<1>1. /\ call.pc = "queue"
      /\ HasPaperLevel(call.side, call.price)
      /\ QueueLevel.orders # <<>>
  BY QueueFillServes
<1>2. PICK fill : ServesHead(id, fill)
  BY QueueFillServes
<1>3. /\ id \in RestingIds
      /\ fill \in Nat
      /\ fill > 0
      /\ AheadMarket \in Nat
      /\ AheadPaper \in Nat
      /\ AheadMarket + AheadPaper < call.lots
      /\ fill = Lesser(paper_orders[id].remaining,
                       call.lots - (AheadMarket + AheadPaper))
      /\ call'.lots = call.lots - (AheadMarket + AheadPaper) - fill
      /\ call'.consumed = call.consumed + AheadMarket
      /\ call'.price = call.price
      /\ call'.side = call.side
      /\ LeavePaperOrder(id, fill, fill, "PARTIALLY_FILLED")
  BY <1>2 DEF ServesHead
<1>4. /\ call.lots \in Nat
      /\ call.lots > 0
      /\ call.consumed \in Nat
      /\ paper_orders[id].remaining \in Nat
  <2>1. call.lots \in Nat /\ call.consumed \in Nat
    BY <1>1, HandlerFacts
  <2>2. paper_orders[id].remaining \in Nat
    BY <1>1, <1>3, TradingPapersFacts
  <2> QED BY <1>3, <2>1, <2>2
<1>5. /\ TradedLots' = TradedLots
      /\ TradingNodes' = TradingNodes
      /\ MarketLots' = MarketLots
      /\ FilledSeqs' = FilledSeqs \cup {s}
      /\ \A n : LotsWith(call'.fills, "STRATEGY", call'.price, n)
                  = LotsWith(call.fills, "STRATEGY", call.price, n) +
                      IF n = s THEN fill ELSE 0
  BY <1>1, <1>2, HeadServed
<1>6. /\ RestingIds' \subseteq RestingIds
      /\ \A x \in RestingIds' : x # id => PlacementOf(x)' = PlacementOf(x)
      /\ id \in RestingIds' => /\ PlacementOf(id)' = s
                               /\ fill = call.lots - (AheadMarket + AheadPaper)
      /\ TradingPapers' = TradingPapers
      /\ PaperLots' = PaperLots
  BY <1>1, <1>2, <1>5, HeadTakesItsOwn
<1>7. /\ s \in Nat
      /\ \A m \in FilledSeqs : m < s
      /\ LotsAhead(s) = M + S
      /\ PaperLots[s] = paper_orders[id].remaining
  BY <1>1, <1>3, <1>4, AheadOfHead
<1>8. M \in Nat /\ S \in Int
  BY <1>1, <1>7, MarketBeforeGrows, FilledLotsFacts
<1>9. call.consumed <= M
  BY <1>1, <1>3 DEF QueueServed, PlacementOf
<1>10. AheadMarket = M - call.consumed
  <2>1. MarketAhead(QueueLevel, s) = M
    BY <1>1, <1>7, QueueMarket
  <2>2. AheadMarket = IF M > call.consumed THEN M - call.consumed ELSE 0
    BY <2>1 DEF AheadMarket, FirstOrder, PlacementOf
  <2> HIDE DEF M
  <2> QED BY <1>4, <1>8, <1>9, <2>2
<1>11. ASSUME NEW n
       PROVE  MarketBefore(n)' = MarketBefore(n) /\ LotsAhead(n)' = LotsAhead(n)
  <2>1. MarketBefore(n)' = MarketBefore(n)
    BY <1>5, MarketBeforeIs
  <2>2. LotsAhead(n) = MarketBefore(n) + SumOver(PaperLots, {m \in TradingPapers : m < n})
    BY LotsAheadIs
  <2>3. LotsAhead(n)' =
          MarketBefore(n)' + SumOver(PaperLots', {m \in TradingPapers' : m < n})
    BY LotsAheadIs
  <2> QED BY <1>6, <2>1, <2>2, <2>3
<1>12. /\ FilledLots' = [n \in FilledSeqs' |->
                           LotsWith(call'.fills, "STRATEGY", call'.price, n)]
       /\ \A n \in FilledSeqs : FilledLots'[n] = FilledLots[n]
       /\ FilledLots'[s] = fill
  <2>1. FilledLots' = [n \in FilledSeqs' |->
                           LotsWith(call'.fills, "STRATEGY", call'.price, n)]
    BY PapersNext
  <2>2. ASSUME NEW n \in FilledSeqs PROVE FilledLots'[n] = FilledLots[n]
    <3>1. /\ FilledLots[n] = LotsWith(call.fills, "STRATEGY", call.price, n)
          /\ FilledLots[n] \in Nat
      BY <1>1, FilledLotsFacts
    <3>2. n # s
      BY <1>7
    <3>3. FilledLots'[n] = LotsWith(call.fills, "STRATEGY", call.price, n) + 0
      BY <1>5, <2>1, <3>2
    <3> QED BY <3>1, <3>3
  <2>3. FilledLots'[s] = fill
    <3>1. s \notin SeqsIn(call.fills, "STRATEGY", call.price)
      BY <1>1, <1>7, TradingPapersFacts
    <3>2. LotsWith(call.fills, "STRATEGY", call.price, s) = 0
      BY <3>1, NothingFilled
    <3>3. FilledLots'[s] = LotsWith(call.fills, "STRATEGY", call.price, s) + fill
      BY <1>5, <2>1
    <3> QED BY <1>3, <3>2, <3>3
  <2> QED BY <2>1, <2>2, <2>3
<1>13. SumOver(FilledLots', FilledSeqs') = S + fill
  <2> PICK h : h = FilledLots'
    OBVIOUS
  <2>1. SumOver(h, FilledSeqs) = S
    <3>1. IsFiniteSet(FilledSeqs) /\ \A n \in FilledSeqs : h[n] = FilledLots[n]
      BY <1>1, <1>12, TradingPapersFacts
    <3> QED BY <3>1, SumSame
  <2>2. \A x \in FilledSeqs \cup {s} : h[x] \in Int
    BY <1>1, <1>3, <1>12, FilledLotsFacts
  <2>3. s \notin FilledSeqs /\ IsFiniteSet(FilledSeqs)
    BY <1>1, <1>7, TradingPapersFacts
  <2> HIDE DEF S
  <2>4. SumOver(h, FilledSeqs \cup {s}) = SumOver(h, FilledSeqs) + h[s]
    BY <2>2, <2>3, SumAdded
  <2> QED BY <1>5, <1>12, <2>1, <2>4
<1>14. /\ call.lots + call.consumed + S <= TradedLots
       /\ NothingStale => call.lots + call.consumed + S = TradedLots
       /\ TradedLots \in Int
  BY <1>1, FilledSumIs, TradedType DEF QueueServed
<1>19. NothingStale' => NothingStale /\ AheadPaper = 0
  <2>1. NothingStale => AheadPaper = 0
    BY <1>1, <1>3, QueueHead
  <2>2. NothingStale' => NothingStale
    BY <1>1, <1>3, StaleStays
  <2> QED BY <2>1, <2>2
<1> HIDE DEF M, S
<1>15. /\ call'.lots + call'.consumed + SumFunctionOnSet(FilledLots, FilledSeqs)'
            <= TradedLots'
       /\ NothingStale' =>
            call'.lots + call'.consumed + SumFunctionOnSet(FilledLots, FilledSeqs)'
              = TradedLots'
  <2>1. SumFunctionOnSet(FilledLots, FilledSeqs)' = S + fill
    BY <1>13, FilledSumIs
  <2>2. call'.lots + call'.consumed + (S + fill)
          = call.lots + call.consumed + S - AheadPaper
    BY <1>3, <1>4, <1>8
  <2>3. call'.lots + call'.consumed + (S + fill) <= TradedLots
    BY <1>3, <1>4, <1>8, <1>14, <2>2
  <2>4. NothingStale' => call'.lots + call'.consumed + (S + fill) = TradedLots
    BY <1>4, <1>8, <1>14, <1>19, <2>2
  <2> QED BY <1>5, <2>1, <2>3, <2>4
<1>16. call'.consumed = M
  BY <1>3, <1>4, <1>8, <1>10
<1>17. ASSUME NEW x \in RestingIds'
       PROVE  /\ \A n \in FilledSeqs' :
                   /\ n <= PlacementOf(x)'
                   /\ n = PlacementOf(x)' => call'.lots = 0
              /\ call'.consumed <= MarketBefore(PlacementOf(x))'
  <2> PICK y : y = PlacementOf(x)'
    OBVIOUS
  <2>1. y = PlacementOf(x) /\ y \in Nat
    BY <1>1, <1>6, TradingPapersFacts
  <2>2. s <= y /\ (s = y => x = id)
    BY <1>1, <1>6, <2>1, QueueHead
  <2>3. \A n \in FilledSeqs' : n \in Nat /\ n <= y
    <3>1. \A n \in FilledSeqs : n \in Nat
      BY <1>1, TradingPapersFacts
    <3> QED BY <1>5, <1>7, <2>1, <2>2, <3>1
  <2>4. ASSUME NEW n \in FilledSeqs', n = y PROVE call'.lots = 0
    <3>1. s = y
      <4>1. n = s \/ n < s
        BY <1>5, <1>7
      <4>2. n \in Nat
        BY <2>3
      <4> QED BY <1>7, <2>1, <2>2, <2>4, <4>1, <4>2
    <3>2. x = id /\ fill = call.lots - (AheadMarket + AheadPaper)
      BY <1>6, <2>2, <3>1
    <3> QED BY <1>3, <1>4, <3>2
  <2>5. M <= MarketBefore(y)
    BY <1>1, <1>7, <2>1, <2>2, MarketBeforeGrows DEF M
  <2>6. MarketBefore(PlacementOf(x))' = MarketBefore(y)
    <3>1. MarketBefore(y)' = MarketBefore(y)
      BY <1>11
    <3>2. MarketBefore(PlacementOf(x))' = SumOver(MarketLots',
             {m \in TradingNodes' : m < PlacementOf(x)'})
      BY DEF MarketBefore, SumFunctionOnSet, FoldFunctionOnSet, SumOver, MapThenSumSet,
             MapThenFoldSet
    <3>3. MarketBefore(y)' = SumOver(MarketLots', {m \in TradingNodes' : m < y})
      BY MarketBeforeIs
    <3> QED BY <3>1, <3>2, <3>3
  <2> QED BY <1>16, <2>3, <2>4, <2>5, <2>6
<1>18. ASSUME NEW n \in FilledSeqs'
       PROVE  /\ TradedLots' > LotsAhead(n)'
              /\ FilledLots'[n] <= TradedLots' - LotsAhead(n)'
              /\ NothingStale' => FilledLots'[n] = Lesser(TradedLots' - LotsAhead(n)',
                                                         PaperLots'[n])
  <2>1. CASE n \in FilledSeqs
    <3>1. /\ TradedLots > LotsAhead(n)
          /\ FilledLots[n] <= TradedLots - LotsAhead(n)
          /\ NothingStale => FilledLots[n] = Lesser(TradedLots - LotsAhead(n), PaperLots[n])
      BY <1>1, <2>1 DEF QueueServed
    <3> QED BY <1>5, <1>6, <1>11, <1>12, <1>19, <2>1, <3>1
  <2>2. CASE n = s
    <3>1. LotsAhead(n)' = M + S
      BY <1>7, <1>11, <2>2
    <3>2. TradedLots - (M + S) >= call.lots - AheadMarket
      BY <1>3, <1>4, <1>8, <1>10, <1>14
    <3>3. TradedLots > M + S
      BY <1>3, <1>4, <1>8, <1>14, <3>2
    <3>4. fill <= call.lots - (AheadMarket + AheadPaper)
      <4>1. /\ paper_orders[id].remaining \in Int
            /\ call.lots - (AheadMarket + AheadPaper) \in Int
        BY <1>3, <1>4
      <4> QED BY <1>3, <4>1, LesserFacts
    <3>5. FilledLots'[n] <= TradedLots - (M + S)
      BY <1>3, <1>4, <1>8, <1>12, <1>14, <2>2, <3>2, <3>4
    <3>6. ASSUME NothingStale'
          PROVE  FilledLots'[n] = Lesser(TradedLots - (M + S), PaperLots[n])
      <4> DEFINE a == call.lots - AheadMarket
                 b == paper_orders[id].remaining
      <4>1. a \in Int /\ b \in Int
        BY <1>3, <1>4
      <4>2. fill = Lesser(b, a)
        <5>1. call.lots - (AheadMarket + AheadPaper) = a
          BY <1>3, <1>4, <1>19, <3>6
        <5> QED BY <1>3, <5>1
      <4>3. TradedLots - (M + S) = a
        <5>1. TradedLots = call.lots + call.consumed + S
          BY <1>14, <1>19, <3>6
        <5> QED BY <1>3, <1>4, <1>8, <1>10, <5>1
      <4> HIDE DEF a, b
      <4>4. Lesser(b, a) = Lesser(a, b)
        BY <4>1 DEF Lesser
      <4> QED BY <1>7, <1>12, <2>2, <4>2, <4>3, <4>4 DEF b
    <3> QED BY <1>5, <1>6, <3>1, <3>3, <3>5, <3>6
  <2> QED BY <1>5, <2>1, <2>2
<1> QED BY <1>15, <1>17, <1>18 DEF QueueServed, PlacementOf

(***************************************************************************)
(* A historical order that sweeps.                                         *)
(***************************************************************************)
Sweeps(p, n, take) ==
  /\ Live(call.side, p)
  /\ n \in ToSet(QueueAt(call.side, p))
  /\ take = Lesser(node[n].qty, call.remaining)
  /\ node[n].qty \in Nat
  /\ call'.pc = "queue" <=>
       /\ \/ take = call.remaining
          \/ take = node[n].qty /\ Len(QueueAt(call.side, p)) = 1
       /\ call.lots + take > 0
  /\ call'.price = p
  /\ call'.lots = call.lots + take
  /\ call'.consumed = call.consumed
  /\ call'.deltas = IF take > 0 THEN Append(call.deltas, [seq |-> n, qty |-> take])
                                ELSE call.deltas
  /\ call'.event = call.event
  /\ call'.side = call.side
  /\ call'.remaining = call.remaining - take
  /\ call'.pc \in {"sweep", "queue"}
  /\ call'.fills = IF take > 0 THEN Append(call.fills, BookFill(n, p, take))
                               ELSE call.fills
  /\ take = node[n].qty => NodeTaken(call.side, p, n)
  /\ take # node[n].qty => NodeRestocked(n, node[n].qty - take)

LEMMA SweepTakes ==
  ASSUME Inductive, HistoricalSweep
  PROVE  \E p \in NextPrice, n \in DOMAIN node, take \in Nat : Sweeps(p, n, take)
<1>1. PICK side \in Sides, p \in NextPrice, n \in DOMAIN node, take \in Nat :
           /\ side = call.side
           /\ Live(side, p)
           /\ n = Head(QueueAt(side, p))
           /\ take = Lesser(node[n].qty, call.remaining)
           /\ take <= call.remaining
           /\ node[n].qty \in Nat
           /\ n \in ToSet(QueueAt(side, p))
           /\ call'.pc = "queue" <=>
                /\ \/ take = call.remaining
                   \/ take = node[n].qty /\ Len(QueueAt(side, p)) = 1
                /\ call.lots + take > 0
           /\ call'.price = p
           /\ call'.lots = call.lots + take
           /\ call'.consumed = call.consumed
           /\ call'.deltas = IF take > 0 THEN Append(call.deltas, [seq |-> n, qty |-> take])
                                         ELSE call.deltas
           /\ call'.event = call.event
           /\ call'.side = call.side
           /\ call'.remaining = call.remaining - take
           /\ call'.pc \in {"sweep", "queue"}
           /\ call'.fills = IF take > 0 THEN Append(call.fills, BookFill(n, p, take))
                                        ELSE call.fills
           /\ take = node[n].qty => NodeTaken(side, p, n)
           /\ take # node[n].qty => NodeRestocked(n, node[n].qty - take)
  BY SweepDetail
<1>2. Sweeps(p, n, take)
  BY <1>1 DEF Sweeps
<1> QED BY <1>2

LEMMA SweeperFacts ==
  ASSUME Inductive, HistoricalSweep
  PROVE  /\ call.pc = "sweep"
         /\ call.event.type = "ADD"
         /\ call.event.source = "HISTORICAL"
         /\ call.remaining > 0
         /\ call.remaining \in Nat
         /\ call.side \in Sides
         /\ call.lots \in Nat
         /\ call.fills \in Seq(Fill)
         /\ call.deltas \in Seq(Delta)
         /\ call.deltas = <<>> \/ call.deltas # <<>>
         /\ Trading({"sweep", "queue", "settle"})
         /\ \A n : Untold(n) = DeltaLots(call.deltas, n)
         /\ \A p \in NextPrice : p \in Prices
         /\ UNCHANGED <<paper, paper_orders, paper_order_info, order_arrival_seq>>
<1>1. call.pc = "sweep" /\ call.event.source = "HISTORICAL" /\ call.remaining > 0
  BY Zenon DEF HistoricalSweep
<1>2. UNCHANGED <<paper, paper_orders, paper_order_info, order_arrival_seq>>
  BY Zenon DEF HistoricalSweep, paperVars
<1>3. /\ HandlerState
      /\ call.event.type \in {"ADD", "AGGRESSIVE_TRADE", "MATCH"}
      /\ call.side \in Sides
      /\ call.remaining \in Nat
      /\ call.lots \in Nat
      /\ call.fills \in Seq(Fill)
      /\ call.deltas \in Seq(Delta)
  BY <1>1, HandlerFacts DEF Delta
<1>4. call.event.type = "ADD"
  BY <1>1, <1>3 DEF HandlerState
<1>5. \A n : Untold(n) = DeltaLots(call.deltas, n)
  <2> SUFFICES ASSUME NEW n PROVE Untold(n) = DeltaLots(call.deltas, n)
    OBVIOUS
  <2>1. Matched(n) = 0
    BY <1>4 DEF Matched
  <2>2. DeltaLots(call.deltas, n) \in Int
    BY <1>3, DeltaLotsType
  <2> QED BY <2>1, <2>2, UntoldIs
<1>6. \A p \in NextPrice : p \in Prices
  BY DEF NextPrice, BestPrice
<1> QED BY <1>1, <1>2, <1>3, <1>4, <1>5, <1>6 DEF Trading

LEMMA SweepCounts ==
  ASSUME Inductive, HistoricalSweep, NEW p \in NextPrice, NEW n \in DOMAIN node,
         NEW take \in Nat, Sweeps(p, n, take)
  PROVE  /\ LotsIn(call.fills, "HISTORICAL", p) \in Int
         /\ LotsIn(call'.fills, "HISTORICAL", p) = LotsIn(call.fills, "HISTORICAL", p) + take
         /\ SeqsIn(call'.fills, "HISTORICAL", p) =
              SeqsIn(call.fills, "HISTORICAL", p) \cup IF take > 0 THEN {n} ELSE {}
         /\ \A m : LotsWith(call'.fills, "HISTORICAL", p, m) =
                     LotsWith(call.fills, "HISTORICAL", p, m) + IF m = n THEN take ELSE 0
         /\ \A m : Untold(m)' = Untold(m) + IF m = n THEN take ELSE 0
         /\ \A q : SeqsIn(call'.fills, "STRATEGY", q) = SeqsIn(call.fills, "STRATEGY", q)
         /\ \A q : q # p => SeqsIn(call'.fills, "HISTORICAL", q)
                              = SeqsIn(call.fills, "HISTORICAL", q)
<1>1. /\ call.fills \in Seq(Fill)
      /\ call.deltas \in Seq(Delta)
      /\ call.event.type = "ADD"
      /\ p \in Prices
      /\ call.pc = "sweep"
  BY SweeperFacts
<1> PICK f : f = BookFill(n, p, take)
  OBVIOUS
<1> PICK old : old = call.fills
  OBVIOUS
<1> PICK new : new = call'.fills
  OBVIOUS
<1>2. /\ f \in Fill
      /\ f.source = "HISTORICAL"
      /\ f.price = p
      /\ f.qty = take
      /\ f.seq = n
  <2>1. f \in Fill
    BY <1>1, HandlerFacts, BookFillType
  <2> QED BY <2>1 DEF BookFill
<1>3. /\ LotsIn(old, "HISTORICAL", p) \in Int
      /\ \A m : LotsWith(old, "HISTORICAL", p, m) \in Int
  BY <1>1, FillsFacts
<1>4. /\ LotsIn(new, "HISTORICAL", p) = LotsIn(old, "HISTORICAL", p) + take
      /\ SeqsIn(new, "HISTORICAL", p) =
           SeqsIn(old, "HISTORICAL", p) \cup IF take > 0 THEN {n} ELSE {}
      /\ \A m : LotsWith(new, "HISTORICAL", p, m) =
                  LotsWith(old, "HISTORICAL", p, m) + IF m = n THEN take ELSE 0
      /\ \A q : SeqsIn(new, "STRATEGY", q) = SeqsIn(old, "STRATEGY", q)
      /\ \A q : q # p => SeqsIn(new, "HISTORICAL", q) = SeqsIn(old, "HISTORICAL", q)
  <2>1. CASE take > 0
    <3>1. OneMore(new, old, f)
      BY <1>1, <1>2, <2>1 DEF OneMore, Sweeps
    <3>2. ASSUME NEW source, NEW q
          PROVE  /\ LotsIn(new, source, q) = LotsIn(old, source, q) +
                      IF f.source = source /\ f.price = q THEN f.qty ELSE 0
                 /\ SeqsIn(new, source, q) = SeqsIn(old, source, q) \cup
                      IF f.source = source /\ f.price = q THEN {f.seq} ELSE {}
                 /\ \A m : LotsWith(new, source, q, m) = LotsWith(old, source, q, m) +
                      IF f.source = source /\ f.price = q /\ f.seq = m THEN f.qty ELSE 0
      BY <3>1, OneMoreFill
    <3>3. f.source # "STRATEGY"
      BY <1>2
    <3>4. \A q : SeqsIn(new, "STRATEGY", q) = SeqsIn(old, "STRATEGY", q) \cup {}
      BY <3>2, <3>3
    <3>5. \A q : q # p =>
            SeqsIn(new, "HISTORICAL", q) = SeqsIn(old, "HISTORICAL", q) \cup {}
      BY <1>2, <3>2
    <3>6. /\ LotsIn(new, "HISTORICAL", p) = LotsIn(old, "HISTORICAL", p) + take
          /\ SeqsIn(new, "HISTORICAL", p) = SeqsIn(old, "HISTORICAL", p) \cup {n}
      <4>1. /\ LotsIn(new, "HISTORICAL", p) = LotsIn(old, "HISTORICAL", p) +
                 IF f.source = "HISTORICAL" /\ f.price = p THEN f.qty ELSE 0
            /\ SeqsIn(new, "HISTORICAL", p) = SeqsIn(old, "HISTORICAL", p) \cup
                 IF f.source = "HISTORICAL" /\ f.price = p THEN {f.seq} ELSE {}
        BY <3>2
      <4> QED BY <1>2, <4>1
    <3>7. ASSUME NEW m
          PROVE  LotsWith(new, "HISTORICAL", p, m) =
                   LotsWith(old, "HISTORICAL", p, m) + IF m = n THEN take ELSE 0
      <4>1. LotsWith(new, "HISTORICAL", p, m) = LotsWith(old, "HISTORICAL", p, m) +
              IF f.source = "HISTORICAL" /\ f.price = p /\ f.seq = m THEN f.qty ELSE 0
        BY <3>2
      <4> QED BY <1>2, <4>1
    <3> QED BY <2>1, <3>4, <3>5, <3>6, <3>7
  <2>2. CASE take = 0
    <3>1. new = old
      BY <2>2 DEF Sweeps
    <3> QED BY <1>3, <2>2, <3>1
  <2> QED BY <2>1, <2>2
<1>5. ASSUME NEW m
      PROVE  Untold(m)' = Untold(m) + IF m = n THEN take ELSE 0
  <2>1. Untold(m) = DeltaLots(call.deltas, m) /\ DeltaLots(call.deltas, m) \in Int
    BY <1>1, SweeperFacts, DeltaLotsType
  <2>2. Matched(m)' = 0
    BY <1>1 DEF Matched, Sweeps
  <2>3. DeltaLots(call'.deltas, m) =
          DeltaLots(call.deltas, m) + IF m = n THEN take ELSE 0
    <3>1. CASE take > 0
      <4>1. PICK d : d = [seq |-> n, qty |-> take]
        OBVIOUS
      <4>2. d \in Delta /\ d.seq = n /\ d.qty = take
        <5> n \in Nat
          BY DEF Inductive, BookInvariant, BookTypes, IsPartial
        <5> QED BY <4>1 DEF Delta
      <4>3. PICK was, is : was = call.deltas /\ is = call'.deltas
        OBVIOUS
      <4>4. was \in Seq(Delta) /\ is = Append(was, d)
        BY <1>1, <3>1, <4>1, <4>3 DEF Sweeps
      <4>5. DeltaLots(is, m) = DeltaLots(was, m) + IF d.seq = m THEN d.qty ELSE 0
        BY <4>2, <4>4, DeltaAppended
      <4> QED BY <4>2, <4>3, <4>5
    <3>2. CASE take = 0
      BY <2>1, <3>2 DEF Sweeps
    <3> QED BY <3>1, <3>2
  <2>4. Untold(m)' = DeltaLots(call'.deltas, m) - Matched(m)'
    BY UntoldIs
  <2> QED BY <2>1, <2>2, <2>3, <2>4
<1> QED BY <1>3, <1>4, <1>5

\* What has traded at the level that the order comes to, before it takes.
LEMMA TradedSoFar ==
  ASSUME Inductive, HeapCovers, MarketKnown, SweepStays, LevelTrades,
         NothingTradedAhead, HistoricalSweep, NEW p \in NextPrice
  PROVE  /\ call.consumed = 0
         /\ call.lots = LotsIn(call.fills, "HISTORICAL", p)
         /\ call.deltas = <<>> => call.lots = 0
         /\ SeqsIn(call.fills, "HISTORICAL", p) # {} => call.lots > 0
         /\ \A n \in 0 .. order_arrival_seq :
              Untold(n) = LotsWith(call.fills, "HISTORICAL", p, n)
         /\ HasPaperLevel(call.side, p) =>
              SeqsIn(call.fills, "HISTORICAL", p)
                \subseteq ToSet(paper[call.side][p].market_seqs)
         /\ \A q \in Prices : Live(call.side, q) =>
              /\ SeqsIn(call.fills, "STRATEGY", q) = {}
              /\ q # p => SeqsIn(call.fills, "HISTORICAL", q) = {}
<1>1. /\ call.pc = "sweep"
      /\ call.side \in Sides
      /\ call.lots \in Nat
      /\ p \in Prices
      /\ Trading({"sweep", "queue", "settle"})
      /\ \A n : Untold(n) = DeltaLots(call.deltas, n)
  BY SweeperFacts
<1>2. /\ call.consumed = 0
      /\ call.deltas = <<>> => call.lots = 0
      /\ call.lots > 0 => call.lots = LotsIn(call.fills, "HISTORICAL", call.price)
  BY <1>1, FillsAre DEF LevelTrades
<1>3. call.deltas # <<>> =>
        /\ call.lots > 0
        /\ p = call.price
  BY <1>1, SweepAtLevel DEF SweepStays
<1>4. ASSUME NEW q \in Prices, Live(call.side, q)
      PROVE  /\ SeqsIn(call.fills, "STRATEGY", q) = {}
             /\ SeqsIn(call.fills, "HISTORICAL", q) # {} =>
                  call.lots > 0 /\ q = call.price
  <2>1. /\ FillsIn(call.fills, "STRATEGY", q) = {}
        /\ FillsIn(call.fills, "HISTORICAL", q) # {} =>
             call.lots > 0 /\ q = call.price
    BY <1>1, <1>4, FillsAre DEF NothingTradedAhead
  <2> QED BY <2>1 DEF SeqsIn
<1>5. Live(call.side, p)
  BY SweepAtBest
<1>6. ASSUME NEW q \in Prices, Live(call.side, q), q # p
      PROVE  SeqsIn(call.fills, "HISTORICAL", q) = {}
  BY <1>2, <1>3, <1>4, <1>6
<1>7. /\ call.lots = LotsIn(call.fills, "HISTORICAL", p)
      /\ \A n \in 0 .. order_arrival_seq :
           Untold(n) = LotsWith(call.fills, "HISTORICAL", p, n)
      /\ HasPaperLevel(call.side, p) =>
           SeqsIn(call.fills, "HISTORICAL", p)
             \subseteq ToSet(paper[call.side][p].market_seqs)
  <2>1. CASE call.deltas = <<>>
    <3>1. call.lots = 0 /\ SeqsIn(call.fills, "HISTORICAL", p) = {}
      BY <1>1, <1>2, <1>4, <1>5, <2>1
    <3>2. LotsIn(call.fills, "HISTORICAL", p) = 0
      <4>1. FillsIn(call.fills, "HISTORICAL", p) = {}
        BY <3>1 DEF SeqsIn
      <4> QED BY <4>1, NoLots DEF LotsIn
    <3>3. \A n : Untold(n) = 0 /\ LotsWith(call.fills, "HISTORICAL", p, n) = 0
      BY <1>1, <2>1, <3>1, NoDeltas, NothingFilled
    <3> QED BY <3>1, <3>2, <3>3
  <2>2. CASE call.deltas # <<>>
    <3>1. p = call.price /\ call.lots > 0
      BY <1>3, <2>2
    <3>2. /\ \A n \in 0 .. order_arrival_seq :
               Untold(n) = FilledOf("HISTORICAL", call.price, n)
          /\ \A k \in FillsAt("HISTORICAL", call.price) :
               HasPaperLevel(call.side, call.price) =>
                 call.fills[k].seq \in ToSet(paper[call.side][call.price].market_seqs)
      BY <1>1, <2>2 DEF LevelTrades
    <3>3. /\ FillsAt("HISTORICAL", call.price) = FillsIn(call.fills, "HISTORICAL", p)
          /\ \A n : FilledOf("HISTORICAL", call.price, n)
                      = LotsWith(call.fills, "HISTORICAL", p, n)
      BY <3>1, FillsAre
    <3> QED BY <1>2, <3>1, <3>2, <3>3 DEF SeqsIn
  <2> QED BY <2>1, <2>2
<1> QED BY <1>1, <1>2, <1>4, <1>5, <1>6, <1>7

\* To show that the traded lots are still counted after a step.
LEMMA LevelTradesNext ==
  ASSUME call'.pc = "sweep" =>
           /\ call'.consumed = 0
           /\ call'.deltas = <<>> => call'.lots = 0
           /\ call'.lots > 0 => call'.lots = LotsIn(call'.fills, "HISTORICAL", call'.price),
         call'.pc = "queue" \/ (call'.pc = "sweep" /\ call'.deltas # <<>>) =>
           /\ \A n \in 0 .. order_arrival_seq' :
                Untold(n)' = LotsWith(call'.fills, "HISTORICAL", call'.price, n)
           /\ HasPaperLevel(call.side, call.price)' =>
                SeqsIn(call'.fills, "HISTORICAL", call'.price)
                  \subseteq ToSet(paper'[call'.side][call'.price].market_seqs)
  PROVE  LevelTrades'
<1>1. FillsAt("HISTORICAL", call.price)' = FillsIn(call'.fills, "HISTORICAL", call'.price)
  BY DEF FillsAt, FillsIn
<1>2. Lots(FillsAt("HISTORICAL", call.price))'
        = LotsIn(call'.fills, "HISTORICAL", call'.price)
  BY <1>1, LotsNext DEF Lots, LotsIn, MapThenSumSet, MapThenFoldSet
<1>3. call'.pc = "sweep" =>
        /\ call'.consumed = 0
        /\ call'.deltas = <<>> => call'.lots = 0
        /\ call'.lots > 0 => call'.lots = Lots(FillsAt("HISTORICAL", call.price))'
  BY <1>2
<1>4. call'.pc = "queue" \/ (call'.pc = "sweep" /\ call'.deltas # <<>>) =>
        /\ \A n \in 0 .. order_arrival_seq' :
             Untold(n)' = FilledOf("HISTORICAL", call.price, n)'
        /\ \A k \in FillsAt("HISTORICAL", call.price)' :
             HasPaperLevel(call.side, call.price)' =>
               call'.fills[k].seq \in ToSet(paper'[call'.side][call'.price].market_seqs)
  BY <1>1, FilledOfNext DEF SeqsIn
<1> QED BY <1>3, <1>4 DEF LevelTrades, ToSet

LEMMA LevelTradesOnSweep ==
  ASSUME Inductive, Inductive', HeapCovers, MarketKnown, SweepStays, LevelTrades,
         NothingTradedAhead, HistoricalSweep
  PROVE  LevelTrades'
<1>1. PICK p \in NextPrice, n \in DOMAIN node, take \in Nat : Sweeps(p, n, take)
  BY SweepTakes
<1>2. /\ call.pc = "sweep"
      /\ call.side \in Sides
      /\ call.lots \in Nat
      /\ p \in Prices
      /\ UNCHANGED <<paper, order_arrival_seq>>
  BY SweeperFacts
<1>3. /\ LotsIn(call.fills, "HISTORICAL", p) \in Int
      /\ LotsIn(call'.fills, "HISTORICAL", p) = LotsIn(call.fills, "HISTORICAL", p) + take
      /\ SeqsIn(call'.fills, "HISTORICAL", p) =
           SeqsIn(call.fills, "HISTORICAL", p) \cup IF take > 0 THEN {n} ELSE {}
      /\ \A m : LotsWith(call'.fills, "HISTORICAL", p, m) =
                  LotsWith(call.fills, "HISTORICAL", p, m) + IF m = n THEN take ELSE 0
      /\ \A m : Untold(m)' = Untold(m) + IF m = n THEN take ELSE 0
  BY <1>1, SweepCounts
<1>4. /\ call.consumed = 0
      /\ call.lots = LotsIn(call.fills, "HISTORICAL", p)
      /\ call.deltas = <<>> => call.lots = 0
      /\ \A m \in 0 .. order_arrival_seq :
           Untold(m) = LotsWith(call.fills, "HISTORICAL", p, m)
      /\ HasPaperLevel(call.side, p) =>
           SeqsIn(call.fills, "HISTORICAL", p)
             \subseteq ToSet(paper[call.side][p].market_seqs)
  BY TradedSoFar
<1>5. /\ call'.price = p
      /\ call'.side = call.side
      /\ call'.lots = call.lots + take
      /\ call'.consumed = call.consumed
      /\ take > 0 \/ call'.deltas = call.deltas
      /\ n \in ToSet(QueueAt(call.side, p))
  <2>1. take = 0 => call'.deltas = call.deltas
    BY <1>1 DEF Sweeps
  <2> QED BY <1>1, <2>1 DEF Sweeps
<1>6. /\ call'.consumed = 0
      /\ call'.deltas = <<>> => call'.lots = 0
      /\ call'.lots = LotsIn(call'.fills, "HISTORICAL", call'.price)
  <2>1. call'.deltas = <<>> => call'.lots = 0
    <3>1. CASE take > 0
      <4>1. call'.deltas # <<>>
        <5>1. PICK was, is, d : was = call.deltas /\ is = call'.deltas
                                  /\ d = [seq |-> n, qty |-> take]
          OBVIOUS
        <5>2. was \in Seq(Delta) /\ d \in Delta
          <6> n \in Nat
            BY DEF Inductive, BookInvariant, BookTypes, IsPartial
          <6> QED BY <5>1, SweeperFacts DEF Delta
        <5>3. is = Append(was, d)
          BY <1>1, <3>1, <5>1 DEF Sweeps
        <5> QED BY <5>1, <5>2, <5>3
      <4> QED BY <4>1
    <3>2. CASE take = 0
      BY <1>2, <1>4, <1>5, <3>2
    <3> QED BY <3>1, <3>2
  <2> QED BY <1>3, <1>4, <1>5, <2>1
<1>7. \A m \in 0 .. order_arrival_seq' :
        Untold(m)' = LotsWith(call'.fills, "HISTORICAL", call'.price, m)
  BY <1>2, <1>3, <1>4, <1>5
<1>8. HasPaperLevel(call.side, call.price)' =>
        SeqsIn(call'.fills, "HISTORICAL", call'.price)
          \subseteq ToSet(paper'[call'.side][call'.price].market_seqs)
  <2> SUFFICES ASSUME HasPaperLevel(call.side, call.price)'
               PROVE  SeqsIn(call'.fills, "HISTORICAL", call'.price)
                        \subseteq ToSet(paper'[call'.side][call'.price].market_seqs)
    OBVIOUS
  <2>1. HasPaperLevel(call.side, p) /\ p \in DOMAIN paper[call.side]
    BY <1>2, <1>5 DEF HasPaperLevel
  <2>2. paper[call.side][p].orders # <<>>
    BY <1>2, <2>1, LevelsHaveOrders
  <2>3. n \in ToSet(paper[call.side][p].market_seqs)
    BY <1>2, <1>5, <2>1, <2>2 DEF MarketKnown
  <2> QED BY <1>2, <1>3, <1>4, <1>5, <2>1, <2>3
<1> QED BY <1>6, <1>7, <1>8, LevelTradesNext

\* Where the order has not yet come, or will not come again.
LEMMA NothingAheadNext ==
  ASSUME Trading({"sweep", "queue", "settle"})' =>
           \A q \in Prices : Live(call.side, q)' =>
             /\ SeqsIn(call'.fills, "STRATEGY", q) = {}
             /\ SeqsIn(call'.fills, "HISTORICAL", q) # {} =>
                  call'.pc = "sweep" /\ call'.lots > 0 /\ q = call'.price,
         Trading({"queue", "settle"})' => ~Live(call.side, call.price)'
  PROVE  NothingTradedAhead'
<1>1. ASSUME NEW source, NEW q
      PROVE  FillsAt(source, q)' = {} <=> SeqsIn(call'.fills, source, q) = {}
  <2>1. FillsAt(source, q)' = FillsIn(call'.fills, source, q)
    BY FillsAreNext
  <2> QED BY <2>1 DEF SeqsIn
<1>2. ASSUME NEW q \in Prices, Trading({"sweep", "queue", "settle"})', Live(call.side, q)'
      PROVE  /\ FillsAt("STRATEGY", q)' = {}
             /\ FillsAt("HISTORICAL", q)' # {} =>
                  call'.pc = "sweep" /\ call'.lots > 0 /\ q = call'.price
  BY <1>1, <1>2
<1> QED BY <1>2, Zenon DEF NothingTradedAhead

LEMMA NothingAhead ==
  ASSUME NothingTradedAhead
  PROVE  /\ Trading({"sweep", "queue", "settle"}) =>
              \A q \in Prices : Live(call.side, q) =>
                /\ SeqsIn(call.fills, "STRATEGY", q) = {}
                /\ SeqsIn(call.fills, "HISTORICAL", q) # {} =>
                     call.pc = "sweep" /\ call.lots > 0 /\ q = call.price
         /\ Trading({"queue", "settle"}) => ~Live(call.side, call.price)
<1>1. \A source, q : FillsAt(source, q) = {} <=> SeqsIn(call.fills, source, q) = {}
  BY FillsAre DEF SeqsIn
<1> QED BY <1>1 DEF NothingTradedAhead

\* The order leaves a level before it has nothing left to take: it is empty.
LEMMA LevelIsLeft ==
  ASSUME Inductive, HistoricalSweep, NEW p \in NextPrice, NEW n \in DOMAIN node,
         NEW take \in Nat, Sweeps(p, n, take)
  PROVE  /\ \A q \in Prices : q # p =>
              (Live(call.side, q)' <=> Live(call.side, q))
         /\ call'.pc = "queue" /\ call'.remaining > 0 => ~Live(call.side, p)'
<1>1. p \in Prices /\ call.side \in Sides /\ call.remaining \in Nat /\ call'.side = call.side
  BY SweeperFacts DEF Sweeps
<1> PICK side : side = call.side
  OBVIOUS
<1>2. ASSUME NEW q \in Prices, q # p
      PROVE  Live(side, q)' <=> Live(side, q)
  <2>1. QueueAt(side, q)' = QueueAt(side, q)
    BY <1>1, <1>2 DEF Sweeps, NodeTaken, NodeRestocked, QueuesStay
  <2> QED BY <1>1, <2>1, NotLiveStays
<1>3. ASSUME call'.pc = "queue", call'.remaining > 0
      PROVE  ~Live(side, p)'
  <2>1. take = node[n].qty /\ Len(QueueAt(side, p)) = 1 /\ NodeTaken(side, p, n)
    BY <1>1, <1>3 DEF Sweeps
  <2>2. PICK queue : queue = QueueAt(side, p)
    OBVIOUS
  <2>3. queue \in Seq(Nat) /\ IsInjective(queue) /\ n \in ToSet(queue)
    BY <1>1, <2>1, <2>2, QueueAtFacts, IncreasingIsInjective DEF Inductive, NodeTaken
  <2>4. QueueAt(side, p)' = <<>>
    BY <2>1, <2>2, <2>3, UnlinkedLast DEF NodeTaken
  <2> QED BY <2>4 DEF QueueAt, Live
<1>4. \A q : Live(call.side, q)' <=> Live(side, q)'
  BY <1>1 DEF Live
<1> QED BY <1>2, <1>3, <1>4

LEMMA NothingAheadOnSweep ==
  ASSUME Inductive, HeapCovers, MarketKnown, SweepStays, LevelTrades,
         NothingTradedAhead, HistoricalSweep
  PROVE  NothingTradedAhead'
<1>1. PICK p \in NextPrice, n \in DOMAIN node, take \in Nat : Sweeps(p, n, take)
  BY SweepTakes
<1>2. /\ call.lots \in Nat
      /\ call.side \in Sides
      /\ p \in Prices
  BY SweeperFacts
<1>3. /\ SeqsIn(call'.fills, "HISTORICAL", p) =
           SeqsIn(call.fills, "HISTORICAL", p) \cup IF take > 0 THEN {n} ELSE {}
      /\ \A q : SeqsIn(call'.fills, "STRATEGY", q) = SeqsIn(call.fills, "STRATEGY", q)
      /\ \A q : q # p => SeqsIn(call'.fills, "HISTORICAL", q)
                           = SeqsIn(call.fills, "HISTORICAL", q)
  BY <1>1, SweepCounts
<1>4. /\ SeqsIn(call.fills, "HISTORICAL", p) # {} => call.lots > 0
      /\ \A q \in Prices : Live(call.side, q) =>
           /\ SeqsIn(call.fills, "STRATEGY", q) = {}
           /\ q # p => SeqsIn(call.fills, "HISTORICAL", q) = {}
  BY TradedSoFar
<1>5. /\ call'.price = p
      /\ call'.side = call.side
      /\ call'.lots = call.lots + take
      /\ call'.pc \in {"sweep", "queue"}
      /\ Live(call.side, p)
  BY <1>1 DEF Sweeps
<1>6. /\ \A q \in Prices : q # p => (Live(call.side, q)' <=> Live(call.side, q))
      /\ call'.pc = "queue" /\ call'.remaining > 0 => ~Live(call.side, p)'
  BY <1>1, LevelIsLeft
<1>7. ASSUME NEW q \in Prices, Live(call.side, q)', call'.remaining > 0
      PROVE  /\ SeqsIn(call'.fills, "STRATEGY", q) = {}
             /\ SeqsIn(call'.fills, "HISTORICAL", q) # {} =>
                  call'.pc = "sweep" /\ call'.lots > 0 /\ q = call'.price
  <2>1. CASE q = p
    <3>1. call'.pc = "sweep"
      BY <1>5, <1>6, <1>7, <2>1
    <3>2. SeqsIn(call'.fills, "HISTORICAL", p) # {} => call'.lots > 0
      BY <1>2, <1>3, <1>4, <1>5
    <3> QED BY <1>3, <1>4, <1>5, <2>1, <3>1, <3>2
  <2>2. CASE q # p
    BY <1>3, <1>4, <1>6, <1>7, <2>2
  <2> QED BY <2>1, <2>2
<1>8. Live(call.side, call.price)' <=> Live(call.side, p)'
  BY <1>5 DEF Live
<1>9. call'.pc \in {"sweep", "queue"}
  BY <1>5
<1> QED BY <1>6, <1>7, <1>8, <1>9, NothingAheadNext DEF Trading

\* Lots that trade ahead of a paper order are not negative, after a step too.
MarketCounts == \A n \in Nat : MarketBefore(n) \in Nat

LEMMA MarketCountsNow ==
  Inductive /\ ToldInTime /\ call.pc = "queue" => MarketCounts
BY MarketBeforeGrows DEF MarketCounts

LEMMA MarketCountsNext ==
  Inductive' /\ ToldInTime' /\ (call.pc = "queue")' => MarketCounts'
BY MarketCountsNow, PTL

\* Before the first order is served.
LEMMA NoneServedYet ==
  ASSUME Inductive', ToldInTime', call'.pc = "queue",
         call'.consumed = 0, SeqsIn(call'.fills, "STRATEGY", call'.price) = {},
         call'.lots = TradedLots', call'.lots \in Nat
  PROVE  QueueServed'
<1>1. FilledSeqs' = {}
  BY PapersNext
<1>2. SumFunctionOnSet(FilledLots, FilledSeqs)' = 0
  <2>1. SumFunctionOnSet(FilledLots, FilledSeqs)' = SumOver(FilledLots', FilledSeqs')
    BY FilledSumIs
  <2> QED BY <1>1, <2>1, SumStep, FS_EmptySet
<1>3. ASSUME NEW id \in RestingIds'
      PROVE  call'.consumed <= MarketBefore(paper_orders[id].placement_seq)'
  <2> PICK n : n = paper_orders'[id].placement_seq
    OBVIOUS
  <2>1. n \in Nat
    <3>1. id \in DOMAIN paper_orders' /\ IsPartial(paper_orders, Ids, PaperOrder)'
      BY <1>3, PapersNext DEF Inductive, PaperInvariant, PaperTypes
    <3>2. paper_orders'[id] \in PaperOrder
      BY <3>1 DEF IsPartial
    <3> QED BY <3>2 DEF PaperOrder
  <2>2. MarketBefore(n)' \in Nat
    BY <2>1, MarketCountsNext DEF MarketCounts
  <2>3. MarketBefore(paper_orders[id].placement_seq)' = SumOver(MarketLots',
           {m \in TradingNodes' : m < n})
    BY DEF MarketBefore, SumFunctionOnSet, FoldFunctionOnSet, SumOver, MapThenSumSet,
           MapThenFoldSet
  <2>4. MarketBefore(n)' = SumOver(MarketLots', {m \in TradingNodes' : m < n})
    BY MarketBeforeIs
  <2> QED BY <2>2, <2>3, <2>4
<1>4. call'.lots + call'.consumed + SumFunctionOnSet(FilledLots, FilledSeqs)' = TradedLots'
  BY <1>2
<1>5. call'.lots + call'.consumed + SumFunctionOnSet(FilledLots, FilledSeqs)' <= TradedLots'
  BY <1>4
<1> QED BY <1>1, <1>3, <1>4, <1>5 DEF QueueServed

LEMMA ServedOnSweep ==
  ASSUME Inductive, Inductive', ToldInTime', HeapCovers, MarketKnown, SweepStays,
         LevelTrades, NothingTradedAhead, HistoricalSweep
  PROVE  QueueServed'
<1> SUFFICES ASSUME call'.pc = "queue" PROVE QueueServed'
  BY DEF QueueServed
<1>1. PICK p \in NextPrice, n \in DOMAIN node, take \in Nat : Sweeps(p, n, take)
  BY SweepTakes
<1>2. /\ call.lots \in Nat
      /\ call.event.type = "ADD"
      /\ p \in Prices
  BY SweeperFacts
<1>3. /\ LotsIn(call'.fills, "HISTORICAL", p) = LotsIn(call.fills, "HISTORICAL", p) + take
      /\ \A q : SeqsIn(call'.fills, "STRATEGY", q) = SeqsIn(call.fills, "STRATEGY", q)
  BY <1>1, SweepCounts
<1>4. /\ call.consumed = 0
      /\ call.lots = LotsIn(call.fills, "HISTORICAL", p)
      /\ \A q \in Prices : Live(call.side, q) => SeqsIn(call.fills, "STRATEGY", q) = {}
  BY TradedSoFar
<1>5. /\ call'.price = p
      /\ call'.event = call.event
      /\ call'.lots = call.lots + take
      /\ call'.consumed = call.consumed
      /\ Live(call.side, p)
  BY <1>1 DEF Sweeps
<1>6. TradedLots' = call'.lots
  BY <1>2, <1>3, <1>4, <1>5, TradedNext
<1>7. SeqsIn(call'.fills, "STRATEGY", call'.price) = {} /\ call'.lots \in Nat
  BY <1>2, <1>3, <1>4, <1>5
<1> QED BY <1>4, <1>5, <1>6, <1>7, NoneServedYet

LEMMA NoFillsYet ==
  ASSUME NEW source, NEW p
  PROVE  /\ SeqsIn(<<>>, source, p) = {}
         /\ LotsIn(<<>>, source, p) = 0
         /\ \A n : LotsWith(<<>>, source, p, n) = 0
<1>1. FillsIn(<<>>, source, p) = {}
  BY DEF FillsIn
<1>2. SeqsIn(<<>>, source, p) = {}
  BY <1>1 DEF SeqsIn
<1>3. \A n : LotsWith(<<>>, source, p, n) = 0
  BY <1>2, NothingFilled
<1> QED BY <1>1, <1>2, <1>3, NoLots DEF LotsIn

\* A MATCH comes with all its lots.
LEMMA ServedOnMatch ==
  ASSUME Inductive, Inductive', ToldInTime', NEW e \in Event, OnMatch(e)
  PROVE  LevelTrades' /\ NothingTradedAhead' /\ QueueServed'
<1>1. /\ call'.event = e
      /\ e.type = "MATCH"
      /\ e.id \in DOMAIN order_info
      /\ Taken(e) \in Nat
      /\ call'.pc = IF Taken(e) > 0 THEN "queue" ELSE "settle"
      /\ call'.lots = Taken(e)
      /\ call'.consumed = 0
      /\ call'.fills = <<>>
      /\ call'.deltas = IF Taken(e) > 0
                          THEN <<[seq |-> NodeOf(e.id), qty |-> Taken(e)]>> ELSE <<>>
      /\ UNCHANGED <<book, node, order_info, paper, paper_orders, paper_order_info,
                     order_arrival_seq>>
  BY MatchComes
<1>2. NothingTradedAhead'
  BY <1>1, NothingAheadNext DEF Trading
<1>3. Taken(call.event)' = Taken(e)
  BY <1>1 DEF Taken, NodeOf
<1>4. LevelTrades'
  <2>1. ASSUME NEW n, call'.pc = "queue"
        PROVE  Untold(n)' = 0
    <3>1. Matched(n)' = IF n = NodeOf(e.id) THEN Taken(e) ELSE 0
      BY <1>1, <1>3 DEF Matched, NodeOf
    <3>2. DeltaLots(call'.deltas, n) = IF n = NodeOf(e.id) THEN Taken(e) ELSE 0
      <4>1. PICK d, none, new : d = [seq |-> NodeOf(e.id), qty |-> Taken(e)]
                                  /\ none = <<>> /\ new = call'.deltas
        OBVIOUS
      <4>2. d \in Delta /\ d.seq = NodeOf(e.id) /\ d.qty = Taken(e)
        <5>1. NodeOf(e.id) \in Nat
          BY <1>1, OrderFacts DEF Inductive, NodeOf
        <5> QED BY <1>1, <4>1, <5>1 DEF Delta
      <4>3. none \in Seq(Delta) /\ new = Append(none, d)
        BY <1>1, <2>1, <4>1, <4>2
      <4>4. DeltaLots(new, n) = DeltaLots(none, n) + IF d.seq = n THEN d.qty ELSE 0
        BY <4>2, <4>3, DeltaAppended
      <4>5. DeltaLots(none, n) = 0
        BY <4>1, NoDeltas
      <4> QED BY <1>1, <4>1, <4>2, <4>4, <4>5
    <3>3. Untold(n)' = DeltaLots(call'.deltas, n) - Matched(n)'
      BY UntoldIs
    <3> QED BY <1>1, <3>1, <3>2, <3>3
  <2>2. call'.pc = "queue" =>
          /\ \A n \in 0 .. order_arrival_seq' :
               Untold(n)' = LotsWith(call'.fills, "HISTORICAL", call'.price, n)
          /\ SeqsIn(call'.fills, "HISTORICAL", call'.price) = {}
    BY <1>1, <2>1, NoFillsYet
  <2>3. call'.pc # "sweep"
    BY <1>1
  <2> QED BY <2>2, <2>3, LevelTradesNext
<1>5. QueueServed'
  <2> SUFFICES ASSUME call'.pc = "queue" PROVE QueueServed'
    BY DEF QueueServed
  <2>1. TradedLots' = call'.lots
    BY <1>1, <1>3, TradedNext
  <2>2. SeqsIn(call'.fills, "STRATEGY", call'.price) = {}
    BY <1>1, NoFillsYet
  <2> QED BY <1>1, <2>1, <2>2, NoneServedYet
<1> QED BY <1>2, <1>4, <1>5

(***************************************************************************)
(* Every step.                                                             *)
(***************************************************************************)
LEMMA OthersNotServed ==
  ASSUME NEW id, NEW fill, Inductive, call.pc = "queue", ServesHead(id, fill)
  PROVE  /\ \A q : q # call.price => SeqsIn(call'.fills, "STRATEGY", q)
                                       = SeqsIn(call.fills, "STRATEGY", q)
         /\ \A q : SeqsIn(call'.fills, "HISTORICAL", q) = SeqsIn(call.fills, "HISTORICAL", q)
<1> PICK f : f = PaperFill(id, call.price, fill)
  OBVIOUS
<1>1. OneMore(call'.fills, call.fills, f)
  BY HandlerFacts DEF ServesHead, OneMore
<1>2. f.source = "STRATEGY" /\ f.price = call.price
  BY DEF PaperFill
<1> PICK new, old : new = call'.fills /\ old = call.fills
  OBVIOUS
<1>3. ASSUME NEW source, NEW q
      PROVE  SeqsIn(new, source, q) = SeqsIn(old, source, q) \cup
               IF f.source = source /\ f.price = q THEN {f.seq} ELSE {}
  BY <1>1, OneMoreFill
<1>4. \A q : q # call.price =>
        SeqsIn(new, "STRATEGY", q) = SeqsIn(old, "STRATEGY", q) \cup {}
  BY <1>2, <1>3
<1>5. f.source # "HISTORICAL"
  BY <1>2
<1>6. \A q : SeqsIn(new, "HISTORICAL", q) = SeqsIn(old, "HISTORICAL", q) \cup {}
  BY <1>3, <1>5
<1> QED BY <1>4, <1>6

LEMMA ServedOnFill ==
  ASSUME Inductive, Inductive', MarketKnown, KnownAreQueued, ToldInTime, MarketMirrored,
         LevelTrades, NothingTradedAhead, QueuedLots, QueueServed, QueueFill
  PROVE  LevelTrades' /\ NothingTradedAhead' /\ QueueServed'
<1> PICK id : id = Head(QueueLevel.orders)
  OBVIOUS
<1>1. call.pc = "queue" /\ \E fill : ServesHead(id, fill)
  BY QueueFillServes
<1>2. PICK fill : ServesHead(id, fill)
  BY <1>1
<1>3. /\ call'.pc = "queue"
      /\ call'.side = call.side
      /\ call'.price = call.price
      /\ call'.event = call.event
      /\ call'.deltas = call.deltas
      /\ call'.remaining = call.remaining
      /\ UNCHANGED <<book, node, order_info, order_arrival_seq>>
  BY <1>2 DEF ServesHead, bookVars
<1>4. LevelTrades'
  <2>1. /\ \A n : LotsWith(call'.fills, "HISTORICAL", call'.price, n)
                    = LotsWith(call.fills, "HISTORICAL", call.price, n)
        /\ SeqsIn(call'.fills, "HISTORICAL", call'.price)
             = SeqsIn(call.fills, "HISTORICAL", call.price)
    BY <1>1, <1>2, HeadServed
  <2>2. ASSUME NEW n PROVE Untold(n)' = Untold(n)
    <3>1. Matched(n)' = Matched(n)
      BY <1>3 DEF Matched, NodeOf, Taken
    <3> QED BY <1>3, <3>1, UntoldIs
  <2>3. /\ \A n \in 0 .. order_arrival_seq :
             Untold(n) = LotsWith(call.fills, "HISTORICAL", call.price, n)
        /\ HasPaperLevel(call.side, call.price) =>
             SeqsIn(call.fills, "HISTORICAL", call.price)
               \subseteq ToSet(paper[call.side][call.price].market_seqs)
    BY <1>1, FillsAre DEF LevelTrades, SeqsIn
  <2>4. \A n \in 0 .. order_arrival_seq' :
          Untold(n)' = LotsWith(call'.fills, "HISTORICAL", call'.price, n)
    BY <1>3, <2>1, <2>2, <2>3
  <2>5. HasPaperLevel(call.side, call.price)' =>
          SeqsIn(call'.fills, "HISTORICAL", call'.price)
            \subseteq ToSet(paper'[call'.side][call'.price].market_seqs)
    <3> SUFFICES ASSUME HasPaperLevel(call.side, call.price)'
                 PROVE  SeqsIn(call'.fills, "HISTORICAL", call'.price)
                          \subseteq ToSet(paper'[call'.side][call'.price].market_seqs)
      OBVIOUS
    <3>1. call.side \in Sides /\ call.price \in DOMAIN paper'[call.side]
      BY <1>1, <1>3, HandlerFacts DEF HasPaperLevel
    <3>2. /\ call.price \in DOMAIN paper[call.side]
          /\ paper'[call.side][call.price].market_seqs
               = paper[call.side][call.price].market_seqs
      BY <3>1, FillTeachesNothing DEF MarketStays
    <3> QED BY <1>3, <2>1, <2>3, <3>2 DEF HasPaperLevel
  <2>6. call'.pc # "sweep"
    BY <1>3
  <2> QED BY <2>4, <2>5, <2>6, LevelTradesNext
<1>5. NothingTradedAhead'
  <2>1. /\ \A q : q # call.price => SeqsIn(call'.fills, "STRATEGY", q)
                                      = SeqsIn(call.fills, "STRATEGY", q)
        /\ \A q : SeqsIn(call'.fills, "HISTORICAL", q) = SeqsIn(call.fills, "HISTORICAL", q)
    BY <1>1, <1>2, OthersNotServed
  <2>2. \A q : Live(call.side, q)' <=> Live(call.side, q)
    BY <1>3 DEF Live
  <2>3. Live(call.side, call.price)' <=> Live(call.side, call.price)
    BY <1>3 DEF Live
  <2>4. /\ Trading({"sweep", "queue", "settle"})' => Trading({"sweep", "queue", "settle"})
        /\ Trading({"queue", "settle"})' => Trading({"queue", "settle"})
        /\ Trading({"sweep", "queue", "settle"}) => Trading({"queue", "settle"})
    BY <1>1, <1>3 DEF Trading
  <2>5. /\ Trading({"sweep", "queue", "settle"}) =>
             \A q \in Prices : Live(call.side, q) =>
               /\ SeqsIn(call.fills, "STRATEGY", q) = {}
               /\ SeqsIn(call.fills, "HISTORICAL", q) = {}
        /\ Trading({"queue", "settle"}) => ~Live(call.side, call.price)
    BY <1>1, NothingAhead
  <2> QED BY <2>1, <2>2, <2>3, <2>4, <2>5, NothingAheadNext
<1>6. QueueServed'
  BY QueueFillKeeps
<1> QED BY <1>4, <1>5, <1>6

\* Nothing trades after a step, or nothing has yet.
LEMMA NotServing ==
  ASSUME call'.pc \notin {"sweep", "queue", "settle"}
           \/ (call'.pc = "settle" /\ call'.event.type # "ADD")
  PROVE  LevelTrades' /\ NothingTradedAhead' /\ QueueServed'
<1>1. LevelTrades'
  BY LevelTradesNext
<1>2. ~Trading({"sweep", "queue", "settle"})' /\ ~Trading({"queue", "settle"})'
  BY DEF Trading
<1>3. NothingTradedAhead'
  BY <1>2, NothingAheadNext
<1>4. QueueServed'
  BY DEF QueueServed
<1> QED BY <1>1, <1>3, <1>4

LEMMA ServedAtStart ==
  ASSUME call'.pc = "sweep", call'.lots = 0, call'.consumed = 0, call'.deltas = <<>>,
         call'.event.source = "HISTORICAL" => call'.fills = <<>>
  PROVE  LevelTrades' /\ NothingTradedAhead' /\ QueueServed'
<1>1. LevelTrades'
  <2>1. ~(call'.pc = "queue" \/ (call'.pc = "sweep" /\ call'.deltas # <<>>))
    OBVIOUS
  <2>2. ~(call'.lots > 0)
    OBVIOUS
  <2> QED BY <2>1, <2>2, LevelTradesNext, Zenon
<1>2. NothingTradedAhead'
  <2>1. Trading({"sweep", "queue", "settle"})' => call'.fills = <<>>
    BY DEF Trading
  <2>2. ~Trading({"queue", "settle"})'
    BY DEF Trading
  <2> QED BY <2>1, <2>2, NoFillsYet, NothingAheadNext
<1>3. QueueServed'
  BY DEF QueueServed
<1> QED BY <1>1, <1>2, <1>3

\* A level is settled, and left.
LEMMA ServedAfterwards ==
  ASSUME Inductive, NothingTradedAhead, EndQueue \/ Settle \/ EndLevel
  PROVE  LevelTrades' /\ NothingTradedAhead' /\ QueueServed'
<1>1. /\ call.pc \in {"queue", "settle"}
      /\ call \in Handler
      /\ call.side \in Sides
  <2>1. call.pc \in {"queue", "settle"}
    BY DEF EndQueue, Settle, EndLevel
  <2> QED BY <2>1, HandlerFacts
<1>2. /\ call'.pc = IF EndLevel THEN "sweep" ELSE "settle"
      /\ call'.side = call.side
      /\ call'.price = call.price
      /\ call'.event = call.event
      /\ call'.remaining = call.remaining
      /\ call'.fills = call.fills
  <2>1. CASE EndQueue
    <3>1. call' = [call EXCEPT !.pc = "settle"] /\ call.pc = "queue"
      BY <2>1 DEF EndQueue
    <3>2. ~EndLevel
      BY <3>1 DEF EndLevel
    <3> QED BY <1>1, <3>1, <3>2 DEF Handler
  <2>2. CASE Settle
    <3>1. call' = [call EXCEPT !.deltas = Tail(@)] /\ call.pc = "settle" /\ call.deltas # <<>>
      BY <2>2 DEF Settle
    <3>2. ~EndLevel
      BY <3>1 DEF EndLevel
    <3> QED BY <1>1, <3>1, <3>2 DEF Handler
  <2>3. CASE EndLevel
    <3>1. call' = [call EXCEPT !.pc = "sweep", !.lots = 0, !.consumed = 0]
      BY <2>3 DEF EndLevel
    <3> QED BY <1>1, <2>3, <3>1 DEF Handler
  <2> QED BY <2>1, <2>2, <2>3
<1>3. EndLevel => /\ call'.lots = 0
                  /\ call'.consumed = 0
                  /\ call'.deltas = <<>>
  <2> SUFFICES ASSUME EndLevel
               PROVE  call'.lots = 0 /\ call'.consumed = 0 /\ call'.deltas = <<>>
    OBVIOUS
  <2>1. /\ call' = [call EXCEPT !.pc = "sweep", !.lots = 0, !.consumed = 0]
        /\ call.deltas = <<>>
    BY DEF EndLevel
  <2> QED BY <1>1, <2>1 DEF Handler
<1>4. LevelTrades'
  BY <1>2, <1>3, LevelTradesNext
<1>5. \A q \in Prices : Live(call.side, q)' <=> Live(call.side, q)
  <2>1. CASE EndQueue \/ Settle
    <3>1. UNCHANGED book
      BY <2>1 DEF EndQueue, Settle, bookVars
    <3> QED BY <1>2, <3>1 DEF Live
  <2>2. CASE EndLevel
    <3> PICK side : side = call.side
      OBVIOUS
    <3>1. \A q \in Prices : QueueAt(side, q)' = QueueAt(side, q)
      BY <1>1, <2>2, EndLevelKind DEF NodesStay, QueuesStay
    <3>2. \A q \in Prices : Live(side, q)' <=> Live(side, q)
      BY <1>1, <3>1, NotLiveStays
    <3>3. \A q : Live(call.side, q)' <=> Live(side, q)'
      BY <1>2 DEF Live
    <3> QED BY <3>2, <3>3
  <2> QED BY <2>1, <2>2
<1>6. /\ Trading({"sweep", "queue", "settle"})' => Trading({"sweep", "queue", "settle"})
      /\ Trading({"queue", "settle"})' => Trading({"queue", "settle"})
  BY <1>1, <1>2 DEF Trading
<1>7. NothingTradedAhead'
  <2>1. /\ Trading({"sweep", "queue", "settle"}) =>
             \A q \in Prices : Live(call.side, q) =>
               /\ SeqsIn(call.fills, "STRATEGY", q) = {}
               /\ SeqsIn(call.fills, "HISTORICAL", q) = {}
        /\ Trading({"queue", "settle"}) => ~Live(call.side, call.price)
    BY <1>1, NothingAhead
  <2>2. call.price \in Prices
    BY <1>1 DEF Handler
  <2>3. Live(call.side, call.price)' <=> Live(call.side, call.price)
    <3> PICK p : p = call.price
      OBVIOUS
    <3>1. Live(call.side, p)' <=> Live(call.side, p)
      BY <1>5, <2>2
    <3>2. Live(call.side, call.price)' <=> Live(call.side, p)'
      BY <1>2 DEF Live
    <3> QED BY <3>1, <3>2
  <2> QED BY <1>2, <1>5, <1>6, <2>1, <2>3, NothingAheadNext
<1>8. QueueServed'
  BY <1>2 DEF QueueServed
<1> QED BY <1>4, <1>7, <1>8

\* What a level has traded and who was served is read off the state.
LEMMA ServedCounts ==
  ASSUME Inductive, call.pc = "queue",
         UNCHANGED <<call, book, node, order_info, order_arrival_seq, paper,
                     paper_orders, paper_order_info>>
  PROVE  /\ TradedLots' = TradedLots
         /\ RestingIds' = RestingIds
         /\ FilledSeqs' = FilledSeqs
         /\ FilledLots' = FilledLots
         /\ PaperLots' = PaperLots
         /\ \A n : MarketBefore(n)' = MarketBefore(n)
         /\ \A n : LotsAhead(n)' = LotsAhead(n)
<1>1. TradedLots' = TradedLots
  <2>1. Taken(call.event)' = Taken(call.event)
    BY DEF Taken, NodeOf
  <2>2. Lots(FillsAt("HISTORICAL", call.price)) = LotsIn(call.fills, "HISTORICAL", call.price)
    BY FillsAre
  <2> QED BY <2>1, <2>2, TradedNext DEF TradedLots
<1>2. RestingIds' = RestingIds
  BY DEF RestingIds
<1>3. FilledSeqs' = FilledSeqs
  BY PapersNext, TradingPapersFacts
<1>4. FilledLots' = FilledLots
  <2>1. FilledLots = [n \in FilledSeqs |-> LotsWith(call.fills, "STRATEGY", call.price, n)]
    BY FillsAre DEF FilledLots
  <2> QED BY <1>3, <2>1, PapersNext
<1>5. ASSUME NEW n PROVE MarketBefore(n)' = MarketBefore(n)
  <2>1. TradingNodes' = TradingNodes
    <3>1. FillsAt("HISTORICAL", call.price) = FillsIn(call.fills, "HISTORICAL", call.price)
      BY FillsAre
    <3>2. TradingNodes = ToSet(book[call.side][call.price]) \cup
                           SeqsIn(call.fills, "HISTORICAL", call.price)
      BY <3>1 DEF TradingNodes, SeqsIn
    <3> QED BY <3>2, NodesNext
  <2>2. MarketLots' = MarketLots
    <3>1. MarketLots = [m \in TradingNodes |->
             Quantity(m) + LotsWith(call.fills, "HISTORICAL", call.price, m)]
      BY FillsAre DEF MarketLots
    <3>2. MarketLots' = [m \in TradingNodes' |->
             Quantity(m)' + LotsWith(call'.fills, "HISTORICAL", call'.price, m)]
      BY NodesNext
    <3>3. \A m : Quantity(m)' = Quantity(m)
      BY DEF Quantity
    <3> QED BY <2>1, <3>1, <3>2, <3>3
  <2> QED BY <2>1, <2>2, MarketBeforeIs
<1>6. TradingPapers' = TradingPapers
  <2>1. {PlacementOf(id)' : id \in RestingIds'} = {PlacementOf(id) : id \in RestingIds}
    BY <1>2 DEF PlacementOf
  <2> QED BY <1>3, <2>1, PapersNext, TradingPapersFacts
<1>7. PaperLots' = PaperLots
  <2>1. RestingLots' = RestingLots
    BY <1>2, PapersNext DEF RestingLots
  <2>2. ASSUME NEW n
        PROVE  {id \in RestingIds' : PlacementOf(id)' = n} = RestingWith(n)
    BY <1>2 DEF RestingWith, PlacementOf
  <2>3. PaperLots' = [n \in TradingPapers |->
           LotsWith(call.fills, "STRATEGY", call.price, n) +
             SumOver(RestingLots, RestingWith(n))]
    BY <1>6, <2>1, <2>2, PapersNext
  <2>4. \A n \in TradingPapers :
          PaperLots[n] = LotsWith(call.fills, "STRATEGY", call.price, n) +
                           SumOver(RestingLots, RestingWith(n))
    BY TradingPapersFacts
  <2>5. PaperLots = [n \in TradingPapers |-> PaperLots[n]]
    BY DEF PaperLots
  <2> QED BY <2>3, <2>4, <2>5
<1>8. ASSUME NEW n PROVE LotsAhead(n)' = LotsAhead(n)
  BY <1>5, <1>6, <1>7, LotsAheadIs
<1> QED BY <1>1, <1>2, <1>3, <1>4, <1>5, <1>7, <1>8

\* Nothing is served while nothing changes.
LEMMA ServingKept ==
  ASSUME Inductive,
         UNCHANGED <<call, book, node, order_info, order_arrival_seq, paper,
                     paper_orders, paper_order_info>>
  PROVE  /\ LevelTrades => LevelTrades'
         /\ NothingTradedAhead => NothingTradedAhead'
         /\ QueueServed => QueueServed'
<1>1. ASSUME NEW n PROVE Untold(n)' = Untold(n)
  <2>1. Matched(n)' = Matched(n)
    BY DEF Matched, NodeOf, Taken
  <2> QED BY <2>1, UntoldIs
<1>2. \A source, p : FillsAt(source, p)' = FillsAt(source, p)
  BY DEF FillsAt
<1>3. ASSUME NEW source, NEW p
      PROVE  Lots(FillsAt(source, p))' = Lots(FillsAt(source, p))
  BY FillsAre, FillsAreNext
<1>4. ASSUME NEW source, NEW p, NEW n
      PROVE  FilledOf(source, p, n)' = FilledOf(source, p, n)
  <2>1. FilledOf(source, p, n)' = LotsWith(call'.fills, source, p, n)
    BY FillsAreNext
  <2>2. FilledOf(source, p, n) = LotsWith(call.fills, source, p, n)
    BY FillsAre
  <2> QED BY <2>1, <2>2
<1>5. \A side, p : Live(side, p)' = Live(side, p)
  BY DEF Live
<1>6. LevelTrades => LevelTrades'
  <2> SUFFICES ASSUME LevelTrades PROVE LevelTrades'
    OBVIOUS
  <2> PICK p : p = call.price /\ p = call'.price
    OBVIOUS
  <2>1. /\ FillsAt("HISTORICAL", p) = FillsIn(call.fills, "HISTORICAL", p)
        /\ Lots(FillsAt("HISTORICAL", p)) = LotsIn(call.fills, "HISTORICAL", p)
        /\ \A n : FilledOf("HISTORICAL", p, n) = LotsWith(call.fills, "HISTORICAL", p, n)
    BY FillsAre
  <2>2. call'.pc = "sweep" =>
          /\ call'.consumed = 0
          /\ call'.deltas = <<>> => call'.lots = 0
          /\ call'.lots > 0 => call'.lots = LotsIn(call'.fills, "HISTORICAL", call'.price)
    BY <2>1 DEF LevelTrades
  <2>3. ASSUME call'.pc = "queue" \/ (call'.pc = "sweep" /\ call'.deltas # <<>>)
        PROVE  /\ \A n \in 0 .. order_arrival_seq' :
                    Untold(n)' = LotsWith(call'.fills, "HISTORICAL", call'.price, n)
               /\ HasPaperLevel(call.side, call.price)' =>
                    SeqsIn(call'.fills, "HISTORICAL", call'.price)
                      \subseteq ToSet(paper'[call'.side][call'.price].market_seqs)
    <3>1. HasPaperLevel(call.side, call.price)' = HasPaperLevel(call.side, call.price)
      BY DEF HasPaperLevel
    <3>2. \A n \in 0 .. order_arrival_seq' :
             Untold(n)' = LotsWith(call'.fills, "HISTORICAL", call'.price, n)
      BY <1>1, <2>1, <2>3 DEF LevelTrades
    <3>3. HasPaperLevel(call.side, call.price) =>
            \A k \in FillsIn(call.fills, "HISTORICAL", p) :
              call.fills[k].seq \in ToSet(paper[call.side][p].market_seqs)
      BY <2>1, <2>3 DEF LevelTrades
    <3> QED BY <3>1, <3>2, <3>3 DEF SeqsIn
  <2> QED BY <2>2, <2>3, LevelTradesNext
<1>7. NothingTradedAhead => NothingTradedAhead'
  BY <1>2, <1>5 DEF NothingTradedAhead, Trading
<1>8. QueueServed => QueueServed'
  <2> SUFFICES ASSUME QueueServed, call.pc = "queue" PROVE QueueServed'
    BY DEF QueueServed
  <2>1. /\ TradedLots' = TradedLots
        /\ RestingIds' = RestingIds
        /\ FilledSeqs' = FilledSeqs
        /\ FilledLots' = FilledLots
        /\ PaperLots' = PaperLots
        /\ \A n : MarketBefore(n)' = MarketBefore(n)
        /\ \A n : LotsAhead(n)' = LotsAhead(n)
    BY ServedCounts
  <2>2. SumFunctionOnSet(FilledLots, FilledSeqs)' = SumFunctionOnSet(FilledLots, FilledSeqs)
    BY <2>1, FilledSumIs
  <2>3. ASSUME NEW id
        PROVE  MarketBefore(paper_orders[id].placement_seq)'
                 = MarketBefore(paper_orders[id].placement_seq)
    <3> PICK n : n = paper_orders[id].placement_seq /\ n = paper_orders'[id].placement_seq
      OBVIOUS
    <3>1. MarketBefore(n)' = SumOver(MarketLots', {m \in TradingNodes' : m < n})
      BY MarketBeforeIs
    <3>2. MarketBefore(paper_orders[id].placement_seq)' = SumOver(MarketLots',
             {m \in TradingNodes' : m < n})
      BY DEF MarketBefore, SumFunctionOnSet, FoldFunctionOnSet, SumOver, MapThenSumSet,
             MapThenFoldSet
    <3>3. MarketBefore(n)' = MarketBefore(n)
      BY <2>1
    <3> QED BY <3>1, <3>2, <3>3
  <2>4. ASSUME NEW id \in RestingIds'
        PROVE  /\ \A n \in FilledSeqs' :
                    /\ n <= paper_orders'[id].placement_seq
                    /\ n = paper_orders'[id].placement_seq => call'.lots = 0
               /\ call'.consumed <= MarketBefore(paper_orders[id].placement_seq)'
    BY <2>1, <2>3 DEF QueueServed
  <2>7. NothingStale' => NothingStale
    BY DEF NothingStale, HasPaperLevel, NoStaleLots
  <2>5. ASSUME NEW n \in FilledSeqs'
        PROVE  /\ TradedLots' > LotsAhead(n)'
               /\ FilledLots'[n] <= TradedLots' - LotsAhead(n)'
               /\ NothingStale' => FilledLots'[n] = Lesser(TradedLots' - LotsAhead(n)',
                                                          PaperLots'[n])
    BY <2>1, <2>7 DEF QueueServed
  <2>6. /\ call'.lots + call'.consumed + SumFunctionOnSet(FilledLots, FilledSeqs)'
             <= TradedLots'
        /\ NothingStale' =>
             call'.lots + call'.consumed + SumFunctionOnSet(FilledLots, FilledSeqs)'
               = TradedLots'
    BY <2>1, <2>2, <2>7 DEF QueueServed
  <2> QED BY <2>4, <2>5, <2>6 DEF QueueServed
<1> QED BY <1>6, <1>7, <1>8

\* A strategy that sweeps takes from nobody's queue.
LEMMA StrategySweepKeeps ==
  ASSUME Inductive, StrategySweep
  PROVE  /\ call'.pc = call.pc
         /\ call'.event = call.event
         /\ call'.lots = call.lots
         /\ call'.consumed = call.consumed
         /\ call'.deltas = call.deltas
<1>1. call \in Handler
  <2>1. call.pc = "sweep"
    BY Zenon DEF StrategySweep
  <2> QED BY <2>1, HandlerFacts
<1>2. PICK p \in NextPrice :
        LET queue == book[call.side][p]
            n     == queue[call.it]
            take  == Lesser(node[n].qty, call.remaining)
            left  == take = call.remaining \/ call.it = Len(queue)
            stack == Pruned(call.heap_copy, call.side)
        IN  call' = [call EXCEPT
                      !.price = p,
                      !.remaining = @ - take,
                      !.it = IF left THEN 1 ELSE @ + 1,
                      !.heap_copy = IF left THEN AllPopped(stack, p) ELSE stack,
                      !.fills = IF take > 0
                                THEN Append(@, BookFill(n, p, take)) ELSE @]
  BY Zenon DEF StrategySweep
<1> QED BY <1>1, <1>2, Zenon DEF Handler

(***************************************************************************)
(* What trades at a level is counted once, it trades at no level that is   *)
(* still ahead, and the paper orders of the level are served in turn.      *)
(***************************************************************************)
Serving == LevelTrades /\ NothingTradedAhead /\ QueueServed

LEMMA ServingStays ==
  ASSUME Inductive, Inductive', ToldInTime', HeapCovers, MarketKnown, KnownAreQueued,
         SweepStays, ToldInTime, MarketMirrored, QueuedLots, Serving, [Next]_vars
  PROVE  Serving'
<1> USE DEF Serving
<1>1. Idle.pc = "idle"
  BY DEF Idle
<1>2. ASSUME call.pc \in {"idle", "l2", "l3"}, call' = call
      PROVE  Serving'
  BY <1>2, NotServing
<1>3. ASSUME NEW e \in Events, update(e) PROVE Serving'
  <2>1. CASE OnAdd(e)
    <3>1. PICK h : h = heap[Opposite(e.side)]
      OBVIOUS
    <3>2. \/ call' = [NewCall("sweep", e, Opposite(e.side), e.price) EXCEPT !.heap_copy = h]
          \/ call' = NewCall("sweep", e, Opposite(e.side), e.price)
      BY <2>1, <3>1 DEF OnAdd
    <3>3. /\ call'.pc = "sweep"
          /\ call'.lots = 0
          /\ call'.consumed = 0
          /\ call'.deltas = <<>>
          /\ call'.fills = <<>>
      BY <3>2 DEF NewCall
    <3> QED BY <3>3, ServedAtStart
  <2>2. CASE OnAggressiveTrade(e)
    <3>1. /\ call' = [NewCall("sweep", e, Opposite(e.side), e.price) EXCEPT
                        !.heap_copy = heap[Opposite(e.side)]]
      BY <2>2 DEF OnAggressiveTrade
    <3>2. /\ call'.pc = "sweep"
          /\ call'.lots = 0
          /\ call'.consumed = 0
          /\ call'.deltas = <<>>
          /\ call'.fills = <<>>
      BY <3>1 DEF NewCall
    <3> QED BY <3>2, ServedAtStart
  <2>3. CASE OnMatch(e)
    <3>1. e \in Event
      BY EventsAssumption
    <3> QED BY <2>3, <3>1, ServedOnMatch
  <2>4. CASE Reject(e)
    <3>1. call.pc = "idle" /\ call' = call
      BY <1>1, <2>4 DEF Reject, vars
    <3> QED BY <1>2, <3>1
  <2>5. CASE OnDelete(e) \/ OnSubtract(e) \/ OnSet(e)
    <3>1. call' = Idle
      BY <2>5 DEF OnDelete, OnSubtract, OnSet, Accepts, SetHistorical
    <3> QED BY <1>1, <3>1, NotServing
  <2> QED BY <1>3, <2>1, <2>2, <2>3, <2>4, <2>5 DEF update
<1>4. ASSUME NEW rows, InitFromL2Snapshot(rows) \/ InitFromL3Snapshot(rows)
      PROVE  Serving'
  <2>1. call'.pc \in {"l2", "l3"}
    BY <1>4 DEF InitFromL2Snapshot, InitFromL3Snapshot
  <2> QED BY <2>1, NotServing
<1>5. ASSUME NEW side \in Sides, GetBestPriceTicks(side)
      PROVE  Serving'
  <2>1. call = Idle /\ call' = call
    BY <1>5 DEF GetBestPriceTicks
  <2> QED BY <1>1, <1>2, <2>1
<1>6. ASSUME Continue PROVE Serving'
  <2>1. CASE StrategySweep
    <3>1. call.pc = "sweep" /\ call.event.source = "STRATEGY"
      BY <2>1, Zenon DEF StrategySweep
    <3>2. /\ call.deltas = <<>>
          /\ call.lots = 0
          /\ call.consumed = 0
      <4>1. call.deltas = <<>>
        BY <3>1 DEF SweepStays
      <4> QED BY <3>1, <4>1 DEF LevelTrades
    <3>3. /\ call'.pc = "sweep"
          /\ call'.event.source = "STRATEGY"
          /\ call'.lots = call.lots
          /\ call'.consumed = call.consumed
          /\ call'.deltas = call.deltas
      BY <2>1, <3>1, StrategySweepKeeps
    <3> QED BY <3>2, <3>3, ServedAtStart
  <2>2. CASE HistoricalSweep
    BY <2>2, LevelTradesOnSweep, NothingAheadOnSweep, ServedOnSweep
  <2>3. CASE EndSweep
    <3>1. call.pc = "sweep" /\ call \in Handler
      BY <2>3, HandlerFacts DEF EndSweep
    <3>2. call'.pc \in {"rest", "paper"}
      BY <2>3, <3>1 DEF EndSweep, Handler
    <3> QED BY <3>2, NotServing
  <2>4. CASE QueueFill
    BY <2>4, ServedOnFill
  <2>5. CASE EndQueue \/ Settle \/ EndLevel
    BY <2>5, ServedAfterwards
  <2>6. CASE MatchFill
    <3>1. call'.pc = "reduce"
      <4>1. call.pc = "settle" /\ call \in Handler
        BY <2>6, HandlerFacts DEF MatchFill
      <4> QED BY <2>6, <4>1, Zenon DEF MatchFill, Handler
    <3> QED BY <3>1, NotServing
  <2>7. CASE TradeAgainstPaper \/ EndPaper \/ EndAdd \/ AcquirePaperNode \/ MirrorNode
    <3>1. call.pc \in {"paper", "rest", "mirror"}
      BY <2>7, Zenon DEF TradeAgainstPaper, EndPaper, EndAdd, AcquirePaperNode, MirrorNode
    <3>2. call'.pc \notin {"sweep", "queue", "settle"}
      <4>1. call \in Handler
        BY <3>1, HandlerFacts
      <4>2. CASE TradeAgainstPaper
        <5>1. call'.pc = "paper"
          BY <4>2, PaperTrade
        <5> QED BY <5>1
      <4>3. CASE EndPaper \/ EndAdd \/ AcquirePaperNode \/ MirrorNode
        BY <1>1, <3>1, <4>1, <4>3 DEF EndPaper, EndAdd, AcquirePaperNode, MirrorNode, Handler
      <4> QED BY <2>7, <4>2, <4>3
    <3> QED BY <3>2, NotServing
  <2>8. CASE RestHistorical \/ RestStrategy \/ EndMatch \/ EndSnapshot
    <3>1. call' = Idle
      BY <2>8 DEF RestHistorical, RestStrategy, EndMatch, EndSnapshot
    <3> QED BY <1>1, <3>1, NotServing
  <2>9. CASE L2Row \/ L3Row
    <3>1. call.pc \in {"l2", "l3"} /\ call \in Load
      BY <2>9, CallKinds DEF L2Row, L3Row
    <3>2. call'.pc \in {"idle", "l2", "l3"}
      <4>1. call' = Idle \/ NextRow
        BY <2>9 DEF L2Row, L3Row
      <4>2. NextRow => call'.pc = call.pc
        BY <3>1 DEF NextRow, Load
      <4> QED BY <1>1, <3>1, <4>1, <4>2
    <3> QED BY <3>2, NotServing
  <2> QED BY <1>6, <2>1, <2>2, <2>3, <2>4, <2>5, <2>6, <2>7, <2>8, <2>9 DEF Continue
<1>7. CASE UNCHANGED vars
  <2>1. UNCHANGED <<call, book, node, order_info, order_arrival_seq, paper,
                    paper_orders, paper_order_info>>
    BY <1>7 DEF vars, bookVars, paperVars
  <2> QED BY <2>1, ServingKept
<1> QED BY <1>3, <1>4, <1>5, <1>6, <1>7 DEF Next

(***************************************************************************)
(* What the paper levels, the queues and the fills of a handler have to do *)
(* with each other is kept by every step, for any prices, ids, events,     *)
(* snapshots and capacities.                                               *)
(***************************************************************************)
THEOREM StepPreservesPriority ==
  PriorityInvariant /\ [Next]_vars => PriorityInvariant'
<1> SUFFICES ASSUME PriorityInvariant, [Next]_vars
             PROVE  PriorityInvariant'
  OBVIOUS
<1>1. /\ Inductive /\ HeapCovers /\ MarketKnown /\ MirrorFollows
      /\ SweepProceeds /\ PriceTimePriority /\ SweepComplete /\ SweptSoFar
      /\ QueuedLots /\ PlacedBefore
      /\ KnownAreQueued /\ SweepStays /\ ToldInTime /\ MarketMirrored
      /\ Serving
  BY DEF PriorityInvariant, Serving
<1>2. Inductive'
  BY <1>1, StepPreservesInductive
<1>3. HeapCovers' /\ MarketKnown' /\ MirrorFollows'
  BY <1>1, HeapStep, MarketStep
<1>4. SweepProceeds' /\ PriceTimePriority' /\ SweepComplete' /\ SweptSoFar'
  BY <1>1, PriorityStep, CompleteStep
<1>5. QueuedLots' /\ PlacedBefore'
  BY <1>1, LotsStep
<1>6. KnownAreQueued' /\ SweepStays' /\ ToldInTime'
  BY <1>1, <1>2, KnownStep, DeltasStep
<1>7. MarketMirrored'
  BY <1>1, <1>2, MirroredStep
<1>8. Serving'
  BY <1>1, <1>2, <1>6, ServingStays
<1> QED BY <1>2, <1>3, <1>4, <1>5, <1>6, <1>7, <1>8 DEF PriorityInvariant, Serving

LEMMA PriorityAtFirst == Init => PriorityInvariant
<1> SUFFICES ASSUME Init PROVE PriorityInvariant
  OBVIOUS
<1>1. /\ \A side \in Sides : DOMAIN paper[side] = {} /\ DOMAIN book[side] = {}
      /\ DOMAIN paper_orders = {}
      /\ call = Idle
      /\ call.pc = "idle"
  BY DEF Init, Empty, Idle
<1>2. Inductive
  BY Initially
<1>3. HeapCovers
  BY <1>1 DEF HeapCovers, Live
<1>4. MarketKnown /\ KnownAreQueued /\ MarketMirrored
  BY <1>1 DEF MarketKnown, KnownAreQueued, MarketMirrored
<1>5. MirrorFollows /\ SweepStays /\ ToldInTime
  BY <1>1 DEF MirrorFollows, SweepStays, ToldInTime, Handling
<1>6. SweepProceeds /\ PriceTimePriority /\ SweepComplete /\ SweptSoFar
  BY <1>1 DEF SweepProceeds, PriceTimePriority, SweepComplete, SweptSoFar,
              Running, Trading, Handling
<1>7. QueuedLots /\ PlacedBefore
  BY <1>1 DEF QueuedLots, PlacedBefore
<1>8. LevelTrades /\ NothingTradedAhead /\ QueueServed
  BY <1>1 DEF LevelTrades, NothingTradedAhead, QueueServed, Trading
<1> QED BY <1>2, <1>3, <1>4, <1>5, <1>6, <1>7, <1>8 DEF PriorityInvariant

(***************************************************************************)
(* The strengthened invariant of the queues holds in every reachable       *)
(* state.                                                                  *)
(***************************************************************************)
THEOREM PriorityInvariance == Spec => []PriorityInvariant
BY PriorityAtFirst, StepPreservesPriority, PTL DEF Spec

(***************************************************************************)
(* A paper order is filled by no more lots than reach its place in the     *)
(* queue, and not before those ahead of it are filled: the nodes and paper *)
(* orders that came before it are served first, whatever part of them the  *)
(* level was told of late.  It gets all the lots that reach it unless the  *)
(* level still counts lots of orders that are gone.                        *)
(***************************************************************************)
THEOREM PapersServedInOrder == Spec => []ServedInTurn
<1>1. PriorityInvariant => ServedInTurn
  BY ServedInOrder DEF PriorityInvariant
<1> QED BY <1>1, PriorityInvariance, PTL

(***************************************************************************)
(* The Fenwick tree of the code.  An element i covers the LowBit(i)        *)
(* quantities that end with the one at index i - 1.  These intervals nest, *)
(* so that those which cover an index are its Ancestors, that sum(count)   *)
(* meets exactly one of them, and that the tree computes the prefix sums   *)
(* of PrefixSumArray.                                                      *)
(***************************************************************************)
HalvesOf(f, n) == f = [k \in 1 .. n |-> IF k % 2 = 1 THEN 1 ELSE 2 * f[k \div 2]]

LEMMA HalvesExist ==
  ASSUME NEW n \in Nat
  PROVE  \E f : HalvesOf(f, n)
<1> DEFINE B == {k \in Nat : ~ \E f : HalvesOf(f, k)}
<1>1. SUFFICES ASSUME B # {} PROVE FALSE
  OBVIOUS
<1>2. PICK k \in B : \A m \in B : k <= m
  <2>1. B \subseteq Nat
    OBVIOUS
  <2> HIDE DEF B
  <2> QED BY <1>1, <2>1, LeastNatural
<1>3. CASE k = 0
  <2>1. HalvesOf([j \in 1 .. 0 |-> 1], 0)
    BY DEF HalvesOf
  <2> QED BY <1>2, <1>3, <2>1
<1>4. CASE k # 0
  <2>1. k - 1 \in Nat /\ k - 1 \notin B
    BY <1>2, <1>4
  <2>2. PICK f : HalvesOf(f, k - 1)
    BY <2>1
  <2> DEFINE g == [j \in 1 .. k |-> IF j = k THEN (IF k % 2 = 1 THEN 1 ELSE 2 * f[k \div 2])
                                             ELSE f[j]]
  <2>3. ASSUME NEW j \in 1 .. k
        PROVE  g[j] = IF j % 2 = 1 THEN 1 ELSE 2 * g[j \div 2]
    <3>1. j % 2 # 1 => j \div 2 \in 1 .. k - 1 /\ j \div 2 < j
      OBVIOUS
    <3>2. j % 2 # 1 => g[j \div 2] = f[j \div 2]
      BY <3>1
    <3>3. CASE j = k
      BY <3>2, <3>3
    <3>4. CASE j # k
      <4>1. j \in 1 .. k - 1
        BY <3>4
      <4>2. f[j] = IF j % 2 = 1 THEN 1 ELSE 2 * f[j \div 2]
        BY <2>2, <4>1 DEF HalvesOf
      <4> QED BY <3>2, <3>4, <4>2
    <3> QED BY <3>3, <3>4
  <2>4. g = [j \in 1 .. k |-> g[j]]
    OBVIOUS
  <2> HIDE DEF g
  <2>5. HalvesOf(g, k)
    BY <2>3, <2>4 DEF HalvesOf
  <2> QED BY <1>2, <2>5
<1> QED BY <1>3, <1>4

LEMMA HalvesAgree ==
  ASSUME NEW m \in Nat, NEW n \in Nat, m <= n, NEW f, NEW g, HalvesOf(f, m), HalvesOf(g, n)
  PROVE  \A k \in 1 .. m : f[k] = g[k]
<1> DEFINE B == {k \in 1 .. m : f[k] # g[k]}
<1>1. SUFFICES ASSUME B # {} PROVE FALSE
  OBVIOUS
<1>2. PICK k \in B : \A j \in B : k <= j
  <2>1. B \subseteq Nat
    OBVIOUS
  <2> HIDE DEF B
  <2> QED BY <1>1, <2>1, LeastNatural
<1>3. /\ f[k] = IF k % 2 = 1 THEN 1 ELSE 2 * f[k \div 2]
      /\ g[k] = IF k % 2 = 1 THEN 1 ELSE 2 * g[k \div 2]
  BY <1>2 DEF HalvesOf
<1>4. k % 2 # 1 => k \div 2 \in 1 .. m /\ k \div 2 < k
  BY <1>2
<1>5. k % 2 # 1 => f[k \div 2] = g[k \div 2]
  BY <1>2, <1>4
<1> QED BY <1>2, <1>3, <1>5

LEMMA LowBitHalves ==
  ASSUME NEW i \in Nat \ {0}
  PROVE  LowBit(i) = IF i % 2 = 1 THEN 1 ELSE 2 * LowBit(i \div 2)
<1>1. ASSUME NEW n \in Nat \ {0}
      PROVE  \E f : HalvesOf(f, n) /\ LowBit(n) = f[n]
  <2>1. \E f : HalvesOf(f, n)
    BY HalvesExist
  <2> DEFINE f == CHOOSE f : HalvesOf(f, n)
  <2>2. HalvesOf(f, n)
    BY <2>1
  <2>3. LowBit(n) = f[n]
    BY DEF LowBit, HalvesOf
  <2> QED BY <2>2, <2>3
<1>2. PICK f : HalvesOf(f, i) /\ LowBit(i) = f[i]
  BY <1>1
<1>3. CASE i % 2 = 1
  BY <1>2, <1>3 DEF HalvesOf
<1>4. CASE i % 2 # 1
  <2>1. i \div 2 \in Nat \ {0} /\ i \div 2 <= i /\ i \div 2 \in 1 .. i \div 2
    BY <1>4
  <2>2. PICK g : HalvesOf(g, i \div 2) /\ LowBit(i \div 2) = g[i \div 2]
    BY <1>1, <2>1
  <2>3. g[i \div 2] = f[i \div 2]
    BY <1>2, <2>1, <2>2, HalvesAgree
  <2>4. f[i] = 2 * f[i \div 2]
    BY <1>2, <1>4 DEF HalvesOf
  <2> QED BY <1>2, <1>4, <2>2, <2>3, <2>4
<1> QED BY <1>3, <1>4

LEMMA LowBitRange ==
  ASSUME NEW i \in Nat \ {0}
  PROVE  LowBit(i) \in 1 .. i
<1> DEFINE B == {k \in Nat \ {0} : LowBit(k) \notin 1 .. k}
<1>1. SUFFICES ASSUME B # {} PROVE FALSE
  OBVIOUS
<1>2. PICK k \in B : \A m \in B : k <= m
  <2>1. B \subseteq Nat
    OBVIOUS
  <2> HIDE DEF B
  <2> QED BY <1>1, <2>1, LeastNatural
<1>3. CASE k % 2 = 1
  BY <1>2, <1>3, LowBitHalves
<1>4. CASE k % 2 # 1
  <2> PICK h : h = k \div 2
    OBVIOUS
  <2>1. h \in Nat \ {0} /\ h < k /\ k = 2 * h
    BY <1>2, <1>4
  <2>2. LowBit(h) \in 1 .. h
    BY <1>2, <2>1
  <2>3. LowBit(k) = 2 * LowBit(h)
    BY <1>2, <1>4, LowBitHalves
  <2>4. LowBit(k) \in 1 .. k
    BY <2>1, <2>2, <2>3
  <2> QED BY <1>2, <2>4
<1> QED BY <1>3, <1>4

\* The element i of a tree covers the indices i - LowBit(i) + 1 .. i; the
\* element after j that covers j too is the one at j + LowBit(j).
Nested(i, j) ==
  i - LowBit(i) < j <=>
    i - LowBit(i) < j + LowBit(j) /\ j + LowBit(j) <= i

LEMMA ElementsNest ==
  ASSUME NEW i \in Nat, NEW j \in Nat \ {0}, j < i
  PROVE  Nested(i, j)
<1> DEFINE B == {k \in Nat : \E m \in 1 .. k - 1 : ~ Nested(k, m)}
<1> SUFFICES ASSUME ~ Nested(i, j) PROVE FALSE
  OBVIOUS
<1>1. B # {}
  <2>1. j \in 1 .. i - 1
    OBVIOUS
  <2>2. i \in B
    BY <2>1
  <2> QED BY <2>2
<1>2. PICK k \in B : \A m \in B : k <= m
  <2>1. B \subseteq Nat
    OBVIOUS
  <2> HIDE DEF B
  <2> QED BY <1>1, <2>1, LeastNatural
<1>3. PICK m \in 1 .. k - 1 : ~ Nested(k, m)
  BY <1>2
<1>4. /\ k \in Nat \ {0} /\ m \in Nat \ {0}
      /\ LowBit(k) \in 1 .. k
      /\ LowBit(m) \in 1 .. m
  BY <1>2, <1>3, LowBitRange
<1> PICK a : a = LowBit(m)
  OBVIOUS
<1> PICK b : b = LowBit(k)
  OBVIOUS
<1>5. ~(k - b < m <=> k - b < m + a /\ m + a <= k)
  BY <1>3 DEF Nested
<1>6. /\ k % 2 = 1 => b = 1
      /\ m % 2 = 1 => a = 1
  BY <1>4, LowBitHalves
<1>7. ASSUME NEW n \in Nat \ {0}, n % 2 # 1
      PROVE  \E h \in Nat \ {0} : /\ n = 2 * h
                                  /\ LowBit(n) = 2 * LowBit(h)
                                  /\ LowBit(h) \in 1 .. h
  <2> PICK h : h = n \div 2
    OBVIOUS
  <2>1. h \in Nat \ {0} /\ n = 2 * h
    BY <1>7
  <2> QED BY <1>7, <2>1, LowBitHalves, LowBitRange
<1>8. CASE k % 2 = 1
  <2>1. CASE m % 2 = 1
    <3>1. k # m + 1
      BY <1>4, <1>8, <2>1
    <3> QED BY <1>3, <1>4, <1>5, <1>6, <1>8, <2>1, <3>1
  <2>2. CASE m % 2 # 1
    <3>1. PICK h \in Nat \ {0}, c \in Nat : m = 2 * h /\ a = 2 * c
      BY <1>4, <1>7, <2>2
    <3>2. k # m + a
      BY <1>4, <1>8, <3>1
    <3> QED BY <1>3, <1>4, <1>5, <1>6, <1>8, <3>2
  <2> QED BY <2>1, <2>2
<1>9. CASE k % 2 # 1
  <2>1. PICK h \in Nat \ {0} : /\ k = 2 * h
                               /\ b = 2 * LowBit(h)
                               /\ LowBit(h) \in 1 .. h
    BY <1>4, <1>7, <1>9
  <2>2. CASE m % 2 = 1
    <3>1. a = 1
      BY <1>6, <2>2
    <3>2. PICK c \in Nat : k - b = 2 * c
      BY <2>1
    <3>3. k - b # m
      BY <1>4, <2>2, <3>2
    <3> QED BY <1>3, <1>4, <1>5, <3>1, <3>3
  <2>3. CASE m % 2 # 1
    <3>1. PICK g \in Nat \ {0} : /\ m = 2 * g
                                 /\ a = 2 * LowBit(g)
                                 /\ LowBit(g) \in 1 .. g
      BY <1>4, <1>7, <2>3
    <3>2. h \in Nat /\ h < k /\ g \in 1 .. h - 1
      BY <1>3, <1>4, <2>1, <3>1
    <3>3. Nested(h, g)
      BY <1>2, <3>2
    <3>4. h - LowBit(h) < g <=>
            h - LowBit(h) < g + LowBit(g) /\ g + LowBit(g) <= h
      BY <3>3 DEF Nested
    <3> PICK x : x = LowBit(h)
      OBVIOUS
    <3> PICK y : y = LowBit(g)
      OBVIOUS
    <3> QED BY <1>5, <2>1, <3>1, <3>4
  <2> QED BY <2>2, <2>3
<1> QED BY <1>8, <1>9

\* The elements up to size that cover j, the index of an element.
Covering(j, size) == {k \in 1 .. size : k - LowBit(k) < j /\ j <= k}

LEMMA CoveringNext ==
  ASSUME NEW size \in Nat, NEW j \in Nat \ {0}, j <= size
  PROVE  Covering(j, size) = {j} \cup Covering(j + LowBit(j), size)
<1>1. LowBit(j) \in 1 .. j
  BY LowBitRange
<1>2. ASSUME NEW k \in 1 .. size
      PROVE  k \in Covering(j, size) <=>
               k = j \/ k \in Covering(j + LowBit(j), size)
  <2>1. LowBit(k) \in 1 .. k
    BY LowBitRange
  <2>2. CASE j < k
    <3>1. Nested(k, j)
      BY <2>2, ElementsNest
    <3> QED BY <1>1, <2>1, <2>2, <3>1 DEF Nested, Covering
  <2>3. CASE k <= j
    BY <1>1, <2>1, <2>3 DEF Covering
  <2> QED BY <2>2, <2>3
<1>3. /\ Covering(j, size) \subseteq 1 .. size
      /\ Covering(j + LowBit(j), size) \subseteq 1 .. size
      /\ j \in 1 .. size
  BY DEF Covering
<1> QED BY <1>2, <1>3

\* add(index, delta) visits exactly the elements that cover the index.
LEMMA AncestorsCover ==
  ASSUME NEW index \in Nat, NEW size \in Nat
  PROVE  Ancestors(index, size) = Covering(index + 1, size)
<1> DEFINE N == 2 * (size + index + 1)
           From(f) == f = [i \in 1 .. N |->
                             IF i > size THEN {} ELSE {i} \cup f[i + LowBit(i)]]
<1>1. ASSUME NEW j \in 1 .. N, j <= size
      PROVE  j + LowBit(j) \in 1 .. N /\ j < j + LowBit(j)
  <2>1. LowBit(j) \in 1 .. j
    BY LowBitRange
  <2> QED BY <1>1, <2>1
<1>2. \E f : From(f)
  <2> DEFINE g == [i \in 1 .. N |-> Covering(i, size)]
  <2>1. ASSUME NEW i \in 1 .. N
        PROVE  g[i] = IF i > size THEN {} ELSE {i} \cup g[i + LowBit(i)]
    <3>1. CASE i > size
      <4>1. Covering(i, size) = {}
        BY <3>1 DEF Covering
      <4> QED BY <3>1, <4>1
    <3>2. CASE i <= size
      <4>1. i + LowBit(i) \in 1 .. N
        BY <1>1, <3>2
      <4>2. g[i + LowBit(i)] = Covering(i + LowBit(i), size)
        BY <4>1
      <4>3. Covering(i, size) = {i} \cup Covering(i + LowBit(i), size)
        BY <3>2, CoveringNext
      <4> QED BY <3>2, <4>2, <4>3
    <3> QED BY <3>1, <3>2
  <2>2. g = [i \in 1 .. N |-> g[i]]
    OBVIOUS
  <2> HIDE DEF g
  <2>3. g = [i \in 1 .. N |-> IF i > size THEN {} ELSE {i} \cup g[i + LowBit(i)]]
    BY <2>1, <2>2
  <2> QED BY <2>3
<1> DEFINE f == CHOOSE f : From(f)
<1>3. From(f)
  BY <1>2
<1>4. Ancestors(index, size) = f[index + 1]
  BY DEF Ancestors
<1> HIDE DEF f
<1>5. ASSUME NEW j \in 1 .. N
      PROVE  f[j] = IF j > size THEN {} ELSE {j} \cup f[j + LowBit(j)]
  BY <1>3
<1> DEFINE B == {m \in Nat : \E j \in 1 .. N : m = N - j /\ f[j] # Covering(j, size)}
<1> HIDE DEF From
<1>6. B = {}
  <2> SUFFICES ASSUME B # {} PROVE FALSE
    OBVIOUS
  <2>1. PICK m \in B : \A n \in B : m <= n
    <3>1. B \subseteq Nat
      OBVIOUS
    <3> HIDE DEF B
    <3> QED BY <3>1, LeastNatural
  <2>2. PICK j \in 1 .. N : m = N - j /\ f[j] # Covering(j, size)
    BY <2>1
  <2>3. CASE j > size
    <3>1. Covering(j, size) = {}
      BY <2>3 DEF Covering
    <3> QED BY <1>5, <2>2, <2>3, <3>1
  <2>4. CASE j <= size
    <3> PICK k : k = j + LowBit(j)
      OBVIOUS
    <3>1. k \in 1 .. N /\ j < k
      BY <1>1, <2>4
    <3>2. f[k] = Covering(k, size)
      <4>1. N - k \in Nat /\ N - k < m
        BY <2>2, <3>1
      <4>2. N - k \notin B
        BY <2>1, <4>1
      <4> QED BY <3>1, <4>1, <4>2
    <3>3. f[j] = {j} \cup f[k]
      <4>1. ~ (j > size)
        BY <2>4
      <4>2. f[j] = {j} \cup f[j + LowBit(j)]
        BY <1>5, <4>1
      <4> QED BY <4>2
    <3>4. Covering(j, size) = {j} \cup Covering(k, size)
      BY <2>4, CoveringNext
    <3> QED BY <2>2, <3>2, <3>3, <3>4
  <2> QED BY <2>3, <2>4
<1>7. index + 1 \in 1 .. N
  OBVIOUS
<1>8. f[index + 1] = Covering(index + 1, size)
  <2>1. N - (index + 1) \in Nat
    OBVIOUS
  <2> QED BY <1>6, <1>7, <2>1
<1> QED BY <1>4, <1>8

PrefixesOf(f, t, n) ==
  f = [i \in 0 .. n |-> IF i = 0 THEN 0 ELSE t[i] + f[i - LowBit(i)]]

LEMMA PrefixesExist ==
  ASSUME NEW t, NEW n \in Nat
  PROVE  \E f : PrefixesOf(f, t, n)
<1> DEFINE B == {k \in Nat : ~ \E f : PrefixesOf(f, t, k)}
<1>1. SUFFICES ASSUME B # {} PROVE FALSE
  OBVIOUS
<1>2. PICK k \in B : \A m \in B : k <= m
  <2>1. B \subseteq Nat
    OBVIOUS
  <2> HIDE DEF B
  <2> QED BY <1>1, <2>1, LeastNatural
<1>3. CASE k = 0
  <2> DEFINE g == [j \in 0 .. 0 |-> 0]
  <2>1. g = [j \in 0 .. 0 |-> IF j = 0 THEN 0 ELSE t[j] + g[j - LowBit(j)]]
    OBVIOUS
  <2>2. PrefixesOf(g, t, 0)
    BY <2>1 DEF PrefixesOf
  <2> QED BY <1>2, <1>3, <2>2
<1>4. CASE k # 0
  <2>1. k - 1 \in Nat /\ k - 1 \notin B
    BY <1>2, <1>4
  <2>2. PICK f : PrefixesOf(f, t, k - 1)
    BY <2>1
  <2> DEFINE g == [j \in 0 .. k |-> IF j = k THEN t[k] + f[k - LowBit(k)]
                                             ELSE f[j]]
  <2>3. ASSUME NEW j \in 0 .. k
        PROVE  g[j] = IF j = 0 THEN 0 ELSE t[j] + g[j - LowBit(j)]
    <3>1. j # 0 => j - LowBit(j) \in 0 .. k - 1
      BY LowBitRange
    <3>2. j # 0 => g[j - LowBit(j)] = f[j - LowBit(j)]
      BY <3>1
    <3>3. CASE j = k
      BY <1>4, <3>2, <3>3
    <3>4. CASE j # k
      <4>1. j \in 0 .. k - 1
        BY <3>4
      <4>2. f[j] = IF j = 0 THEN 0 ELSE t[j] + f[j - LowBit(j)]
        BY <2>2, <4>1 DEF PrefixesOf
      <4>3. g[j] = f[j]
        BY <3>4
      <4> QED BY <3>2, <4>2, <4>3
    <3> QED BY <3>3, <3>4
  <2>4. g = [j \in 0 .. k |-> g[j]]
    OBVIOUS
  <2> HIDE DEF g
  <2>5. g = [j \in 0 .. k |-> IF j = 0 THEN 0 ELSE t[j] + g[j - LowBit(j)]]
    BY <2>3, <2>4
  <2>6. PrefixesOf(g, t, k)
    BY <2>5 DEF PrefixesOf
  <2> QED BY <1>2, <2>6
<1> QED BY <1>3, <1>4

LEMMA PrefixesAgree ==
  ASSUME NEW m \in Nat, NEW n \in Nat, m <= n, NEW t, NEW u, \A k \in 1 .. m : t[k] = u[k],
         NEW f, NEW g, PrefixesOf(f, t, m), PrefixesOf(g, u, n)
  PROVE  \A k \in 0 .. m : f[k] = g[k]
<1> DEFINE B == {k \in 0 .. m : f[k] # g[k]}
<1>1. SUFFICES ASSUME B # {} PROVE FALSE
  OBVIOUS
<1>2. PICK k \in B : \A j \in B : k <= j
  <2>1. B \subseteq Nat
    OBVIOUS
  <2> HIDE DEF B
  <2> QED BY <1>1, <2>1, LeastNatural
<1>3. /\ f[k] = IF k = 0 THEN 0 ELSE t[k] + f[k - LowBit(k)]
      /\ g[k] = IF k = 0 THEN 0 ELSE u[k] + g[k - LowBit(k)]
  BY <1>2 DEF PrefixesOf
<1>4. k # 0 => k - LowBit(k) \in 0 .. m /\ k - LowBit(k) < k
  BY <1>2, LowBitRange
<1>5. k # 0 => f[k - LowBit(k)] = g[k - LowBit(k)]
  BY <1>2, <1>4
<1> QED BY <1>2, <1>3, <1>5

\* sum(count) is what the recursion says, for every count.
LEMMA TreeSum ==
  ASSUME NEW t, NEW n \in Nat
  PROVE  \E f : PrefixesOf(f, t, n) /\ Sum(t, n) = f[n]
<1>1. \E f : PrefixesOf(f, t, n)
  BY PrefixesExist
<1> DEFINE f == CHOOSE f : PrefixesOf(f, t, n)
<1>2. PrefixesOf(f, t, n)
  BY <1>1
<1>3. Sum(t, n) = f[n]
  BY DEF Sum, PrefixesOf
<1> QED BY <1>2, <1>3

LEMMA TreeSumSame ==
  ASSUME NEW n \in Nat, NEW t, NEW u, \A k \in 1 .. n : t[k] = u[k]
  PROVE  Sum(t, n) = Sum(u, n)
<1>1. PICK f : PrefixesOf(f, t, n) /\ Sum(t, n) = f[n]
  BY TreeSum
<1>2. PICK g : PrefixesOf(g, u, n) /\ Sum(u, n) = g[n]
  BY TreeSum
<1>3. f[n] = g[n]
  BY <1>1, <1>2, PrefixesAgree
<1> QED BY <1>1, <1>2, <1>3

LEMMA TreeSumStep ==
  ASSUME NEW t, NEW n \in Nat
  PROVE  /\ n = 0 => Sum(t, n) = 0
         /\ n # 0 => Sum(t, n) = t[n] + Sum(t, n - LowBit(n))
<1>1. PICK f : PrefixesOf(f, t, n) /\ Sum(t, n) = f[n]
  BY TreeSum
<1>2. f[n] = IF n = 0 THEN 0 ELSE t[n] + f[n - LowBit(n)]
  BY <1>1 DEF PrefixesOf
<1>3. ASSUME n # 0 PROVE Sum(t, n) = t[n] + Sum(t, n - LowBit(n))
  <2> PICK m : m = n - LowBit(n)
    OBVIOUS
  <2>1. m \in Nat /\ m <= n
    BY <1>3, LowBitRange
  <2>2. PICK g : PrefixesOf(g, t, m) /\ Sum(t, m) = g[m]
    BY <2>1, TreeSum
  <2>3. g[m] = f[m]
    BY <1>1, <2>1, <2>2, PrefixesAgree
  <2> QED BY <1>1, <1>2, <1>3, <2>2, <2>3
<1> QED BY <1>1, <1>2, <1>3

LEMMA TreeSumType ==
  ASSUME NEW t \in Seq(Int), NEW n \in 0 .. Len(t)
  PROVE  Sum(t, n) \in Int
<1> DEFINE B == {k \in 0 .. Len(t) : Sum(t, k) \notin Int}
<1>1. SUFFICES ASSUME B # {} PROVE FALSE
  OBVIOUS
<1>2. PICK k \in B : \A j \in B : k <= j
  <2>1. B \subseteq Nat
    OBVIOUS
  <2> HIDE DEF B
  <2> QED BY <1>1, <2>1, LeastNatural
<1>3. CASE k = 0
  BY <1>2, <1>3, TreeSumStep
<1>4. CASE k # 0
  <2>1. k \in Nat /\ k \in 1 .. Len(t) /\ Len(t) \in Nat
    BY <1>2, <1>4, LenProperties
  <2> PICK m : m = k - LowBit(k)
    OBVIOUS
  <2>2. m \in 0 .. Len(t) /\ m < k
    BY <1>4, <2>1, LowBitRange
  <2>3. Sum(t, m) \in Int
    BY <1>2, <2>2
  <2>4. t[k] \in Int
    BY <2>1, ElementOfSeq
  <2>5. Sum(t, k) = t[k] + Sum(t, m)
    BY <1>4, <2>1, TreeSumStep
  <2> QED BY <1>2, <2>3, <2>4, <2>5
<1> QED BY <1>3, <1>4

\* add(index, delta) adds delta to the sums of more than index quantities: one
\* element on the way of each of them covers the index.
LEMMA TreeSumAdded ==
  ASSUME NEW t \in Seq(Int), NEW index \in Nat, NEW delta \in Int, NEW n \in 0 .. Len(t)
  PROVE  Sum(Add(t, index, delta), n) =
           Sum(t, n) + IF n > index THEN delta ELSE 0
<1> DEFINE u == Add(t, index, delta)
           B == {k \in 0 .. Len(t) : Sum(u, k) #
                                       Sum(t, k) + IF k > index THEN delta ELSE 0}
<1>0. Len(t) \in Nat /\ DOMAIN t = 1 .. Len(t)
  BY LenProperties
<1>1. SUFFICES ASSUME B # {} PROVE FALSE
  OBVIOUS
<1>2. ASSUME NEW k \in 1 .. Len(t)
      PROVE  u[k] = IF k - LowBit(k) <= index /\ index < k
                      THEN t[k] + delta ELSE t[k]
  <2>1. k \in Ancestors(index, Len(t)) <=>
          k - LowBit(k) < index + 1 /\ index + 1 <= k
    BY <1>0, AncestorsCover DEF Covering
  <2>2. LowBit(k) \in Int
    BY LowBitRange
  <2> QED BY <1>0, <2>1, <2>2 DEF Add
<1> HIDE DEF u
<1>3. PICK k \in B : \A j \in B : k <= j
  <2>1. B \subseteq Nat
    OBVIOUS
  <2> HIDE DEF B
  <2> QED BY <1>1, <2>1, LeastNatural
<1>4. CASE k = 0
  <2>1. Sum(u, 0) = 0 /\ Sum(t, 0) = 0
    BY TreeSumStep
  <2> QED BY <1>3, <1>4, <2>1
<1>5. CASE k # 0
  <2>1. k \in Nat /\ k \in 1 .. Len(t)
    BY <1>0, <1>3, <1>5
  <2> PICK m : m = k - LowBit(k)
    OBVIOUS
  <2>2. m \in 0 .. Len(t) /\ m < k
    BY <1>0, <1>5, <2>1, LowBitRange
  <2>3. Sum(u, m) = Sum(t, m) + IF m > index THEN delta ELSE 0
    BY <1>3, <2>2
  <2>4. t[k] \in Int /\ Sum(t, m) \in Int
    BY <2>1, <2>2, ElementOfSeq, TreeSumType
  <2>5. Sum(t, k) = t[k] + Sum(t, m)
    BY <1>5, <2>1, TreeSumStep
  <2>6. Sum(u, k) = u[k] + Sum(u, m)
    BY <1>5, <2>1, TreeSumStep
  <2>7. u[k] = IF m <= index /\ index < k THEN t[k] + delta ELSE t[k]
    BY <1>2, <2>1
  <2> QED BY <1>3, <2>1, <2>2, <2>3, <2>4, <2>5, <2>6, <2>7
<1> QED BY <1>4, <1>5

LEMMA AddedTree ==
  ASSUME NEW t \in Seq(Int), NEW index \in Nat, NEW delta \in Int
  PROVE  /\ Add(t, index, delta) \in Seq(Int)
         /\ Len(Add(t, index, delta)) = Len(t)
<1> DEFINE u == Add(t, index, delta)
<1>1. Len(t) \in Nat /\ DOMAIN t = 1 .. Len(t)
  BY LenProperties
<1>2. ASSUME NEW k \in 1 .. Len(t) PROVE t[k] \in Int
  BY ElementOfSeq
<1>3. u \in [1 .. Len(t) -> Int]
  BY <1>1, <1>2 DEF Add
<1> HIDE DEF u
<1>4. \A n \in Nat : u \in [1 .. n -> Int] => u \in Seq(Int)
  BY IsASeq
<1>5. u \in Seq(Int) /\ DOMAIN u = 1 .. Len(t)
  BY <1>1, <1>3, <1>4
<1>6. Len(u) \in Nat /\ DOMAIN u = 1 .. Len(u)
  BY <1>5, LenProperties
<1>7. Len(u) = Len(t)
  BY <1>1, <1>5, <1>6
<1> QED BY <1>5, <1>7 DEF u

\* The element that ensure_size adds covers quantities that are there already,
\* and sums up to the end as much as before.
LEMMA TreeGrown ==
  ASSUME NEW t \in Seq(Int)
  PROVE  /\ Grown(t) \in Seq(Int)
         /\ Len(Grown(t)) = Len(t) + 1
         /\ \A n \in 0 .. Len(t) : Sum(Grown(t), n) = Sum(t, n)
         /\ Sum(Grown(t), Len(t) + 1) = Sum(t, Len(t))
<1> PICK i : i = Len(t) + 1
  OBVIOUS
<1> PICK m : m = i - LowBit(i)
  OBVIOUS
<1> PICK x : x = Sum(t, i - 1) - Sum(t, m)
  OBVIOUS
<1> PICK u : u = Grown(t)
  OBVIOUS
<1>1. Len(t) \in Nat /\ i \in Nat \ {0} /\ m \in 0 .. Len(t)
  BY LenProperties, LowBitRange
<1>2. Sum(t, m) \in Int /\ Sum(t, Len(t)) \in Int
  BY <1>1, TreeSumType
<1>3. x \in Int /\ i - 1 = Len(t)
  BY <1>1, <1>2
<1>4. u = Append(t, x)
  BY DEF Grown
<1>5. /\ u \in Seq(Int)
      /\ Len(u) = i
      /\ u[i] = x
      /\ \A k \in 1 .. Len(t) : u[k] = t[k]
  BY <1>3, <1>4, AppendProperties
<1>6. ASSUME NEW n \in 0 .. Len(t) PROVE Sum(u, n) = Sum(t, n)
  <2>1. n \in Nat /\ \A k \in 1 .. n : u[k] = t[k]
    BY <1>1, <1>5
  <2> QED BY <2>1, TreeSumSame
<1>7. Sum(u, i) = x + Sum(t, m)
  <2>1. Sum(u, i) = u[i] + Sum(u, m)
    BY <1>1, TreeSumStep
  <2> QED BY <1>1, <1>5, <1>6, <2>1
<1>8. Sum(u, i) = Sum(t, Len(t))
  BY <1>2, <1>3, <1>7
<1> QED BY <1>5, <1>6, <1>8

\* What sum(count) returns for every count.
SumsOf(t) == [count \in 1 .. Len(t) |-> Sum(t, count)]

LEMMA SumsSeq ==
  ASSUME NEW t \in Seq(Int)
  PROVE  /\ SumsOf(t) \in Seq(Int)
         /\ Len(SumsOf(t)) = Len(t)
         /\ \A k \in 1 .. Len(t) : SumsOf(t)[k] = Sum(t, k) /\ SumsOf(t)[k] \in Int
         /\ \A k \in 0 .. Len(t) : Array!PrefixSum(SumsOf(t), k) = Sum(t, k)
<1>1. Len(t) \in Nat
  BY LenProperties
<1>2. ASSUME NEW k \in 1 .. Len(t) PROVE Sum(t, k) \in Int
  BY <1>1, TreeSumType
<1>3. SumsOf(t) \in [1 .. Len(t) -> Int]
  BY <1>2 DEF SumsOf
<1>4. \A n \in Nat : \A u : u \in [1 .. n -> Int] => u \in Seq(Int)
  BY IsASeq
<1>5. SumsOf(t) \in Seq(Int) /\ DOMAIN SumsOf(t) = 1 .. Len(t)
  BY <1>1, <1>3, <1>4
<1>6. Len(SumsOf(t)) \in Nat /\ DOMAIN SumsOf(t) = 1 .. Len(SumsOf(t))
  BY <1>5, LenProperties
<1>7. Len(SumsOf(t)) = Len(t)
  BY <1>1, <1>5, <1>6
<1>8. \A k \in 1 .. Len(t) : SumsOf(t)[k] = Sum(t, k)
  BY DEF SumsOf
<1>9. Sum(t, 0) = 0
  BY TreeSumStep
<1> QED BY <1>1, <1>2, <1>5, <1>7, <1>8, <1>9 DEF Array!PrefixSum

LEMMA JoinedSums ==
  ASSUME NEW t \in Seq(Int), NEW qty \in Int, NEW u,
         u = Add(Grown(t), Len(t), qty)
  PROVE  /\ u \in Seq(Int)
         /\ SumsOf(u) = Array!Push(SumsOf(t), qty)
<1> PICK g : g = Grown(t)
  OBVIOUS
<1> PICK n : n = Len(t)
  OBVIOUS
<1> PICK s : s = SumsOf(t)
  OBVIOUS
<1> PICK r : r = SumsOf(u)
  OBVIOUS
<1> PICK x : x = Array!Total(s) + qty
  OBVIOUS
<1>1. n \in Nat
  BY LenProperties
<1>2. /\ g \in Seq(Int)
      /\ Len(g) = n + 1
      /\ \A k \in 0 .. n : Sum(g, k) = Sum(t, k)
      /\ Sum(g, n + 1) = Sum(t, n)
  BY TreeGrown
<1>3. u \in Seq(Int) /\ Len(u) = n + 1
  BY <1>1, <1>2, AddedTree
<1>4. ASSUME NEW k \in 0 .. n + 1
      PROVE  Sum(u, k) = Sum(g, k) + IF k > n THEN qty ELSE 0
  BY <1>1, <1>2, TreeSumAdded
<1>5. /\ s \in Seq(Int)
      /\ Len(s) = n
      /\ \A k \in 1 .. n : s[k] = Sum(t, k) /\ s[k] \in Int
      /\ \A k \in 0 .. n : Array!PrefixSum(s, k) = Sum(t, k)
  BY SumsSeq
<1>6. /\ r \in Seq(Int)
      /\ Len(r) = n + 1
      /\ \A k \in 1 .. n + 1 : r[k] = Sum(u, k)
  BY <1>3, SumsSeq
<1>7. Sum(t, n) \in Int
  BY <1>1, TreeSumType
<1>8. x = Sum(t, n) + qty
  BY <1>1, <1>5 DEF Array!Total
<1>9. x \in Int
  BY <1>7, <1>8
<1>10. ASSUME NEW k \in 1 .. n PROVE r[k] = s[k]
  <2>1. k \in 0 .. n + 1 /\ k \in 0 .. n /\ k \in 1 .. n + 1 /\ ~ k > n
    BY <1>1
  <2>2. r[k] = Sum(g, k) + 0
    BY <1>4, <1>6, <2>1
  <2>3. r[k] = s[k] + 0
    BY <1>2, <1>5, <2>1, <2>2
  <2> QED BY <1>5, <2>3
<1>11. r[n + 1] = x
  BY <1>1, <1>2, <1>4, <1>6, <1>8
<1> PICK a : a = Append(s, x)
  OBVIOUS
<1>12. /\ a \in Seq(Int)
       /\ Len(a) = n + 1
       /\ a[n + 1] = x
       /\ \A k \in 1 .. n : a[k] = s[k]
  BY <1>5, <1>9, AppendProperties
<1>13. \A k \in 1 .. n + 1 : r[k] = a[k]
  BY <1>1, <1>10, <1>11, <1>12
<1>14. r = a
  BY <1>6, <1>12, <1>13, SeqEqual
<1> QED BY <1>3, <1>14 DEF Array!Push

LEMMA ChangedSums ==
  ASSUME NEW t \in Seq(Int), NEW index \in Nat, index < Len(t), NEW qty \in Int, NEW u,
         u = Add(t, index, qty - (Sum(t, index + 1) - Sum(t, index)))
  PROVE  /\ u \in Seq(Int)
         /\ SumsOf(u) = Array!AddAt(SumsOf(t), index,
                          qty - Array!ValueAt(SumsOf(t), index))
<1> PICK n : n = Len(t)
  OBVIOUS
<1> PICK s : s = SumsOf(t)
  OBVIOUS
<1> PICK r : r = SumsOf(u)
  OBVIOUS
<1> PICK delta : delta = qty - (Sum(t, index + 1) - Sum(t, index))
  OBVIOUS
<1>1. n \in Nat /\ index \in 0 .. n /\ index + 1 \in 0 .. n
  BY LenProperties
<1>2. delta \in Int
  BY <1>1, TreeSumType
<1>3. u \in Seq(Int) /\ Len(u) = n
  BY <1>2, AddedTree
<1>4. ASSUME NEW k \in 0 .. n
      PROVE  Sum(u, k) = Sum(t, k) + IF k > index THEN delta ELSE 0
  BY <1>2, TreeSumAdded
<1>5. /\ s \in Seq(Int)
      /\ Len(s) = n
      /\ \A k \in 1 .. n : s[k] = Sum(t, k) /\ s[k] \in Int
      /\ \A k \in 0 .. n : Array!PrefixSum(s, k) = Sum(t, k)
  BY SumsSeq
<1>6. /\ r \in Seq(Int)
      /\ Len(r) = n
      /\ \A k \in 1 .. n : r[k] = Sum(u, k)
  BY <1>3, SumsSeq
<1>7. delta = qty - Array!ValueAt(s, index)
  BY <1>1, <1>5 DEF Array!ValueAt
<1>8. ASSUME NEW k \in 1 .. n PROVE r[k] = IF k > index THEN s[k] + delta ELSE s[k]
  <2>1. k \in 0 .. n
    OBVIOUS
  <2>2. r[k] = s[k] + IF k > index THEN delta ELSE 0
    BY <1>4, <1>5, <1>6, <2>1
  <2>3. s[k] \in Int
    BY <1>5
  <2> QED BY <1>1, <2>1, <2>2, <2>3
<1>9. DOMAIN s = 1 .. n /\ r = [k \in 1 .. n |-> r[k]]
  BY <1>5, <1>6, LenProperties
<1>10. r = [k \in 1 .. n |-> IF k > index THEN s[k] + delta ELSE s[k]]
  BY <1>8, <1>9
<1> QED BY <1>3, <1>7, <1>9, <1>10 DEF Array!AddAt

\* However quantities join and change, the tree of the code computes the prefix
\* sums of the array: FenwickTree implements PrefixSumArray.
THEOREM TreeImplementsArray == TreeSpec => ImplementsArray
<1> USE TreeAssumption
<1> DEFINE TreeIs == tree \in Seq(Int)
<1>1. TreeInit => TreeIs /\ Array!Init
  <2> SUFFICES ASSUME TreeInit PROVE TreeIs /\ Array!Init
    OBVIOUS
  <2>1. tree = << >> /\ tree \in Seq(Int) /\ Len(tree) = 0
    BY EmptySeq DEF TreeInit
  <2>2. SumsOf(tree) \in Seq(Int) /\ Len(SumsOf(tree)) = 0
    BY <2>1, SumsSeq
  <2>3. SumsOf(tree) = << >>
    BY <2>2, EmptySeq
  <2> QED BY <2>1, <2>3 DEF SumsOf, Array!Init
<1>2. TreeIs /\ [TreeNext]_tree
        => TreeIs' /\ [Array!Next]_(SumsOf(tree))
  <2> SUFFICES ASSUME TreeIs, [TreeNext]_tree
               PROVE  TreeIs' /\ [Array!Next]_(SumsOf(tree))
    OBVIOUS
  <2>1. CASE UNCHANGED tree
    BY <2>1 DEF SumsOf
  <2>2. CASE TreeNext
    <3>1. PICK qty \in Quantities :
            Join(qty) \/ \E index \in 0 .. MaxLen - 1 : Change(index, qty)
      BY <2>2 DEF TreeNext
    <3>2. Len(SumsOf(tree)) = Len(tree)
      BY SumsSeq
    <3>3. CASE Join(qty)
      <4>1. tree' = Add(Grown(tree), Len(tree), qty) /\ Len(tree) < MaxLen
        BY <3>3 DEF Join
      <4>2. TreeIs' /\ SumsOf(tree') = Array!Push(SumsOf(tree), qty)
        BY <4>1, JoinedSums
      <4>3. Array!Join(qty)
        BY <3>2, <4>1, <4>2 DEF Array!Join, SumsOf
      <4> QED BY <4>2, <4>3 DEF Array!Next
    <3>4. CASE \E index \in 0 .. MaxLen - 1 : Change(index, qty)
      <4>1. PICK index \in 0 .. MaxLen - 1 : Change(index, qty)
        BY <3>4
      <4>2. /\ tree' = Add(tree, index, qty - (Sum(tree, index + 1) - Sum(tree, index)))
            /\ index < Len(tree)
        BY <4>1 DEF Change, QuantityAt
      <4>3. TreeIs' /\ SumsOf(tree') = Array!AddAt(SumsOf(tree), index,
                          qty - Array!ValueAt(SumsOf(tree), index))
        BY <4>2, ChangedSums
      <4>4. Array!Change(index, qty)
        BY <3>2, <4>2, <4>3 DEF Array!Change, SumsOf
      <4> QED BY <4>3, <4>4 DEF Array!Next
    <3> QED BY <3>1, <3>3, <3>4
  <2> QED BY <2>1, <2>2
<1>3. SumsOf(tree) = [count \in 1 .. Len(tree) |-> Sum(tree, count)]
  BY DEF SumsOf
<1> QED BY <1>1, <1>2, PTL
     DEF TreeSpec, ImplementsArray, Array!Spec, SumsOf
=============================================================================
