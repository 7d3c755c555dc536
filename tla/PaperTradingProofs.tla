-------------------------- MODULE PaperTradingProofs --------------------------
(***************************************************************************)
(* What the helpers of PaperTradingSimulator on lists, maps and prefix     *)
(* sums return, how the changes that the handlers make to the book and to  *)
(* the paper orders preserve the parts of the inductive invariant, that    *)
(* every action of the engine preserves Inductive, and what follows for    *)
(* the properties of PaperTradingProperties.  Then the historical book:    *)
(* what heaps and paper levels know of its queues (HeapCovers,             *)
(* MarketKnown), what a sweep can still meet (SweepProceeds), and that     *)
(* levels, heaps, queues and nodes implement OrderBook.                    *)
(***************************************************************************)
EXTENDS PaperTradingInvariant, SequenceTheorems, FiniteSetTheorems,
        WellFoundedInduction, TLAPS

(***************************************************************************)
(* A list without its i-th element.                                        *)
(***************************************************************************)
LEMMA RemoveAtProperties ==
  ASSUME NEW S, NEW q \in Seq(S), NEW i \in 1 .. Len(q)
  PROVE  /\ RemoveAt(q, i) \in Seq(S)
         /\ Len(RemoveAt(q, i)) = Len(q) - 1
         /\ \A k \in 1 .. Len(q) - 1 :
              RemoveAt(q, i)[k] = IF k < i THEN q[k] ELSE q[k + 1]
<1> DEFINE front == SubSeq(q, 1, i - 1)
           back  == SubSeq(q, i + 1, Len(q))
<1>1. /\ Len(q) \in Nat
      /\ \A k \in 1 .. Len(q) : q[k] \in S
  BY LenProperties, ElementOfSeq
<1>2. /\ front \in Seq(S)
      /\ Len(front) = i - 1
      /\ \A k \in 1 .. i - 1 : front[k] = q[k]
  <2>1. \A k \in 1 .. i - 1 : q[k] \in S
    BY <1>1
  <2> QED BY <2>1, <1>1, SubSeqProperties
<1>3. /\ back \in Seq(S)
      /\ Len(back) = Len(q) - i
      /\ \A k \in 1 .. Len(q) - i : back[k] = q[k + i]
  <2>1. \A k \in i + 1 .. Len(q) : q[k] \in S
    BY <1>1
  <2>2. /\ back \in Seq(S)
        /\ Len(back) = IF i + 1 <= Len(q) THEN Len(q) - (i + 1) + 1 ELSE 0
        /\ \A k \in 1 .. Len(q) - (i + 1) + 1 : back[k] = q[i + 1 + k - 1]
    BY <2>1, <1>1, SubSeqProperties
  <2> QED BY <2>2, <1>1
<1> HIDE DEF front, back
<1>4. /\ front \o back \in Seq(S)
      /\ Len(front \o back) = Len(q) - 1
      /\ \A k \in 1 .. Len(q) - 1 :
           (front \o back)[k] = IF k <= i - 1 THEN front[k] ELSE back[k - (i - 1)]
  <2>1. /\ front \o back \in Seq(S)
        /\ Len(front \o back) = Len(front) + Len(back)
        /\ \A k \in 1 .. Len(front) + Len(back) :
             (front \o back)[k] = IF k <= Len(front) THEN front[k]
                                                    ELSE back[k - Len(front)]
    BY <1>2, <1>3, ConcatProperties
  <2>2. Len(front) + Len(back) = Len(q) - 1
    BY <1>1, <1>2, <1>3
  <2> QED BY <1>1, <1>2, <2>1, <2>2
<1>5. RemoveAt(q, i) = front \o back
  BY DEF RemoveAt, front, back
<1> QED BY <1>1, <1>2, <1>3, <1>4, <1>5

(***************************************************************************)
(* Unlinked takes exactly one element out of a list without duplicates.    *)
(***************************************************************************)
LEMMA UnlinkedProperties ==
  ASSUME NEW S, NEW q \in Seq(S), NEW x \in ToSet(q), IsInjective(q)
  PROVE  /\ Unlinked(q, x) \in Seq(S)
         /\ Len(Unlinked(q, x)) = Len(q) - 1
         /\ ToSet(Unlinked(q, x)) = ToSet(q) \ {x}
         /\ IsInjective(Unlinked(q, x))
<1> DEFINE i == PositionOf(q, x)
           u == Unlinked(q, x)
<1>1. /\ Len(q) \in Nat
      /\ DOMAIN q = 1 .. Len(q)
  BY LenProperties
<1>2. i \in 1 .. Len(q) /\ q[i] = x
  BY <1>1 DEF ToSet, PositionOf
<1>3. /\ u \in Seq(S)
      /\ Len(u) = Len(q) - 1
      /\ \A k \in 1 .. Len(q) - 1 : u[k] = IF k < i THEN q[k] ELSE q[k + 1]
  BY <1>2, RemoveAtProperties DEF Unlinked
<1>4. DOMAIN u = 1 .. Len(q) - 1
  BY <1>3, LenProperties
<1>5. \A j, k \in 1 .. Len(q) : q[j] = q[k] => j = k
  BY <1>1 DEF IsInjective
<1> HIDE DEF i, u
<1>6. IsInjective(u)
  <2> SUFFICES ASSUME NEW j \in 1 .. Len(q) - 1, NEW k \in 1 .. Len(q) - 1,
                      u[j] = u[k]
               PROVE  j = k
    BY <1>4 DEF IsInjective
  <2> QED BY <1>1, <1>2, <1>3, <1>5
<1>7. ASSUME NEW y \in ToSet(u) PROVE y \in ToSet(q) \ {x}
  <2>1. PICK k \in 1 .. Len(q) - 1 : u[k] = y
    BY <1>4, <1>7 DEF ToSet
  <2>2. CASE k < i
    BY <1>1, <1>2, <1>3, <1>5, <2>1, <2>2 DEF ToSet
  <2>3. CASE k >= i
    <3>1. k + 1 \in 1 .. Len(q) /\ k + 1 # i /\ y = q[k + 1]
      BY <1>1, <1>2, <1>3, <2>1, <2>3
    <3>2. y # x
      BY <1>2, <1>5, <3>1
    <3> QED BY <1>1, <3>1, <3>2 DEF ToSet
  <2> QED BY <1>1, <1>2, <2>2, <2>3
<1>8. ASSUME NEW y \in ToSet(q), y # x PROVE y \in ToSet(u)
  <2>1. PICK k \in 1 .. Len(q) : q[k] = y
    BY <1>1, <1>8 DEF ToSet
  <2>2. CASE k < i
    <3>1. k \in 1 .. Len(q) - 1 /\ u[k] = y
      BY <1>1, <1>2, <1>3, <2>1, <2>2
    <3> QED BY <3>1, <1>4 DEF ToSet
  <2>3. CASE k > i
    <3>1. k - 1 \in 1 .. Len(q) - 1 /\ u[k - 1] = y
      BY <1>1, <1>2, <1>3, <2>1, <2>3
    <3> QED BY <3>1, <1>4 DEF ToSet
  <2> QED BY <1>1, <1>2, <1>8, <2>1, <2>2, <2>3
<1>9. ToSet(u) = ToSet(q) \ {x}
  BY <1>7, <1>8
<1> QED BY <1>3, <1>6, <1>9 DEF u

(***************************************************************************)
(* A list in increasing order has no duplicates, and stays in order when   *)
(* an element leaves it.                                                   *)
(***************************************************************************)
LEMMA IncreasingIsInjective ==
  ASSUME NEW q \in Seq(Nat), Increasing(q)
  PROVE  IsInjective(q)
<1>1. /\ Len(q) \in Nat
      /\ DOMAIN q = 1 .. Len(q)
      /\ \A k \in 1 .. Len(q) : q[k] \in Nat
  BY LenProperties, ElementOfSeq
<1> SUFFICES ASSUME NEW j \in 1 .. Len(q), NEW k \in 1 .. Len(q), q[j] = q[k],
                    j # k
             PROVE  FALSE
  BY <1>1 DEF IsInjective
<1>2. CASE j < k
  BY <1>1, <1>2 DEF Increasing
<1>3. CASE k < j
  BY <1>1, <1>3 DEF Increasing
<1> QED BY <1>1, <1>2, <1>3

LEMMA UnlinkedIncreasing ==
  ASSUME NEW q \in Seq(Nat), Increasing(q), NEW x \in ToSet(q)
  PROVE  Increasing(Unlinked(q, x))
<1> DEFINE i == PositionOf(q, x)
           u == Unlinked(q, x)
<1>1. /\ Len(q) \in Nat
      /\ DOMAIN q = 1 .. Len(q)
  BY LenProperties
<1>2. i \in 1 .. Len(q)
  BY <1>1 DEF ToSet, PositionOf
<1>3. /\ u \in Seq(Nat)
      /\ Len(u) = Len(q) - 1
      /\ \A k \in 1 .. Len(q) - 1 : u[k] = IF k < i THEN q[k] ELSE q[k + 1]
  BY <1>2, RemoveAtProperties DEF Unlinked
<1>4. DOMAIN u = 1 .. Len(q) - 1
  BY <1>3, LenProperties
<1> HIDE DEF i, u
<1> SUFFICES ASSUME NEW j \in 1 .. Len(q) - 1, NEW k \in 1 .. Len(q) - 1, j < k
             PROVE  u[j] < u[k]
  BY <1>4 DEF Increasing, u
<1>5. \A a1, a2 \in 1 .. Len(q) : a1 < a2 => q[a1] < q[a2]
  BY <1>1 DEF Increasing
<1>6. CASE k < i
  BY <1>1, <1>2, <1>3, <1>5, <1>6
<1>7. CASE ~(k < i) /\ j < i
  <2>1. u[j] = q[j] /\ u[k] = q[k + 1]
    BY <1>3, <1>7
  <2>2. j \in 1 .. Len(q) /\ k + 1 \in 1 .. Len(q) /\ j < k + 1
    BY <1>1
  <2> QED BY <1>5, <2>1, <2>2
<1>8. CASE ~(j < i)
  <2>0. ~(k < i)
    BY <1>1, <1>2, <1>8
  <2>1. u[j] = q[j + 1] /\ u[k] = q[k + 1]
    BY <1>3, <1>8, <2>0
  <2>2. j + 1 \in 1 .. Len(q) /\ k + 1 \in 1 .. Len(q) /\ j + 1 < k + 1
    BY <1>1
  <2> QED BY <1>5, <2>1, <2>2
<1> QED BY <1>6, <1>7, <1>8

(***************************************************************************)
(* An element joins a list at its end.                                     *)
(***************************************************************************)
LEMMA PushedBackProperties ==
  ASSUME NEW S, NEW q \in Seq(S), NEW x \in S
  PROVE  /\ Append(q, x) \in Seq(S)
         /\ Len(Append(q, x)) = Len(q) + 1
         /\ Append(q, x) # <<>>
         /\ ToSet(Append(q, x)) = ToSet(q) \cup {x}
         /\ (x \notin ToSet(q) /\ IsInjective(q)) => IsInjective(Append(q, x))
<1>1. /\ Len(q) \in Nat
      /\ DOMAIN q = 1 .. Len(q)
  BY LenProperties
<1>2. PICK u : u = Append(q, x)
  OBVIOUS
<1>3. /\ u \in Seq(S)
      /\ Len(u) = Len(q) + 1
      /\ \A k \in 1 .. Len(q) : u[k] = q[k]
      /\ u[Len(q) + 1] = x
  BY <1>1, <1>2
<1>4. DOMAIN u = 1 .. Len(q) + 1
  BY <1>3, LenProperties
<1>5. u # <<>>
  BY <1>1, <1>3, EmptySeq
<1>6. ToSet(u) = ToSet(q) \cup {x}
  <2>1. \A y : y \in ToSet(u) <=> y \in ToSet(q) \cup {x}
    BY <1>1, <1>3, <1>4 DEF ToSet
  <2> QED BY <2>1
<1>7. (x \notin ToSet(q) /\ IsInjective(q)) => IsInjective(u)
  BY <1>1, <1>3, <1>4 DEF IsInjective, ToSet
<1> QED BY <1>2, <1>3, <1>5, <1>6, <1>7

LEMMA AppendIncreasing ==
  ASSUME NEW q \in Seq(Nat), NEW x \in Nat, Increasing(q),
         \A y \in ToSet(q) : y < x
  PROVE  Increasing(Append(q, x))
<1>1. /\ Len(q) \in Nat
      /\ DOMAIN q = 1 .. Len(q)
  BY LenProperties
<1>2. /\ DOMAIN Append(q, x) = 1 .. Len(q) + 1
      /\ \A k \in 1 .. Len(q) : Append(q, x)[k] = q[k]
      /\ Append(q, x)[Len(q) + 1] = x
  BY <1>1, PushedBackProperties, LenProperties
<1>3. \A k \in 1 .. Len(q) : q[k] < x
  BY <1>1 DEF ToSet
<1> QED BY <1>1, <1>2, <1>3 DEF Increasing

(***************************************************************************)
(* Partial functions: an entry is put, changed or erased.                  *)
(***************************************************************************)
LEMMA PutProperties ==
  ASSUME NEW D, NEW R, NEW f, IsPartial(f, D, R), NEW x \in D, NEW v \in R
  PROVE  /\ IsPartial(Put(f, x, v), D, R)
         /\ DOMAIN Put(f, x, v) = DOMAIN f \cup {x}
         /\ Put(f, x, v)[x] = v
         /\ \A y \in DOMAIN f : y # x => Put(f, x, v)[y] = f[y]
BY DEF IsPartial, Put

LEMMA ErasedProperties ==
  ASSUME NEW D, NEW R, NEW f, IsPartial(f, D, R), NEW x
  PROVE  /\ IsPartial(Erased(f, x), D, R)
         /\ DOMAIN Erased(f, x) = DOMAIN f \ {x}
         /\ \A y \in DOMAIN f : y # x => Erased(f, x)[y] = f[y]
BY DEF IsPartial, Erased, Restrict

LEMMA ExceptProperties ==
  ASSUME NEW D, NEW R, NEW f, IsPartial(f, D, R), NEW x \in DOMAIN f, NEW v \in R
  PROVE  /\ IsPartial([f EXCEPT ![x] = v], D, R)
         /\ DOMAIN [f EXCEPT ![x] = v] = DOMAIN f
         /\ [f EXCEPT ![x] = v][x] = v
         /\ \A y \in DOMAIN f : y # x => [f EXCEPT ![x] = v][y] = f[y]
BY DEF IsPartial

(***************************************************************************)
(* Prefix sums.                                                            *)
(***************************************************************************)
LEMMA PrefixSumType ==
  ASSUME NEW t \in Seq(Int), NEW count \in 0 .. Len(t)
  PROVE  PrefixSum(t, count) \in Int
<1>1. Len(t) \in Nat /\ \A k \in 1 .. Len(t) : t[k] \in Int
  BY LenProperties, ElementOfSeq
<1> QED BY <1>1 DEF PrefixSum

LEMMA AddAtProperties ==
  ASSUME NEW t \in Seq(Int), NEW index, NEW delta \in Int
  PROVE  /\ AddAt(t, index, delta) \in Seq(Int)
         /\ Len(AddAt(t, index, delta)) = Len(t)
<1>1. /\ Len(t) \in Nat
      /\ DOMAIN t = 1 .. Len(t)
      /\ \A k \in 1 .. Len(t) : t[k] \in Int
  BY LenProperties, ElementOfSeq
<1>2. AddAt(t, index, delta) \in [1 .. Len(t) -> Int]
  BY <1>1 DEF AddAt
<1> QED BY <1>1, <1>2, SeqDef

LEMMA PushProperties ==
  ASSUME NEW t \in Seq(Int), NEW value \in Int
  PROVE  /\ Push(t, value) \in Seq(Int)
         /\ Len(Push(t, value)) = Len(t) + 1
<1>1. Len(t) \in Nat
  BY LenProperties
<1>2. Total(t) \in Int
  BY <1>1, PrefixSumType DEF Total
<1> QED BY <1>2, PushedBackProperties DEF Push
-----------------------------------------------------------------------------
(***************************************************************************)
(* What a handler finds in a queue of the book.                            *)
(***************************************************************************)
LEMMA QueueFacts ==
  ASSUME BookInvariant, NEW side \in Sides, NEW p \in DOMAIN book[side]
  PROVE  /\ p \in Prices
         /\ book[side][p] \in Seq(Nat)
         /\ Len(book[side][p]) \in Nat
         /\ Increasing(book[side][p])
         /\ IsInjective(book[side][p])
         /\ \A k \in 1 .. Len(book[side][p]) :
              book[side][p][k] \in ToSet(book[side][p])
         /\ book[side][p] # <<>> =>
              /\ Len(book[side][p]) >= 1
              /\ Head(book[side][p]) \in ToSet(book[side][p])
         /\ \A n \in ToSet(book[side][p]) :
              /\ n \in Nat
              /\ n \in DOMAIN node
              /\ node[n].qty \in Nat
              /\ node[n].id \in Ids \cup {UnknownOrderId}
<1> DEFINE q == book[side][p]
<1>1. p \in Prices /\ q \in Seq(Nat)
  BY DEF BookInvariant, BookTypes, IsPartial
<1>2. Increasing(q)
  BY DEF BookInvariant, QueuesApart
<1>3. IsInjective(q)
  BY <1>1, <1>2, IncreasingIsInjective
<1>4. Len(q) \in Nat /\ DOMAIN q = 1 .. Len(q)
  BY <1>1, LenProperties
<1>5. \A k \in 1 .. Len(q) : q[k] \in ToSet(q)
  BY <1>4 DEF ToSet
<1>6. q # <<>> => Len(q) >= 1 /\ Head(q) = q[1]
  BY <1>1, <1>4, EmptySeq
<1>7. ASSUME NEW n \in ToSet(q)
      PROVE  /\ n \in Nat
             /\ n \in DOMAIN node
             /\ node[n].qty \in Nat
             /\ node[n].id \in Ids \cup {UnknownOrderId}
  <2>1. n \in Nat
    BY <1>1, <1>4, ElementOfSeq DEF ToSet
  <2>2. n \in DOMAIN node
    BY DEF BookInvariant, QueuesApart
  <2>3. node[n] \in Node
    BY <2>2 DEF BookInvariant, BookTypes, IsPartial
  <2> QED BY <2>1, <2>2, <2>3 DEF Node
<1> HIDE DEF q
<1>8. q # <<>> => Len(q) >= 1 /\ Head(q) \in ToSet(q)
  BY <1>4, <1>5, <1>6
<1> QED BY <1>1, <1>2, <1>3, <1>4, <1>5, <1>7, <1>8 DEF q

(***************************************************************************)
(* Where order_info leads.                                                 *)
(***************************************************************************)
LEMMA OrderFacts ==
  ASSUME BookInvariant, NEW id \in DOMAIN order_info
  PROVE  /\ id \in Ids
         /\ Side(id) \in Sides
         /\ Price(id) \in Prices
         /\ Price(id) \in DOMAIN book[Side(id)]
         /\ NodeOf(id) \in ToSet(book[Side(id)][Price(id)])
         /\ NodeOf(id) \in Nat
         /\ NodeOf(id) \in DOMAIN node
         /\ node[NodeOf(id)].id = id
         /\ node[NodeOf(id)].qty \in Nat
<1>1. id \in Ids /\ order_info[id] \in OrderInfo
  BY DEF BookInvariant, BookTypes, IsPartial
<1>2. /\ Side(id) \in Sides
      /\ Price(id) \in Prices
  BY <1>1 DEF OrderInfo, Side, Price, NodeOf
<1>3. /\ Price(id) \in DOMAIN book[Side(id)]
      /\ NodeOf(id) \in ToSet(book[Side(id)][Price(id)])
      /\ node[NodeOf(id)].id = id
  BY DEF BookInvariant, NodesIndexed, Queued
<1> QED BY <1>1, <1>2, <1>3, QueueFacts

(***************************************************************************)
(* A node gets another quantity.                                           *)
(***************************************************************************)
LEMMA RestockNode ==
  ASSUME BookInvariant, NEW n \in DOMAIN node, NEW qty \in Nat,
         node' = [node EXCEPT ![n].qty = qty],
         UNCHANGED <<book, order_info, order_arrival_seq>>
  PROVE  BookInvariant'
<1>1. /\ IsPartial(node, Nat, Node)
      /\ n \in Nat
  BY DEF BookInvariant, BookTypes, IsPartial
<1>2. /\ DOMAIN node' = DOMAIN node
      /\ \A m \in DOMAIN node : node'[m].id = node[m].id
      /\ IsPartial(node', Nat, Node)
  BY <1>1 DEF IsPartial, Node
<1>3. BookTypes'
  BY <1>2 DEF BookInvariant, BookTypes
<1>4. QueuesApart'
  BY <1>2 DEF BookInvariant, QueuesApart, Queued
<1>5. NodesIndexed'
  <2>1. \A id \in DOMAIN order_info :
          /\ Queued(Side(id), Price(id), NodeOf(id))'
          /\ node'[NodeOf(id)].id = id
    BY <1>2, OrderFacts DEF Queued, Side, Price, NodeOf
  <2>2. ASSUME NEW side \in Sides, NEW p \in DOMAIN book[side],
               NEW m \in ToSet(book[side][p]), node'[m].id # UnknownOrderId
        PROVE  /\ node'[m].id \in DOMAIN order_info
               /\ order_info[node'[m].id] =
                    [side |-> side, price |-> p, node |-> m]
    <3>1. m \in DOMAIN node
      BY QueueFacts
    <3> QED BY <1>2, <2>2, <3>1 DEF BookInvariant, NodesIndexed
  <2>3. \A m \in DOMAIN node : \E side \in Sides, p \in Prices : Queued(side, p, m)
    BY DEF BookInvariant, NodesIndexed
  <2>4. IsFiniteSet(DOMAIN node) /\ Cardinality(DOMAIN node) <= HistoricalCapacity
    BY DEF BookInvariant, NodesIndexed
  <2> QED BY <1>2, <2>1, <2>2, <2>3, <2>4 DEF NodesIndexed, Queued, Side, Price, NodeOf
<1> QED BY <1>3, <1>4, <1>5 DEF BookInvariant

(***************************************************************************)
(* A node leaves the book: the queues hold what they held, in order, but   *)
(* for the node, and order_info forgets its id.                            *)
(***************************************************************************)
QueuesWithout(n) ==
  /\ DOMAIN book' = Sides
  /\ \A side \in Sides : IsPartial(book'[side], Prices, Seq(Nat))
  /\ \A side \in Sides : \A p \in DOMAIN book'[side] :
       /\ Increasing(book'[side][p])
       /\ p \in DOMAIN book[side]
       /\ ToSet(book'[side][p]) = ToSet(book[side][p]) \ {n}
  /\ \A side \in Sides : \A p \in DOMAIN book[side] :
       p \notin DOMAIN book'[side] => ToSet(book[side][p]) \subseteq {n}

LEMMA NodeLeaves ==
  ASSUME BookInvariant, NEW side \in Sides, NEW p \in DOMAIN book[side],
         NEW n \in ToSet(book[side][p]),
         QueuesWithout(n),
         node' = Erased(node, n),
         order_info' = Erased(order_info, node[n].id),
         UNCHANGED order_arrival_seq
  PROVE  BookInvariant'
<1> DEFINE id == node[n].id
<1>1. /\ IsPartial(node', Nat, Node)
      /\ DOMAIN node' = DOMAIN node \ {n}
      /\ \A m \in DOMAIN node : m # n => node'[m] = node[m]
  BY DEF BookInvariant, BookTypes, IsPartial, Erased, Restrict
<1>2. /\ IsPartial(order_info', Ids, OrderInfo)
      /\ DOMAIN order_info' = DOMAIN order_info \ {id}
      /\ \A x \in DOMAIN order_info : x # id => order_info'[x] = order_info[x]
  BY DEF BookInvariant, BookTypes, IsPartial, Erased, Restrict
<1>3. p \in Prices /\ n \in DOMAIN node
  BY QueueFacts
<1>4. \A s \in Sides : \A q \in Prices : \A m :
        Queued(s, q, m)' <=> Queued(s, q, m) /\ m # n
  BY DEF Queued, QueuesWithout
<1>5. BookTypes'
  BY <1>1, <1>2 DEF BookInvariant, BookTypes, QueuesWithout
<1>6. QueuesApart'
  <2> SUFFICES ASSUME NEW s \in Sides, NEW q \in DOMAIN book'[s]
               PROVE  /\ Increasing(book'[s][q])
                      /\ \A m \in ToSet(book'[s][q]) :
                           /\ m \in DOMAIN node'
                           /\ m < order_arrival_seq'
                           /\ \A s2 \in Sides : \A q2 \in Prices :
                                Queued(s2, q2, m)' => s2 = s /\ q2 = q
    BY DEF QueuesApart
  <2>1. Increasing(book'[s][q]) /\ q \in DOMAIN book[s]
    BY DEF QueuesWithout
  <2>2. ASSUME NEW m \in ToSet(book'[s][q])
        PROVE  /\ m \in DOMAIN node'
               /\ m < order_arrival_seq'
               /\ \A s2 \in Sides : \A q2 \in Prices :
                    Queued(s2, q2, m)' => s2 = s /\ q2 = q
    <3>1. m \in ToSet(book[s][q]) /\ m # n
      BY DEF QueuesWithout
    <3>2. /\ m \in DOMAIN node
          /\ m < order_arrival_seq
          /\ \A s2 \in Sides : \A q2 \in Prices :
               Queued(s2, q2, m) => s2 = s /\ q2 = q
      BY <2>1, <3>1 DEF BookInvariant, QueuesApart
    <3> QED BY <1>1, <1>4, <3>1, <3>2
  <2> QED BY <2>1, <2>2
<1>7. \A x \in DOMAIN order_info' :
        /\ Queued(Side(x), Price(x), NodeOf(x))'
        /\ node'[order_info'[x].node].id = x
  <2> SUFFICES ASSUME NEW x \in DOMAIN order_info'
               PROVE  /\ Queued(Side(x), Price(x), NodeOf(x))'
                      /\ node'[order_info'[x].node].id = x
    OBVIOUS
  <2>1. x \in DOMAIN order_info /\ x # id /\ order_info'[x] = order_info[x]
    BY <1>2
  <2>2. NodeOf(x) # n /\ NodeOf(x) \in DOMAIN node
    BY <2>1, OrderFacts
  <2>3. Queued(Side(x), Price(x), NodeOf(x)) /\ Side(x) \in Sides /\ Price(x) \in Prices
    BY <2>1, OrderFacts DEF Queued
  <2>4. node[NodeOf(x)].id = x
    BY <2>1, OrderFacts
  <2>5. Side(x)' = Side(x) /\ Price(x)' = Price(x) /\ NodeOf(x)' = NodeOf(x)
    BY <2>1 DEF Side, Price, NodeOf
  <2>6. Queued(Side(x), Price(x), NodeOf(x))'
    BY <1>4, <2>2, <2>3, <2>5 DEF Queued
  <2> QED BY <1>1, <2>2, <2>4, <2>5, <2>6 DEF NodeOf
<1>8. ASSUME NEW s \in Sides, NEW q \in DOMAIN book'[s],
             NEW m \in ToSet(book'[s][q]), node'[m].id # UnknownOrderId
      PROVE  /\ node'[m].id \in DOMAIN order_info'
             /\ order_info'[node'[m].id] = [side |-> s, price |-> q, node |-> m]
  <2>1. q \in DOMAIN book[s] /\ m \in ToSet(book[s][q]) /\ m # n
    BY DEF QueuesWithout
  <2>2. m \in DOMAIN node /\ node'[m] = node[m]
    BY <1>1, <2>1, QueueFacts
  <2>3. /\ node[m].id \in DOMAIN order_info
        /\ order_info[node[m].id] = [side |-> s, price |-> q, node |-> m]
    BY <1>8, <2>1, <2>2 DEF BookInvariant, NodesIndexed
  <2>4. node[m].id # id
    <3> SUFFICES ASSUME node[m].id = id PROVE FALSE
      OBVIOUS
    <3>1. order_info[id] = [side |-> side, price |-> p, node |-> n]
      BY <1>8, <2>2 DEF BookInvariant, NodesIndexed
    <3> QED BY <2>1, <2>3, <3>1
  <2> QED BY <1>2, <2>2, <2>3, <2>4
<1>9. ASSUME NEW m \in DOMAIN node'
      PROVE  \E s \in Sides, q \in Prices : Queued(s, q, m)'
  <2>1. m \in DOMAIN node /\ m # n
    BY <1>1
  <2>2. PICK s \in Sides, q \in Prices : Queued(s, q, m)
    BY <2>1 DEF BookInvariant, NodesIndexed
  <2> QED BY <1>4, <2>1, <2>2
<1>10. IsFiniteSet(DOMAIN node') /\ Cardinality(DOMAIN node') <= HistoricalCapacity
  <2>1. IsFiniteSet(DOMAIN node) /\ Cardinality(DOMAIN node) <= HistoricalCapacity
    BY DEF BookInvariant, NodesIndexed
  <2>2. /\ IsFiniteSet(DOMAIN node')
        /\ Cardinality(DOMAIN node') = Cardinality(DOMAIN node) - 1
        /\ Cardinality(DOMAIN node) \in Nat
    BY <1>1, <1>3, <2>1, FS_RemoveElement, FS_CardinalityType
  <2> QED BY <2>1, <2>2, CapacityAssumption
<1>11. NodesIndexed'
  BY <1>7, <1>8, <1>9, <1>10 DEF NodesIndexed, NodeOf
<1> QED BY <1>5, <1>6, <1>11 DEF BookInvariant

(***************************************************************************)
(* The two ways in which the code takes a node out of a queue.             *)
(***************************************************************************)
LEMMA UnlinkedQueue ==
  ASSUME BookInvariant, NEW side \in Sides, NEW p \in DOMAIN book[side],
         NEW n \in ToSet(book[side][p]),
         book' = [book EXCEPT ![side][p] = Unlinked(@, n)]
  PROVE  QueuesWithout(n)
<1>1. /\ Unlinked(book[side][p], n) \in Seq(Nat)
      /\ ToSet(Unlinked(book[side][p], n)) = ToSet(book[side][p]) \ {n}
      /\ Increasing(Unlinked(book[side][p], n))
  BY QueueFacts, UnlinkedProperties, UnlinkedIncreasing
<1>2. /\ DOMAIN book = Sides
      /\ \A s \in Sides : IsPartial(book[s], Prices, Seq(Nat))
  BY DEF BookInvariant, BookTypes
<1>3. /\ DOMAIN book' = Sides
      /\ \A s \in Sides : s # side => book'[s] = book[s]
      /\ book'[side] = [book[side] EXCEPT ![p] = Unlinked(book[side][p], n)]
  BY <1>2
<1>4. \A s \in Sides : \A q \in DOMAIN book[s] :
        s # side \/ q # p => n \notin ToSet(book[s][q])
  <2> SUFFICES ASSUME NEW s \in Sides, NEW q \in DOMAIN book[s],
                      n \in ToSet(book[s][q])
               PROVE  s = side /\ q = p
    OBVIOUS
  <2>1. Queued(s, q, n) /\ q \in Prices
    BY QueueFacts DEF Queued
  <2> QED BY <2>1 DEF BookInvariant, QueuesApart
<1>5. \A s \in Sides : IsPartial(book'[s], Prices, Seq(Nat))
  BY <1>1, <1>2, <1>3 DEF IsPartial
<1>6. \A s \in Sides : DOMAIN book'[s] = DOMAIN book[s]
  BY <1>3
<1>7. ASSUME NEW s \in Sides, NEW q \in DOMAIN book'[s]
      PROVE  /\ Increasing(book'[s][q])
             /\ q \in DOMAIN book[s]
             /\ ToSet(book'[s][q]) = ToSet(book[s][q]) \ {n}
  <2>1. q \in DOMAIN book[s]
    BY <1>6
  <2>2. CASE s = side /\ q = p
    BY <1>1, <1>3, <2>1, <2>2
  <2>3. CASE s # side \/ q # p
    <3>1. book'[s][q] = book[s][q]
      BY <1>3, <2>1, <2>3
    <3> QED BY <1>4, <2>1, <2>3, <3>1, QueueFacts
  <2> QED BY <2>2, <2>3
<1> QED BY <1>3, <1>5, <1>6, <1>7 DEF QueuesWithout

LEMMA ErasedQueue ==
  ASSUME BookInvariant, NEW side \in Sides, NEW p \in DOMAIN book[side],
         NEW n \in ToSet(book[side][p]), Len(book[side][p]) = 1,
         book' = [book EXCEPT ![side] = Erased(@, p)]
  PROVE  QueuesWithout(n)
<1>1. /\ DOMAIN book = Sides
      /\ \A s \in Sides : IsPartial(book[s], Prices, Seq(Nat))
  BY DEF BookInvariant, BookTypes
<1>2. /\ DOMAIN book' = Sides
      /\ \A s \in Sides : s # side => book'[s] = book[s]
      /\ book'[side] = Erased(book[side], p)
  BY <1>1
<1>3. \A s \in Sides : \A q \in DOMAIN book[s] :
        s # side \/ q # p => n \notin ToSet(book[s][q])
  <2> SUFFICES ASSUME NEW s \in Sides, NEW q \in DOMAIN book[s],
                      n \in ToSet(book[s][q])
               PROVE  s = side /\ q = p
    OBVIOUS
  <2>1. Queued(s, q, n) /\ q \in Prices
    BY QueueFacts DEF Queued
  <2> QED BY <2>1 DEF BookInvariant, QueuesApart
<1>4. ToSet(book[side][p]) = {n}
  <2>1. DOMAIN book[side][p] = 1 .. 1
    BY QueueFacts, LenProperties
  <2> QED BY <2>1 DEF ToSet
<1>5. /\ IsPartial(book'[side], Prices, Seq(Nat))
      /\ DOMAIN book'[side] = DOMAIN book[side] \ {p}
      /\ \A q \in DOMAIN book[side] : q # p => book'[side][q] = book[side][q]
  BY <1>1, <1>2 DEF IsPartial, Erased, Restrict
<1>6. \A s \in Sides : IsPartial(book'[s], Prices, Seq(Nat))
  BY <1>1, <1>2, <1>5
<1>7. ASSUME NEW s \in Sides, NEW q \in DOMAIN book'[s]
      PROVE  /\ Increasing(book'[s][q])
             /\ q \in DOMAIN book[s]
             /\ ToSet(book'[s][q]) = ToSet(book[s][q]) \ {n}
  <2>1. q \in DOMAIN book[s] /\ (s # side \/ q # p) /\ book'[s][q] = book[s][q]
    BY <1>2, <1>5
  <2> QED BY <1>3, <2>1, QueueFacts
<1>8. ASSUME NEW s \in Sides, NEW q \in DOMAIN book[s], q \notin DOMAIN book'[s]
      PROVE  ToSet(book[s][q]) \subseteq {n}
  <2>1. s = side /\ q = p
    BY <1>2, <1>5, <1>8
  <2> QED BY <1>4, <2>1
<1> QED BY <1>2, <1>6, <1>7, <1>8 DEF QueuesWithout

(***************************************************************************)
(* Levels without nodes come and go.                                       *)
(***************************************************************************)
LEMMA SameQueues ==
  ASSUME BookInvariant,
         DOMAIN book' = Sides,
         \A side \in Sides : IsPartial(book'[side], Prices, Seq(Nat)),
         \A side \in Sides : \A p \in DOMAIN book'[side] :
           \/ book'[side][p] = <<>>
           \/ p \in DOMAIN book[side] /\ book'[side][p] = book[side][p],
         \A side \in Sides : \A p \in DOMAIN book[side] :
           \/ book[side][p] = <<>>
           \/ p \in DOMAIN book'[side] /\ book'[side][p] = book[side][p],
         UNCHANGED <<node, order_info, order_arrival_seq>>
  PROVE  BookInvariant'
<1>1. ToSet(<<>>) = {} /\ Increasing(<<>>)
  BY DEF ToSet, Increasing
<1>2. \A s \in Sides : \A q \in Prices : \A m :
        Queued(s, q, m)' <=> Queued(s, q, m)
  BY <1>1 DEF Queued
<1>3. BookTypes'
  BY DEF BookInvariant, BookTypes
<1>4. \A s \in Sides : \A q \in DOMAIN book'[s] :
        /\ Increasing(book'[s][q])
        /\ \A m \in ToSet(book'[s][q]) :
             q \in DOMAIN book[s] /\ m \in ToSet(book[s][q])
  BY <1>1, QueueFacts
<1>5. QueuesApart'
  <2> SUFFICES ASSUME NEW s \in Sides, NEW q \in DOMAIN book'[s],
                      NEW m \in ToSet(book'[s][q])
               PROVE  /\ m \in DOMAIN node'
                      /\ m < order_arrival_seq'
                      /\ \A s2 \in Sides : \A q2 \in Prices :
                           Queued(s2, q2, m)' => s2 = s /\ q2 = q
    BY <1>4 DEF QueuesApart
  <2>1. q \in DOMAIN book[s] /\ m \in ToSet(book[s][q])
    BY <1>4
  <2>2. /\ m \in DOMAIN node
        /\ m < order_arrival_seq
        /\ \A s2 \in Sides : \A q2 \in Prices :
             Queued(s2, q2, m) => s2 = s /\ q2 = q
    BY <2>1 DEF BookInvariant, QueuesApart
  <2> QED BY <1>2, <2>2
<1>6. NodesIndexed'
  <2>1. ASSUME NEW id \in DOMAIN order_info
        PROVE  Queued(Side(id), Price(id), NodeOf(id))'
    <3>1. PICK s, q, m :
            /\ s \in Sides /\ q \in Prices
            /\ s = Side(id) /\ q = Price(id) /\ m = NodeOf(id)
      BY OrderFacts
    <3> s \in Sides /\ q \in Prices
      BY <3>1
    <3>2. Queued(s, q, m)
      BY <3>1, OrderFacts DEF Queued
    <3>3. Queued(s, q, m)'
      BY <1>2, <3>2
    <3> QED BY <3>1, <3>3 DEF Queued, Side, Price, NodeOf
  <2>2. \A id \in DOMAIN order_info : node[NodeOf(id)].id = id
    BY OrderFacts
  <2>3. \A side \in Sides : \A p \in DOMAIN book'[side] :
          \A n \in ToSet(book'[side][p]) :
            p \in DOMAIN book[side] /\ n \in ToSet(book[side][p])
    BY <1>4
  <2> QED BY <1>2, <1>4, <2>1, <2>2, <2>3
          DEF BookInvariant, NodesIndexed, Side, Price, NodeOf
<1> QED BY <1>3, <1>5, <1>6 DEF BookInvariant

(***************************************************************************)
(* A node enters the book: it is younger than every node, and order_info   *)
(* learns its id, if it has one.                                           *)
(***************************************************************************)
LEMMA NodeEnters ==
  ASSUME BookInvariant, ~PoolExhausted,
         NEW side \in Sides, NEW p \in Prices, NEW qty \in Nat,
         NEW id \in Ids \cup {UnknownOrderId},
         AppendNode(side, p, id, qty),
         \/ id = UnknownOrderId /\ UNCHANGED order_info
         \/ /\ id \in Ids \ DOMAIN order_info
            /\ order_info' = Put(order_info, id,
                 [side |-> side, price |-> p, node |-> order_arrival_seq])
  PROVE  BookInvariant'
<1> DEFINE n     == order_arrival_seq
           queue == IF p \in DOMAIN book[side] THEN book[side][p] ELSE <<>>
<1>1. /\ n \in Nat
      /\ DOMAIN book = Sides
      /\ \A s \in Sides : IsPartial(book[s], Prices, Seq(Nat))
      /\ IsPartial(node, Nat, Node)
      /\ IsPartial(order_info, Ids, OrderInfo)
  BY DEF BookInvariant, BookTypes
<1>2. /\ queue \in Seq(Nat)
      /\ Increasing(queue)
      /\ \A m \in ToSet(queue) : m < n
      /\ \A m : m \in ToSet(queue) <=> Queued(side, p, m)
  BY <1>1, QueueFacts, EmptySeq
     DEF BookInvariant, QueuesApart, ToSet, Increasing, Queued
<1>3. n \notin DOMAIN node
  <2> SUFFICES ASSUME n \in DOMAIN node PROVE FALSE
    OBVIOUS
  <2>1. PICK s \in Sides, q \in Prices : Queued(s, q, n)
    BY DEF BookInvariant, NodesIndexed
  <2>2. n < n
    BY <2>1 DEF BookInvariant, QueuesApart, Queued
  <2> QED BY <1>1, <2>2
<1>4. /\ Append(queue, n) \in Seq(Nat)
      /\ ToSet(Append(queue, n)) = ToSet(queue) \cup {n}
      /\ Increasing(Append(queue, n))
  <2> HIDE DEF queue
  <2>1. /\ Append(queue, n) \in Seq(Nat)
        /\ ToSet(Append(queue, n)) = ToSet(queue) \cup {n}
    BY <1>1, <1>2, PushedBackProperties
  <2>2. Increasing(Append(queue, n))
    BY <1>1, <1>2, AppendIncreasing
  <2> QED BY <2>1, <2>2
<1>5. /\ book' = [book EXCEPT ![side] = Put(@, p, Append(queue, n))]
      /\ node' = Put(node, n, [id |-> id, qty |-> qty])
      /\ order_arrival_seq' = n + 1
  BY DEF AppendNode, PushedBack
<1> HIDE DEF queue
<1>6. /\ DOMAIN book' = Sides
      /\ \A s \in Sides : s # side => book'[s] = book[s]
      /\ book'[side] = Put(book[side], p, Append(queue, n))
  BY <1>1, <1>5
<1>7. /\ IsPartial(book'[side], Prices, Seq(Nat))
      /\ DOMAIN book'[side] = DOMAIN book[side] \cup {p}
      /\ book'[side][p] = Append(queue, n)
      /\ \A q \in DOMAIN book[side] : q # p => book'[side][q] = book[side][q]
  BY <1>1, <1>4, <1>6 DEF IsPartial, Put
<1>8. [id |-> id, qty |-> qty] \in Node
  BY DEF Node
<1>9. /\ IsPartial(node', Nat, Node)
      /\ DOMAIN node' = DOMAIN node \cup {n}
      /\ node'[n] = [id |-> id, qty |-> qty]
      /\ \A m \in DOMAIN node : node'[m] = node[m]
  BY <1>1, <1>3, <1>5, <1>8 DEF IsPartial, Put
<1>10. [side |-> side, price |-> p, node |-> n] \in OrderInfo
  BY <1>1 DEF OrderInfo
<1>11. /\ IsPartial(order_info', Ids, OrderInfo)
       /\ \A x \in DOMAIN order_info :
            x \in DOMAIN order_info' /\ order_info'[x] = order_info[x]
       /\ \A x \in DOMAIN order_info' : x \in DOMAIN order_info \/ x = id
       /\ id # UnknownOrderId =>
            /\ id \in DOMAIN order_info'
            /\ order_info'[id] = [side |-> side, price |-> p, node |-> n]
       /\ id \in DOMAIN order_info' /\ id \notin DOMAIN order_info =>
            order_info'[id] = [side |-> side, price |-> p, node |-> n]
  <2>1. CASE id = UnknownOrderId /\ UNCHANGED order_info
    <3>1. id \notin DOMAIN order_info
      BY <1>1, <2>1, IdsAssumption DEF IsPartial
    <3> QED BY <1>1, <2>1, <3>1
  <2>2. CASE /\ id \in Ids \ DOMAIN order_info
             /\ order_info' = Put(order_info, id,
                  [side |-> side, price |-> p, node |-> order_arrival_seq])
    <3> DEFINE info == [side |-> side, price |-> p, node |-> n]
    <3>1. info \in OrderInfo /\ order_info' = Put(order_info, id, info)
      BY <1>10, <2>2
    <3> HIDE DEF info
    <3>2. /\ IsPartial(order_info', Ids, OrderInfo)
          /\ DOMAIN order_info' = DOMAIN order_info \cup {id}
          /\ order_info'[id] = info
          /\ \A x \in DOMAIN order_info : order_info'[x] = order_info[x]
      BY <1>1, <2>2, <3>1 DEF IsPartial, Put
    <3> QED BY <2>2, <3>2 DEF info
  <2> QED BY <2>1, <2>2
<1>12. \A s \in Sides : \A q \in Prices : \A m :
         Queued(s, q, m)' <=>
           Queued(s, q, m) \/ (s = side /\ q = p /\ m = n)
  <2> SUFFICES ASSUME NEW s \in Sides, NEW q \in Prices, NEW m
               PROVE  Queued(s, q, m)' <=>
                        Queued(s, q, m) \/ (s = side /\ q = p /\ m = n)
    OBVIOUS
  <2>1. CASE s # side
    BY <1>6, <2>1 DEF Queued
  <2>2. CASE s = side /\ q # p
    BY <1>7, <2>2 DEF Queued
  <2>3. CASE s = side /\ q = p
    <3>1. Queued(s, q, m)' <=> m \in ToSet(queue) \cup {n}
      BY <1>4, <1>7, <2>3 DEF Queued
    <3> QED BY <1>2, <2>3, <3>1
  <2> QED BY <2>1, <2>2, <2>3
<1>13. BookTypes'
  <2>1. \A s \in Sides : IsPartial(book'[s], Prices, Seq(Nat))
    BY <1>1, <1>6, <1>7
  <2>2. order_arrival_seq' \in Nat
    BY <1>1, <1>5
  <2> QED BY <1>6, <1>9, <1>11, <2>1, <2>2 DEF BookTypes
<1>14. QueuesApart'
  <2> SUFFICES ASSUME NEW s \in Sides, NEW q \in DOMAIN book'[s]
               PROVE  /\ Increasing(book'[s][q])
                      /\ \A m \in ToSet(book'[s][q]) :
                           /\ m \in DOMAIN node'
                           /\ m < order_arrival_seq'
                           /\ \A s2 \in Sides : \A q2 \in Prices :
                                Queued(s2, q2, m)' => s2 = s /\ q2 = q
    BY DEF QueuesApart
  <2>1. Increasing(book'[s][q])
    BY <1>4, <1>6, <1>7, QueueFacts
  <2>2. q \in Prices
    BY <1>13 DEF BookTypes, IsPartial
  <2>3. ASSUME NEW m \in ToSet(book'[s][q])
        PROVE  /\ m \in DOMAIN node'
               /\ m < order_arrival_seq'
               /\ \A s2 \in Sides : \A q2 \in Prices :
                    Queued(s2, q2, m)' => s2 = s /\ q2 = q
    <3>1. Queued(s, q, m)'
      BY DEF Queued
    <3>2. \A s2 \in Sides : \A q2 \in Prices :
            Queued(s2, q2, m) => m \in DOMAIN node /\ m < n /\ m \in Nat
      BY QueueFacts DEF BookInvariant, QueuesApart, Queued
    <3>3. CASE m = n
      BY <1>1, <1>3, <1>5, <1>9, <1>12, <2>2, <3>1, <3>2, <3>3
    <3>4. CASE m # n
      <4>1. Queued(s, q, m)
        BY <1>12, <2>2, <3>1, <3>4
      <4>2. \A s2 \in Sides : \A q2 \in Prices :
              Queued(s2, q2, m) => s2 = s /\ q2 = q
        BY <4>1 DEF BookInvariant, QueuesApart, Queued
      <4> QED BY <1>1, <1>5, <1>9, <1>12, <2>2, <3>2, <3>4, <4>1, <4>2
    <3> QED BY <3>3, <3>4
  <2> QED BY <2>1, <2>3
<1>15. ASSUME NEW x \in DOMAIN order_info'
       PROVE  /\ Queued(Side(x), Price(x), NodeOf(x))'
              /\ node'[order_info'[x].node].id = x
  <2>1. CASE x \in DOMAIN order_info
    <3>1. /\ Queued(Side(x), Price(x), NodeOf(x))
          /\ Side(x) \in Sides /\ Price(x) \in Prices
          /\ NodeOf(x) \in DOMAIN node
          /\ node[NodeOf(x)].id = x
      BY <2>1, OrderFacts DEF Queued
    <3>2. Side(x)' = Side(x) /\ Price(x)' = Price(x) /\ NodeOf(x)' = NodeOf(x)
      BY <1>11, <2>1 DEF Side, Price, NodeOf
    <3>3. Queued(Side(x), Price(x), NodeOf(x))'
      BY <1>12, <3>1, <3>2 DEF Queued
    <3> QED BY <1>9, <3>1, <3>2, <3>3 DEF NodeOf
  <2>2. CASE x \notin DOMAIN order_info
    <3>1. x = id /\ order_info'[x] = [side |-> side, price |-> p, node |-> n]
      BY <1>11, <2>2
    <3>2. Side(x)' = side /\ Price(x)' = p /\ NodeOf(x)' = n
      BY <3>1 DEF Side, Price, NodeOf
    <3>3. Queued(Side(x), Price(x), NodeOf(x))'
      BY <1>12, <3>2 DEF Queued
    <3> QED BY <1>9, <3>1, <3>3
  <2> QED BY <2>1, <2>2
<1>16. ASSUME NEW s \in Sides, NEW q \in DOMAIN book'[s],
              NEW m \in ToSet(book'[s][q]), node'[m].id # UnknownOrderId
       PROVE  /\ node'[m].id \in DOMAIN order_info'
              /\ order_info'[node'[m].id] = [side |-> s, price |-> q, node |-> m]
  <2>1. Queued(s, q, m)' /\ q \in Prices
    BY <1>13 DEF Queued, BookTypes, IsPartial
  <2>2. CASE Queued(s, q, m)
    <3>1. /\ q \in DOMAIN book[s]
          /\ m \in ToSet(book[s][q])
          /\ node'[m] = node[m]
      BY <1>9, <2>2, QueueFacts DEF Queued
    <3>2. /\ node[m].id \in DOMAIN order_info
          /\ order_info[node[m].id] = [side |-> s, price |-> q, node |-> m]
      BY <1>16, <3>1 DEF BookInvariant, NodesIndexed
    <3> QED BY <1>11, <3>1, <3>2
  <2>3. CASE s = side /\ q = p /\ m = n
    BY <1>9, <1>11, <1>16, <2>3
  <2> QED BY <1>12, <2>1, <2>2, <2>3
<1>17. \A m \in DOMAIN node' : \E s \in Sides, q \in Prices : Queued(s, q, m)'
  BY <1>9, <1>12 DEF BookInvariant, NodesIndexed
<1>18. IsFiniteSet(DOMAIN node') /\ Cardinality(DOMAIN node') <= HistoricalCapacity
  <2>1. IsFiniteSet(DOMAIN node)
    BY DEF BookInvariant, NodesIndexed
  <2>2. /\ IsFiniteSet(DOMAIN node')
        /\ Cardinality(DOMAIN node') = Cardinality(DOMAIN node) + 1
        /\ Cardinality(DOMAIN node) \in Nat
    BY <1>3, <1>9, <2>1, FS_AddElement, FS_CardinalityType
  <2> QED BY <2>2, CapacityAssumption DEF PoolExhausted
<1>19. NodesIndexed'
  BY <1>15, <1>16, <1>17, <1>18 DEF NodesIndexed, NodeOf
<1> QED BY <1>13, <1>14, <1>19 DEF BookInvariant
(***************************************************************************)
(* A historical order gets a new quantity or leaves.                       *)
(***************************************************************************)
LEMMA Requantified ==
  ASSUME BookInvariant, NEW id \in DOMAIN order_info, NEW qty \in Int,
         Requantify(id, qty), UNCHANGED order_arrival_seq
  PROVE  /\ BookInvariant'
         /\ DOMAIN order_info' \subseteq DOMAIN order_info
<1>1. /\ Side(id) \in Sides
      /\ Price(id) \in DOMAIN book[Side(id)]
      /\ NodeOf(id) \in ToSet(book[Side(id)][Price(id)])
      /\ NodeOf(id) \in DOMAIN node
      /\ node[NodeOf(id)].id = id
  BY OrderFacts
<1>2. CASE qty > 0
  <2>1. /\ node' = [node EXCEPT ![NodeOf(id)].qty = qty]
        /\ UNCHANGED <<book, order_info>>
    BY <1>2 DEF Requantify
  <2>2. qty \in Nat
    BY <1>2
  <2> QED BY <1>1, <2>1, <2>2, RestockNode
<1>3. CASE ~(qty > 0)
  <2>1. /\ book' = [book EXCEPT ![Side(id)] =
                      IF Len(book[Side(id)][Price(id)]) = 1
                        THEN Erased(@, Price(id))
                        ELSE [@ EXCEPT ![Price(id)] =
                                Unlinked(book[Side(id)][Price(id)], NodeOf(id))]]
        /\ node' = Erased(node, NodeOf(id))
        /\ order_info' = Erased(order_info, id)
    BY <1>3 DEF Requantify
  <2>2. QueuesWithout(NodeOf(id))
    <3>1. CASE Len(book[Side(id)][Price(id)]) = 1
      <4>1. book' = [book EXCEPT ![Side(id)] = Erased(@, Price(id))]
        BY <2>1, <3>1
      <4> QED BY <1>1, <3>1, <4>1, ErasedQueue
    <3>2. CASE Len(book[Side(id)][Price(id)]) # 1
      <4>1. book' = [book EXCEPT ![Side(id)][Price(id)] = Unlinked(@, NodeOf(id))]
        BY <2>1, <3>2
      <4> QED BY <1>1, <4>1, UnlinkedQueue
    <3> QED BY <3>1, <3>2
  <2>3. BookInvariant'
    BY <1>1, <2>1, <2>2, NodeLeaves
  <2>4. DOMAIN order_info' \subseteq DOMAIN order_info
    BY <2>1 DEF Erased, Restrict
  <2> QED BY <2>3, <2>4
<1> QED BY <1>2, <1>3
-----------------------------------------------------------------------------
(***************************************************************************)
(* What a handler finds in a paper level.                                  *)
(***************************************************************************)
LEMMA LevelFacts ==
  ASSUME PaperInvariant, NEW side \in Sides, NEW p \in DOMAIN paper[side]
  PROVE  /\ p \in Prices
         /\ paper[side][p] \in PaperOrderLevel
         /\ paper[side][p].orders \in Seq(Ids)
         /\ paper[side][p].queued_lots \in Int
         /\ paper[side][p].market_seqs \in Seq(Nat)
         /\ paper[side][p].market_qty \in Seq(Int)
         /\ paper[side][p].paper_qty \in Seq(Int)
         /\ Len(paper[side][p].market_qty) = Len(paper[side][p].market_seqs)
         /\ ToSet(paper[side][p].orders) = RestingAt(side, p)
         /\ IsInjective(paper[side][p].orders)
         /\ paper[side][p].orders # <<>> =>
              /\ Head(paper[side][p].orders) \in DOMAIN paper_orders
              /\ paper_order_info[Head(paper[side][p].orders)] =
                   [side |-> side, price |-> p]
<1>1. p \in Prices /\ paper[side][p] \in PaperOrderLevel
  BY DEF PaperInvariant, PaperTypes, IsPartial
<1>2. /\ paper[side][p].orders \in Seq(Ids)
      /\ paper[side][p].queued_lots \in Int
      /\ paper[side][p].market_seqs \in Seq(Nat)
      /\ paper[side][p].market_qty \in Seq(Int)
      /\ paper[side][p].paper_qty \in Seq(Int)
  BY <1>1 DEF PaperOrderLevel
<1>3. /\ Len(paper[side][p].market_qty) = Len(paper[side][p].market_seqs)
      /\ ToSet(paper[side][p].orders) = RestingAt(side, p)
      /\ IsInjective(paper[side][p].orders)
  BY DEF PaperInvariant, OrdersIndexed
<1>4. ASSUME paper[side][p].orders # <<>>
      PROVE  Head(paper[side][p].orders) \in ToSet(paper[side][p].orders)
  <2> DEFINE q == paper[side][p].orders
  <2>1. Len(q) \in Nat /\ DOMAIN q = 1 .. Len(q) /\ Len(q) # 0
    BY <1>2, <1>4, LenProperties, EmptySeq
  <2>2. Head(q) = q[1]
    BY <1>2, <1>4
  <2> QED BY <2>1, <2>2 DEF ToSet
<1> QED BY <1>1, <1>2, <1>3, <1>4 DEF RestingAt

LEMMA PaperOrderFacts ==
  ASSUME PaperInvariant, NEW id \in DOMAIN paper_orders
  PROVE  /\ id \in Ids
         /\ paper_orders[id] \in PaperOrder
         /\ paper_orders[id].remaining \in Nat
         /\ paper_orders[id].remaining > 0
         /\ paper_orders[id].status \in PaperOrderStatus
         /\ paper_orders[id].placement_seq \in Nat
         /\ paper_orders[id].paper_index \in Nat
         /\ id \in DOMAIN paper_order_info
         /\ paper_order_info[id].side \in Sides
         /\ paper_order_info[id].price \in DOMAIN paper[paper_order_info[id].side]
         /\ paper_order_info[id] = [side  |-> paper_order_info[id].side,
                                    price |-> paper_order_info[id].price]
         /\ id \in ToSet(paper[paper_order_info[id].side]
                               [paper_order_info[id].price].orders)
<1>1. id \in Ids /\ paper_orders[id] \in PaperOrder
  BY DEF PaperInvariant, PaperTypes, IsPartial
<1>2. id \in DOMAIN paper_order_info /\ paper_order_info[id] \in PaperOrderInfo
  BY DEF PaperInvariant, PaperTypes, OrdersIndexed, IsPartial
<1>3. /\ paper_orders[id].remaining > 0
      /\ paper_order_info[id].price \in DOMAIN paper[paper_order_info[id].side]
  BY DEF PaperInvariant, OrdersIndexed, HasPaperLevel
<1>4. /\ paper_order_info[id].side \in Sides
      /\ paper_order_info[id] = [side  |-> paper_order_info[id].side,
                                 price |-> paper_order_info[id].price]
  BY <1>2 DEF PaperOrderInfo
<1>5. id \in ToSet(paper[paper_order_info[id].side]
                        [paper_order_info[id].price].orders)
  BY <1>3, <1>4, LevelFacts DEF RestingAt
<1> QED BY <1>1, <1>2, <1>3, <1>4, <1>5 DEF PaperOrder

(***************************************************************************)
(* A level learns something of the market; its orders stay.                *)
(***************************************************************************)
SameOrders ==
  \A side \in Sides :
    /\ DOMAIN paper'[side] = DOMAIN paper[side]
    /\ \A p \in DOMAIN paper[side] :
         paper'[side][p].orders = paper[side][p].orders

LEMMA MarketLearnt ==
  ASSUME PaperInvariant, NEW side \in Sides, NEW p \in DOMAIN paper[side],
         NEW level \in PaperOrderLevel,
         level.orders = paper[side][p].orders,
         level.paper_qty \in Seq(Int),
         Len(level.paper_qty) = Len(paper[side][p].paper_qty),
         Len(level.market_qty) = Len(level.market_seqs),
         paper' = [paper EXCEPT ![side][p] = level],
         UNCHANGED <<paper_orders, paper_order_info>>
  PROVE  PaperInvariant' /\ SameOrders
<1>1. /\ DOMAIN paper = Sides
      /\ \A s \in Sides : IsPartial(paper[s], Prices, PaperOrderLevel)
  BY DEF PaperInvariant, PaperTypes
<1>2. /\ DOMAIN paper' = Sides
      /\ \A s \in Sides : s # side => paper'[s] = paper[s]
      /\ paper'[side] = [paper[side] EXCEPT ![p] = level]
  BY <1>1
<1>3. /\ \A s \in Sides : DOMAIN paper'[s] = DOMAIN paper[s]
      /\ paper'[side][p] = level
      /\ \A s \in Sides : \A q \in DOMAIN paper[s] :
           s # side \/ q # p => paper'[s][q] = paper[s][q]
  BY <1>1, <1>2
<1>4. \A s \in Sides : IsPartial(paper'[s], Prices, PaperOrderLevel)
  BY <1>1, <1>2 DEF IsPartial
<1>5. \A s \in Sides : \A q \in DOMAIN paper[s] :
        /\ paper'[s][q].orders = paper[s][q].orders
        /\ Len(paper'[s][q].paper_qty) = Len(paper[s][q].paper_qty)
        /\ Len(paper'[s][q].market_qty) = Len(paper'[s][q].market_seqs)
  BY <1>3 DEF PaperInvariant, OrdersIndexed
<1>6. PaperTypes'
  BY <1>2, <1>4 DEF PaperInvariant, PaperTypes
<1>7. OrdersIndexed'
  <2>1. ASSUME NEW id \in DOMAIN paper_orders
        PROVE  /\ paper_orders[id].remaining > 0
               /\ paper_order_info[id].side \in Sides
               /\ paper_order_info[id].price \in
                    DOMAIN paper[paper_order_info[id].side]
               /\ paper_orders[id].paper_index <
                    Len(paper[paper_order_info[id].side]
                             [paper_order_info[id].price].paper_qty)
    BY PaperOrderFacts DEF PaperInvariant, OrdersIndexed
  <2>2. \A s \in Sides : \A q \in DOMAIN paper[s] :
          /\ ToSet(paper'[s][q].orders) = RestingAt(s, q)'
          /\ IsInjective(paper'[s][q].orders)
    BY <1>5 DEF PaperInvariant, OrdersIndexed, RestingAt
  <2>3. DOMAIN paper_orders' = DOMAIN paper_order_info'
    BY DEF PaperInvariant, OrdersIndexed
  <2> QED BY <1>3, <1>5, <2>1, <2>2, <2>3 DEF OrdersIndexed, HasPaperLevel
<1> QED BY <1>3, <1>5, <1>6, <1>7 DEF PaperInvariant, SameOrders

LEMMA NodeJoinsLevel ==
  ASSUME PaperInvariant, NEW side \in Sides, NEW p \in DOMAIN paper[side],
         NEW seq \in Nat, NEW qty \in Int,
         paper' = [paper EXCEPT ![side][p] = WithMarket(@, seq, qty)],
         UNCHANGED <<paper_orders, paper_order_info>>
  PROVE  PaperInvariant' /\ SameOrders
<1> DEFINE old == paper[side][p]
           new == WithMarket(old, seq, qty)
<1>1. /\ old \in PaperOrderLevel
      /\ old.market_seqs \in Seq(Nat)
      /\ old.market_qty \in Seq(Int)
      /\ old.paper_qty \in Seq(Int)
      /\ Len(old.market_qty) = Len(old.market_seqs)
  BY LevelFacts
<1>2. /\ Append(old.market_seqs, seq) \in Seq(Nat)
      /\ Len(Append(old.market_seqs, seq)) = Len(old.market_seqs) + 1
      /\ Push(old.market_qty, qty) \in Seq(Int)
      /\ Len(Push(old.market_qty, qty)) = Len(old.market_qty) + 1
  BY <1>1, PushedBackProperties, PushProperties
<1> HIDE DEF old
<1>3. /\ new \in PaperOrderLevel
      /\ new.orders = old.orders
      /\ new.paper_qty = old.paper_qty
      /\ new.market_seqs = Append(old.market_seqs, seq)
      /\ new.market_qty = Push(old.market_qty, qty)
  BY <1>1, <1>2 DEF WithMarket, PaperOrderLevel
<1>4. Len(new.market_qty) = Len(new.market_seqs)
  BY <1>1, <1>2, <1>3
<1>5. paper' = [paper EXCEPT ![side][p] = new]
  BY DEF old
<1> HIDE DEF new
<1> QED BY <1>1, <1>3, <1>4, <1>5, MarketLearnt DEF old

LEMMA LevelAdjusted ==
  ASSUME PaperInvariant, NEW side \in Sides, NEW p, NEW seq, NEW delta \in Int,
         paper' = PaperMarketAdjusted(side, p, seq, delta),
         UNCHANGED <<paper_orders, paper_order_info>>
  PROVE  PaperInvariant' /\ SameOrders
<1>1. CASE p \notin DOMAIN paper[side]
  <2>1. paper' = paper
    BY <1>1 DEF PaperMarketAdjusted, HasPaperLevel
  <2>2. PaperInvariant'
    BY <2>1 DEF PaperInvariant, PaperTypes, OrdersIndexed, HasPaperLevel, RestingAt
  <2> QED BY <2>1, <2>2 DEF SameOrders
<1>2. CASE p \in DOMAIN paper[side]
  <2> DEFINE old == paper[side][p]
             new == MarketAdjusted(old, seq, delta)
  <2>1. /\ old \in PaperOrderLevel
        /\ old.market_qty \in Seq(Int)
        /\ old.paper_qty \in Seq(Int)
        /\ Len(old.market_qty) = Len(old.market_seqs)
    BY <1>2, LevelFacts
  <2>2. paper' = [paper EXCEPT ![side][p] = new]
    BY <1>2 DEF PaperMarketAdjusted, HasPaperLevel
  <2> HIDE DEF old
  <2>3. \A index : /\ AddAt(old.market_qty, index, delta) \in Seq(Int)
                   /\ Len(AddAt(old.market_qty, index, delta)) =
                        Len(old.market_qty)
    BY <2>1, AddAtProperties
  <2>4. /\ new \in PaperOrderLevel
        /\ new.orders = old.orders
        /\ new.paper_qty = old.paper_qty
        /\ Len(new.market_qty) = Len(new.market_seqs)
    BY <2>1, <2>3 DEF MarketAdjusted, PaperOrderLevel
  <2> HIDE DEF new
  <2> QED BY <1>2, <2>1, <2>2, <2>4, MarketLearnt DEF old
<1> QED BY <1>1, <1>2
(***************************************************************************)
(* Lots leave a paper order, or join it.                                   *)
(***************************************************************************)
LEMMA LotsTaken ==
  ASSUME PaperInvariant, NEW id \in DOMAIN paper_orders,
         NEW qty \in Int, qty <= paper_orders[id].remaining, NEW told \in Int,
         NEW status, qty # paper_orders[id].remaining => status \in PaperOrderStatus,
         LeavePaperOrder(id, qty, told, status)
  PROVE  /\ PaperInvariant'
         /\ \A side \in Sides : \A p \in DOMAIN paper'[side] :
              paper'[side][p].orders = <<>> =>
                p \in DOMAIN paper[side] /\ paper[side][p].orders = <<>>
         /\ \/ /\ DOMAIN paper_orders' = DOMAIN paper_orders \ {id}
               /\ paper_pool' = paper_pool \ {id}
            \/ /\ DOMAIN paper_orders' = DOMAIN paper_orders
               /\ paper_pool' = paper_pool
<1> DEFINE side  == paper_order_info[id].side
           p     == paper_order_info[id].price
           old   == paper[side][p]
           gone  == qty = paper_orders[id].remaining
           level == [old EXCEPT
                       !.orders = IF gone THEN Unlinked(@, id) ELSE @,
                       !.queued_lots = @ - told,
                       !.paper_qty = AddAt(@, paper_orders[id].paper_index, -told)]
<1>1. /\ paper' = [paper EXCEPT ![side] =
                     IF level.orders = <<>> THEN Erased(@, p)
                                            ELSE [@ EXCEPT ![p] = level]]
      /\ gone =>
           /\ paper_orders' = Erased(paper_orders, id)
           /\ paper_order_info' = Erased(paper_order_info, id)
           /\ paper_pool' = paper_pool \ {id}
      /\ ~gone =>
           /\ paper_orders' = [paper_orders EXCEPT ![id].remaining = @ - qty,
                                                  ![id].status = status]
           /\ paper_order_info' = paper_order_info
           /\ paper_pool' = paper_pool
  BY DEF LeavePaperOrder
<1>2. /\ id \in Ids
      /\ paper_orders[id] \in PaperOrder
      /\ paper_orders[id].remaining \in Nat
      /\ id \in DOMAIN paper_order_info
      /\ side \in Sides
      /\ p \in DOMAIN paper[side]
      /\ paper_order_info[id] = [side |-> side, price |-> p]
      /\ id \in ToSet(old.orders)
  BY PaperOrderFacts
<1>3. /\ old \in PaperOrderLevel
      /\ old.orders \in Seq(Ids)
      /\ old.queued_lots \in Int
      /\ old.paper_qty \in Seq(Int)
      /\ Len(old.market_qty) = Len(old.market_seqs)
      /\ ToSet(old.orders) = RestingAt(side, p)
      /\ IsInjective(old.orders)
  BY <1>2, LevelFacts
<1>4. /\ DOMAIN paper = Sides
      /\ \A s \in Sides : IsPartial(paper[s], Prices, PaperOrderLevel)
      /\ IsPartial(paper_orders, Ids, PaperOrder)
      /\ IsPartial(paper_order_info, Ids, PaperOrderInfo)
  BY DEF PaperInvariant, PaperTypes
<1> HIDE DEF old
<1>5. /\ level \in PaperOrderLevel
      /\ level.orders = IF gone THEN Unlinked(old.orders, id) ELSE old.orders
      /\ level.market_qty = old.market_qty
      /\ level.market_seqs = old.market_seqs
      /\ Len(level.paper_qty) = Len(old.paper_qty)
  <2>1. Unlinked(old.orders, id) \in Seq(Ids)
    BY <1>2, <1>3, UnlinkedProperties
  <2>2. /\ AddAt(old.paper_qty, paper_orders[id].paper_index, -told) \in Seq(Int)
        /\ Len(AddAt(old.paper_qty, paper_orders[id].paper_index, -told)) =
             Len(old.paper_qty)
    BY <1>3, AddAtProperties
  <2>3. old.queued_lots - told \in Int
    BY <1>3
  <2> QED BY <1>3, <2>1, <2>2, <2>3 DEF PaperOrderLevel
<1>6. /\ ToSet(level.orders) = IF gone THEN ToSet(old.orders) \ {id}
                                      ELSE ToSet(old.orders)
      /\ IsInjective(level.orders)
  <2>1. /\ ToSet(Unlinked(old.orders, id)) = ToSet(old.orders) \ {id}
        /\ IsInjective(Unlinked(old.orders, id))
    BY <1>2, <1>3, UnlinkedProperties
  <2> HIDE DEF level, gone
  <2> QED BY <1>3, <1>5, <2>1
<1> DEFINE emptied == level.orders = <<>>
<1>7. /\ DOMAIN paper' = Sides
      /\ \A s \in Sides : s # side => paper'[s] = paper[s]
      /\ emptied => paper'[side] = Erased(paper[side], p)
      /\ ~emptied => paper'[side] = [paper[side] EXCEPT ![p] = level]
  BY <1>1, <1>2, <1>4
<1> HIDE DEF level
<1>8. /\ IsPartial(paper'[side], Prices, PaperOrderLevel)
      /\ DOMAIN paper'[side] =
           IF emptied THEN DOMAIN paper[side] \ {p} ELSE DOMAIN paper[side]
      /\ ~emptied => paper'[side][p] = level
      /\ \A q \in DOMAIN paper[side] : q # p => paper'[side][q] = paper[side][q]
  <2>1. CASE emptied
    BY <1>2, <1>4, <1>7, <2>1 DEF IsPartial, Erased, Restrict
  <2>2. CASE ~emptied
    BY <1>2, <1>4, <1>5, <1>7, <2>2 DEF IsPartial
  <2> QED BY <2>1, <2>2
<1>9. /\ IsPartial(paper_orders', Ids, PaperOrder)
      /\ IsPartial(paper_order_info', Ids, PaperOrderInfo)
      /\ DOMAIN paper_orders' =
           IF gone THEN DOMAIN paper_orders \ {id} ELSE DOMAIN paper_orders
      /\ DOMAIN paper_order_info' = DOMAIN paper_orders'
      /\ \A x \in DOMAIN paper_orders' :
           /\ paper_order_info'[x] = paper_order_info[x]
           /\ paper_orders'[x].paper_index = paper_orders[x].paper_index
           /\ paper_orders'[x].remaining > 0
  <2>1. /\ DOMAIN paper_orders = DOMAIN paper_order_info
        /\ \A x \in DOMAIN paper_orders : paper_orders[x].remaining > 0
    BY DEF PaperInvariant, OrdersIndexed
  <2>2. CASE gone
    BY <1>1, <1>4, <2>1, <2>2 DEF IsPartial, Erased, Restrict
  <2>3. CASE ~gone
    <3>1. paper_orders[id].remaining - qty \in Nat /\ paper_orders[id].remaining - qty > 0
      BY <1>2, <2>3
    <3> DEFINE order == [paper_orders[id] EXCEPT
                           !.remaining = paper_orders[id].remaining - qty,
                           !.status = status]
    <3>2. /\ order \in PaperOrder
          /\ order.remaining > 0
          /\ order.paper_index = paper_orders[id].paper_index
      BY <1>2, <2>3, <3>1 DEF PaperOrder
    <3>3. paper_orders' = [paper_orders EXCEPT ![id] = order]
      BY <1>1, <2>3
    <3> HIDE DEF order
    <3>4. /\ IsPartial(paper_orders', Ids, PaperOrder)
          /\ DOMAIN paper_orders' = DOMAIN paper_orders
          /\ paper_orders'[id] = order
          /\ \A x \in DOMAIN paper_orders : x # id => paper_orders'[x] = paper_orders[x]
      BY <1>4, <3>2, <3>3 DEF IsPartial
    <3>5. paper_order_info' = paper_order_info
      BY <1>1, <2>3
    <3> QED BY <1>4, <2>1, <2>3, <3>2, <3>4, <3>5
  <2> QED BY <2>2, <2>3
<1>10. PaperTypes'
  BY <1>4, <1>7, <1>8, <1>9 DEF PaperTypes
<1> HIDE DEF gone
<1>11. \A s \in Sides : \A q :
         RestingAt(s, q)' = IF gone THEN RestingAt(s, q) \ {id} ELSE RestingAt(s, q)
  BY <1>9 DEF RestingAt
<1>12. \A s \in Sides : \A q : s # side \/ q # p => id \notin RestingAt(s, q)
  BY <1>2 DEF RestingAt
<1>13. emptied => gone /\ RestingAt(side, p) \subseteq {id}
  <2>1. ToSet(<<>>) = {}
    BY DEF ToSet
  <2> QED BY <1>2, <1>3, <1>6, <2>1
<1>14. ASSUME NEW x \in DOMAIN paper_orders'
       PROVE  LET s == paper_order_info'[x].side
                  q == paper_order_info'[x].price
              IN  /\ q \in DOMAIN paper'[s]
                  /\ paper_orders'[x].paper_index < Len(paper'[s][q].paper_qty)
  <2> DEFINE s == paper_order_info[x].side
             q == paper_order_info[x].price
  <2>1. /\ x \in DOMAIN paper_orders
        /\ gone => x # id
        /\ paper_order_info'[x] = paper_order_info[x]
        /\ paper_orders'[x].paper_index = paper_orders[x].paper_index
    BY <1>9
  <2>2. /\ s \in Sides
        /\ q \in DOMAIN paper[s]
        /\ paper_orders[x].paper_index < Len(paper[s][q].paper_qty)
        /\ paper_order_info[x] = [side |-> s, price |-> q]
    BY <2>1, PaperOrderFacts DEF PaperInvariant, OrdersIndexed
  <2>3. CASE s = side /\ q = p
    <3>1. ~emptied
      BY <1>13, <2>1, <2>2, <2>3 DEF RestingAt
    <3> QED BY <1>5, <1>8, <2>1, <2>2, <2>3, <3>1 DEF old
  <2>4. CASE s # side \/ q # p
    BY <1>7, <1>8, <2>1, <2>2, <2>4
  <2> QED BY <2>3, <2>4
<1>15. ASSUME NEW s \in Sides, NEW q \in DOMAIN paper'[s]
       PROVE  /\ ToSet(paper'[s][q].orders) = RestingAt(s, q)'
              /\ IsInjective(paper'[s][q].orders)
              /\ Len(paper'[s][q].market_qty) = Len(paper'[s][q].market_seqs)
              /\ paper'[s][q].orders = <<>> =>
                   q \in DOMAIN paper[s] /\ paper[s][q].orders = <<>>
  <2>1. CASE s = side /\ q = p
    <3>1. ~emptied /\ paper'[s][q] = level
      BY <1>8, <2>1
    <3> QED BY <1>3, <1>5, <1>6, <1>11, <2>1, <3>1
  <2>2. CASE s # side \/ q # p
    <3>1. q \in DOMAIN paper[s] /\ paper'[s][q] = paper[s][q]
      BY <1>7, <1>8, <2>2
    <3>2. RestingAt(s, q)' = RestingAt(s, q)
      BY <1>11, <1>12, <2>2
    <3> QED BY <3>1, <3>2, LevelFacts
  <2> QED BY <2>1, <2>2
<1>16. OrdersIndexed'
  <2>1. DOMAIN paper_orders' = DOMAIN paper_order_info'
    BY <1>9
  <2> QED BY <1>9, <1>14, <1>15, <2>1 DEF OrdersIndexed, HasPaperLevel
<1>17. \/ /\ DOMAIN paper_orders' = DOMAIN paper_orders \ {id}
          /\ paper_pool' = paper_pool \ {id}
       \/ /\ DOMAIN paper_orders' = DOMAIN paper_orders
          /\ paper_pool' = paper_pool
  BY <1>1, <1>9 DEF gone
<1> QED BY <1>10, <1>15, <1>16, <1>17 DEF PaperInvariant
(***************************************************************************)
(* A paper order makes a level for itself.                                 *)
(***************************************************************************)
LEMMA LevelMade ==
  ASSUME PaperInvariant, NEW side \in Sides, NEW p \in Prices,
         p \notin DOMAIN paper[side],
         paper' = [paper EXCEPT ![side] = Put(@, p, NewPaperLevel)],
         UNCHANGED <<paper_orders, paper_order_info>>
  PROVE  /\ PaperInvariant'
         /\ p \in DOMAIN paper'[side]
         /\ \A s \in Sides : \A q \in DOMAIN paper'[s] :
              \/ s = side /\ q = p
              \/ q \in DOMAIN paper[s] /\ paper'[s][q] = paper[s][q]
<1>1. /\ DOMAIN paper = Sides
      /\ \A s \in Sides : IsPartial(paper[s], Prices, PaperOrderLevel)
  BY DEF PaperInvariant, PaperTypes
<1>2. /\ NewPaperLevel \in PaperOrderLevel
      /\ NewPaperLevel.orders = <<>>
      /\ ToSet(NewPaperLevel.orders) = {}
      /\ IsInjective(NewPaperLevel.orders)
      /\ Len(NewPaperLevel.market_qty) = Len(NewPaperLevel.market_seqs)
  <2>1. \A S : <<>> \in Seq(S)
    BY EmptySeq
  <2>2. IsInjective(<<>>) /\ ToSet(<<>>) = {}
    BY DEF IsInjective, ToSet
  <2> QED BY <2>1, <2>2 DEF NewPaperLevel, PaperOrderLevel
<1>3. /\ DOMAIN paper' = Sides
      /\ \A s \in Sides : s # side => paper'[s] = paper[s]
      /\ paper'[side] = Put(paper[side], p, NewPaperLevel)
  BY <1>1
<1>4. /\ IsPartial(paper'[side], Prices, PaperOrderLevel)
      /\ DOMAIN paper'[side] = DOMAIN paper[side] \cup {p}
      /\ paper'[side][p] = NewPaperLevel
      /\ \A q \in DOMAIN paper[side] : paper'[side][q] = paper[side][q]
  BY <1>1, <1>2, <1>3 DEF IsPartial, Put
<1>5. PaperTypes'
  BY <1>1, <1>3, <1>4 DEF PaperInvariant, PaperTypes
<1>6. RestingAt(side, p) = {}
  BY PaperOrderFacts DEF RestingAt
<1>7. \A s \in Sides : \A q \in DOMAIN paper'[s] :
        \/ s = side /\ q = p
        \/ q \in DOMAIN paper[s] /\ paper'[s][q] = paper[s][q]
  BY <1>3, <1>4
<1>8. \A s \in Sides : \A q \in DOMAIN paper[s] :
        q \in DOMAIN paper'[s] /\ paper'[s][q] = paper[s][q]
  BY <1>3, <1>4
<1>9. OrdersIndexed'
  <2>1. ASSUME NEW s \in Sides, NEW q \in DOMAIN paper'[s]
        PROVE  /\ ToSet(paper'[s][q].orders) = RestingAt(s, q)'
               /\ IsInjective(paper'[s][q].orders)
               /\ Len(paper'[s][q].market_qty) = Len(paper'[s][q].market_seqs)
    <3>1. RestingAt(s, q)' = RestingAt(s, q)
      BY DEF RestingAt
    <3>2. CASE s = side /\ q = p
      BY <1>2, <1>4, <1>6, <3>1, <3>2
    <3>3. CASE q \in DOMAIN paper[s] /\ paper'[s][q] = paper[s][q]
      <4>1. /\ ToSet(paper[s][q].orders) = RestingAt(s, q)
            /\ IsInjective(paper[s][q].orders)
            /\ Len(paper[s][q].market_qty) = Len(paper[s][q].market_seqs)
        BY <3>3, LevelFacts
      <4> QED BY <3>1, <3>3, <4>1
    <3> QED BY <1>7, <3>2, <3>3
  <2>2. ASSUME NEW id \in DOMAIN paper_orders
        PROVE  LET s == paper_order_info[id].side
                   q == paper_order_info[id].price
               IN  /\ paper_orders[id].remaining > 0
                   /\ q \in DOMAIN paper'[s]
                   /\ paper_orders[id].paper_index < Len(paper'[s][q].paper_qty)
    BY <1>8, PaperOrderFacts DEF PaperInvariant, OrdersIndexed
  <2>3. DOMAIN paper_orders' = DOMAIN paper_order_info'
    BY DEF PaperInvariant, OrdersIndexed
  <2> QED BY <2>1, <2>2, <2>3 DEF OrdersIndexed, HasPaperLevel
<1> QED BY <1>4, <1>5, <1>7, <1>9 DEF PaperInvariant

(***************************************************************************)
(* A paper order joins the end of the queue of its level.                  *)
(***************************************************************************)
LEMMA OrderJoins ==
  ASSUME PaperInvariant, NEW side \in Sides, NEW p \in DOMAIN paper[side],
         NEW id \in Ids \ DOMAIN paper_orders,
         NEW qty \in Nat, qty > 0, NEW status \in PaperOrderStatus,
         NEW seq \in Nat,
         paper' = [paper EXCEPT ![side][p] =
                     Joined(paper[side][p], id, qty)],
         paper_orders' = Put(paper_orders, id,
           [remaining |-> qty, status |-> status, placement_seq |-> seq,
            paper_index |-> Len(paper[side][p].paper_qty)]),
         paper_order_info' = Put(paper_order_info, id,
                                 [side |-> side, price |-> p])
  PROVE  /\ PaperInvariant'
         /\ DOMAIN paper_orders' = DOMAIN paper_orders \cup {id}
         /\ \A s \in Sides : \A q \in DOMAIN paper'[s] :
              paper'[s][q].orders = <<>> =>
                /\ s # side \/ q # p
                /\ q \in DOMAIN paper[s]
                /\ paper[s][q].orders = <<>>
<1> DEFINE old   == paper[side][p]
           level == Joined(old, id, qty)
           order == [remaining |-> qty, status |-> status, placement_seq |-> seq,
                     paper_index |-> Len(old.paper_qty)]
           info  == [side |-> side, price |-> p]
<1>1. /\ p \in Prices
      /\ old \in PaperOrderLevel
      /\ old.orders \in Seq(Ids)
      /\ old.queued_lots \in Int
      /\ old.paper_qty \in Seq(Int)
      /\ Len(old.paper_qty) \in Nat
      /\ Len(old.market_qty) = Len(old.market_seqs)
      /\ ToSet(old.orders) = RestingAt(side, p)
      /\ IsInjective(old.orders)
  BY LevelFacts, LenProperties
<1>2. /\ DOMAIN paper = Sides
      /\ \A s \in Sides : IsPartial(paper[s], Prices, PaperOrderLevel)
      /\ IsPartial(paper_orders, Ids, PaperOrder)
      /\ IsPartial(paper_order_info, Ids, PaperOrderInfo)
      /\ DOMAIN paper_orders = DOMAIN paper_order_info
  BY DEF PaperInvariant, PaperTypes, OrdersIndexed
<1>3. /\ DOMAIN paper' = Sides
      /\ \A s \in Sides : s # side => paper'[s] = paper[s]
      /\ paper'[side] = [paper[side] EXCEPT ![p] = level]
  <2> HIDE DEF level
  <2>1. paper' = [paper EXCEPT ![side][p] = level]
    BY DEF level
  <2> QED BY <1>2, <2>1
<1>4. /\ paper_orders' = Put(paper_orders, id, order)
      /\ paper_order_info' = Put(paper_order_info, id, info)
      /\ order \in PaperOrder
      /\ info \in PaperOrderInfo
  BY <1>1 DEF PaperOrder, PaperOrderInfo
<1>5. level = [old EXCEPT !.orders = Append(@, id),
                          !.queued_lots = @ + qty,
                          !.paper_qty = Push(@, qty)]
  BY DEF Joined
<1> HIDE DEF old, level
<1>6. /\ Append(old.orders, id) \in Seq(Ids)
      /\ Append(old.orders, id) # <<>>
      /\ ToSet(Append(old.orders, id)) = ToSet(old.orders) \cup {id}
      /\ id \notin ToSet(old.orders)
      /\ IsInjective(Append(old.orders, id))
  <2>1. id \notin ToSet(old.orders)
    BY <1>1 DEF RestingAt
  <2> QED BY <1>1, <2>1, PushedBackProperties
<1>7. /\ Push(old.paper_qty, qty) \in Seq(Int)
      /\ Len(Push(old.paper_qty, qty)) = Len(old.paper_qty) + 1
  <2>1. qty \in Int
    OBVIOUS
  <2> QED BY <1>1, <2>1, PushProperties
<1>8. /\ level \in PaperOrderLevel
      /\ level.orders = Append(old.orders, id)
      /\ level.market_qty = old.market_qty
      /\ level.market_seqs = old.market_seqs
      /\ Len(level.paper_qty) = Len(old.paper_qty) + 1
  <2> DEFINE orders == Append(old.orders, id)
             sums   == Push(old.paper_qty, qty)
             lots   == old.queued_lots + qty
  <2>1. level = [old EXCEPT !.orders = orders, !.queued_lots = lots,
                            !.paper_qty = sums]
    BY <1>5
  <2>2. /\ orders \in Seq(Ids)
        /\ sums \in Seq(Int)
        /\ Len(sums) = Len(old.paper_qty) + 1
        /\ lots \in Int
    BY <1>1, <1>6, <1>7
  <2> HIDE DEF orders, sums, lots
  <2>3. /\ level \in PaperOrderLevel
        /\ level.orders = orders
        /\ level.paper_qty = sums
        /\ level.market_qty = old.market_qty
        /\ level.market_seqs = old.market_seqs
    BY <1>1, <2>1, <2>2 DEF PaperOrderLevel
  <2> QED BY <2>2, <2>3 DEF orders
<1>9. /\ order.remaining > 0
      /\ order.paper_index = Len(old.paper_qty)
      /\ info.side = side
      /\ info.price = p
  OBVIOUS
<1>10. info = [side |-> side, price |-> p]
  OBVIOUS
<1> HIDE DEF order, info
<1>11. /\ IsPartial(paper'[side], Prices, PaperOrderLevel)
       /\ \A s \in Sides : DOMAIN paper'[s] = DOMAIN paper[s]
       /\ paper'[side][p] = level
       /\ \A s \in Sides : \A q \in DOMAIN paper[s] :
            s # side \/ q # p => paper'[s][q] = paper[s][q]
  BY <1>2, <1>3, <1>8 DEF IsPartial
<1>12. /\ IsPartial(paper_orders', Ids, PaperOrder)
       /\ DOMAIN paper_orders' = DOMAIN paper_orders \cup {id}
       /\ paper_orders'[id] = order
       /\ \A x \in DOMAIN paper_orders : paper_orders'[x] = paper_orders[x]
  BY <1>2, <1>4 DEF IsPartial, Put
<1>13. /\ IsPartial(paper_order_info', Ids, PaperOrderInfo)
       /\ DOMAIN paper_order_info' = DOMAIN paper_orders \cup {id}
       /\ paper_order_info'[id] = info
       /\ \A x \in DOMAIN paper_orders : paper_order_info'[x] = paper_order_info[x]
  BY <1>2, <1>4 DEF IsPartial, Put
<1>14. PaperTypes'
  BY <1>2, <1>3, <1>11, <1>12, <1>13 DEF PaperTypes
<1>15. \A s \in Sides : \A q :
         RestingAt(s, q)' = IF s = side /\ q = p THEN RestingAt(s, q) \cup {id}
                                                ELSE RestingAt(s, q)
  BY <1>10, <1>12, <1>13 DEF RestingAt
<1>16. ASSUME NEW x \in DOMAIN paper_orders'
       PROVE  LET s == paper_order_info'[x].side
                  q == paper_order_info'[x].price
              IN  /\ paper_orders'[x].remaining > 0
                  /\ q \in DOMAIN paper'[s]
                  /\ paper_orders'[x].paper_index < Len(paper'[s][q].paper_qty)
  <2>1. CASE x = id
    <3>1. /\ paper_orders'[x] = order
          /\ paper_order_info'[x].side = side
          /\ paper_order_info'[x].price = p
      BY <1>9, <1>12, <1>13, <2>1
    <3>2. p \in DOMAIN paper'[side] /\ paper'[side][p] = level
      BY <1>11
    <3>3. order.paper_index < Len(level.paper_qty)
      BY <1>1, <1>8, <1>9
    <3> QED BY <1>9, <3>1, <3>2, <3>3
  <2>2. CASE x # id
    <3> DEFINE s == paper_order_info[x].side
               q == paper_order_info[x].price
    <3>1. /\ x \in DOMAIN paper_orders
          /\ paper_orders'[x] = paper_orders[x]
          /\ paper_order_info'[x] = paper_order_info[x]
      BY <1>12, <1>13, <2>2
    <3>2. /\ s \in Sides
          /\ q \in DOMAIN paper[s]
          /\ paper_orders[x].remaining > 0
          /\ paper_orders[x].paper_index \in Nat
          /\ paper_orders[x].paper_index < Len(paper[s][q].paper_qty)
      BY <3>1, PaperOrderFacts DEF PaperInvariant, OrdersIndexed
    <3> HIDE DEF s, q
    <3>3. paper_orders[x].paper_index < Len(paper'[s][q].paper_qty)
      BY <1>1, <1>8, <1>11, <3>2 DEF old
    <3> QED BY <1>11, <3>1, <3>2, <3>3 DEF s, q
  <2> QED BY <2>1, <2>2
<1>17. ASSUME NEW s \in Sides, NEW q \in DOMAIN paper'[s]
       PROVE  /\ ToSet(paper'[s][q].orders) = RestingAt(s, q)'
              /\ IsInjective(paper'[s][q].orders)
              /\ Len(paper'[s][q].market_qty) = Len(paper'[s][q].market_seqs)
              /\ paper'[s][q].orders = <<>> =>
                   /\ s # side \/ q # p
                   /\ q \in DOMAIN paper[s]
                   /\ paper[s][q].orders = <<>>
  <2>1. CASE s = side /\ q = p
    BY <1>1, <1>6, <1>8, <1>11, <1>15, <2>1
  <2>2. CASE s # side \/ q # p
    <3>1. q \in DOMAIN paper[s] /\ paper'[s][q] = paper[s][q]
      BY <1>11, <2>2
    <3>2. RestingAt(s, q)' = RestingAt(s, q)
      BY <1>15, <2>2
    <3>3. /\ ToSet(paper[s][q].orders) = RestingAt(s, q)
          /\ IsInjective(paper[s][q].orders)
          /\ Len(paper[s][q].market_qty) = Len(paper[s][q].market_seqs)
      BY <3>1, LevelFacts
    <3> QED BY <2>2, <3>1, <3>2, <3>3
  <2> QED BY <2>1, <2>2
<1>18. OrdersIndexed'
  BY <1>12, <1>13, <1>16, <1>17 DEF OrdersIndexed, HasPaperLevel
<1> QED BY <1>12, <1>14, <1>17, <1>18 DEF PaperInvariant
-----------------------------------------------------------------------------
(***************************************************************************)
(* Heaps.                                                                  *)
(***************************************************************************)
LEMMA HeapShapes ==
  ASSUME NEW h \in Bag, NEW side \in Sides, NEW p \in Prices
  PROVE  /\ Pruned(h, side) \in Bag
         /\ AllPopped(h, p) \in Bag
         /\ Pushed(h, p) \in Bag
BY DEF Bag, Pruned, AllPopped, Pushed

LEMMA BestPriceFacts ==
  ASSUME NEW h \in Bag, NEW side \in Sides, NEW p \in BestPrice(h, side)
  PROVE  /\ p \in Prices
         /\ p \in DOMAIN book[side]
         /\ book[side][p] # <<>>
         /\ \A q \in BestPrice(h, side) : q = p
<1>1. /\ p \in Prices
      /\ p \in DOMAIN book[side]
      /\ book[side][p] # <<>>
  BY DEF BestPrice, Live
<1>2. ASSUME NEW q \in BestPrice(h, side) PROVE q = p
  <2>1. /\ q \in Prices
        /\ ~Better(side, p, q)
        /\ ~Better(side, q, p)
    BY DEF BestPrice
  <2>2. p \in Int /\ q \in Int
    BY <1>1, <2>1, PricesAssumption
  <2> QED BY <2>1, <2>2 DEF Better
<1> QED BY <1>1, <1>2

\* Popping what lies above the best price leaves it the best.
LEMMA PrunedBestPrice ==
  ASSUME NEW h \in Bag, NEW side \in Sides
  PROVE  BestPrice(Pruned(h, side), side) = BestPrice(h, side)
<1> DEFINE stack == Pruned(h, side)
<1>1. \A p, q \in Prices : /\ ~Better(side, p, p)
                           /\ Better(side, p, q) => ~Better(side, q, p)
  BY PricesAssumption DEF Better, Sides
<1>2. \A p \in Prices : h[p] \in Nat
  BY DEF Bag
<1>3. ASSUME NEW p \in Prices
      PROVE  stack[p] > 0 <=>
               /\ h[p] > 0
               /\ \E q \in Prices : h[q] > 0 /\ Live(side, q) /\ ~Better(side, p, q)
  BY <1>2 DEF Pruned
<1> HIDE DEF stack
<1>4. \A p \in Prices : Live(side, p) => (stack[p] > 0 <=> h[p] > 0)
  BY <1>1, <1>3
<1> QED BY <1>4 DEF BestPrice, stack

(***************************************************************************)
(* What a running handler may rely on.                                     *)
(***************************************************************************)
LEMMA CallKinds ==
  ASSUME Inductive
  PROVE  /\ call.pc = "idle" => call = Idle
         /\ call.pc \in {"l2", "l3"} => call \in Load /\ DOMAIN paper_orders = {}
         /\ call.pc \notin {"idle", "l2", "l3"} => call \in Handler /\ HandlerState
BY DEF Inductive, CallInvariant, Idle, Load, Handler

LEMMA HandlerFacts ==
  ASSUME Inductive, call.pc \notin {"idle", "l2", "l3"}
  PROVE  /\ call \in Handler
         /\ HandlerState
         /\ call.pc \in {"sweep", "queue", "settle", "paper", "rest",
                         "mirror", "reduce"}
         /\ call.event \in Event
         /\ call.event.type \in {"ADD", "AGGRESSIVE_TRADE", "MATCH"}
         /\ call.event.source \in Sources
         /\ call.event.side \in Sides
         /\ call.event.price \in Prices
         /\ call.event.qty \in Nat
         /\ call.event.id \in Ids
         /\ call.remaining \in Nat
         /\ call.heap_copy \in Bag
         /\ call.it \in Nat \ {0}
         /\ call.side \in Sides
         /\ call.price \in Prices
         /\ call.lots \in Nat
         /\ call.consumed \in Nat
         /\ call.deltas \in Seq([seq : Nat, qty : Nat])
         /\ call.fills \in Seq(Fill)
<1>1. call \in Handler /\ HandlerState
  BY CallKinds
<1>2. call.event \in Event /\ call.event.qty >= 0
  BY <1>1 DEF Handler, HandlerState
<1>3. /\ call.event.source \in Sources
      /\ call.event.side \in Sides
      /\ call.event.price \in Prices
      /\ call.event.qty \in Nat
      /\ call.event.id \in Ids
  BY <1>2 DEF Event
<1> QED BY <1>1, <1>2, <1>3 DEF Handler, HandlerState

(***************************************************************************)
(* What a step leaves alone keeps its part of the invariant.               *)
(***************************************************************************)
LEMMA BookKept ==
  ASSUME Inductive, UNCHANGED <<book, node, order_info, order_arrival_seq>>
  PROVE  BookInvariant'
<1>1. BookInvariant
  BY DEF Inductive
<1>2. BookTypes'
  BY <1>1 DEF BookInvariant, BookTypes
<1>3. QueuesApart'
  BY <1>1 DEF BookInvariant, QueuesApart, Queued
<1>4. NodesIndexed'
  BY <1>1 DEF BookInvariant, NodesIndexed, Queued, Side, Price, NodeOf
<1> QED BY <1>2, <1>3, <1>4 DEF BookInvariant

LEMMA LevelsHaveOrders ==
  ASSUME Inductive, call.pc # "mirror",
         NEW side \in Sides, NEW p \in DOMAIN paper[side]
  PROVE  paper[side][p].orders # <<>>
BY DEF Inductive, NoEmptyLevel, ComingToRest

LEMMA PaperKept ==
  ASSUME Inductive, UNCHANGED paperVars, call.pc # "mirror", call'.pc # "mirror"
  PROVE  PaperInvariant' /\ NoEmptyLevel' /\ PoolMatches'
<1>1. UNCHANGED <<paper, paper_orders, paper_order_info, paper_pool>>
  BY DEF paperVars
<1>2. PaperInvariant'
  BY <1>1 DEF Inductive, PaperInvariant, PaperTypes, OrdersIndexed,
              HasPaperLevel, RestingAt
<1>3. NoEmptyLevel'
  BY <1>1, LevelsHaveOrders DEF Inductive, NoEmptyLevel, PaperInvariant, PaperTypes
<1>4. PoolMatches'
  BY <1>1 DEF Inductive, PoolMatches
<1> QED BY <1>2, <1>3, <1>4

LEMMA PaperReduced ==
  ASSUME Inductive, call.pc # "mirror", call'.pc # "mirror",
         NEW id \in DOMAIN paper_orders,
         NEW qty \in Int, qty <= paper_orders[id].remaining, NEW told \in Int,
         NEW status, qty # paper_orders[id].remaining => status \in PaperOrderStatus,
         LeavePaperOrder(id, qty, told, status)
  PROVE  /\ PaperInvariant' /\ NoEmptyLevel' /\ PoolMatches'
         /\ DOMAIN paper_orders' \subseteq DOMAIN paper_orders
<1>1. /\ PaperInvariant'
      /\ \A side \in Sides : \A p \in DOMAIN paper'[side] :
           paper'[side][p].orders = <<>> =>
             p \in DOMAIN paper[side] /\ paper[side][p].orders = <<>>
      /\ \/ /\ DOMAIN paper_orders' = DOMAIN paper_orders \ {id}
            /\ paper_pool' = paper_pool \ {id}
         \/ /\ DOMAIN paper_orders' = DOMAIN paper_orders
            /\ paper_pool' = paper_pool
  BY LotsTaken DEF Inductive
<1>2. NoEmptyLevel'
  BY <1>1, LevelsHaveOrders DEF NoEmptyLevel
<1>3. /\ paper_pool = DOMAIN paper_orders
      /\ IsFiniteSet(paper_pool)
      /\ Cardinality(paper_pool) <= PaperCapacity
  BY DEF Inductive, PoolMatches
<1>4. /\ paper_pool' = DOMAIN paper_orders'
      /\ paper_pool' \subseteq paper_pool
  BY <1>1, <1>3
<1>5. IsFiniteSet(paper_pool') /\ Cardinality(paper_pool') <= PaperCapacity
  <2>1. /\ IsFiniteSet(paper_pool')
        /\ Cardinality(paper_pool') <= Cardinality(paper_pool)
        /\ Cardinality(paper_pool) \in Nat
        /\ Cardinality(paper_pool') \in Nat
    BY <1>3, <1>4, FS_Subset, FS_CardinalityType
  <2> QED BY <1>3, <2>1, CapacityAssumption
<1> QED BY <1>1, <1>2, <1>3, <1>4, <1>5 DEF PoolMatches

LEMMA OrdersKept ==
  ASSUME Inductive, SameOrders, UNCHANGED <<paper_orders, paper_pool>>,
         call.pc # "mirror", call'.pc # "mirror"
  PROVE  NoEmptyLevel' /\ PoolMatches'
<1>1. NoEmptyLevel'
  BY LevelsHaveOrders DEF SameOrders, NoEmptyLevel
<1>2. PoolMatches'
  BY DEF Inductive, PoolMatches
<1> QED BY <1>1, <1>2
-----------------------------------------------------------------------------
(***************************************************************************)
(* Events that are rejected, and the first step of those that trade.       *)
(***************************************************************************)
LEMMA RejectStep ==
  ASSUME Inductive, UNCHANGED vars
  PROVE  Inductive'
<1>1. UNCHANGED <<book, node, heap, order_info, order_arrival_seq, paper,
                  paper_orders, paper_order_info, paper_pool, call>>
  BY DEF vars, bookVars, paperVars
<1>2. BookInvariant'
  BY <1>1, BookKept
<1>3. PaperInvariant'
  BY <1>1 DEF Inductive, PaperInvariant, PaperTypes, OrdersIndexed,
              HasPaperLevel, RestingAt
<1>4. HeapTypes' /\ NoEmptyLevel' /\ PoolMatches' /\ IdsApart'
  BY <1>1 DEF Inductive, HeapTypes, NoEmptyLevel, ComingToRest, PoolMatches, IdsApart
<1>5. CallInvariant'
  BY <1>1 DEF Inductive, CallInvariant, HandlerState, BestPrice, Live, HasPaperLevel
<1> QED BY <1>2, <1>3, <1>4, <1>5 DEF Inductive

LEMMA NewCallType ==
  ASSUME NEW pc \in {"sweep", "queue", "settle"}, NEW e \in Event, e.qty >= 0,
         NEW side \in Sides, NEW p \in Prices
  PROVE  NewCall(pc, e, side, p) \in Handler
<1>1. e.qty \in Nat
  BY DEF Event
<1>2. NoEntries \in Bag
  BY DEF NoEntries, Bag
<1>3. \A S : <<>> \in Seq(S)
  BY EmptySeq
<1> QED BY <1>1, <1>2, <1>3 DEF NewCall, Handler

\* A handler begins with a sweep from the first node of the best level.
LEMMA SweepBegins ==
  ASSUME Inductive, call = Idle, NEW e \in Event, e.qty >= 0,
         NEW h \in Bag,
         NEW side \in Sides,
         call' = [NewCall("sweep", e, side, e.price) EXCEPT !.heap_copy = h],
         \/ /\ e.type = "ADD"
            /\ e.id \notin DOMAIN order_info \cup DOMAIN paper_orders
         \/ e.type = "AGGRESSIVE_TRADE" /\ e.source = "STRATEGY",
         UNCHANGED <<book, node, order_info, order_arrival_seq, paper,
                     paper_orders, paper_order_info, paper_pool>>,
         HeapTypes'
  PROVE  Inductive'
<1>1. e.price \in Prices
  BY DEF Event
<1>2. NewCall("sweep", e, side, e.price) \in Handler
  BY <1>1, NewCallType
<1>3. /\ call' \in Handler
      /\ call'.pc = "sweep"
      /\ call'.event = e
      /\ call'.it = 1
      /\ call'.side = side
      /\ call'.heap_copy = h
  BY <1>2 DEF Handler, NewCall
<1>4. BookInvariant'
  BY BookKept
<1>5. PaperInvariant' /\ NoEmptyLevel' /\ PoolMatches'
  BY <1>3, PaperKept DEF paperVars, Idle
<1>6. IdsApart'
  BY DEF Inductive, IdsApart
<1>7. \A p \in BestPrice(h, side) : 1 <= Len(book[side][p])
  BY BestPriceFacts, QueueFacts DEF Inductive
<1>8. HandlerState'
  BY <1>3, <1>7 DEF HandlerState, BestPrice, Live
<1> QED BY <1>3, <1>4, <1>5, <1>6, <1>8 DEF Inductive, CallInvariant

LEMMA OppositeSide ==
  \A side \in Sides : Opposite(side) \in Sides
BY DEF Opposite, Sides

LEMMA OnAddStep ==
  ASSUME Inductive, NEW e \in Event, OnAdd(e)
  PROVE  Inductive'
<1> DEFINE side == Opposite(e.side)
<1>1. /\ call = Idle
      /\ e.type = "ADD"
      /\ e.qty \in Nat
      /\ e.id \notin DOMAIN order_info \cup DOMAIN paper_orders
      /\ e.side \in Sides
      /\ e.source \in Sources
      /\ UNCHANGED <<book, node, order_info, order_arrival_seq, paper,
                     paper_orders, paper_order_info, paper_pool>>
  BY DEF OnAdd, Accepts, Rejected, AddRejected, Event, paperVars
<1>2. side \in Sides /\ heap \in [Sides -> Bag]
  BY <1>1, OppositeSide DEF Inductive, HeapTypes
<1>3. CASE e.source = "STRATEGY"
  <2>1. /\ call' = [NewCall("sweep", e, side, e.price) EXCEPT
                      !.heap_copy = heap[side]]
        /\ heap' = heap
    BY <1>3 DEF OnAdd
  <2>2. heap[side] \in Bag /\ HeapTypes'
    BY <1>2, <2>1 DEF HeapTypes
  <2> HIDE DEF side
  <2> QED BY <1>1, <1>2, <2>1, <2>2, SweepBegins
<1>4. CASE e.source = "HISTORICAL"
  <2>1. /\ call' = NewCall("sweep", e, side, e.price)
        /\ heap' = [heap EXCEPT ![side] = Pruned(@, side)]
    BY <1>4 DEF OnAdd
  <2>2. HeapTypes'
    BY <1>2, <2>1, HeapShapes, PricesAssumption DEF HeapTypes, Bag, Pruned
  <2>3. NewCall("sweep", e, side, e.price) =
          [NewCall("sweep", e, side, e.price) EXCEPT !.heap_copy = NoEntries]
    BY DEF NewCall
  <2>4. NoEntries \in Bag
    BY DEF NoEntries, Bag
  <2> HIDE DEF side
  <2> QED BY <1>1, <1>2, <2>1, <2>2, <2>3, <2>4, SweepBegins
<1> QED BY <1>1, <1>3, <1>4 DEF Sources

LEMMA OnAggressiveTradeStep ==
  ASSUME Inductive, NEW e \in Event, OnAggressiveTrade(e)
  PROVE  Inductive'
<1> DEFINE side == Opposite(e.side)
<1>1. /\ call = Idle
      /\ e.type = "AGGRESSIVE_TRADE"
      /\ e.source = "STRATEGY"
      /\ e.qty >= 0
      /\ e.side \in Sides
      /\ call' = [NewCall("sweep", e, side, e.price) EXCEPT
                    !.heap_copy = heap[side]]
      /\ UNCHANGED <<book, node, heap, order_info, order_arrival_seq, paper,
                     paper_orders, paper_order_info, paper_pool>>
  BY DEF OnAggressiveTrade, Accepts, Rejected, AggressiveTradeRejected, Event,
         bookVars, paperVars
<1>2. side \in Sides /\ heap \in [Sides -> Bag]
  BY <1>1, OppositeSide DEF Inductive, HeapTypes
<1>3. heap[side] \in Bag /\ HeapTypes'
  BY <1>1, <1>2 DEF HeapTypes
<1> HIDE DEF side
<1> QED BY <1>1, <1>2, <1>3, SweepBegins

LEMMA GetBestPriceStep ==
  ASSUME Inductive, NEW side \in Sides, GetBestPriceTicks(side)
  PROVE  Inductive'
<1>1. /\ call = Idle
      /\ heap' = [heap EXCEPT ![side] = Pruned(@, side)]
      /\ UNCHANGED <<book, node, order_info, order_arrival_seq, paper,
                     paper_orders, paper_order_info, paper_pool, call>>
  BY DEF GetBestPriceTicks, paperVars
<1>2. HeapTypes'
  BY <1>1, HeapShapes, PricesAssumption DEF Inductive, HeapTypes, Bag, Pruned
<1>3. BookInvariant'
  BY <1>1, BookKept
<1>4. PaperInvariant' /\ NoEmptyLevel' /\ PoolMatches'
  BY <1>1, PaperKept DEF paperVars, Idle
<1>5. IdsApart' /\ CallInvariant'
  BY <1>1 DEF Inductive, IdsApart, CallInvariant
<1> QED BY <1>2, <1>3, <1>4, <1>5 DEF Inductive
-----------------------------------------------------------------------------
(***************************************************************************)
(* The sweep.                                                              *)
(***************************************************************************)
LEMMA LesserFacts ==
  ASSUME NEW m \in Int, NEW k \in Int
  PROVE  /\ Lesser(m, k) \in Int
         /\ Lesser(m, k) <= m
         /\ Lesser(m, k) <= k
         /\ Lesser(m, k) = m \/ Lesser(m, k) = k
         /\ m >= 0 /\ k >= 0 => Lesser(m, k) \in Nat
BY DEF Lesser

LEMMA FillAppended ==
  ASSUME Inductive, call \in Handler, NEW fill \in Fill
  PROVE  Append(call.fills, fill) \in Seq(Fill)
<1>1. call.fills \in Seq(Fill)
  BY DEF Handler
<1> QED BY <1>1, PushedBackProperties

LEMMA BookFillType ==
  ASSUME Inductive, call \in Handler, NEW n \in DOMAIN node, NEW p \in Prices,
         NEW qty \in Nat
  PROVE  BookFill(n, p, qty) \in Fill
<1>1. n \in Nat /\ node[n] \in Node
  BY DEF Inductive, BookInvariant, BookTypes, IsPartial
<1>2. call.side \in Sides /\ node[n].id \in Ids \cup {UnknownOrderId}
  BY <1>1 DEF Handler, Node
<1> QED BY <1>1, <1>2 DEF BookFill, Fill, Sources

LEMMA NextPriceFacts ==
  ASSUME Inductive, call \in Handler, NEW p \in NextPrice
  PROVE  /\ p \in Prices
         /\ p \in DOMAIN book[call.side]
         /\ book[call.side][p] # <<>>
         /\ Len(book[call.side][p]) >= 1
<1>1. /\ call.side \in Sides
      /\ call.heap_copy \in Bag
      /\ heap[call.side] \in Bag
  BY DEF Handler, Inductive, HeapTypes
<1>2. /\ p \in Prices
      /\ p \in DOMAIN book[call.side]
      /\ book[call.side][p] # <<>>
  BY <1>1, BestPriceFacts DEF NextPrice
<1> QED BY <1>1, <1>2, QueueFacts DEF Inductive

LEMMA StrategySweepStep ==
  ASSUME Inductive, StrategySweep
  PROVE  Inductive'
<1>1. /\ call.pc = "sweep"
      /\ call.event.source = "STRATEGY"
      /\ UNCHANGED <<book, node, heap, order_info, order_arrival_seq, paper,
                     paper_orders, paper_order_info, paper_pool>>
  BY DEF StrategySweep, bookVars, paperVars
<1>2. /\ call \in Handler
      /\ HandlerState
      /\ call.side \in Sides
      /\ call.heap_copy \in Bag
      /\ call.it \in Nat \ {0}
      /\ call.remaining \in Nat
      /\ call.event \in Event
      /\ call.fills \in Seq(Fill)
  BY <1>1, HandlerFacts
<1>3. PICK p \in NextPrice :
        LET queue == book[call.side][p]
            n     == queue[call.it]
            take  == Lesser(node[n].qty, call.remaining)
            left  == take = call.remaining \/ call.it = Len(queue)
            stack == Pruned(call.heap_copy, call.side)
        IN  call' = [call EXCEPT
                      !.price = p,
                      !.remaining = @ - take,
                      !.it = IF left THEN 1 ELSE @ + 1,
                      !.heap_copy = IF left THEN AllPopped(stack, p) ELSE stack,
                      !.fills = IF take > 0
                                THEN Append(@, BookFill(n, p, take)) ELSE @]
  BY Zenon DEF StrategySweep
<1> DEFINE queue == book[call.side][p]
           n     == queue[call.it]
           take  == Lesser(node[n].qty, call.remaining)
           left  == take = call.remaining \/ call.it = Len(queue)
           stack == Pruned(call.heap_copy, call.side)
<1>4. /\ p \in Prices
      /\ p \in BestPrice(call.heap_copy, call.side)
      /\ p \in DOMAIN book[call.side]
      /\ call.it <= Len(queue)
  BY <1>1, <1>2, NextPriceFacts DEF NextPrice, HandlerState
<1>5. n \in DOMAIN node /\ node[n].qty \in Nat /\ Len(queue) \in Nat
  BY <1>2, <1>4, QueueFacts DEF Inductive
<1>6. take \in Nat /\ call.remaining - take \in Nat
  BY <1>2, <1>5, LesserFacts
<1>7. BookFill(n, p, take) \in Fill
  BY <1>2, <1>4, <1>5, <1>6, BookFillType
<1>8. Append(call.fills, BookFill(n, p, take)) \in Seq(Fill)
  BY <1>2, <1>7, FillAppended
<1>9. stack \in Bag /\ AllPopped(stack, p) \in Bag
  BY <1>2, <1>4, HeapShapes
<1> DEFINE remaining == call.remaining - take
           it        == IF left THEN 1 ELSE call.it + 1
           heap_copy == IF left THEN AllPopped(stack, p) ELSE stack
           fills     == IF take > 0 THEN Append(call.fills, BookFill(n, p, take))
                                    ELSE call.fills
<1>10. /\ call' = [call EXCEPT !.price = p, !.remaining = remaining, !.it = it,
                               !.heap_copy = heap_copy, !.fills = fills]
       /\ remaining \in Nat
       /\ it \in Nat \ {0}
       /\ heap_copy \in Bag
       /\ fills \in Seq(Fill)
  <2>1. call' = [call EXCEPT !.price = p, !.remaining = remaining, !.it = it,
                            !.heap_copy = heap_copy, !.fills = fills]
    BY <1>3
  <2> HIDE DEF stack, take, left, n
  <2>2. remaining \in Nat /\ it \in Nat \ {0}
    BY <1>2, <1>6
  <2>3. heap_copy \in Bag /\ fills \in Seq(Fill)
    BY <1>2, <1>8, <1>9
  <2> QED BY <2>1, <2>2, <2>3
<1>11. \A q \in BestPrice(heap_copy, call.side) : it <= Len(book[call.side][q])
  <2>1. CASE left
    BY <1>2, <1>10, <2>1, BestPriceFacts, QueueFacts, Zenon DEF Inductive
  <2>2. CASE ~left
    <3>1. heap_copy = stack /\ it = call.it + 1 /\ call.it + 1 <= Len(queue)
      BY <1>2, <1>4, <1>5, <2>2
    <3>2. BestPrice(stack, call.side) = BestPrice(call.heap_copy, call.side)
      BY <1>2, PrunedBestPrice
    <3>3. \A q \in BestPrice(call.heap_copy, call.side) : q = p
      BY <1>2, <1>4, BestPriceFacts
    <3> QED BY <3>1, <3>2, <3>3
  <2> QED BY <2>1, <2>2
<1> HIDE DEF remaining, it, heap_copy, fills
<1>12. /\ call' \in Handler
       /\ call'.pc = "sweep"
       /\ call'.event = call.event
       /\ call'.it = it
       /\ call'.side = call.side
       /\ call'.heap_copy = heap_copy
  BY <1>1, <1>2, <1>4, <1>10 DEF Handler
<1>13. HandlerState'
  BY <1>1, <1>2, <1>11, <1>12 DEF HandlerState, BestPrice, Live
<1>14. BookInvariant'
  BY <1>1, BookKept
<1>15. PaperInvariant' /\ NoEmptyLevel' /\ PoolMatches'
  BY <1>1, <1>12, PaperKept DEF paperVars
<1>16. IdsApart' /\ HeapTypes'
  BY <1>1 DEF Inductive, IdsApart, HeapTypes
<1> QED BY <1>12, <1>13, <1>14, <1>15, <1>16 DEF Inductive, CallInvariant
\* Only historical orders change the book while they sweep it, and only an
\* ADD goes on from there.
LEMMA HandlerKinds ==
  ASSUME Inductive, call.pc \notin {"idle", "l2", "l3"}
  PROVE  /\ (call.pc = "sweep" /\ call.event.source = "HISTORICAL") =>
              call.event.type = "ADD"
         /\ call.pc \in {"rest", "mirror"} => call.event.type = "ADD"
         /\ call.event.type = "ADD" =>
              call.event.id \notin DOMAIN order_info \cup DOMAIN paper_orders
         /\ call.event.type = "MATCH" => call.event.id \in DOMAIN order_info
         /\ call.pc = "reduce" => call.event.type = "MATCH"
BY HandlerFacts DEF HandlerState

LEMMA HistoricalSweepStep ==
  ASSUME Inductive, HistoricalSweep
  PROVE  Inductive'
<1>1. /\ call.pc = "sweep"
      /\ call.event.source = "HISTORICAL"
      /\ call.remaining > 0
      /\ heap' = [heap EXCEPT ![call.side] = Pruned(@, call.side)]
      /\ UNCHANGED <<order_arrival_seq, paper, paper_orders, paper_order_info,
                     paper_pool>>
  BY Zenon DEF HistoricalSweep, paperVars
<1>2. /\ call \in Handler
      /\ HandlerState
      /\ call.side \in Sides
      /\ call.remaining \in Nat
      /\ call.lots \in Nat
      /\ call.event \in Event
      /\ call.fills \in Seq(Fill)
      /\ call.deltas \in Seq([seq : Nat, qty : Nat])
      /\ call.event.type = "ADD"
      /\ call.event.id \notin DOMAIN order_info \cup DOMAIN paper_orders
      /\ BookInvariant
      /\ heap \in [Sides -> Bag]
  BY <1>1, HandlerFacts, HandlerKinds DEF Inductive, HeapTypes
<1>3. PICK p \in NextPrice :
        LET queue == book[call.side][p]
            n     == Head(queue)
            take  == Lesser(node[n].qty, call.remaining)
            gone  == take = node[n].qty
            left  == take = call.remaining \/ (gone /\ Len(queue) = 1)
            lots  == call.lots + take
        IN  /\ call' = [call EXCEPT
                 !.pc = IF left /\ lots > 0 THEN "queue" ELSE "sweep",
                 !.price = p,
                 !.remaining = @ - take,
                 !.lots = lots,
                 !.deltas = IF take > 0 THEN Append(@, [seq |-> n, qty |-> take])
                                        ELSE @,
                 !.fills = IF take > 0 THEN Append(@, BookFill(n, p, take))
                                       ELSE @]
            /\ IF ~gone
                 THEN /\ node' = [node EXCEPT ![n].qty = @ - take]
                      /\ UNCHANGED <<book, order_info>>
                 ELSE IF left /\ lots = 0
                 THEN /\ book' = [book EXCEPT ![call.side] = Erased(@, p)]
                      /\ node' = Erased(node, n)
                      /\ order_info' = Erased(order_info, node[n].id)
                 ELSE RemoveNode(call.side, p, n)
  BY Zenon DEF HistoricalSweep
<1> DEFINE queue == book[call.side][p]
           n     == Head(queue)
           take  == Lesser(node[n].qty, call.remaining)
           gone  == take = node[n].qty
           left  == take = call.remaining \/ (gone /\ Len(queue) = 1)
           lots  == call.lots + take
<1>4. /\ p \in Prices
      /\ p \in DOMAIN book[call.side]
      /\ n \in ToSet(queue)
  BY <1>2, NextPriceFacts, QueueFacts
<1>5. n \in DOMAIN node /\ n \in Nat /\ node[n].qty \in Nat /\ Len(queue) \in Nat
  BY <1>2, <1>4, QueueFacts
<1>6. take \in Nat /\ call.remaining - take \in Nat /\ node[n].qty - take \in Nat
  BY <1>2, <1>5, LesserFacts
<1>7. /\ Append(call.fills, BookFill(n, p, take)) \in Seq(Fill)
      /\ Append(call.deltas, [seq |-> n, qty |-> take]) \in
           Seq([seq : Nat, qty : Nat])
  <2>1. Append(call.fills, BookFill(n, p, take)) \in Seq(Fill)
    BY <1>2, <1>4, <1>5, <1>6, BookFillType, FillAppended
  <2>2. [seq |-> n, qty |-> take] \in [seq : Nat, qty : Nat]
    BY <1>5, <1>6
  <2> QED BY <1>2, <2>1, <2>2, PushedBackProperties
<1> DEFINE pc        == IF left /\ lots > 0 THEN "queue" ELSE "sweep"
           remaining == call.remaining - take
           deltas    == IF take > 0
                          THEN Append(call.deltas, [seq |-> n, qty |-> take])
                          ELSE call.deltas
           fills     == IF take > 0
                          THEN Append(call.fills, BookFill(n, p, take))
                          ELSE call.fills
<1>8. /\ call' = [call EXCEPT !.pc = pc, !.price = p, !.remaining = remaining,
                              !.lots = lots, !.deltas = deltas, !.fills = fills]
      /\ pc \in {"sweep", "queue"}
      /\ remaining \in Nat
      /\ lots \in Nat
      /\ deltas \in Seq([seq : Nat, qty : Nat])
      /\ fills \in Seq(Fill)
  <2>1. call' = [call EXCEPT !.pc = pc, !.price = p, !.remaining = remaining,
                             !.lots = lots, !.deltas = deltas, !.fills = fills]
    BY <1>3, Zenon
  <2> HIDE DEF take, left, n
  <2>2. /\ remaining \in Nat
        /\ lots \in Nat
    BY <1>2, <1>6
  <2>3. /\ pc \in {"sweep", "queue"}
        /\ deltas \in Seq([seq : Nat, qty : Nat])
        /\ fills \in Seq(Fill)
    BY <1>2, <1>7
  <2> QED BY <2>1, <2>2, <2>3
<1>9. pc = "queue" => ~(left /\ lots = 0)
  OBVIOUS
<1>10. /\ BookInvariant'
       /\ DOMAIN order_info' \subseteq DOMAIN order_info
       /\ pc = "queue" => p \in DOMAIN book'[call.side]
  <2>1. CASE ~gone
    <3>1. /\ node' = [node EXCEPT ![n].qty = node[n].qty - take]
          /\ UNCHANGED <<book, order_info>>
      BY <1>3, <2>1, Zenon
    <3> HIDE DEF take, n
    <3>2. BookInvariant'
      BY <1>1, <1>2, <1>5, <1>6, <3>1, RestockNode
    <3> QED BY <1>4, <3>1, <3>2
  <2>2. CASE gone /\ left /\ lots = 0
    <3>1. /\ book' = [book EXCEPT ![call.side] = Erased(@, p)]
          /\ node' = Erased(node, n)
          /\ order_info' = Erased(order_info, node[n].id)
      BY <1>3, <2>2
    <3>2. Len(queue) = 1
      <4>1. take = 0
        <5> HIDE DEF take, left, gone
        <5> QED BY <1>2, <1>6, <2>2
      <4>2. take # call.remaining
        BY <1>1, <4>1
      <4> QED BY <2>2, <4>2
    <3>3. QueuesWithout(n)
      BY <1>2, <1>4, <3>1, <3>2, ErasedQueue
    <3> HIDE DEF n
    <3>4. BookInvariant'
      BY <1>1, <1>2, <1>4, <3>1, <3>3, NodeLeaves
    <3> QED BY <1>9, <2>2, <3>1, <3>4 DEF Erased, Restrict
  <2>3. CASE gone /\ ~(left /\ lots = 0)
    <3>1. RemoveNode(call.side, p, n)
      BY <1>3, <2>3
    <3>2. /\ book' = [book EXCEPT ![call.side][p] = Unlinked(@, n)]
          /\ node' = Erased(node, n)
          /\ order_info' = Erased(order_info, node[n].id)
      BY <3>1 DEF RemoveNode
    <3>3. QueuesWithout(n)
      BY <1>2, <1>4, <3>2, UnlinkedQueue
    <3> HIDE DEF n
    <3>4. BookInvariant'
      BY <1>1, <1>2, <1>4, <3>2, <3>3, NodeLeaves
    <3>5. p \in DOMAIN book'[call.side]
      BY <1>2, <1>4, <3>2 DEF BookInvariant, BookTypes
    <3> QED BY <3>2, <3>4, <3>5 DEF Erased, Restrict
  <2> QED BY <2>1, <2>2, <2>3
<1> HIDE DEF pc, remaining, lots, deltas, fills
<1>11. /\ call' \in Handler
       /\ call'.pc = pc
       /\ call'.event = call.event
       /\ call'.side = call.side
       /\ call'.price = p
  BY <1>2, <1>4, <1>8 DEF Handler
<1>12. HandlerState'
  BY <1>1, <1>2, <1>8, <1>10, <1>11 DEF HandlerState
<1>13. HeapTypes'
  BY <1>1, <1>2, HeapShapes, PricesAssumption DEF HeapTypes, Bag, Pruned
<1>14. PaperInvariant' /\ NoEmptyLevel' /\ PoolMatches'
  BY <1>1, <1>8, <1>11, PaperKept DEF paperVars
<1>15. IdsApart'
  BY <1>1, <1>10 DEF Inductive, IdsApart
<1> QED BY <1>10, <1>11, <1>12, <1>13, <1>14, <1>15 DEF Inductive, CallInvariant

LEMMA EndSweepStep ==
  ASSUME Inductive, EndSweep
  PROVE  Inductive'
<1> DEFINE pc == IF call.event.type = "ADD" /\ call.event.source = "STRATEGY"
                   THEN "rest" ELSE "paper"
<1>1. /\ call.pc = "sweep"
      /\ call' = [call EXCEPT !.pc = pc]
      /\ heap' = heap \/ heap' = [heap EXCEPT ![call.side] = Pruned(@, call.side)]
      /\ UNCHANGED <<book, node, order_info, order_arrival_seq, paper,
                     paper_orders, paper_order_info, paper_pool>>
  BY DEF EndSweep, paperVars
<1>2. call \in Handler /\ HandlerState
  BY <1>1, HandlerFacts
<1>3. /\ call' \in Handler
      /\ call'.pc = pc
      /\ call'.event = call.event
  BY <1>1, <1>2 DEF Handler
<1>4. HandlerState'
  BY <1>1, <1>2, <1>3 DEF HandlerState
<1>5. HeapTypes'
  BY <1>1, PricesAssumption DEF Inductive, HeapTypes, Bag, Pruned
<1>6. BookInvariant'
  BY <1>1, BookKept
<1>7. PaperInvariant' /\ NoEmptyLevel' /\ PoolMatches'
  BY <1>1, <1>3, PaperKept DEF paperVars
<1>8. IdsApart'
  BY <1>1 DEF Inductive, IdsApart
<1> QED BY <1>3, <1>4, <1>5, <1>6, <1>7, <1>8 DEF Inductive, CallInvariant
-----------------------------------------------------------------------------
(***************************************************************************)
(* The paper orders of a level.                                            *)
(***************************************************************************)
LEMMA MarketAheadType ==
  ASSUME Inductive, NEW side \in Sides, NEW p \in DOMAIN paper[side],
         NEW seq
  PROVE  MarketAhead(paper[side][p], seq) \in Int
<1> DEFINE level  == paper[side][p]
           passed == {k \in DOMAIN level.market_seqs :
                        \A j \in 1 .. k : level.market_seqs[j] < seq}
<1>1. /\ level.market_qty \in Seq(Int)
      /\ level.market_seqs \in Seq(Nat)
      /\ Len(level.market_qty) = Len(level.market_seqs)
  BY LevelFacts DEF Inductive
<1>2. /\ DOMAIN level.market_seqs = 1 .. Len(level.market_seqs)
      /\ Len(level.market_seqs) \in Nat
  BY <1>1, LenProperties
<1>3. /\ IsFiniteSet(1 .. Len(level.market_seqs))
      /\ Cardinality(1 .. Len(level.market_seqs)) = Len(level.market_seqs)
  BY <1>2, FS_Interval
<1>4. Cardinality(passed) \in 0 .. Len(level.market_qty)
  <2>1. passed \subseteq 1 .. Len(level.market_seqs)
    BY <1>2
  <2> HIDE DEF passed
  <2>0. /\ IsFiniteSet(passed)
        /\ Cardinality(passed) <= Cardinality(1 .. Len(level.market_seqs))
    BY <1>3, <2>1, FS_Subset
  <2>2. /\ Cardinality(passed) <= Len(level.market_seqs)
        /\ Cardinality(passed) \in Nat
    BY <1>3, <2>0, FS_CardinalityType
  <2> QED BY <1>1, <1>2, <2>2
<1>5. PrefixSum(level.market_qty, Cardinality(passed)) \in Int
  BY <1>1, <1>4, PrefixSumType
<1> QED BY <1>5 DEF MarketAhead

\* The paper order that is reached, and what it trades.
LEMMA QueueFillTakes ==
  ASSUME Inductive, QueueFill
  PROVE  \E id \in DOMAIN paper_orders, fill, lots, ahead \in Nat :
           /\ fill > 0
           /\ fill <= paper_orders[id].remaining
           /\ fill <= lots
           /\ PaperFill(id, call.price, fill) \in Fill
           /\ TakeFromPaperOrder(id, fill, "PARTIALLY_FILLED")
           /\ call' = [call EXCEPT
                !.lots = lots - fill,
                !.consumed = @ + ahead,
                !.fills = Append(@, PaperFill(id, call.price, fill))]
<1> DEFINE id   == Head(QueueLevel.orders)
           lots == call.lots - (AheadMarket + AheadPaper)
           fill == Lesser(FirstOrder.remaining, lots)
<1>1. /\ call.pc = "queue"
      /\ Reached
      /\ TakeFromPaperOrder(id, fill, "PARTIALLY_FILLED")
      /\ call' = [call EXCEPT
           !.lots = lots - fill,
           !.consumed = @ + AheadMarket,
           !.fills = Append(@, PaperFill(id, call.price, fill))]
  BY DEF QueueFill
<1>2. /\ call \in Handler
      /\ call.side \in Sides
      /\ call.price \in Prices
      /\ call.lots \in Nat
      /\ call.consumed \in Nat
      /\ PaperInvariant
  BY <1>1, HandlerFacts DEF Inductive
<1>3. call.price \in DOMAIN paper[call.side]
  BY <1>1 DEF Reached, HasPaperLevel
<1>4. /\ id \in DOMAIN paper_orders
      /\ paper_order_info[id] = [side |-> call.side, price |-> call.price]
      /\ QueueLevel.paper_qty \in Seq(Int)
  <2>1. paper[call.side][call.price].orders # <<>>
    BY <1>1, <1>2, <1>3, LevelsHaveOrders
  <2> QED BY <1>2, <1>3, <2>1, LevelFacts DEF QueueLevel
<1>5. /\ id \in Ids
      /\ paper_orders[id].remaining \in Nat
      /\ paper_orders[id].remaining > 0
      /\ paper_orders[id].placement_seq \in Nat
      /\ paper_orders[id].paper_index \in Nat
      /\ paper_orders[id].paper_index < Len(QueueLevel.paper_qty)
      /\ FirstOrder = paper_orders[id]
  <2>1. FirstOrder = paper_orders[id]
    BY DEF FirstOrder
  <2> HIDE DEF id
  <2>2. paper_orders[id].paper_index < Len(QueueLevel.paper_qty)
    BY <1>2, <1>4 DEF PaperInvariant, OrdersIndexed, QueueLevel
  <2> QED BY <1>2, <1>4, <2>1, <2>2, PaperOrderFacts
<1>6. AheadMarket \in Nat
  <2>1. MarketAhead(QueueLevel, FirstOrder.placement_seq) \in Int
    BY <1>2, <1>3, MarketAheadType DEF QueueLevel
  <2> QED BY <1>2, <2>1 DEF AheadMarket
<1>7. AheadPaper \in Int
  <2>1. /\ Len(QueueLevel.paper_qty) \in Nat
        /\ FirstOrder.paper_index \in 0 .. Len(QueueLevel.paper_qty)
    BY <1>4, <1>5, LenProperties
  <2> QED BY <1>4, <2>1, PrefixSumType DEF AheadPaper
<1>8. lots \in Nat /\ lots > 0
  BY <1>1, <1>2, <1>6, <1>7 DEF Reached
<1> HIDE DEF lots, id, fill
<1>9. /\ fill \in Nat
      /\ fill > 0
      /\ fill <= paper_orders[id].remaining
      /\ fill <= lots
  <2>1. paper_orders[id].remaining \in Int /\ lots \in Int
    BY <1>5, <1>8
  <2>2. fill = Lesser(paper_orders[id].remaining, lots)
    BY <1>5 DEF fill
  <2> QED BY <1>5, <1>8, <2>1, <2>2, LesserFacts
<1>10. PaperFill(id, call.price, fill) \in Fill
  BY <1>2, <1>5, <1>9 DEF PaperFill, Fill, Sources
<1> QED BY <1>1, <1>4, <1>6, <1>8, <1>9, <1>10

LEMMA QueueFillStep ==
  ASSUME Inductive, QueueFill
  PROVE  Inductive'
<1>1. PICK id \in DOMAIN paper_orders, fill, lots, ahead \in Nat :
        /\ fill > 0
        /\ fill <= paper_orders[id].remaining
        /\ fill <= lots
        /\ PaperFill(id, call.price, fill) \in Fill
        /\ TakeFromPaperOrder(id, fill, "PARTIALLY_FILLED")
        /\ call' = [call EXCEPT
             !.lots = lots - fill,
             !.consumed = @ + ahead,
             !.fills = Append(@, PaperFill(id, call.price, fill))]
  BY QueueFillTakes
<1>2. call.pc = "queue" /\ UNCHANGED <<book, node, heap, order_info, order_arrival_seq>>
  BY DEF QueueFill, bookVars
<1>3. /\ call \in Handler
      /\ HandlerState
      /\ call.lots \in Nat
      /\ call.consumed \in Nat
  BY <1>2, HandlerFacts
<1>4. Append(call.fills, PaperFill(id, call.price, fill)) \in Seq(Fill)
  BY <1>1, <1>3, FillAppended
<1>5. lots - fill \in Nat /\ call.consumed + ahead \in Nat
  BY <1>1, <1>3
<1>6. /\ call' \in Handler
      /\ call'.pc = call.pc
      /\ call'.event = call.event
      /\ call'.side = call.side
      /\ call'.price = call.price
  BY <1>1, <1>2, <1>3, <1>4, <1>5 DEF Handler
<1>7. /\ PaperInvariant' /\ NoEmptyLevel' /\ PoolMatches'
      /\ DOMAIN paper_orders' \subseteq DOMAIN paper_orders
  <2>1. "PARTIALLY_FILLED" \in PaperOrderStatus
    BY DEF PaperOrderStatus
  <2> QED BY <1>1, <1>2, <1>6, <2>1, PaperReduced DEF TakeFromPaperOrder
<1>8. HandlerState'
  BY <1>2, <1>3, <1>6, <1>7 DEF HandlerState
<1>9. BookInvariant'
  BY <1>2, BookKept
<1>10. IdsApart' /\ HeapTypes'
  BY <1>2, <1>7 DEF Inductive, IdsApart, HeapTypes
<1> QED BY <1>6, <1>7, <1>8, <1>9, <1>10 DEF Inductive, CallInvariant
(***************************************************************************)
(* Steps that change nothing but the call.                                 *)
(***************************************************************************)
LEMMA CallMoves ==
  ASSUME Inductive, call.pc # "mirror",
         UNCHANGED <<book, node, heap, order_info, order_arrival_seq, paper,
                     paper_orders, paper_order_info, paper_pool>>,
         call' = Idle \/ (call' \in Handler /\ call'.pc # "mirror" /\ HandlerState')
  PROVE  Inductive'
<1>1. call'.pc # "mirror" /\ CallInvariant'
  BY DEF CallInvariant, Idle
<1>2. BookInvariant'
  BY BookKept
<1>3. PaperInvariant' /\ NoEmptyLevel' /\ PoolMatches'
  BY <1>1, PaperKept DEF paperVars
<1>4. IdsApart' /\ HeapTypes'
  BY DEF Inductive, IdsApart, HeapTypes
<1> QED BY <1>1, <1>2, <1>3, <1>4 DEF Inductive

LEMMA EndQueueStep ==
  ASSUME Inductive, EndQueue
  PROVE  Inductive'
<1>1. /\ call.pc = "queue"
      /\ call' = [call EXCEPT !.pc = "settle"]
      /\ UNCHANGED <<book, node, heap, order_info, order_arrival_seq, paper,
                     paper_orders, paper_order_info, paper_pool>>
  BY DEF EndQueue, bookVars, paperVars
<1>2. call \in Handler /\ HandlerState
  BY <1>1, HandlerFacts
<1>3. /\ call' \in Handler
      /\ call'.pc = "settle"
      /\ call'.event = call.event
      /\ call'.side = call.side
      /\ call'.price = call.price
  BY <1>1, <1>2 DEF Handler
<1>4. HandlerState'
  BY <1>1, <1>2, <1>3 DEF HandlerState
<1> QED BY <1>1, <1>3, <1>4, CallMoves

LEMMA EndPaperStep ==
  ASSUME Inductive, EndPaper
  PROVE  Inductive'
<1>1. /\ call.pc = "paper"
      /\ call' = IF call.event.type = "ADD" THEN [call EXCEPT !.pc = "rest"]
                                            ELSE Idle
      /\ UNCHANGED <<book, node, heap, order_info, order_arrival_seq, paper,
                     paper_orders, paper_order_info, paper_pool>>
  BY DEF EndPaper, bookVars, paperVars
<1>2. call \in Handler /\ HandlerState
  BY <1>1, HandlerFacts
<1>3. CASE call.event.type = "ADD"
  <2>1. /\ call' \in Handler
        /\ call'.pc = "rest"
        /\ call'.event = call.event
    BY <1>1, <1>2, <1>3 DEF Handler
  <2>2. HandlerState'
    BY <1>1, <1>2, <1>3, <2>1 DEF HandlerState
  <2> QED BY <1>1, <2>1, <2>2, CallMoves
<1>4. CASE call.event.type # "ADD"
  BY <1>1, <1>4, CallMoves
<1> QED BY <1>3, <1>4

LEMMA EndAddStep ==
  ASSUME Inductive, EndAdd
  PROVE  Inductive'
BY CallMoves DEF EndAdd, bookVars, paperVars

LEMMA SettleStep ==
  ASSUME Inductive, Settle
  PROVE  Inductive'
<1> DEFINE d == Head(call.deltas)
<1>1. /\ call.pc = "settle"
      /\ call.deltas # <<>>
      /\ paper' = PaperMarketAdjusted(call.side, call.price, d.seq, -d.qty)
      /\ call' = [call EXCEPT !.deltas = Tail(@)]
      /\ UNCHANGED <<book, node, heap, order_info, order_arrival_seq,
                     paper_orders, paper_order_info, paper_pool>>
  BY DEF Settle, bookVars
<1>2. /\ call \in Handler
      /\ HandlerState
      /\ call.side \in Sides
      /\ call.deltas \in Seq([seq : Nat, qty : Nat])
  BY <1>1, HandlerFacts
<1>3. /\ d \in [seq : Nat, qty : Nat]
      /\ Tail(call.deltas) \in Seq([seq : Nat, qty : Nat])
  BY <1>1, <1>2, HeadTailProperties
<1>4. -d.qty \in Int
  BY <1>3
<1> HIDE DEF d
<1>5. PaperInvariant' /\ SameOrders
  BY <1>1, <1>2, <1>4, LevelAdjusted DEF Inductive
<1>6. /\ call' \in Handler
      /\ call'.pc = "settle"
      /\ call'.event = call.event
      /\ call'.side = call.side
      /\ call'.price = call.price
  BY <1>1, <1>2, <1>3 DEF Handler
<1>7. HandlerState'
  BY <1>1, <1>2, <1>6 DEF HandlerState
<1>8. NoEmptyLevel' /\ PoolMatches'
  BY <1>1, <1>5, <1>6, OrdersKept
<1>9. BookInvariant'
  BY <1>1, BookKept
<1>10. IdsApart' /\ HeapTypes'
  BY <1>1 DEF Inductive, IdsApart, HeapTypes
<1> QED BY <1>5, <1>6, <1>7, <1>8, <1>9, <1>10 DEF Inductive, CallInvariant

LEMMA EndLevelStep ==
  ASSUME Inductive, EndLevel
  PROVE  Inductive'
<1>1. /\ call.pc = "settle"
      /\ call.event.type = "ADD"
      /\ book' = IF book[call.side][call.price] = <<>>
                   THEN [book EXCEPT ![call.side] = Erased(@, call.price)]
                   ELSE book
      /\ call' = [call EXCEPT !.pc = "sweep", !.lots = 0, !.consumed = 0]
      /\ UNCHANGED <<node, heap, order_info, order_arrival_seq, paper,
                     paper_orders, paper_order_info, paper_pool>>
  BY DEF EndLevel, paperVars
<1>2. /\ call \in Handler
      /\ HandlerState
      /\ call.side \in Sides
      /\ call.event.source = "HISTORICAL"
      /\ BookInvariant
      /\ DOMAIN book = Sides
      /\ \A side \in Sides : IsPartial(book[side], Prices, Seq(Nat))
  BY <1>1, HandlerFacts DEF HandlerState, Inductive, BookInvariant, BookTypes
<1>3. BookInvariant'
  <2>1. CASE book[call.side][call.price] = <<>>
    <3>1. /\ DOMAIN book' = Sides
          /\ \A side \in Sides : side # call.side => book'[side] = book[side]
          /\ book'[call.side] = Erased(book[call.side], call.price)
      BY <1>1, <1>2, <2>1
    <3>2. /\ IsPartial(book'[call.side], Prices, Seq(Nat))
          /\ DOMAIN book'[call.side] = DOMAIN book[call.side] \ {call.price}
          /\ \A p \in DOMAIN book'[call.side] :
               book'[call.side][p] = book[call.side][p]
      BY <1>2, <3>1 DEF IsPartial, Erased, Restrict
    <3>3. /\ \A side \in Sides : IsPartial(book'[side], Prices, Seq(Nat))
          /\ \A side \in Sides : \A p \in DOMAIN book'[side] :
               p \in DOMAIN book[side] /\ book'[side][p] = book[side][p]
          /\ \A side \in Sides : \A p \in DOMAIN book[side] :
               \/ book[side][p] = <<>>
               \/ p \in DOMAIN book'[side] /\ book'[side][p] = book[side][p]
      BY <1>2, <2>1, <3>1, <3>2
    <3> QED BY <1>1, <1>2, <3>1, <3>3, SameQueues
  <2>2. CASE book[call.side][call.price] # <<>>
    BY <1>1, <2>2, BookKept
  <2> QED BY <2>1, <2>2
<1>4. /\ call' \in Handler
      /\ call'.pc = "sweep"
      /\ call'.event = call.event
  BY <1>1, <1>2 DEF Handler
<1>5. HandlerState'
  BY <1>1, <1>2, <1>4 DEF HandlerState
<1>6. PaperInvariant' /\ NoEmptyLevel' /\ PoolMatches'
  BY <1>1, <1>4, PaperKept DEF paperVars
<1>7. IdsApart' /\ HeapTypes'
  BY <1>1 DEF Inductive, IdsApart, HeapTypes
<1> QED BY <1>3, <1>4, <1>5, <1>6, <1>7 DEF Inductive, CallInvariant

LEMMA PaperTradeTakes ==
  ASSUME Inductive, TradeAgainstPaper
  PROVE  \E id \in DOMAIN paper_orders, fill \in Nat, p \in Prices :
           /\ fill > 0
           /\ fill <= paper_orders[id].remaining
           /\ fill <= call.remaining
           /\ PaperFill(id, p, fill) \in Fill
           /\ FillPaperOrder(id, fill)
           /\ call' = [call EXCEPT
                !.price = p,
                !.remaining = @ - fill,
                !.fills = Append(@, PaperFill(id, p, fill))]
<1>1. PICK p \in BestPaperPrice(call.side) :
        LET id   == Head(paper[call.side][p].orders)
            fill == Lesser(paper_orders[id].remaining, call.remaining)
        IN  /\ FillPaperOrder(id, fill)
            /\ call' = [call EXCEPT
                 !.price = p,
                 !.remaining = @ - fill,
                 !.fills = Append(@, PaperFill(id, p, fill))]
  BY ZenonT(60) DEF TradeAgainstPaper
<1> DEFINE id   == Head(paper[call.side][p].orders)
           fill == Lesser(paper_orders[id].remaining, call.remaining)
<1>2. /\ call.pc = "paper"
      /\ call.remaining > 0
      /\ FillPaperOrder(id, fill)
      /\ call' = [call EXCEPT
           !.price = p,
           !.remaining = @ - fill,
           !.fills = Append(@, PaperFill(id, p, fill))]
  BY <1>1, ZenonT(60) DEF TradeAgainstPaper
<1>3. /\ call \in Handler
      /\ call.side \in Sides
      /\ call.remaining \in Nat
      /\ PaperInvariant
  BY <1>2, HandlerFacts DEF Inductive
<1>4. p \in DOMAIN paper[call.side] /\ p \in Prices
  BY <1>3, LevelFacts DEF BestPaperPrice
<1>5. id \in DOMAIN paper_orders
  <2>1. paper[call.side][p].orders # <<>>
    BY <1>2, <1>3, <1>4, LevelsHaveOrders
  <2> QED BY <1>3, <1>4, <2>1, LevelFacts
<1> HIDE DEF id
<1>6. /\ id \in Ids
      /\ paper_orders[id].remaining \in Nat
      /\ paper_orders[id].remaining > 0
      /\ paper_orders[id].placement_seq \in Nat
  BY <1>3, <1>5, PaperOrderFacts
<1>7. /\ fill \in Nat
      /\ fill > 0
      /\ fill <= paper_orders[id].remaining
      /\ fill <= call.remaining
  <2>1. paper_orders[id].remaining \in Int /\ call.remaining \in Int
    BY <1>3, <1>6
  <2> QED BY <1>2, <1>3, <1>6, <2>1, LesserFacts
<1> HIDE DEF fill
<1>8. PaperFill(id, p, fill) \in Fill
  BY <1>3, <1>4, <1>6, <1>7 DEF PaperFill, Fill, Sources
<1> QED BY <1>2, <1>4, <1>5, <1>7, <1>8

\* An order that is filled by a crossing one leaves its lots in the sums of the
\* level when it leaves the queue.
LEMMA FilledOrderLeaves ==
  ASSUME PaperInvariant, NEW id \in DOMAIN paper_orders, NEW fill \in Nat,
         FillPaperOrder(id, fill)
  PROVE  LeavePaperOrder(id, fill,
                         IF fill = paper_orders[id].remaining THEN 0 ELSE fill,
                         "PARTIALLY_FILLED")
<1>1. paper_orders[id].remaining \in Nat
  BY PaperOrderFacts
<1> DEFINE left == paper_orders[id].remaining - fill
           told == IF left = 0 THEN Lesser(fill, left) ELSE fill
<1>2. LeavePaperOrder(id, fill, told, "PARTIALLY_FILLED")
  BY Zenon DEF FillPaperOrder
<1>3. told = IF fill = paper_orders[id].remaining THEN 0 ELSE fill
  BY <1>1 DEF Lesser
<1> HIDE DEF told
<1> QED BY <1>2, <1>3

LEMMA TradeAgainstPaperStep ==
  ASSUME Inductive, TradeAgainstPaper
  PROVE  Inductive'
<1>1. PICK id \in DOMAIN paper_orders, fill \in Nat, p \in Prices :
        /\ fill > 0
        /\ fill <= paper_orders[id].remaining
        /\ fill <= call.remaining
        /\ PaperFill(id, p, fill) \in Fill
        /\ FillPaperOrder(id, fill)
        /\ call' = [call EXCEPT
             !.price = p,
             !.remaining = @ - fill,
             !.fills = Append(@, PaperFill(id, p, fill))]
  BY PaperTradeTakes
<1>2. call.pc = "paper" /\ UNCHANGED <<book, node, heap, order_info, order_arrival_seq>>
  BY DEF TradeAgainstPaper, bookVars
<1>3. call \in Handler /\ HandlerState /\ call.remaining \in Nat
  BY <1>2, HandlerFacts
<1>4. Append(call.fills, PaperFill(id, p, fill)) \in Seq(Fill)
  BY <1>1, <1>3, FillAppended
<1>5. call.remaining - fill \in Nat
  BY <1>1, <1>3
<1>6. /\ call' \in Handler
      /\ call'.pc = "paper"
      /\ call'.event = call.event
  BY <1>1, <1>2, <1>3, <1>4, <1>5 DEF Handler
<1>7. /\ PaperInvariant' /\ NoEmptyLevel' /\ PoolMatches'
      /\ DOMAIN paper_orders' \subseteq DOMAIN paper_orders
  <2>1. "PARTIALLY_FILLED" \in PaperOrderStatus
    BY DEF PaperOrderStatus
  <2>2. PICK told \in Int : LeavePaperOrder(id, fill, told, "PARTIALLY_FILLED")
    <3>1. (IF fill = paper_orders[id].remaining THEN 0 ELSE fill) \in Int
      OBVIOUS
    <3> QED BY <1>1, <3>1, FilledOrderLeaves DEF Inductive
  <2> QED BY <1>1, <1>2, <1>6, <2>1, <2>2, PaperReduced
<1>8. HandlerState'
  BY <1>2, <1>3, <1>6, <1>7 DEF HandlerState
<1>9. BookInvariant'
  BY <1>2, BookKept
<1>10. IdsApart' /\ HeapTypes'
  BY <1>2, <1>7 DEF Inductive, IdsApart, HeapTypes
<1> QED BY <1>6, <1>7, <1>8, <1>9, <1>10 DEF Inductive, CallInvariant
-----------------------------------------------------------------------------
(***************************************************************************)
(* An order comes to rest.                                                 *)
(***************************************************************************)
LEMMA RestHistoricalStep ==
  ASSUME Inductive, RestHistorical
  PROVE  Inductive'
<1> DEFINE e == call.event
           n == order_arrival_seq
<1>1. /\ call.pc = "rest"
      /\ ~PoolExhausted
      /\ AppendNode(e.side, e.price, e.id, call.remaining)
      /\ order_info' = Put(order_info, e.id,
                           [side |-> e.side, price |-> e.price, node |-> n])
      /\ paper' = IF HasPaperLevel(e.side, e.price)
                    THEN [paper EXCEPT ![e.side][e.price] =
                            WithMarket(@, n, call.remaining)]
                    ELSE paper
      /\ call' = Idle
      /\ UNCHANGED <<paper_orders, paper_order_info, paper_pool>>
  BY DEF RestHistorical
<1>2. /\ e.side \in Sides
      /\ e.price \in Prices
      /\ e.id \in Ids
      /\ e.id \notin DOMAIN order_info \cup DOMAIN paper_orders
      /\ call.remaining \in Nat
      /\ n \in Nat
      /\ BookInvariant
      /\ PaperInvariant
  BY <1>1, HandlerFacts, HandlerKinds DEF Inductive, BookInvariant, BookTypes
<1> HIDE DEF e
<1>3. BookInvariant'
  BY <1>1, <1>2, NodeEnters
<1>4. PaperInvariant' /\ SameOrders
  <2>1. CASE e.price \in DOMAIN paper[e.side]
    <3>1. paper' = [paper EXCEPT ![e.side][e.price] =
                      WithMarket(@, n, call.remaining)]
      BY <1>1, <2>1 DEF HasPaperLevel
    <3>2. call.remaining \in Int
      BY <1>2
    <3>3. UNCHANGED <<paper_orders, paper_order_info>>
      BY <1>1
    <3> QED BY <1>2, <2>1, <3>1, <3>2, <3>3, NodeJoinsLevel
  <2>2. CASE e.price \notin DOMAIN paper[e.side]
    <3>1. UNCHANGED <<paper, paper_orders, paper_order_info>>
      BY <1>1, <2>2 DEF HasPaperLevel
    <3>2. PaperInvariant'
      BY <1>2, <3>1 DEF PaperInvariant, PaperTypes, OrdersIndexed,
                        HasPaperLevel, RestingAt
    <3> QED BY <3>1, <3>2 DEF SameOrders
  <2> QED BY <2>1, <2>2
<1>5. NoEmptyLevel' /\ PoolMatches'
  BY <1>1, <1>4, OrdersKept DEF Idle
<1>6. IdsApart'
  <2>1. DOMAIN order_info' = DOMAIN order_info \cup {e.id}
    BY <1>1 DEF Put
  <2> QED BY <1>1, <1>2, <2>1 DEF Inductive, IdsApart
<1>7. HeapTypes'
  BY <1>1, <1>2, PricesAssumption
     DEF AppendNode, Inductive, HeapTypes, Bag, Pushed
<1>8. CallInvariant'
  BY <1>1 DEF CallInvariant
<1> QED BY <1>3, <1>4, <1>5, <1>6, <1>7, <1>8 DEF Inductive

LEMMA AcquirePaperNodeStep ==
  ASSUME Inductive, AcquirePaperNode
  PROVE  Inductive'
<1> DEFINE e == call.event
<1>1. /\ call.pc = "rest"
      /\ e.source = "STRATEGY"
      /\ call.remaining > 0
      /\ Cardinality(paper_pool) < PaperCapacity
      /\ paper_pool' = paper_pool \cup {e.id}
      /\ paper' = IF HasPaperLevel(e.side, e.price)
                    THEN paper
                    ELSE [paper EXCEPT ![e.side] =
                            Put(@, e.price, NewPaperLevel)]
      /\ call' = [call EXCEPT !.pc = "mirror", !.it = 1]
      /\ UNCHANGED <<book, node, heap, order_info, order_arrival_seq,
                     paper_orders, paper_order_info>>
  BY DEF AcquirePaperNode, bookVars
<1>2. /\ call \in Handler
      /\ HandlerState
      /\ e.side \in Sides
      /\ e.price \in Prices
      /\ e.id \in Ids
      /\ e.id \notin DOMAIN order_info \cup DOMAIN paper_orders
      /\ PaperInvariant
  BY <1>1, HandlerFacts, HandlerKinds DEF Inductive
<1>3. /\ call' \in Handler
      /\ call'.pc = "mirror"
      /\ call'.event = e
      /\ call'.remaining = call.remaining
  <2>1. PICK it \in Nat \ {0} : call' = [call EXCEPT !.pc = "mirror", !.it = it]
    <3>1. 1 \in Nat \ {0}
      OBVIOUS
    <3>2. call' = [call EXCEPT !.pc = "mirror", !.it = 1]
      BY <1>1
    <3> QED BY <3>1, <3>2
  <2>2. call \in Handler
    BY <1>2
  <2> QED BY <2>1, <2>2 DEF Handler
<1> HIDE DEF e
<1>4. /\ PaperInvariant'
      /\ e.price \in DOMAIN paper'[e.side]
      /\ \A s \in Sides : \A q \in DOMAIN paper'[s] :
           \/ s = e.side /\ q = e.price
           \/ q \in DOMAIN paper[s] /\ paper'[s][q] = paper[s][q]
  <2>1. CASE e.price \in DOMAIN paper[e.side]
    <3>1. paper' = paper
      BY <1>1, <2>1 DEF HasPaperLevel
    <3>2. PaperInvariant'
      BY <1>1, <1>2, <3>1 DEF PaperInvariant, PaperTypes, OrdersIndexed,
                              HasPaperLevel, RestingAt
    <3> QED BY <2>1, <3>1, <3>2
  <2>2. CASE e.price \notin DOMAIN paper[e.side]
    <3>1. paper' = [paper EXCEPT ![e.side] = Put(@, e.price, NewPaperLevel)]
      BY <1>1, <2>2 DEF HasPaperLevel
    <3> QED BY <1>1, <1>2, <2>2, <3>1, LevelMade
  <2> QED BY <2>1, <2>2
<1>5. NoEmptyLevel'
  BY <1>1, <1>3, <1>4, LevelsHaveOrders DEF NoEmptyLevel, ComingToRest
<1>6. PoolMatches'
  <2>1. /\ paper_pool = DOMAIN paper_orders
        /\ IsFiniteSet(paper_pool)
    BY <1>1 DEF Inductive, PoolMatches
  <2>2. /\ IsFiniteSet(paper_pool')
        /\ Cardinality(paper_pool') = Cardinality(paper_pool) + 1
        /\ Cardinality(paper_pool) \in Nat
    BY <1>1, <1>2, <2>1, FS_AddElement, FS_CardinalityType
  <2>3. Cardinality(paper_pool') <= PaperCapacity
    BY <1>1, <2>2, CapacityAssumption
  <2> QED BY <1>1, <1>3, <2>1, <2>2, <2>3 DEF PoolMatches
<1>7. HandlerState'
  BY <1>1, <1>2, <1>3, <1>4 DEF HandlerState, HasPaperLevel, e
<1>8. BookInvariant'
  BY <1>1, BookKept
<1>9. IdsApart' /\ HeapTypes'
  BY <1>1 DEF Inductive, IdsApart, HeapTypes
<1> QED BY <1>3, <1>4, <1>5, <1>6, <1>7, <1>8, <1>9 DEF Inductive, CallInvariant

LEMMA MirrorNodeStep ==
  ASSUME Inductive, MirrorNode
  PROVE  Inductive'
<1> DEFINE e == call.event
           n == OwnQueue[call.it]
<1>1. /\ call.pc = "mirror"
      /\ call.it <= Len(OwnQueue)
      /\ paper' = [paper EXCEPT ![e.side][e.price] = WithMarket(@, n, node[n].qty)]
      /\ call' = [call EXCEPT !.it = @ + 1]
      /\ UNCHANGED <<book, node, heap, order_info, order_arrival_seq,
                     paper_orders, paper_order_info, paper_pool>>
  BY DEF MirrorNode, Mirroring, bookVars
<1>2. /\ call \in Handler
      /\ HandlerState
      /\ e.side \in Sides
      /\ e.price \in Prices
      /\ call.it \in Nat \ {0}
      /\ e.price \in DOMAIN paper[e.side]
      /\ PaperInvariant
      /\ BookInvariant
  BY <1>1, HandlerFacts DEF Inductive, HandlerState, HasPaperLevel
<1>3. n \in Nat /\ node[n].qty \in Int
  <2>1. CASE e.price \in DOMAIN book[e.side]
    <3>1. OwnQueue = book[e.side][e.price]
      BY <2>1 DEF OwnQueue
    <3>2. Len(book[e.side][e.price]) \in Nat
      BY <1>2, <2>1, QueueFacts
    <3>3. call.it \in 1 .. Len(book[e.side][e.price])
      <4>1. call.it <= Len(book[e.side][e.price])
        BY <1>1, <3>1
      <4>2. call.it \in Nat /\ call.it # 0
        BY <1>2
      <4> QED BY <3>2, <4>1, <4>2
    <3>4. n \in ToSet(book[e.side][e.price])
      BY <1>2, <2>1, <3>1, <3>3, QueueFacts
    <3>5. n \in Nat /\ node[n].qty \in Nat
      BY <1>2, <2>1, <3>4, QueueFacts
    <3> QED BY <3>5
  <2>2. CASE e.price \notin DOMAIN book[e.side]
    <3>1. OwnQueue = <<>> /\ Len(<<>>) = 0
      BY <2>2 DEF OwnQueue
    <3> QED BY <1>1, <1>2, <3>1
  <2> QED BY <2>1, <2>2
<1>4. /\ call' \in Handler
      /\ call'.pc = "mirror"
      /\ call'.event = e
      /\ call'.remaining = call.remaining
  <2>1. /\ call' = [call EXCEPT !.it = call.it + 1]
        /\ call.pc = "mirror"
        /\ call.it + 1 \in Nat \ {0}
    BY <1>1, <1>2
  <2> QED BY <1>2, <2>1 DEF Handler
<1> HIDE DEF e, n
<1>5. PaperInvariant' /\ SameOrders
  BY <1>1, <1>2, <1>3, NodeJoinsLevel
<1>6. NoEmptyLevel'
  BY <1>1, <1>4, <1>5 DEF Inductive, NoEmptyLevel, ComingToRest, SameOrders, e
<1>7. PoolMatches'
  BY <1>1, <1>4 DEF Inductive, PoolMatches, e
<1>8. HandlerState'
  BY <1>1, <1>2, <1>4, <1>5 DEF HandlerState, HasPaperLevel, SameOrders, e
<1>9. BookInvariant'
  BY <1>1, BookKept
<1>10. IdsApart' /\ HeapTypes'
  BY <1>1 DEF Inductive, IdsApart, HeapTypes
<1> QED BY <1>4, <1>5, <1>6, <1>7, <1>8, <1>9, <1>10 DEF Inductive, CallInvariant

LEMMA RestStrategyStep ==
  ASSUME Inductive, RestStrategy
  PROVE  Inductive'
<1> DEFINE e      == call.event
           level  == paper[e.side][e.price]
           status == IF call.remaining < e.qty THEN "PARTIALLY_FILLED" ELSE "OPEN"
<1>1. /\ call.pc = "mirror"
      /\ paper_orders' = Put(paper_orders, e.id,
           [remaining |-> call.remaining, status |-> status,
            placement_seq |-> order_arrival_seq,
            paper_index |-> Len(level.paper_qty)])
      /\ paper' = [paper EXCEPT ![e.side][e.price] =
                     Joined(level, e.id, call.remaining)]
      /\ paper_order_info' = Put(paper_order_info, e.id,
                                 [side |-> e.side, price |-> e.price])
      /\ order_arrival_seq' = order_arrival_seq + 1
      /\ call' = Idle
      /\ UNCHANGED <<book, node, heap, order_info, paper_pool>>
  BY DEF RestStrategy, bookVars
<1>2. /\ call \in Handler
      /\ e.side \in Sides
      /\ e.price \in Prices
      /\ e.id \in Ids
      /\ e.id \notin DOMAIN order_info \cup DOMAIN paper_orders
      /\ e.price \in DOMAIN paper[e.side]
      /\ call.remaining \in Nat
      /\ call.remaining > 0
      /\ PaperInvariant
      /\ BookInvariant
      /\ order_arrival_seq \in Nat
  BY <1>1, HandlerFacts, HandlerKinds
     DEF Inductive, HandlerState, HasPaperLevel, BookInvariant, BookTypes
<1>3. status \in PaperOrderStatus
  BY DEF PaperOrderStatus
<1> HIDE DEF e, status
<1>4. /\ PaperInvariant'
      /\ DOMAIN paper_orders' = DOMAIN paper_orders \cup {e.id}
      /\ \A s \in Sides : \A q \in DOMAIN paper'[s] :
           paper'[s][q].orders = <<>> =>
             /\ s # e.side \/ q # e.price
             /\ q \in DOMAIN paper[s]
             /\ paper[s][q].orders = <<>>
  <2>1. paper' = [paper EXCEPT ![e.side][e.price] =
                    Joined(paper[e.side][e.price], e.id, call.remaining)]
    BY <1>1
  <2>2. /\ paper_orders' = Put(paper_orders, e.id,
             [remaining |-> call.remaining, status |-> status,
              placement_seq |-> order_arrival_seq,
              paper_index |-> Len(paper[e.side][e.price].paper_qty)])
        /\ paper_order_info' = Put(paper_order_info, e.id,
                                   [side |-> e.side, price |-> e.price])
    BY <1>1
  <2>3. e.id \in Ids \ DOMAIN paper_orders
    BY <1>2
  <2>4. /\ PaperInvariant
        /\ e.side \in Sides
        /\ e.price \in DOMAIN paper[e.side]
        /\ call.remaining \in Nat
        /\ call.remaining > 0
        /\ order_arrival_seq \in Nat
    BY <1>2
  <2> QED BY <1>3, <2>1, <2>2, <2>3, <2>4, OrderJoins
<1>5. NoEmptyLevel'
  BY <1>4 DEF Inductive, NoEmptyLevel, ComingToRest, e
<1>6. PoolMatches'
  BY <1>1, <1>4 DEF Inductive, PoolMatches, Idle, e
<1>7. IdsApart'
  BY <1>1, <1>2, <1>4 DEF Inductive, IdsApart
<1>8. BookInvariant'
  <2>1. BookTypes'
    BY <1>1, <1>2 DEF BookInvariant, BookTypes
  <2>2. QueuesApart'
    <3> SUFFICES ASSUME NEW s \in Sides, NEW q \in DOMAIN book[s]
                 PROVE  /\ Increasing(book[s][q])
                        /\ \A m \in ToSet(book[s][q]) :
                             /\ m \in DOMAIN node
                             /\ m < order_arrival_seq'
                             /\ \A s2 \in Sides : \A q2 \in Prices :
                                  Queued(s2, q2, m) => s2 = s /\ q2 = q
      BY <1>1 DEF QueuesApart, Queued
    <3>1. ASSUME NEW m \in ToSet(book[s][q])
          PROVE  m < order_arrival_seq'
      <4>1. m \in Nat /\ m < order_arrival_seq
        BY <1>2, QueueFacts DEF BookInvariant, QueuesApart
      <4> QED BY <1>1, <1>2, <4>1
    <3> QED BY <1>2, <3>1 DEF BookInvariant, QueuesApart
  <2>3. NodesIndexed'
    BY <1>1, <1>2 DEF BookInvariant, NodesIndexed, Queued, Side, Price, NodeOf
  <2> QED BY <2>1, <2>2, <2>3 DEF BookInvariant
<1>9. HeapTypes' /\ CallInvariant'
  BY <1>1 DEF Inductive, HeapTypes, CallInvariant
<1> QED BY <1>4, <1>5, <1>6, <1>7, <1>8, <1>9 DEF Inductive
-----------------------------------------------------------------------------
(***************************************************************************)
(* Updates of a resting order.                                             *)
(***************************************************************************)
LEMMA SetHistoricalStep ==
  ASSUME Inductive, call = Idle, NEW id \in DOMAIN order_info, NEW qty \in Int,
         SetHistorical(id, qty)
  PROVE  Inductive'
<1> DEFINE delta == qty - node[NodeOf(id)].qty
<1>1. /\ Requantify(id, qty)
      /\ paper' = PaperMarketAdjusted(Side(id), Price(id), NodeOf(id), delta)
      /\ UNCHANGED <<heap, order_arrival_seq, paper_orders, paper_order_info,
                     paper_pool, call>>
  BY DEF SetHistorical
<1>2. BookInvariant /\ PaperInvariant /\ Side(id) \in Sides /\ delta \in Int
  BY OrderFacts DEF Inductive
<1> HIDE DEF delta
<1>3. BookInvariant' /\ DOMAIN order_info' \subseteq DOMAIN order_info
  BY <1>1, <1>2, Requantified
<1>4. PaperInvariant' /\ SameOrders
  BY <1>1, <1>2, LevelAdjusted
<1>5. NoEmptyLevel' /\ PoolMatches'
  BY <1>1, <1>4, OrdersKept DEF Idle
<1>6. IdsApart' /\ HeapTypes' /\ CallInvariant'
  BY <1>1, <1>3 DEF Inductive, IdsApart, HeapTypes, CallInvariant
<1> QED BY <1>3, <1>4, <1>5, <1>6 DEF Inductive

LEMMA PaperOrderChanges ==
  ASSUME Inductive, call = Idle,
         UNCHANGED <<bookVars, order_arrival_seq, call>>,
         NEW id \in DOMAIN paper_orders,
         NEW qty \in Int, qty <= paper_orders[id].remaining,
         NEW status, qty # paper_orders[id].remaining => status \in PaperOrderStatus,
         TakeFromPaperOrder(id, qty, status)
  PROVE  Inductive'
<1>1. UNCHANGED <<book, node, heap, order_info, order_arrival_seq, call>>
  BY DEF bookVars
<1>2. BookInvariant'
  BY <1>1, BookKept
<1>3. /\ PaperInvariant' /\ NoEmptyLevel' /\ PoolMatches'
      /\ DOMAIN paper_orders' \subseteq DOMAIN paper_orders
  BY <1>1, PaperReduced DEF Idle, TakeFromPaperOrder
<1>4. IdsApart' /\ HeapTypes' /\ CallInvariant'
  BY <1>1, <1>3 DEF Inductive, IdsApart, HeapTypes, CallInvariant
<1> QED BY <1>2, <1>3, <1>4 DEF Inductive

\* An event that is not rejected names an order of its source.
LEMMA Known ==
  ASSUME Inductive, NEW e \in Event, ~Unknown(e)
  PROVE  /\ e.source = "HISTORICAL" => e.id \in DOMAIN order_info
         /\ e.source = "STRATEGY" => e.id \in DOMAIN paper_orders
BY DEF Unknown, Inductive, PaperInvariant, OrdersIndexed

LEMMA PaperQuantity ==
  ASSUME Inductive, NEW id \in DOMAIN paper_orders
  PROVE  /\ paper_orders[id].remaining \in Int
         /\ paper_orders[id].status \in PaperOrderStatus
<1>1. PaperInvariant
  BY DEF Inductive
<1>2. /\ paper_orders[id].remaining \in Nat
      /\ paper_orders[id].status \in PaperOrderStatus
  BY <1>1, PaperOrderFacts
<1> QED BY <1>2

LEMMA TakenFacts ==
  ASSUME Inductive, NEW e, e.id \in DOMAIN order_info, e.qty \in Int
  PROVE  /\ node[NodeOf(e.id)].qty \in Nat
         /\ Taken(e) \in Int
         /\ e.qty >= 0 => Taken(e) \in Nat
<1> DEFINE qty == node[NodeOf(e.id)].qty
<1>1. BookInvariant
  BY DEF Inductive
<1>2. qty \in Nat
  BY <1>1, OrderFacts
<1> HIDE DEF qty
<1>3. Taken(e) = Lesser(qty, e.qty)
  BY DEF Taken, qty
<1>4. qty \in Int
  BY <1>2
<1> QED BY <1>2, <1>3, <1>4, LesserFacts DEF qty

LEMMA OnDeleteStep ==
  ASSUME Inductive, NEW e \in Event, OnDelete(e)
  PROVE  Inductive'
<1>1. call = Idle /\ ~Unknown(e)
  BY DEF OnDelete, Accepts, Rejected
<1>2. CASE e.source = "HISTORICAL" /\ SetHistorical(e.id, 0)
  BY <1>1, <1>2, Known, SetHistoricalStep
<1>3. CASE /\ e.source = "STRATEGY"
           /\ TakeFromPaperOrder(e.id, paper_orders[e.id].remaining, "CANCELLED")
           /\ UNCHANGED <<bookVars, order_arrival_seq, call>>
  <2>1. e.id \in DOMAIN paper_orders
    BY <1>1, <1>3, Known
  <2>2. paper_orders[e.id].remaining \in Int
    BY <2>1, PaperQuantity
  <2> QED BY <1>1, <1>3, <2>1, <2>2, PaperOrderChanges
<1> QED BY <1>2, <1>3 DEF OnDelete

LEMMA OnSubtractStep ==
  ASSUME Inductive, NEW e \in Event, OnSubtract(e)
  PROVE  Inductive'
<1>1. call = Idle /\ ~Unknown(e) /\ e.qty \in Int /\ e.qty > 0
  BY DEF OnSubtract, Accepts, Rejected, SubtractRejected, Event
<1>2. CASE /\ e.source = "HISTORICAL"
           /\ SetHistorical(e.id, node[NodeOf(e.id)].qty - Taken(e))
  <2>1. e.id \in DOMAIN order_info
    BY <1>1, <1>2, Known
  <2>2. node[NodeOf(e.id)].qty - Taken(e) \in Int
    <3>1. node[NodeOf(e.id)].qty \in Int /\ Taken(e) \in Int
      BY <1>1, <2>1, TakenFacts
    <3> QED BY <3>1
  <2> QED BY <1>1, <1>2, <2>1, <2>2, SetHistoricalStep
<1>3. CASE /\ e.source = "STRATEGY"
           /\ TakeFromPaperOrder(e.id, Lesser(paper_orders[e.id].remaining, e.qty),
                                 paper_orders[e.id].status)
           /\ UNCHANGED <<bookVars, order_arrival_seq, call>>
  <2>1. e.id \in DOMAIN paper_orders
    BY <1>1, <1>3, Known
  <2>2. /\ paper_orders[e.id].remaining \in Int
        /\ paper_orders[e.id].status \in PaperOrderStatus
    BY <2>1, PaperQuantity
  <2>3. /\ Lesser(paper_orders[e.id].remaining, e.qty) \in Int
        /\ Lesser(paper_orders[e.id].remaining, e.qty) <= paper_orders[e.id].remaining
    BY <1>1, <2>2, LesserFacts
  <2> QED BY <1>1, <1>3, <2>1, <2>2, <2>3, PaperOrderChanges
<1> QED BY <1>2, <1>3 DEF OnSubtract

LEMMA OnSetStep ==
  ASSUME Inductive, NEW e \in Event, OnSet(e)
  PROVE  Inductive'
<1> DEFINE qty == IF e.qty < 0 THEN 0 ELSE e.qty
<1>1. call = Idle /\ ~Unknown(e) /\ qty \in Int /\ qty >= 0
  BY DEF OnSet, Accepts, Rejected, Event
<1> HIDE DEF qty
<1>2. CASE e.source = "HISTORICAL" /\ SetHistorical(e.id, qty)
  BY <1>1, <1>2, Known, SetHistoricalStep
<1>3. CASE /\ e.source = "STRATEGY"
           /\ TakeFromPaperOrder(e.id, paper_orders[e.id].remaining - qty,
                                 paper_orders[e.id].status)
           /\ UNCHANGED <<bookVars, order_arrival_seq, call>>
  <2>1. e.id \in DOMAIN paper_orders
    BY <1>1, <1>3, Known
  <2>2. /\ paper_orders[e.id].remaining \in Int
        /\ paper_orders[e.id].status \in PaperOrderStatus
    BY <2>1, PaperQuantity
  <2>3. /\ paper_orders[e.id].remaining - qty \in Int
        /\ paper_orders[e.id].remaining - qty <= paper_orders[e.id].remaining
    BY <1>1, <2>2
  <2> QED BY <1>1, <1>3, <2>1, <2>2, <2>3, PaperOrderChanges
<1> QED BY <1>2, <1>3 DEF OnSet, qty

LEMMA OnMatchStep ==
  ASSUME Inductive, NEW e \in Event, OnMatch(e)
  PROVE  Inductive'
<1> DEFINE taken  == Taken(e)
           pc     == IF taken > 0 THEN "queue" ELSE "settle"
           deltas == IF taken > 0 THEN <<[seq |-> NodeOf(e.id), qty |-> taken]>>
                                  ELSE <<>>
<1>1. /\ call = Idle
      /\ e.type = "MATCH"
      /\ e.qty \in Int
      /\ e.qty > 0
      /\ e.id \in DOMAIN order_info
      /\ call' = [NewCall(pc, e, Side(e.id), Price(e.id)) EXCEPT
                    !.lots = taken, !.deltas = deltas]
      /\ UNCHANGED <<book, node, heap, order_info, order_arrival_seq, paper,
                     paper_orders, paper_order_info, paper_pool>>
  BY DEF OnMatch, Accepts, Rejected, MatchRejected, Event, bookVars, paperVars
<1>2. /\ Side(e.id) \in Sides
      /\ Price(e.id) \in Prices
      /\ NodeOf(e.id) \in Nat
      /\ node[NodeOf(e.id)].qty \in Nat
  BY <1>1, OrderFacts DEF Inductive
<1>3. taken \in Nat
  BY <1>1, <1>2, LesserFacts DEF Taken
<1> HIDE DEF taken
<1>4. deltas \in Seq([seq : Nat, qty : Nat])
  <2>1. \A S : <<>> \in Seq(S)
    BY EmptySeq
  <2>2. [seq |-> NodeOf(e.id), qty |-> taken] \in [seq : Nat, qty : Nat]
    BY <1>2, <1>3
  <2>3. \A S : \A x \in S : <<x>> \in Seq(S)
    OBVIOUS
  <2> QED BY <2>1, <2>2, <2>3
<1>5. pc \in {"queue", "settle"}
  OBVIOUS
<1> HIDE DEF pc, deltas
<1>6. NewCall(pc, e, Side(e.id), Price(e.id)) \in Handler
  BY <1>1, <1>2, <1>5, NewCallType
<1>7. /\ call' \in Handler
      /\ call'.pc = pc
      /\ call'.event = e
  BY <1>1, <1>3, <1>4, <1>6 DEF Handler, NewCall
<1>8. HandlerState'
  BY <1>1, <1>5, <1>7 DEF HandlerState
<1> QED BY <1>1, <1>5, <1>7, <1>8, CallMoves DEF Idle

LEMMA MatchFillStep ==
  ASSUME Inductive, MatchFill
  PROVE  Inductive'
<1> DEFINE e    == call.event
           fill == BookFill(NodeOf(e.id), Price(e.id), Taken(e))
<1>1. /\ call.pc = "settle"
      /\ e.type = "MATCH"
      /\ call' = [call EXCEPT !.pc = "reduce", !.fills = Append(@, fill)]
      /\ UNCHANGED <<book, node, heap, order_info, order_arrival_seq, paper,
                     paper_orders, paper_order_info, paper_pool>>
  BY DEF MatchFill, bookVars, paperVars
<1>2. /\ call \in Handler
      /\ HandlerState
      /\ e.qty \in Nat
      /\ e.id \in DOMAIN order_info
  BY <1>1, HandlerFacts, HandlerKinds
<1>3. fill \in Fill
  <2>1. /\ NodeOf(e.id) \in DOMAIN node
        /\ Price(e.id) \in Prices
        /\ node[NodeOf(e.id)].qty \in Nat
    BY <1>2, OrderFacts DEF Inductive
  <2>2. Taken(e) \in Nat
    BY <1>2, TakenFacts
  <2> QED BY <1>2, <2>1, <2>2, BookFillType
<1> HIDE DEF fill
<1>4. Append(call.fills, fill) \in Seq(Fill)
  BY <1>2, <1>3, FillAppended
<1>5. /\ call' \in Handler
      /\ call'.pc = "reduce"
      /\ call'.event = e
  BY <1>1, <1>2, <1>4 DEF Handler
<1>6. HandlerState'
  BY <1>1, <1>2, <1>5 DEF HandlerState
<1> QED BY <1>1, <1>5, <1>6, CallMoves

LEMMA EndMatchStep ==
  ASSUME Inductive, EndMatch
  PROVE  Inductive'
<1> DEFINE e   == call.event
           qty == node[NodeOf(e.id)].qty - Taken(e)
<1>1. /\ call.pc = "reduce"
      /\ Requantify(e.id, qty)
      /\ call' = Idle
      /\ UNCHANGED <<heap, order_arrival_seq, paper, paper_orders,
                     paper_order_info, paper_pool>>
  BY DEF EndMatch, paperVars
<1>2. e.id \in DOMAIN order_info /\ e.qty \in Nat
  BY <1>1, HandlerFacts, HandlerKinds
<1>3. qty \in Int
  BY <1>2, OrderFacts, LesserFacts DEF Inductive, Taken
<1> HIDE DEF qty
<1>4. BookInvariant' /\ DOMAIN order_info' \subseteq DOMAIN order_info
  BY <1>1, <1>2, <1>3, Requantified DEF Inductive
<1>5. PaperInvariant' /\ NoEmptyLevel' /\ PoolMatches'
  BY <1>1, PaperKept DEF paperVars, Idle
<1>6. IdsApart' /\ HeapTypes' /\ CallInvariant'
  BY <1>1, <1>4 DEF Inductive, IdsApart, HeapTypes, CallInvariant
<1> QED BY <1>4, <1>5, <1>6 DEF Inductive
-----------------------------------------------------------------------------
(***************************************************************************)
(* Snapshots.                                                              *)
(***************************************************************************)
LEMMA Cleared ==
  ASSUME clear_state, call' = Idle \/ call' \in Load
  PROVE  Inductive'
<1>1. /\ book' = [side \in Sides |-> Empty]
      /\ node' = Empty
      /\ heap' = [side \in Sides |-> NoEntries]
      /\ order_info' = Empty
      /\ order_arrival_seq' = 0
      /\ paper' = [side \in Sides |-> Empty]
      /\ paper_orders' = Empty
      /\ paper_order_info' = Empty
      /\ paper_pool' = {}
  BY DEF clear_state
<1>2. /\ DOMAIN Empty = {}
      /\ \A D, R : IsPartial(Empty, D, R)
  BY DEF Empty, IsPartial
<1>3. IsFiniteSet({}) /\ Cardinality({}) = 0
  BY FS_EmptySet
<1>4. BookTypes'
  BY <1>1, <1>2 DEF BookTypes
<1>5. QueuesApart'
  BY <1>1, <1>2 DEF QueuesApart
<1>6. NodesIndexed'
  BY <1>1, <1>2, <1>3, CapacityAssumption DEF NodesIndexed
<1>7. PaperTypes'
  BY <1>1, <1>2 DEF PaperTypes
<1>8. OrdersIndexed'
  BY <1>1, <1>2 DEF OrdersIndexed
<1>9. NoEmptyLevel'
  BY <1>1, <1>2 DEF NoEmptyLevel
<1>10. PoolMatches'
  BY <1>1, <1>2, <1>3, CapacityAssumption DEF PoolMatches, Idle, Load
<1>11. HeapTypes'
  BY <1>1 DEF HeapTypes, NoEntries, Bag
<1>12. IdsApart' /\ CallInvariant'
  BY <1>1, <1>2 DEF IdsApart, CallInvariant
<1> QED BY <1>4, <1>5, <1>6, <1>7, <1>8, <1>9, <1>10, <1>11, <1>12
        DEF Inductive, BookInvariant, PaperInvariant

LEMMA InitFromSnapshotStep ==
  ASSUME NEW rows \in Seq(Row),
         InitFromL2Snapshot(rows) \/ InitFromL3Snapshot(rows)
  PROVE  Inductive'
BY Cleared DEF InitFromL2Snapshot, InitFromL3Snapshot, Load

\* A row adds a node, or nothing but an empty level.
LEMMA RowAdded ==
  ASSUME Inductive, call.pc \in {"l2", "l3"}, UNCHANGED paperVars,
         BookInvariant', HeapTypes', call' = Idle \/ NextRow, call.rows # <<>>
  PROVE  Inductive'
<1>1. /\ call \in Load
      /\ DOMAIN paper_orders = {}
      /\ UNCHANGED <<paper, paper_orders, paper_order_info, paper_pool>>
  BY CallKinds DEF paperVars
<1>2. call' = Idle \/ call' \in Load
  <2>1. CASE NextRow
    <3>1. call.rows \in Seq(Row) /\ call' = [call EXCEPT !.rows = Tail(@)]
      BY <1>1, <2>1 DEF Load, NextRow
    <3>2. Tail(call.rows) \in Seq(Row)
      BY <3>1, HeadTailProperties
    <3> QED BY <1>1, <3>1, <3>2 DEF Load
  <2> QED BY <2>1
<1>3. PaperInvariant' /\ NoEmptyLevel' /\ PoolMatches'
  BY <1>1, <1>2, PaperKept DEF Idle, Load
<1>4. IdsApart' /\ CallInvariant'
  BY <1>1, <1>2 DEF IdsApart, CallInvariant
<1> QED BY <1>3, <1>4 DEF Inductive

LEMMA RowFacts ==
  ASSUME Inductive, call.pc \in {"l2", "l3"}, call.rows # <<>>
  PROVE  LET r == Head(call.rows)
         IN  /\ r.side \in Sides
             /\ r.price \in Prices
             /\ r.qty \in Nat
             /\ r.id \in Ids
<1>1. call.rows \in Seq(Row)
  BY CallKinds DEF Load
<1>2. Head(call.rows) \in Row
  BY <1>1, HeadTailProperties
<1> QED BY <1>2 DEF Row

LEMMA NodeAppended ==
  ASSUME Inductive, NEW side \in Sides, NEW p \in Prices, NEW id, NEW qty,
         AppendNode(side, p, id, qty)
  PROVE  HeapTypes'
BY PricesAssumption DEF AppendNode, Inductive, HeapTypes, Bag, Pushed

LEMMA L2RowStep ==
  ASSUME Inductive, L2Row
  PROVE  Inductive'
<1> DEFINE r == Head(call.rows)
<1>1. call.pc = "l2" /\ call.rows # <<>> /\ UNCHANGED paperVars
  BY DEF L2Row
<1>2. /\ r.side \in Sides
      /\ r.price \in Prices
      /\ r.qty \in Nat
  BY <1>1, RowFacts
<1>3. CASE /\ call' = Idle \/ NextRow
           /\ UNCHANGED <<bookVars, order_arrival_seq>>
  <2>1. BookInvariant' /\ HeapTypes'
    BY <1>3, BookKept DEF bookVars, Inductive, HeapTypes
  <2> QED BY <1>1, <1>3, <2>1, RowAdded
<1>4. CASE /\ ~PoolExhausted
           /\ AppendNode(r.side, r.price, UnknownOrderId, r.qty)
           /\ NextRow
           /\ UNCHANGED order_info
  <2> HIDE DEF r
  <2>1. BookInvariant'
    BY <1>2, <1>4, NodeEnters DEF Inductive
  <2>2. HeapTypes'
    BY <1>2, <1>4, NodeAppended
  <2> QED BY <1>1, <1>4, <2>1, <2>2, RowAdded
<1> QED BY <1>3, <1>4 DEF L2Row

LEMMA L3RowStep ==
  ASSUME Inductive, L3Row
  PROVE  Inductive'
<1> DEFINE r == Head(call.rows)
<1>1. call.pc = "l3" /\ call.rows # <<>> /\ UNCHANGED paperVars
  BY DEF L3Row
<1>2. /\ r.side \in Sides
      /\ r.price \in Prices
      /\ r.qty \in Nat
      /\ r.id \in Ids
  BY <1>1, RowFacts
<1>3. CASE call' = Idle /\ UNCHANGED <<bookVars, order_arrival_seq>>
  <2>1. BookInvariant' /\ HeapTypes'
    BY <1>3, BookKept DEF bookVars, Inductive, HeapTypes
  <2> QED BY <1>1, <1>3, <2>1, RowAdded
<1>4. CASE /\ book' = IF r.price \in DOMAIN book[r.side]
                        THEN book
                        ELSE [book EXCEPT ![r.side] = Put(@, r.price, <<>>)]
           /\ NextRow
           /\ UNCHANGED <<node, heap, order_info, order_arrival_seq>>
  <2>1. BookInvariant'
    <3> HIDE DEF r
    <3>1. CASE r.price \in DOMAIN book[r.side]
      BY <1>4, <3>1, BookKept
    <3>2. CASE r.price \notin DOMAIN book[r.side]
      <4>1. /\ DOMAIN book = Sides
            /\ \A side \in Sides : IsPartial(book[side], Prices, Seq(Nat))
            /\ BookInvariant
        BY DEF Inductive, BookInvariant, BookTypes
      <4>2. /\ DOMAIN book' = Sides
            /\ \A side \in Sides : side # r.side => book'[side] = book[side]
            /\ book'[r.side] = Put(book[r.side], r.price, <<>>)
        BY <1>2, <1>4, <3>2, <4>1
      <4>3. <<>> \in Seq(Nat)
        BY EmptySeq
      <4>4. /\ IsPartial(book'[r.side], Prices, Seq(Nat))
            /\ DOMAIN book'[r.side] = DOMAIN book[r.side] \cup {r.price}
            /\ book'[r.side][r.price] = <<>>
            /\ \A p \in DOMAIN book[r.side] :
                 book'[r.side][p] = book[r.side][p]
        BY <1>2, <3>2, <4>1, <4>2, <4>3 DEF IsPartial, Put
      <4>5. /\ \A side \in Sides : IsPartial(book'[side], Prices, Seq(Nat))
            /\ \A side \in Sides : \A p \in DOMAIN book'[side] :
                 \/ book'[side][p] = <<>>
                 \/ p \in DOMAIN book[side] /\ book'[side][p] = book[side][p]
            /\ \A side \in Sides : \A p \in DOMAIN book[side] :
                 p \in DOMAIN book'[side] /\ book'[side][p] = book[side][p]
        BY <4>1, <4>2, <4>4
      <4> QED BY <1>4, <4>1, <4>2, <4>5, SameQueues
    <3> QED BY <3>1, <3>2
  <2>2. HeapTypes'
    BY <1>4 DEF Inductive, HeapTypes
  <2> QED BY <1>1, <1>4, <2>1, <2>2, RowAdded
<1>5. CASE /\ r.id \notin DOMAIN order_info
           /\ ~PoolExhausted
           /\ AppendNode(r.side, r.price, r.id, r.qty)
           /\ order_info' = Put(order_info, r.id,
                                [side |-> r.side, price |-> r.price,
                                 node |-> order_arrival_seq])
           /\ NextRow
  <2> HIDE DEF r
  <2>1. BookInvariant'
    BY <1>2, <1>5, NodeEnters DEF Inductive
  <2>2. HeapTypes'
    BY <1>2, <1>5, NodeAppended
  <2> QED BY <1>1, <1>5, <2>1, <2>2, RowAdded
<1> QED BY <1>3, <1>4, <1>5 DEF L3Row
LEMMA EndSnapshotStep ==
  ASSUME Inductive, EndSnapshot
  PROVE  Inductive'
BY CallMoves DEF EndSnapshot, bookVars, paperVars
-----------------------------------------------------------------------------
(***************************************************************************)
(* The engine starts in a state that satisfies Inductive, ...              *)
(***************************************************************************)
THEOREM Initially == Init => Inductive
<1> SUFFICES ASSUME Init PROVE Inductive
  OBVIOUS
<1>1. /\ DOMAIN Empty = {}
      /\ \A D, R : IsPartial(Empty, D, R)
  BY DEF Empty, IsPartial
<1>2. IsFiniteSet({}) /\ Cardinality({}) = 0
  BY FS_EmptySet
<1>3. BookInvariant
  BY <1>1, <1>2, CapacityAssumption
     DEF Init, BookInvariant, BookTypes, QueuesApart, NodesIndexed
<1>4. PaperInvariant /\ NoEmptyLevel /\ IdsApart
  BY <1>1 DEF Init, PaperInvariant, PaperTypes, OrdersIndexed, NoEmptyLevel, IdsApart
<1>5. PoolMatches
  BY <1>1, <1>2, CapacityAssumption DEF Init, PoolMatches, Idle
<1>6. HeapTypes /\ CallInvariant
  BY DEF Init, HeapTypes, NoEntries, Bag, CallInvariant
<1> QED BY <1>3, <1>4, <1>5, <1>6 DEF Inductive

(***************************************************************************)
(* ... every step of every handler preserves it, ...                       *)
(***************************************************************************)
THEOREM StepPreservesInductive == Inductive /\ [Next]_vars => Inductive'
<1> SUFFICES ASSUME Inductive, [Next]_vars PROVE Inductive'
  OBVIOUS
<1>1. ASSUME NEW e \in Events, update(e) PROVE Inductive'
  <2>1. e \in Event
    BY EventsAssumption
  <2>2. CASE OnAdd(e)
    BY <2>1, <2>2, OnAddStep
  <2>3. CASE OnAggressiveTrade(e)
    BY <2>1, <2>3, OnAggressiveTradeStep
  <2>4. CASE OnDelete(e)
    BY <2>1, <2>4, OnDeleteStep
  <2>5. CASE OnSubtract(e)
    BY <2>1, <2>5, OnSubtractStep
  <2>6. CASE OnMatch(e)
    BY <2>1, <2>6, OnMatchStep
  <2>7. CASE OnSet(e)
    BY <2>1, <2>7, OnSetStep
  <2>8. CASE Reject(e)
    BY <2>8, RejectStep DEF Reject
  <2> QED BY <1>1, <2>2, <2>3, <2>4, <2>5, <2>6, <2>7, <2>8 DEF update
<1>2. ASSUME NEW rows \in L2Snapshots \cup L3Snapshots,
             InitFromL2Snapshot(rows) \/ InitFromL3Snapshot(rows)
      PROVE  Inductive'
  BY <1>2, InitFromSnapshotStep, SnapshotsAssumption
<1>3. ASSUME NEW side \in Sides, GetBestPriceTicks(side) PROVE Inductive'
  BY <1>3, GetBestPriceStep
<1>4. ASSUME Continue PROVE Inductive'
  <2>1. CASE StrategySweep
    BY <2>1, StrategySweepStep
  <2>2. CASE HistoricalSweep
    BY <2>2, HistoricalSweepStep
  <2>3. CASE EndSweep
    BY <2>3, EndSweepStep
  <2>4. CASE QueueFill
    BY <2>4, QueueFillStep
  <2>5. CASE EndQueue
    BY <2>5, EndQueueStep
  <2>6. CASE Settle
    BY <2>6, SettleStep
  <2>7. CASE EndLevel
    BY <2>7, EndLevelStep
  <2>8. CASE TradeAgainstPaper
    BY <2>8, TradeAgainstPaperStep
  <2>9. CASE EndPaper
    BY <2>9, EndPaperStep
  <2>10. CASE EndAdd
    BY <2>10, EndAddStep
  <2>11. CASE RestHistorical
    BY <2>11, RestHistoricalStep
  <2>12. CASE AcquirePaperNode
    BY <2>12, AcquirePaperNodeStep
  <2>13. CASE MirrorNode
    BY <2>13, MirrorNodeStep
  <2>14. CASE RestStrategy
    BY <2>14, RestStrategyStep
  <2>15. CASE MatchFill
    BY <2>15, MatchFillStep
  <2>16. CASE EndMatch
    BY <2>16, EndMatchStep
  <2>17. CASE L2Row
    BY <2>17, L2RowStep
  <2>18. CASE L3Row
    BY <2>18, L3RowStep
  <2>19. CASE EndSnapshot
    BY <2>19, EndSnapshotStep
  <2> QED BY <1>4, <2>1, <2>2, <2>3, <2>4, <2>5, <2>6, <2>7, <2>8, <2>9, <2>10,
             <2>11, <2>12, <2>13, <2>14, <2>15, <2>16, <2>17, <2>18, <2>19
          DEF Continue
<1>5. CASE UNCHANGED vars
  BY <1>5, RejectStep
<1> QED BY <1>1, <1>2, <1>3, <1>4, <1>5 DEF Next

(***************************************************************************)
(* ... so every reachable state satisfies it, whatever the events, the     *)
(* prices and the capacities of the pools.                                 *)
(***************************************************************************)
THEOREM Invariance == Spec => []Inductive
<1>1. Init => Inductive
  BY Initially
<1>2. Inductive /\ [Next]_vars => Inductive'
  BY StepPreservesInductive
<1> QED BY <1>1, <1>2, PTL DEF Spec

(***************************************************************************)
(* Every variable, and every local variable of a handler, keeps its type.  *)
(* No quantity is negative, provided that none in a snapshot is            *)
(* (SnapshotsAssumption); those of events the handlers check themselves.   *)
(***************************************************************************)
THEOREM TypeCorrect == Spec => []TypeOK
<1>1. ASSUME Inductive PROVE TypeOK
  <2>1. BookTypes /\ HeapTypes /\ PaperTypes
    BY <1>1 DEF Inductive, BookInvariant, PaperInvariant
  <2>2. paper_pool \in SUBSET Ids
    <3>1. DOMAIN paper_orders \subseteq Ids
      BY <2>1 DEF PaperTypes, IsPartial
    <3>2. call.pc = "mirror" => call.event.id \in Ids
      BY <1>1, HandlerFacts
    <3> QED BY <1>1, <3>1, <3>2 DEF Inductive, PoolMatches
  <2>3. call = Idle \/ call \in Load \/ call \in Handler
    BY <1>1 DEF Inductive, CallInvariant
  <2> QED BY <2>1, <2>2, <2>3 DEF BookTypes, HeapTypes, PaperTypes, TypeOK
<1> QED BY <1>1, Invariance, PTL

(***************************************************************************)
(* order_info, the queues of the book and the pool name the same orders:   *)
(* no handler ever meets a missing level, a released or a leaked node.     *)
(***************************************************************************)
THEOREM BookAlwaysIndexed == Spec => []BookIndexed
<1>1. ASSUME Inductive PROVE BookIndexed
  <2>1. NodesIndexed /\ QueuesApart /\ BookTypes
    BY <1>1 DEF Inductive, BookInvariant
  <2>2. DOMAIN node = NodesOf("BUY") \cup NodesOf("SELL")
    <3>1. ASSUME NEW n \in DOMAIN node
          PROVE  n \in NodesOf("BUY") \cup NodesOf("SELL")
      <4>1. PICK side \in Sides, p \in Prices : Queued(side, p, n)
        BY <2>1 DEF NodesIndexed
      <4> QED BY <4>1 DEF Queued, NodesOf, Sides
    <3>2. ASSUME NEW side \in Sides, NEW n \in NodesOf(side)
          PROVE  n \in DOMAIN node
      BY <2>1 DEF QueuesApart, NodesOf
    <3> QED BY <3>1, <3>2 DEF Sides
  <2> QED BY <2>1, <2>2 DEF BookIndexed, NodesIndexed, QueuesApart, Queued
<1> QED BY <1>1, Invariance, PTL

(***************************************************************************)
(* The two maps, the queues and the pool name the same paper orders, none  *)
(* of which is without lots or shares its id with a historical order.      *)
(***************************************************************************)
THEOREM PaperAlwaysIndexed == Spec => []PaperIndexed
<1>1. ASSUME Inductive PROVE PaperIndexed
  <2>1. OrdersIndexed /\ NoEmptyLevel /\ PoolMatches /\ IdsApart
    BY <1>1 DEF Inductive, PaperInvariant
  <2> QED BY <2>1 DEF PaperIndexed, OrdersIndexed, NoEmptyLevel, ComingToRest,
                      PoolMatches, IdsApart, RestingAt, Running
<1> QED BY <1>1, Invariance, PTL
-----------------------------------------------------------------------------
(***************************************************************************)
(* Queues.                                                                 *)
(***************************************************************************)
LEMMA QueueAtFacts ==
  ASSUME BookInvariant, NEW side \in Sides, NEW p
  PROVE  /\ QueueAt(side, p) \in Seq(Nat)
         /\ Len(QueueAt(side, p)) \in Nat
         /\ DOMAIN QueueAt(side, p) = 1 .. Len(QueueAt(side, p))
         /\ Increasing(QueueAt(side, p))
         /\ Live(side, p) <=> QueueAt(side, p) # <<>>
         /\ \A k \in 1 .. Len(QueueAt(side, p)) :
              QueueAt(side, p)[k] \in ToSet(QueueAt(side, p))
         /\ \A n \in ToSet(QueueAt(side, p)) :
              /\ n \in Nat
              /\ n \in DOMAIN node
              /\ n < order_arrival_seq
              /\ p \in Prices
              /\ node[n] \in Node
<1>1. CASE p \in DOMAIN book[side]
  <2> DEFINE q == book[side][p]
  <2>1. QueueAt(side, p) = q
    BY <1>1 DEF QueueAt
  <2>2. /\ q \in Seq(Nat)
        /\ Len(q) \in Nat
        /\ Increasing(q)
        /\ p \in Prices
        /\ \A k \in 1 .. Len(q) : q[k] \in ToSet(q)
        /\ \A n \in ToSet(q) : n \in Nat
    BY <1>1, QueueFacts
  <2>3. \A n \in ToSet(q) : n \in DOMAIN node /\ n < order_arrival_seq
    BY <1>1 DEF BookInvariant, QueuesApart
  <2>4. \A n \in DOMAIN node : node[n] \in Node
    BY DEF BookInvariant, BookTypes, IsPartial
  <2>5. DOMAIN q = 1 .. Len(q)
    BY <2>2, LenProperties
  <2>6. Live(side, p) <=> q # <<>>
    BY <1>1 DEF Live
  <2> HIDE DEF q
  <2> QED BY <2>1, <2>2, <2>3, <2>4, <2>5, <2>6
<1>2. CASE p \notin DOMAIN book[side]
  <2>1. QueueAt(side, p) = <<>> /\ ~Live(side, p)
    BY <1>2 DEF QueueAt, Live
  <2>2. /\ <<>> \in Seq(Nat)
        /\ Len(<<>>) = 0
        /\ DOMAIN <<>> = 1 .. 0
        /\ ToSet(<<>>) = {}
        /\ Increasing(<<>>)
    BY DEF ToSet, Increasing
  <2> QED BY <2>1, <2>2
<1> QED BY <1>1, <1>2

\* No node is in two queues, and each is in one.
LEMMA OnePlace ==
  ASSUME BookInvariant, NEW s \in Sides, NEW t \in Sides, NEW p, NEW q,
         NEW n \in ToSet(QueueAt(s, p)), n \in ToSet(QueueAt(t, q))
  PROVE  s = t /\ p = q
<1>1. ToSet(<<>>) = {}
  BY DEF ToSet
<1>2. Queued(s, p, n) /\ Queued(t, q, n)
  BY <1>1 DEF QueueAt, Queued
<1>3. q \in Prices
  BY QueueAtFacts
<1> QED BY <1>2, <1>3 DEF BookInvariant, QueuesApart, Queued

LEMMA SomePlace ==
  ASSUME BookInvariant, NEW n \in DOMAIN node
  PROVE  \E s \in Sides, p \in Prices : n \in ToSet(QueueAt(s, p))
BY DEF BookInvariant, NodesIndexed, Queued, QueueAt

\* The first node of a queue has arrived before the others.
LEMMA FirstArrived ==
  ASSUME BookInvariant, NEW side \in Sides, NEW p, Live(side, p)
  PROVE  /\ Len(QueueAt(side, p)) >= 1
         /\ Head(QueueAt(side, p)) = QueueAt(side, p)[1]
         /\ Head(QueueAt(side, p)) \in ToSet(QueueAt(side, p))
         /\ \A n \in ToSet(QueueAt(side, p)) :
              n # Head(QueueAt(side, p)) => Head(QueueAt(side, p)) < n
<1> DEFINE q == QueueAt(side, p)
<1>1. /\ q \in Seq(Nat)
      /\ q # <<>>
      /\ Len(q) \in Nat
      /\ DOMAIN q = 1 .. Len(q)
      /\ Increasing(q)
      /\ \A k \in 1 .. Len(q) : q[k] \in ToSet(q)
  BY QueueAtFacts
<1> HIDE DEF q
<1>2. Len(q) >= 1 /\ Head(q) = q[1]
  BY <1>1, EmptySeq
<1>3. 1 \in 1 .. Len(q)
  BY <1>1, <1>2
<1>4. ASSUME NEW n \in ToSet(q), n # q[1] PROVE q[1] < n
  <2>1. PICK k \in 1 .. Len(q) : q[k] = n
    BY <1>1 DEF ToSet
  <2>2. 1 < k
    BY <1>1, <1>4, <2>1
  <2> QED BY <1>1, <1>3, <2>1, <2>2 DEF Increasing
<1> QED BY <1>1, <1>2, <1>3, <1>4 DEF q

LEMMA UnlinkedLast ==
  ASSUME NEW q \in Seq(Nat), NEW n \in ToSet(q), IsInjective(q), Len(q) = 1
  PROVE  Unlinked(q, n) = <<>>
<1>1. Unlinked(q, n) \in Seq(Nat) /\ Len(Unlinked(q, n)) = 0
  BY UnlinkedProperties
<1> QED BY <1>1, EmptySeq

(***************************************************************************)
(* What a step does to the queues and the nodes: nothing; a node gets      *)
(* another quantity; a node leaves; one joins; all are discarded.  Levels  *)
(* without nodes, which come and go, are not seen here.                    *)
(***************************************************************************)
QueuesStay == \A side \in Sides, p \in Prices : QueueAt(side, p)' = QueueAt(side, p)

NodesStay == QueuesStay /\ UNCHANGED node

NodeRestocked(n, qty) ==
  /\ QueuesStay
  /\ n \in DOMAIN node
  /\ qty \in Nat
  /\ node' = [node EXCEPT ![n].qty = qty]

NodeTaken(side, p, n) ==
  /\ n \in ToSet(QueueAt(side, p))
  /\ node' = Erased(node, n)
  /\ QueueAt(side, p)' = Unlinked(QueueAt(side, p), n)
  /\ \A s \in Sides, q \in Prices :
       s # side \/ q # p => QueueAt(s, q)' = QueueAt(s, q)

NodeJoined(side, p, id, qty) ==
  /\ node' = Put(node, order_arrival_seq, [id |-> id, qty |-> qty])
  /\ order_arrival_seq' = order_arrival_seq + 1
  /\ heap' = IF QueueAt(side, p) = <<>>
               THEN [heap EXCEPT ![side] = Pushed(@, p)] ELSE heap
  /\ QueueAt(side, p)' = Append(QueueAt(side, p), order_arrival_seq)
  /\ \A s \in Sides, q \in Prices :
       s # side \/ q # p => QueueAt(s, q)' = QueueAt(s, q)

BookCleared ==
  /\ node' = Empty
  /\ \A side \in Sides, p \in Prices : QueueAt(side, p)' = <<>>

LEMMA BookUntouched ==
  ASSUME UNCHANGED <<book, node>>
  PROVE  NodesStay
BY DEF NodesStay, QueuesStay, QueueAt

LEMMA TakenKind ==
  ASSUME BookInvariant, NEW side \in Sides, NEW p \in DOMAIN book[side],
         NEW n \in ToSet(book[side][p]),
         node' = Erased(node, n),
         \/ book' = [book EXCEPT ![side][p] = Unlinked(@, n)]
         \/ Len(book[side][p]) = 1 /\ book' = [book EXCEPT ![side] = Erased(@, p)]
  PROVE  NodeTaken(side, p, n)
<1> PICK q : q = book[side][p]
  OBVIOUS
<1>1. /\ QueueAt(side, p) = q
      /\ DOMAIN book = Sides
      /\ q \in Seq(Nat)
      /\ IsInjective(q)
  BY QueueFacts DEF QueueAt, BookInvariant, BookTypes
<1>2. CASE Len(q) = 1 /\ book' = [book EXCEPT ![side] = Erased(@, p)]
  <2>1. /\ \A s \in Sides : s # side => book'[s] = book[s]
        /\ book'[side] = Erased(book[side], p)
    BY <1>1, <1>2
  <2>2. /\ DOMAIN book'[side] = DOMAIN book[side] \ {p}
        /\ \A r \in DOMAIN book'[side] : book'[side][r] = book[side][r]
    BY <2>1 DEF Erased, Restrict
  <2>3. Unlinked(q, n) = <<>>
    BY <1>1, <1>2, UnlinkedLast
  <2>4. QueueAt(side, p)' = Unlinked(q, n)
    BY <2>2, <2>3 DEF QueueAt
  <2>5. \A s \in Sides, r \in Prices :
          s # side \/ r # p => QueueAt(s, r)' = QueueAt(s, r)
    BY <2>1, <2>2 DEF QueueAt
  <2> QED BY <1>1, <2>4, <2>5 DEF NodeTaken
<1>3. CASE book' = [book EXCEPT ![side][p] = Unlinked(@, n)]
  <2>1. /\ \A s \in Sides : s # side => book'[s] = book[s]
        /\ book'[side] = [book[side] EXCEPT ![p] = Unlinked(q, n)]
    BY <1>1, <1>3
  <2>2. QueueAt(side, p)' = Unlinked(q, n)
    BY <2>1 DEF QueueAt
  <2>3. \A s \in Sides, r \in Prices :
          s # side \/ r # p => QueueAt(s, r)' = QueueAt(s, r)
    BY <2>1 DEF QueueAt
  <2> QED BY <1>1, <2>2, <2>3 DEF NodeTaken
<1> QED BY <1>2, <1>3

LEMMA RequantifyKind ==
  ASSUME BookInvariant, NEW id \in DOMAIN order_info, NEW qty \in Int,
         Requantify(id, qty)
  PROVE  \E side \in Sides, p \in Prices, n \in ToSet(QueueAt(Side(id), Price(id))) :
           /\ side = Side(id) /\ p = Price(id) /\ n = NodeOf(id)
           /\ qty > 0 => NodeRestocked(n, qty)
           /\ qty <= 0 => NodeTaken(side, p, n)
<1>0. /\ Side(id) \in Sides
      /\ Price(id) \in Prices
      /\ Price(id) \in DOMAIN book[Side(id)]
      /\ NodeOf(id) \in ToSet(book[Side(id)][Price(id)])
      /\ NodeOf(id) \in DOMAIN node
  BY OrderFacts
<1>1. PICK side, p, n, q :
        /\ side \in Sides /\ p \in Prices /\ n \in DOMAIN node
        /\ side = Side(id) /\ p = Price(id) /\ n = NodeOf(id)
        /\ p \in DOMAIN book[side]
        /\ q = book[side][p]
        /\ n \in ToSet(q)
  BY <1>0
<1> side \in Sides /\ p \in Prices /\ n \in DOMAIN node
  BY <1>1
<1>2. IF qty > 0
        THEN /\ node' = [node EXCEPT ![n].qty = qty]
             /\ UNCHANGED <<book, order_info>>
        ELSE /\ book' = [book EXCEPT ![side] =
                  IF Len(q) = 1 THEN Erased(@, p)
                                ELSE [@ EXCEPT ![p] = Unlinked(q, n)]]
             /\ node' = Erased(node, n)
  BY <1>1 DEF Requantify
<1>3. n \in ToSet(QueueAt(Side(id), Price(id)))
  BY <1>1 DEF QueueAt
<1>4. qty > 0 => NodeRestocked(n, qty)
  BY <1>1, <1>2 DEF NodeRestocked, QueuesStay, QueueAt
<1>5. ASSUME ~(qty > 0) PROVE NodeTaken(side, p, n)
  BY <1>1, <1>2, <1>5, TakenKind
<1> QED BY <1>1, <1>3, <1>4, <1>5

LEMMA AppendKind ==
  ASSUME BookInvariant, NEW side \in Sides, NEW p \in Prices, NEW id, NEW qty,
         AppendNode(side, p, id, qty)
  PROVE  NodeJoined(side, p, id, qty)
<1> DEFINE n == order_arrival_seq
<1>1. /\ node' = Put(node, n, [id |-> id, qty |-> qty])
      /\ book' = [book EXCEPT ![side] = Put(@, p, Append(QueueAt(side, p), n))]
      /\ heap' = IF QueueAt(side, p) = <<>> THEN [heap EXCEPT ![side] = Pushed(@, p)]
                                             ELSE heap
      /\ order_arrival_seq' = n + 1
  BY DEF AppendNode, PushedBack, QueueAt
<1>2. DOMAIN book = Sides
  BY DEF BookInvariant, BookTypes
<1>3. PICK queue : queue = Append(QueueAt(side, p), n)
  OBVIOUS
<1>4. /\ \A s \in Sides : s # side => book'[s] = book[s]
      /\ book'[side] = Put(book[side], p, queue)
  BY <1>1, <1>2, <1>3
<1>5. /\ DOMAIN book'[side] = DOMAIN book[side] \cup {p}
      /\ book'[side][p] = queue
      /\ \A r \in DOMAIN book[side] : r # p => book'[side][r] = book[side][r]
  BY <1>4 DEF Put
<1>6. QueueAt(side, p)' = queue
  BY <1>5 DEF QueueAt
<1>7. \A s \in Sides, r \in Prices :
        s # side \/ r # p => QueueAt(s, r)' = QueueAt(s, r)
  BY <1>4, <1>5 DEF QueueAt
<1> QED BY <1>1, <1>3, <1>6, <1>7 DEF NodeJoined

LEMMA ClearedKind ==
  ASSUME clear_state
  PROVE  /\ BookCleared
         /\ heap' = [side \in Sides |-> NoEntries]
<1>1. /\ book' = [side \in Sides |-> Empty]
      /\ heap' = [side \in Sides |-> NoEntries]
      /\ node' = Empty
      /\ order_arrival_seq' = 0
  BY DEF clear_state
<1> QED BY <1>1 DEF BookCleared, QueueAt, Empty

\* What a step of a historical sweep does to the call, the queue and the node.
LEMMA SweepDetail ==
  ASSUME Inductive, HistoricalSweep
  PROVE  \E side \in Sides, p \in NextPrice, n \in DOMAIN node, take \in Nat :
           /\ side = call.side
           /\ Live(side, p)
           /\ n = Head(QueueAt(side, p))
           /\ take = Lesser(node[n].qty, call.remaining)
           /\ take <= call.remaining
           /\ node[n].qty \in Nat
           /\ n \in ToSet(QueueAt(side, p))
           /\ call'.pc = "queue" <=>
                /\ \/ take = call.remaining
                   \/ take = node[n].qty /\ Len(QueueAt(side, p)) = 1
                /\ call.lots + take > 0
           /\ call'.price = p
           /\ call'.lots = call.lots + take
           /\ call'.consumed = call.consumed
           /\ call'.deltas = IF take > 0 THEN Append(call.deltas, [seq |-> n, qty |-> take])
                                         ELSE call.deltas
           /\ call'.event = call.event
           /\ call'.side = call.side
           /\ call'.remaining = call.remaining - take
           /\ call'.pc \in {"sweep", "queue"}
           /\ call'.fills = IF take > 0 THEN Append(call.fills, BookFill(n, p, take))
                                        ELSE call.fills
           /\ take = node[n].qty => NodeTaken(side, p, n)
           /\ take # node[n].qty => NodeRestocked(n, node[n].qty - take)
<1>1. /\ call.pc = "sweep"
      /\ call.remaining > 0
      /\ BookInvariant
  BY Zenon DEF HistoricalSweep, Inductive
<1>2. /\ call \in Handler
      /\ call.side \in Sides
      /\ call.remaining \in Nat
      /\ call.lots \in Nat
  BY <1>1, HandlerFacts
<1>3. PICK p \in NextPrice :
        LET queue == book[call.side][p]
            n     == Head(queue)
            take  == Lesser(node[n].qty, call.remaining)
            gone  == take = node[n].qty
            left  == take = call.remaining \/ (gone /\ Len(queue) = 1)
            lots  == call.lots + take
        IN  /\ call' = [call EXCEPT
                 !.pc = IF left /\ lots > 0 THEN "queue" ELSE "sweep",
                 !.price = p,
                 !.remaining = @ - take,
                 !.lots = lots,
                 !.deltas = IF take > 0 THEN Append(@, [seq |-> n, qty |-> take])
                                        ELSE @,
                 !.fills = IF take > 0 THEN Append(@, BookFill(n, p, take))
                                       ELSE @]
            /\ IF ~gone
                 THEN /\ node' = [node EXCEPT ![n].qty = @ - take]
                      /\ UNCHANGED <<book, order_info>>
                 ELSE IF left /\ lots = 0
                 THEN /\ book' = [book EXCEPT ![call.side] = Erased(@, p)]
                      /\ node' = Erased(node, n)
                      /\ order_info' = Erased(order_info, node[n].id)
                 ELSE RemoveNode(call.side, p, n)
  BY Zenon DEF HistoricalSweep
<1>4. PICK side, queue, n, take, left, lots :
        /\ side \in Sides
        /\ side = call.side
        /\ queue = book[side][p]
        /\ n = Head(queue)
        /\ take = Lesser(node[n].qty, call.remaining)
        /\ left <=> (take = call.remaining \/ (take = node[n].qty /\ Len(queue) = 1))
        /\ lots = call.lots + take
  BY <1>2
<1> side \in Sides
  BY <1>4
<1>5. /\ p \in DOMAIN book[side]
      /\ queue # <<>>
      /\ QueueAt(side, p) = queue
      /\ Live(side, p)
  BY <1>2, <1>4, NextPriceFacts DEF QueueAt, Live
<1>6. n \in ToSet(queue) /\ n \in DOMAIN node /\ node[n].qty \in Nat
  BY <1>1, <1>4, <1>5, QueueFacts
<1>7. take \in Nat /\ take <= call.remaining /\ node[n].qty - take \in Nat
  BY <1>2, <1>4, <1>6, LesserFacts
<1>8. /\ call' = [call EXCEPT
            !.pc = IF left /\ lots > 0 THEN "queue" ELSE "sweep",
            !.price = p,
            !.remaining = @ - take,
            !.lots = lots,
            !.deltas = IF take > 0 THEN Append(@, [seq |-> n, qty |-> take]) ELSE @,
            !.fills = IF take > 0 THEN Append(@, BookFill(n, p, take)) ELSE @]
      /\ IF take # node[n].qty
           THEN /\ node' = [node EXCEPT ![n].qty = @ - take]
                /\ UNCHANGED <<book, order_info>>
           ELSE IF left /\ lots = 0
           THEN /\ book' = [book EXCEPT ![side] = Erased(@, p)]
                /\ node' = Erased(node, n)
                /\ order_info' = Erased(order_info, node[n].id)
           ELSE RemoveNode(side, p, n)
  BY <1>3, <1>4, Zenon
<1>12. /\ call'.price = p
       /\ call'.lots = lots
       /\ call'.consumed = call.consumed
       /\ call'.deltas = IF take > 0 THEN Append(call.deltas, [seq |-> n, qty |-> take])
                                     ELSE call.deltas
       /\ call'.pc = "queue" <=> left /\ lots > 0
  BY <1>2, <1>8 DEF Handler
<1>9. /\ call'.event = call.event
      /\ call'.side = call.side
      /\ call'.remaining = call.remaining - take
      /\ call'.pc \in {"sweep", "queue"}
      /\ call'.fills = IF take > 0 THEN Append(call.fills, BookFill(n, p, take))
                                   ELSE call.fills
  BY <1>2, <1>8 DEF Handler
<1>10. take # node[n].qty => NodeRestocked(n, node[n].qty - take)
  BY <1>6, <1>7, <1>8 DEF NodeRestocked, QueuesStay, QueueAt
<1>11. ASSUME take = node[n].qty PROVE NodeTaken(side, p, n)
  <2>1. CASE left /\ lots = 0
    <3>1. take = 0
      <4>1. call.lots \in Nat /\ take \in Nat /\ call.lots + take = 0
        BY <1>2, <1>4, <1>7, <2>1, Zenon
      <4> QED BY <4>1
    <3>2. take # call.remaining
      BY <1>1, <3>1
    <3>3. Len(queue) = 1
      BY <1>4, <2>1, <3>2
    <3>4. book' = [book EXCEPT ![side] = Erased(@, p)] /\ node' = Erased(node, n)
      BY <1>8, <1>11, <2>1
    <3> QED BY <1>1, <1>4, <1>5, <1>6, <3>3, <3>4, TakenKind, Zenon
  <2>2. CASE ~(left /\ lots = 0)
    <3>1. /\ book' = [book EXCEPT ![side][p] = Unlinked(@, n)]
          /\ node' = Erased(node, n)
      BY <1>8, <1>11, <2>2 DEF RemoveNode
    <3> QED BY <1>1, <1>4, <1>5, <1>6, <3>1, TakenKind
  <2> QED BY <2>1, <2>2
<1> QED BY <1>4, <1>5, <1>6, <1>7, <1>9, <1>10, <1>11, <1>12, Zenon

LEMMA SweepKind ==
  ASSUME Inductive, HistoricalSweep
  PROVE  \E side \in Sides, p \in NextPrice, n \in DOMAIN node, take \in Nat :
           /\ side = call.side
           /\ Live(side, p)
           /\ n = Head(QueueAt(side, p))
           /\ take = Lesser(node[n].qty, call.remaining)
           /\ call'.event = call.event
           /\ call'.side = call.side
           /\ call'.remaining = call.remaining - take
           /\ call'.pc \in {"sweep", "queue"}
           /\ call'.fills = IF take > 0 THEN Append(call.fills, BookFill(n, p, take))
                                        ELSE call.fills
           /\ take = node[n].qty => NodeTaken(side, p, n)
           /\ take # node[n].qty => NodeRestocked(n, node[n].qty - take)
<1>1. PICK side \in Sides, p \in NextPrice, n \in DOMAIN node, take \in Nat :
         /\ side = call.side
         /\ Live(side, p)
         /\ n = Head(QueueAt(side, p))
         /\ take = Lesser(node[n].qty, call.remaining)
         /\ take <= call.remaining
         /\ node[n].qty \in Nat
         /\ n \in ToSet(QueueAt(side, p))
         /\ call'.pc = "queue" <=>
              /\ \/ take = call.remaining
                 \/ take = node[n].qty /\ Len(QueueAt(side, p)) = 1
              /\ call.lots + take > 0
         /\ call'.price = p
         /\ call'.lots = call.lots + take
         /\ call'.consumed = call.consumed
         /\ call'.deltas = IF take > 0 THEN Append(call.deltas, [seq |-> n, qty |-> take])
                                       ELSE call.deltas
         /\ call'.event = call.event
         /\ call'.side = call.side
         /\ call'.remaining = call.remaining - take
         /\ call'.pc \in {"sweep", "queue"}
         /\ call'.fills = IF take > 0 THEN Append(call.fills, BookFill(n, p, take))
                                      ELSE call.fills
         /\ take = node[n].qty => NodeTaken(side, p, n)
         /\ take # node[n].qty => NodeRestocked(n, node[n].qty - take)
  BY SweepDetail
<1> QED BY <1>1

LEMMA EndLevelKind ==
  ASSUME Inductive, EndLevel
  PROVE  NodesStay
<1>1. /\ call.pc = "settle"
      /\ UNCHANGED node
      /\ book' = IF book[call.side][call.price] = <<>>
                   THEN [book EXCEPT ![call.side] = Erased(@, call.price)]
                   ELSE book
      /\ DOMAIN book = Sides
  BY DEF EndLevel, Inductive, BookInvariant, BookTypes
<1>2. PICK side, p :
        /\ side \in Sides
        /\ side = call.side /\ p = call.price
  BY <1>1, HandlerFacts
<1> side \in Sides
  BY <1>2
<1>3. CASE book[side][p] = <<>>
  <2>1. book' = [book EXCEPT ![side] = Erased(@, p)]
    BY <1>1, <1>2, <1>3
  <2>2. /\ \A s \in Sides : s # side => book'[s] = book[s]
        /\ book'[side] = Erased(book[side], p)
    BY <1>1, <2>1
  <2>3. /\ DOMAIN book'[side] = DOMAIN book[side] \ {p}
        /\ \A r \in DOMAIN book'[side] : book'[side][r] = book[side][r]
    BY <2>2 DEF Erased, Restrict
  <2> QED BY <1>1, <1>3, <2>2, <2>3 DEF NodesStay, QueuesStay, QueueAt
<1>4. CASE book[side][p] # <<>>
  BY <1>1, <1>2, <1>4, BookUntouched
<1> QED BY <1>3, <1>4

\* What a row of a snapshot does to the book.
LEMMA RowKind ==
  ASSUME Inductive, L2Row \/ L3Row
  PROVE  \/ NodesStay /\ UNCHANGED <<heap, order_arrival_seq>>
         \/ \E side \in Sides, p \in Prices, qty \in Nat : \E id :
              NodeJoined(side, p, id, qty) /\ NextRow
<1>1. /\ call.pc \in {"l2", "l3"}
      /\ call.rows # <<>>
      /\ BookInvariant
      /\ DOMAIN book = Sides
  BY DEF L2Row, L3Row, Inductive, BookInvariant, BookTypes
<1>2. PICK r : r = Head(call.rows)
  OBVIOUS
<1>3. r.side \in Sides /\ r.price \in Prices /\ r.qty \in Nat
  BY <1>1, <1>2, RowFacts
<1>4. CASE UNCHANGED <<bookVars, order_arrival_seq>>
  BY <1>4, BookUntouched DEF bookVars
<1>5. CASE /\ AppendNode(r.side, r.price, UnknownOrderId, r.qty)
           /\ NextRow
  BY <1>1, <1>3, <1>5, AppendKind
<1>6. CASE /\ AppendNode(r.side, r.price, r.id, r.qty)
           /\ NextRow
  BY <1>1, <1>3, <1>6, AppendKind
<1>7. CASE /\ book' = IF r.price \in DOMAIN book[r.side]
                        THEN book
                        ELSE [book EXCEPT ![r.side] = Put(@, r.price, <<>>)]
           /\ UNCHANGED <<node, heap, order_info, order_arrival_seq>>
  <2>1. CASE r.price \in DOMAIN book[r.side]
    BY <1>7, <2>1, BookUntouched
  <2>2. CASE r.price \notin DOMAIN book[r.side]
    <3>1. /\ \A s \in Sides : s # r.side => book'[s] = book[s]
          /\ book'[r.side] = Put(book[r.side], r.price, <<>>)
      BY <1>1, <1>3, <1>7, <2>2
    <3>2. /\ DOMAIN book'[r.side] = DOMAIN book[r.side] \cup {r.price}
          /\ book'[r.side][r.price] = <<>>
          /\ \A q \in DOMAIN book[r.side] : book'[r.side][q] = book[r.side][q]
      BY <2>2, <3>1 DEF Put
    <3> QED BY <1>7, <2>2, <3>1, <3>2 DEF NodesStay, QueuesStay, QueueAt
  <2> QED BY <2>1, <2>2
<1> QED BY <1>2, <1>4, <1>5, <1>6, <1>7 DEF L2Row, L3Row
-----------------------------------------------------------------------------
(***************************************************************************)
(* The heaps.  A step leaves a heap as it is, or pops what is above the    *)
(* best level, unless it adds an order or discards everything.             *)
(***************************************************************************)
HeapsStay ==
  \A side \in Sides :
    \/ heap'[side] = heap[side]
    \/ heap'[side] = Pruned(heap[side], side)

\* No level gets its first order.
NoLevelFills ==
  \A side \in Sides, p \in Prices :
    QueueAt(side, p)' # <<>> => QueueAt(side, p) # <<>>

LEMMA PrunedCovers ==
  ASSUME NEW h \in Bag, NEW side \in Sides, NEW p \in Prices,
         Live(side, p), h[p] > 0
  PROVE  Pruned(h, side)[p] > 0
<1>1. ~Better(side, p, p)
  BY PricesAssumption DEF Better
<1> QED BY <1>1 DEF Pruned

LEMMA LevelsLive ==
  ASSUME NEW side \in Sides, NEW p
  PROVE  Live(side, p) <=> QueueAt(side, p) # <<>>
BY DEF Live, QueueAt

LEMMA HeapKept ==
  ASSUME Inductive, HeapCovers, HeapsStay, NoLevelFills
  PROVE  HeapCovers'
<1> SUFFICES ASSUME NEW side \in Sides, NEW p \in Prices, Live(side, p)'
             PROVE  heap'[side][p] > 0
  BY DEF HeapCovers
<1>1. QueueAt(side, p)' # <<>>
  BY DEF Live, QueueAt
<1>2. Live(side, p)
  BY <1>1, LevelsLive DEF NoLevelFills
<1>3. heap[side][p] > 0 /\ heap[side] \in Bag
  BY <1>2 DEF HeapCovers, Inductive, HeapTypes
<1> QED BY <1>2, <1>3, PrunedCovers DEF HeapsStay

LEMMA HeapPushed ==
  ASSUME Inductive, HeapCovers,
         NEW side \in Sides, NEW p \in Prices, NEW id, NEW qty,
         NodeJoined(side, p, id, qty)
  PROVE  HeapCovers'
<1>1. heap \in [Sides -> [Prices -> Nat]]
  BY DEF Inductive, HeapTypes, Bag
<1>0. heap' = IF QueueAt(side, p) = <<>>
                THEN [heap EXCEPT ![side] = Pushed(@, p)] ELSE heap
  BY DEF NodeJoined
<1> SUFFICES ASSUME NEW s \in Sides, NEW q \in Prices, Live(s, q)'
             PROVE  heap'[s][q] > 0
  BY DEF HeapCovers
<1>2. QueueAt(s, q)' # <<>>
  BY DEF Live, QueueAt
<1>3. heap[s][q] \in Nat /\ heap[side][p] \in Nat
  BY <1>1
<1>4. CASE s = side /\ q = p
  <2>1. CASE QueueAt(side, p) = <<>>
    <3>1. heap'[side] = Pushed(heap[side], p)
      BY <1>0, <1>1, <2>1
    <3>2. heap'[side][p] = heap[side][p] + 1
      BY <1>1, <3>1 DEF Pushed
    <3> QED BY <1>3, <1>4, <3>2
  <2>2. CASE QueueAt(side, p) # <<>>
    <3>1. heap' = heap
      BY <1>0, <2>2
    <3> QED BY <1>4, <2>2, <3>1, LevelsLive DEF HeapCovers
  <2> QED BY <2>1, <2>2
<1>5. CASE s # side \/ q # p
  <2>1. heap'[s][q] = heap[s][q]
    <3>1. CASE QueueAt(side, p) = <<>>
      <4>1. heap' = [heap EXCEPT ![side] = Pushed(@, p)]
        BY <1>0, <3>1
      <4>2. CASE s = side
        <5>1. heap'[s] = Pushed(heap[s], p)
          BY <1>1, <4>1, <4>2
        <5> QED BY <1>1, <1>5, <4>2, <5>1 DEF Pushed
      <4>3. CASE s # side
        BY <1>1, <4>1, <4>3
      <4> QED BY <4>2, <4>3
    <3>2. CASE QueueAt(side, p) # <<>>
      BY <1>0, <3>2
    <3> QED BY <3>1, <3>2
  <2>2. QueueAt(s, q)' = QueueAt(s, q)
    BY <1>5 DEF NodeJoined
  <2> QED BY <1>2, <2>1, <2>2, LevelsLive DEF HeapCovers
<1> QED BY <1>4, <1>5

LEMMA QueuesStayLevels ==
  ASSUME QueuesStay
  PROVE  NoLevelFills
BY DEF QueuesStay, NoLevelFills

LEMMA NodeTakenLevels ==
  ASSUME BookInvariant, NEW side \in Sides, NEW p \in Prices, NEW n,
         NodeTaken(side, p, n)
  PROVE  NoLevelFills
<1>1. ToSet(<<>>) = {}
  BY DEF ToSet
<1>2. QueueAt(side, p) # <<>>
  BY <1>1 DEF NodeTaken
<1> QED BY <1>2 DEF NodeTaken, NoLevelFills

LEMMA RequantifyLevels ==
  ASSUME BookInvariant, NEW id \in DOMAIN order_info, NEW qty \in Int,
         Requantify(id, qty)
  PROVE  NoLevelFills
<1>1. qty > 0 \/ qty <= 0
  OBVIOUS
<1> QED BY <1>1, RequantifyKind, QueuesStayLevels, NodeTakenLevels DEF NodeRestocked

\* Updates of a historical order touch no heap.
LEMMA HeapOnUpdate ==
  ASSUME Inductive, HeapCovers, NEW e \in Event,
         OnDelete(e) \/ OnSubtract(e) \/ OnSet(e)
  PROVE  HeapCovers'
<1>1. UNCHANGED heap
  BY DEF OnDelete, OnSubtract, OnSet, SetHistorical, bookVars
<1>2. HeapsStay
  BY <1>1 DEF HeapsStay
<1>3. NoLevelFills
  <2>1. CASE UNCHANGED bookVars
    BY <2>1, BookUntouched, QueuesStayLevels DEF bookVars, NodesStay
  <2>2. CASE e.source = "HISTORICAL"
    <3>1. e.id \in DOMAIN order_info /\ e.qty \in Int
      BY <2>2, Known DEF OnDelete, OnSubtract, OnSet, Accepts, Rejected,
                         SubtractRejected, Event
    <3>2. PICK qty \in Int : Requantify(e.id, qty)
      <4>1. /\ node[NodeOf(e.id)].qty \in Nat
            /\ Taken(e) \in Int
        BY <3>1, TakenFacts
      <4>2. /\ 0 \in Int
            /\ node[NodeOf(e.id)].qty - Taken(e) \in Int
            /\ (IF e.qty < 0 THEN 0 ELSE e.qty) \in Int
        BY <3>1, <4>1
      <4> QED BY <2>2, <4>2 DEF OnDelete, OnSubtract, OnSet, SetHistorical
    <3> QED BY <3>1, <3>2, RequantifyLevels DEF Inductive
  <2> QED BY <2>1, <2>2 DEF OnDelete, OnSubtract, OnSet
<1> QED BY <1>2, <1>3, HeapKept

LEMMA HeapOnSweep ==
  ASSUME Inductive, HeapCovers, HistoricalSweep
  PROVE  HeapCovers'
<1>1. /\ heap' = [heap EXCEPT ![call.side] = Pruned(@, call.side)]
      /\ DOMAIN heap = Sides
  BY Zenon DEF HistoricalSweep, Inductive, HeapTypes
<1>2. HeapsStay
  BY <1>1 DEF HeapsStay
<1>3. PICK side \in Sides, p \in NextPrice, n \in DOMAIN node, take \in Nat :
        /\ take = node[n].qty => NodeTaken(side, p, n)
        /\ take # node[n].qty => NodeRestocked(n, node[n].qty - take)
  BY SweepKind
<1>4. p \in Prices
  BY DEF NextPrice, BestPrice
<1>5. NoLevelFills
  <2>1. CASE take = node[n].qty
    BY <1>3, <1>4, <2>1, NodeTakenLevels DEF Inductive
  <2>2. CASE take # node[n].qty
    BY <1>3, <2>2, QueuesStayLevels DEF NodeRestocked
  <2> QED BY <2>1, <2>2
<1> QED BY <1>2, <1>5, HeapKept

LEMMA HeapOnCleared ==
  ASSUME clear_state
  PROVE  HeapCovers'
BY DEF clear_state, HeapCovers, Live, Empty

LEMMA HeapStep ==
  ASSUME Inductive, HeapCovers, [Next]_vars
  PROVE  HeapCovers'
<1>1. ASSUME UNCHANGED <<book, heap>> PROVE HeapCovers'
  BY <1>1 DEF HeapCovers, Live
<1>2. ASSUME UNCHANGED <<book, node>>, HeapsStay PROVE HeapCovers'
  BY <1>2, BookUntouched, QueuesStayLevels, HeapKept DEF NodesStay
<1>3. DOMAIN heap = Sides
  BY DEF Inductive, HeapTypes
<1>4. ASSUME NEW e \in Events, update(e) PROVE HeapCovers'
  <2>1. e \in Event
    BY EventsAssumption
  <2>2. CASE OnAdd(e)
    <3>1. HeapsStay
      BY <1>3, <2>2 DEF OnAdd, HeapsStay
    <3> QED BY <1>2, <2>2, <3>1 DEF OnAdd
  <2>3. CASE OnAggressiveTrade(e) \/ OnMatch(e) \/ Reject(e)
    BY <1>1, <2>3 DEF OnAggressiveTrade, OnMatch, Reject, vars, bookVars
  <2>4. CASE OnDelete(e) \/ OnSubtract(e) \/ OnSet(e)
    BY <2>1, <2>4, HeapOnUpdate
  <2> QED BY <1>4, <2>2, <2>3, <2>4 DEF update
<1>5. ASSUME NEW rows, InitFromL2Snapshot(rows) \/ InitFromL3Snapshot(rows)
      PROVE  HeapCovers'
  BY <1>5, HeapOnCleared DEF InitFromL2Snapshot, InitFromL3Snapshot
<1>6. ASSUME NEW side \in Sides, GetBestPriceTicks(side) PROVE HeapCovers'
  <2>1. HeapsStay
    BY <1>3, <1>6 DEF GetBestPriceTicks, HeapsStay
  <2> QED BY <1>2, <1>6, <2>1 DEF GetBestPriceTicks
<1>7. ASSUME Continue PROVE HeapCovers'
  <2>1. CASE \/ StrategySweep \/ QueueFill \/ EndQueue \/ Settle
             \/ TradeAgainstPaper \/ EndPaper \/ EndAdd \/ AcquirePaperNode
             \/ MirrorNode \/ RestStrategy \/ MatchFill \/ EndSnapshot
    BY <1>1, <2>1, Zenon
       DEF StrategySweep, QueueFill, EndQueue, Settle, TradeAgainstPaper,
           EndPaper, EndAdd, AcquirePaperNode, MirrorNode, RestStrategy,
           MatchFill, EndSnapshot, bookVars
  <2>2. CASE HistoricalSweep
    BY <2>2, HeapOnSweep
  <2>3. CASE EndSweep
    <3>1. HeapsStay
      BY <1>3, <2>3 DEF EndSweep, HeapsStay
    <3> QED BY <1>2, <2>3, <3>1 DEF EndSweep
  <2>4. CASE EndLevel
    <3>1. UNCHANGED heap
      BY <2>4 DEF EndLevel
    <3> QED BY <2>4, <3>1, EndLevelKind, QueuesStayLevels, HeapKept
            DEF NodesStay, HeapsStay
  <2>5. CASE RestHistorical
    <3>1. PICK side, p, id, qty :
            /\ side \in Sides /\ p \in Prices
            /\ AppendNode(side, p, id, qty)
      <4>1. /\ call.pc = "rest"
            /\ AppendNode(call.event.side, call.event.price, call.event.id,
                          call.remaining)
        BY <2>5 DEF RestHistorical
      <4> QED BY <4>1, HandlerFacts
    <3> side \in Sides /\ p \in Prices
      BY <3>1
    <3> QED BY <3>1, AppendKind, HeapPushed DEF Inductive
  <2>6. CASE EndMatch
    <3>1. PICK qty : Requantify(call.event.id, qty) /\ UNCHANGED heap /\
                     qty = node[NodeOf(call.event.id)].qty - Taken(call.event)
      BY <2>6 DEF EndMatch
    <3>2. call.event.id \in DOMAIN order_info /\ call.event.qty \in Int
      <4>1. call.pc = "reduce"
        BY <2>6 DEF EndMatch
      <4>2. call.event.qty \in Nat
        BY <4>1, HandlerFacts
      <4> QED BY <4>1, <4>2, HandlerKinds
    <3>3. qty \in Int
      <4>1. node[NodeOf(call.event.id)].qty \in Nat /\ Taken(call.event) \in Int
        BY <3>2, TakenFacts
      <4> QED BY <3>1, <4>1
    <3> QED BY <3>1, <3>2, <3>3, RequantifyLevels, HeapKept DEF HeapsStay, Inductive
  <2>7. CASE L2Row \/ L3Row
    <3>1. CASE NodesStay /\ UNCHANGED <<heap, order_arrival_seq>>
      BY <3>1, QueuesStayLevels, HeapKept DEF NodesStay, HeapsStay
    <3>2. CASE \E side \in Sides, p \in Prices, qty \in Nat : \E id :
                 NodeJoined(side, p, id, qty) /\ NextRow
      BY <3>2, HeapPushed
    <3> QED BY <2>7, <3>1, <3>2, RowKind
  <2> QED BY <1>7, <2>1, <2>2, <2>3, <2>4, <2>5, <2>6, <2>7 DEF Continue
<1>8. CASE UNCHANGED vars
  BY <1>1, <1>8 DEF vars, bookVars
<1> QED BY <1>4, <1>5, <1>6, <1>7, <1>8 DEF Next

(***************************************************************************)
(* The entry that best_opposite_price and get_best_price_ticks stop at is  *)
(* the best level of the book, whatever levels came and went.              *)
(***************************************************************************)
THEOREM HeapFindsBest == Spec => []TopOfBook
<1>1. Init => HeapCovers
  BY DEF Init, HeapCovers, Live, Empty
<1>2. ASSUME HeapCovers PROVE TopOfBook
  <2>1. ASSUME NEW side \in Sides
        PROVE  BestPrice(heap[side], side) =
                 {p \in Prices : /\ Live(side, p)
                                 /\ \A q \in Prices : Live(side, q) => ~Better(side, q, p)}
    BY <1>2 DEF HeapCovers, BestPrice
  <2> QED BY <2>1 DEF TopOfBook
<1>3. HeapCovers /\ Inductive /\ [Next]_vars => HeapCovers'
  BY HeapStep
<1> QED BY <1>1, <1>2, <1>3, Invariance, PTL DEF Spec
-----------------------------------------------------------------------------
(***************************************************************************)
(* The levels of the paper orders, and the nodes that they know.           *)
(***************************************************************************)
QueuesShrink ==
  \A side \in Sides, p \in Prices :
    ToSet(QueueAt(side, p)') \subseteq ToSet(QueueAt(side, p))

\* Levels know what they knew, and none gets its first order.
NothingLearnt ==
  \A side \in Sides : \A p \in DOMAIN paper'[side] :
    /\ p \in DOMAIN paper[side]
    /\ paper'[side][p].market_seqs = paper[side][p].market_seqs
    /\ paper'[side][p].orders # <<>> => paper[side][p].orders # <<>>

\* Levels know what they knew, and in what quantities.
MarketStays ==
  \A side \in Sides : \A p \in DOMAIN paper'[side] :
    /\ p \in DOMAIN paper[side]
    /\ paper'[side][p].market_seqs = paper[side][p].market_seqs
    /\ paper'[side][p].market_qty = paper[side][p].market_qty

LEMMA QueuesStayShrink ==
  ASSUME QueuesStay
  PROVE  QueuesShrink
BY DEF QueuesStay, QueuesShrink

LEMMA NodeTakenShrinks ==
  ASSUME BookInvariant, NEW side \in Sides, NEW p \in Prices, NEW n,
         NodeTaken(side, p, n)
  PROVE  QueuesShrink
<1>1. PICK q : q = QueueAt(side, p)
  OBVIOUS
<1>2. q \in Seq(Nat) /\ IsInjective(q) /\ n \in ToSet(q)
  BY <1>1, QueueAtFacts, IncreasingIsInjective DEF NodeTaken
<1>3. ToSet(Unlinked(q, n)) = ToSet(q) \ {n}
  BY <1>2, UnlinkedProperties
<1>4. ToSet(QueueAt(side, p)') \subseteq ToSet(QueueAt(side, p))
  BY <1>1, <1>3 DEF NodeTaken
<1> QED BY <1>4 DEF NodeTaken, QueuesShrink

LEMMA RequantifyShrinks ==
  ASSUME BookInvariant, NEW id \in DOMAIN order_info, NEW qty \in Int,
         Requantify(id, qty)
  PROVE  QueuesShrink
<1>1. qty > 0 \/ qty <= 0
  OBVIOUS
<1> QED BY <1>1, RequantifyKind, QueuesStayShrink, NodeTakenShrinks DEF NodeRestocked

LEMMA SweepShrinks ==
  ASSUME Inductive, HistoricalSweep
  PROVE  QueuesShrink
<1>1. PICK side \in Sides, p \in NextPrice, n \in DOMAIN node, take \in Nat :
        /\ take = node[n].qty => NodeTaken(side, p, n)
        /\ take # node[n].qty => NodeRestocked(n, node[n].qty - take)
  BY SweepKind
<1>2. p \in Prices
  BY DEF NextPrice, BestPrice
<1>3. CASE take = node[n].qty
  BY <1>1, <1>2, <1>3, NodeTakenShrinks DEF Inductive
<1>4. CASE take # node[n].qty
  BY <1>1, <1>4, QueuesStayShrink DEF NodeRestocked
<1> QED BY <1>3, <1>4

LEMMA AdjustedTeachesNothing ==
  ASSUME PaperTypes, NEW side \in Sides, NEW p, NEW seq, NEW delta,
         paper' = PaperMarketAdjusted(side, p, seq, delta)
  PROVE  NothingLearnt
<1>1. CASE p \notin DOMAIN paper[side]
  BY <1>1 DEF PaperMarketAdjusted, HasPaperLevel, NothingLearnt
<1>2. CASE p \in DOMAIN paper[side]
  <2>1. PICK level : level = MarketAdjusted(paper[side][p], seq, delta)
    OBVIOUS
  <2>2. paper[side][p] \in PaperOrderLevel
    BY <1>2 DEF PaperTypes, IsPartial
  <2>3. /\ level.market_seqs = paper[side][p].market_seqs
        /\ level.orders = paper[side][p].orders
    BY <2>1, <2>2 DEF MarketAdjusted, PaperOrderLevel
  <2>4. DOMAIN paper = Sides
    BY DEF PaperTypes
  <2>5. paper' = [paper EXCEPT ![side][p] = level]
    BY <1>2, <2>1 DEF PaperMarketAdjusted, HasPaperLevel
  <2>6. /\ \A s \in Sides : s # side => paper'[s] = paper[s]
        /\ paper'[side] = [paper[side] EXCEPT ![p] = level]
    BY <2>4, <2>5
  <2> QED BY <2>3, <2>6 DEF NothingLearnt
<1> QED BY <1>1, <1>2

LEMMA OrderTakenTeachesNothing ==
  ASSUME PaperInvariant, NEW id \in DOMAIN paper_orders, NEW qty, NEW told, NEW status,
         LeavePaperOrder(id, qty, told, status)
  PROVE  NothingLearnt /\ MarketStays
<1>0. /\ paper_order_info[id].side \in Sides
      /\ paper_order_info[id].price \in DOMAIN paper[paper_order_info[id].side]
      /\ id \in ToSet(paper[paper_order_info[id].side]
                           [paper_order_info[id].price].orders)
  BY PaperOrderFacts
<1>1. PICK side, p :
        /\ side \in Sides
        /\ side = paper_order_info[id].side
        /\ p = paper_order_info[id].price
        /\ p \in DOMAIN paper[side]
        /\ id \in ToSet(paper[side][p].orders)
  BY <1>0
<1> side \in Sides
  BY <1>1
<1>2. PICK level :
        level = [paper[side][p] EXCEPT
          !.orders = IF qty = paper_orders[id].remaining THEN Unlinked(@, id) ELSE @,
          !.queued_lots = @ - told,
          !.paper_qty = AddAt(@, paper_orders[id].paper_index, -told)]
  OBVIOUS
<1>3. paper' = [paper EXCEPT ![side] =
                  IF level.orders = <<>> THEN Erased(@, p)
                                         ELSE [@ EXCEPT ![p] = level]]
  BY <1>1, <1>2 DEF LeavePaperOrder
<1>4. paper[side][p] \in PaperOrderLevel
  BY <1>1, LevelFacts
<1>5. /\ level.market_seqs = paper[side][p].market_seqs
      /\ level.market_qty = paper[side][p].market_qty
  BY <1>2, <1>4 DEF PaperOrderLevel
<1>6. paper[side][p].orders # <<>>
  BY <1>1 DEF ToSet
<1>7. DOMAIN paper = Sides
  BY DEF PaperInvariant, PaperTypes
<1>8. /\ \A s \in Sides : s # side => paper'[s] = paper[s]
      /\ paper'[side] = IF level.orders = <<>> THEN Erased(paper[side], p)
                        ELSE [paper[side] EXCEPT ![p] = level]
  BY <1>3, <1>7
<1>9. \A q \in DOMAIN paper'[side] :
        /\ q \in DOMAIN paper[side]
        /\ q # p => paper'[side][q] = paper[side][q]
        /\ q = p => paper'[side][q] = level
  BY <1>8 DEF Erased, Restrict
<1> QED BY <1>5, <1>6, <1>8, <1>9 DEF NothingLearnt, MarketStays

\* A level knows all it needs as long as no node and no level comes.
LEMMA MarketKept ==
  ASSUME Inductive, MarketKnown, NothingLearnt, QueuesShrink,
         order_arrival_seq' = order_arrival_seq
  PROVE  MarketKnown'
<1> SUFFICES ASSUME NEW side \in Sides, NEW p \in DOMAIN paper'[side]
             PROVE  /\ Increasing(paper'[side][p].market_seqs)
                    /\ \A n \in ToSet(paper'[side][p].market_seqs) :
                         n < order_arrival_seq'
                    /\ paper'[side][p].orders # <<>> =>
                         ToSet(QueueAt(side, p)') \subseteq
                           ToSet(paper'[side][p].market_seqs)
  BY DEF MarketKnown
<1>1. /\ p \in DOMAIN paper[side]
      /\ paper'[side][p].market_seqs = paper[side][p].market_seqs
      /\ paper'[side][p].orders # <<>> => paper[side][p].orders # <<>>
  BY DEF NothingLearnt
<1>2. p \in Prices
  BY <1>1, LevelFacts DEF Inductive
<1>3. ToSet(QueueAt(side, p)') \subseteq ToSet(QueueAt(side, p))
  BY <1>2 DEF QueuesShrink
<1> QED BY <1>1, <1>3 DEF MarketKnown

\* While a snapshot is loaded there are no levels.
LEMMA NoLevels ==
  ASSUME Inductive, call.pc \in {"l2", "l3"}, NEW side \in Sides
  PROVE  DOMAIN paper[side] = {}
<1> SUFFICES ASSUME NEW p \in DOMAIN paper[side] PROVE FALSE
  OBVIOUS
<1>1. DOMAIN paper_orders = {}
  BY CallKinds
<1>2. paper[side][p].orders # <<>>
  BY LevelsHaveOrders
<1> QED BY <1>1, <1>2, LevelFacts DEF Inductive

LEMMA MarketOnUpdate ==
  ASSUME Inductive, MarketKnown, NEW e \in Event,
         OnDelete(e) \/ OnSubtract(e) \/ OnSet(e)
  PROVE  MarketKnown'
<1>1. ~Unknown(e) /\ e.source \in Sources /\ e.qty \in Int
  BY DEF OnDelete, OnSubtract, OnSet, Accepts, Rejected, SubtractRejected, Event
<1>2. CASE e.source = "HISTORICAL"
  <2>1. e.id \in DOMAIN order_info
    BY <1>1, <1>2, Known
  <2>2. PICK qty \in Int : SetHistorical(e.id, qty)
    <3>1. node[NodeOf(e.id)].qty \in Nat /\ Taken(e) \in Int
      BY <1>1, <2>1, TakenFacts
    <3>2. /\ 0 \in Int
          /\ node[NodeOf(e.id)].qty - Taken(e) \in Int
          /\ (IF e.qty < 0 THEN 0 ELSE e.qty) \in Int
      BY <1>1, <3>1
    <3> QED BY <1>2, <3>2 DEF OnDelete, OnSubtract, OnSet
  <2>3. QueuesShrink
    BY <2>1, <2>2, RequantifyShrinks DEF SetHistorical, Inductive
  <2>4. NothingLearnt
    <3>1. Side(e.id) \in Sides
      BY <2>1, OrderFacts DEF Inductive
    <3> QED BY <2>2, <3>1, AdjustedTeachesNothing
            DEF SetHistorical, Inductive, PaperInvariant
  <2> QED BY <2>2, <2>3, <2>4, MarketKept DEF SetHistorical
<1>3. CASE e.source = "STRATEGY"
  <2>1. e.id \in DOMAIN paper_orders
    BY <1>1, <1>3, Known
  <2>2. PICK qty, status : TakeFromPaperOrder(e.id, qty, status)
    BY <1>3 DEF OnDelete, OnSubtract, OnSet
  <2>3. UNCHANGED <<bookVars, order_arrival_seq>>
    BY <1>3 DEF OnDelete, OnSubtract, OnSet
  <2>4. NothingLearnt
    BY <2>1, <2>2, OrderTakenTeachesNothing DEF Inductive, TakeFromPaperOrder
  <2>5. QueuesShrink
    BY <2>3, BookUntouched, QueuesStayShrink DEF bookVars, NodesStay
  <2> QED BY <2>3, <2>4, <2>5, MarketKept
<1> QED BY <1>1, <1>2, <1>3 DEF Sources

LEMMA MarketOnPaperTrade ==
  ASSUME Inductive, MarketKnown, QueueFill \/ TradeAgainstPaper
  PROVE  MarketKnown'
<1>1. call.pc \in {"queue", "paper"} /\ UNCHANGED <<book, node, order_arrival_seq>>
  BY Zenon DEF QueueFill, TradeAgainstPaper, bookVars
<1>2. call.side \in Sides
  BY <1>1, HandlerFacts
<1>3. PICK p, qty, told, status :
        /\ p \in DOMAIN paper[call.side]
        /\ LeavePaperOrder(Head(paper[call.side][p].orders), qty, told, status)
  <2>1. CASE QueueFill
    BY <2>1 DEF QueueFill, QueueLevel, Reached, HasPaperLevel, TakeFromPaperOrder
  <2>2. CASE TradeAgainstPaper
    BY <2>2, Zenon DEF TradeAgainstPaper, BestPaperPrice, FillPaperOrder
  <2> QED BY <2>1, <2>2
<1>4. paper[call.side][p].orders # <<>>
  BY <1>1, <1>2, <1>3, LevelsHaveOrders
<1>5. Head(paper[call.side][p].orders) \in DOMAIN paper_orders
  BY <1>2, <1>3, <1>4, LevelFacts DEF Inductive
<1>6. NothingLearnt
  BY <1>3, <1>5, OrderTakenTeachesNothing DEF Inductive
<1>7. QueuesShrink
  BY <1>1, BookUntouched, QueuesStayShrink DEF NodesStay
<1> QED BY <1>1, <1>6, <1>7, MarketKept

LEMMA MarketOnRest ==
  ASSUME Inductive, MarketKnown, RestHistorical
  PROVE  MarketKnown'
<1>1. /\ call.pc = "rest"
      /\ call.event.side \in Sides
      /\ call.event.price \in Prices
      /\ call.remaining \in Nat
      /\ order_arrival_seq \in Nat
  BY HandlerFacts DEF RestHistorical, Inductive, BookInvariant, BookTypes
<1>2. PICK side \in Sides, p \in Prices, n \in Nat, qty \in Nat :
        /\ side = call.event.side
        /\ p = call.event.price
        /\ n = order_arrival_seq
        /\ qty = call.remaining
  BY <1>1
<1>3. /\ AppendNode(side, p, call.event.id, qty)
      /\ paper' = IF p \in DOMAIN paper[side]
                    THEN [paper EXCEPT ![side][p] = WithMarket(@, n, qty)]
                    ELSE paper
  BY <1>2 DEF RestHistorical, HasPaperLevel
<1>4. NodeJoined(side, p, call.event.id, qty)
  BY <1>3, AppendKind DEF Inductive
<1>5. /\ order_arrival_seq' = n + 1
      /\ QueueAt(side, p)' = Append(QueueAt(side, p), n)
      /\ \A s \in Sides, q \in Prices :
           s # side \/ q # p => QueueAt(s, q)' = QueueAt(s, q)
  BY <1>2, <1>4 DEF NodeJoined
<1>6. DOMAIN paper = Sides
  BY DEF Inductive, PaperInvariant, PaperTypes
<1> SUFFICES ASSUME NEW s \in Sides, NEW q \in DOMAIN paper'[s]
             PROVE  /\ Increasing(paper'[s][q].market_seqs)
                    /\ \A m \in ToSet(paper'[s][q].market_seqs) :
                         m < order_arrival_seq'
                    /\ paper'[s][q].orders # <<>> =>
                         ToSet(QueueAt(s, q)') \subseteq
                           ToSet(paper'[s][q].market_seqs)
  BY DEF MarketKnown
<1>7. CASE s = side /\ q = p
  <2>1. CASE p \in DOMAIN paper[side]
    <3>1. PICK level : level = paper[side][p]
      OBVIOUS
    <3>2. /\ level \in PaperOrderLevel
          /\ level.market_seqs \in Seq(Nat)
      BY <2>1, <3>1, LevelFacts DEF Inductive
    <3>3. /\ Increasing(level.market_seqs)
          /\ \A m \in ToSet(level.market_seqs) : m < n
          /\ level.orders # <<>> =>
               ToSet(QueueAt(side, p)) \subseteq ToSet(level.market_seqs)
      BY <1>2, <2>1, <3>1 DEF MarketKnown
    <3>4. paper'[side][p] = WithMarket(level, n, qty)
      BY <1>3, <1>6, <2>1, <3>1
    <3>5. /\ paper'[side][p].market_seqs = Append(level.market_seqs, n)
          /\ paper'[side][p].orders = level.orders
      BY <3>2, <3>4 DEF WithMarket, PaperOrderLevel
    <3>6. /\ ToSet(Append(level.market_seqs, n)) = ToSet(level.market_seqs) \cup {n}
          /\ Increasing(Append(level.market_seqs, n))
      BY <3>2, <3>3, PushedBackProperties, AppendIncreasing
    <3>7. ToSet(Append(QueueAt(side, p), n)) = ToSet(QueueAt(side, p)) \cup {n}
      BY QueueAtFacts, PushedBackProperties DEF Inductive
    <3>8. \A m \in ToSet(level.market_seqs) \cup {n} : m < n + 1
      <4>1. \A m \in ToSet(level.market_seqs) : m \in Nat /\ m < n
        BY <3>2, <3>3, LenProperties, ElementOfSeq DEF ToSet
      <4> QED BY <4>1
    <3> QED BY <1>5, <1>7, <3>3, <3>5, <3>6, <3>7, <3>8
  <2>2. CASE p \notin DOMAIN paper[side]
    BY <1>3, <1>7, <2>2
  <2> QED BY <2>1, <2>2
<1>8. CASE s # side \/ q # p
  <2>1. q \in DOMAIN paper[s] /\ paper'[s][q] = paper[s][q]
    BY <1>3, <1>6, <1>8
  <2>2. q \in Prices
    BY <2>1, LevelFacts DEF Inductive
  <2>3. QueueAt(s, q)' = QueueAt(s, q)
    BY <1>5, <1>8, <2>2
  <2>4. /\ Increasing(paper[s][q].market_seqs)
        /\ \A m \in ToSet(paper[s][q].market_seqs) : m < n
        /\ paper[s][q].orders # <<>> =>
             ToSet(QueueAt(s, q)) \subseteq ToSet(paper[s][q].market_seqs)
    BY <1>2, <2>1 DEF MarketKnown
  <2>5. \A m \in ToSet(paper[s][q].market_seqs) : m < n + 1
    <3>1. paper[s][q].market_seqs \in Seq(Nat)
      BY <2>1, LevelFacts DEF Inductive
    <3>2. \A m \in ToSet(paper[s][q].market_seqs) : m \in Nat
      BY <3>1, LenProperties, ElementOfSeq DEF ToSet
    <3> QED BY <2>4, <3>2
  <2> QED BY <1>5, <2>1, <2>3, <2>4, <2>5
<1> QED BY <1>7, <1>8

LEMMA MarketOnAcquire ==
  ASSUME Inductive, MarketKnown, AcquirePaperNode
  PROVE  MarketKnown' /\ MirrorFollows'
<1>1. /\ call.pc = "rest"
      /\ call \in Handler
      /\ call.event.side \in Sides
      /\ call.event.price \in Prices
  BY HandlerFacts DEF AcquirePaperNode
<1>2. PICK side \in Sides, p \in Prices :
        side = call.event.side /\ p = call.event.price
  BY <1>1
<1>3. /\ paper' = IF p \in DOMAIN paper[side] THEN paper
                  ELSE [paper EXCEPT ![side] = Put(@, p, NewPaperLevel)]
      /\ call' = [call EXCEPT !.pc = "mirror", !.it = 1]
      /\ UNCHANGED <<book, order_arrival_seq, paper_orders, paper_order_info>>
  BY <1>2 DEF AcquirePaperNode, HasPaperLevel, bookVars
<1>4. call'.event = call.event /\ call'.it = 1
  BY <1>1, <1>3 DEF Handler
<1>5. /\ Len(<<>>) = 0
      /\ ToSet(<<>>) = {}
      /\ Increasing(<<>>)
  BY DEF ToSet, Increasing
<1>6. \A s \in Sides : \A q : QueueAt(s, q)' = QueueAt(s, q)
  BY <1>3 DEF QueueAt
<1>7. Len(QueueAt(side, p)) \in Nat
  BY QueueAtFacts DEF Inductive
<1>8. CASE p \in DOMAIN paper[side]
  <2>1. paper' = paper
    BY <1>3, <1>8
  <2>2. paper[side][p].orders # <<>>
    BY <1>1, <1>8, LevelsHaveOrders
  <2>3. MarketKnown'
    BY <1>3, <1>6, <2>1 DEF MarketKnown
  <2> QED BY <1>2, <1>4, <2>1, <2>2, <2>3 DEF MirrorFollows
<1>9. CASE p \notin DOMAIN paper[side]
  <2>1. paper' = [paper EXCEPT ![side] = Put(@, p, NewPaperLevel)]
    BY <1>3, <1>9
  <2>2. DOMAIN paper = Sides
    BY DEF Inductive, PaperInvariant, PaperTypes
  <2>3. /\ \A s \in Sides : s # side => paper'[s] = paper[s]
        /\ paper'[side] = Put(paper[side], p, NewPaperLevel)
    BY <2>1, <2>2
  <2>4. /\ DOMAIN paper'[side] = DOMAIN paper[side] \cup {p}
        /\ paper'[side][p] = NewPaperLevel
        /\ \A q \in DOMAIN paper[side] : paper'[side][q] = paper[side][q]
    BY <1>9, <2>3 DEF Put
  <2>5. /\ paper'[side][p].orders = <<>>
        /\ paper'[side][p].market_seqs = <<>>
    BY <2>4 DEF NewPaperLevel
  <2>6. MarketKnown'
    <3> SUFFICES ASSUME NEW s \in Sides, NEW q \in DOMAIN paper'[s]
                 PROVE  /\ Increasing(paper'[s][q].market_seqs)
                        /\ \A m \in ToSet(paper'[s][q].market_seqs) :
                             m < order_arrival_seq'
                        /\ paper'[s][q].orders # <<>> =>
                             ToSet(QueueAt(s, q)') \subseteq
                               ToSet(paper'[s][q].market_seqs)
      BY DEF MarketKnown
    <3>1. CASE s = side /\ q = p
      BY <1>5, <2>5, <3>1
    <3>2. CASE s # side \/ q # p
      <4>1. q \in DOMAIN paper[s] /\ paper'[s][q] = paper[s][q]
        BY <2>3, <2>4, <3>2
      <4> QED BY <1>3, <1>6, <4>1 DEF MarketKnown
    <3> QED BY <3>1, <3>2
  <2>7. OwnQueue' = QueueAt(side, p)
    BY <1>2, <1>3, <1>4 DEF OwnQueue, QueueAt
  <2>8. MirrorFollows'
    <3> SUFFICES /\ Len(paper'[side][p].market_seqs) = 1 - 1
                 /\ 1 - 1 <= Len(QueueAt(side, p))
                 /\ \A k \in 1 .. 1 - 1 :
                      paper'[side][p].market_seqs[k] = QueueAt(side, p)[k]
      BY <1>2, <1>4, <2>7 DEF MirrorFollows
    <3> QED BY <1>5, <1>7, <2>5
  <2> QED BY <2>6, <2>8
<1> QED BY <1>8, <1>9

LEMMA MarketOnMirror ==
  ASSUME Inductive, MarketKnown, MirrorFollows, MirrorNode
  PROVE  MarketKnown' /\ MirrorFollows'
<1>1. /\ call.pc = "mirror"
      /\ call \in Handler
      /\ call.it \in Nat \ {0}
      /\ call.event.side \in Sides
      /\ call.event.price \in DOMAIN paper[call.event.side]
  BY HandlerFacts DEF MirrorNode, HandlerState, HasPaperLevel
<1>0. PICK side, p :
        /\ side \in Sides
        /\ side = call.event.side
        /\ p = call.event.price
        /\ p \in DOMAIN paper[side]
  BY <1>1
<1> side \in Sides
  BY <1>0
<1>2. PICK k, q, level :
        /\ k \in Nat \ {0}
        /\ side = call.event.side
        /\ p = call.event.price
        /\ p \in DOMAIN paper[side]
        /\ k = call.it
        /\ q = QueueAt(side, p)
        /\ level = paper[side][p]
  BY <1>0, <1>1
<1> k \in Nat \ {0}
  BY <1>2
<1>3. OwnQueue = q
  BY <1>2 DEF OwnQueue, QueueAt
<1>4. /\ level.orders = <<>>
      /\ k <= Len(q)
      /\ paper' = [paper EXCEPT ![side][p] = WithMarket(@, q[k], node[q[k]].qty)]
      /\ call' = [call EXCEPT !.it = @ + 1]
      /\ UNCHANGED <<book, order_arrival_seq>>
  BY <1>2, <1>3 DEF MirrorNode, Mirroring, bookVars
<1>5. /\ q \in Seq(Nat)
      /\ Len(q) \in Nat
      /\ DOMAIN q = 1 .. Len(q)
      /\ Increasing(q)
      /\ \A n \in ToSet(q) : n \in Nat /\ n < order_arrival_seq
      /\ \A i \in 1 .. Len(q) : q[i] \in ToSet(q)
  BY <1>2, QueueAtFacts DEF Inductive
<1>6. /\ Len(level.market_seqs) = k - 1
      /\ \A i \in 1 .. k - 1 : level.market_seqs[i] = q[i]
  BY <1>1, <1>2, <1>3, <1>4 DEF MirrorFollows
<1>7. /\ level \in PaperOrderLevel
      /\ level.market_seqs \in Seq(Nat)
      /\ p \in Prices
  BY <1>2, LevelFacts DEF Inductive
<1>8. k \in 1 .. Len(q)
  BY <1>2, <1>4, <1>5
<1>9. PICK seqs : seqs = Append(level.market_seqs, q[k])
  OBVIOUS
<1>10. /\ seqs \in Seq(Nat)
       /\ Len(seqs) = k
       /\ \A i \in 1 .. k : seqs[i] = q[i]
  <2>1. q[k] \in Nat
    BY <1>5, <1>8
  <2>2. /\ seqs \in Seq(Nat)
        /\ Len(seqs) = k - 1 + 1
        /\ \A i \in 1 .. k - 1 : seqs[i] = level.market_seqs[i]
        /\ seqs[k - 1 + 1] = q[k]
    BY <1>6, <1>7, <1>9, <2>1, AppendProperties
  <2>3. k - 1 + 1 = k /\ \A i \in 1 .. k : i \in 1 .. k - 1 \/ i = k
    BY <1>2
  <2> QED BY <1>6, <2>2, <2>3
<1>11. DOMAIN seqs = 1 .. k
  BY <1>10, LenProperties
<1>12. DOMAIN paper = Sides
  BY DEF Inductive, PaperInvariant, PaperTypes
<1>13. /\ \A s \in Sides : s # side => paper'[s] = paper[s]
       /\ paper'[side] = [paper[side] EXCEPT ![p] = WithMarket(@, q[k], node[q[k]].qty)]
  BY <1>4, <1>12
<1>14. paper'[side][p] = WithMarket(level, q[k], node[q[k]].qty)
  BY <1>2, <1>13
<1>15. /\ paper'[side][p].orders = <<>>
       /\ paper'[side][p].market_seqs = seqs
  BY <1>4, <1>7, <1>9, <1>14 DEF WithMarket, PaperOrderLevel
<1>16. MarketKnown'
  <2> SUFFICES ASSUME NEW s \in Sides, NEW r \in DOMAIN paper'[s]
               PROVE  /\ Increasing(paper'[s][r].market_seqs)
                      /\ \A m \in ToSet(paper'[s][r].market_seqs) :
                           m < order_arrival_seq'
                      /\ paper'[s][r].orders # <<>> =>
                           ToSet(QueueAt(s, r)') \subseteq
                             ToSet(paper'[s][r].market_seqs)
    BY DEF MarketKnown
  <2>1. CASE s = side /\ r = p
    <3>1. 1 .. k \subseteq 1 .. Len(q)
      BY <1>2, <1>4, <1>5
    <3>2. Increasing(seqs)
      BY <1>5, <1>10, <1>11, <3>1 DEF Increasing
    <3>3. \A m \in ToSet(seqs) : m < order_arrival_seq
      BY <1>5, <1>10, <1>11, <3>1 DEF ToSet
    <3> QED BY <1>4, <1>15, <2>1, <3>2, <3>3
  <2>2. CASE s # side \/ r # p
    <3>1. r \in DOMAIN paper[s] /\ paper'[s][r] = paper[s][r]
      BY <1>13, <2>2
    <3>2. QueueAt(s, r)' = QueueAt(s, r)
      BY <1>4 DEF QueueAt
    <3> QED BY <1>4, <3>1, <3>2 DEF MarketKnown
  <2> QED BY <2>1, <2>2
<1>17. MirrorFollows'
  <2>1. call'.event = call.event /\ call'.it = k + 1
    BY <1>1, <1>2, <1>4 DEF Handler
  <2>2. call'.event.side = side /\ call'.event.price = p /\ book' = book
    BY <1>2, <1>4, <2>1
  <2>3. OwnQueue' = q
    BY <1>2, <2>2 DEF OwnQueue, QueueAt
  <2>4. call'.it - 1 = k
    BY <1>2, <2>1
  <2>5. /\ Len(paper'[side][p].market_seqs) = k
        /\ \A i \in 1 .. k : paper'[side][p].market_seqs[i] = q[i]
    BY <1>10, <1>15
  <2> QED BY <1>4, <2>2, <2>3, <2>4, <2>5 DEF MirrorFollows
<1> QED BY <1>16, <1>17

LEMMA MarketOnJoin ==
  ASSUME Inductive, MarketKnown, MirrorFollows, RestStrategy
  PROVE  MarketKnown'
<1>1. /\ call.pc = "mirror"
      /\ call.it \in Nat \ {0}
      /\ call.event.side \in Sides
      /\ call.event.price \in DOMAIN paper[call.event.side]
  BY HandlerFacts DEF RestStrategy, HandlerState, HasPaperLevel
<1>0. PICK side, p :
        /\ side \in Sides
        /\ side = call.event.side
        /\ p = call.event.price
        /\ p \in DOMAIN paper[side]
  BY <1>1
<1> side \in Sides
  BY <1>0
<1>2. PICK k, q, level :
        /\ k \in Nat \ {0}
        /\ side = call.event.side
        /\ p = call.event.price
        /\ p \in DOMAIN paper[side]
        /\ k = call.it
        /\ q = QueueAt(side, p)
        /\ level = paper[side][p]
  BY <1>0, <1>1
<1> k \in Nat \ {0}
  BY <1>2
<1>3. OwnQueue = q
  BY <1>2 DEF OwnQueue, QueueAt
<1>4. /\ level.orders # <<>> \/ ~(k <= Len(q))
      /\ paper' = [paper EXCEPT ![side][p] =
                     Joined(level, call.event.id, call.remaining)]
      /\ order_arrival_seq' = order_arrival_seq + 1
      /\ UNCHANGED book
  BY <1>2, <1>3 DEF RestStrategy, Mirroring, bookVars
<1>5. /\ level \in PaperOrderLevel
      /\ level.market_seqs \in Seq(Nat)
      /\ p \in Prices
  BY <1>2, LevelFacts DEF Inductive
<1>6. ToSet(q) \subseteq ToSet(level.market_seqs)
  <2>1. CASE level.orders # <<>>
    BY <1>2, <2>1 DEF MarketKnown
  <2>2. CASE level.orders = <<>>
    <3>1. /\ Len(level.market_seqs) = k - 1
          /\ k - 1 <= Len(q)
          /\ \A i \in 1 .. k - 1 : level.market_seqs[i] = q[i]
      BY <1>1, <1>2, <1>3, <2>2 DEF MirrorFollows
    <3>2. Len(q) \in Nat /\ DOMAIN q = 1 .. Len(q)
      BY <1>2, QueueAtFacts DEF Inductive
    <3>3. Len(q) = k - 1
      BY <1>2, <1>4, <2>2, <3>1, <3>2
    <3>4. DOMAIN level.market_seqs = DOMAIN q
      BY <1>5, <3>1, <3>2, <3>3, LenProperties
    <3> QED BY <3>1, <3>2, <3>3, <3>4 DEF ToSet
  <2> QED BY <2>1, <2>2
<1>7. DOMAIN paper = Sides
  BY DEF Inductive, PaperInvariant, PaperTypes
<1>8. /\ \A s \in Sides : s # side => paper'[s] = paper[s]
      /\ paper'[side] = [paper[side] EXCEPT ![p] =
                           Joined(level, call.event.id, call.remaining)]
  BY <1>4, <1>7
<1>9. paper'[side][p] = Joined(level, call.event.id, call.remaining)
  BY <1>2, <1>8
<1>10. paper'[side][p].market_seqs = level.market_seqs
  BY <1>5, <1>9 DEF Joined, PaperOrderLevel
<1> SUFFICES ASSUME NEW s \in Sides, NEW r \in DOMAIN paper'[s]
             PROVE  /\ Increasing(paper'[s][r].market_seqs)
                    /\ \A m \in ToSet(paper'[s][r].market_seqs) :
                         m < order_arrival_seq'
                    /\ paper'[s][r].orders # <<>> =>
                         ToSet(QueueAt(s, r)') \subseteq
                           ToSet(paper'[s][r].market_seqs)
  BY DEF MarketKnown
<1>11. /\ r \in DOMAIN paper[s]
       /\ paper'[s][r].market_seqs = paper[s][r].market_seqs
       /\ s # side \/ r # p => paper'[s][r] = paper[s][r]
  BY <1>2, <1>8, <1>10
<1>12. QueueAt(s, r)' = QueueAt(s, r)
  BY <1>4 DEF QueueAt
<1>13. \A m \in ToSet(paper[s][r].market_seqs) : m < order_arrival_seq + 1
  <2>1. paper[s][r].market_seqs \in Seq(Nat)
    BY <1>11, LevelFacts DEF Inductive
  <2>2. \A m \in ToSet(paper[s][r].market_seqs) : m \in Nat
    BY <2>1, LenProperties, ElementOfSeq DEF ToSet
  <2>3. \A m \in ToSet(paper[s][r].market_seqs) : m < order_arrival_seq
    BY <1>11 DEF MarketKnown
  <2>4. order_arrival_seq \in Nat
    BY DEF Inductive, BookInvariant, BookTypes
  <2> QED BY <2>2, <2>3, <2>4
<1>14. /\ Increasing(paper[s][r].market_seqs)
       /\ paper[s][r].orders # <<>> =>
            ToSet(QueueAt(s, r)) \subseteq ToSet(paper[s][r].market_seqs)
  BY <1>11 DEF MarketKnown
<1>15. paper'[s][r].orders # <<>> =>
         ToSet(QueueAt(s, r)) \subseteq ToSet(paper[s][r].market_seqs)
  BY <1>2, <1>6, <1>11, <1>14
<1> QED BY <1>4, <1>11, <1>12, <1>13, <1>14, <1>15

LEMMA MarketOnCleared ==
  ASSUME clear_state
  PROVE  MarketKnown'
BY DEF clear_state, MarketKnown, Empty

LEMMA MarketStep ==
  ASSUME Inductive, MarketKnown, MirrorFollows, [Next]_vars
  PROVE  MarketKnown' /\ MirrorFollows'
<1>1. ASSUME UNCHANGED <<book, node, order_arrival_seq, paper>>
      PROVE  MarketKnown'
  <2>1. QueuesShrink
    BY <1>1, BookUntouched, QueuesStayShrink DEF NodesStay
  <2>2. NothingLearnt
    BY <1>1 DEF NothingLearnt
  <2> QED BY <1>1, <2>1, <2>2, MarketKept
<1>2. ASSUME call'.pc # "mirror" PROVE MirrorFollows'
  BY <1>2 DEF MirrorFollows
<1>3. /\ \A e \in Events : e \in Event
      /\ Idle.pc # "mirror"
  BY EventsAssumption DEF Idle
<1>4. ASSUME NEW e \in Events, update(e) PROVE MarketKnown' /\ MirrorFollows'
  <2>1. CASE OnAdd(e) \/ OnAggressiveTrade(e) \/ OnMatch(e)
    <3>1. call'.pc # "mirror"
      <4>1. CASE OnAdd(e)
        BY <4>1 DEF OnAdd, NewCall
      <4>2. CASE OnAggressiveTrade(e)
        BY <4>2 DEF OnAggressiveTrade, NewCall
      <4>3. CASE OnMatch(e)
        BY <4>3 DEF OnMatch, NewCall
      <4> QED BY <2>1, <4>1, <4>2, <4>3
    <3>2. UNCHANGED <<book, node, order_arrival_seq, paper>>
      BY <2>1 DEF OnAdd, OnAggressiveTrade, OnMatch, bookVars, paperVars
    <3> QED BY <1>1, <1>2, <3>1, <3>2
  <2>2. CASE Reject(e)
    BY <1>1, <1>2, <1>3, <2>2 DEF Reject, vars, bookVars, paperVars
  <2>3. CASE OnDelete(e) \/ OnSubtract(e) \/ OnSet(e)
    <3>1. call' = Idle
      BY <2>3 DEF OnDelete, OnSubtract, OnSet, Accepts, SetHistorical
    <3> QED BY <1>2, <1>3, <2>3, <3>1, MarketOnUpdate
  <2> QED BY <1>4, <2>1, <2>2, <2>3 DEF update
<1>5. ASSUME NEW rows, InitFromL2Snapshot(rows) \/ InitFromL3Snapshot(rows)
      PROVE  MarketKnown' /\ MirrorFollows'
  <2>1. call'.pc # "mirror"
    BY <1>5 DEF InitFromL2Snapshot, InitFromL3Snapshot
  <2> QED BY <1>2, <1>5, <2>1, MarketOnCleared
          DEF InitFromL2Snapshot, InitFromL3Snapshot
<1>6. ASSUME NEW side \in Sides, GetBestPriceTicks(side)
      PROVE  MarketKnown' /\ MirrorFollows'
  BY <1>1, <1>2, <1>3, <1>6 DEF GetBestPriceTicks, paperVars
<1>7. ASSUME Continue PROVE MarketKnown' /\ MirrorFollows'
  <2>1. CASE \/ StrategySweep \/ EndSweep \/ EndQueue \/ EndPaper \/ EndAdd
             \/ MatchFill \/ EndSnapshot
    <3>1. UNCHANGED <<book, node, order_arrival_seq, paper>>
      BY <2>1, Zenon DEF StrategySweep, EndSweep, EndQueue, EndPaper, EndAdd, MatchFill,
                  EndSnapshot, bookVars, paperVars
    <3>2. call'.pc # "mirror"
      <4>1. CASE EndAdd \/ EndSnapshot
        <5>1. call' = Idle
          BY <4>1, Zenon DEF EndAdd, EndSnapshot
        <5> QED BY <5>1 DEF Idle
      <4>2. CASE \/ StrategySweep \/ EndSweep \/ EndQueue \/ EndPaper \/ MatchFill
        <5>1. call \in Handler
          BY <4>2, HandlerFacts, Zenon
             DEF StrategySweep, EndSweep, EndQueue, EndPaper, MatchFill
        <5> QED BY <1>3, <4>2, <5>1
                DEF StrategySweep, EndSweep, EndQueue, EndPaper, MatchFill, Handler
      <4> QED BY <2>1, <4>1, <4>2
    <3> QED BY <1>1, <1>2, <3>1, <3>2
  <2>2. CASE HistoricalSweep
    <3>1. UNCHANGED <<paper, order_arrival_seq>>
      BY <2>2, Zenon DEF HistoricalSweep, paperVars
    <3>2. call'.pc # "mirror"
      BY <2>2, SweepKind
    <3>3. NothingLearnt
      BY <3>1 DEF NothingLearnt
    <3> QED BY <1>2, <2>2, <3>1, <3>2, <3>3, SweepShrinks, MarketKept
  <2>3. CASE QueueFill \/ TradeAgainstPaper
    <3>1. call.pc \in {"queue", "paper"}
      BY <2>3, Zenon DEF QueueFill, TradeAgainstPaper
    <3>2. call'.pc # "mirror"
      <4>1. call \in Handler
        BY <3>1, HandlerFacts
      <4> QED BY <2>3, <3>1, <4>1, Zenon DEF QueueFill, TradeAgainstPaper, Handler
    <3> QED BY <1>2, <2>3, <3>2, MarketOnPaperTrade
  <2>4. CASE Settle
    <3>1. /\ call \in Handler
          /\ call.side \in Sides
          /\ call'.pc # "mirror"
      BY <2>4, HandlerFacts DEF Settle, Handler
    <3>2. NothingLearnt
      BY <2>4, <3>1, AdjustedTeachesNothing DEF Settle, Inductive, PaperInvariant
    <3>3. UNCHANGED <<book, node, order_arrival_seq>>
      BY <2>4 DEF Settle, bookVars
    <3> QED BY <1>2, <3>1, <3>2, <3>3, BookUntouched, QueuesStayShrink, MarketKept
            DEF NodesStay
  <2>5. CASE EndLevel
    <3>1. call \in Handler
      BY <2>5, HandlerFacts DEF EndLevel
    <3>2. call'.pc # "mirror" /\ UNCHANGED <<paper, order_arrival_seq>>
      BY <2>5, <3>1 DEF EndLevel, Handler, paperVars
    <3>3. NothingLearnt
      BY <3>2 DEF NothingLearnt
    <3> QED BY <1>2, <2>5, <3>2, <3>3, EndLevelKind, QueuesStayShrink, MarketKept
            DEF NodesStay
  <2>6. CASE RestHistorical
    BY <1>2, <1>3, <2>6, MarketOnRest DEF RestHistorical
  <2>7. CASE AcquirePaperNode
    BY <2>7, MarketOnAcquire
  <2>8. CASE MirrorNode
    BY <2>8, MarketOnMirror
  <2>9. CASE RestStrategy
    BY <1>2, <1>3, <2>9, MarketOnJoin DEF RestStrategy
  <2>10. CASE EndMatch
    <3>1. call.event.id \in DOMAIN order_info /\ call.event.qty \in Int
      <4>1. call.pc = "reduce"
        BY <2>10 DEF EndMatch
      <4>2. call.event.qty \in Nat
        BY <4>1, HandlerFacts
      <4> QED BY <4>1, <4>2, HandlerKinds
    <3>2. PICK qty \in Int : Requantify(call.event.id, qty)
      <4>1. node[NodeOf(call.event.id)].qty \in Nat /\ Taken(call.event) \in Int
        BY <3>1, TakenFacts
      <4>2. node[NodeOf(call.event.id)].qty - Taken(call.event) \in Int
        BY <4>1
      <4> QED BY <2>10, <4>2 DEF EndMatch
    <3>3. UNCHANGED <<paper, order_arrival_seq>> /\ call'.pc # "mirror"
      BY <1>3, <2>10 DEF EndMatch, paperVars
    <3>4. NothingLearnt
      BY <3>3 DEF NothingLearnt
    <3> QED BY <1>2, <3>1, <3>2, <3>3, <3>4, RequantifyShrinks, MarketKept
            DEF Inductive
  <2>11. CASE L2Row \/ L3Row
    <3>1. call.pc \in {"l2", "l3"} /\ call \in Load /\ UNCHANGED paper
      BY <2>11, CallKinds DEF L2Row, L3Row, paperVars
    <3>2. MarketKnown'
      <4>1. \A side \in Sides : DOMAIN paper'[side] = {}
        BY <3>1, NoLevels
      <4> QED BY <4>1 DEF MarketKnown
    <3>3. call'.pc # "mirror"
      <4>1. call' = Idle \/ NextRow
        BY <2>11 DEF L2Row, L3Row
      <4>2. NextRow => call'.pc = call.pc
        BY <3>1 DEF NextRow, Load
      <4> QED BY <1>3, <3>1, <4>1, <4>2
    <3> QED BY <1>2, <3>2, <3>3
  <2> QED BY <1>7, <2>1, <2>2, <2>3, <2>4, <2>5, <2>6, <2>7, <2>8, <2>9, <2>10,
             <2>11 DEF Continue
<1>8. CASE UNCHANGED vars
  <2>1. MirrorFollows'
    BY <1>8 DEF vars, bookVars, paperVars, MirrorFollows, OwnQueue
  <2> QED BY <1>1, <1>8, <2>1 DEF vars, bookVars, paperVars
<1> QED BY <1>4, <1>5, <1>6, <1>7, <1>8 DEF Next

(***************************************************************************)
(* lower_bound on market_seqs finds the orders ahead of a paper order:     *)
(* queues and what levels know of them stay in the order of arrival, and   *)
(* a level with orders misses no order of the book at its price.           *)
(***************************************************************************)
THEOREM ArrivalsInOrder == Spec => []ArrivalOrder
<1>1. Init => MarketKnown /\ MirrorFollows
  BY DEF Init, MarketKnown, MirrorFollows, Empty, Idle
<1>2. ASSUME Inductive, MarketKnown PROVE ArrivalOrder
  <2>1. ASSUME NEW side \in Sides, NEW p \in DOMAIN book[side]
        PROVE  Increasing(book[side][p]) /\ QueueAt(side, p) = book[side][p]
    BY <1>2, <2>1, QueueFacts DEF QueueAt, Inductive
  <2> QED BY <1>2, <2>1 DEF ArrivalOrder, MarketKnown
<1>3. Inductive /\ MarketKnown /\ MirrorFollows /\ [Next]_vars =>
        (MarketKnown /\ MirrorFollows)'
  BY MarketStep
<1> QED BY <1>1, <1>2, <1>3, Invariance, PTL DEF Spec
-----------------------------------------------------------------------------
(***************************************************************************)
(* Sweeps.                                                                 *)
(***************************************************************************)
LEMMA BetterOrders ==
  ASSUME NEW side \in Sides, NEW p \in Prices, NEW q \in Prices
  PROVE  /\ ~Better(side, p, q) /\ p # q => Better(side, q, p)
         /\ ~(Better(side, p, q) /\ Better(side, q, p))
         /\ \A r \in Prices : Better(side, p, q) /\ Better(side, q, r) => Better(side, p, r)
BY PricesAssumption DEF Better

LEMMA FillFacts ==
  ASSUME NEW fills \in Seq(Fill)
  PROVE  /\ Len(fills) \in Nat
         /\ DOMAIN fills = 1 .. Len(fills)
         /\ \A k \in DOMAIN fills : /\ k \in Nat
                                    /\ fills[k] \in Fill
                                    /\ fills[k].price \in Prices
                                    /\ fills[k].seq \in Nat
                                    /\ fills[k].source \in Sources
<1>1. /\ Len(fills) \in Nat
      /\ DOMAIN fills = 1 .. Len(fills)
  BY LenProperties
<1>2. \A k \in 1 .. Len(fills) : fills[k] \in Fill
  BY ElementOfSeq
<1> QED BY <1>1, <1>2 DEF Fill

\* The call reports a fill against n, at price p, or nothing.
BookFillReported(n, p) ==
  /\ call'.side = call.side
  /\ \/ call'.fills = call.fills
     \/ \E f \in Fill : /\ f.source = "HISTORICAL"
                        /\ f.price = p
                        /\ f.seq = n
                        /\ call'.fills = Append(call.fills, f)

\* The call reports no fill against the book.
NoBookFill ==
  /\ call'.side = call.side
  /\ \/ call'.fills = call.fills
     \/ \E f \in Fill : f.source = "STRATEGY" /\ call'.fills = Append(call.fills, f)

LEMMA LastAppended ==
  ASSUME NEW fills \in Seq(Fill), NEW f, Append(fills, f) \in Seq(Fill)
  PROVE  f \in Fill
<1>1. PICK new : new = Append(fills, f)
  OBVIOUS
<1>2. Len(fills) \in Nat
  BY LenProperties
<1>3. Len(new) = Len(fills) + 1 /\ new[Len(fills) + 1] = f
  BY <1>1, <1>2
<1>4. \A k \in 1 .. Len(new) : new[k] \in Fill
  BY <1>1, ElementOfSeq
<1> QED BY <1>2, <1>3, <1>4

LEMMA AppendedFill ==
  ASSUME NEW fills \in Seq(Fill), NEW f \in Fill, NEW new, new = Append(fills, f)
  PROVE  /\ new \in Seq(Fill)
         /\ DOMAIN new = DOMAIN fills \cup {Len(fills) + 1}
         /\ Len(fills) + 1 \notin DOMAIN fills
         /\ new[Len(fills) + 1] = f
         /\ \A k \in DOMAIN fills : new[k] = fills[k] /\ k < Len(fills) + 1
<1>1. Len(fills) \in Nat /\ DOMAIN fills = 1 .. Len(fills)
  BY FillFacts
<1>2. /\ new \in Seq(Fill)
      /\ Len(new) = Len(fills) + 1
      /\ \A k \in 1 .. Len(fills) : new[k] = fills[k]
      /\ new[Len(fills) + 1] = f
  BY AppendProperties
<1>3. DOMAIN new = 1 .. Len(fills) + 1
  BY <1>2, LenProperties
<1> QED BY <1>1, <1>2, <1>3

LEMMA NoBookFillFacts ==
  ASSUME call.fills \in Seq(Fill), NoBookFill
  PROVE  /\ BookFills' = BookFills
         /\ \A p, n : FilledBefore(p, n) => FilledBefore(p, n)'
         /\ Handling /\ PriceTimePriority => PriceTimePriority'
<1>1. PICK fills, new : fills = call.fills /\ new = call'.fills
  OBVIOUS
<1>2. /\ BookFills' = BookFills
      /\ \A k \in BookFills : new[k] = fills[k]
  <2>1. CASE new = fills
    BY <1>1, <2>1 DEF BookFills
  <2>2. CASE \E f \in Fill : f.source = "STRATEGY" /\ new = Append(fills, f)
    <3>1. PICK f \in Fill : f.source = "STRATEGY" /\ new = Append(fills, f)
      BY <2>2
    <3>2. /\ DOMAIN new = DOMAIN fills \cup {Len(fills) + 1}
          /\ new[Len(fills) + 1] = f
          /\ Len(fills) + 1 \notin DOMAIN fills
          /\ \A k \in DOMAIN fills : new[k] = fills[k]
      BY <1>1, <3>1, AppendedFill
    <3> QED BY <1>1, <3>1, <3>2 DEF BookFills
  <2> QED BY <1>1, <2>1, <2>2 DEF NoBookFill
<1>3. \A p, n : FilledBefore(p, n) => FilledBefore(p, n)'
  BY <1>1, <1>2 DEF FilledBefore, NoBookFill
<1>4. ASSUME Handling, PriceTimePriority PROVE PriceTimePriority'
  <2> SUFFICES ASSUME NEW j \in DOMAIN new, NEW k \in DOMAIN new, j < k,
                      new[j].source = "HISTORICAL", new[k].source = "HISTORICAL"
               PROVE  \/ Better(call'.side, new[j].price, new[k].price)
                      \/ new[j].price = new[k].price /\ new[j].seq < new[k].seq
    BY <1>1 DEF PriceTimePriority
  <2>1. j \in BookFills /\ k \in BookFills
    BY <1>1, <1>2 DEF BookFills
  <2>2. new[j] = fills[j] /\ new[k] = fills[k]
    BY <1>2, <2>1
  <2> QED BY <1>1, <1>4, <2>1, <2>2 DEF PriceTimePriority, NoBookFill, BookFills
<1> QED BY <1>2, <1>3, <1>4

\* A fill that comes after all others keeps the order, and comes before what
\* is worse or has arrived later.
LEMMA BookFillKeepsOrder ==
  ASSUME call.fills \in Seq(Fill), call.side \in Sides,
         NEW n \in Nat, NEW p \in Prices, BookFillReported(n, p),
         Handling, PriceTimePriority, FilledBefore(p, n)
  PROVE  /\ PriceTimePriority'
         /\ \A q \in Prices, m \in Nat :
              \/ Better(call.side, p, q)
              \/ p = q /\ n < m
              => FilledBefore(q, m)'
<1>0. PICK side \in Sides : side = call.side
  OBVIOUS
<1>1. PICK fills, new :
        /\ fills = call.fills
        /\ new = call'.fills
        /\ side = call.side
        /\ side = call'.side
  BY <1>0 DEF BookFillReported
<1>2. \A k \in DOMAIN fills : /\ fills[k].price \in Prices
                              /\ fills[k].seq \in Nat
  BY <1>1, FillFacts
<1>3. \A k \in DOMAIN fills : fills[k].source = "HISTORICAL" =>
        \/ Better(side, fills[k].price, p)
        \/ fills[k].price = p /\ fills[k].seq < n
  BY <1>1 DEF FilledBefore, BookFills
<1>4. \A j, k \in DOMAIN fills :
        j < k /\ fills[j].source = "HISTORICAL" /\ fills[k].source = "HISTORICAL" =>
          \/ Better(side, fills[j].price, fills[k].price)
          \/ fills[j].price = fills[k].price /\ fills[j].seq < fills[k].seq
  BY <1>1 DEF PriceTimePriority
<1>5. \A k \in DOMAIN new :
        \/ k \in DOMAIN fills /\ new[k] = fills[k]
        \/ new[k].price = p /\ new[k].seq = n /\ \A j \in DOMAIN new : j <= k
  <2>1. CASE new = fills
    BY <2>1
  <2>2. CASE new # fills
    <3>1. PICK f \in Fill : f.price = p /\ f.seq = n /\ new = Append(fills, f)
      BY <1>1, <2>2 DEF BookFillReported
    <3>2. /\ DOMAIN new = DOMAIN fills \cup {Len(fills) + 1}
          /\ new[Len(fills) + 1] = f
          /\ \A k \in DOMAIN fills : new[k] = fills[k] /\ k < Len(fills) + 1
      BY <1>1, <3>1, AppendedFill
    <3>3. Len(fills) \in Nat /\ \A k \in DOMAIN fills : k \in Nat
      BY <1>1, FillFacts
    <3>4. \A j \in DOMAIN new : j <= Len(fills) + 1
      BY <3>2, <3>3
    <3> QED BY <3>1, <3>2, <3>4
  <2> QED BY <2>1, <2>2
<1>6. \A k \in DOMAIN new : k \in Nat
  <2>1. new \in Seq(Fill)
    <3>1. CASE new = fills
      BY <1>1, <3>1
    <3>2. CASE \E f \in Fill : new = Append(fills, f)
      BY <1>1, <3>2, AppendedFill
    <3> QED BY <1>1, <3>1, <3>2 DEF BookFillReported
  <2> QED BY <2>1, FillFacts
<1>7. PriceTimePriority'
  <2> SUFFICES ASSUME NEW j \in DOMAIN new, NEW k \in DOMAIN new, j < k,
                      new[j].source = "HISTORICAL", new[k].source = "HISTORICAL"
               PROVE  \/ Better(side, new[j].price, new[k].price)
                      \/ new[j].price = new[k].price /\ new[j].seq < new[k].seq
    BY <1>1 DEF PriceTimePriority
  <2>1. j \in DOMAIN fills /\ new[j] = fills[j]
    <3>1. ~(k <= j)
      BY <1>6
    <3> QED BY <1>5, <3>1
  <2>2. CASE k \in DOMAIN fills /\ new[k] = fills[k]
    BY <1>4, <2>1, <2>2
  <2>3. CASE new[k].price = p /\ new[k].seq = n
    BY <1>3, <2>1, <2>3
  <2> QED BY <1>5, <2>2, <2>3
<1>8. ASSUME NEW q \in Prices, NEW m \in Nat,
             Better(side, p, q) \/ (p = q /\ n < m)
      PROVE  FilledBefore(q, m)'
  <2> SUFFICES ASSUME NEW k \in DOMAIN new, new[k].source = "HISTORICAL"
               PROVE  \/ Better(side, new[k].price, q)
                      \/ new[k].price = q /\ new[k].seq < m
    BY <1>1 DEF FilledBefore, BookFills
  <2>1. CASE k \in DOMAIN fills /\ new[k] = fills[k]
    <3>1. /\ fills[k].price \in Prices
          /\ fills[k].seq \in Nat
          /\ \/ Better(side, fills[k].price, p)
             \/ fills[k].price = p /\ fills[k].seq < n
      BY <1>2, <1>3, <2>1
    <3>2. CASE Better(side, p, q)
      BY <2>1, <3>1, <3>2, BetterOrders
    <3>3. CASE p = q /\ n < m
      BY <2>1, <3>1, <3>3
    <3> QED BY <1>8, <3>2, <3>3
  <2>2. CASE new[k].price = p /\ new[k].seq = n
    BY <1>8, <2>2
  <2> QED BY <1>5, <2>1, <2>2
<1> QED BY <1>1, <1>7, <1>8

\* A step of a call that trades with nothing of the book.
CallGoesOn ==
  /\ NoBookFill
  /\ QueuesStay
  /\ call'.event = call.event
  /\ call'.remaining \in Nat
  /\ call'.remaining <= call.remaining
  /\ call'.pc \in {"queue", "settle"} => call.pc \in {"queue", "settle"}
  /\ call'.pc = "sweep" =>
       call.event.source = "HISTORICAL" /\ call.pc = "settle"
  /\ Trading({"paper", "rest"})' =>
       \/ call.pc \in {"paper", "rest"}
       \/ \A p \in Prices : Live(call.side, p) => ~Crosses(call.event, p)

LEMMA CallGoesOnKeepsPriority ==
  ASSUME Inductive, SweepProceeds, PriceTimePriority, Handling, CallGoesOn
  PROVE  SweepProceeds' /\ PriceTimePriority'
<1>1. /\ call \in Handler
      /\ call.fills \in Seq(Fill)
      /\ call.side \in Sides
      /\ call.remaining \in Nat
  BY HandlerFacts DEF Handling
<1>2. /\ call'.side = call.side
      /\ call'.event = call.event
      /\ BookFills' = BookFills
      /\ \A p, n : FilledBefore(p, n) => FilledBefore(p, n)'
      /\ PriceTimePriority'
  BY <1>1, NoBookFillFacts DEF CallGoesOn, NoBookFill
<1>3. call'.remaining > 0 => call.remaining > 0
  BY <1>1 DEF CallGoesOn
<1>5. Handling' /\ call'.event.type = "ADD" => call'.side = Opposite(call'.event.side)
  BY <1>2 DEF SweepProceeds
<1>6. call'.pc \in {"queue", "settle"} /\ call'.event.type = "MATCH" => BookFills' = {}
  BY <1>2 DEF SweepProceeds, CallGoesOn
<1>7. ~(call'.pc = "sweep" /\ call'.event.source = "STRATEGY")
  BY <1>2 DEF CallGoesOn
<1>8. Trading({"sweep", "queue", "settle"})' =>
        \A p \in Prices : \A n \in ToSet(QueueAt(call.side, p)) : FilledBefore(p, n)'
  <2>1. Trading({"sweep", "queue", "settle"})' => Trading({"sweep", "queue", "settle"})
    BY <1>2, <1>3 DEF Trading, CallGoesOn
  <2> QED BY <1>2, <2>1 DEF SweepProceeds
<1>9. Trading({"paper", "rest"})' =>
        \A p \in Prices : Live(call.side, p) => ~Crosses(call.event, p)
  BY <1>2, <1>3 DEF Trading, CallGoesOn, SweepProceeds
<1>10. PICK side, e :
        /\ side \in Sides
        /\ side = call.side /\ e = call.event
  BY <1>1
<1> side \in Sides
  BY <1>10
<1>11. side = call'.side /\ e = call'.event
  BY <1>2, <1>10
<1>12. \A p \in Prices :
         /\ QueueAt(side, p)' = QueueAt(side, p)
         /\ Live(side, p)' <=> Live(side, p)
         /\ Crosses(e, p)' <=> Crosses(e, p)
  <2>1. \A p \in Prices : QueueAt(side, p)' = QueueAt(side, p)
    BY DEF CallGoesOn, QueuesStay
  <2>2. \A p \in Prices : (Live(side, p)' <=> QueueAt(side, p)' # <<>>)
                          /\ (Live(side, p) <=> QueueAt(side, p) # <<>>)
    BY DEF Live, QueueAt
  <2> QED BY <2>1, <2>2 DEF Crosses
<1>13. Trading({"sweep", "queue", "settle"})' =>
         \A p \in Prices : \A n \in ToSet(QueueAt(side, p)') : FilledBefore(p, n)'
  BY <1>8, <1>10, <1>12
<1>14. Trading({"paper", "rest"})' =>
         \A p \in Prices : Live(side, p)' => ~Crosses(e, p)'
  BY <1>9, <1>10, <1>12
<1> QED BY <1>2, <1>5, <1>6, <1>7, <1>11, <1>13, <1>14 DEF SweepProceeds

\* Outside of the handlers that trade there is nothing to keep.
LEMMA NoTradePriority ==
  ASSUME \/ ~Handling'
         \/ /\ call'.pc \in {"sweep", "queue", "settle"}
            /\ call'.fills = <<>>
            /\ call'.event.type = "ADD" => call'.side = Opposite(call'.event.side)
  PROVE  SweepProceeds' /\ PriceTimePriority'
<1>1. CASE ~Handling'
  BY <1>1 DEF Handling, SweepProceeds, PriceTimePriority, Trading
<1>2. CASE /\ call'.pc \in {"sweep", "queue", "settle"}
           /\ call'.fills = <<>>
           /\ call'.event.type = "ADD" => call'.side = Opposite(call'.event.side)
  <2>1. BookFills' = {}
    BY <1>2 DEF BookFills
  <2>2. \A p, n : FilledBefore(p, n)'
    BY <2>1 DEF FilledBefore
  <2>3. PriceTimePriority'
    BY <1>2 DEF PriceTimePriority
  <2> QED BY <1>2, <2>1, <2>2, <2>3 DEF SweepProceeds, Trading
<1> QED BY <1>1, <1>2

\* Among prices there is a best one, although the heap names others.
LEMMA LeastOfRelation ==
  ASSUME NEW R, IsWellFoundedOn(R, Nat),
         \A x, y \in Nat : x < y => <<x, y>> \in R,
         NEW T, T \subseteq Nat, T # {}
  PROVE  \E x \in T : \A y \in T : x <= y
<1>1. PICK x \in T : \A y \in T : ~ (<<y, x>> \in R)
  BY WFMin, ZenonT(60)
<1>2. ASSUME NEW y \in T PROVE x <= y
  <2>1. x \in Nat /\ y \in Nat
    OBVIOUS
  <2>2. ~ (<<y, x>> \in R)
    BY <1>1
  <2>3. ~ (y < x)
    BY <2>1, <2>2
  <2> QED BY <2>1, <2>3
<1> QED BY <1>2

LEMMA LeastNatural ==
  ASSUME NEW T, T \subseteq Nat, T # {}
  PROVE  \E x \in T : \A y \in T : x <= y
<1> DEFINE R == OpToRel(<, Nat)
<1>1. IsWellFoundedOn(R, Nat)
  BY NatLessThanWellFounded
<1>2. \A x, y \in Nat : x < y => <<x, y>> \in R
  BY DEF OpToRel
<1> HIDE DEF R
<1> QED BY <1>1, <1>2, LeastOfRelation

LEMMA BestExists ==
  ASSUME NEW side \in Sides, NEW S, S \subseteq Prices, S # {}
  PROVE  \E p \in S : \A q \in S : ~Better(side, q, p)
<1> DEFINE above(p) == {q \in S : Better(side, q, p)}
           T == {Cardinality(above(p)) : p \in S}
<1>1. IsFiniteSet(S)
  BY PricesAssumption, FS_Subset
<1>2. \A p \in S : IsFiniteSet(above(p)) /\ Cardinality(above(p)) \in Nat
  BY <1>1, FS_Subset, FS_CardinalityType
<1>3. PICK c \in T : \A d \in T : c <= d
  <2>1. T \subseteq Nat /\ T # {}
    BY <1>2
  <2> HIDE DEF T
  <2> QED BY <2>1, LeastNatural
<1>4. PICK p \in S : c = Cardinality(above(p))
  BY <1>3
<1>5. ASSUME NEW q \in S, Better(side, q, p) PROVE FALSE
  <2>1. q \in above(p) /\ q \notin above(q)
    BY <1>5, BetterOrders
  <2>2. above(q) \subseteq above(p)
    BY <1>5, BetterOrders
  <2>3. Cardinality(above(p)) <= Cardinality(above(q))
    BY <1>3, <1>4
  <2> HIDE DEF above
  <2>4. /\ Cardinality(above(q)) <= Cardinality(above(p))
        /\ Cardinality(above(p)) = Cardinality(above(q)) => above(p) = above(q)
    BY <1>2, <2>2, FS_Subset
  <2>5. Cardinality(above(p)) \in Nat /\ Cardinality(above(q)) \in Nat
    BY <1>2
  <2>6. Cardinality(above(p)) = Cardinality(above(q))
    BY <2>3, <2>4, <2>5
  <2> QED BY <2>1, <2>4, <2>6
<1> QED BY <1>5

LEMMA BestPriceExists ==
  ASSUME HeapCovers, NEW side \in Sides, NEW p \in Prices, Live(side, p)
  PROVE  \E q \in BestPrice(heap[side], side) : ~Better(side, p, q)
<1> DEFINE S == {q \in Prices : heap[side][q] > 0 /\ Live(side, q)}
<1>1. p \in S
  BY DEF HeapCovers
<1>2. PICK q \in S : \A r \in S : ~Better(side, r, q)
  BY <1>1, BestExists
<1>3. q \in BestPrice(heap[side], side)
  BY <1>2 DEF BestPrice
<1> QED BY <1>1, <1>2, <1>3

\* The strategy's next maker comes after all it has traded with.
LEMMA StrategySweepPriority ==
  ASSUME Inductive, SweepProceeds, PriceTimePriority, StrategySweep
  PROVE  SweepProceeds' /\ PriceTimePriority'
<1>1. /\ call.pc = "sweep"
      /\ call.event.source = "STRATEGY"
      /\ call.remaining > 0
      /\ Handling
      /\ UNCHANGED book
  BY DEF StrategySweep, Handling, bookVars
<1>2. /\ call \in Handler
      /\ call.side \in Sides
      /\ call.remaining \in Nat
      /\ call.heap_copy \in Bag
      /\ call.it \in Nat \ {0}
      /\ call.fills \in Seq(Fill)
  BY <1>1, HandlerFacts
<1>3. PICK p \in BestPrice(call.heap_copy, call.side) :
        LET queue == book[call.side][p]
            n     == queue[call.it]
            take  == Lesser(node[n].qty, call.remaining)
            left  == take = call.remaining \/ call.it = Len(queue)
            stack == Pruned(call.heap_copy, call.side)
        IN  call' = [call EXCEPT
               !.price = p,
               !.remaining = @ - take,
               !.it = IF left THEN 1 ELSE @ + 1,
               !.heap_copy = IF left THEN AllPopped(stack, p) ELSE stack,
               !.fills = IF take > 0 THEN Append(@, BookFill(n, p, take)) ELSE @]
  BY <1>1, Zenon DEF StrategySweep, NextPrice
<1>4. PICK side \in Sides, h \in Bag, it \in Nat \ {0} :
        side = call.side /\ h = call.heap_copy /\ it = call.it
  BY <1>2
<1>5. /\ p \in Prices
      /\ h[p] > 0
      /\ Live(side, p)
      /\ \A q \in Prices : h[q] > 0 /\ Live(side, q) => ~Better(side, q, p)
  BY <1>3, <1>4 DEF BestPrice
<1>6. PICK queue, n, take, left, stack :
        /\ queue = book[side][p]
        /\ n = queue[it]
        /\ take = Lesser(node[n].qty, call.remaining)
        /\ left <=> (take = call.remaining \/ it = Len(queue))
        /\ stack = Pruned(h, side)
  OBVIOUS
<1>7. QueueAt(side, p) = queue
  BY <1>5, <1>6 DEF QueueAt, Live
<1>8. /\ Len(queue) \in Nat
      /\ DOMAIN queue = 1 .. Len(queue)
      /\ Increasing(queue)
      /\ \A k \in 1 .. Len(queue) : queue[k] \in ToSet(queue)
      /\ \A m \in ToSet(queue) : m \in Nat /\ m \in DOMAIN node /\ node[m] \in Node
  BY <1>7, QueueAtFacts DEF Inductive
<1>9. it \in 1 .. Len(queue)
  <2>1. HandlerState
    BY <1>1, HandlerFacts
  <2>2. it <= Len(queue)
    BY <1>1, <1>3, <1>4, <1>6, <2>1, Zenon DEF HandlerState
  <2> QED BY <1>8, <2>2
<1>10. /\ n \in Nat
       /\ n \in DOMAIN node
       /\ node[n].qty \in Nat
       /\ take \in Nat
  <2>1. n \in Nat /\ n \in DOMAIN node /\ node[n] \in Node
    BY <1>6, <1>8, <1>9
  <2>2. node[n].qty \in Nat
    BY <2>1 DEF Node
  <2>3. Lesser(node[n].qty, call.remaining) \in Nat
    BY <1>2, <2>2, LesserFacts
  <2> QED BY <1>6, <2>1, <2>2, <2>3
<1>11. call' = [call EXCEPT
          !.price = p,
          !.remaining = @ - take,
          !.it = IF left THEN 1 ELSE @ + 1,
          !.heap_copy = IF left THEN AllPopped(stack, p) ELSE stack,
          !.fills = IF take > 0 THEN Append(@, BookFill(n, p, take)) ELSE @]
  BY <1>3, <1>4, <1>6, Zenon
<1>12. /\ call'.pc = "sweep"
       /\ call'.event = call.event
       /\ call'.side = side
       /\ call'.it = IF left THEN 1 ELSE it + 1
       /\ call'.heap_copy = IF left THEN AllPopped(stack, p) ELSE stack
       /\ call'.fills = IF take > 0 THEN Append(call.fills, BookFill(n, p, take))
                                    ELSE call.fills
  BY <1>1, <1>2, <1>4, <1>11 DEF Handler
<1>13. \A r \in Prices : h[r] > 0 =>
         \A k \in it .. Len(QueueAt(side, r)) : FilledBefore(r, QueueAt(side, r)[k])
  BY <1>1, <1>4 DEF SweepProceeds
<1>14. FilledBefore(p, n)
  <2>1. it \in it .. Len(queue)
    BY <1>8, <1>9
  <2> QED BY <1>5, <1>6, <1>7, <1>13, <2>1
<1>15. BookFillReported(n, p)
  <2>1. CASE take > 0
    <3>1. BookFill(n, p, take) \in Fill
      BY <1>2, <1>5, <1>10, BookFillType
    <3>2. /\ BookFill(n, p, take).source = "HISTORICAL"
          /\ BookFill(n, p, take).price = p
          /\ BookFill(n, p, take).seq = n
      BY DEF BookFill
    <3> QED BY <1>4, <1>12, <2>1, <3>1, <3>2 DEF BookFillReported
  <2>2. CASE ~(take > 0)
    BY <1>4, <1>12, <2>2 DEF BookFillReported
  <2> QED BY <2>1, <2>2
<1>16. /\ PriceTimePriority'
       /\ \A q \in Prices, m \in Nat :
            Better(side, p, q) \/ (p = q /\ n < m) => FilledBefore(q, m)'
  BY <1>1, <1>2, <1>4, <1>5, <1>10, <1>14, <1>15, BookFillKeepsOrder
<1>17. ASSUME NEW r \in Prices, NEW q, q = QueueAt(side, r),
              call'.heap_copy[r] > 0,
              NEW k \in call'.it .. Len(q)
       PROVE  FilledBefore(r, q[k])'
  <2>1. q = QueueAt(side, r)
    BY <1>17
  <2>2. /\ Len(q) \in Nat
        /\ q # <<>> => Live(side, r)
        /\ \A j \in 1 .. Len(q) : q[j] \in Nat
    BY <2>1, QueueAtFacts DEF Inductive
  <2>3. k \in 1 .. Len(q)
    <3>1. call'.it \in Nat /\ call'.it >= 1
      BY <1>4, <1>12
    <3> QED BY <1>17, <2>1, <2>2, <3>1
  <2>4. q[k] \in Nat /\ Live(side, r)
    BY <2>2, <2>3
  <2>5. h[r] > 0 /\ (left => r # p)
    <3>1. stack[r] > 0 /\ (left => r # p)
      <4>1. stack \in Bag
        BY <1>4, <1>5, <1>6, HeapShapes
      <4>2. CASE left
        BY <1>5, <1>12, <1>17, <4>1, <4>2 DEF AllPopped, Bag
      <4>3. CASE ~left
        BY <1>12, <1>17, <4>3
      <4> QED BY <4>2, <4>3
    <3> QED BY <1>6, <3>1 DEF Pruned
  <2>6. CASE r = p
    <3>1. ~left /\ q = queue
      BY <1>7, <2>1, <2>5, <2>6
    <3>2. k \in it + 1 .. Len(queue)
      BY <1>12, <1>17, <2>1, <3>1
    <3>3. it < k
      BY <1>4, <1>8, <3>2
    <3>4. n < q[k]
      BY <1>6, <1>8, <1>9, <2>3, <3>1, <3>3 DEF Increasing
    <3> QED BY <1>16, <2>1, <2>4, <2>6, <3>4
  <2>7. CASE r # p
    <3>1. Better(side, p, r)
      BY <1>5, <2>4, <2>5, <2>7, BetterOrders
    <3> QED BY <1>16, <2>1, <2>4, <3>1
  <2> QED BY <2>6, <2>7
<1>18. \A r : QueueAt(side, r)' = QueueAt(side, r)
  BY <1>1 DEF QueueAt
<1>19. ASSUME NEW r \in Prices, call'.heap_copy[r] > 0,
              NEW k \in call'.it .. Len(QueueAt(side, r)')
       PROVE  FilledBefore(r, QueueAt(side, r)[k])'
  <2>1. PICK q : q = QueueAt(side, r) /\ q = QueueAt(side, r)'
    BY <1>18
  <2>2. FilledBefore(r, q[k])'
    BY <1>17, <1>19, <2>1
  <2> QED BY <2>1, <2>2
<1>20. call.event.type = "ADD" => call'.side = Opposite(call'.event.side)
  BY <1>1, <1>4, <1>12 DEF SweepProceeds
<1> QED BY <1>1, <1>4, <1>12, <1>16, <1>19, <1>20 DEF SweepProceeds, Trading

\* A historical order's next maker: all it has traded with came before the
\* maker, and what is left in the book comes after.
LEMMA HistoricalSweepPriority ==
  ASSUME Inductive, HeapCovers, SweepProceeds, PriceTimePriority, HistoricalSweep
  PROVE  SweepProceeds' /\ PriceTimePriority'
<1>1. /\ call.pc = "sweep"
      /\ call.event.source = "HISTORICAL"
      /\ call.remaining > 0
      /\ Handling
  BY Zenon DEF HistoricalSweep, Handling
<1>2. /\ call \in Handler
      /\ call.side \in Sides
      /\ call.remaining \in Nat
      /\ call.fills \in Seq(Fill)
      /\ call.event.type = "ADD"
  BY <1>1, HandlerFacts, HandlerKinds
<1>3. PICK side \in Sides, p \in NextPrice, n \in DOMAIN node, take \in Nat :
        /\ side = call.side
        /\ Live(side, p)
        /\ n = Head(QueueAt(side, p))
        /\ take = Lesser(node[n].qty, call.remaining)
        /\ call'.event = call.event
        /\ call'.side = call.side
        /\ call'.remaining = call.remaining - take
        /\ call'.pc \in {"sweep", "queue"}
        /\ call'.fills = IF take > 0 THEN Append(call.fills, BookFill(n, p, take))
                                     ELSE call.fills
        /\ take = node[n].qty => NodeTaken(side, p, n)
        /\ take # node[n].qty => NodeRestocked(n, node[n].qty - take)
  BY SweepKind
<1>4. /\ p \in Prices
      /\ \A q \in Prices : heap[side][q] > 0 /\ Live(side, q) => ~Better(side, q, p)
  BY <1>1, <1>3 DEF NextPrice, BestPrice
<1>5. \A q \in Prices : Live(side, q) => ~Better(side, q, p)
  BY <1>3, <1>4 DEF HeapCovers
<1>6. /\ n \in ToSet(QueueAt(side, p))
      /\ \A m \in ToSet(QueueAt(side, p)) : m # n => n < m
  BY <1>3, FirstArrived DEF Inductive
<1>7. \A q \in Prices : \A m \in ToSet(QueueAt(side, q)) : FilledBefore(q, m)
  BY <1>1, <1>2, <1>3 DEF SweepProceeds, Trading
<1>8. n \in Nat /\ node[n].qty \in Nat
  BY <1>3, <1>6, QueueAtFacts DEF Inductive, Node
<1>9. BookFillReported(n, p)
  <2>1. CASE take > 0
    <3>1. BookFill(n, p, take) \in Fill
      BY <1>2, <1>3, <1>4, BookFillType DEF Inductive
    <3>2. /\ BookFill(n, p, take).source = "HISTORICAL"
          /\ BookFill(n, p, take).price = p
          /\ BookFill(n, p, take).seq = n
      BY DEF BookFill
    <3> QED BY <1>3, <2>1, <3>1, <3>2 DEF BookFillReported
  <2>2. CASE ~(take > 0)
    BY <1>3, <2>2 DEF BookFillReported
  <2> QED BY <2>1, <2>2
<1>10. /\ PriceTimePriority'
       /\ \A q \in Prices, m \in Nat :
            Better(side, p, q) \/ (p = q /\ n < m) => FilledBefore(q, m)'
  <2>1. FilledBefore(p, n)
    BY <1>4, <1>6, <1>7
  <2> QED BY <1>1, <1>2, <1>3, <1>4, <1>8, <1>9, <2>1, BookFillKeepsOrder
<1>11. ASSUME call'.remaining > 0, NEW q \in Prices, NEW m \in ToSet(QueueAt(side, q)')
       PROVE  FilledBefore(q, m)'
  <2>1. NodeTaken(side, p, n)
    <3>1. take # call.remaining
      BY <1>2, <1>3, <1>11
    <3> QED BY <1>3, <3>1 DEF Lesser
  <2>2. m \in ToSet(QueueAt(side, q)) /\ (q = p => m # n)
    <3>1. PICK u : u = QueueAt(side, p)
      OBVIOUS
    <3>2. u \in Seq(Nat) /\ IsInjective(u) /\ n \in ToSet(u)
      BY <1>6, <3>1, QueueAtFacts, IncreasingIsInjective DEF Inductive
    <3>3. ToSet(Unlinked(u, n)) = ToSet(u) \ {n}
      BY <3>2, UnlinkedProperties
    <3>4. QueueAt(side, p)' = Unlinked(u, n)
      BY <2>1, <3>1 DEF NodeTaken
    <3>5. CASE q = p
      BY <1>11, <3>1, <3>3, <3>4, <3>5
    <3>6. CASE q # p
      BY <1>11, <2>1, <3>6 DEF NodeTaken
    <3> QED BY <3>5, <3>6
  <2>3. m \in Nat /\ Live(side, q)
    <3>1. ToSet(<<>>) = {}
      BY DEF ToSet
    <3> QED BY <2>2, <3>1, QueueAtFacts DEF Inductive
  <2>4. CASE q = p
    BY <1>6, <1>10, <2>2, <2>3, <2>4
  <2>5. CASE q # p
    <3>1. Better(side, p, q)
      BY <1>4, <1>5, <2>3, <2>5, BetterOrders
    <3> QED BY <1>10, <2>3, <3>1
  <2> QED BY <2>4, <2>5
<1>12. call.event.type = "ADD" => call'.side = Opposite(call'.event.side)
  BY <1>1, <1>3 DEF SweepProceeds
<1>13. side = call'.side
  BY <1>3
<1> QED BY <1>1, <1>2, <1>3, <1>10, <1>11, <1>12, <1>13 DEF SweepProceeds, Trading

\* When a historical order leaves the book, it crosses nothing there.
LEMMA NothingLeftToTrade ==
  ASSUME Inductive, HeapCovers, call.pc = "sweep", call.event.source = "HISTORICAL",
         SweepProceeds, NextPrice = {}
  PROVE  \A p \in Prices : Live(call.side, p) => ~Crosses(call.event, p)
<1>1. /\ call.side \in Sides
      /\ call.event.side \in Sides
      /\ call.event.price \in Prices
      /\ call.event.type = "ADD"
      /\ call.side = Opposite(call.event.side)
  BY HandlerFacts, HandlerKinds DEF SweepProceeds, Handling
<1> SUFFICES ASSUME NEW p \in Prices, Live(call.side, p), Crosses(call.event, p)
             PROVE  FALSE
  OBVIOUS
<1>2. PICK q \in BestPrice(heap[call.side], call.side) : ~Better(call.side, p, q)
  BY <1>1, BestPriceExists
<1>3. ~Crosses(call.event, q) /\ q \in Prices
  BY <1>2 DEF NextPrice, BestPrice
<1>4. /\ ~Better(call.side, call.event.price, p)
      /\ Better(call.side, call.event.price, q)
  BY <1>1, <1>3 DEF Crosses
<1> QED BY <1>1, <1>2, <1>3, <1>4, BetterOrders

LEMMA MatchFillPriority ==
  ASSUME Inductive, SweepProceeds, PriceTimePriority, MatchFill
  PROVE  SweepProceeds' /\ PriceTimePriority'
<1>1. /\ call.pc = "settle"
      /\ call.event.type = "MATCH"
      /\ Handling
  BY DEF MatchFill, Handling
<1>2. /\ call \in Handler
      /\ call.side \in Sides
      /\ call.fills \in Seq(Fill)
      /\ call.event.id \in DOMAIN order_info
      /\ call.event.qty \in Nat
  BY <1>1, HandlerFacts, HandlerKinds
<1>3. PICK n \in Nat, p \in Prices, qty \in Nat :
        /\ n = NodeOf(call.event.id)
        /\ p = Price(call.event.id)
        /\ qty = Taken(call.event)
        /\ n \in DOMAIN node
  BY <1>2, OrderFacts, TakenFacts DEF Inductive
<1>4. /\ call'.pc = "reduce"
      /\ call'.event = call.event
      /\ call'.side = call.side
      /\ call'.fills = Append(call.fills, BookFill(n, p, qty))
  BY <1>2, <1>3 DEF MatchFill, Handler
<1>5. BookFillReported(n, p)
  <2>1. /\ BookFill(n, p, qty) \in Fill
        /\ BookFill(n, p, qty).source = "HISTORICAL"
        /\ BookFill(n, p, qty).price = p
        /\ BookFill(n, p, qty).seq = n
    BY <1>2, <1>3, BookFillType DEF BookFill
  <2> QED BY <1>4, <2>1 DEF BookFillReported
<1>6. FilledBefore(p, n)
  BY <1>1 DEF SweepProceeds, FilledBefore
<1>7. PriceTimePriority'
  BY <1>1, <1>2, <1>5, <1>6, BookFillKeepsOrder
<1> QED BY <1>1, <1>4, <1>7 DEF SweepProceeds, Trading

\* What the aggressor of the book sees of a trade with a paper order.
LEMMA PaperTrade ==
  ASSUME Inductive, TradeAgainstPaper
  PROVE  /\ call.pc = "paper" /\ call'.pc = "paper"
         /\ call.remaining > 0
         /\ call'.event = call.event
         /\ call'.side = call.side
         /\ call'.deltas = call.deltas
         /\ UNCHANGED <<book, node>>
         /\ \E f \in Fill : /\ f.source = "STRATEGY"
                            /\ f.qty > 0
                            /\ f.qty <= call.remaining
                            /\ call'.remaining = call.remaining - f.qty
                            /\ call'.fills = Append(call.fills, f)
<1>1. /\ call.pc = "paper"
      /\ call.remaining > 0
      /\ UNCHANGED <<book, node>>
  BY Zenon DEF TradeAgainstPaper, bookVars
<1>2. call \in Handler
  BY <1>1, HandlerFacts
<1>3. PICK id \in DOMAIN paper_orders, fill \in Nat, p \in Prices :
        /\ fill > 0
        /\ fill <= call.remaining
        /\ PaperFill(id, p, fill) \in Fill
        /\ call' = [call EXCEPT
             !.price = p,
             !.remaining = @ - fill,
             !.fills = Append(@, PaperFill(id, p, fill))]
  BY PaperTradeTakes
<1>4. PICK f \in Fill : f = PaperFill(id, p, fill)
  BY <1>3
<1>5. /\ call'.pc = call.pc
      /\ call'.event = call.event
      /\ call'.side = call.side
      /\ call'.deltas = call.deltas
      /\ call'.remaining = call.remaining - fill
      /\ call'.fills = Append(call.fills, f)
  BY <1>2, <1>3, <1>4 DEF Handler
<1>6. f.source = "STRATEGY" /\ f.qty = fill
  BY <1>4 DEF PaperFill
<1> QED BY <1>1, <1>3, <1>5, <1>6

\* The steps of a handler in which no order of the book trades.
LEMMA OtherStepsPriority ==
  ASSUME Inductive, HeapCovers, SweepProceeds, PriceTimePriority,
         \/ EndSweep \/ QueueFill \/ EndQueue \/ Settle \/ EndLevel
         \/ TradeAgainstPaper \/ EndPaper \/ AcquirePaperNode \/ MirrorNode
  PROVE  SweepProceeds' /\ PriceTimePriority'
<1>1. /\ call.pc \notin {"idle", "l2", "l3"}
      /\ Handling
  BY Zenon DEF EndSweep, QueueFill, EndQueue, Settle, EndLevel, TradeAgainstPaper,
         EndPaper, AcquirePaperNode, MirrorNode, Handling
<1>2. /\ call \in Handler
      /\ call.remaining \in Nat
      /\ call.side \in Sides
      /\ call.price \in Prices
      /\ call.fills \in Seq(Fill)
      /\ HandlerState
      /\ call.event.source \in Sources
  BY <1>1, HandlerFacts
<1>3. CASE EndSweep
  <2>1. /\ call.pc = "sweep"
        /\ call.remaining = 0 \/ NextPrice = {}
        /\ call' = [call EXCEPT
             !.pc = IF call.event.type = "ADD" /\ call.event.source = "STRATEGY"
                      THEN "rest" ELSE "paper"]
        /\ UNCHANGED book
    BY <1>3 DEF EndSweep
  <2>2. /\ call'.pc \in {"rest", "paper"}
        /\ call'.event = call.event
        /\ call'.side = call.side
        /\ call'.fills = call.fills
        /\ call'.remaining = call.remaining
    BY <1>2, <2>1 DEF Handler
  <2>3. Trading({"paper", "rest"})' =>
          \A p \in Prices : Live(call.side, p) => ~Crosses(call.event, p)
    <3> SUFFICES ASSUME Trading({"paper", "rest"})'
                 PROVE  \A p \in Prices : Live(call.side, p) => ~Crosses(call.event, p)
      OBVIOUS
    <3>1. call.event.source = "HISTORICAL" /\ call.remaining > 0
      BY <2>2 DEF Trading
    <3>2. NextPrice = {}
      BY <1>2, <2>1, <3>1
    <3> QED BY <2>1, <3>1, <3>2, NothingLeftToTrade
  <2>4. CallGoesOn
    BY <1>2, <2>1, <2>2, <2>3 DEF CallGoesOn, NoBookFill, QueuesStay, QueueAt
  <2> QED BY <1>1, <2>4, CallGoesOnKeepsPriority
<1>4. CASE QueueFill
  <2>1. /\ call.pc = "queue"
        /\ HasPaperLevel(call.side, call.price)
        /\ UNCHANGED book
    BY <1>4 DEF QueueFill, Reached, bookVars
  <2>2. PICK id, fill, lots, consumed :
          /\ id = Head(QueueLevel.orders)
          /\ fill = Lesser(FirstOrder.remaining,
                           call.lots - (AheadMarket + AheadPaper))
          /\ call' = [call EXCEPT
               !.lots = lots,
               !.consumed = consumed,
               !.fills = Append(@, PaperFill(id, call.price, fill))]
    BY <1>4 DEF QueueFill
  <2>3. /\ call'.pc = "queue"
        /\ call'.event = call.event
        /\ call'.side = call.side
        /\ call'.fills = Append(call.fills, PaperFill(id, call.price, fill))
        /\ call'.remaining = call.remaining
    BY <1>2, <2>1, <2>2 DEF Handler
  <2>4. /\ PaperFill(id, call.price, fill) \in Fill
        /\ PaperFill(id, call.price, fill).source = "STRATEGY"
    <3>1. call' \in Handler
      <4>1. Inductive'
        BY <1>4, QueueFillStep
      <4> QED BY <2>3, <4>1 DEF Inductive, CallInvariant, Idle, Load
    <3>2. call'.fills \in Seq(Fill)
      BY <3>1 DEF Handler
    <3>3. PICK F : F = PaperFill(id, call.price, fill)
      OBVIOUS
    <3>4. Append(call.fills, F) \in Seq(Fill)
      BY <2>3, <3>2, <3>3
    <3> QED BY <1>2, <3>3, <3>4, LastAppended DEF PaperFill
  <2>5. CallGoesOn
    BY <1>2, <2>1, <2>3, <2>4 DEF CallGoesOn, NoBookFill, QueuesStay, QueueAt, Trading
  <2> QED BY <1>1, <2>5, CallGoesOnKeepsPriority
<1>5. CASE TradeAgainstPaper
  <2>1. PICK f \in Fill : /\ f.source = "STRATEGY"
                          /\ f.qty > 0
                          /\ f.qty <= call.remaining
                          /\ call'.remaining = call.remaining - f.qty
                          /\ call'.fills = Append(call.fills, f)
    BY <1>5, PaperTrade
  <2>2. f.qty \in Nat
    BY DEF Fill
  <2>3. call'.remaining \in Nat /\ call'.remaining <= call.remaining
    BY <1>2, <2>1, <2>2
  <2>4. /\ call.pc = "paper"
        /\ call'.pc = "paper"
        /\ call'.event = call.event
        /\ call'.side = call.side
        /\ UNCHANGED book
    BY <1>5, PaperTrade
  <2>5. CallGoesOn
    BY <2>1, <2>3, <2>4 DEF CallGoesOn, NoBookFill, QueuesStay, QueueAt
  <2> QED BY <1>1, <2>5, CallGoesOnKeepsPriority
<1>6. CASE EndQueue \/ Settle \/ MirrorNode \/ AcquirePaperNode
  <2>1. /\ UNCHANGED book
        /\ call.pc \in {"queue", "settle", "mirror", "rest"}
        /\ call' \in {[call EXCEPT !.pc = "settle"],
                      [call EXCEPT !.deltas = Tail(@)],
                      [call EXCEPT !.it = @ + 1],
                      [call EXCEPT !.pc = "mirror", !.it = 1]}
    BY <1>6 DEF EndQueue, Settle, MirrorNode, AcquirePaperNode, bookVars
  <2>2. /\ call'.event = call.event
        /\ call'.side = call.side
        /\ call'.fills = call.fills
        /\ call'.remaining = call.remaining
    BY <1>2, <2>1 DEF Handler
  <2>3. /\ EndQueue => call.pc = "queue" /\ call'.pc = "settle"
        /\ Settle => call.pc = "settle" /\ call'.pc = "settle"
        /\ MirrorNode => call'.pc = "mirror"
        /\ AcquirePaperNode => call'.pc = "mirror"
    BY <1>2 DEF EndQueue, Settle, MirrorNode, AcquirePaperNode, Handler
  <2>4. CallGoesOn
    BY <1>2, <1>6, <2>1, <2>2, <2>3
       DEF CallGoesOn, NoBookFill, QueuesStay, QueueAt, Trading
  <2> QED BY <1>1, <2>4, CallGoesOnKeepsPriority
<1>7. CASE EndLevel
  <2>1. /\ call.pc = "settle"
        /\ call.event.type = "ADD"
        /\ call' = [call EXCEPT !.pc = "sweep", !.lots = 0, !.consumed = 0]
    BY <1>7 DEF EndLevel
  <2>2. /\ call'.pc = "sweep"
        /\ call'.event = call.event
        /\ call'.side = call.side
        /\ call'.fills = call.fills
        /\ call'.remaining = call.remaining
    BY <1>2, <2>1 DEF Handler
  <2>3. QueuesStay
    BY <1>7, EndLevelKind DEF NodesStay
  <2>4. call.event.source = "HISTORICAL"
    BY <1>2, <2>1 DEF HandlerState
  <2>5. CallGoesOn
    BY <1>2, <2>1, <2>2, <2>3, <2>4 DEF CallGoesOn, NoBookFill, Trading
  <2> QED BY <1>1, <2>5, CallGoesOnKeepsPriority
<1>8. CASE EndPaper
  <2>1. call.pc = "paper" /\ UNCHANGED book
    BY <1>8 DEF EndPaper, bookVars
  <2>2. CASE call' = Idle
    <3>1. ~Handling'
      BY <2>2 DEF Handling, Idle
    <3> QED BY <3>1, NoTradePriority
  <2>3. CASE call' = [call EXCEPT !.pc = "rest"]
    <3>1. /\ call'.pc = "rest"
          /\ call'.event = call.event
          /\ call'.side = call.side
          /\ call'.fills = call.fills
          /\ call'.remaining = call.remaining
      BY <1>2, <2>3 DEF Handler
    <3>2. CallGoesOn
      BY <1>2, <2>1, <3>1 DEF CallGoesOn, NoBookFill, QueuesStay, QueueAt, Trading
    <3> QED BY <1>1, <3>2, CallGoesOnKeepsPriority
  <2> QED BY <1>8, <2>2, <2>3 DEF EndPaper
<1> QED BY <1>3, <1>4, <1>5, <1>6, <1>7, <1>8

LEMMA PriorityStep ==
  ASSUME Inductive, HeapCovers, SweepProceeds, PriceTimePriority, [Next]_vars
  PROVE  SweepProceeds' /\ PriceTimePriority'
<1>1. Idle.pc = "idle"
  BY DEF Idle
<1>2. ASSUME call' = Idle PROVE SweepProceeds' /\ PriceTimePriority'
  BY <1>1, <1>2, NoTradePriority DEF Handling
<1>3. ASSUME NEW e \in Events, update(e)
      PROVE  SweepProceeds' /\ PriceTimePriority'
  <2>1. CASE OnAdd(e) \/ OnAggressiveTrade(e) \/ OnMatch(e)
    <3>1. /\ call'.pc \in {"sweep", "queue", "settle"}
          /\ call'.fills = <<>>
          /\ call'.event.type = "ADD" => call'.side = Opposite(call'.event.side)
      <4>1. CASE OnAdd(e)
        BY <4>1 DEF OnAdd, NewCall
      <4>2. CASE OnAggressiveTrade(e)
        BY <4>2 DEF OnAggressiveTrade, NewCall
      <4>3. CASE OnMatch(e)
        BY <4>3 DEF OnMatch, NewCall, Accepts
      <4> QED BY <2>1, <4>1, <4>2, <4>3
    <3> QED BY <3>1, NoTradePriority
  <2>2. CASE Reject(e)
    BY <1>2, <2>2 DEF Reject, vars
  <2>3. CASE OnDelete(e) \/ OnSubtract(e) \/ OnSet(e)
    BY <1>2, <2>3 DEF OnDelete, OnSubtract, OnSet, Accepts, SetHistorical
  <2> QED BY <1>3, <2>1, <2>2, <2>3 DEF update
<1>4. ASSUME NEW rows, InitFromL2Snapshot(rows) \/ InitFromL3Snapshot(rows)
      PROVE  SweepProceeds' /\ PriceTimePriority'
  <2>1. ~Handling'
    BY <1>4 DEF InitFromL2Snapshot, InitFromL3Snapshot, Handling
  <2> QED BY <2>1, NoTradePriority
<1>5. ASSUME NEW side \in Sides, GetBestPriceTicks(side)
      PROVE  SweepProceeds' /\ PriceTimePriority'
  BY <1>2, <1>5 DEF GetBestPriceTicks
<1>6. ASSUME Continue PROVE SweepProceeds' /\ PriceTimePriority'
  <2>1. CASE EndAdd \/ RestHistorical \/ RestStrategy \/ EndMatch \/ EndSnapshot
    BY <1>2, <2>1 DEF EndAdd, RestHistorical, RestStrategy, EndMatch, EndSnapshot
  <2>2. CASE L2Row \/ L3Row
    <3>1. call.pc \in {"l2", "l3"} /\ call \in Load
      BY <2>2, CallKinds DEF L2Row, L3Row
    <3>2. call' = Idle \/ NextRow
      BY <2>2 DEF L2Row, L3Row
    <3>3. NextRow => ~Handling'
      BY <3>1 DEF NextRow, Load, Handling
    <3> QED BY <1>2, <3>2, <3>3, NoTradePriority
  <2> QED BY <1>6, <2>1, <2>2, StrategySweepPriority, HistoricalSweepPriority,
             MatchFillPriority, OtherStepsPriority DEF Continue
<1>7. CASE UNCHANGED vars
  <2>1. CASE Handling
    <3>1. call \in Handler /\ call.remaining \in Nat
      BY <2>1, HandlerFacts DEF Handling
    <3>2. SweepProceeds' /\ PriceTimePriority'
      BY <1>7 DEF vars, bookVars, SweepProceeds, PriceTimePriority, Handling,
                  Trading, BookFills, FilledBefore, Live, QueueAt, Crosses
    <3> QED BY <3>2
  <2>2. CASE ~Handling
    BY <1>7, <2>2, NoTradePriority DEF Handling, vars
  <2> QED BY <2>1, <2>2
<1> QED BY <1>3, <1>4, <1>5, <1>6, <1>7 DEF Next

(***************************************************************************)
(* Price-time priority, and no liquidity taken twice: the makers of the    *)
(* book that one call reports come from the best price on and, at a price, *)
(* in the order of arrival, none of them twice.                            *)
(***************************************************************************)
THEOREM MakersInOrder == Spec => []PriceTimePriority
<1>1. Init => SweepProceeds /\ PriceTimePriority
  BY DEF Init, SweepProceeds, PriceTimePriority, Trading, Handling, Idle
<1>2. Init => HeapCovers
  BY DEF Init, HeapCovers, Live, Empty
<1>3. Inductive /\ HeapCovers /\ SweepProceeds /\ PriceTimePriority /\ [Next]_vars =>
        (HeapCovers /\ SweepProceeds /\ PriceTimePriority)'
  BY HeapStep, PriorityStep
<1> QED BY <1>1, <1>2, <1>3, Invariance, PTL DEF Spec
-----------------------------------------------------------------------------
(***************************************************************************)
(* The engine implements OrderBook.                                        *)
(***************************************************************************)
OrderAt(side, p, n) ==
  [side |-> side, price |-> p, arrival |-> n, qty |-> node[n].qty, id |-> node[n].id]

OrdersAreQueued ==
  \A o : o \in RestingOrders <=>
    \E side \in Sides, p \in Prices :
      \E n \in ToSet(QueueAt(side, p)) : o = OrderAt(side, p, n)

LEMMA RestingSet == BookInvariant => OrdersAreQueued
<1> SUFFICES ASSUME BookInvariant, NEW o
             PROVE  o \in RestingOrders <=>
                      \E side \in Sides, p \in Prices :
                        \E n \in ToSet(QueueAt(side, p)) : o = OrderAt(side, p, n)
  BY DEF OrdersAreQueued
<1>1. ASSUME NEW side \in Sides, NEW p \in Prices, NEW n \in ToSet(QueueAt(side, p)),
             o = OrderAt(side, p, n)
      PROVE  o \in RestingOrders
  <2>1. p \in DOMAIN book[side] /\ n \in ToSet(book[side][p])
    <3>1. ToSet(<<>>) = {}
      BY DEF ToSet
    <3> QED BY <3>1 DEF QueueAt
  <2>2. n \in DOMAIN node
    BY QueueAtFacts
  <2>3. o.side = side /\ o.price = p /\ o.arrival = n
    BY <1>1 DEF OrderAt
  <2>4. o \in Resting
    BY <1>1, <2>2 DEF OrderAt, Resting
  <2> QED BY <2>1, <2>3, <2>4 DEF RestingOrders
<1>2. ASSUME o \in RestingOrders
      PROVE  \E side \in Sides, p \in Prices :
               \E n \in ToSet(QueueAt(side, p)) : o = OrderAt(side, p, n)
  <2>1. PICK side \in Sides, p \in Prices, n \in DOMAIN node : o = OrderAt(side, p, n)
    BY <1>2 DEF RestingOrders, Resting, OrderAt
  <2>2. o.side = side /\ o.price = p /\ o.arrival = n
    BY <2>1 DEF OrderAt
  <2>3. p \in DOMAIN book[side] /\ n \in ToSet(book[side][p])
    BY <1>2, <2>2 DEF RestingOrders
  <2> QED BY <2>1, <2>3 DEF QueueAt
<1> QED BY <1>1, <1>2

LEMMA RestingSetNext == BookInvariant' => OrdersAreQueued'
BY RestingSet, PTL

LEMMA OrdersDiffer ==
  ASSUME NEW s, NEW p, NEW n, NEW t, NEW q, NEW m, n # m
  PROVE  OrderAt(s, p, n) # OrderAt(t, q, m)
BY DEF OrderAt

LEMMA OrdersStay ==
  ASSUME BookInvariant, BookInvariant', NodesStay
  PROVE  RestingOrders' = RestingOrders
<1>1. OrdersAreQueued /\ OrdersAreQueued'
  BY RestingSet, RestingSetNext
<1>2. /\ \A side \in Sides, p \in Prices : QueueAt(side, p)' = QueueAt(side, p)
      /\ \A side, p, n : OrderAt(side, p, n)' = OrderAt(side, p, n)
  BY DEF NodesStay, QueuesStay, OrderAt
<1>3. \A o : o \in RestingOrders' <=> o \in RestingOrders
  BY <1>1, <1>2 DEF OrdersAreQueued
<1> QED BY <1>3

LEMMA OrderTaken ==
  ASSUME BookInvariant, BookInvariant',
         NEW side \in Sides, NEW p \in Prices, NEW n, NodeTaken(side, p, n)
  PROVE  /\ OrderAt(side, p, n) \in RestingOrders
         /\ RestingOrders' = RestingOrders \ {OrderAt(side, p, n)}
<1>1. OrdersAreQueued /\ OrdersAreQueued'
  BY RestingSet, RestingSetNext
<1>2. n \in ToSet(QueueAt(side, p))
  BY DEF NodeTaken
<1>3. OrderAt(side, p, n) \in RestingOrders
  BY <1>1, <1>2 DEF OrdersAreQueued
<1>4. ToSet(QueueAt(side, p)') = ToSet(QueueAt(side, p)) \ {n}
  <2>1. PICK q : q = QueueAt(side, p)
    OBVIOUS
  <2>2. q \in Seq(Nat) /\ IsInjective(q) /\ n \in ToSet(q)
    BY <1>2, <2>1, QueueAtFacts, IncreasingIsInjective
  <2>3. ToSet(Unlinked(q, n)) = ToSet(q) \ {n}
    BY <2>2, UnlinkedProperties
  <2> QED BY <2>1, <2>3 DEF NodeTaken
<1>5. ASSUME NEW s \in Sides, NEW q \in Prices
      PROVE  ToSet(QueueAt(s, q)') = ToSet(QueueAt(s, q)) \ {n}
  <2>1. CASE s = side /\ q = p
    BY <1>4, <2>1
  <2>2. CASE s # side \/ q # p
    <3>1. QueueAt(s, q)' = QueueAt(s, q)
      BY <2>2 DEF NodeTaken
    <3>2. n \notin ToSet(QueueAt(s, q))
      BY <1>2, <2>2, OnePlace
    <3> QED BY <3>1, <3>2
  <2> QED BY <2>1, <2>2
<1>6. ASSUME NEW s \in Sides, NEW q \in Prices, NEW m \in ToSet(QueueAt(s, q)), m # n
      PROVE  /\ OrderAt(s, q, m)' = OrderAt(s, q, m)
             /\ OrderAt(s, q, m) # OrderAt(side, p, n)
  <2>1. node'[m] = node[m]
    <3>1. m \in DOMAIN node /\ node' = Erased(node, n)
      BY QueueAtFacts DEF NodeTaken
    <3> QED BY <1>6, <3>1 DEF Erased, Restrict
  <2> QED BY <1>6, <2>1, OrdersDiffer DEF OrderAt
<1>7. ASSUME NEW o, o \in RestingOrders'
      PROVE  o \in RestingOrders \ {OrderAt(side, p, n)}
  <2>1. PICK s \in Sides, q \in Prices :
          \E m \in ToSet(QueueAt(s, q)') : o = OrderAt(s, q, m)'
    BY <1>1, <1>7 DEF OrdersAreQueued
  <2>2. PICK m \in ToSet(QueueAt(s, q)') : o = OrderAt(s, q, m)'
    BY <2>1
  <2>3. m \in ToSet(QueueAt(s, q)) /\ m # n
    BY <1>5
  <2> QED BY <1>1, <1>6, <2>2, <2>3 DEF OrdersAreQueued
<1>8. ASSUME NEW o, o \in RestingOrders \ {OrderAt(side, p, n)}
      PROVE  o \in RestingOrders'
  <2>1. PICK s \in Sides, q \in Prices :
          \E m \in ToSet(QueueAt(s, q)) : o = OrderAt(s, q, m)
    BY <1>1, <1>8 DEF OrdersAreQueued
  <2>2. PICK m \in ToSet(QueueAt(s, q)) : o = OrderAt(s, q, m)
    BY <2>1
  <2>3. m # n
    <3>1. m = n => s = side /\ q = p
      BY <1>2, OnePlace
    <3> QED BY <1>8, <2>2, <3>1
  <2>4. m \in ToSet(QueueAt(s, q)')
    BY <1>5, <2>3
  <2> QED BY <1>1, <1>6, <2>2, <2>3, <2>4 DEF OrdersAreQueued
<1> QED BY <1>3, <1>7, <1>8

LEMMA OrderRestocked ==
  ASSUME BookInvariant, BookInvariant',
         NEW side \in Sides, NEW p \in Prices, NEW n \in ToSet(QueueAt(side, p)),
         NEW qty, NodeRestocked(n, qty)
  PROVE  /\ OrderAt(side, p, n) \in RestingOrders
         /\ RestingOrders' = (RestingOrders \ {OrderAt(side, p, n)})
                               \cup {[OrderAt(side, p, n) EXCEPT !.qty = qty]}
<1>1. OrdersAreQueued /\ OrdersAreQueued'
  BY RestingSet, RestingSetNext
<1>2. OrderAt(side, p, n) \in RestingOrders
  BY <1>1 DEF OrdersAreQueued
<1>3. /\ n \in DOMAIN node
      /\ node[n] \in Node
      /\ node' = [node EXCEPT ![n].qty = qty]
      /\ \A s \in Sides, q \in Prices : QueueAt(s, q)' = QueueAt(s, q)
  BY QueueAtFacts DEF NodeRestocked, QueuesStay
<1>4. OrderAt(side, p, n)' = [OrderAt(side, p, n) EXCEPT !.qty = qty]
  <2>1. node'[n] = [node[n] EXCEPT !.qty = qty]
    BY <1>3
  <2>2. node'[n].qty = qty /\ node'[n].id = node[n].id
    BY <1>3, <2>1 DEF Node
  <2> QED BY <2>2 DEF OrderAt
<1>5. ASSUME NEW s \in Sides, NEW q \in Prices, NEW m \in ToSet(QueueAt(s, q)), m # n
      PROVE  /\ OrderAt(s, q, m)' = OrderAt(s, q, m)
             /\ OrderAt(s, q, m) # OrderAt(side, p, n)
  <2>1. node'[m] = node[m]
    BY <1>3, <1>5
  <2> QED BY <1>5, <2>1, OrdersDiffer DEF OrderAt
<1>6. ASSUME NEW o, o \in RestingOrders'
      PROVE  o \in (RestingOrders \ {OrderAt(side, p, n)})
                     \cup {[OrderAt(side, p, n) EXCEPT !.qty = qty]}
  <2>1. PICK s \in Sides, q \in Prices :
          \E m \in ToSet(QueueAt(s, q)') : o = OrderAt(s, q, m)'
    BY <1>1, <1>6 DEF OrdersAreQueued
  <2>2. PICK m \in ToSet(QueueAt(s, q)') : o = OrderAt(s, q, m)'
    BY <2>1
  <2>3. m \in ToSet(QueueAt(s, q))
    BY <1>3
  <2>4. CASE m = n
    <3>1. s = side /\ q = p
      BY <2>3, <2>4, OnePlace
    <3> QED BY <1>4, <2>2, <2>4, <3>1
  <2>5. CASE m # n
    <3>1. OrderAt(s, q, m) \in RestingOrders
      BY <1>1, <2>3 DEF OrdersAreQueued
    <3> QED BY <1>5, <2>2, <2>3, <2>5, <3>1
  <2> QED BY <2>4, <2>5
<1>7. ASSUME NEW o, o \in RestingOrders \ {OrderAt(side, p, n)}
      PROVE  o \in RestingOrders'
  <2>1. PICK s \in Sides, q \in Prices :
          \E m \in ToSet(QueueAt(s, q)) : o = OrderAt(s, q, m)
    BY <1>1, <1>7 DEF OrdersAreQueued
  <2>2. PICK m \in ToSet(QueueAt(s, q)) : o = OrderAt(s, q, m)
    BY <2>1
  <2>3. m # n
    <3>1. m = n => s = side /\ q = p
      BY OnePlace
    <3> QED BY <1>7, <2>2, <3>1
  <2>4. m \in ToSet(QueueAt(s, q)')
    BY <1>3
  <2> QED BY <1>1, <1>5, <2>2, <2>3, <2>4 DEF OrdersAreQueued
<1>8. OrderAt(side, p, n)' \in RestingOrders'
  <2>1. n \in ToSet(QueueAt(side, p)')
    BY <1>3
  <2> QED BY <1>1, <2>1 DEF OrdersAreQueued
<1> QED BY <1>2, <1>4, <1>6, <1>7, <1>8

LEMMA OrderEnters ==
  ASSUME BookInvariant, BookInvariant', NEW side \in Sides, NEW p \in Prices,
         NEW id, NEW qty, NodeJoined(side, p, id, qty)
  PROVE  \E o : /\ o.side = side /\ o.price = p /\ o.qty = qty
                /\ RestingOrders' = RestingOrders \cup {o}
                /\ o \notin RestingOrders
                /\ \A x \in RestingOrders : x.arrival < o.arrival
<1>1. OrdersAreQueued /\ OrdersAreQueued'
  BY RestingSet, RestingSetNext
<1>2. PICK n \in Nat : n = order_arrival_seq
  BY DEF BookInvariant, BookTypes
<1>3. /\ node' = Put(node, n, [id |-> id, qty |-> qty])
      /\ QueueAt(side, p)' = Append(QueueAt(side, p), n)
      /\ \A s \in Sides, q \in Prices :
           s # side \/ q # p => QueueAt(s, q)' = QueueAt(s, q)
  BY <1>2 DEF NodeJoined
<1>4. ToSet(QueueAt(side, p)') = ToSet(QueueAt(side, p)) \cup {n}
  <2>1. PICK q : q = QueueAt(side, p)
    OBVIOUS
  <2>2. q \in Seq(Nat)
    BY <2>1, QueueAtFacts
  <2>3. ToSet(Append(q, n)) = ToSet(q) \cup {n}
    BY <2>2, PushedBackProperties
  <2> QED BY <1>3, <2>1, <2>3
<1>5. PICK o : o = OrderAt(side, p, n)'
  OBVIOUS
<1>6. o.side = side /\ o.price = p /\ o.arrival = n /\ o.qty = qty
  <2>1. node'[n] = [id |-> id, qty |-> qty]
    BY <1>3 DEF Put
  <2> QED BY <1>5, <2>1 DEF OrderAt
<1>7. ASSUME NEW s \in Sides, NEW q \in Prices, NEW m \in ToSet(QueueAt(s, q))
      PROVE  /\ m \in Nat
             /\ m < n
             /\ OrderAt(s, q, m)' = OrderAt(s, q, m)
  <2>1. m \in Nat /\ m < n /\ m \in DOMAIN node
    BY <1>2, QueueAtFacts
  <2>2. node'[m] = node[m]
    BY <1>3, <2>1 DEF Put
  <2> QED BY <2>1, <2>2 DEF OrderAt
<1>8. ASSUME NEW x \in RestingOrders PROVE x.arrival < n /\ x \in RestingOrders'
  <2>1. PICK s \in Sides, q \in Prices :
          \E m \in ToSet(QueueAt(s, q)) : x = OrderAt(s, q, m)
    BY <1>1 DEF OrdersAreQueued
  <2>2. PICK m \in ToSet(QueueAt(s, q)) : x = OrderAt(s, q, m)
    BY <2>1
  <2>3. x.arrival = m
    BY <2>2 DEF OrderAt
  <2>4. m \in ToSet(QueueAt(s, q)')
    BY <1>3, <1>4
  <2> QED BY <1>1, <1>7, <2>2, <2>3, <2>4 DEF OrdersAreQueued
<1>9. ASSUME NEW x \in RestingOrders' PROVE x \in RestingOrders \cup {o}
  <2>1. PICK s \in Sides, q \in Prices :
          \E m \in ToSet(QueueAt(s, q)') : x = OrderAt(s, q, m)'
    BY <1>1 DEF OrdersAreQueued
  <2>2. PICK m \in ToSet(QueueAt(s, q)') : x = OrderAt(s, q, m)'
    BY <2>1
  <2>3. m \in ToSet(QueueAt(s, q)) \/ (s = side /\ q = p /\ m = n)
    <3>1. CASE s = side /\ q = p
      BY <1>4, <3>1
    <3>2. CASE s # side \/ q # p
      <4>1. QueueAt(s, q)' = QueueAt(s, q)
        BY <1>3, <3>2
      <4> QED BY <4>1
    <3> QED BY <3>1, <3>2
  <2>4. CASE m \in ToSet(QueueAt(s, q))
    BY <1>1, <1>7, <2>2, <2>4 DEF OrdersAreQueued
  <2>5. CASE s = side /\ q = p /\ m = n
    BY <1>5, <2>2, <2>5
  <2> QED BY <2>3, <2>4, <2>5
<1>10. o \in RestingOrders'
  <2>1. n \in ToSet(QueueAt(side, p)')
    BY <1>4
  <2> QED BY <1>1, <1>5, <2>1 DEF OrdersAreQueued
<1>11. o \notin RestingOrders
  <2>1. ~(n < n)
    BY <1>2
  <2> QED BY <1>6, <1>8, <2>1
<1>12. RestingOrders' = RestingOrders \cup {o}
  BY <1>8, <1>9, <1>10
<1> QED BY <1>6, <1>8, <1>11, <1>12

LEMMA OrdersCleared ==
  ASSUME BookCleared
  PROVE  RestingOrders' = {}
BY DEF BookCleared, RestingOrders, Resting, Empty
-----------------------------------------------------------------------------
AbstractStep == Abstract!Next \/ UNCHANGED Abstract!vars

\* The order that sweeps the book.
Aggressor ==
  [side |-> call.event.side, limit |-> call.event.price, qty |-> call.remaining]

Sweeper == Handling /\ call.event.type = "ADD" /\ call.event.source = "HISTORICAL"

LEMMA IncomingIs ==
  /\ Sweeper => IncomingOrders = {Aggressor}
  /\ ~Sweeper => IncomingOrders = {}
BY DEF IncomingOrders, Aggressor, Sweeper

LEMMA IncomingNext ==
  /\ Sweeper' => IncomingOrders' = {Aggressor'}
  /\ ~Sweeper' => IncomingOrders' = {}
BY DEF IncomingOrders, Aggressor, Sweeper

\* A step that moves no order, and no lot of the one that sweeps.
LEMMA Stutters ==
  ASSUME BookInvariant, BookInvariant', NodesStay,
         Running({"l2", "l3"})' = Running({"l2", "l3"}),
         \/ ~Sweeper /\ ~Sweeper'
         \/ /\ Sweeper /\ Sweeper'
            /\ call'.event = call.event
            /\ call'.remaining = call.remaining
  PROVE  AbstractStep
<1>1. RestingOrders' = RestingOrders
  BY OrdersStay
<1>2. IncomingOrders' = IncomingOrders
  BY IncomingIs, IncomingNext DEF Aggressor
<1> QED BY <1>1, <1>2 DEF AbstractStep, Abstract!vars

\* Nothing in the book crosses: there is no order to trade with.
LEMMA NoBest ==
  ASSUME BookInvariant, Sweeper, NEW i, i = Aggressor,
         call.event.side \in Sides, call.event.price \in Prices,
         call.side = Opposite(call.event.side),
         \A p \in Prices : Live(call.side, p) => ~Crosses(call.event, p)
  PROVE  Abstract!Best(i) = {}
<1>1. ASSUME NEW o \in RestingOrders, Abstract!Crossing(i, o) PROVE FALSE
  <2>1. OrdersAreQueued
    BY RestingSet
  <2>2. PICK s \in Sides, p \in Prices :
          \E n \in ToSet(QueueAt(s, p)) : o = OrderAt(s, p, n)
    BY <2>1 DEF OrdersAreQueued
  <2>3. PICK n \in ToSet(QueueAt(s, p)) : o = OrderAt(s, p, n)
    BY <2>2
  <2>4. o.side = s /\ o.price = p
    BY <2>3 DEF OrderAt
  <2>5. i.side = call.event.side /\ i.limit = call.event.price
    BY DEF Aggressor
  <2>6. s = call.side
    BY <1>1, <2>4, <2>5 DEF Abstract!Crossing, Opposite, Sides
  <2>7. Live(s, p)
    <3>1. ToSet(<<>>) = {}
      BY DEF ToSet
    <3> QED BY <3>1, LevelsLive
  <2>8. /\ call.event.type = "ADD"
        /\ Better(call.side, call.event.price, p)
    BY <2>6, <2>7 DEF Crosses, Sweeper
  <2>9. /\ p \in Int /\ call.event.price \in Int
        /\ call.side = IF call.event.side = "BUY" THEN "SELL" ELSE "BUY"
    BY PricesAssumption DEF Opposite
  <2>10. IF i.side = "BUY" THEN p <= i.limit ELSE p >= i.limit
    BY <1>1, <2>4 DEF Abstract!Crossing
  <2>11. CASE call.event.side = "BUY"
    <3>1. call.event.price < p
      BY <2>8, <2>9, <2>11 DEF Better
    <3>2. p <= call.event.price
      BY <2>5, <2>10, <2>11
    <3> QED BY <2>9, <3>1, <3>2
  <2>12. CASE call.event.side # "BUY"
    <3>1. call.event.price > p
      BY <2>8, <2>9, <2>12 DEF Better
    <3>2. p >= call.event.price
      BY <2>5, <2>10, <2>12
    <3> QED BY <2>9, <3>1, <3>2
  <2> QED BY <2>11, <2>12
<1> QED BY <1>1 DEF Abstract!Best

\* A handler goes on, and no order of the book trades.
LEMMA HandlerStutters ==
  ASSUME BookInvariant, BookInvariant', NodesStay, Handling, Handling',
         call'.event = call.event,
         Sweeper => call'.remaining = call.remaining
  PROVE  AbstractStep
<1>1. Running({"l2", "l3"})' = Running({"l2", "l3"})
  BY DEF Running, Handling
<1>2. Sweeper' <=> Sweeper
  BY DEF Sweeper
<1> QED BY <1>1, <1>2, Stutters

\* Nothing runs, before and afterwards, or an order leaves that swept nothing.
LEMMA OutsideStutters ==
  ASSUME BookInvariant, BookInvariant', NodesStay, ~Sweeper, ~Sweeper',
         Running({"l2", "l3"})' = Running({"l2", "l3"})
  PROVE  AbstractStep
BY Stutters

LEMMA OrderLeaves ==
  ASSUME BookInvariant, BookInvariant', NodesStay, Sweeper, call' = Idle,
         call.remaining = 0 \/ Abstract!Best(Aggressor) = {}
  PROVE  AbstractStep
<1>1. RestingOrders' = RestingOrders
  BY OrdersStay
<1>2. IncomingOrders = {Aggressor}
  BY IncomingIs
<1>3. IncomingOrders' = {}
  BY IncomingNext DEF Sweeper, Handling, Idle
<1>4. Running({"l2", "l3"})' = Running({"l2", "l3"})
  BY DEF Running, Idle, Sweeper, Handling
<1>5. Aggressor.qty = call.remaining
  BY DEF Aggressor
<1>6. Abstract!Leave
  BY <1>1, <1>2, <1>3, <1>4, <1>5 DEF Abstract!Leave
<1> QED BY <1>6 DEF AbstractStep, Abstract!Next

\* A feed changes a resting order while nothing sweeps the book.
LEMMA OrderChanges ==
  ASSUME BookInvariant, BookInvariant', NEW id \in DOMAIN order_info, NEW qty \in Int,
         Requantify(id, qty), ~Sweeper, ~Sweeper',
         ~Running({"l2", "l3"}), ~Running({"l2", "l3"})'
  PROVE  AbstractStep
<1>1. PICK side \in Sides, p \in Prices, n \in ToSet(QueueAt(Side(id), Price(id))) :
        /\ side = Side(id) /\ p = Price(id) /\ n = NodeOf(id)
        /\ qty > 0 => NodeRestocked(n, qty)
        /\ qty <= 0 => NodeTaken(side, p, n)
  BY RequantifyKind
<1>2. n \in ToSet(QueueAt(side, p))
  BY <1>1
<1>3. PICK o : o = OrderAt(side, p, n)
  OBVIOUS
<1>4. o \in RestingOrders
  BY <1>2, <1>3, RestingSet DEF OrdersAreQueued
<1>5. /\ IncomingOrders = {}
      /\ IncomingOrders' = IncomingOrders
      /\ Running({"l2", "l3"})' = Running({"l2", "l3"})
  BY IncomingIs, IncomingNext DEF Running
<1>6. CASE qty > 0
  <2>1. PICK x : x = [o EXCEPT !.qty = qty]
    OBVIOUS
  <2>2. RestingOrders' = (RestingOrders \ {o}) \cup {x}
    BY <1>1, <1>2, <1>3, <1>6, <2>1, OrderRestocked
  <2>3. x.qty = qty
    BY <1>3, <2>1 DEF OrderAt
  <2>4. RestingOrders' = Abstract!Requantified(o, x.qty)
    BY <1>6, <2>1, <2>2, <2>3 DEF Abstract!Requantified, Abstract!WithQty
  <2>5. x \in RestingOrders'
    BY <2>2
  <2>6. Abstract!Change
    BY <1>4, <1>5, <1>6, <2>3, <2>4, <2>5 DEF Abstract!Change
  <2> QED BY <2>6 DEF AbstractStep, Abstract!Next
<1>7. CASE qty <= 0
  <2>1. RestingOrders' = RestingOrders \ {o}
    BY <1>1, <1>2, <1>3, <1>7, OrderTaken
  <2>2. RestingOrders' = Abstract!Requantified(o, 0)
    BY <2>1 DEF Abstract!Requantified
  <2>3. Abstract!Change
    BY <1>4, <1>5, <2>2 DEF Abstract!Change
  <2> QED BY <2>3 DEF AbstractStep, Abstract!Next
<1> QED BY <1>6, <1>7

\* An order of a feed arrives.
LEMMA ArrivalImplemented ==
  ASSUME Inductive, BookInvariant', NEW e \in Event, OnAdd(e)
  PROVE  AbstractStep
<1>1. /\ call = Idle
      /\ NodesStay
      /\ e.type = "ADD"
      /\ ~AddRejected(e)
      /\ BookInvariant
  BY BookUntouched DEF OnAdd, Accepts, Rejected, Inductive
<1>2. /\ ~Sweeper
      /\ call'.pc = "sweep"
      /\ call'.event = e
      /\ call'.remaining = e.qty
  <2>1. call.pc = "idle"
    BY <1>1 DEF Idle
  <2> QED BY <2>1 DEF OnAdd, NewCall, Sweeper, Handling
<1>3. ~Running({"l2", "l3"}) /\ ~Running({"l2", "l3"})'
  BY <1>1, <1>2 DEF Running, Idle
<1>4. Running({"l2", "l3"})' = Running({"l2", "l3"})
  BY <1>3 DEF Running
<1>5. CASE e.source = "STRATEGY"
  <2>1. ~Sweeper'
    BY <1>2, <1>5 DEF Sweeper
  <2> QED BY <1>1, <1>2, <1>4, <2>1, OutsideStutters
<1>6. CASE e.source = "HISTORICAL"
  <2>1. RestingOrders' = RestingOrders
    BY <1>1, OrdersStay
  <2>2. IncomingOrders = {}
    BY <1>2, IncomingIs
  <2>3. PICK i : i = Aggressor'
    OBVIOUS
  <2>4. IncomingOrders' = {i}
    <3>1. Sweeper'
      BY <1>1, <1>2, <1>6 DEF Sweeper, Handling
    <3> QED BY <2>3, <3>1, IncomingNext
  <2>5. i.qty >= 0
    <3>1. i.qty = e.qty
      BY <1>2, <2>3 DEF Aggressor
    <3>2. e.qty \in Int /\ ~(e.qty < 0)
      BY <1>1 DEF AddRejected, Event
    <3> QED BY <3>1, <3>2
  <2>6. Abstract!Arrive
    BY <1>3, <1>4, <2>1, <2>2, <2>4, <2>5 DEF Abstract!Arrive
  <2> QED BY <2>6 DEF AbstractStep, Abstract!Next
<1> QED BY <1>5, <1>6 DEF OnAdd

\* An iteration of a historical sweep is a trade with the order that is
\* served first.
LEMMA TradeImplemented ==
  ASSUME Inductive, BookInvariant', HeapCovers, SweepProceeds, HistoricalSweep
  PROVE  AbstractStep
<1>1. /\ call.pc = "sweep"
      /\ call.event.source = "HISTORICAL"
      /\ call.remaining > 0
  BY Zenon DEF HistoricalSweep
<1>0. BookInvariant /\ Handling
  BY <1>1 DEF Inductive, Handling
<1>2. /\ call.side \in Sides
      /\ call.event.side \in Sides
      /\ call.event.price \in Prices
      /\ call.remaining \in Nat
      /\ call.event.type = "ADD"
      /\ call.side = Opposite(call.event.side)
  BY <1>0, <1>1, HandlerFacts, HandlerKinds DEF SweepProceeds
<1>3. PICK side \in Sides, p \in NextPrice, n \in DOMAIN node, take \in Nat :
        /\ side = call.side
        /\ Live(side, p)
        /\ n = Head(QueueAt(side, p))
        /\ take = Lesser(node[n].qty, call.remaining)
        /\ call'.event = call.event
        /\ call'.remaining = call.remaining - take
        /\ call'.pc \in {"sweep", "queue"}
        /\ take = node[n].qty => NodeTaken(side, p, n)
        /\ take # node[n].qty => NodeRestocked(n, node[n].qty - take)
  BY SweepKind
<1>4. /\ p \in Prices
      /\ \A q \in Prices : Live(side, q) => ~Better(side, q, p)
      /\ Crosses(call.event, p)
  BY <1>1, <1>3 DEF NextPrice, BestPrice, HeapCovers
<1>5. /\ n \in ToSet(QueueAt(side, p))
      /\ \A m \in ToSet(QueueAt(side, p)) : m # n => n < m
      /\ n \in Nat
      /\ node[n] \in Node
  BY <1>0, <1>3, FirstArrived, QueueAtFacts
<1>6. PICK o, i : o = OrderAt(side, p, n) /\ i = Aggressor
  OBVIOUS
<1>7. /\ o \in RestingOrders
      /\ o.side = side
      /\ o.price = p
      /\ o.arrival = n
      /\ o.qty = node[n].qty
      /\ i.side = call.event.side
      /\ i.limit = call.event.price
      /\ i.qty = call.remaining
  <2>1. o \in RestingOrders
    BY <1>0, <1>4, <1>5, <1>6, RestingSet DEF OrdersAreQueued
  <2> QED BY <1>6, <2>1 DEF OrderAt, Aggressor
<1>8. p \in Int /\ call.event.price \in Int
  BY <1>2, <1>4, PricesAssumption
<1>9. Abstract!Crossing(i, o)
  <2>1. ~Better(side, call.event.price, p)
    BY <1>2, <1>3, <1>4 DEF Crosses
  <2>2. CASE call.event.side = "BUY"
    <3>1. side = "SELL"
      BY <1>2, <1>3, <2>2 DEF Opposite
    <3>2. p <= call.event.price
      BY <1>8, <2>1, <3>1 DEF Better
    <3> QED BY <1>7, <2>2, <3>1, <3>2 DEF Abstract!Crossing
  <2>3. CASE call.event.side = "SELL"
    <3>1. side = "BUY"
      BY <1>2, <1>3, <2>3 DEF Opposite
    <3>2. p >= call.event.price
      BY <1>8, <2>1, <3>1 DEF Better
    <3> QED BY <1>7, <2>3, <3>1, <3>2 DEF Abstract!Crossing
  <2> QED BY <1>2, <2>2, <2>3 DEF Sides
<1>10. ASSUME NEW x \in RestingOrders, Abstract!Crossing(i, x)
       PROVE  ~Abstract!Before(x, o)
  <2>1. PICK s \in Sides, q \in Prices :
          \E m \in ToSet(QueueAt(s, q)) : x = OrderAt(s, q, m)
    BY <1>0, RestingSet DEF OrdersAreQueued
  <2>2. PICK m \in ToSet(QueueAt(s, q)) : x = OrderAt(s, q, m)
    BY <2>1
  <2>3. x.side = s /\ x.price = q /\ x.arrival = m
    BY <2>2 DEF OrderAt
  <2>4. s = side
    BY <1>2, <1>3, <1>7, <1>10, <2>3 DEF Abstract!Crossing, Opposite, Sides
  <2>5. Live(s, q)
    <3>1. ToSet(<<>>) = {}
      BY DEF ToSet
    <3> QED BY <3>1, LevelsLive
  <2>6. ~Better(side, q, p)
    BY <1>4, <2>4, <2>5
  <2>7. q = p => ~(m < n)
    <3>1. m \in Nat
      BY <1>0, QueueAtFacts
    <3>2. q = p => m = n \/ n < m
      BY <1>5, <2>4
    <3> QED BY <1>5, <3>1, <3>2
  <2>8. ~(IF side = "BUY" THEN q > p ELSE q < p)
    BY <2>6 DEF Better
  <2> QED BY <1>7, <2>3, <2>4, <2>7, <2>8 DEF Abstract!Before
<1>11. o \in Abstract!Best(i)
  BY <1>7, <1>9, <1>10 DEF Abstract!Best
<1>12. node[n].qty \in Nat
  BY <1>5 DEF Node
<1>13. take = IF o.qty <= i.qty THEN o.qty ELSE i.qty
  BY <1>3, <1>7 DEF Lesser
<1>14. RestingOrders' = Abstract!Requantified(o, o.qty - take)
  <2>1. CASE take = node[n].qty
    <3>1. RestingOrders' = RestingOrders \ {o}
      BY <1>0, <1>3, <1>4, <1>6, <2>1, OrderTaken
    <3>2. o.qty - take = 0
      BY <1>7, <1>12, <2>1
    <3> QED BY <3>1, <3>2 DEF Abstract!Requantified
  <2>2. CASE take # node[n].qty
    <3>1. RestingOrders' = (RestingOrders \ {o}) \cup {[o EXCEPT !.qty = o.qty - take]}
      BY <1>0, <1>3, <1>4, <1>5, <1>6, <1>7, <2>2, OrderRestocked
    <3>2. take <= node[n].qty
      BY <1>2, <1>3, <1>12 DEF Lesser
    <3>3. o.qty - take > 0
      BY <1>3, <1>7, <1>12, <2>2, <3>2
    <3> QED BY <3>1, <3>3 DEF Abstract!Requantified, Abstract!WithQty
  <2> QED BY <2>1, <2>2
<1>15. IncomingOrders = {i} /\ IncomingOrders' = {[i EXCEPT !.qty = i.qty - take]}
  <2>1. Sweeper /\ Sweeper'
    BY <1>0, <1>1, <1>2, <1>3 DEF Sweeper, Handling
  <2>2. Aggressor' = [i EXCEPT !.qty = i.qty - take]
    BY <1>3, <1>6, <1>7 DEF Aggressor
  <2> QED BY <1>6, <2>1, <2>2, IncomingIs, IncomingNext
<1>16. Running({"l2", "l3"})' = Running({"l2", "l3"})
  BY <1>1, <1>3 DEF Running
<1>17. i.qty > 0
  BY <1>1, <1>7
<1>18. Abstract!Trade
  BY <1>11, <1>13, <1>14, <1>15, <1>16, <1>17 DEF Abstract!Trade
<1> QED BY <1>18 DEF AbstractStep, Abstract!Next

\* In the handler of a historical order, nothing in the book crosses it.
LEMMA NothingCrosses ==
  ASSUME Inductive, SweepProceeds, Sweeper, call.remaining > 0,
         call.pc \in {"paper", "rest"}
  PROVE  Abstract!Best(Aggressor) = {}
<1>1. /\ BookInvariant
      /\ call.event.side \in Sides
      /\ call.event.price \in Prices
  BY HandlerFacts DEF Inductive
<1>2. /\ call.side = Opposite(call.event.side)
      /\ \A p \in Prices : Live(call.side, p) => ~Crosses(call.event, p)
  BY DEF SweepProceeds, Trading, Sweeper
<1> QED BY <1>1, <1>2, NoBest

LEMMA AbsorptionImplemented ==
  ASSUME Inductive, BookInvariant', SweepProceeds, TradeAgainstPaper
  PROVE  AbstractStep
<1>1. /\ call.pc = "paper"
      /\ call'.pc = "paper"
      /\ call.remaining > 0
      /\ call'.event = call.event
      /\ UNCHANGED <<book, node>>
  BY PaperTrade
<1>2. /\ call \in Handler
      /\ call.side \in Sides
      /\ call.remaining \in Nat
      /\ BookInvariant
      /\ PaperInvariant
  BY <1>1, HandlerFacts DEF Inductive
<1>3. NodesStay /\ Handling
  BY <1>1, BookUntouched DEF Handling
<1>4. PICK fill \in Nat : /\ fill > 0
                          /\ fill <= call.remaining
                          /\ call'.remaining = call.remaining - fill
  <2>1. \A f \in Fill : f.qty \in Nat
    BY DEF Fill
  <2> QED BY <2>1, PaperTrade
<1>5. /\ call'.pc = "paper"
      /\ call'.event = call.event
      /\ call'.remaining = call.remaining - fill
  BY <1>1, <1>4
<1>6. Handling'
  BY <1>5 DEF Handling
<1>7. CASE ~Sweeper
  BY <1>2, <1>3, <1>5, <1>6, <1>7, HandlerStutters
<1>8. CASE Sweeper
  <2>1. Abstract!Best(Aggressor) = {}
    BY <1>1, <1>8, NothingCrosses
  <2>2. PICK i, j : i = Aggressor /\ j = Aggressor'
    OBVIOUS
  <2>3. /\ i.qty = call.remaining
        /\ j.qty = call.remaining - fill
        /\ j = [i EXCEPT !.qty = j.qty]
    BY <1>5, <2>2 DEF Aggressor
  <2>4. Sweeper'
    BY <1>5, <1>6, <1>8 DEF Sweeper
  <2>5. IncomingOrders = {i} /\ IncomingOrders' = {j}
    BY <1>8, <2>2, <2>4, IncomingIs, IncomingNext
  <2>6. j.qty < i.qty /\ j.qty >= 0
    BY <1>2, <1>4, <2>3
  <2>7. RestingOrders' = RestingOrders
    BY <1>2, <1>3, OrdersStay
  <2>8. Running({"l2", "l3"})' = Running({"l2", "l3"})
    BY <1>1, <1>5 DEF Running
  <2>9. Abstract!Absorb
    BY <2>1, <2>2, <2>3, <2>5, <2>6, <2>7, <2>8 DEF Abstract!Absorb
  <2> QED BY <2>9 DEF AbstractStep, Abstract!Next
<1> QED BY <1>7, <1>8

LEMMA RestImplemented ==
  ASSUME Inductive, BookInvariant', SweepProceeds, RestHistorical
  PROVE  AbstractStep
<1>1. /\ call.pc = "rest"
      /\ call.event.source = "HISTORICAL"
      /\ call.remaining > 0
      /\ AppendNode(call.event.side, call.event.price, call.event.id, call.remaining)
      /\ call' = Idle
  BY DEF RestHistorical
<1>2. /\ call.event.side \in Sides
      /\ call.event.price \in Prices
      /\ call.event.type = "ADD"
      /\ BookInvariant
  BY <1>1, HandlerFacts, HandlerKinds DEF Inductive
<1>3. Sweeper /\ ~Sweeper' /\ Running({"l2", "l3"})' = Running({"l2", "l3"})
  BY <1>1, <1>2 DEF Sweeper, Handling, Idle, Running
<1>4. PICK side, p, id, qty :
        /\ side \in Sides /\ p \in Prices
        /\ side = call.event.side
        /\ p = call.event.price
        /\ qty = call.remaining
        /\ AppendNode(side, p, id, qty)
  BY <1>1, <1>2
<1> side \in Sides /\ p \in Prices
  BY <1>4
<1>5. NodeJoined(side, p, id, qty)
  BY <1>2, <1>4, AppendKind
<1>6. PICK o : /\ o.side = side /\ o.price = p /\ o.qty = qty
               /\ RestingOrders' = RestingOrders \cup {o}
               /\ o \notin RestingOrders
               /\ \A x \in RestingOrders : x.arrival < o.arrival
  BY <1>2, <1>5, OrderEnters
<1>7. PICK i : i = Aggressor
  OBVIOUS
<1>8. i.side = side /\ i.limit = p /\ i.qty = qty
  BY <1>4, <1>7 DEF Aggressor
<1>9. Abstract!Best(i) = {}
  BY <1>1, <1>3, <1>7, NothingCrosses
<1>10. IncomingOrders = {i} /\ IncomingOrders' = {}
  BY <1>3, <1>7, IncomingIs, IncomingNext
<1>11. Abstract!Enters(o) /\ o \in RestingOrders'
  BY <1>6 DEF Abstract!Enters
<1>12. i.qty > 0
  BY <1>1, <1>4, <1>8
<1>13. Abstract!Rest
  BY <1>3, <1>6, <1>8, <1>9, <1>10, <1>11, <1>12 DEF Abstract!Rest
<1> QED BY <1>13 DEF AbstractStep, Abstract!Next

LEMMA SnapshotImplemented ==
  ASSUME Inductive, BookInvariant',
         \/ \E rows : InitFromL2Snapshot(rows) \/ InitFromL3Snapshot(rows)
         \/ L2Row \/ L3Row \/ EndSnapshot
  PROVE  AbstractStep
<1>0. BookInvariant
  BY DEF Inductive
<1>1. CASE \E rows : InitFromL2Snapshot(rows) \/ InitFromL3Snapshot(rows)
  <2>1. /\ call.pc = "idle"
        /\ call'.pc \in {"l2", "l3"}
        /\ clear_state
    BY <1>1 DEF InitFromL2Snapshot, InitFromL3Snapshot, Idle
  <2>2. RestingOrders' = {}
    BY <2>1, ClearedKind, OrdersCleared
  <2>3. IncomingOrders = {} /\ IncomingOrders' = {}
    BY <2>1, IncomingIs, IncomingNext DEF Sweeper, Handling
  <2>4. Running({"l2", "l3"})' = TRUE
    BY <2>1 DEF Running
  <2>5. Abstract!Reset
    BY <2>2, <2>3, <2>4 DEF Abstract!Reset
  <2> QED BY <2>5 DEF AbstractStep, Abstract!Next
<1>2. ASSUME call.pc \in {"l2", "l3"}, NodesStay, call' = Idle
      PROVE  AbstractStep
  <2>1. RestingOrders' = RestingOrders
    BY <1>0, <1>2, OrdersStay
  <2>2. IncomingOrders = {} /\ IncomingOrders' = {}
    BY <1>2, IncomingIs, IncomingNext DEF Sweeper, Handling, Idle
  <2>3. Running({"l2", "l3"}) /\ Running({"l2", "l3"})' = FALSE
    BY <1>2 DEF Running, Idle
  <2>4. Abstract!EndLoad
    BY <2>1, <2>2, <2>3 DEF Abstract!EndLoad
  <2> QED BY <2>4 DEF AbstractStep, Abstract!Next
<1>3. ASSUME call.pc \in {"l2", "l3"}, NextRow
      PROVE  /\ call'.pc = call.pc
             /\ ~Sweeper /\ ~Sweeper'
             /\ Running({"l2", "l3"})' = Running({"l2", "l3"})
             /\ Running({"l2", "l3"})
  <2>1. call \in Load
    BY <1>3, CallKinds
  <2>2. call'.pc = call.pc
    BY <1>3, <2>1 DEF NextRow, Load
  <2> QED BY <1>3, <2>2 DEF Sweeper, Handling, Running
<1>4. CASE L2Row \/ L3Row
  <2>1. call.pc \in {"l2", "l3"} /\ (call' = Idle \/ NextRow)
    BY <1>4 DEF L2Row, L3Row
  <2>2. CASE NodesStay /\ UNCHANGED <<heap, order_arrival_seq>>
    BY <1>0, <1>2, <1>3, <2>1, <2>2, OutsideStutters
  <2>3. CASE \E side \in Sides, p \in Prices, qty \in Nat : \E id :
               NodeJoined(side, p, id, qty) /\ NextRow
    <3>1. PICK side, p, qty, id :
            /\ side \in Sides /\ p \in Prices /\ qty \in Nat
            /\ NodeJoined(side, p, id, qty) /\ NextRow
      BY <2>3
    <3> side \in Sides /\ p \in Prices /\ qty \in Nat
      BY <3>1
    <3>2. PICK o : /\ RestingOrders' = RestingOrders \cup {o}
                   /\ o \notin RestingOrders
                   /\ \A x \in RestingOrders : x.arrival < o.arrival
      BY <1>0, <3>1, OrderEnters
    <3>3. Abstract!Enters(o) /\ o \in RestingOrders'
      BY <3>2 DEF Abstract!Enters
    <3>4. /\ Running({"l2", "l3"})
          /\ Running({"l2", "l3"})' = Running({"l2", "l3"})
          /\ IncomingOrders = {} /\ IncomingOrders' = {}
      BY <1>3, <2>1, <3>1, IncomingIs, IncomingNext
    <3>5. Abstract!Load
      BY <3>3, <3>4 DEF Abstract!Load
    <3> QED BY <3>5 DEF AbstractStep, Abstract!Next
  <2> QED BY <1>4, <2>2, <2>3, RowKind
<1>5. CASE EndSnapshot
  BY <1>2, <1>5, BookUntouched DEF EndSnapshot, bookVars
<1> QED BY <1>1, <1>4, <1>5

LEMMA StepImplemented ==
  ASSUME Inductive, BookInvariant', HeapCovers, SweepProceeds, [Next]_vars
  PROVE  AbstractStep
<1>0. BookInvariant
  BY DEF Inductive
<1>1. ASSUME call = Idle, call' = Idle PROVE
        /\ ~Sweeper /\ ~Sweeper'
        /\ ~Running({"l2", "l3"}) /\ ~Running({"l2", "l3"})'
        /\ Running({"l2", "l3"})' = Running({"l2", "l3"})
  BY <1>1 DEF Sweeper, Handling, Running, Idle
<1>2. ASSUME NEW e \in Events, update(e) PROVE AbstractStep
  <2>1. e \in Event
    BY EventsAssumption
  <2>2. CASE OnAdd(e)
    BY <2>1, <2>2, ArrivalImplemented
  <2>3. CASE OnAggressiveTrade(e) \/ OnMatch(e)
    <3>1. /\ call = Idle
          /\ e.type # "ADD"
          /\ NodesStay
      BY <2>3, BookUntouched DEF OnAggressiveTrade, OnMatch, Accepts, bookVars
    <3>2. /\ call'.pc \in {"sweep", "queue", "settle"}
          /\ call'.event = e
      <4>1. CASE OnAggressiveTrade(e)
        BY <4>1 DEF OnAggressiveTrade, NewCall
      <4>2. CASE OnMatch(e)
        BY <4>2 DEF OnMatch, NewCall
      <4> QED BY <2>3, <4>1, <4>2
    <3>3. ~Sweeper /\ ~Sweeper' /\ Running({"l2", "l3"})' = Running({"l2", "l3"})
      BY <3>1, <3>2 DEF Sweeper, Handling, Running, Idle
    <3> QED BY <1>0, <3>1, <3>3, OutsideStutters
  <2>4. CASE Reject(e)
    <3>1. call = Idle /\ call' = Idle /\ UNCHANGED <<book, node>>
      BY <2>4 DEF Reject, vars, bookVars
    <3> QED BY <1>0, <1>1, <3>1, BookUntouched, OutsideStutters
  <2>5. CASE OnDelete(e) \/ OnSubtract(e) \/ OnSet(e)
    <3>1. call = Idle /\ call' = Idle
      BY <2>5 DEF OnDelete, OnSubtract, OnSet, Accepts, SetHistorical
    <3>2. CASE UNCHANGED bookVars
      BY <1>0, <1>1, <3>1, <3>2, BookUntouched, OutsideStutters DEF bookVars
    <3>3. CASE e.source = "HISTORICAL"
      <4>1. e.id \in DOMAIN order_info /\ e.qty \in Int
        BY <2>1, <2>5, <3>3, Known DEF OnDelete, OnSubtract, OnSet, Accepts, Rejected,
                                       SubtractRejected, Event
      <4>2. PICK qty \in Int : Requantify(e.id, qty)
        <5>1. /\ node[NodeOf(e.id)].qty \in Nat
              /\ Taken(e) \in Int
          BY <4>1, TakenFacts
        <5>2. /\ 0 \in Int
              /\ node[NodeOf(e.id)].qty - Taken(e) \in Int
              /\ (IF e.qty < 0 THEN 0 ELSE e.qty) \in Int
          BY <4>1, <5>1
        <5> QED BY <2>5, <3>3, <5>2 DEF OnDelete, OnSubtract, OnSet, SetHistorical
      <4> QED BY <1>0, <1>1, <3>1, <4>1, <4>2, OrderChanges
    <3> QED BY <2>5, <3>2, <3>3 DEF OnDelete, OnSubtract, OnSet
  <2> QED BY <1>2, <2>2, <2>3, <2>4, <2>5 DEF update
<1>3. ASSUME NEW rows, InitFromL2Snapshot(rows) \/ InitFromL3Snapshot(rows)
      PROVE  AbstractStep
  BY <1>3, SnapshotImplemented
<1>4. ASSUME NEW side \in Sides, GetBestPriceTicks(side) PROVE AbstractStep
  BY <1>0, <1>1, <1>4, BookUntouched, OutsideStutters DEF GetBestPriceTicks
<1>5. CASE UNCHANGED vars
  <2>1. UNCHANGED <<book, node, call>>
    BY <1>5 DEF vars, bookVars
  <2>2. IncomingOrders' = IncomingOrders
    BY <2>1 DEF IncomingOrders, Handling
  <2>3. Running({"l2", "l3"})' = Running({"l2", "l3"})
    BY <2>1 DEF Running
  <2>4. RestingOrders' = RestingOrders
    BY <1>0, <2>1, BookUntouched, OrdersStay
  <2> QED BY <2>2, <2>3, <2>4 DEF AbstractStep, Abstract!vars
<1>6. CASE StrategySweep \/ MatchFill
  <2>1. /\ call.pc \in {"sweep", "settle"}
        /\ UNCHANGED <<book, node>>
    BY <1>6, Zenon DEF StrategySweep, MatchFill, bookVars
  <2>2. call \in Handler
    BY <2>1, HandlerFacts
  <2>3. /\ call'.pc \in {"sweep", "reduce"}
        /\ call'.event = call.event
        /\ ~Sweeper
    <3>1. CASE StrategySweep
      <4>1. PICK p \in NextPrice :
              LET queue == book[call.side][p]
                  n     == queue[call.it]
                  take  == Lesser(node[n].qty, call.remaining)
                  left  == take = call.remaining \/ call.it = Len(queue)
                  stack == Pruned(call.heap_copy, call.side)
              IN  call' = [call EXCEPT
                     !.price = p,
                     !.remaining = @ - take,
                     !.it = IF left THEN 1 ELSE @ + 1,
                     !.heap_copy = IF left THEN AllPopped(stack, p) ELSE stack,
                     !.fills = IF take > 0 THEN Append(@, BookFill(n, p, take)) ELSE @]
        BY <3>1, Zenon DEF StrategySweep
      <4>2. call.pc = "sweep" /\ call.event.source # "HISTORICAL"
        BY <3>1 DEF StrategySweep
      <4> QED BY <2>2, <4>1, <4>2 DEF Handler, Sweeper
    <3>2. CASE MatchFill
      <4>1. PICK f : call' = [call EXCEPT !.pc = "reduce", !.fills = f]
        BY <3>2 DEF MatchFill
      <4>2. call.event.type # "ADD"
        BY <3>2 DEF MatchFill
      <4> QED BY <2>2, <4>1, <4>2 DEF Handler, Sweeper
    <3> QED BY <1>6, <3>1, <3>2
  <2>4. NodesStay /\ Handling /\ Handling'
    BY <2>1, <2>3, BookUntouched DEF Handling
  <2> QED BY <1>0, <2>3, <2>4, HandlerStutters
<1>7. CASE HistoricalSweep
  BY <1>7, TradeImplemented
<1>8. CASE \/ EndSweep \/ QueueFill \/ EndQueue \/ Settle \/ EndLevel
           \/ AcquirePaperNode \/ MirrorNode
  <2>1. /\ call.pc \in {"sweep", "queue", "settle", "rest", "mirror"}
        /\ EndLevel \/ UNCHANGED <<book, node>>
    BY <1>8 DEF EndSweep, QueueFill, EndQueue, Settle, EndLevel, AcquirePaperNode,
                MirrorNode, bookVars
  <2>2. call \in Handler
    BY <2>1, HandlerFacts
  <2>3. /\ call'.pc \in {"sweep", "queue", "settle", "paper", "rest", "mirror"}
        /\ call'.event = call.event
        /\ call'.remaining = call.remaining
    <3>1. CASE EndSweep
      BY <2>2, <3>1 DEF EndSweep, Handler
    <3>2. CASE QueueFill
      <4>1. PICK l, c, f :
              call' = [call EXCEPT !.lots = l, !.consumed = c, !.fills = f]
        BY <3>2 DEF QueueFill
      <4>2. call.pc = "queue"
        BY <3>2 DEF QueueFill
      <4> QED BY <2>2, <4>1, <4>2 DEF Handler
    <3>3. CASE EndQueue \/ Settle \/ EndLevel
      BY <2>2, <3>3 DEF EndQueue, Settle, EndLevel, Handler
    <3>4. CASE AcquirePaperNode \/ MirrorNode
      BY <2>2, <3>4 DEF AcquirePaperNode, MirrorNode, Handler
    <3> QED BY <1>8, <3>1, <3>2, <3>3, <3>4
  <2>4. NodesStay
    BY <2>1, EndLevelKind, BookUntouched
  <2>5. Handling /\ Handling'
    BY <2>1, <2>3 DEF Handling
  <2> QED BY <1>0, <2>3, <2>4, <2>5, HandlerStutters
<1>9. CASE TradeAgainstPaper
  BY <1>9, AbsorptionImplemented
<1>10. CASE EndPaper
  <2>1. /\ call.pc = "paper"
        /\ UNCHANGED <<book, node>>
        /\ call' = IF call.event.type = "ADD" THEN [call EXCEPT !.pc = "rest"]
                                              ELSE Idle
    BY <1>10 DEF EndPaper, bookVars
  <2>2. call \in Handler /\ NodesStay
    BY <2>1, HandlerFacts, BookUntouched
  <2>3. CASE call.event.type = "ADD"
    <3>1. /\ call'.pc = "rest"
          /\ call'.event = call.event
          /\ call'.remaining = call.remaining
      BY <2>1, <2>2, <2>3 DEF Handler
    <3>2. Handling /\ Handling'
      BY <2>1, <3>1 DEF Handling
    <3> QED BY <1>0, <2>2, <3>1, <3>2, HandlerStutters
  <2>4. CASE call.event.type # "ADD"
    <3>1. ~Sweeper /\ ~Sweeper' /\ Running({"l2", "l3"})' = Running({"l2", "l3"})
      BY <2>1, <2>4 DEF Sweeper, Handling, Running, Idle
    <3> QED BY <1>0, <2>2, <3>1, OutsideStutters
  <2> QED BY <2>3, <2>4
<1>11. CASE EndAdd
  <2>1. /\ call.pc = "rest"
        /\ UNCHANGED <<book, node>>
        /\ call' = Idle
    BY <1>11 DEF EndAdd, bookVars
  <2>2. CASE Sweeper
    <3>1. call.remaining = 0 \/ Abstract!Best(Aggressor) = {}
      <4>1. call.remaining \in Nat
        BY <2>1, HandlerFacts
      <4> QED BY <2>1, <2>2, <4>1, NothingCrosses
    <3> QED BY <1>0, <2>1, <2>2, <3>1, BookUntouched, OrderLeaves
  <2>3. CASE ~Sweeper
    <3>1. ~Sweeper' /\ Running({"l2", "l3"})' = Running({"l2", "l3"})
      BY <2>1 DEF Sweeper, Handling, Running, Idle
    <3> QED BY <1>0, <2>1, <2>3, <3>1, BookUntouched, OutsideStutters
  <2> QED BY <2>2, <2>3
<1>12. CASE RestHistorical
  BY <1>12, RestImplemented
<1>13. CASE RestStrategy
  <2>1. /\ call.pc = "mirror"
        /\ UNCHANGED <<book, node>>
        /\ call' = Idle
    BY <1>13 DEF RestStrategy, bookVars
  <2>2. call.event.source = "STRATEGY"
    BY <2>1, HandlerFacts DEF HandlerState
  <2>3. ~Sweeper /\ ~Sweeper' /\ Running({"l2", "l3"})' = Running({"l2", "l3"})
    BY <2>1, <2>2 DEF Sweeper, Handling, Running, Idle
  <2> QED BY <1>0, <2>1, <2>3, BookUntouched, OutsideStutters
<1>14. CASE EndMatch
  <2>1. /\ call.pc = "reduce"
        /\ call' = Idle
        /\ Requantify(call.event.id, node[NodeOf(call.event.id)].qty - Taken(call.event))
    BY <1>14 DEF EndMatch
  <2>2. /\ call.event.id \in DOMAIN order_info
        /\ call.event.qty \in Nat
        /\ call.event.type = "MATCH"
    BY <2>1, HandlerFacts, HandlerKinds
  <2>3. PICK id \in DOMAIN order_info, qty \in Int : Requantify(id, qty)
    <3>1. /\ node[NodeOf(call.event.id)].qty \in Nat
          /\ Taken(call.event) \in Int
      BY <2>2, TakenFacts
    <3>2. node[NodeOf(call.event.id)].qty - Taken(call.event) \in Int
      BY <3>1
    <3> QED BY <2>1, <2>2, <3>2
  <2>4. /\ ~Sweeper /\ ~Sweeper'
        /\ ~Running({"l2", "l3"}) /\ ~Running({"l2", "l3"})'
    BY <2>1, <2>2 DEF Sweeper, Handling, Running, Idle
  <2> QED BY <1>0, <2>3, <2>4, OrderChanges
<1>15. CASE L2Row \/ L3Row \/ EndSnapshot
  BY <1>15, SnapshotImplemented
<1>16. CASE Continue
  BY <1>6, <1>7, <1>8, <1>9, <1>10, <1>11, <1>12, <1>13, <1>14, <1>15, <1>16 DEF Continue
<1> QED BY <1>2, <1>3, <1>4, <1>5, <1>16 DEF Next

(***************************************************************************)
(* The engine implements OrderBook: levels, heaps, queues and nodes, with  *)
(* the iterations of the handlers of paper_trading_simulator.cpp, are a    *)
(* book with priority by price and arrival whose orders trade best first,  *)
(* rest only where they cross nothing, and never move.                     *)
(***************************************************************************)
THEOREM OrderBookImplemented == Spec => ImplementsOrderBook
<1>1. Init => Abstract!Init
  <2> SUFFICES ASSUME Init PROVE Abstract!Init
    OBVIOUS
  <2>1. RestingOrders = {}
    BY DEF Init, RestingOrders, Resting, Empty
  <2>2. IncomingOrders = {}
    BY DEF Init, IncomingOrders, Handling, Idle
  <2>3. Running({"l2", "l3"}) = FALSE
    BY DEF Init, Running, Idle
  <2> QED BY <2>1, <2>2, <2>3 DEF Abstract!Init
<1>2. Init => HeapCovers /\ SweepProceeds /\ PriceTimePriority
  BY DEF Init, HeapCovers, Live, Empty, SweepProceeds, PriceTimePriority, Trading,
         Handling, Idle
<1>3. Inductive /\ HeapCovers /\ SweepProceeds /\ PriceTimePriority /\ [Next]_vars =>
        (HeapCovers /\ SweepProceeds /\ PriceTimePriority)'
  BY HeapStep, PriorityStep
<1>4. Inductive /\ Inductive' /\ HeapCovers /\ SweepProceeds /\ [Next]_vars =>
        [Abstract!Next]_(Abstract!vars)
  <2>1. Inductive' => BookInvariant'
    BY DEF Inductive
  <2> QED BY <2>1, StepImplemented DEF AbstractStep
<1> QED BY <1>1, <1>2, <1>3, <1>4, Invariance, PTL
        DEF Spec, ImplementsOrderBook, Abstract!Spec
=============================================================================
