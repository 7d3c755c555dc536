----------------------- MODULE PaperTradingProperties -----------------------
(***************************************************************************)
(* What makes the engine of PaperTradingSimulator correct.  Its state is   *)
(* redundant: a fact is kept in a list, a map, a heap, a sum and a tree at *)
(* once, and each handler updates all of them by hand.  All invariants are *)
(* stated for every state between two steps, thus also for what a sink     *)
(* sees from a callback in the middle of a handler.                        *)
(***************************************************************************)
EXTENDS PaperTradingSimulator

(***************************************************************************)
(* The types of the state.                                                 *)
(***************************************************************************)
TypeOK ==
  /\ DOMAIN book = Sides
  /\ \A side \in Sides : IsPartial(book[side], Prices, Seq(Nat))
  /\ IsPartial(node, Nat, Node)
  /\ heap \in [Sides -> Bag]
  /\ IsPartial(order_info, Ids, OrderInfo)
  /\ order_arrival_seq \in Nat
  /\ DOMAIN paper = Sides
  /\ \A side \in Sides : IsPartial(paper[side], Prices, PaperOrderLevel)
  /\ IsPartial(paper_orders, Ids, PaperOrder)
  /\ IsPartial(paper_order_info, Ids, PaperOrderInfo)
  /\ paper_pool \in SUBSET Ids
  /\ \/ call = Idle
     \/ call \in Load
     \/ call \in Handler

Running(pcs) == call.pc \in pcs

Handling == call.pc \notin {"idle", "l2", "l3"}

NodesOf(side) == UNION {ToSet(book[side][p]) : p \in DOMAIN book[side]}

(***************************************************************************)
(* order_info and the book name the same orders at the same places, every  *)
(* node in use is queued, and no pool holds more than its capacity: the    *)
(* branches of on_delete, on_set and on_partial_order_cancel that report a *)
(* corrupt book are dead, no handler follows a pointer to a released node, *)
(* and none leaks one.                                                     *)
(***************************************************************************)
BookIndexed ==
  /\ \A id \in DOMAIN order_info :
       /\ Price(id) \in DOMAIN book[Side(id)]
       /\ NodeOf(id) \in ToSet(book[Side(id)][Price(id)])
       /\ node[NodeOf(id)].id = id
  /\ \A side \in Sides : \A p \in DOMAIN book[side] :
       \A n \in ToSet(book[side][p]) :
         /\ n \in DOMAIN node
         /\ node[n].id # UnknownOrderId =>
              /\ node[n].id \in DOMAIN order_info
              /\ order_info[node[n].id] = [side |-> side, price |-> p, node |-> n]
  /\ DOMAIN node = NodesOf("BUY") \cup NodesOf("SELL")
  /\ Cardinality(DOMAIN node) <= HistoricalCapacity

Increasing(q) == \A i, j \in DOMAIN q : i < j => q[i] < q[j]

(***************************************************************************)
(* Every queue of the book is in the order of arrival, and a paper level   *)
(* knows all nodes of the queue at its price in that order, which          *)
(* lower_bound on market_seqs relies on.  A new level is still learning.   *)
(***************************************************************************)
ArrivalOrder ==
  \A side \in Sides :
    /\ \A p \in DOMAIN book[side] : Increasing(book[side][p])
    /\ \A p \in DOMAIN paper[side] :
         /\ Increasing(paper[side][p].market_seqs)
         /\ (p \in DOMAIN book[side] /\ paper[side][p].orders # <<>>) =>
              ToSet(book[side][p]) \subseteq ToSet(paper[side][p].market_seqs)

(***************************************************************************)
(* The first entry of the heap that best_opposite_price and                *)
(* get_best_price_ticks do not discard is the best level of the book,      *)
(* whatever levels went and came back since it was pushed.                 *)
(***************************************************************************)
TopOfBook ==
  \A side \in Sides :
    BestPrice(heap[side], side) =
      {p \in Prices :
         Live(side, p) /\ \A q \in Prices : Live(side, q) => ~Better(side, q, p)}

(***************************************************************************)
(* Levels, heaps, queues and nodes together are a book with priority by    *)
(* price and arrival (OrderBook): each iteration of a historical sweep is  *)
(* a trade with the order that is served first, whatever the heap has been *)
(* through; an order rests only where it crosses nothing; paper orders     *)
(* trade only with what the book has left; and no handler moves an order.  *)
(***************************************************************************)
Resting ==
  {[side |-> s, price |-> p, arrival |-> n, qty |-> node[n].qty, id |-> node[n].id] :
     s \in Sides, p \in Prices, n \in DOMAIN node}

RestingOrders ==
  {o \in Resting : o.price \in DOMAIN book[o.side] /\
                   o.arrival \in ToSet(book[o.side][o.price])}

IncomingOrders ==
  IF Handling /\ call.event.type = "ADD" /\ call.event.source = "HISTORICAL"
    THEN {[side |-> call.event.side, limit |-> call.event.price,
           qty |-> call.remaining]}
    ELSE {}

Abstract == INSTANCE OrderBook WITH
  Bids <- "BUY",
  orders <- RestingOrders,
  incoming <- IncomingOrders,
  loading <- Running({"l2", "l3"})

ImplementsOrderBook == Abstract!Spec

(***************************************************************************)
(* paper_orders, paper_order_info, the queues of the levels and the pool   *)
(* name the same paper orders; no id names a paper and a historical order; *)
(* a paper order that exists has lots left, and a level that exists has    *)
(* orders.  (The branches for a missing entry of one map are dead.)  While *)
(* a paper order comes to rest, only the pool and a new level know it.     *)
(***************************************************************************)
PaperIndexed ==
  /\ DOMAIN paper_orders = DOMAIN paper_order_info
  /\ DOMAIN paper_orders \cap DOMAIN order_info = {}
  /\ paper_pool = DOMAIN paper_orders \cup
                    (IF Running({"mirror"}) THEN {call.event.id} ELSE {})
  /\ Cardinality(paper_pool) <= PaperCapacity
  /\ \A id \in DOMAIN paper_orders :
       /\ paper_orders[id].remaining > 0
       /\ HasPaperLevel(paper_order_info[id].side, paper_order_info[id].price)
  /\ \A side \in Sides : \A p \in DOMAIN paper[side] :
       LET queue == paper[side][p].orders
       IN  /\ ToSet(queue) = {id \in DOMAIN paper_orders :
                paper_order_info[id] = [side |-> side, price |-> p]}
           /\ IsInjective(queue)
           /\ queue # <<>> \/ (/\ Running({"mirror"})
                               /\ side = call.event.side
                               /\ p = call.event.price)

(***************************************************************************)
(* queued_lots is the sum of the tree paper_qty, and the tree holds the    *)
(* remaining lots of each order of the queue at its index; the queue is in *)
(* the order of these indices and of arrival.  Elsewhere the tree holds no *)
(* negative quantity.  (It should hold none, but FillPaperOrder leaves the *)
(* lots of an order behind that a crossing order fills completely.)        *)
(***************************************************************************)
QueuedLots ==
  \A side \in Sides : \A p \in DOMAIN paper[side] :
    LET level == paper[side][p]
        queue == [k \in DOMAIN level.orders |-> paper_orders[level.orders[k]]]
    IN  /\ level.queued_lots = Total(level.paper_qty)
        /\ \A k \in DOMAIN queue :
             /\ queue[k].paper_index < Len(level.paper_qty)
             /\ ValueAt(level.paper_qty, queue[k].paper_index) = queue[k].remaining
        /\ \A index \in 0 .. Len(level.paper_qty) - 1 :
             (\A k \in DOMAIN queue : queue[k].paper_index # index) =>
               ValueAt(level.paper_qty, index) >= 0
        /\ \A j, k \in DOMAIN queue : j < k =>
             /\ queue[j].paper_index < queue[k].paper_index
             /\ queue[j].placement_seq < queue[k].placement_seq
-----------------------------------------------------------------------------
Quantity(n) == IF n \in DOMAIN node THEN node[n].qty ELSE 0

\* Traded lots that a paper level has not been told of yet: a crossing order
\* has taken them from the nodes, a MATCH will.
Untold(n) ==
  MapThenSumSet(LAMBDA k : call.deltas[k].qty,
                {k \in DOMAIN call.deltas : call.deltas[k].seq = n})
  - (IF call.event.type = "MATCH" /\ n = NodeOf(call.event.id)
       THEN Taken(call.event) ELSE 0)

(***************************************************************************)
(* The tree market_qty of a paper level holds the quantity of every node   *)
(* the level knows, 0 for those that are gone, up to the trade that is     *)
(* being settled: no fill, cancel or resize of a historical order escapes  *)
(* the queue positions of the paper orders at its price.                   *)
(***************************************************************************)
MarketMirrored ==
  \A side \in Sides : \A p \in DOMAIN paper[side] :
    LET level == paper[side][p]
    IN  /\ Len(level.market_qty) = Len(level.market_seqs)
        /\ \A k \in DOMAIN level.market_seqs :
             ValueAt(level.market_qty, k - 1) =
               Quantity(level.market_seqs[k]) +
                 (IF Handling /\ side = call.side /\ p = call.price
                    THEN Untold(level.market_seqs[k]) ELSE 0)

\* The fills of this call by makers of a source at a price.
FillsAt(source, p) ==
  {k \in DOMAIN call.fills :
     call.fills[k].source = source /\ call.fills[k].price = p}

Lots(ks) == MapThenSumSet(LAMBDA k : call.fills[k].qty, ks)

FilledOf(source, p, seq) ==
  Lots({k \in FillsAt(source, p) : call.fills[k].seq = seq})

\* The lots that have traded at the level where paper orders are served.
TradedLots ==
  IF call.event.type = "MATCH" THEN Taken(call.event)
                               ELSE Lots(FillsAt("HISTORICAL", call.price))

\* Its nodes, with the quantities they had before the trade.
TradingNodes ==
  ToSet(book[call.side][call.price]) \cup
    {call.fills[k].seq : k \in FillsAt("HISTORICAL", call.price)}

MarketLots ==
  [n \in TradingNodes |-> Quantity(n) + FilledOf("HISTORICAL", call.price, n)]

MarketBefore(n) == SumFunctionOnSet(MarketLots, {m \in TradingNodes : m < n})

\* Its paper orders, by their placement_seq, with theirs.
RestingIds ==
  {id \in DOMAIN paper_orders :
     paper_order_info[id] = [side |-> call.side, price |-> call.price]}

FilledSeqs == {call.fills[k].seq : k \in FillsAt("STRATEGY", call.price)}

TradingPapers == {paper_orders[id].placement_seq : id \in RestingIds} \cup FilledSeqs

PaperLots ==
  [n \in TradingPapers |->
     FilledOf("STRATEGY", call.price, n) +
       SumFunctionOnSet([id \in RestingIds |-> paper_orders[id].remaining],
                        {id \in RestingIds : paper_orders[id].placement_seq = n})]

LotsAhead(n) ==
  MarketBefore(n) + SumFunctionOnSet(PaperLots, {m \in TradingPapers : m < n})

\* The lots that reach a paper order if the nodes and paper orders that
\* arrived before it are served first, with what they had before the trade.
LotsDue(n) ==
  IF TradedLots <= LotsAhead(n) THEN 0
  ELSE Lesser(TradedLots - LotsAhead(n), PaperLots[n])

\* The tree of a level holds the lots of the orders in its queue, no others.
NoStaleLots(side, p) ==
  LET level == paper[side][p]
  IN  \A index \in 0 .. Len(level.paper_qty) - 1 :
        (\A id \in ToSet(level.orders) : paper_orders[id].paper_index # index) =>
          ValueAt(level.paper_qty, index) = 0

(***************************************************************************)
(* When lots have traded at a level, no paper order there has been filled  *)
(* by more lots than reach it, and none before those ahead of it are       *)
(* filled completely.  Unless lots of orders that are gone stand in the    *)
(* tree of the level, each has got exactly the lots that reach it -        *)
(* however the trees, the running total of consumed lots and the removal   *)
(* of filled orders on the way arrive at that number.                      *)
(***************************************************************************)
ServedInTurn ==
  call.pc = "queue" /\ ~Reached =>
    \A n \in TradingPapers :
      LET filled == FilledOf("STRATEGY", call.price, n)
      IN  /\ filled <= LotsDue(n)
          /\ filled > 0 => \A m \in TradingPapers : m < n =>
               FilledOf("STRATEGY", call.price, m) = PaperLots[m]
          /\ (HasPaperLevel(call.side, call.price)
                => NoStaleLots(call.side, call.price)) => filled = LotsDue(n)

(***************************************************************************)
(* Lots of orders that are gone come to stand in the tree of a level only  *)
(* while a crossing order trades with its paper orders: an order that is   *)
(* filled from the queue, cut down or deleted takes its lots with it, and  *)
(* a level that is made again knows nothing of the one before.             *)
(***************************************************************************)
LotsLeaveWithOrder ==
  [][\A side \in Sides : \A p \in Prices :
       /\ call.pc # "paper"
       /\ HasPaperLevel(side, p) => NoStaleLots(side, p)
       => (HasPaperLevel(side, p) => NoStaleLots(side, p))']_vars

(***************************************************************************)
(* cpp/tests/test_paper_trading_simulator.cpp says "Paper orders respect   *)
(* interleaved market orders in queue priority": when lots have traded at  *)
(* a level, each paper order there has been filled by exactly the lots     *)
(* that reach it.  Violated: where a crossing order has filled a paper     *)
(* order completely, the lots of that order still count as being ahead of  *)
(* the orders behind it (FillPaperOrder), and they get fewer lots, or none.*)
(***************************************************************************)
QueuePriority ==
  call.pc = "queue" /\ ~Reached =>
    \A n \in TradingPapers :
      FilledOf("STRATEGY", call.price, n) = LotsDue(n)

(***************************************************************************)
(* Price-time priority, and no liquidity taken twice.  An order that takes *)
(* from the historical book meets its makers from the best price on and,   *)
(* at a price, in the order of their arrival; although a strategy leaves   *)
(* them in the book, and the heap may name a price several times, it is    *)
(* filled by no maker twice.                                               *)
(***************************************************************************)
PriceTimePriority ==
  Handling =>
    \A j, k \in DOMAIN call.fills :
      LET a == call.fills[j]
          b == call.fills[k]
      IN  j < k /\ a.source = "HISTORICAL" /\ b.source = "HISTORICAL" =>
            \/ Better(call.side, a.price, b.price)
            \/ a.price = b.price /\ a.seq < b.seq

(***************************************************************************)
(* An order that has something left after its sweep has left nothing in    *)
(* the historical book that it could trade with: a historical order has    *)
(* emptied each level it crosses, a strategy has filled against the whole  *)
(* quantity of each node.                                                  *)
(***************************************************************************)
SweepComplete ==
  Running({"paper", "rest", "mirror"}) /\ call.remaining > 0 =>
    \A p \in Prices : Live(call.side, p) /\ Crosses(call.event, p) =>
      /\ call.event.source = "STRATEGY"
      /\ \A n \in ToSet(book[call.side][p]) :
           FilledOf("HISTORICAL", p, n) = node[n].qty

(***************************************************************************)
(* No lot appears or vanishes: what a strategy's order has been filled, by *)
(* book and paper, and what remains of it add up to its quantity; so they  *)
(* do for a historical order while it sweeps the book.                     *)
(***************************************************************************)
LotsConserved ==
  Handling /\ call.event.type # "MATCH" =>
    LET book_lots == {k \in DOMAIN call.fills :
                        call.fills[k].source = "HISTORICAL"}
    IN  /\ call.event.source = "STRATEGY" =>
             Lots(DOMAIN call.fills) + call.remaining = call.event.qty
        /\ Running({"sweep", "queue", "settle"}) =>
             Lots(book_lots) + call.remaining = call.event.qty

(***************************************************************************)
(* Every call returns: no loop of a handler runs for ever, although the    *)
(* loops over levels are left only when lots or heap entries run out.      *)
(***************************************************************************)
EveryCallReturns == call # Idle ~> call = Idle

(***************************************************************************)
(* cpp/tests/test_paper_trading_simulator.cpp says of a resting bid:       *)
(* "Later historical SELL arrives below the resting bid -> should trade    *)
(* against the paper order".  Violated: on_add first sweeps the whole      *)
(* historical book down to the limit, so the order trades with the book at *)
(* prices that are worse for it than those of paper orders it passes by.   *)
(***************************************************************************)
NoTradeThrough ==
  Running({"sweep"}) /\ call.event.source = "HISTORICAL" /\ call.fills # <<>> =>
    \A p \in BestPaperPrice(call.side) :
      ~Better(call.side, p, Last(call.fills).price)
=============================================================================
