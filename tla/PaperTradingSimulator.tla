----------------------- MODULE PaperTradingSimulator -----------------------
(***************************************************************************)
(* The matching engine of cpp/src/paper_trading_simulator.cpp: a           *)
(* historical limit order book rebuilt from a feed, and the paper orders   *)
(* of a strategy, which trade against that book without changing it.       *)
(*                                                                         *)
(* update() runs to its end before the next event, but it is not atomic    *)
(* for what surrounds it: the sink is called back after every fill and     *)
(* reads the engine through its const queries.  A handler that trades is   *)
(* therefore a sequence of steps, one per iteration of its loops, with its *)
(* local variables in the record `call'; a handler that does not trade is  *)
(* one step.                                                               *)
(*                                                                         *)
(* What is abstracted: a node of an intrusive list is named by its         *)
(* arrival_seq (a paper node by its order id), so `node' is the set of     *)
(* nodes in use together with their contents; a Fenwick tree is its prefix *)
(* sums (PrefixSums); a heap is a bag of prices; market_index_by_seq is    *)
(* the position in market_seqs; traders, symbols, timestamps, the update   *)
(* counter and the diagnostics are left out.                               *)
(***************************************************************************)
EXTENDS SequencesExt, PrefixSums

CONSTANTS
  Prices,              \* the price ticks
  Ids,                 \* the order ids
  Events,              \* the events a feed or a strategy may submit
  L2Snapshots,         \* the arguments of init_from_l2_snapshot
  L3Snapshots,         \* the arguments of init_from_l3_snapshot
  UnknownOrderId,      \* UnknownOrderIdSentinel
  HistoricalCapacity,  \* OrderPoolConfig
  PaperCapacity,
  MaxArrivals          \* bound on order_arrival_seq

Sides       == {"BUY", "SELL"}
Sources     == {"HISTORICAL", "STRATEGY"}
UpdateTypes == {"ADD", "DELETE", "SUBTRACT", "MATCH", "SET",
                "AGGRESSIVE_TRADE", "INVALID"}

Event == [type : UpdateTypes, source : Sources, side : Sides,
          price : Prices, qty : Int, id : Ids]

\* A row of a snapshot.  The id of a row of an L2 snapshot is not read.  That
\* its quantity is not negative is an assumption about the caller: the code
\* stores what it is given.
Row == [side : Sides, price : Prices, qty : Nat, id : Ids]

ASSUME PricesAssumption == Prices \subseteq Int /\ IsFiniteSet(Prices)
ASSUME IdsAssumption == UnknownOrderId \notin Ids
ASSUME EventsAssumption == Events \subseteq Event
ASSUME SnapshotsAssumption ==
  /\ L2Snapshots \subseteq Seq(Row)
  /\ L3Snapshots \subseteq Seq(Row)
ASSUME CapacityAssumption ==
  /\ HistoricalCapacity \in Nat
  /\ PaperCapacity \in Nat
  /\ MaxArrivals \in Nat

VARIABLES
  book,                \* bids and asks: side -> price -> queue of nodes
  node,                \* the order nodes in use: arrival_seq -> contents
  heap,                \* bids_heap and asks_heap: side -> bag of prices
  order_info,          \* historical order id -> side, price, node
  order_arrival_seq,   \* the next arrival_seq
  paper,               \* paper_bids and paper_asks: side -> price -> level
  paper_orders,        \* paper order id -> its state
  paper_order_info,    \* paper order id -> side, price
  paper_pool,          \* the ids whose paper node is in use
  call                 \* the handler that runs, and its local variables

bookVars  == <<book, node, heap, order_info>>
paperVars == <<paper, paper_orders, paper_order_info, paper_pool>>
vars      == <<bookVars, order_arrival_seq, paperVars, call>>
-----------------------------------------------------------------------------
IsPartial(f, D, R) == DOMAIN f \subseteq D /\ f \in [DOMAIN f -> R]

Node == [id : Ids \cup {UnknownOrderId}, qty : Nat]

OrderInfo == [side : Sides, price : Prices, node : Nat]

PaperOrderStatus == {"OPEN", "PARTIALLY_FILLED"}

PaperOrder == [remaining : Nat, status : PaperOrderStatus,
               placement_seq : Nat, paper_index : Nat]

PaperOrderInfo == [side : Sides, price : Prices]

PaperOrderLevel == [orders      : Seq(Ids),
                    queued_lots : Int,
                    market_seqs : Seq(Nat),
                    market_qty  : Seq(Int),
                    paper_qty   : Seq(Int)]

\* The part of a FillRecord that describes the maker.  seq is the maker's
\* arrival_seq, or its placement_seq if the maker is a paper order.
Fill == [source : Sources, side : Sides, price : Prices, qty : Nat,
         maker : Ids \cup {UnknownOrderId}, seq : Nat]

Bag == [Prices -> Nat]

Idle == [pc |-> "idle"]

Load == [pc : {"l2", "l3"}, rows : Seq(Row)]

Handler == [pc        : {"sweep", "queue", "settle", "paper", "rest",
                         "mirror", "reduce"},
            event     : Event,
            remaining : Nat,
            heap_copy : Bag,
            it        : Nat \ {0},
            side      : Sides,
            price     : Prices,
            lots      : Nat,
            consumed  : Nat,
            deltas    : Seq([seq : Nat, qty : Nat]),
            fills     : Seq(Fill)]
-----------------------------------------------------------------------------
(***************************************************************************)
(* Maps, lists and prices.                                                 *)
(***************************************************************************)

Empty == [x \in {} |-> x]

\* Mutated form of Erased: the entry stays.
Kept(f, x) == f

Erased(f, x) == Restrict(f, DOMAIN f \ {x})

Put(f, x, v) == [y \in DOMAIN f \cup {x} |-> IF y = x THEN v ELSE f[y]]

PositionOf(q, x) == CHOOSE i \in DOMAIN q : q[i] = x

\* erase(iterator_to(node)) of an intrusive list
Unlinked(q, x) == RemoveAt(q, PositionOf(q, x))

\* Mutated form of PushedBack: a stack.
PushedFront(q, x) == <<x>> \o q

\* push_back of an intrusive list
PushedBack(q, x) == Append(q, x)

\* Mutated form of Lesser: std::max for std::min.
Greater(a, b) == IF a <= b THEN b ELSE a

Lesser(a, b) == IF a <= b THEN a ELSE b

Opposite(side) == IF side = "BUY" THEN "SELL" ELSE "BUY"

\* p is served before q among the orders of a side.
Better(side, p, q) == IF side = "BUY" THEN p > q ELSE p < q

\* Mutated form of Crosses: a limit order does not trade at its limit.
CrossesBeyondLimit(e, p) ==
  \/ e.type = "AGGRESSIVE_TRADE"
  \/ Better(Opposite(e.side), p, e.price)

\* An order of event e trades with a maker resting at price p.  An
\* AGGRESSIVE_TRADE has no limit.
Crosses(e, p) ==
  \/ e.type = "AGGRESSIVE_TRADE"
  \/ ~Better(Opposite(e.side), e.price, p)

-----------------------------------------------------------------------------
(***************************************************************************)
(* The heaps.  Entries of levels that are gone stay in a heap until they   *)
(* come to its top, and a level that comes back is pushed again.           *)
(***************************************************************************)

\* Mutated form of Live: an empty level counts.
LiveIfPresent(side, p) == p \in DOMAIN book[side]

Live(side, p) == p \in DOMAIN book[side] /\ book[side][p] # <<>>

\* best_opposite_price, get_best_price_ticks: the first entry from the top
\* whose level has orders; at most one price.
BestPrice(h, side) ==
  {p \in Prices :
     /\ h[p] > 0
     /\ Live(side, p)
     /\ \A q \in Prices : h[q] > 0 /\ Live(side, q) => ~Better(side, q, p)}

\* The heap they leave: every entry above that one has been popped.
Pruned(h, side) ==
  [p \in Prices |->
     IF \E q \in Prices : h[q] > 0 /\ Live(side, q) /\ ~Better(side, p, q)
       THEN h[p] ELSE 0]

\* Mutated form of Pushed: a level that comes back is not pushed.
NotPushed(h, p) == h

Pushed(h, p) == [h EXCEPT ![p] = @ + 1]

\* Mutated forms of AllPopped: duplicates of the price stay; the price stays.
OnePopped(h, p) == [h EXCEPT ![p] = @ - 1]
NonePopped(h, p) == h

\* Every entry of a price is popped.
AllPopped(h, p) == [h EXCEPT ![p] = 0]

NoEntries == [p \in Prices |-> 0]
-----------------------------------------------------------------------------
(***************************************************************************)
(* The paper levels.                                                       *)
(***************************************************************************)

HasPaperLevel(side, p) == p \in DOMAIN paper[side]

NewPaperLevel == [orders |-> <<>>, queued_lots |-> 0, market_seqs |-> <<>>,
                  market_qty |-> <<>>, paper_qty |-> <<>>]

\* A node becomes known to the level, behind those it knows.
WithMarket(level, seq, qty) ==
  [level EXCEPT !.market_seqs = Append(@, seq),
                !.market_qty = Push(@, qty)]

\* market_qty.add(market_index_by_seq[seq], delta), if seq is known
MarketAdjusted(level, seq, delta) ==
  IF \E k \in DOMAIN level.market_seqs : level.market_seqs[k] = seq
    THEN [level EXCEPT !.market_qty =
            AddAt(@, PositionOf(level.market_seqs, seq) - 1, delta)]
    ELSE level

\* Mutated form of PaperMarketAdjusted: the level is not told.
PaperMarketKept(side, p, seq, delta) == paper

\* paper with that adjustment, if there is a level at the price
PaperMarketAdjusted(side, p, seq, delta) ==
  IF HasPaperLevel(side, p)
    THEN [paper EXCEPT ![side][p] = MarketAdjusted(@, seq, delta)]
    ELSE paper

\* The quantity of the nodes that arrived before a paper order: the prefix
\* that lower_bound finds in market_seqs.
MarketAhead(level, placement_seq) ==
  PrefixSum(level.market_qty,
            Cardinality({k \in DOMAIN level.market_seqs :
                           \A j \in 1 .. k : level.market_seqs[j] < placement_seq}))

\* The best price of a side with lots in a paper queue; at most one.
BestPaperPrice(side) ==
  {p \in DOMAIN paper[side] :
     /\ paper[side][p].queued_lots > 0
     /\ \A q \in DOMAIN paper[side] :
          paper[side][q].queued_lots > 0 => ~Better(side, q, p)}

(***************************************************************************)
(* qty lots leave a paper order, or join it if qty is negative; the sums   *)
(* of its level lose the lots that are told of.  With its last lot the     *)
(* order is removed, and its level if the queue is then empty.             *)
(***************************************************************************)
LeavePaperOrder(id, qty, told, status) ==
  LET side  == paper_order_info[id].side
      p     == paper_order_info[id].price
      gone  == qty = paper_orders[id].remaining
      level == [paper[side][p] EXCEPT
                  !.orders = IF gone THEN Unlinked(@, id) ELSE @,
                  !.queued_lots = @ - told,
                  !.paper_qty = AddAt(@, paper_orders[id].paper_index, -told)]
  IN  /\ paper' = [paper EXCEPT ![side] =
                     IF level.orders = <<>> THEN Erased(@, p)
                                            ELSE [@ EXCEPT ![p] = level]]
      /\ IF gone
           THEN /\ paper_orders' = Erased(paper_orders, id)
                /\ paper_order_info' = Erased(paper_order_info, id)
                /\ paper_pool' = paper_pool \ {id}
           ELSE /\ paper_orders' = [paper_orders EXCEPT
                                      ![id].remaining = @ - qty,
                                      ![id].status = status]
                /\ UNCHANGED <<paper_order_info, paper_pool>>

\* Mutated form of TakeFromPaperOrder: the order is reduced first, as in
\* FillPaperOrder.
TakeFromReducedOrder(id, qty, status) ==
  LeavePaperOrder(id, qty, IF qty = paper_orders[id].remaining THEN 0 ELSE qty, status)

TakeFromPaperOrder(id, qty, status) == LeavePaperOrder(id, qty, qty, status)

(***************************************************************************)
(* A crossing order fills a paper order.  trade_against_paper_level takes  *)
(* the fill off the order first; when that was all the order had,          *)
(* remove_paper_order finds no lots to take off the level (the lesser of   *)
(* the fill and what remains, 0).  So the lots of an order that is filled  *)
(* completely stay in the sums of the level as long as the level exists.   *)
(***************************************************************************)
FillPaperOrder(id, fill) ==
  LET remaining == paper_orders[id].remaining - fill
      told      == IF remaining = 0 THEN Lesser(fill, remaining) ELSE fill
  IN  LeavePaperOrder(id, fill, told, "PARTIALLY_FILLED")
-----------------------------------------------------------------------------
(***************************************************************************)
(* Events that the handlers drop after a diagnostic, or silently: the      *)
(* early returns.                                                          *)
(***************************************************************************)

\* Mutated form of AddRejected: the ids of paper orders are not looked up.
AddRejectedByBook(e) == e.qty < 0 \/ e.id \in DOMAIN order_info

AddRejected(e) ==
  \/ e.qty < 0
  \/ e.id \in DOMAIN order_info \cup DOMAIN paper_orders
                                \cup DOMAIN paper_order_info

AggressiveTradeRejected(e) == e.source # "STRATEGY" \/ e.qty <= 0

\* A strategy names a paper order, the feed a historical one.
Unknown(e) ==
  IF e.source = "STRATEGY" THEN e.id \notin DOMAIN paper_order_info
                           ELSE e.id \notin DOMAIN order_info

SubtractRejected(e) == e.qty <= 0 \/ Unknown(e)

\* on_match does not look at the source.
MatchRejected(e) == e.qty <= 0 \/ e.id \notin DOMAIN order_info

Rejected(e) ==
  \/ e.type = "ADD" /\ AddRejected(e)
  \/ e.type = "AGGRESSIVE_TRADE" /\ AggressiveTradeRejected(e)
  \/ e.type \in {"DELETE", "SET"} /\ Unknown(e)
  \/ e.type = "SUBTRACT" /\ SubtractRejected(e)
  \/ e.type = "MATCH" /\ MatchRejected(e)
  \/ e.type = "INVALID"

Reject(e) == call = Idle /\ Rejected(e) /\ UNCHANGED vars

Accepts(type, e) == call = Idle /\ e.type = type /\ ~Rejected(e)
-----------------------------------------------------------------------------
(***************************************************************************)
(* on_add and on_aggressive_trade: the sweep of the historical book.       *)
(***************************************************************************)

NewCall(pc, e, side, p) ==
  [pc |-> pc, event |-> e, remaining |-> e.qty, heap_copy |-> NoEntries,
   it |-> 1, side |-> side, price |-> p, lots |-> 0, consumed |-> 0,
   deltas |-> <<>>, fills |-> <<>>]

\* A historical order pops the stale entries of the heap itself, a paper
\* order those of a copy.
OnAdd(e) ==
  LET side == Opposite(e.side)
  IN  /\ Accepts("ADD", e)
      /\ order_arrival_seq < MaxArrivals
      /\ \/ /\ e.source = "STRATEGY"
            /\ call' = [NewCall("sweep", e, side, e.price) EXCEPT
                          !.heap_copy = heap[side]]
            /\ UNCHANGED heap
         \/ /\ e.source = "HISTORICAL"
            /\ call' = NewCall("sweep", e, side, e.price)
            /\ heap' = [heap EXCEPT ![side] = Pruned(@, side)]
      /\ UNCHANGED <<book, node, order_info, order_arrival_seq, paperVars>>

OnAggressiveTrade(e) ==
  LET side == Opposite(e.side)
  IN  /\ Accepts("AGGRESSIVE_TRADE", e)
      /\ call' = [NewCall("sweep", e, side, e.price) EXCEPT
                    !.heap_copy = heap[side]]
      /\ UNCHANGED <<bookVars, order_arrival_seq, paperVars>>

\* Mutated form of BookFill: the maker's quantity is reported.
BookFillOfMaker(n, p, qty) ==
  [source |-> "HISTORICAL", side |-> call.side, price |-> p,
   qty |-> node[n].qty, maker |-> node[n].id, seq |-> n]

BookFill(n, p, qty) ==
  [source |-> "HISTORICAL", side |-> call.side, price |-> p, qty |-> qty,
   maker |-> node[n].id, seq |-> n]

PaperFill(id, p, qty) ==
  [source |-> "STRATEGY", side |-> call.side, price |-> p, qty |-> qty,
   maker |-> id, seq |-> paper_orders[id].placement_seq]

\* The prices the aggressor can trade at next; at most one.
NextPrice ==
  {p \in BestPrice(IF call.event.source = "STRATEGY" THEN call.heap_copy
                                                      ELSE heap[call.side],
                   call.side) :
     Crosses(call.event, p)}

(***************************************************************************)
(* A strategy takes from the next node of the best level without changing  *)
(* it.  It leaves the level when it has looked at every node or has        *)
(* nothing left to take, and then pops every entry of the level's price    *)
(* from its copy of the heap.                                              *)
(***************************************************************************)
StrategySweep ==
  /\ call.pc = "sweep"
  /\ call.event.source = "STRATEGY"
  /\ call.remaining > 0
  /\ \E p \in NextPrice :
       LET queue == book[call.side][p]
           n     == queue[call.it]
           take  == Lesser(node[n].qty, call.remaining)
           left  == take = call.remaining \/ call.it = Len(queue)
           stack == Pruned(call.heap_copy, call.side)
       IN  call' = [call EXCEPT
                      !.price = p,
                      !.remaining = @ - take,
                      !.it = IF left THEN 1 ELSE @ + 1,
                      !.heap_copy = IF left THEN AllPopped(stack, p) ELSE stack,
                      !.fills = IF take > 0
                                THEN Append(@, BookFill(n, p, take)) ELSE @]
  /\ UNCHANGED <<bookVars, order_arrival_seq, paperVars>>

\* The queue of a level loses a node: unlinked, released, its id forgotten.
RemoveNode(side, p, n) ==
  /\ book' = [book EXCEPT ![side][p] = Unlinked(@, n)]
  /\ node' = Erased(node, n)
  /\ order_info' = Erased(order_info, node[n].id)

(***************************************************************************)
(* A historical order takes from the first node of the best level.  It     *)
(* leaves the level when the queue is empty or nothing is left to take,    *)
(* and then lets the paper orders of the level take part in the trade      *)
(* before it erases an empty level.  A level of nodes without quantity     *)
(* only is erased at once.                                                 *)
(***************************************************************************)
HistoricalSweep ==
  /\ call.pc = "sweep"
  /\ call.event.source = "HISTORICAL"
  /\ call.remaining > 0
  /\ \E p \in NextPrice :
       LET queue == book[call.side][p]
           n     == Head(queue)
           take  == Lesser(node[n].qty, call.remaining)
           gone  == take = node[n].qty
           left  == take = call.remaining \/ (gone /\ Len(queue) = 1)
           lots  == call.lots + take
       IN  /\ call' = [call EXCEPT
                !.pc = IF left /\ lots > 0 THEN "queue" ELSE "sweep",
                !.price = p,
                !.remaining = @ - take,
                !.lots = lots,
                !.deltas = IF take > 0 THEN Append(@, [seq |-> n, qty |-> take])
                                       ELSE @,
                !.fills = IF take > 0 THEN Append(@, BookFill(n, p, take))
                                      ELSE @]
           /\ IF ~gone
                THEN /\ node' = [node EXCEPT ![n].qty = @ - take]
                     /\ UNCHANGED <<book, order_info>>
                ELSE IF left /\ lots = 0
                THEN /\ book' = [book EXCEPT ![call.side] = Erased(@, p)]
                     /\ node' = Erased(node, n)
                     /\ order_info' = Erased(order_info, node[n].id)
                ELSE RemoveNode(call.side, p, n)
  /\ heap' = [heap EXCEPT ![call.side] = Pruned(@, call.side)]
  /\ UNCHANGED <<order_arrival_seq, paperVars>>

\* Nothing is left to take, or no level is left to take it from.
EndSweep ==
  /\ call.pc = "sweep"
  /\ call.remaining = 0 \/ NextPrice = {}
  /\ call' = [call EXCEPT
       !.pc = IF call.event.type = "ADD" /\ call.event.source = "STRATEGY"
                THEN "rest" ELSE "paper"]
  /\ heap' = IF call.event.source = "HISTORICAL" /\ call.remaining > 0
               THEN [heap EXCEPT ![call.side] = Pruned(@, call.side)]
               ELSE heap
  /\ UNCHANGED <<book, node, order_info, order_arrival_seq, paperVars>>
-----------------------------------------------------------------------------
(***************************************************************************)
(* apply_paper_trade_at_level: lots traded at a level of the historical    *)
(* book reach the paper orders of the level in their queue positions.  An  *)
(* order is reached when the lots exceed the quantity ahead of it, of      *)
(* nodes that no earlier order of the queue has already passed (consumed)  *)
(* and of paper orders.  The iterator of the code always points to the     *)
(* first order: it moves on from an order that stays only when no lot is   *)
(* left.                                                                   *)
(***************************************************************************)

QueueLevel == paper[call.side][call.price]

FirstOrder == paper_orders[Head(QueueLevel.orders)]

\* Mutated form of AheadMarket: nodes that an earlier paper order has passed
\* are passed again.
AheadMarketAgain == MarketAhead(QueueLevel, FirstOrder.placement_seq)

AheadMarket ==
  LET market == MarketAhead(QueueLevel, FirstOrder.placement_seq)
  IN  IF market > call.consumed THEN market - call.consumed ELSE 0

AheadPaper == PrefixSum(QueueLevel.paper_qty, FirstOrder.paper_index)

Reached ==
  /\ HasPaperLevel(call.side, call.price)
  /\ call.lots > 0
  /\ AheadMarket + AheadPaper < call.lots

QueueFill ==
  /\ call.pc = "queue"
  /\ Reached
  /\ LET id   == Head(QueueLevel.orders)
         lots == call.lots - (AheadMarket + AheadPaper)
         fill == Lesser(FirstOrder.remaining, lots)
     IN  /\ TakeFromPaperOrder(id, fill, "PARTIALLY_FILLED")
         /\ call' = [call EXCEPT
              !.lots = lots - fill,
              !.consumed = @ + AheadMarket,
              !.fills = Append(@, PaperFill(id, call.price, fill))]
  /\ UNCHANGED <<bookVars, order_arrival_seq>>

EndQueue ==
  /\ call.pc = "queue"
  /\ ~Reached
  /\ call' = [call EXCEPT !.pc = "settle"]
  /\ UNCHANGED <<bookVars, order_arrival_seq, paperVars>>

\* Afterwards the level learns what its nodes have lost.
Settle ==
  /\ call.pc = "settle"
  /\ call.deltas # <<>>
  /\ paper' = PaperMarketAdjusted(call.side, call.price, Head(call.deltas).seq,
                                  -Head(call.deltas).qty)
  /\ call' = [call EXCEPT !.deltas = Tail(@)]
  /\ UNCHANGED <<bookVars, order_arrival_seq, paper_orders, paper_order_info,
                 paper_pool>>

\* on_add goes on with the next level.
EndLevel ==
  /\ call.pc = "settle"
  /\ call.deltas = <<>>
  /\ call.event.type = "ADD"
  /\ book' = IF book[call.side][call.price] = <<>>
               THEN [book EXCEPT ![call.side] = Erased(@, call.price)]
               ELSE book
  /\ call' = [call EXCEPT !.pc = "sweep", !.lots = 0, !.consumed = 0]
  /\ UNCHANGED <<node, heap, order_info, order_arrival_seq, paperVars>>
-----------------------------------------------------------------------------
(***************************************************************************)
(* What is left of a historical order, or of an aggressive trade, trades   *)
(* with the paper orders it crosses: trade_against_paper_level, for the    *)
(* best level and then the next.                                           *)
(***************************************************************************)

TradeAgainstPaper ==
  /\ call.pc = "paper"
  /\ call.remaining > 0
  /\ \E p \in BestPaperPrice(call.side) :
       LET id   == Head(paper[call.side][p].orders)
           fill == Lesser(paper_orders[id].remaining, call.remaining)
       IN  /\ Crosses(call.event, p)
           /\ FillPaperOrder(id, fill)
           /\ call' = [call EXCEPT
                !.price = p,
                !.remaining = @ - fill,
                !.fills = Append(@, PaperFill(id, p, fill))]
  /\ UNCHANGED <<bookVars, order_arrival_seq>>

EndPaper ==
  /\ call.pc = "paper"
  /\ \/ call.remaining = 0
     \/ \A p \in BestPaperPrice(call.side) : ~Crosses(call.event, p)
  /\ call' = IF call.event.type = "ADD" THEN [call EXCEPT !.pc = "rest"]
                                        ELSE Idle
  /\ UNCHANGED <<bookVars, order_arrival_seq, paperVars>>
-----------------------------------------------------------------------------
(***************************************************************************)
(* The rest of an ADD comes to rest at the end of its level's queue.       *)
(***************************************************************************)

\* Mutated form of PoolExhausted: the pool grows.
PoolUnbounded == FALSE

PoolExhausted == Cardinality(DOMAIN node) >= HistoricalCapacity

EndAdd ==
  /\ call.pc = "rest"
  /\ \/ call.remaining = 0
     \/ /\ call.event.source = "HISTORICAL"
        /\ PoolExhausted
     \/ /\ call.event.source = "STRATEGY"
        /\ Cardinality(paper_pool) >= PaperCapacity
  /\ call' = Idle
  /\ UNCHANGED <<bookVars, order_arrival_seq, paperVars>>

\* A node enters the book at the end of a level, which may be new.
AppendNode(side, p, id, qty) ==
  LET queue == IF p \in DOMAIN book[side] THEN book[side][p] ELSE <<>>
      n     == order_arrival_seq
  IN  /\ node' = Put(node, n, [id |-> id, qty |-> qty])
      /\ book' = [book EXCEPT ![side] = Put(@, p, PushedBack(queue, n))]
      /\ heap' = IF queue = <<>> THEN [heap EXCEPT ![side] = Pushed(@, p)]
                                 ELSE heap
      /\ order_arrival_seq' = n + 1

RestHistorical ==
  LET e == call.event
  IN  /\ call.pc = "rest"
      /\ e.source = "HISTORICAL"
      /\ call.remaining > 0
      /\ ~PoolExhausted
      /\ AppendNode(e.side, e.price, e.id, call.remaining)
      /\ order_info' = Put(order_info, e.id,
                           [side |-> e.side, price |-> e.price,
                            node |-> order_arrival_seq])
      /\ paper' = IF HasPaperLevel(e.side, e.price)
                    THEN [paper EXCEPT ![e.side][e.price] =
                            WithMarket(@, order_arrival_seq, call.remaining)]
                    ELSE paper
      /\ call' = Idle
      /\ UNCHANGED <<paper_orders, paper_order_info, paper_pool>>

\* A paper order acquires a node and, the first at its price, a level.
AcquirePaperNode ==
  LET e == call.event
  IN  /\ call.pc = "rest"
      /\ e.source = "STRATEGY"
      /\ call.remaining > 0
      /\ Cardinality(paper_pool) < PaperCapacity
      /\ paper_pool' = paper_pool \cup {e.id}
      /\ paper' = IF HasPaperLevel(e.side, e.price)
                    THEN paper
                    ELSE [paper EXCEPT ![e.side] =
                            Put(@, e.price, NewPaperLevel)]
      /\ call' = [call EXCEPT !.pc = "mirror", !.it = 1]
      /\ UNCHANGED <<bookVars, order_arrival_seq, paper_orders,
                     paper_order_info>>

OwnQueue ==
  LET e == call.event
  IN  IF e.price \in DOMAIN book[e.side] THEN book[e.side][e.price] ELSE <<>>

\* A new level has no orders yet; it copies the queue of the book first.
Mirroring ==
  /\ paper[call.event.side][call.event.price].orders = <<>>
  /\ call.it <= Len(OwnQueue)

MirrorNode ==
  LET e == call.event
      n == OwnQueue[call.it]
  IN  /\ call.pc = "mirror"
      /\ Mirroring
      /\ paper' = [paper EXCEPT ![e.side][e.price] =
                     WithMarket(@, n, node[n].qty)]
      /\ call' = [call EXCEPT !.it = @ + 1]
      /\ UNCHANGED <<bookVars, order_arrival_seq, paper_orders,
                     paper_order_info, paper_pool>>

\* A paper order joins the queue of a level.
Joined(level, id, qty) ==
  [level EXCEPT !.orders = Append(@, id),
                !.queued_lots = @ + qty,
                !.paper_qty = Push(@, qty)]

RestStrategy ==
  LET e     == call.event
      level == paper[e.side][e.price]
  IN  /\ call.pc = "mirror"
      /\ ~Mirroring
      /\ paper_orders' = Put(paper_orders, e.id,
           [remaining     |-> call.remaining,
            status        |-> IF call.remaining < e.qty
                                THEN "PARTIALLY_FILLED" ELSE "OPEN",
            placement_seq |-> order_arrival_seq,
            paper_index   |-> Len(level.paper_qty)])
      /\ paper' = [paper EXCEPT ![e.side][e.price] =
                     Joined(level, e.id, call.remaining)]
      /\ paper_order_info' = Put(paper_order_info, e.id,
                                 [side |-> e.side, price |-> e.price])
      /\ order_arrival_seq' = order_arrival_seq + 1
      /\ call' = Idle
      /\ UNCHANGED <<bookVars, paper_pool>>
-----------------------------------------------------------------------------
(***************************************************************************)
(* Updates of a resting order.  The feed's side and price only lead to     *)
(* warnings: the handlers use those of order_info.                         *)
(***************************************************************************)

Side(id)  == order_info[id].side
Price(id) == order_info[id].price
NodeOf(id) == order_info[id].node

\* A historical order gets a new quantity; without any it leaves the book,
\* and its level with it if it was the last.
Requantify(id, qty) ==
  LET side  == Side(id)
      p     == Price(id)
      n     == NodeOf(id)
      queue == book[side][p]
  IN  IF qty > 0
        THEN /\ node' = [node EXCEPT ![n].qty = qty]
             /\ UNCHANGED <<book, order_info>>
        ELSE /\ book' = [book EXCEPT ![side] =
                  IF Len(queue) = 1 THEN Erased(@, p)
                                    ELSE [@ EXCEPT ![p] = Unlinked(queue, n)]]
             /\ node' = Erased(node, n)
             /\ order_info' = Erased(order_info, id)

\* ... and the paper level at its price learns the difference.
SetHistorical(id, qty) ==
  /\ Requantify(id, qty)
  /\ paper' = PaperMarketAdjusted(Side(id), Price(id), NodeOf(id),
                                  qty - node[NodeOf(id)].qty)
  /\ UNCHANGED <<heap, order_arrival_seq, paper_orders, paper_order_info,
                 paper_pool, call>>

\* The lots of an event that the order still has.
Taken(e) == Lesser(node[NodeOf(e.id)].qty, e.qty)

OnDelete(e) ==
  /\ Accepts("DELETE", e)
  /\ \/ /\ e.source = "HISTORICAL"
        /\ SetHistorical(e.id, 0)
     \/ /\ e.source = "STRATEGY"
        /\ TakeFromPaperOrder(e.id, paper_orders[e.id].remaining, "CANCELLED")
        /\ UNCHANGED <<bookVars, order_arrival_seq, call>>

OnSubtract(e) ==
  /\ Accepts("SUBTRACT", e)
  /\ \/ /\ e.source = "HISTORICAL"
        /\ SetHistorical(e.id, node[NodeOf(e.id)].qty - Taken(e))
     \/ /\ e.source = "STRATEGY"
        /\ TakeFromPaperOrder(e.id, Lesser(paper_orders[e.id].remaining, e.qty),
                              paper_orders[e.id].status)
        /\ UNCHANGED <<bookVars, order_arrival_seq, call>>

\* A SET to a negative quantity is a SET to zero.  A paper order keeps its
\* place in the queue, also when it grows.
OnSet(e) ==
  LET qty == IF e.qty < 0 THEN 0 ELSE e.qty
  IN  /\ Accepts("SET", e)
      /\ \/ /\ e.source = "HISTORICAL"
            /\ SetHistorical(e.id, qty)
         \/ /\ e.source = "STRATEGY"
            /\ TakeFromPaperOrder(e.id, paper_orders[e.id].remaining - qty,
                                  paper_orders[e.id].status)
            /\ UNCHANGED <<bookVars, order_arrival_seq, call>>

\* on_match: the paper orders of the level take part in the trade first.
OnMatch(e) ==
  LET taken == Taken(e)
  IN  /\ Accepts("MATCH", e)
      /\ call' = [NewCall(IF taken > 0 THEN "queue" ELSE "settle", e,
                          Side(e.id), Price(e.id)) EXCEPT
                    !.lots = taken,
                    !.deltas = IF taken > 0
                      THEN <<[seq |-> NodeOf(e.id), qty |-> taken]>>
                      ELSE <<>>]
      /\ UNCHANGED <<bookVars, order_arrival_seq, paperVars>>

\* Then the passive order itself is reported as filled, possibly with no lot,
\* and reduced.
MatchFill ==
  LET e == call.event
  IN  /\ call.pc = "settle"
      /\ call.deltas = <<>>
      /\ e.type = "MATCH"
      /\ call' = [call EXCEPT
           !.pc = "reduce",
           !.fills = Append(@, BookFill(NodeOf(e.id), Price(e.id), Taken(e)))]
      /\ UNCHANGED <<bookVars, order_arrival_seq, paperVars>>

EndMatch ==
  LET e == call.event
  IN  /\ call.pc = "reduce"
      /\ Requantify(e.id, node[NodeOf(e.id)].qty - Taken(e))
      /\ call' = Idle
      /\ UNCHANGED <<heap, order_arrival_seq, paperVars>>
-----------------------------------------------------------------------------
(***************************************************************************)
(* Snapshots.  Both initialisations discard the state first and then add   *)
(* one row after the other.  A row that repeats a price (L2) or an id (L3) *)
(* throws, and leaves the engine with the rows before it; a row for which  *)
(* the pool has no node is skipped.                                        *)
(***************************************************************************)

clear_state ==
  /\ book' = [side \in Sides |-> Empty]
  /\ node' = Empty
  /\ heap' = [side \in Sides |-> NoEntries]
  /\ order_info' = Empty
  /\ order_arrival_seq' = 0
  /\ paper' = [side \in Sides |-> Empty]
  /\ paper_orders' = Empty
  /\ paper_order_info' = Empty
  /\ paper_pool' = {}

InitFromL2Snapshot(rows) ==
  call = Idle /\ clear_state /\ call' = [pc |-> "l2", rows |-> rows]

InitFromL3Snapshot(rows) ==
  call = Idle /\ clear_state /\ call' = [pc |-> "l3", rows |-> rows]

NextRow == call' = [call EXCEPT !.rows = Tail(@)]

\* The nodes of an L2 snapshot have no id by which they could be found.
L2Row ==
  /\ call.pc = "l2"
  /\ call.rows # <<>>
  /\ LET r == Head(call.rows)
     IN  IF r.price \in DOMAIN book[r.side]
           THEN /\ call' = Idle
                /\ UNCHANGED <<bookVars, order_arrival_seq>>
         ELSE IF PoolExhausted
           THEN NextRow /\ UNCHANGED <<bookVars, order_arrival_seq>>
         ELSE /\ AppendNode(r.side, r.price, UnknownOrderId, r.qty)
              /\ NextRow
              /\ UNCHANGED order_info
  /\ UNCHANGED paperVars

\* A row that is skipped has created its level.
L3Row ==
  /\ call.pc = "l3"
  /\ call.rows # <<>>
  /\ LET r == Head(call.rows)
     IN  IF r.id \in DOMAIN order_info
           THEN /\ call' = Idle
                /\ UNCHANGED <<bookVars, order_arrival_seq>>
         ELSE IF PoolExhausted
           THEN /\ book' = IF r.price \in DOMAIN book[r.side]
                             THEN book
                             ELSE [book EXCEPT ![r.side] =
                                     Put(@, r.price, <<>>)]
                /\ NextRow
                /\ UNCHANGED <<node, heap, order_info, order_arrival_seq>>
         ELSE /\ AppendNode(r.side, r.price, r.id, r.qty)
              /\ order_info' = Put(order_info, r.id,
                                   [side |-> r.side, price |-> r.price,
                                    node |-> order_arrival_seq])
              /\ NextRow
  /\ UNCHANGED paperVars

EndSnapshot ==
  /\ call.pc \in {"l2", "l3"}
  /\ call.rows = <<>>
  /\ call' = Idle
  /\ UNCHANGED <<bookVars, order_arrival_seq, paperVars>>

\* get_best_price_ticks is const for its caller and pops stale entries.
GetBestPriceTicks(side) ==
  /\ call = Idle
  /\ heap' = [heap EXCEPT ![side] = Pruned(@, side)]
  /\ UNCHANGED <<book, node, order_info, order_arrival_seq, paperVars, call>>
-----------------------------------------------------------------------------
Init ==
  /\ book = [side \in Sides |-> Empty]
  /\ node = Empty
  /\ heap = [side \in Sides |-> NoEntries]
  /\ order_info = Empty
  /\ order_arrival_seq = 0
  /\ paper = [side \in Sides |-> Empty]
  /\ paper_orders = Empty
  /\ paper_order_info = Empty
  /\ paper_pool = {}
  /\ call = Idle

update(e) ==
  \/ OnAdd(e)
  \/ OnAggressiveTrade(e)
  \/ OnDelete(e)
  \/ OnSubtract(e)
  \/ OnMatch(e)
  \/ OnSet(e)
  \/ Reject(e)

\* What the thread that called the engine does next.
Continue ==
  \/ StrategySweep
  \/ HistoricalSweep
  \/ EndSweep
  \/ QueueFill
  \/ EndQueue
  \/ Settle
  \/ EndLevel
  \/ TradeAgainstPaper
  \/ EndPaper
  \/ EndAdd
  \/ RestHistorical
  \/ AcquirePaperNode
  \/ MirrorNode
  \/ RestStrategy
  \/ MatchFill
  \/ EndMatch
  \/ L2Row
  \/ L3Row
  \/ EndSnapshot

Next ==
  \/ \E e \in Events : update(e)
  \/ \E rows \in L2Snapshots : InitFromL2Snapshot(rows)
  \/ \E rows \in L3Snapshots : InitFromL3Snapshot(rows)
  \/ \E side \in Sides : GetBestPriceTicks(side)
  \/ Continue

Spec == Init /\ [][Next]_vars

\* A call that was made goes on; nobody has to call.
FairSpec == Spec /\ WF_vars(Continue)
=============================================================================
