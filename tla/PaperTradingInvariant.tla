------------------------- MODULE PaperTradingInvariant -------------------------
(***************************************************************************)
(* The inductive invariant behind TypeOK, BookIndexed and PaperIndexed.    *)
(* None of the three is inductive alone: what a handler reads is of the    *)
(* right type only because the node it follows is in use, and that is so   *)
(* only because no node is queued twice and no handler that runs has lost  *)
(* the order, the level or the id it works for.                            *)
(***************************************************************************)
EXTENDS PaperTradingProperties

Queued(side, p, n) == p \in DOMAIN book[side] /\ n \in ToSet(book[side][p])

BookTypes ==
  /\ DOMAIN book = Sides
  /\ \A side \in Sides : IsPartial(book[side], Prices, Seq(Nat))
  /\ IsPartial(node, Nat, Node)
  /\ IsPartial(order_info, Ids, OrderInfo)
  /\ order_arrival_seq \in Nat

\* A queue is in the order of arrival, no node is in two of them, and every
\* node is older than the next one.
QueuesApart ==
  \A side \in Sides : \A p \in DOMAIN book[side] :
    /\ Increasing(book[side][p])
    /\ \A n \in ToSet(book[side][p]) :
         /\ n \in DOMAIN node
         /\ n < order_arrival_seq
         /\ \A s \in Sides : \A q \in Prices :
              Queued(s, q, n) => s = side /\ q = p

\* A node that has an id is where order_info says; every node is queued.
NodesIndexed ==
  /\ \A id \in DOMAIN order_info :
       /\ Queued(Side(id), Price(id), NodeOf(id))
       /\ node[NodeOf(id)].id = id
  /\ \A side \in Sides : \A p \in DOMAIN book[side] :
       \A n \in ToSet(book[side][p]) :
         node[n].id # UnknownOrderId =>
           /\ node[n].id \in DOMAIN order_info
           /\ order_info[node[n].id] = [side |-> side, price |-> p, node |-> n]
  /\ \A n \in DOMAIN node : \E side \in Sides, p \in Prices : Queued(side, p, n)
  /\ IsFiniteSet(DOMAIN node)
  /\ Cardinality(DOMAIN node) <= HistoricalCapacity

BookInvariant == BookTypes /\ QueuesApart /\ NodesIndexed

PaperTypes ==
  /\ DOMAIN paper = Sides
  /\ \A side \in Sides : IsPartial(paper[side], Prices, PaperOrderLevel)
  /\ IsPartial(paper_orders, Ids, PaperOrder)
  /\ IsPartial(paper_order_info, Ids, PaperOrderInfo)

\* The orders that rest at a price.
RestingAt(side, p) ==
  {id \in DOMAIN paper_orders :
     paper_order_info[id] = [side |-> side, price |-> p]}

OrdersIndexed ==
  /\ DOMAIN paper_orders = DOMAIN paper_order_info
  /\ \A id \in DOMAIN paper_orders :
       LET side == paper_order_info[id].side
           p    == paper_order_info[id].price
       IN  /\ paper_orders[id].remaining > 0
           /\ HasPaperLevel(side, p)
           /\ paper_orders[id].paper_index < Len(paper[side][p].paper_qty)
  /\ \A side \in Sides : \A p \in DOMAIN paper[side] :
       /\ ToSet(paper[side][p].orders) = RestingAt(side, p)
       /\ IsInjective(paper[side][p].orders)
       /\ Len(paper[side][p].market_qty) = Len(paper[side][p].market_seqs)

\* The level that an order has made for itself before it joins the queue.
ComingToRest(side, p) ==
  call.pc = "mirror" /\ side = call.event.side /\ p = call.event.price

NoEmptyLevel ==
  \A side \in Sides : \A p \in DOMAIN paper[side] :
    paper[side][p].orders = <<>> => ComingToRest(side, p)

PoolMatches ==
  /\ paper_pool = DOMAIN paper_orders \cup
                    (IF call.pc = "mirror" THEN {call.event.id} ELSE {})
  /\ IsFiniteSet(paper_pool)
  /\ Cardinality(paper_pool) <= PaperCapacity

PaperInvariant == PaperTypes /\ OrdersIndexed

IdsApart == DOMAIN paper_orders \cap DOMAIN order_info = {}

\* An order that trades in the book stays at a level while it is there; an
\* event keeps the id it came with, or the order it names.
HandlerState ==
  LET e == call.event
  IN  /\ e.type \in {"ADD", "AGGRESSIVE_TRADE", "MATCH"}
      /\ e.qty >= 0
      /\ e.type = "ADD" =>
           e.id \notin DOMAIN order_info \cup DOMAIN paper_orders
      /\ e.type = "AGGRESSIVE_TRADE" =>
           e.source = "STRATEGY" /\ call.pc \in {"sweep", "paper"}
      /\ e.type = "MATCH" =>
           /\ call.pc \in {"queue", "settle", "reduce"}
           /\ e.id \in DOMAIN order_info
      /\ call.pc = "reduce" => e.type = "MATCH"
      /\ (call.pc \in {"queue", "settle"} /\ e.type = "ADD") =>
           /\ e.source = "HISTORICAL"
           /\ call.price \in DOMAIN book[call.side]
      /\ (call.pc = "sweep" /\ e.source = "STRATEGY") =>
           \A p \in BestPrice(call.heap_copy, call.side) :
             call.it <= Len(book[call.side][p])
      /\ call.pc = "mirror" =>
           /\ e.source = "STRATEGY"
           /\ call.remaining > 0
           /\ HasPaperLevel(e.side, e.price)

CallInvariant ==
  \/ call = Idle
  \/ call \in Load /\ DOMAIN paper_orders = {}
  \/ call \in Handler /\ HandlerState

HeapTypes == heap \in [Sides -> Bag]

(***************************************************************************)
(* Each step of a handler finds what it works with: the node, the level    *)
(* and the id that an earlier step of the same call has found are still    *)
(* there and still belong together.                                        *)
(***************************************************************************)
Inductive ==
  /\ BookInvariant
  /\ HeapTypes
  /\ PaperInvariant
  /\ NoEmptyLevel
  /\ PoolMatches
  /\ IdsApart
  /\ CallInvariant
-----------------------------------------------------------------------------
(***************************************************************************)
(* What TopOfBook, ArrivalOrder, PriceTimePriority and ImplementsOrderBook *)
(* rest on, besides.                                                       *)
(***************************************************************************)

\* The queue at a price; a level that the book does not have has none.
QueueAt(side, p) == IF p \in DOMAIN book[side] THEN book[side][p] ELSE <<>>

\* A level with orders has an entry in the heap, however often it has come
\* and gone; entries of other levels may be left over.
HeapCovers == \A side \in Sides, p \in Prices : Live(side, p) => heap[side][p] > 0

\* A paper level knows nodes in the order of their arrival and, once it has
\* orders, all nodes of its queue.
MarketKnown ==
  \A side \in Sides : \A p \in DOMAIN paper[side] :
    LET level == paper[side][p]
    IN  /\ Increasing(level.market_seqs)
        /\ \A n \in ToSet(level.market_seqs) : n < order_arrival_seq
        /\ level.orders # <<>> =>
             ToSet(QueueAt(side, p)) \subseteq ToSet(level.market_seqs)

\* A level without orders knows the first nodes of its queue, up to where
\* the paper order that makes it has copied them.
MirrorFollows ==
  call.pc = "mirror" =>
    LET e     == call.event
        level == paper[e.side][e.price]
    IN  level.orders = <<>> =>
          /\ Len(level.market_seqs) = call.it - 1
          /\ call.it - 1 <= Len(OwnQueue)
          /\ \A k \in 1 .. call.it - 1 : level.market_seqs[k] = OwnQueue[k]

BookFills == {k \in DOMAIN call.fills : call.fills[k].source = "HISTORICAL"}

\* What the fills of a call report has traded before node n at price p does.
FilledBefore(p, n) ==
  \A k \in BookFills :
    \/ Better(call.side, call.fills[k].price, p)
    \/ call.fills[k].price = p /\ call.fills[k].seq < n

\* A historical order that has lots left to trade.
Trading(pcs) ==
  /\ call.pc \in pcs
  /\ call.event.type = "ADD"
  /\ call.event.source = "HISTORICAL"
  /\ call.remaining > 0

\* A sweep has yet to come to what it can still trade with: for a strategy,
\* what its copy of the heap names, from the iterator on; for a historical
\* order, which removes what it has filled, all that is left in the book.
SweepProceeds ==
  /\ (Handling /\ call.event.type = "ADD") =>
       call.side = Opposite(call.event.side)
  /\ (call.pc \in {"queue", "settle"} /\ call.event.type = "MATCH") =>
       BookFills = {}
  /\ (call.pc = "sweep" /\ call.event.source = "STRATEGY") =>
       \A p \in Prices : call.heap_copy[p] > 0 =>
         \A k \in call.it .. Len(QueueAt(call.side, p)) :
           FilledBefore(p, QueueAt(call.side, p)[k])
  /\ Trading({"sweep", "queue", "settle"}) =>
       \A p \in Prices : \A n \in ToSet(QueueAt(call.side, p)) : FilledBefore(p, n)
  /\ Trading({"paper", "rest"}) =>
       \A p \in Prices : Live(call.side, p) => ~Crosses(call.event, p)

\* A strategy that sweeps has passed a node: it has popped the level from its
\* copy of the heap, or the iterator is behind the node at the best level.
Passed(p, k) ==
  \/ call.heap_copy[p] = 0
  \/ p \in BestPrice(call.heap_copy, call.side) /\ k < call.it

\* It has filled against the whole quantity of every node it has passed.
SweptSoFar ==
  call.pc = "sweep" /\ call.event.source = "STRATEGY" /\ call.remaining > 0 =>
    \A p \in Prices : \A k \in DOMAIN QueueAt(call.side, p) :
      Passed(p, k) =>
        LET n == QueueAt(call.side, p)[k]
        IN  FilledOf("HISTORICAL", p, n) = node[n].qty

\* A paper order arrived before the orders that will.
PlacedBefore ==
  \A id \in DOMAIN paper_orders : paper_orders[id].placement_seq < order_arrival_seq

(***************************************************************************)
(* What MarketMirrored and ServedInTurn rest on, besides.                  *)
(***************************************************************************)

\* A node that a paper level knows is queued there as long as it is in use.
KnownAreQueued ==
  \A side \in Sides : \A p \in DOMAIN paper[side] :
    \A n \in ToSet(paper[side][p].market_seqs) :
      n \in DOMAIN node => n \in ToSet(QueueAt(side, p))

\* The level that a historical order sweeps, once it has taken lots there, is
\* the best of the book; the order has lots left to take and has told nothing.
SweepStays ==
  (call.pc = "sweep" /\ call.deltas # <<>>) =>
    /\ call.event.source = "HISTORICAL"
    /\ call.lots > 0
    /\ call.remaining > 0
    /\ Live(call.side, call.price)
    /\ Crosses(call.event, call.price)
    /\ \A q \in Prices : Live(call.side, q) => ~Better(call.side, q, call.price)

\* What a level has to be told it is told before its handler goes on, and an
\* order that is matched stays where it was found.
ToldInTime ==
  Handling =>
    /\ call.deltas # <<>> => call.pc \in {"sweep", "queue", "settle"}
    /\ call.event.type = "MATCH" =>
         /\ call.side = Side(call.event.id)
         /\ call.price = Price(call.event.id)

\* The lots that have traded at the level and that its paper orders may reach
\* are those of the fills there, and what the level has yet to be told.
LevelTrades ==
  /\ call.pc = "sweep" =>
       /\ call.consumed = 0
       /\ call.deltas = <<>> => call.lots = 0
       /\ call.lots > 0 =>
            call.lots = Lots(FillsAt("HISTORICAL", call.price))
  /\ call.pc = "queue" \/ (call.pc = "sweep" /\ call.deltas # <<>>) =>
       /\ \A n \in 0 .. order_arrival_seq :
            Untold(n) = FilledOf("HISTORICAL", call.price, n)
       /\ \A k \in FillsAt("HISTORICAL", call.price) :
            HasPaperLevel(call.side, call.price) =>
              call.fills[k].seq \in ToSet(paper[call.side][call.price].market_seqs)

\* While a historical order has lots left, nothing has traded at the levels it
\* has yet to sweep, and it has emptied the level where paper orders trade.
NothingTradedAhead ==
  /\ Trading({"sweep", "queue", "settle"}) =>
       \A q \in Prices : Live(call.side, q) =>
         /\ FillsAt("STRATEGY", q) = {}
         /\ FillsAt("HISTORICAL", q) # {} =>
              call.pc = "sweep" /\ call.lots > 0 /\ q = call.price
  /\ Trading({"queue", "settle"}) => ~Live(call.side, call.price)

\* The paper orders of the level have been served one after the other: those
\* that are filled are at the head.  What they were filled and what passed them
\* are lots that traded, and all of them if no stale lots stand in the tree.
FilledLots == [n \in FilledSeqs |-> FilledOf("STRATEGY", call.price, n)]

NothingStale ==
  HasPaperLevel(call.side, call.price) /\ NoStaleLots(call.side, call.price)

QueueServed ==
  call.pc = "queue" =>
    /\ call.lots + call.consumed + SumFunctionOnSet(FilledLots, FilledSeqs) <= TradedLots
    /\ NothingStale =>
         call.lots + call.consumed + SumFunctionOnSet(FilledLots, FilledSeqs) = TradedLots
    /\ \A id \in RestingIds :
         /\ \A n \in FilledSeqs :
              /\ n <= paper_orders[id].placement_seq
              /\ n = paper_orders[id].placement_seq => call.lots = 0
         /\ call.consumed <= MarketBefore(paper_orders[id].placement_seq)
    /\ \A n \in FilledSeqs :
         /\ TradedLots > LotsAhead(n)
         /\ FilledLots[n] <= TradedLots - LotsAhead(n)
         /\ NothingStale => FilledLots[n] = Lesser(TradedLots - LotsAhead(n), PaperLots[n])

(***************************************************************************)
(* The heap covers the book, and what is known, mirrored, filled or placed *)
(* so far came before what is still to come.                               *)
(***************************************************************************)
PriorityInvariant ==
  /\ Inductive
  /\ HeapCovers
  /\ MarketKnown
  /\ MirrorFollows
  /\ SweepProceeds
  /\ PriceTimePriority
  /\ SweepComplete
  /\ SweptSoFar
  /\ QueuedLots
  /\ PlacedBefore
  /\ KnownAreQueued
  /\ SweepStays
  /\ ToldInTime
  /\ MarketMirrored
  /\ LevelTrades
  /\ NothingTradedAhead
  /\ QueueServed
=============================================================================
