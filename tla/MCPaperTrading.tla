--------------------------- MODULE MCPaperTrading ---------------------------
(***************************************************************************)
(* Instances of the engine for TLC.                                        *)
(***************************************************************************)
EXTENDS PaperTradingInvariant

CONSTANTS o1, o2, o3, o4, o5

QueueSymmetry == Permutations({o1, o2, o3, o4})

\* The events of a type whose other fields the handler reads.  The side and
\* the price of an event for an existing order are not read.
AddsOf(sources, qtys) ==
  [type : {"ADD"}, source : sources, side : Sides, price : Prices,
   qty : qtys, id : Ids]

ChangesOf(types, sources, qtys) ==
  [type : types, source : sources, side : {"BUY"}, price : {1},
   qty : qtys, id : Ids]

TradesOf(qtys, id) ==
  [type : {"AGGRESSIVE_TRADE"}, source : {"STRATEGY"}, side : Sides,
   price : {1}, qty : qtys, id : {id}]

\* Two levels of each side; paper orders are bids.
AllEvents ==
  LET orders == AddsOf({"HISTORICAL"}, {2})
                  \cup {e \in AddsOf({"STRATEGY"}, {1}) : e.side = "BUY"}
                  \cup ChangesOf({"DELETE"}, Sources, {0})
                  \cup ChangesOf({"SUBTRACT"}, Sources, {1})
                  \cup ChangesOf({"SET"}, Sources, {2})
                  \cup ChangesOf({"MATCH"}, {"HISTORICAL"}, {2})
  IN  {e \in orders : e.id # o4} \cup TradesOf({3}, o4)

\* One level of bids: paper orders and historical ones queue there, and
\* historical sells and passive matches trade through it; an aggressive buy
\* meets what is left of a historical sell.
OneQueue ==
  LET adds    == AddsOf({"HISTORICAL"}, {1}) \cup AddsOf({"STRATEGY"}, {2})
      resting == {e \in adds : e.side = "BUY" /\ e.id # o5}
      sells   == {e \in AddsOf({"HISTORICAL"}, {4}) :
                    e.side = "SELL" /\ e.id = o5}
      changes == ChangesOf({"MATCH"}, {"HISTORICAL"}, {2})
                   \cup ChangesOf({"DELETE"}, Sources, {0})
                   \cup ChangesOf({"SUBTRACT"}, Sources, {1})
                   \cup ChangesOf({"SET"}, Sources, {3})
      trades  == {e \in TradesOf({3}, o5) : e.side = "BUY"}
  IN  resting \cup sells \cup trades \cup {e \in changes : e.id # o5}

\* A row, taken from a set: the fields of a record that is written out are put
\* in order when TLC first compares it, by all workers at once if they share it.
R(side, price, qty, id) ==
  CHOOSE row \in [side : {side}, price : {price}, qty : {qty}, id : {id}] : TRUE

\* A historical queue to begin with: of an order without an id, and of two, of
\* which the second may be a repetition of the first.
OneRow  == {<<R("BUY", 1, 1, o5)>>}
TwoRows == {<<R("BUY", 1, 1, i), R("BUY", 1, 2, j)>> :
              i \in {o1, o2, o3, o4}, j \in {o1, o2, o3, o4}}
=============================================================================
