------------------------------ MODULE MCLedger ------------------------------
(***************************************************************************)
(* The engine with a sink, for TLC.  Whatever can happen to a paper order  *)
(* happens to o1, a bid; o2, an ask, and o4, a bid below it, compete with  *)
(* it for two paper nodes; a historical order has a fresh id or that of    *)
(* the paper order, and an aggressive trade has that of the paper order.   *)
(* A historical sell of three lots goes through both bids.                 *)
(***************************************************************************)
EXTENDS MCPaperTrading, LedgeredEngine

LedgerEvents ==
  LET bids    == {e \in AddsOf({"STRATEGY"}, {0, 2}) :
                    e.id = o1 /\ e.side = "BUY" /\ e.price = 2}
      others  == {e \in AddsOf({"STRATEGY"}, {2}) :
                    e.id = o2 /\ e.side = "SELL" /\ e.price = 2}
      below   == {e \in AddsOf({"STRATEGY"}, {1}) :
                    e.id = o4 /\ e.side = "BUY" /\ e.price = 1}
      sells   == {e \in AddsOf({"HISTORICAL"}, {1, 2}) :
                    e.id = o3 /\ e.side = "SELL" /\ e.price = e.qty}
      through == {e \in AddsOf({"HISTORICAL"}, {3}) :
                    e.id = o3 /\ e.side = "SELL" /\ e.price = 1}
      reuse   == {e \in AddsOf({"HISTORICAL"}, {1}) :
                    e.id = o1 /\ e.side = "BUY" /\ e.price = 2}
      changes == ChangesOf({"DELETE"}, {"STRATEGY"}, {0})
                   \cup ChangesOf({"SUBTRACT"}, {"STRATEGY"}, {-1, 1})
                   \cup ChangesOf({"SET"}, {"STRATEGY"}, {-1, 3})
                   \cup ChangesOf({"MATCH"}, Sources, {2})
      trades  == [type : {"AGGRESSIVE_TRADE"}, source : {"STRATEGY"},
                  side : {"BUY"}, price : {1}, qty : {3}, id : {o1}]
  IN  bids \cup others \cup below \cup sells \cup through \cup reuse
        \cup trades \cup {e \in changes : e.id = o1}

\* A third row that finds the pool exhausted; a price twice.
Rows2 == {<<R("BUY", 1, 1, o1), R("SELL", 2, 1, o1), R("SELL", 3, 1, o1)>>,
          <<R("SELL", 2, 0, o1), R("SELL", 2, 2, o2)>>}

\* Rows that find the pool exhausted, one at a price of its own; an id twice.
Rows3 == {<<R("BUY", 1, 0, o1), R("SELL", 2, 1, o2), R("BUY", 1, 1, o4),
            R("BUY", 2, 1, o3)>>,
          <<R("BUY", 1, 1, o3), R("BUY", 1, 1, o3)>>}
=============================================================================
