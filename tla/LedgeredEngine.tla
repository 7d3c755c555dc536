--------------------------- MODULE LedgeredEngine ---------------------------
(***************************************************************************)
(* The engine of PaperTradingSimulator with a sink that keeps a ledger.    *)
(* The engine and the ledger each have a state for every paper order; the  *)
(* ledger learns of an order by the event that names it, before the engine *)
(* handles it, and by the fills, and is told nothing else.  So it cannot   *)
(* see whether an event was refused, or why an order is gone.              *)
(*                                                                         *)
(* A callback runs within a step of the engine here; between two steps     *)
(* both sides have done their part.                                        *)
(***************************************************************************)
EXTENDS PaperTradingProperties

CONSTANT MaxFilled  \* bound on the filled lots of an entry when a call begins

ASSUME MaxFilledAssumption == MaxFilled \in Nat

INSTANCE PaperLedger

VARIABLES
  sink,       \* what reports reach: no sink, or one whose reset() ...
  ledger,     \* order id -> entry
  estranged   \* the ids of which the ledger no longer knows the truth: a
              \* history variable, no part of the code

SinkKinds == {"own",     \* ... empties the ledger (InMemoryLogSink)
              "scoped",  \* ... does nothing (BookScopedSink)
              "none"}

ledgerVars == <<sink, ledger, estranged>>
allVars    == <<vars, ledgerVars>>

Reported == sink # "none"

FilledBounded == \A id \in DOMAIN ledger : ledger[id].filled <= MaxFilled
-----------------------------------------------------------------------------
(***************************************************************************)
(* Events after which the ledger is wrong about their id: an ADD that only *)
(* one side accepts, since the ledger refuses each id it has ever seen and *)
(* the engine only those of orders that rest; and an AGGRESSIVE_TRADE that *)
(* bears the id of an order, which is credited with its fills.             *)
(***************************************************************************)
Disputed(e) ==
  /\ e.source = "STRATEGY"
  /\ \/ e.type = "ADD" /\ e.qty > 0 /\ (e.id \notin DOMAIN ledger) = AddRejected(e)
     \/ e.type = "AGGRESSIVE_TRADE" /\ e.id \in DOMAIN ledger

\* The engine is told of an event.
Update(e) ==
  /\ update(e)
  /\ FilledBounded
  /\ IF Reported
       THEN /\ ledger' = update_strategy_order(ledger, e)
            /\ estranged' = IF Disputed(e) THEN estranged \cup {e.id}
                                           ELSE estranged
       ELSE UNCHANGED <<ledger, estranged>>
  /\ UNCHANGED sink

\* A fill as the sink is told of it.  A trade through a passive order (MATCH)
\* names no taker.
FillRecord(f) ==
  [qty          |-> f.qty,
   maker        |-> f.maker,
   maker_source |-> f.source,
   taker        |-> IF call.event.type = "MATCH"
                      THEN UnknownOrderId ELSE call.event.id,
   taker_source |-> call.event.source]

Fills == Handling /\ call' # Idle /\ call'.fills # call.fills

\* The rest of a paper order finds no node of the pool; the ledger is not told.
Dropped ==
  /\ call.pc = "rest"
  /\ call.event.source = "STRATEGY"
  /\ call.remaining > 0
  /\ call' = Idle

Proceed ==
  /\ Continue
  /\ ledger' = IF Reported /\ Fills
                 THEN WithFill(ledger, FillRecord(Last(call'.fills)))
                 ELSE ledger
  /\ estranged' = IF Reported /\ Dropped THEN estranged \cup {call.event.id}
                                         ELSE estranged
  /\ UNCHANGED sink

\* clear_state resets the sink, if the sink obeys.
Reset == ledger' = IF sink = "scoped" THEN ledger ELSE Empty

InitFromSnapshot(rows) ==
  /\ \/ rows \in L2Snapshots /\ InitFromL2Snapshot(rows)
     \/ rows \in L3Snapshots /\ InitFromL3Snapshot(rows)
  /\ Reset
  /\ estranged' = {id \in DOMAIN ledger' : ~Closed(ledger[id]) \/ id \in estranged}
  /\ UNCHANGED sink

\* A sink (a new one) is attached, in the middle of the life of the engine.
set_log_sink(kind) ==
  /\ call = Idle
  /\ sink' = kind
  /\ ledger' = Empty
  /\ estranged' = IF kind = "none" THEN {} ELSE DOMAIN paper_orders
  /\ UNCHANGED vars

Query ==
  /\ \E side \in Sides : GetBestPriceTicks(side)
  /\ UNCHANGED ledgerVars

LedgeredInit ==
  /\ Init
  /\ sink \in SinkKinds
  /\ ledger = Empty
  /\ estranged = {}

LedgeredNext ==
  \/ \E e \in Events : Update(e)
  \/ \E rows \in L2Snapshots \cup L3Snapshots : InitFromSnapshot(rows)
  \/ \E kind \in SinkKinds : set_log_sink(kind)
  \/ Query
  \/ Proceed

LedgeredSpec == LedgeredInit /\ [][LedgeredNext]_allVars

LedgeredFairSpec == LedgeredSpec /\ WF_allVars(Proceed)
-----------------------------------------------------------------------------
\* The order of a running ADD, and what it still wants.
Incoming(id) ==
  /\ Running({"sweep", "rest", "mirror"})
  /\ call.event.type = "ADD"
  /\ call.event.source = "STRATEGY"
  /\ call.event.id = id
  /\ call.remaining > 0

(***************************************************************************)
(* The ledger tells the truth about every id that is not estranged: an     *)
(* entry is open exactly as long as the order rests, or is on its way, and *)
(* has the same status and the same lots left as the engine's own record,  *)
(* through every fill by a sweep, a queue or a passive trade, SUBTRACT,    *)
(* SET and DELETE.  Nor has it been filled for more than was asked.        *)
(***************************************************************************)
LedgerAgrees ==
  Reported =>
    /\ DOMAIN paper_orders \ estranged \subseteq DOMAIN ledger
    /\ \A id \in DOMAIN ledger \ estranged :
         LET entry == ledger[id]
         IN  /\ Closed(entry) <=> id \notin DOMAIN paper_orders /\ ~Incoming(id)
             /\ id \in DOMAIN paper_orders =>
                  /\ entry.remaining = paper_orders[id].remaining
                  /\ entry.status = paper_orders[id].status
             /\ Incoming(id) => entry.remaining = call.remaining
             /\ entry.filled + entry.remaining <= entry.initial

(***************************************************************************)
(* What is over is over: until the sink is emptied or exchanged, a         *)
(* cancelled entry never changes, even under events and fills that bear    *)
(* its id, and a filled one only if its id is estranged.                   *)
(***************************************************************************)
ClosedStays ==
  [][\A id \in DOMAIN ledger \cap DOMAIN ledger' :
       \/ ledger[id].status = "CANCELLED"
       \/ ledger[id].status = "FILLED" /\ id \notin estranged'
       => ledger'[id] = ledger[id]]_allVars
=============================================================================
