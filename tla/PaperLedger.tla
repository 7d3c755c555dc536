----------------------------- MODULE PaperLedger -----------------------------
(***************************************************************************)
(* The ledger of the paper orders that a sink derives from the events and  *)
(* fills it is told of (InMemoryLogSink, and per book InMemoryMultiLogSink,*)
(* which has a copy of the same code): order id -> entry.                  *)
(*                                                                         *)
(* An event is told before the engine handles it, whether or not it will   *)
(* be refused; nothing is told when a resting order leaves for any other   *)
(* reason than a fill.                                                     *)
(*                                                                         *)
(* Left out: side, price, sequence numbers and timestamps of an entry, and *)
(* its copies of the fills.  The status REJECTED is never assigned.        *)
(***************************************************************************)
EXTENDS Integers

CONSTANT UnknownOrderId

LedgerStatus == {"OPEN", "PARTIALLY_FILLED", "FILLED", "CANCELLED"}

Entry == [initial : Nat, remaining : Nat, filled : Nat, status : LedgerStatus]

Closed(entry) == entry.status \in {"FILLED", "CANCELLED"}

WithEntry(ledger, id, entry) ==
  [x \in DOMAIN ledger \cup {id} |-> IF x = id THEN entry ELSE ledger[x]]

-----------------------------------------------------------------------------
(***************************************************************************)
(* update_strategy_order                                                   *)
(***************************************************************************)

\* Events that are put aside as rejected.
RejectedByLedger(ledger, e) ==
  /\ e.source = "STRATEGY"
  /\ \/ e.type = "ADD" /\ (e.qty <= 0 \/ e.id \in DOMAIN ledger)
     \/ e.type = "SUBTRACT" /\ e.qty < 0

NewEntry(qty) ==
  [initial |-> qty, remaining |-> qty, filled |-> 0, status |-> "OPEN"]

\* A SUBTRACT of nothing only touches the entry.
Subtracted(entry, qty) ==
  LET left == IF qty >= entry.remaining THEN 0 ELSE entry.remaining - qty
  IN  [entry EXCEPT
         !.remaining = left,
         !.status = IF left = 0 THEN "CANCELLED" ELSE entry.status]

\* Mutated form of SetTo: the status is not looked at again.
SetQuantity(entry, qty) ==
  [entry EXCEPT !.remaining = IF qty < 0 THEN 0 ELSE qty]

\* An order that grows beyond what it was is now of that size.
SetTo(entry, qty) ==
  LET left  == IF qty < 0 THEN 0 ELSE qty
      total == entry.filled + left
  IN  [entry EXCEPT
         !.remaining = left,
         !.initial = IF total > entry.initial THEN total ELSE entry.initial,
         !.status = IF left = 0 THEN "CANCELLED"
                    ELSE IF entry.filled > 0 THEN "PARTIALLY_FILLED"
                    ELSE "OPEN"]

Deleted(entry) == [entry EXCEPT !.remaining = 0, !.status = "CANCELLED"]

Changed(entry, e) ==
  IF e.type = "SUBTRACT" /\ e.qty > 0 /\ ~Closed(entry)
    THEN Subtracted(entry, e.qty)
  ELSE IF e.type = "SET" /\ ~Closed(entry)
    THEN SetTo(entry, e.qty)
  ELSE IF e.type = "DELETE" /\ entry.status # "FILLED"
    THEN Deleted(entry)
  ELSE entry

update_strategy_order(ledger, e) ==
  IF e.source # "STRATEGY" \/ RejectedByLedger(ledger, e)
    THEN ledger
  ELSE IF e.type = "ADD"
    THEN WithEntry(ledger, e.id, NewEntry(e.qty))
  ELSE IF e.id \in DOMAIN ledger
    THEN [ledger EXCEPT ![e.id] = Changed(ledger[e.id], e)]
  ELSE ledger

-----------------------------------------------------------------------------
(***************************************************************************)
(* apply_strategy_fill, for the maker and then for the taker of a fill     *)
(***************************************************************************)

Filled(entry, qty) ==
  LET left == IF qty >= entry.remaining THEN 0 ELSE entry.remaining - qty
  IN  [entry EXCEPT
         !.filled = entry.filled + qty,
         !.remaining = left,
         !.status = IF left = 0 THEN "FILLED" ELSE "PARTIALLY_FILLED"]

\* Mutated form of TakesFill: cancelled orders are filled, too.
TakesFillAnyway(ledger, id, source, qty) ==
  source = "STRATEGY" /\ id \in DOMAIN ledger /\ qty > 0

TakesFill(ledger, id, source, qty) ==
  /\ source = "STRATEGY"
  /\ id # UnknownOrderId
  /\ id \in DOMAIN ledger
  /\ ledger[id].status # "CANCELLED"
  /\ qty > 0

apply_strategy_fill(ledger, id, source, qty) ==
  IF TakesFill(ledger, id, source, qty)
    THEN [ledger EXCEPT ![id] = Filled(ledger[id], qty)]
    ELSE ledger

\* Mutated form of WithFill: only makers are looked up.
WithMakerFill(ledger, r) ==
  apply_strategy_fill(ledger, r.maker, r.maker_source, r.qty)

WithFill(ledger, r) ==
  apply_strategy_fill(
    apply_strategy_fill(ledger, r.maker, r.maker_source, r.qty),
    r.taker, r.taker_source, r.qty)

-----------------------------------------------------------------------------
(***************************************************************************)
(* The status of an entry is what its quantities say, and an open order    *)
(* does not have more lots, filled and left, than it was ever asked to     *)
(* have - whatever events and fills came in whatever order.                *)
(***************************************************************************)
Consistent(entry) ==
  /\ entry.status = "OPEN" <=> entry.remaining > 0 /\ entry.filled = 0
  /\ entry.status = "PARTIALLY_FILLED" <=>
       entry.remaining > 0 /\ entry.filled > 0
  /\ entry.status = "FILLED" => entry.filled > 0
  /\ ~Closed(entry) => entry.filled + entry.remaining <= entry.initial

EntriesConsistent(ledger) == \A id \in DOMAIN ledger : Consistent(ledger[id])
=============================================================================
