---------------------------- MODULE LedgerProofs ----------------------------
(***************************************************************************)
(* The engine and a sink that keeps a ledger: whatever is submitted, the   *)
(* ledger tells the truth about every id that is not estranged, and what   *)
(* is closed stays closed.                                                 *)
(***************************************************************************)
EXTENDS LedgeredEngine, PaperTradingProofs

(***************************************************************************)
(* The ledger alone: every event and fill leaves entries consistent.       *)
(***************************************************************************)
Sound(entry) == entry \in Entry /\ Consistent(entry)

SoundLedger(l) == \A id \in DOMAIN l : Sound(l[id])

LEMMA FilledSound ==
  ASSUME NEW entry, Sound(entry), entry.status # "CANCELLED",
         NEW qty \in Int, qty > 0
  PROVE  Sound(Filled(entry, qty))
<1> DEFINE left == IF qty >= entry.remaining THEN 0 ELSE entry.remaining - qty
<1>1. /\ entry \in Entry
      /\ entry.initial \in Nat /\ entry.remaining \in Nat /\ entry.filled \in Nat
      /\ entry.status \in LedgerStatus
  BY DEF Sound, Entry
<1>2. left \in Nat
  BY <1>1
<1>3. left > 0 => entry.filled + qty + left = entry.filled + entry.remaining
  BY <1>1
<1>4. Filled(entry, qty) =
        [entry EXCEPT !.filled = entry.filled + qty, !.remaining = left,
                      !.status = IF left = 0 THEN "FILLED" ELSE "PARTIALLY_FILLED"]
  BY DEF Filled
<1> HIDE DEF left
<1>5. Filled(entry, qty) =
        [initial |-> entry.initial, remaining |-> left, filled |-> entry.filled + qty,
         status |-> IF left = 0 THEN "FILLED" ELSE "PARTIALLY_FILLED"]
  BY <1>1, <1>4 DEF Entry
<1>6. entry.remaining > 0 => entry.filled + entry.remaining <= entry.initial
  BY <1>1 DEF Sound, Consistent, Closed, LedgerStatus
<1>7. left > 0 => entry.remaining > 0
  BY <1>1, <1>2 DEF left
<1> QED
  BY <1>1, <1>2, <1>3, <1>5, <1>6, <1>7
     DEF Sound, Entry, Consistent, Closed, LedgerStatus

LEMMA ChangedSound ==
  ASSUME NEW entry, Sound(entry), NEW e, e.qty \in Int
  PROVE  Sound(Changed(entry, e))
<1>1. /\ entry \in Entry
      /\ entry.initial \in Nat /\ entry.remaining \in Nat /\ entry.filled \in Nat
      /\ entry.status \in LedgerStatus
      /\ Consistent(entry)
  BY DEF Sound, Entry
<1>2. ASSUME NEW left \in Nat, NEW status, ~Closed(entry), left <= entry.remaining,
             status = IF left = 0 THEN "CANCELLED" ELSE entry.status
      PROVE  Sound([entry EXCEPT !.remaining = left, !.status = status])
  <2> DEFINE new == [entry EXCEPT !.remaining = left, !.status = status]
  <2>1. /\ new \in Entry
        /\ new.initial = entry.initial /\ new.filled = entry.filled
        /\ new.remaining = left /\ new.status = status
    BY <1>1, <1>2 DEF Entry, LedgerStatus
  <2>2. Sound(new)
    <3> HIDE DEF new
    <3> QED BY <1>1, <1>2, <2>1 DEF Sound, Entry, Consistent, Closed, LedgerStatus
  <2> QED BY <2>2
<1>3. ASSUME e.qty > 0, ~Closed(entry) PROVE Sound(Subtracted(entry, e.qty))
  <2> DEFINE left == IF e.qty >= entry.remaining THEN 0 ELSE entry.remaining - e.qty
  <2>1. left \in Nat /\ left <= entry.remaining
    BY <1>1, <1>3
  <2>2. Subtracted(entry, e.qty) =
          [entry EXCEPT !.remaining = left,
                        !.status = IF left = 0 THEN "CANCELLED" ELSE entry.status]
    BY DEF Subtracted
  <2> DEFINE status == IF left = 0 THEN "CANCELLED" ELSE entry.status
  <2>3. Sound([entry EXCEPT !.remaining = left, !.status = status])
    <3> HIDE DEF left
    <3> QED BY <1>2, <1>3, <2>1
  <2> QED BY <2>2, <2>3
<1>4. ASSUME ~Closed(entry) PROVE Sound(SetTo(entry, e.qty))
  <2> DEFINE left    == IF e.qty < 0 THEN 0 ELSE e.qty
             total   == entry.filled + left
             initial == IF total > entry.initial THEN total ELSE entry.initial
             status  == IF left = 0 THEN "CANCELLED"
                        ELSE IF entry.filled > 0 THEN "PARTIALLY_FILLED" ELSE "OPEN"
  <2>1. left \in Nat /\ initial \in Nat /\ entry.filled + left <= initial
    BY <1>1
  <2>2. SetTo(entry, e.qty) =
          [entry EXCEPT !.remaining = left, !.initial = initial, !.status = status]
    BY DEF SetTo
  <2>3. status \in LedgerStatus /\ (status = "CANCELLED" <=> left = 0)
          /\ (status = "PARTIALLY_FILLED" <=> left # 0 /\ entry.filled > 0)
          /\ (status = "OPEN" <=> left # 0 /\ ~(entry.filled > 0))
    BY DEF LedgerStatus
  <2> HIDE DEF left, initial, status
  <2>4. SetTo(entry, e.qty) = [initial |-> initial, remaining |-> left,
                               filled |-> entry.filled, status |-> status]
    BY <1>1, <2>2 DEF Entry
  <2> QED BY <1>1, <2>1, <2>3, <2>4 DEF Sound, Entry, Consistent, Closed, LedgerStatus
<1>5. Sound(Deleted(entry))
  <2>1. /\ Deleted(entry) \in Entry
        /\ Deleted(entry).remaining = 0 /\ Deleted(entry).status = "CANCELLED"
    BY <1>1 DEF Entry, LedgerStatus, Deleted
  <2> QED BY <1>1, <2>1 DEF Sound, Entry, Consistent, Closed, LedgerStatus
<1> QED BY <1>3, <1>4, <1>5 DEF Changed

LEMMA UpdatedSound ==
  ASSUME NEW l, SoundLedger(l), NEW e, e.qty \in Int
  PROVE  SoundLedger(update_strategy_order(l, e))
<1>1. CASE e.source # "STRATEGY" \/ RejectedByLedger(l, e)
  BY <1>1 DEF update_strategy_order
<1>2. CASE e.source = "STRATEGY" /\ ~RejectedByLedger(l, e) /\ e.type = "ADD"
  <2>1. e.qty > 0
    BY <1>2 DEF RejectedByLedger
  <2>2. Sound(NewEntry(e.qty))
    BY <2>1 DEF NewEntry, Sound, Entry, Consistent, Closed, LedgerStatus
  <2>3. update_strategy_order(l, e) = WithEntry(l, e.id, NewEntry(e.qty))
    BY <1>2 DEF update_strategy_order
  <2> QED BY <2>2, <2>3 DEF SoundLedger, WithEntry
<1>3. CASE e.source = "STRATEGY" /\ ~RejectedByLedger(l, e) /\ e.type # "ADD"
  <2>1. CASE e.id \in DOMAIN l
    <3>1. update_strategy_order(l, e) =
            [l EXCEPT ![e.id] = Changed(l[e.id], e)]
      BY <1>3, <2>1 DEF update_strategy_order
    <3>2. Sound(Changed(l[e.id], e))
      BY <2>1, ChangedSound DEF SoundLedger
    <3> QED BY <3>1, <3>2 DEF SoundLedger
  <2>2. CASE e.id \notin DOMAIN l
    BY <1>3, <2>2 DEF update_strategy_order
  <2> QED BY <2>1, <2>2
<1> QED BY <1>1, <1>2, <1>3

LEMMA FillSound ==
  ASSUME NEW l, SoundLedger(l), NEW r, r.qty \in Int
  PROVE  SoundLedger(WithFill(l, r))
<1>1. ASSUME NEW k, SoundLedger(k), NEW id, NEW source
      PROVE  SoundLedger(apply_strategy_fill(k, id, source, r.qty))
  <2>1. CASE TakesFill(k, id, source, r.qty)
    <3>1. Sound(Filled(k[id], r.qty))
      BY <1>1, <2>1, FilledSound DEF TakesFill, SoundLedger
    <3>2. apply_strategy_fill(k, id, source, r.qty) = [k EXCEPT ![id] = Filled(k[id], r.qty)]
      BY <2>1 DEF apply_strategy_fill
    <3> QED BY <1>1, <3>1, <3>2 DEF SoundLedger
  <2> QED BY <1>1, <2>1 DEF apply_strategy_fill
<1> QED BY <1>1 DEF WithFill

-----------------------------------------------------------------------------
(***************************************************************************)
(* What an event and a fill make of one entry.                             *)
(***************************************************************************)
LEMMA EntryFacts ==
  ASSUME NEW entry, Sound(entry)
  PROVE  /\ entry \in Entry
         /\ entry.initial \in Nat
         /\ entry.remaining \in Nat
         /\ entry.filled \in Nat
         /\ entry.status \in LedgerStatus
         /\ entry.status = "CANCELLED" => entry.remaining = 0
         /\ ~Closed(entry) =>
              /\ entry.remaining > 0
              /\ entry.filled + entry.remaining <= entry.initial
              /\ entry.status = IF entry.filled > 0 THEN "PARTIALLY_FILLED" ELSE "OPEN"
BY DEF Sound, Entry, Consistent, Closed, LedgerStatus

LEMMA FilledFacts ==
  ASSUME NEW entry \in Entry, NEW qty \in Nat, qty <= entry.remaining
  PROVE  /\ Filled(entry, qty).initial = entry.initial
         /\ Filled(entry, qty).remaining = entry.remaining - qty
         /\ Filled(entry, qty).filled = entry.filled + qty
         /\ Filled(entry, qty).status =
              IF qty = entry.remaining THEN "FILLED" ELSE "PARTIALLY_FILLED"
<1> DEFINE left == IF qty >= entry.remaining THEN 0 ELSE entry.remaining - qty
<1>1. entry.remaining \in Nat
  BY DEF Entry
<1>2. left = entry.remaining - qty /\ (left = 0 <=> qty = entry.remaining)
  BY <1>1
<1>3. Filled(entry, qty) =
        [entry EXCEPT !.filled = entry.filled + qty, !.remaining = left,
                      !.status = IF left = 0 THEN "FILLED" ELSE "PARTIALLY_FILLED"]
  BY DEF Filled
<1> HIDE DEF left
<1> QED BY <1>2, <1>3 DEF Entry

LEMMA SubtractedFacts ==
  ASSUME NEW entry \in Entry, NEW qty \in Nat
  PROVE  /\ Subtracted(entry, qty).initial = entry.initial
         /\ Subtracted(entry, qty).filled = entry.filled
         /\ qty >= entry.remaining =>
              /\ Subtracted(entry, qty).remaining = 0
              /\ Subtracted(entry, qty).status = "CANCELLED"
         /\ qty < entry.remaining =>
              /\ Subtracted(entry, qty).remaining = entry.remaining - qty
              /\ Subtracted(entry, qty).status = entry.status
<1> DEFINE left == IF qty >= entry.remaining THEN 0 ELSE entry.remaining - qty
<1>1. entry.remaining \in Nat
  BY DEF Entry
<1>2. /\ qty >= entry.remaining => left = 0
      /\ qty < entry.remaining => left = entry.remaining - qty /\ left # 0
  BY <1>1
<1>3. Subtracted(entry, qty) =
        [entry EXCEPT !.remaining = left,
                      !.status = IF left = 0 THEN "CANCELLED" ELSE entry.status]
  BY DEF Subtracted
<1> HIDE DEF left
<1> QED BY <1>2, <1>3 DEF Entry

LEMMA SetToFacts ==
  ASSUME NEW entry \in Entry, NEW qty \in Int
  PROVE  /\ SetTo(entry, qty).filled = entry.filled
         /\ SetTo(entry, qty).remaining = IF qty < 0 THEN 0 ELSE qty
         /\ SetTo(entry, qty).filled + SetTo(entry, qty).remaining
              <= SetTo(entry, qty).initial
         /\ SetTo(entry, qty).status =
              IF qty <= 0 THEN "CANCELLED"
              ELSE IF entry.filled > 0 THEN "PARTIALLY_FILLED" ELSE "OPEN"
<1> DEFINE left    == IF qty < 0 THEN 0 ELSE qty
           total   == entry.filled + left
           initial == IF total > entry.initial THEN total ELSE entry.initial
           status  == IF left = 0 THEN "CANCELLED"
                      ELSE IF entry.filled > 0 THEN "PARTIALLY_FILLED" ELSE "OPEN"
<1>1. entry.filled \in Nat /\ entry.initial \in Nat
  BY DEF Entry
<1>2. total <= initial /\ (left = 0 <=> qty <= 0)
  BY <1>1
<1>3. SetTo(entry, qty) =
        [entry EXCEPT !.remaining = left, !.initial = initial, !.status = status]
  BY DEF SetTo
<1>4. status = IF qty <= 0 THEN "CANCELLED"
               ELSE IF entry.filled > 0 THEN "PARTIALLY_FILLED" ELSE "OPEN"
  BY <1>2
<1> HIDE DEF initial, status
<1>5. /\ SetTo(entry, qty).filled = entry.filled
      /\ SetTo(entry, qty).remaining = left
      /\ SetTo(entry, qty).initial = initial
      /\ SetTo(entry, qty).status = status
  <2> HIDE DEF left
  <2> QED BY <1>3 DEF Entry
<1> QED BY <1>2, <1>4, <1>5

LEMMA DeletedFacts ==
  ASSUME NEW entry \in Entry
  PROVE  /\ Deleted(entry).initial = entry.initial
         /\ Deleted(entry).filled = entry.filled
         /\ Deleted(entry).remaining = 0
         /\ Deleted(entry).status = "CANCELLED"
         /\ entry.status = "CANCELLED" /\ entry.remaining = 0 => Deleted(entry) = entry
BY DEF Deleted, Entry

\* No event changes an entry that is closed, and only three kinds of events
\* change one at all.
LEMMA ChangedFacts ==
  ASSUME NEW entry, Sound(entry), NEW e
  PROVE  /\ Closed(entry) => Changed(entry, e) = entry
         /\ e.type \notin {"SUBTRACT", "SET", "DELETE"} => Changed(entry, e) = entry
<1>1. entry \in Entry /\ (entry.status = "CANCELLED" => entry.remaining = 0)
  BY EntryFacts
<1> QED BY <1>1, DeletedFacts DEF Changed, Closed

(***************************************************************************)
(* What they make of the ledger.                                           *)
(***************************************************************************)
LEMMA UpdatedEntries ==
  ASSUME NEW l, SoundLedger(l), NEW e, e.qty \in Int
  PROVE  /\ DOMAIN update_strategy_order(l, e) =
              IF e.source = "STRATEGY" /\ e.type = "ADD" /\ e.qty > 0
                THEN DOMAIN l \cup {e.id} ELSE DOMAIN l
         /\ \A x \in DOMAIN l : update_strategy_order(l, e)[x] =
              IF e.source = "STRATEGY" /\ x = e.id THEN Changed(l[x], e) ELSE l[x]
         /\ (e.source = "STRATEGY" /\ e.type = "ADD" /\ e.qty > 0
               /\ e.id \notin DOMAIN l) =>
              update_strategy_order(l, e)[e.id] = NewEntry(e.qty)
<1> DEFINE new == update_strategy_order(l, e)
<1>1. CASE e.source # "STRATEGY"
  BY <1>1 DEF update_strategy_order
<1>2. CASE e.source = "STRATEGY" /\ e.type = "ADD"
  <2>1. \A x \in DOMAIN l : Changed(l[x], e) = l[x]
    BY <1>2, ChangedFacts DEF SoundLedger
  <2>2. CASE e.qty > 0 /\ e.id \notin DOMAIN l
    <3>1. new = WithEntry(l, e.id, NewEntry(e.qty))
      BY <1>2, <2>2 DEF update_strategy_order, RejectedByLedger
    <3> HIDE DEF new
    <3> QED BY <1>2, <2>1, <2>2, <3>1 DEF WithEntry, new
  <2>3. CASE ~(e.qty > 0 /\ e.id \notin DOMAIN l)
    <3>1. RejectedByLedger(l, e)
      BY <1>2, <2>3 DEF RejectedByLedger
    <3>2. new = l
      BY <3>1 DEF update_strategy_order
    <3> HIDE DEF new
    <3> QED BY <1>2, <2>1, <2>3, <3>2 DEF new
  <2> QED BY <2>2, <2>3
<1>3. CASE e.source = "STRATEGY" /\ e.type # "ADD"
  <2>1. CASE RejectedByLedger(l, e)
    <3>1. new = l /\ \A x \in DOMAIN l : Changed(l[x], e) = l[x]
      BY <1>3, <2>1 DEF update_strategy_order, RejectedByLedger, Changed
    <3> HIDE DEF new
    <3> QED BY <1>3, <3>1 DEF new
  <2>2. CASE ~RejectedByLedger(l, e) /\ e.id \in DOMAIN l
    <3>1. new = [l EXCEPT ![e.id] = Changed(l[e.id], e)]
      BY <1>3, <2>2 DEF update_strategy_order
    <3> HIDE DEF new
    <3> QED BY <1>3, <3>1 DEF new
  <2>3. CASE ~RejectedByLedger(l, e) /\ e.id \notin DOMAIN l
    <3>1. new = l
      BY <1>3, <2>3 DEF update_strategy_order
    <3> HIDE DEF new
    <3> QED BY <1>3, <2>3, <3>1 DEF new
  <2> QED BY <2>1, <2>2, <2>3
<1> QED BY <1>1, <1>2, <1>3

\* Who is credited with a fill: the maker, and then the taker.
Credits(id, r) ==
  \/ id = r.maker /\ r.maker_source = "STRATEGY"
  \/ id = r.taker /\ r.taker_source = "STRATEGY"

LEMMA FilledEntries ==
  ASSUME NEW l, NEW r
  PROVE  /\ DOMAIN WithFill(l, r) = DOMAIN l
         /\ \A x \in DOMAIN l :
              ~Credits(x, r) \/ x = UnknownOrderId \/ l[x].status = "CANCELLED" =>
                WithFill(l, r)[x] = l[x]
         /\ \A x \in DOMAIN l :
              (/\ Credits(x, r) /\ x # UnknownOrderId
               /\ l[x].status # "CANCELLED" /\ r.qty > 0
               /\ ~(/\ r.maker = r.taker /\ r.maker_source = "STRATEGY"
                    /\ r.taker_source = "STRATEGY"))
                => WithFill(l, r)[x] = Filled(l[x], r.qty)
<1> DEFINE once == apply_strategy_fill(l, r.maker, r.maker_source, r.qty)
<1>1. ASSUME NEW k, NEW id, NEW source
      PROVE  /\ DOMAIN apply_strategy_fill(k, id, source, r.qty) = DOMAIN k
             /\ \A x \in DOMAIN k : apply_strategy_fill(k, id, source, r.qty)[x] =
                  IF x = id /\ TakesFill(k, id, source, r.qty)
                    THEN Filled(k[x], r.qty) ELSE k[x]
  BY DEF apply_strategy_fill
<1>2. /\ DOMAIN once = DOMAIN l
      /\ \A x \in DOMAIN l : once[x] =
           IF x = r.maker /\ TakesFill(l, r.maker, r.maker_source, r.qty)
             THEN Filled(l[x], r.qty) ELSE l[x]
  BY <1>1
<1> HIDE DEF once
<1>3. /\ DOMAIN WithFill(l, r) = DOMAIN l
      /\ \A x \in DOMAIN l : WithFill(l, r)[x] =
           IF x = r.taker /\ TakesFill(once, r.taker, r.taker_source, r.qty)
             THEN Filled(once[x], r.qty) ELSE once[x]
  BY <1>1, <1>2 DEF WithFill, once
<1>4. ASSUME NEW x \in DOMAIN l,
             ~Credits(x, r) \/ x = UnknownOrderId \/ l[x].status = "CANCELLED"
      PROVE  WithFill(l, r)[x] = l[x]
  <2>1. once[x] = l[x]
    BY <1>2, <1>4 DEF TakesFill, Credits
  <2> QED BY <1>3, <1>4, <2>1 DEF TakesFill, Credits
<1>5. ASSUME NEW x \in DOMAIN l, Credits(x, r), x # UnknownOrderId,
             l[x].status # "CANCELLED", r.qty > 0,
             ~(/\ r.maker = r.taker /\ r.maker_source = "STRATEGY"
               /\ r.taker_source = "STRATEGY")
      PROVE  WithFill(l, r)[x] = Filled(l[x], r.qty)
  <2>1. CASE x = r.maker /\ r.maker_source = "STRATEGY"
    <3>1. once[x] = Filled(l[x], r.qty)
      BY <1>2, <1>5, <2>1 DEF TakesFill
    <3> QED BY <1>3, <1>5, <2>1, <3>1 DEF TakesFill
  <2>2. CASE ~(x = r.maker /\ r.maker_source = "STRATEGY")
    <3>1. once[x] = l[x] /\ x = r.taker /\ r.taker_source = "STRATEGY"
      BY <1>2, <1>5, <2>2 DEF TakesFill, Credits
    <3> QED BY <1>2, <1>3, <1>5, <3>1 DEF TakesFill
  <2> QED BY <2>1, <2>2
<1> QED BY <1>3, <1>4, <1>5

-----------------------------------------------------------------------------
(***************************************************************************)
(* The inductive invariant.                                                *)
(***************************************************************************)
Rests(id) == id \in DOMAIN paper_orders

\* The entry of an id is what the engine has: LedgerAgrees, and besides that
\* the lots of an order on its way add up to what the event asked for, which
\* is its status when it comes to rest.
TracksOrder(id) ==
  LET entry == ledger[id]
  IN  /\ Closed(entry) <=> ~Rests(id) /\ ~Incoming(id)
      /\ Rests(id) => /\ entry.remaining = paper_orders[id].remaining
                      /\ entry.status = paper_orders[id].status
      /\ Incoming(id) => /\ entry.remaining = call.remaining
                         /\ entry.filled + call.remaining = call.event.qty
      /\ entry.filled + entry.remaining <= entry.initial

Tracked(id) ==
  id \notin estranged =>
    /\ Rests(id) \/ Incoming(id) => id \in DOMAIN ledger
    /\ id \in DOMAIN ledger => TracksOrder(id)

\* An aggressive trade is credited to no id that the ledger still follows.
AggressorUnknown ==
  (/\ Handling
   /\ call.event.type = "AGGRESSIVE_TRADE"
   /\ call.event.id \in DOMAIN ledger) => call.event.id \in estranged

\* A paper order never trades with paper orders.
PaperPhase ==
  call.pc = "paper" =>
    ~(call.event.type = "ADD" /\ call.event.source = "STRATEGY")

LedgerFollows ==
  /\ DOMAIN ledger \subseteq Ids
  /\ SoundLedger(ledger)
  /\ PaperPhase
  /\ Reported => AggressorUnknown /\ \A id \in Ids : Tracked(id)

LedgerInvariant == Inductive /\ LedgerFollows
-----------------------------------------------------------------------------
(***************************************************************************)
(* What a step of the engine means to the ledger.  Most mean nothing: no   *)
(* paper order changes, and if there is a fill nobody is credited.         *)
(***************************************************************************)
Silent ==
  /\ paper_orders' = paper_orders
  /\ \A id \in Ids :
       /\ Incoming(id)' <=> Incoming(id)
       /\ Incoming(id) => call'.remaining = call.remaining
                            /\ call'.event = call.event
  /\ ~Dropped
  /\ Fills => /\ Last(call'.fills).source = "HISTORICAL"
              /\ Last(call'.fills).qty \in Nat
              /\ call.event.source = "HISTORICAL" \/ call.event.type = "MATCH"

Reports(f) == Fills /\ Last(call'.fills) = f /\ f.qty \in Nat /\ f.qty > 0

\* A paper order is the maker of a trade ...
PaperTraded(f) ==
  /\ Reports(f)
  /\ f.source = "STRATEGY"
  /\ f.maker \in DOMAIN paper_orders
  /\ f.qty <= paper_orders[f.maker].remaining
  /\ \E told : LeavePaperOrder(f.maker, f.qty, told, "PARTIALLY_FILLED")
  /\ call.pc \in {"queue", "paper"}
  /\ call'.pc = call.pc

\* ... or the taker.
StrategyTraded(f) ==
  /\ Reports(f)
  /\ f.source = "HISTORICAL"
  /\ f.qty <= call.remaining
  /\ call'.remaining = call.remaining - f.qty
  /\ call.event.source = "STRATEGY"
  /\ call'.event = call.event
  /\ call.pc = "sweep"
  /\ call'.pc = "sweep"
  /\ paper_orders' = paper_orders

LEMMA LastOfAppended ==
  ASSUME NEW S, NEW s \in Seq(S), NEW x \in S
  PROVE  Last(Append(s, x)) = x
<1>1. Len(s) \in Nat /\ Len(Append(s, x)) = Len(s) + 1 /\ Append(s, x)[Len(s) + 1] = x
  BY AppendProperties, LenProperties
<1> QED BY <1>1 DEF Last

LEMMA SilentCalls ==
  ASSUME Inductive, paper_orders' = paper_orders, ~Dropped,
         \/ call' = Idle /\ ~(call.event.type = "ADD" /\ call.event.source = "STRATEGY")
         \/ call' = Idle /\ call.remaining = 0
         \/ call' = Idle /\ call.pc \notin {"sweep", "rest", "mirror"}
         \/ /\ call'.event = call.event
            /\ call'.remaining = call.remaining
            /\ call'.fills = call.fills
            /\ \/ call.pc \in {"sweep", "rest", "mirror"} <=>
                    call'.pc \in {"sweep", "rest", "mirror"}
               \/ ~(call.event.type = "ADD" /\ call.event.source = "STRATEGY")
         \/ /\ call.pc \in {"l2", "l3"}
            /\ call'.pc = call.pc
  PROVE  Silent
<1>1. call.remaining = 0 => ~(call.remaining > 0)
  OBVIOUS
<1> QED BY <1>1 DEF Silent, Incoming, Running, Fills, Handling, Idle

LEMMA HistoricalSweepSilent ==
  ASSUME Inductive, HistoricalSweep
  PROVE  Silent
<1>1. /\ call.pc = "sweep"
      /\ call.event.source = "HISTORICAL"
      /\ paper_orders' = paper_orders
  BY Zenon DEF HistoricalSweep, paperVars
<1>2. /\ call \in Handler
      /\ call.remaining \in Nat
      /\ call.side \in Sides
      /\ call.fills \in Seq(Fill)
  BY <1>1, HandlerFacts
<1>3. PICK p \in NextPrice :
        LET queue == book[call.side][p]
            n     == Head(queue)
            take  == Lesser(node[n].qty, call.remaining)
            gone  == take = node[n].qty
            left  == take = call.remaining \/ (gone /\ Len(queue) = 1)
            lots  == call.lots + take
        IN  call' = [call EXCEPT
                !.pc = IF left /\ lots > 0 THEN "queue" ELSE "sweep",
                !.price = p,
                !.remaining = @ - take,
                !.lots = lots,
                !.deltas = IF take > 0 THEN Append(@, [seq |-> n, qty |-> take])
                                       ELSE @,
                !.fills = IF take > 0 THEN Append(@, BookFill(n, p, take))
                                      ELSE @]
  BY Zenon DEF HistoricalSweep
<1> DEFINE n    == Head(book[call.side][p])
           take == Lesser(node[n].qty, call.remaining)
<1>4. /\ p \in Prices
      /\ p \in DOMAIN book[call.side]
      /\ Len(book[call.side][p]) >= 1
      /\ book[call.side][p] # <<>>
  BY <1>2, NextPriceFacts
<1>5. n \in DOMAIN node /\ node[n].qty \in Nat
  BY <1>2, <1>4, QueueFacts DEF Inductive
<1>6. take \in Nat
  <2>1. node[n].qty \in Int /\ call.remaining \in Int
    BY <1>2, <1>5
  <2> QED BY <1>2, <1>5, <2>1, LesserFacts
<1>7. /\ call'.event = call.event
      /\ call'.pc # "idle"
      /\ call'.fills = IF take > 0 THEN Append(call.fills, BookFill(n, p, take))
                                   ELSE call.fills
  <2> HIDE DEF take, n
  <2> QED BY <1>2, <1>3 DEF Handler, take, n
<1>8. BookFill(n, p, take) \in Fill
  BY <1>2, <1>4, <1>5, <1>6, BookFillType
<1>9. Last(Append(call.fills, BookFill(n, p, take))) = BookFill(n, p, take)
  BY <1>2, <1>8, LastOfAppended
<1>10. BookFill(n, p, take).source = "HISTORICAL" /\ BookFill(n, p, take).qty = take
  BY DEF BookFill
<1> HIDE DEF take, n
<1>11. Fills => Last(call'.fills).source = "HISTORICAL" /\ Last(call'.fills).qty \in Nat
  BY <1>6, <1>7, <1>9, <1>10 DEF Fills
<1> QED BY <1>1, <1>7, <1>11 DEF Silent, Incoming, Dropped

LEMMA MatchFillSilent ==
  ASSUME Inductive, MatchFill
  PROVE  Silent
<1> DEFINE e    == call.event
           fill == BookFill(NodeOf(e.id), Price(e.id), Taken(e))
<1>1. /\ call.pc = "settle"
      /\ e.type = "MATCH"
      /\ call' = [call EXCEPT !.pc = "reduce", !.fills = Append(@, fill)]
      /\ paper_orders' = paper_orders
  BY DEF MatchFill, paperVars
<1>2. /\ call \in Handler
      /\ HandlerState
      /\ call.fills \in Seq(Fill)
      /\ e.qty \in Nat
  BY <1>1, HandlerFacts
<1>3. e.id \in DOMAIN order_info
  BY <1>1, <1>2 DEF HandlerState
<1>4. Taken(e) \in Nat
  BY <1>2, <1>3, TakenFacts
<1>5. /\ call'.pc = "reduce"
      /\ call'.event = call.event
      /\ call'.fills = Append(call.fills, fill)
  <2> HIDE DEF fill
  <2> QED BY <1>1, <1>2 DEF Handler
<1>6. fill.source = "HISTORICAL" /\ fill.qty = Taken(e)
  BY DEF BookFill
<1>7. fill \in Fill
  <2>1. /\ NodeOf(e.id) \in DOMAIN node
        /\ Price(e.id) \in Prices
    BY <1>3, OrderFacts DEF Inductive
  <2> QED BY <1>2, <1>4, <2>1, BookFillType
<1>8. Last(call'.fills) = fill
  <2> HIDE DEF fill
  <2> QED BY <1>2, <1>5, <1>7, LastOfAppended
<1> QED BY <1>1, <1>4, <1>5, <1>6, <1>8 DEF Silent, Incoming, Running, Dropped

(***************************************************************************)
(* The steps that trade with a paper order, and those that do not.         *)
(***************************************************************************)
LEMMA FillReported ==
  ASSUME Inductive, Handling, NEW f \in Fill, f.qty > 0,
         call'.pc # "idle", call'.fills = Append(call.fills, f)
  PROVE  Reports(f)
<1>1. call.fills \in Seq(Fill)
  BY HandlerFacts DEF Handling
<1>2. Last(call'.fills) = f
  BY <1>1, LastOfAppended
<1>3. call'.fills # call.fills
  <2>1. Len(Append(call.fills, f)) = Len(call.fills) + 1 /\ Len(call.fills) \in Nat
    BY <1>1, AppendProperties, LenProperties
  <2> QED BY <2>1
<1>4. f.qty \in Nat
  BY DEF Fill
<1> QED BY <1>2, <1>3, <1>4 DEF Reports, Fills, Idle

LEMMA QueueFillTrades ==
  ASSUME Inductive, QueueFill
  PROVE  \E f \in Fill : PaperTraded(f)
<1>1. PICK id \in DOMAIN paper_orders, fill, lots, ahead \in Nat :
        /\ fill > 0
        /\ fill <= paper_orders[id].remaining
        /\ PaperFill(id, call.price, fill) \in Fill
        /\ TakeFromPaperOrder(id, fill, "PARTIALLY_FILLED")
        /\ call' = [call EXCEPT
             !.lots = lots - fill,
             !.consumed = @ + ahead,
             !.fills = Append(@, PaperFill(id, call.price, fill))]
  BY QueueFillTakes
<1>2. call.pc = "queue"
  BY DEF QueueFill
<1>3. call \in Handler
  BY <1>2, HandlerFacts
<1> DEFINE f == PaperFill(id, call.price, fill)
<1>4. f.source = "STRATEGY" /\ f.maker = id /\ f.qty = fill
  BY DEF PaperFill
<1> HIDE DEF f
<1>5. call'.pc = "queue" /\ call'.fills = Append(call.fills, f)
  BY <1>1, <1>2, <1>3 DEF Handler, f
<1>6. f \in Fill
  BY <1>1 DEF f
<1>7. Reports(f)
  BY <1>1, <1>2, <1>4, <1>5, <1>6, FillReported DEF Handling
<1> QED BY <1>1, <1>2, <1>4, <1>5, <1>6, <1>7 DEF PaperTraded, TakeFromPaperOrder

LEMMA TradeAgainstPaperTrades ==
  ASSUME Inductive, TradeAgainstPaper
  PROVE  \E f \in Fill : PaperTraded(f)
<1>1. PICK id \in DOMAIN paper_orders, fill \in Nat, p \in Prices :
        /\ fill > 0
        /\ fill <= paper_orders[id].remaining
        /\ PaperFill(id, p, fill) \in Fill
        /\ FillPaperOrder(id, fill)
        /\ call' = [call EXCEPT
             !.price = p,
             !.remaining = @ - fill,
             !.fills = Append(@, PaperFill(id, p, fill))]
  BY PaperTradeTakes
<1>2. call.pc = "paper"
  BY DEF TradeAgainstPaper
<1>3. call \in Handler
  BY <1>2, HandlerFacts
<1> DEFINE f == PaperFill(id, p, fill)
<1>4. f.source = "STRATEGY" /\ f.maker = id /\ f.qty = fill
  BY DEF PaperFill
<1> HIDE DEF f
<1>5. call'.pc = "paper" /\ call'.fills = Append(call.fills, f)
  BY <1>1, <1>2, <1>3 DEF Handler, f
<1>6. f \in Fill
  BY <1>1 DEF f
<1>7. Reports(f)
  BY <1>1, <1>2, <1>4, <1>5, <1>6, FillReported DEF Handling
<1>8. \E told : LeavePaperOrder(id, fill, told, "PARTIALLY_FILLED")
  BY <1>1, Zenon DEF FillPaperOrder
<1> QED BY <1>1, <1>2, <1>4, <1>5, <1>6, <1>7, <1>8 DEF PaperTraded

LEMMA StrategySweepTrades ==
  ASSUME Inductive, StrategySweep
  PROVE  Silent \/ \E f \in Fill : StrategyTraded(f)
<1>1. /\ call.pc = "sweep"
      /\ call.event.source = "STRATEGY"
      /\ paper_orders' = paper_orders
  BY DEF StrategySweep, paperVars
<1>2. /\ call \in Handler
      /\ HandlerState
      /\ call.side \in Sides
      /\ call.it \in Nat \ {0}
      /\ call.remaining \in Nat
  BY <1>1, HandlerFacts
<1>3. PICK p \in NextPrice :
        LET queue == book[call.side][p]
            n     == queue[call.it]
            take  == Lesser(node[n].qty, call.remaining)
            left  == take = call.remaining \/ call.it = Len(queue)
            stack == Pruned(call.heap_copy, call.side)
        IN  call' = [call EXCEPT
                      !.price = p,
                      !.remaining = @ - take,
                      !.it = IF left THEN 1 ELSE @ + 1,
                      !.heap_copy = IF left THEN AllPopped(stack, p) ELSE stack,
                      !.fills = IF take > 0
                                THEN Append(@, BookFill(n, p, take)) ELSE @]
  BY Zenon DEF StrategySweep
<1> DEFINE n    == book[call.side][p][call.it]
           take == Lesser(node[n].qty, call.remaining)
           f    == BookFill(n, p, take)
<1>4. /\ p \in Prices
      /\ p \in DOMAIN book[call.side]
      /\ call.it <= Len(book[call.side][p])
  BY <1>1, <1>2, NextPriceFacts DEF NextPrice, HandlerState
<1>5. n \in DOMAIN node /\ node[n].qty \in Nat
  BY <1>2, <1>4, QueueFacts DEF Inductive
<1>6. take \in Nat /\ take <= call.remaining
  <2>1. node[n].qty \in Int /\ call.remaining \in Int
    BY <1>2, <1>5
  <2> QED BY <1>2, <1>5, <2>1, LesserFacts
<1>7. f \in Fill /\ f.source = "HISTORICAL" /\ f.qty = take
  <2>1. f \in Fill
    BY <1>2, <1>4, <1>5, <1>6, BookFillType
  <2> QED BY <2>1 DEF BookFill
<1> HIDE DEF f
<1>8. /\ call'.pc = "sweep"
      /\ call'.event = call.event
      /\ call'.remaining = call.remaining - take
      /\ call'.fills = IF take > 0 THEN Append(call.fills, f) ELSE call.fills
  <2> HIDE DEF take, n
  <2> QED BY <1>1, <1>2, <1>3 DEF Handler, take, n, f
<1> HIDE DEF take, n
<1>9. CASE take = 0
  <2>1. call'.remaining = call.remaining /\ call'.fills = call.fills
    BY <1>2, <1>8, <1>9
  <2>2. ~Dropped
    BY <1>1 DEF Dropped
  <2> QED BY <1>1, <1>8, <2>1, <2>2, SilentCalls
<1>10. CASE take # 0
  <2>1. take > 0
    BY <1>6, <1>10
  <2>2. Reports(f)
    BY <1>1, <1>7, <1>8, <2>1, FillReported DEF Handling
  <2> QED BY <1>1, <1>6, <1>7, <1>8, <2>2 DEF StrategyTraded
<1> QED BY <1>9, <1>10

\* The rest of a paper order is dropped, or rests.
RestIsDropped == Dropped /\ paper_orders' = paper_orders

LEMMA EndAddEffect ==
  ASSUME Inductive, EndAdd
  PROVE  Silent \/ RestIsDropped
<1>1. /\ call.pc = "rest"
      /\ call' = Idle
      /\ paper_orders' = paper_orders
  BY DEF EndAdd, paperVars
<1>2. call.event.source \in Sources /\ call.remaining \in Nat
  BY <1>1, HandlerFacts
<1>3. CASE call.event.source = "STRATEGY" /\ call.remaining > 0
  BY <1>1, <1>3 DEF RestIsDropped, Dropped
<1>4. CASE call.event.source = "HISTORICAL"
  BY <1>1, <1>4, SilentCalls DEF Dropped
<1>5. CASE call.remaining = 0
  <2>1. ~Dropped
    BY <1>5 DEF Dropped
  <2> QED BY <1>1, <1>5, <2>1, SilentCalls
<1> QED BY <1>2, <1>3, <1>4, <1>5 DEF Sources

LEMMA QuietSteps ==
  ASSUME Inductive, PaperPhase,
         \/ EndSweep \/ EndQueue \/ Settle \/ EndLevel \/ EndPaper
         \/ RestHistorical \/ AcquirePaperNode \/ MirrorNode
         \/ EndMatch \/ L2Row \/ L3Row \/ EndSnapshot
  PROVE  Silent
<1>1. CASE EndSweep
  <2>1. /\ call.pc = "sweep"
        /\ call' = [call EXCEPT !.pc =
             IF call.event.type = "ADD" /\ call.event.source = "STRATEGY"
               THEN "rest" ELSE "paper"]
        /\ paper_orders' = paper_orders
    BY <1>1 DEF EndSweep, paperVars
  <2>2. call \in Handler
    BY <2>1, HandlerFacts
  <2>3. ~Dropped
    BY <2>1 DEF Dropped
  <2> QED BY <2>1, <2>2, <2>3, SilentCalls DEF Handler
<1>2. CASE EndQueue
  <2>1. /\ call.pc = "queue"
        /\ call' = [call EXCEPT !.pc = "settle"]
        /\ paper_orders' = paper_orders
    BY <1>2 DEF EndQueue, paperVars
  <2>2. call \in Handler
    BY <2>1, HandlerFacts
  <2>3. ~Dropped
    BY <2>1 DEF Dropped
  <2> QED BY <2>1, <2>2, <2>3, SilentCalls DEF Handler
<1>3. CASE Settle
  <2>1. /\ call.pc = "settle"
        /\ call' = [call EXCEPT !.deltas = Tail(@)]
        /\ paper_orders' = paper_orders
    BY <1>3 DEF Settle
  <2>2. call \in Handler
    BY <2>1, HandlerFacts
  <2>3. ~Dropped
    BY <2>1 DEF Dropped
  <2> QED BY <2>1, <2>2, <2>3, SilentCalls DEF Handler
<1>4. CASE EndLevel
  <2>1. /\ call.pc = "settle"
        /\ call.event.type = "ADD"
        /\ call' = [call EXCEPT !.pc = "sweep", !.lots = 0, !.consumed = 0]
        /\ paper_orders' = paper_orders
    BY <1>4 DEF EndLevel, paperVars
  <2>2. call \in Handler /\ call.event.source = "HISTORICAL"
    BY <2>1, HandlerFacts DEF HandlerState
  <2>3. ~Dropped
    BY <2>1 DEF Dropped
  <2> QED BY <2>1, <2>2, <2>3, SilentCalls DEF Handler
<1>5. CASE EndPaper
  <2>1. /\ call.pc = "paper"
        /\ call' = IF call.event.type = "ADD" THEN [call EXCEPT !.pc = "rest"] ELSE Idle
        /\ paper_orders' = paper_orders
        /\ ~(call.event.type = "ADD" /\ call.event.source = "STRATEGY")
    BY <1>5 DEF EndPaper, paperVars, PaperPhase
  <2>2. call \in Handler
    BY <2>1, HandlerFacts
  <2>3. ~Dropped
    BY <2>1 DEF Dropped
  <2> QED BY <2>1, <2>2, <2>3, SilentCalls DEF Handler
<1>6. CASE RestHistorical
  <2>1. /\ call.event.source = "HISTORICAL"
        /\ call' = Idle
        /\ paper_orders' = paper_orders
    BY <1>6 DEF RestHistorical
  <2> QED BY <2>1, SilentCalls DEF Dropped
<1>7. CASE AcquirePaperNode
  <2>1. /\ call.pc = "rest"
        /\ call' = [call EXCEPT !.pc = "mirror", !.it = 1]
        /\ paper_orders' = paper_orders
    BY <1>7 DEF AcquirePaperNode
  <2>2. call \in Handler
    BY <2>1, HandlerFacts
  <2>3. call'.pc = "mirror"
    BY <2>1, <2>2 DEF Handler
  <2>4. ~Dropped
    BY <2>3 DEF Dropped, Idle
  <2> QED BY <2>1, <2>2, <2>3, <2>4, SilentCalls DEF Handler
<1>8. CASE MirrorNode
  <2>1. /\ call.pc = "mirror"
        /\ call' = [call EXCEPT !.it = @ + 1]
        /\ paper_orders' = paper_orders
    BY <1>8 DEF MirrorNode
  <2>2. call \in Handler
    BY <2>1, HandlerFacts
  <2>3. ~Dropped
    BY <2>1 DEF Dropped
  <2> QED BY <2>1, <2>2, <2>3, SilentCalls DEF Handler
<1>9. CASE EndMatch
  <2>1. /\ call.pc = "reduce"
        /\ call' = Idle
        /\ paper_orders' = paper_orders
    BY <1>9 DEF EndMatch, paperVars
  <2> QED BY <2>1, SilentCalls DEF Dropped
<1>10. CASE L2Row \/ L3Row \/ EndSnapshot
  <2>1. /\ call.pc \in {"l2", "l3"}
        /\ call' = Idle \/ call' = [call EXCEPT !.rows = Tail(@)]
        /\ paper_orders' = paper_orders
    BY <1>10 DEF L2Row, L3Row, EndSnapshot, NextRow, paperVars
  <2>2. call \in Load
    BY <2>1, CallKinds
  <2>3. call' = Idle \/ call'.pc = call.pc
    BY <2>1, <2>2 DEF Load
  <2> QED BY <2>1, <2>3, SilentCalls DEF Dropped
<1> QED BY <1>1, <1>2, <1>3, <1>4, <1>5, <1>6, <1>7, <1>8, <1>9, <1>10

LEMMA ContinueEffects ==
  ASSUME Inductive, PaperPhase, Continue
  PROVE  \/ Silent
         \/ \E f \in Fill : PaperTraded(f)
         \/ \E f \in Fill : StrategyTraded(f)
         \/ RestIsDropped
         \/ RestStrategy
BY QuietSteps, EndAddEffect, HistoricalSweepSilent, MatchFillSilent,
   QueueFillTrades, TradeAgainstPaperTrades, StrategySweepTrades
   DEF Continue

(***************************************************************************)
(* An event stays that of the call, and only the remainder of historical   *)
(* orders and aggressive trades comes to trade with paper orders.          *)
(***************************************************************************)
LEMMA LedgerCallGoesOn ==
  ASSUME Inductive, PaperPhase, Continue
  PROVE  /\ Handling' => Handling /\ call'.event = call.event
         /\ PaperPhase'
<1>1. CASE EndSweep \/ EndQueue \/ Settle \/ EndLevel \/ EndPaper \/ AcquirePaperNode
             \/ MirrorNode
  <2>1. call.pc \in {"sweep", "queue", "settle", "paper", "rest", "mirror"}
    BY <1>1 DEF EndSweep, EndQueue, Settle, EndLevel, EndPaper, AcquirePaperNode,
                MirrorNode
  <2>2. call \in Handler /\ Handling
    BY <2>1, HandlerFacts DEF Handling
  <2>3. CASE EndSweep
    <3> DEFINE next == IF call.event.type = "ADD" /\ call.event.source = "STRATEGY"
                         THEN "rest" ELSE "paper"
    <3>1. call' = [call EXCEPT !.pc = next]
      BY <2>3 DEF EndSweep
    <3> HIDE DEF next
    <3>2. call'.pc = next /\ call'.event = call.event
      BY <2>2, <3>1 DEF Handler
    <3> QED BY <2>2, <3>2 DEF PaperPhase, next
  <2>4. CASE EndPaper
    <3>1. call' = IF call.event.type = "ADD" THEN [call EXCEPT !.pc = "rest"] ELSE Idle
      BY <2>4 DEF EndPaper
    <3> QED BY <2>2, <3>1 DEF Handler, PaperPhase, Handling, Idle
  <2>5. CASE EndQueue \/ Settle \/ EndLevel \/ AcquirePaperNode \/ MirrorNode
    <3>1. \/ call' = [call EXCEPT !.pc = "settle"]
          \/ call' = [call EXCEPT !.deltas = Tail(@)] /\ call.pc = "settle"
          \/ call' = [call EXCEPT !.pc = "sweep", !.lots = 0, !.consumed = 0]
          \/ call' = [call EXCEPT !.pc = "mirror", !.it = 1]
          \/ call' = [call EXCEPT !.it = @ + 1] /\ call.pc = "mirror"
      BY <2>5 DEF EndQueue, Settle, EndLevel, AcquirePaperNode, MirrorNode
    <3>2. call'.event = call.event /\ call'.pc # "paper"
      BY <2>2, <3>1 DEF Handler
    <3> QED BY <2>2, <3>2 DEF PaperPhase
  <2> QED BY <1>1, <2>3, <2>4, <2>5
<1>2. CASE EndAdd \/ RestHistorical \/ RestStrategy \/ EndMatch
  BY <1>2 DEF EndAdd, RestHistorical, RestStrategy, EndMatch, Idle, Handling, PaperPhase
<1>3. CASE L2Row \/ L3Row \/ EndSnapshot
  <2>1. /\ call.pc \in {"l2", "l3"}
        /\ call' = Idle \/ call' = [call EXCEPT !.rows = Tail(@)]
    BY <1>3 DEF L2Row, L3Row, EndSnapshot, NextRow
  <2>2. call \in Load
    BY <2>1, CallKinds
  <2>3. call'.pc \in {"idle", "l2", "l3"}
    BY <2>1, <2>2 DEF Load, Idle
  <2> QED BY <2>3 DEF Handling, PaperPhase
<1>4. CASE StrategySweep \/ HistoricalSweep
  <2>1. call.pc = "sweep"
    BY <1>4, Zenon DEF StrategySweep, HistoricalSweep
  <2>2. call \in Handler
    BY <2>1, HandlerFacts
  <2>3. call'.event = call.event /\ call'.pc \in {"sweep", "queue"}
    <3>1. CASE StrategySweep
      BY <2>1, <2>2, <3>1 DEF StrategySweep, Handler
    <3>2. CASE HistoricalSweep
      BY <2>1, <2>2, <3>2, ZenonT(60) DEF HistoricalSweep, Handler
    <3> QED BY <1>4, <3>1, <3>2
  <2> QED BY <2>1, <2>3 DEF Handling, PaperPhase
<1>5. CASE QueueFill \/ TradeAgainstPaper
  <2>1. call.pc \in {"queue", "paper"}
    BY <1>5, Zenon DEF QueueFill, TradeAgainstPaper
  <2>2. call \in Handler
    BY <2>1, HandlerFacts
  <2>3. call'.event = call.event /\ call'.pc = call.pc
    <3>1. CASE QueueFill
      BY <2>1, <2>2, <3>1 DEF QueueFill, Handler
    <3>2. CASE TradeAgainstPaper
      BY <2>1, <2>2, <3>2 DEF TradeAgainstPaper, Handler
    <3> QED BY <1>5, <3>1, <3>2
  <2> QED BY <2>1, <2>3 DEF Handling, PaperPhase
<1>6. CASE MatchFill
  <2>1. call.pc = "settle"
    BY <1>6 DEF MatchFill
  <2>2. call \in Handler
    BY <2>1, HandlerFacts
  <2>3. call'.event = call.event /\ call'.pc = "reduce"
    BY <1>6, <2>2 DEF MatchFill, Handler
  <2> QED BY <2>1, <2>3 DEF Handling, PaperPhase
<1> QED BY <1>1, <1>2, <1>3, <1>4, <1>5, <1>6 DEF Continue
-----------------------------------------------------------------------------
(***************************************************************************)
(* What the ledger follows and what it does not.                           *)
(***************************************************************************)
Unmoved(id) ==
  /\ Rests(id)' <=> Rests(id)
  /\ Rests(id) => paper_orders'[id] = paper_orders[id]
  /\ Incoming(id)' <=> Incoming(id)
  /\ Incoming(id) => call'.remaining = call.remaining /\ call'.event = call.event
  /\ id \in DOMAIN ledger' <=> id \in DOMAIN ledger
  /\ id \in DOMAIN ledger => ledger'[id] = ledger[id]
  /\ id \in estranged => id \in estranged'

LEMMA StaysTracked ==
  ASSUME NEW id, Tracked(id), Unmoved(id)
  PROVE  Tracked(id)'
BY DEF Tracked, TracksOrder, Rests, Unmoved, Closed

\* Lots that leave one paper order leave the others alone.
LEMMA LedgerOrderTaken ==
  ASSUME PaperInvariant, NEW id \in DOMAIN paper_orders, NEW qty, NEW told, NEW status,
         LeavePaperOrder(id, qty, told, status)
  PROVE  /\ \A x : x # id =>
              /\ x \in DOMAIN paper_orders' <=> x \in DOMAIN paper_orders
              /\ x \in DOMAIN paper_orders => paper_orders'[x] = paper_orders[x]
         /\ qty = paper_orders[id].remaining => id \notin DOMAIN paper_orders'
         /\ qty # paper_orders[id].remaining =>
              /\ id \in DOMAIN paper_orders'
              /\ paper_orders'[id].remaining = paper_orders[id].remaining - qty
              /\ paper_orders'[id].status = status
<1>1. paper_orders[id] \in PaperOrder
  BY PaperOrderFacts
<1>2. CASE qty = paper_orders[id].remaining
  <2>1. paper_orders' = Erased(paper_orders, id)
    BY <1>2 DEF LeavePaperOrder
  <2> QED BY <1>2, <2>1 DEF Erased, Restrict
<1>3. CASE qty # paper_orders[id].remaining
  <2>1. paper_orders' = [paper_orders EXCEPT ![id].remaining = @ - qty,
                                             ![id].status = status]
    BY <1>3 DEF LeavePaperOrder
  <2> QED BY <1>1, <1>3, <2>1 DEF PaperOrder
<1> QED BY <1>2, <1>3

\* An order on its way does not rest yet.
LEMMA IncomingFacts ==
  ASSUME Inductive, NEW id, Incoming(id)
  PROVE  /\ ~Rests(id)
         /\ call.event.id = id
         /\ call.event.type = "ADD"
         /\ call.event.source = "STRATEGY"
         /\ call.remaining \in Nat
         /\ call.remaining > 0
<1>1. call.pc \notin {"idle", "l2", "l3"}
  BY DEF Incoming, Running
<1> QED BY <1>1, HandlerFacts DEF Incoming, HandlerState, Rests

(***************************************************************************)
(* Whom a fill is credited to: the paper order that trades, and nobody     *)
(* else that the ledger follows.                                           *)
(***************************************************************************)
Trades(id, f) == IF f.source = "STRATEGY" THEN id = f.maker ELSE Incoming(id)

LEMMA CreditedTaker ==
  ASSUME LedgerInvariant, Reported, Handling, NEW f,
         NEW x \in DOMAIN ledger, x \notin estranged, Credits(x, FillRecord(f))
  PROVE  \/ f.source = "STRATEGY" /\ x = f.maker
         \/ /\ call.event.type = "ADD"
            /\ call.event.source = "STRATEGY"
            /\ call.event.id = x
<1>1. x \in Ids /\ x # UnknownOrderId /\ AggressorUnknown
  BY IdsAssumption DEF LedgerInvariant, LedgerFollows
<1>2. call.event.type \in {"ADD", "AGGRESSIVE_TRADE", "MATCH"}
  BY HandlerFacts DEF LedgerInvariant, LedgerFollows, Handling
<1> QED BY <1>1, <1>2 DEF Credits, FillRecord, AggressorUnknown

LEMMA Credited ==
  ASSUME LedgerInvariant, Reported, NEW f \in Fill,
         PaperTraded(f) \/ StrategyTraded(f),
         NEW x \in DOMAIN ledger, x \notin estranged
  PROVE  /\ Credits(x, FillRecord(f)) <=> Trades(x, f)
         /\ Trades(x, f) =>
              ~(/\ FillRecord(f).maker = FillRecord(f).taker
                /\ FillRecord(f).maker_source = "STRATEGY"
                /\ FillRecord(f).taker_source = "STRATEGY")
<1>1. Handling /\ Inductive /\ PaperPhase /\ x \in Ids /\ x # UnknownOrderId
  BY IdsAssumption DEF LedgerInvariant, LedgerFollows, PaperTraded, StrategyTraded, Reports, Fills
<1>2. HandlerState /\ call.remaining \in Nat
  BY <1>1, HandlerFacts DEF Handling
<1>3. CASE PaperTraded(f)
  <2>1. ~(call.event.type = "ADD" /\ call.event.source = "STRATEGY")
    BY <1>1, <1>2, <1>3 DEF PaperTraded, HandlerState, PaperPhase
  <2>2. ASSUME x = f.maker
        PROVE  ~(FillRecord(f).taker = x /\ FillRecord(f).taker_source = "STRATEGY")
    <3>1. ~(call.event.type = "AGGRESSIVE_TRADE" /\ call.event.id = x)
      BY <1>1 DEF LedgerInvariant, LedgerFollows, AggressorUnknown
    <3>2. call.event.type \in {"ADD", "AGGRESSIVE_TRADE", "MATCH"}
      BY <1>1, HandlerFacts DEF Handling
    <3> QED BY <1>1, <2>1, <3>1, <3>2 DEF FillRecord
  <2> QED BY <1>1, <1>3, <2>1, <2>2, CreditedTaker DEF PaperTraded, Trades, Credits, FillRecord
<1>4. CASE StrategyTraded(f)
  <2>1. /\ f.source = "HISTORICAL"
        /\ call.pc = "sweep"
        /\ call.event.source = "STRATEGY"
        /\ call.remaining > 0
    BY <1>2, <1>4 DEF StrategyTraded, Reports, Fill
  <2>2. Credits(x, FillRecord(f)) => Incoming(x)
    BY <1>1, <2>1, CreditedTaker DEF Incoming, Running
  <2>3. Incoming(x) => Credits(x, FillRecord(f))
    BY <1>1, IncomingFacts DEF Credits, FillRecord
  <2> QED BY <2>1, <2>2, <2>3 DEF Trades, FillRecord
<1> QED BY <1>3, <1>4

(***************************************************************************)
(* The ledger after a step of the engine.                                  *)
(***************************************************************************)
LEMMA LedgerKept ==
  ASSUME LedgerInvariant, Proceed, Silent \/ RestIsDropped \/ RestStrategy
  PROVE  /\ DOMAIN ledger' = DOMAIN ledger
         /\ \A x \in DOMAIN ledger : ledger'[x] = ledger[x]
<1> DEFINE f == Last(call'.fills)
<1>1. ledger' = IF Reported /\ Fills THEN WithFill(ledger, FillRecord(f)) ELSE ledger
  BY DEF Proceed
<1>2. CASE ~(Reported /\ Fills)
  BY <1>1, <1>2
<1>3. CASE Reported /\ Fills
  <2>1. Silent
    BY <1>3 DEF RestIsDropped, RestStrategy, Dropped, Fills
  <2>2. /\ f.source = "HISTORICAL"
        /\ call.event.source = "HISTORICAL" \/ call.event.type = "MATCH"
    BY <1>3, <2>1 DEF Silent
  <2> HIDE DEF f
  <2>3. \A x \in DOMAIN ledger : ~Credits(x, FillRecord(f))
    BY <2>2, IdsAssumption DEF LedgerInvariant, LedgerFollows, Credits, FillRecord
  <2>4. ledger' = WithFill(ledger, FillRecord(f))
    BY <1>1, <1>3
  <2> QED BY <2>3, <2>4, FilledEntries
<1> QED BY <1>2, <1>3

LEMMA LedgerTraded ==
  ASSUME LedgerInvariant, Reported, Proceed, NEW f \in Fill,
         PaperTraded(f) \/ StrategyTraded(f)
  PROVE  /\ DOMAIN ledger' = DOMAIN ledger
         /\ \A x \in DOMAIN ledger \ estranged : ledger'[x] =
              IF Trades(x, f) THEN Filled(ledger[x], f.qty) ELSE ledger[x]
<1>1. Reports(f)
  BY DEF PaperTraded, StrategyTraded
<1>2. ledger' = WithFill(ledger, FillRecord(f))
  BY <1>1 DEF Proceed, Reports
<1>3. FillRecord(f).qty = f.qty /\ f.qty > 0
  BY <1>1 DEF FillRecord, Reports
<1>4. ASSUME NEW x \in DOMAIN ledger \ estranged
      PROVE  ledger'[x] =
               IF Trades(x, f) THEN Filled(ledger[x], f.qty) ELSE ledger[x]
  <2>1. x \in Ids /\ x # UnknownOrderId /\ TracksOrder(x)
    BY <1>4, IdsAssumption DEF LedgerInvariant, LedgerFollows, Tracked
  <2>2. CASE ~Trades(x, f)
    <3>1. ~Credits(x, FillRecord(f))
      BY <1>4, <2>2, Credited
    <3> QED BY <1>2, <1>4, <2>2, <3>1, FilledEntries
  <2>3. CASE Trades(x, f)
    <3>1. Credits(x, FillRecord(f))
      BY <1>4, <2>3, Credited
    <3>2. ~(/\ FillRecord(f).maker = FillRecord(f).taker
            /\ FillRecord(f).maker_source = "STRATEGY"
            /\ FillRecord(f).taker_source = "STRATEGY")
      BY <1>4, <2>3, Credited
    <3>3. Rests(x) \/ Incoming(x)
      BY <2>3 DEF Trades, PaperTraded, StrategyTraded, Rests
    <3>4. ledger[x].status # "CANCELLED"
      BY <2>1, <3>3 DEF TracksOrder, Closed
    <3> QED BY <1>2, <1>3, <1>4, <2>1, <2>3, <3>1, <3>2, <3>4, FilledEntries
  <2> QED BY <2>2, <2>3
<1>5. DOMAIN ledger' = DOMAIN ledger
  BY <1>2, FilledEntries
<1> QED BY <1>4, <1>5

(***************************************************************************)
(* The ledger still tracks every order after a step of the engine.         *)
(***************************************************************************)
LEMMA PaperTradedTracks ==
  ASSUME LedgerInvariant, Reported, Proceed, NEW f \in Fill, PaperTraded(f),
         NEW x \in Ids
  PROVE  Tracked(x)'
<1>1. /\ estranged' = estranged
      /\ ~Incoming(x) /\ ~Incoming(x)'
  BY DEF PaperTraded, Proceed, Dropped, Incoming, Running
<1>2. /\ DOMAIN ledger' = DOMAIN ledger
      /\ x \in DOMAIN ledger \ estranged => ledger'[x] =
           IF Trades(x, f) THEN Filled(ledger[x], f.qty) ELSE ledger[x]
  BY LedgerTraded
<1>3. PaperInvariant /\ Tracked(x)
  BY DEF LedgerInvariant, LedgerFollows, Inductive
<1>4. /\ Trades(x, f) <=> x = f.maker
      /\ f.maker \in DOMAIN paper_orders
      /\ \E told : LeavePaperOrder(f.maker, f.qty, told, "PARTIALLY_FILLED")
      /\ f.qty \in Nat /\ f.qty > 0
      /\ f.qty <= paper_orders[f.maker].remaining
  BY DEF PaperTraded, Trades, Reports
<1>5. CASE x \in estranged
  BY <1>1, <1>5 DEF Tracked
<1>6. CASE x \notin estranged /\ x # f.maker
  <2>1. /\ Rests(x)' <=> Rests(x)
        /\ Rests(x) => paper_orders'[x] = paper_orders[x]
    BY <1>3, <1>4, <1>6, LedgerOrderTaken DEF Rests
  <2>2. Unmoved(x)
    BY <1>1, <1>2, <1>4, <1>6, <2>1 DEF Unmoved
  <2> QED BY <1>3, <2>2, StaysTracked
<1>7. CASE x \notin estranged /\ x = f.maker
  <2> DEFINE entry == ledger[x]
  <2>1. /\ x \in DOMAIN ledger
        /\ entry.remaining = paper_orders[x].remaining
        /\ entry.filled + entry.remaining <= entry.initial
    BY <1>3, <1>4, <1>7 DEF Tracked, TracksOrder, Rests
  <2>2. entry \in Entry /\ entry.remaining \in Nat /\ entry.filled \in Nat
          /\ entry.initial \in Nat
    BY <2>1, EntryFacts DEF LedgerInvariant, LedgerFollows, SoundLedger
  <2>3. ledger'[x] = Filled(entry, f.qty)
    BY <1>2, <1>4, <1>7, <2>1
  <2> HIDE DEF entry
  <2>4. /\ ledger'[x].initial = entry.initial
        /\ ledger'[x].remaining = entry.remaining - f.qty
        /\ ledger'[x].filled = entry.filled + f.qty
        /\ ledger'[x].status =
             IF f.qty = entry.remaining THEN "FILLED" ELSE "PARTIALLY_FILLED"
    BY <1>4, <1>7, <2>1, <2>2, <2>3, FilledFacts
  <2>5. /\ f.qty = entry.remaining => ~Rests(x)'
        /\ f.qty # entry.remaining =>
             /\ Rests(x)'
             /\ paper_orders'[x].remaining = entry.remaining - f.qty
             /\ paper_orders'[x].status = "PARTIALLY_FILLED"
    BY <1>3, <1>4, <1>7, <2>1, LedgerOrderTaken DEF Rests
  <2>6. (entry.filled + f.qty) + (entry.remaining - f.qty) <= entry.initial
    BY <1>4, <2>1, <2>2 DEF entry
  <2>7. x \in DOMAIN ledger'
    BY <1>2, <2>1
  <2> QED BY <1>1, <2>4, <2>5, <2>6, <2>7 DEF Tracked, TracksOrder, Closed
<1> QED BY <1>5, <1>6, <1>7

LEMMA StrategyTradedTracks ==
  ASSUME LedgerInvariant, Reported, Proceed, NEW f \in Fill, StrategyTraded(f),
         NEW x \in Ids
  PROVE  Tracked(x)'
<1>1. /\ estranged' = estranged
      /\ paper_orders' = paper_orders
      /\ Rests(x)' <=> Rests(x)
  BY DEF StrategyTraded, Proceed, Dropped, Rests
<1>2. /\ DOMAIN ledger' = DOMAIN ledger
      /\ x \in DOMAIN ledger \ estranged => ledger'[x] =
           IF Incoming(x) THEN Filled(ledger[x], f.qty) ELSE ledger[x]
  BY LedgerTraded DEF StrategyTraded, Trades
<1>3. Inductive /\ Tracked(x)
  BY DEF LedgerInvariant, LedgerFollows
<1>4. /\ call.remaining \in Nat
      /\ f.qty \in Nat /\ f.qty > 0 /\ f.qty <= call.remaining
      /\ call'.remaining = call.remaining - f.qty
      /\ call'.event = call.event
      /\ call.pc = "sweep" /\ call'.pc = "sweep"
  BY <1>3, HandlerFacts DEF StrategyTraded, Reports
<1>5. Incoming(x)' <=> Incoming(x) /\ f.qty # call.remaining
  BY <1>4 DEF Incoming, Running
<1>6. CASE x \in estranged
  BY <1>1, <1>6 DEF Tracked
<1>7. CASE x \notin estranged /\ ~Incoming(x)
  <2>1. Unmoved(x)
    BY <1>1, <1>2, <1>5, <1>7 DEF Unmoved
  <2> QED BY <1>3, <2>1, StaysTracked
<1>8. CASE x \notin estranged /\ Incoming(x)
  <2> DEFINE entry == ledger[x]
  <2>1. ~Rests(x)
    BY <1>3, <1>8, IncomingFacts
  <2>2. /\ x \in DOMAIN ledger
        /\ entry.remaining = call.remaining
        /\ entry.filled + call.remaining = call.event.qty
        /\ entry.filled + entry.remaining <= entry.initial
    BY <1>3, <1>8 DEF Tracked, TracksOrder
  <2>3. entry \in Entry /\ entry.filled \in Nat /\ entry.initial \in Nat
    BY <2>2, EntryFacts DEF LedgerInvariant, LedgerFollows, SoundLedger
  <2>4. ledger'[x] = Filled(entry, f.qty)
    BY <1>2, <1>8, <2>2
  <2> HIDE DEF entry
  <2>5. /\ ledger'[x].initial = entry.initial
        /\ ledger'[x].remaining = call.remaining - f.qty
        /\ ledger'[x].filled = entry.filled + f.qty
        /\ ledger'[x].status =
             IF f.qty = call.remaining THEN "FILLED" ELSE "PARTIALLY_FILLED"
    BY <1>4, <2>2, <2>3, <2>4, FilledFacts
  <2>6. /\ (entry.filled + f.qty) + (call.remaining - f.qty) = call.event.qty
        /\ (entry.filled + f.qty) + (call.remaining - f.qty) <= entry.initial
    BY <1>4, <2>2, <2>3
  <2>7. x \in DOMAIN ledger'
    BY <1>2, <2>2
  <2>8. ~Rests(x)'
    BY <1>1, <2>1
  <2> QED BY <1>4, <1>5, <1>8, <2>5, <2>6, <2>7, <2>8 DEF Tracked, TracksOrder, Closed
<1> QED BY <1>6, <1>7, <1>8

LEMMA RestTracks ==
  ASSUME LedgerInvariant, Reported, Proceed, RestIsDropped \/ RestStrategy,
         NEW x \in Ids
  PROVE  Tracked(x)'
<1>1. /\ DOMAIN ledger' = DOMAIN ledger
      /\ x \in DOMAIN ledger => ledger'[x] = ledger[x]
  BY LedgerKept
<1>2. Inductive /\ Tracked(x) /\ call' = Idle /\ ~Incoming(x)'
  BY DEF LedgerInvariant, LedgerFollows, RestIsDropped, RestStrategy, Dropped, Idle, Incoming, Running
<1>3. x \in estranged => x \in estranged'
  BY DEF Proceed
<1>4. CASE RestIsDropped
  <2>1. Incoming(x) => x \in estranged'
    BY <1>4 DEF RestIsDropped, Incoming, Proceed
  <2>2. ~Incoming(x) => Unmoved(x)
    BY <1>1, <1>2, <1>3, <1>4 DEF RestIsDropped, Unmoved, Rests
  <2>3. ~Incoming(x) => Tracked(x)'
    BY <1>2, <2>2, StaysTracked
  <2> QED BY <2>1, <2>3 DEF Tracked
<1>5. CASE RestStrategy
  <2> DEFINE e     == call.event
             order == [remaining     |-> call.remaining,
                       status        |-> IF call.remaining < e.qty
                                           THEN "PARTIALLY_FILLED" ELSE "OPEN",
                       placement_seq |-> order_arrival_seq,
                       paper_index   |-> Len(paper[e.side][e.price].paper_qty)]
  <2>1. /\ call.pc = "mirror"
        /\ paper_orders' = Put(paper_orders, e.id, order)
    BY <1>5 DEF RestStrategy
  <2>2. /\ HandlerState
        /\ call.remaining \in Nat /\ call.remaining > 0
        /\ e.source = "STRATEGY"
        /\ e.type = "ADD"
    BY <1>2, <2>1, HandlerFacts DEF HandlerState
  <2>3. /\ order.remaining = call.remaining
        /\ order.status = IF call.remaining < e.qty THEN "PARTIALLY_FILLED" ELSE "OPEN"
    OBVIOUS
  <2> HIDE DEF order
  <2>4. CASE x # e.id
    <3>1. Rests(x)' <=> Rests(x)
      BY <2>1, <2>4 DEF Put, Rests
    <3>2. Rests(x) => paper_orders'[x] = paper_orders[x]
      BY <2>1, <2>4 DEF Put, Rests
    <3>3. ~Incoming(x)
      BY <2>4 DEF Incoming
    <3>4. Unmoved(x)
      BY <1>1, <1>2, <1>3, <3>1, <3>2, <3>3 DEF Unmoved
    <3> QED BY <1>2, <3>4, StaysTracked
  <2>5. CASE x = e.id /\ x \notin estranged'
    <3> DEFINE entry == ledger[x]
    <3>1. Incoming(x)
      BY <2>1, <2>2, <2>5 DEF Incoming, Running
    <3>2. Rests(x)' /\ paper_orders'[x] = order
      BY <2>1, <2>5 DEF Put, Rests
    <3>3. /\ x \in DOMAIN ledger
          /\ ~Closed(entry)
          /\ entry.remaining = call.remaining
          /\ entry.filled + call.remaining = e.qty
          /\ entry.filled + entry.remaining <= entry.initial
      BY <1>2, <1>3, <2>5, <3>1 DEF Tracked, TracksOrder
    <3>4. /\ entry.filled \in Nat
          /\ entry.status = IF entry.filled > 0 THEN "PARTIALLY_FILLED" ELSE "OPEN"
      BY <3>3, EntryFacts DEF LedgerInvariant, LedgerFollows, SoundLedger
    <3> HIDE DEF entry
    <3>5. entry.filled > 0 <=> call.remaining < e.qty
      BY <2>2, <3>3, <3>4
    <3>6. entry.status = order.status /\ entry.remaining = order.remaining
      BY <2>3, <3>3, <3>4, <3>5
    <3>7. ledger'[x] = entry /\ x \in DOMAIN ledger'
      BY <1>1, <3>3 DEF entry
    <3> QED BY <1>2, <3>2, <3>3, <3>6, <3>7 DEF Tracked, TracksOrder, Closed
  <2>6. CASE x \in estranged'
    BY <2>6 DEF Tracked
  <2> QED BY <2>4, <2>5, <2>6
<1> QED BY <1>4, <1>5

LEMMA SilentTracks ==
  ASSUME LedgerInvariant, Reported, Proceed, Silent, NEW x \in Ids
  PROVE  Tracked(x)'
<1>1. Unmoved(x)
  BY LedgerKept DEF Silent, Unmoved, Rests, Proceed
<1> QED BY <1>1, StaysTracked DEF LedgerInvariant, LedgerFollows
-----------------------------------------------------------------------------
(***************************************************************************)
(* What the engine does with an event: it drops it, or begins a call, or   *)
(* changes one order of the book or one paper order.                       *)
(***************************************************************************)
Begins(e) ==
  /\ e.type \in {"ADD", "AGGRESSIVE_TRADE", "MATCH"}
  /\ ~Rejected(e)
  /\ paper_orders' = paper_orders
  /\ call'.pc \in {"sweep", "queue", "settle"}
  /\ call'.event = e
  /\ call'.remaining = e.qty

ChangesPaperOrder(e) ==
  /\ e.source = "STRATEGY"
  /\ call' = Idle
  /\ \/ OnDelete(e)
     \/ OnSubtract(e)
     \/ OnSet(e)

ChangesBookOrder(e) ==
  /\ e.source = "HISTORICAL"
  /\ call' = Idle
  /\ paper_orders' = paper_orders

LEMMA UpdateEffects ==
  ASSUME NEW e \in Event, update(e)
  PROVE  /\ call = Idle
         /\ \/ Rejected(e) /\ call' = Idle /\ paper_orders' = paper_orders
            \/ Begins(e)
            \/ ChangesPaperOrder(e)
            \/ ChangesBookOrder(e)
<1>1. CASE Reject(e)
  BY <1>1 DEF Reject, vars, paperVars
<1>2. CASE OnDelete(e) \/ OnSubtract(e) \/ OnSet(e)
  <2>1. call = Idle /\ call' = Idle
    BY <1>2 DEF OnDelete, OnSubtract, OnSet, Accepts, SetHistorical
  <2>2. e.source = "HISTORICAL" => paper_orders' = paper_orders
    BY <1>2 DEF OnDelete, OnSubtract, OnSet, SetHistorical
  <2>3. e.source \in {"HISTORICAL", "STRATEGY"}
    BY DEF Event, Sources
  <2> QED BY <1>2, <2>1, <2>2, <2>3 DEF ChangesPaperOrder, ChangesBookOrder
<1>3. CASE OnAdd(e)
  <2>1. /\ call = Idle /\ e.type = "ADD" /\ ~Rejected(e)
        /\ paper_orders' = paper_orders
    BY <1>3 DEF OnAdd, Accepts, paperVars
  <2>2. \E h : call' = [NewCall("sweep", e, Opposite(e.side), e.price) EXCEPT
                          !.heap_copy = h]
    <3>1. NewCall("sweep", e, Opposite(e.side), e.price) =
            [NewCall("sweep", e, Opposite(e.side), e.price) EXCEPT !.heap_copy = NoEntries]
      BY DEF NewCall
    <3> QED BY <1>3, <3>1 DEF OnAdd
  <2>3. call'.pc = "sweep" /\ call'.event = e /\ call'.remaining = e.qty
    BY <2>2 DEF NewCall
  <2> QED BY <2>1, <2>3 DEF Begins
<1>4. CASE OnAggressiveTrade(e)
  <2>1. /\ call = Idle /\ e.type = "AGGRESSIVE_TRADE" /\ ~Rejected(e)
        /\ paper_orders' = paper_orders
        /\ call' = [NewCall("sweep", e, Opposite(e.side), e.price) EXCEPT
                      !.heap_copy = heap[Opposite(e.side)]]
    BY <1>4 DEF OnAggressiveTrade, Accepts, paperVars
  <2>2. call'.pc = "sweep" /\ call'.event = e /\ call'.remaining = e.qty
    BY <2>1 DEF NewCall
  <2> QED BY <2>1, <2>2 DEF Begins
<1>5. CASE OnMatch(e)
  <2>1. /\ call = Idle /\ e.type = "MATCH" /\ ~Rejected(e)
        /\ paper_orders' = paper_orders
    BY <1>5 DEF OnMatch, Accepts, paperVars
  <2>2. \E pc \in {"queue", "settle"} : \E lots, deltas :
          call' = [NewCall(pc, e, Side(e.id), Price(e.id)) EXCEPT
                     !.lots = lots, !.deltas = deltas]
    <3> DEFINE pc     == IF Taken(e) > 0 THEN "queue" ELSE "settle"
               deltas == IF Taken(e) > 0
                           THEN <<[seq |-> NodeOf(e.id), qty |-> Taken(e)]>> ELSE <<>>
    <3>1. call' = [NewCall(pc, e, Side(e.id), Price(e.id)) EXCEPT
                     !.lots = Taken(e), !.deltas = deltas]
      BY <1>5 DEF OnMatch
    <3>2. pc \in {"queue", "settle"}
      OBVIOUS
    <3> HIDE DEF pc, deltas
    <3> QED BY <3>1, <3>2
  <2>3. call'.pc \in {"queue", "settle"} /\ call'.event = e /\ call'.remaining = e.qty
    BY <2>2 DEF NewCall
  <2> QED BY <2>1, <2>3 DEF Begins
<1> QED BY <1>1, <1>2, <1>3, <1>4, <1>5 DEF update

\* The ledger after an event, of an id that is not estranged by it.
LEMMA LedgerUpdated ==
  ASSUME LedgerInvariant, Reported, NEW e \in Events, Update(e), NEW x
  PROVE  /\ x # e.id \/ e.source # "STRATEGY" =>
              /\ x \in DOMAIN ledger' <=> x \in DOMAIN ledger
              /\ x \in DOMAIN ledger => ledger'[x] = ledger[x]
         /\ x = e.id /\ e.source = "STRATEGY" =>
              /\ x \in DOMAIN ledger' <=>
                   x \in DOMAIN ledger \/ (e.type = "ADD" /\ e.qty > 0)
              /\ x \in DOMAIN ledger => ledger'[x] = Changed(ledger[x], e)
              /\ (x \notin DOMAIN ledger /\ e.type = "ADD" /\ e.qty > 0) =>
                   ledger'[x] = NewEntry(e.qty)
         /\ estranged \subseteq estranged'
         /\ x = e.id /\ Disputed(e) => x \in estranged'
<1>1. e \in Event /\ e.qty \in Int /\ SoundLedger(ledger)
  BY EventsAssumption DEF Event, LedgerInvariant, LedgerFollows
<1>2. /\ ledger' = update_strategy_order(ledger, e)
      /\ estranged' = IF Disputed(e) THEN estranged \cup {e.id} ELSE estranged
  BY DEF Update
<1>3. /\ estranged \subseteq estranged'
      /\ x = e.id /\ Disputed(e) => x \in estranged'
  BY <1>2
<1>4. /\ DOMAIN ledger' =
           IF e.source = "STRATEGY" /\ e.type = "ADD" /\ e.qty > 0
             THEN DOMAIN ledger \cup {e.id} ELSE DOMAIN ledger
      /\ \A y \in DOMAIN ledger : ledger'[y] =
           IF e.source = "STRATEGY" /\ y = e.id THEN Changed(ledger[y], e) ELSE ledger[y]
      /\ (e.source = "STRATEGY" /\ e.type = "ADD" /\ e.qty > 0
            /\ e.id \notin DOMAIN ledger) => ledger'[e.id] = NewEntry(e.qty)
  BY <1>1, <1>2, UpdatedEntries
<1> QED BY <1>3, <1>4

(***************************************************************************)
(* The ledger still tracks every order when the engine is told of events.  *)
(***************************************************************************)

\* An event of the feed, or about another id.
LEMMA OthersTracked ==
  ASSUME LedgerInvariant, Reported, NEW e \in Events, Update(e), NEW x \in Ids,
         x # e.id \/ e.source # "STRATEGY"
  PROVE  Tracked(x)'
<1>1. e \in Event /\ PaperInvariant /\ Inductive
  BY EventsAssumption DEF LedgerInvariant, LedgerFollows, Inductive
<1>2. ~Incoming(x) /\ ~Incoming(x)'
  <2>1. \/ call' = Idle
        \/ call'.event = e
    BY <1>1, UpdateEffects DEF Update, Begins, ChangesPaperOrder, ChangesBookOrder
  <2>2. call = Idle
    BY <1>1, UpdateEffects DEF Update
  <2> QED BY <2>1, <2>2 DEF Incoming, Running, Idle
<1>3. /\ Rests(x)' <=> Rests(x)
      /\ Rests(x) => paper_orders'[x] = paper_orders[x]
  <2>1. CASE ChangesPaperOrder(e)
    <3>1. /\ e.id \in DOMAIN paper_orders
          /\ \E qty, told, status : LeavePaperOrder(e.id, qty, told, status)
      <4>1. ~Unknown(e)
        BY <2>1 DEF ChangesPaperOrder, OnDelete, OnSubtract, OnSet, Accepts, Rejected,
                    SubtractRejected
      <4>2. e.id \in DOMAIN paper_orders
        BY <1>1, <2>1, <4>1, Known DEF ChangesPaperOrder
      <4> QED BY <2>1, <4>2 DEF ChangesPaperOrder, OnDelete, OnSubtract, OnSet,
                                TakeFromPaperOrder
    <3>2. PICK qty, told, status : LeavePaperOrder(e.id, qty, told, status)
      BY <3>1
    <3>3. x # e.id
      BY <2>1 DEF ChangesPaperOrder
    <3> QED BY <1>1, <3>1, <3>2, <3>3, LedgerOrderTaken DEF Rests
  <2>2. CASE paper_orders' = paper_orders
    BY <2>2 DEF Rests
  <2> QED BY <1>1, <2>1, <2>2, UpdateEffects DEF Update, Begins, ChangesBookOrder
<1>4. Unmoved(x)
  BY <1>2, <1>3, LedgerUpdated DEF Unmoved
<1> QED BY <1>4, StaysTracked DEF LedgerInvariant, LedgerFollows

\* An event that the engine refuses finds a closed entry, or changes none.
LEMMA RefusedTracked ==
  ASSUME LedgerInvariant, Reported, NEW e \in Events, Update(e),
         e.source = "STRATEGY", Rejected(e), call' = Idle,
         paper_orders' = paper_orders
  PROVE  Tracked(e.id)'
<1> DEFINE x == e.id
<1>1. e \in Event /\ e.qty \in Int /\ x \in Ids /\ Inductive /\ Tracked(x)
  BY EventsAssumption DEF Event, LedgerInvariant, LedgerFollows
<1>2. ~Incoming(x) /\ ~Incoming(x)'
  BY <1>1, UpdateEffects DEF Update, Incoming, Running, Idle
<1>3. Rests(x) <=> x \in DOMAIN paper_order_info
  BY <1>1 DEF Inductive, PaperInvariant, OrdersIndexed, Rests
<1>4. CASE x \in estranged'
  BY <1>4 DEF Tracked
<1>5. CASE x \notin estranged'
  <2>1. x \notin estranged /\ ~Disputed(e)
    BY <1>5, LedgerUpdated
  <2>2. x \in DOMAIN ledger' <=> x \in DOMAIN ledger
    <3>1. e.type = "ADD" /\ e.qty > 0 => x \in DOMAIN ledger
      BY <2>1 DEF Disputed, Rejected
    <3> QED BY <3>1, LedgerUpdated
  <2>3. x \in DOMAIN ledger => ledger'[x] = ledger[x]
    <3> SUFFICES ASSUME x \in DOMAIN ledger PROVE Changed(ledger[x], e) = ledger[x]
      BY LedgerUpdated
    <3>1. Sound(ledger[x])
      BY DEF LedgerInvariant, LedgerFollows, SoundLedger
    <3>2. CASE Closed(ledger[x]) \/ e.type \notin {"SUBTRACT", "SET", "DELETE"}
      BY <3>1, <3>2, ChangedFacts
    <3>3. CASE ~Closed(ledger[x]) /\ e.type \in {"SUBTRACT", "SET", "DELETE"}
      <4>1. ~Unknown(e)
        BY <1>1, <1>2, <1>3, <2>1, <3>3 DEF Tracked, TracksOrder, Unknown
      <4>2. e.type = "SUBTRACT" /\ e.qty <= 0
        BY <3>3, <4>1 DEF Rejected, SubtractRejected
      <4> QED BY <1>1, <4>2 DEF Changed
    <3> QED BY <3>2, <3>3
  <2>4. Unmoved(x)
    BY <1>2, <2>1, <2>2, <2>3 DEF Unmoved, Rests
  <2> QED BY <1>1, <2>4, StaysTracked
<1> QED BY <1>4, <1>5

\* An order that the engine accepts is new to the ledger, too, unless it is
\* estranged; an aggressive trade and a trade through the book change none.
LEMMA BegunTracked ==
  ASSUME LedgerInvariant, Reported, NEW e \in Events, Update(e),
         e.source = "STRATEGY", Begins(e)
  PROVE  Tracked(e.id)'
<1> DEFINE x == e.id
<1>1. e \in Event /\ e.qty \in Int /\ x \in Ids /\ Inductive /\ Tracked(x)
  BY EventsAssumption DEF Event, LedgerInvariant, LedgerFollows
<1>2. /\ ~Incoming(x)
      /\ Incoming(x)' <=> call'.pc = "sweep" /\ e.type = "ADD" /\ e.qty > 0
  BY <1>1, UpdateEffects DEF Update, Begins, Incoming, Running, Idle
<1>3. Rests(x)' <=> Rests(x)
  BY DEF Begins, Rests
<1>4. CASE e.type = "ADD" /\ e.qty > 0 /\ x \notin estranged'
  <2>1. /\ ~Rests(x)
        /\ ~AddRejected(e)
    BY <1>4 DEF Begins, Rejected, AddRejected, Rests
  <2>2. x \notin DOMAIN ledger
    <3>1. ~Disputed(e)
      BY <1>4, LedgerUpdated
    <3> QED BY <1>4, <2>1, <3>1 DEF Disputed, AddRejected
  <2>3. x \in DOMAIN ledger' /\ ledger'[x] = NewEntry(e.qty)
    BY <1>4, <2>2, LedgerUpdated
  <2>4. /\ ledger'[x].remaining = e.qty
        /\ ledger'[x].initial = e.qty
        /\ ledger'[x].filled = 0
        /\ ledger'[x].status = "OPEN"
    BY <2>3 DEF NewEntry
  <2>5. Incoming(x)' /\ call'.remaining = e.qty /\ call'.event = e
    <3>1. call'.pc = "sweep"
      <4>1. OnAdd(e) => call'.pc = "sweep"
        BY DEF OnAdd, NewCall
      <4> QED BY <1>4, <4>1 DEF Update, update, Begins, Reject, OnDelete, OnSubtract,
                                OnSet, OnMatch, OnAggressiveTrade, Accepts
    <3> QED BY <1>2, <1>4, <3>1 DEF Begins
  <2> QED BY <1>1, <1>3, <2>1, <2>3, <2>4, <2>5 DEF Tracked, TracksOrder, Closed
<1>5. CASE ~(e.type = "ADD" /\ e.qty > 0) /\ x \notin estranged'
  <2>1. x \in DOMAIN ledger => Changed(ledger[x], e) = ledger[x]
    BY ChangedFacts DEF Begins, LedgerInvariant, LedgerFollows, SoundLedger
  <2>2. Unmoved(x)
    BY <1>2, <1>3, <1>5, <2>1, LedgerUpdated DEF Unmoved, Begins
  <2> QED BY <1>1, <2>2, StaysTracked
<1>6. CASE x \in estranged'
  BY <1>6 DEF Tracked
<1> QED BY <1>4, <1>5, <1>6

\* What a DELETE, SUBTRACT or SET leaves of a paper order.
LEMMA PaperOrderChanged ==
  ASSUME Inductive, NEW e \in Event, ChangesPaperOrder(e)
  PROVE  /\ e.id \in DOMAIN paper_orders
         /\ \E left \in Nat :
              /\ e.type = "DELETE" => left = 0
              /\ e.type = "SUBTRACT" =>
                   /\ e.qty > 0
                   /\ left = IF e.qty >= paper_orders[e.id].remaining
                               THEN 0 ELSE paper_orders[e.id].remaining - e.qty
              /\ e.type = "SET" => left = IF e.qty < 0 THEN 0 ELSE e.qty
              /\ left = 0 => e.id \notin DOMAIN paper_orders'
              /\ left # 0 =>
                   /\ e.type # "DELETE"
                   /\ e.id \in DOMAIN paper_orders'
                   /\ paper_orders'[e.id].remaining = left
                   /\ paper_orders'[e.id].status = paper_orders[e.id].status
         /\ e.type \in {"DELETE", "SUBTRACT", "SET"}
<1> DEFINE had  == paper_orders[e.id].remaining
           qty  == IF e.type = "DELETE" THEN had
                   ELSE IF e.type = "SUBTRACT" THEN Lesser(had, e.qty)
                   ELSE had - (IF e.qty < 0 THEN 0 ELSE e.qty)
           left == had - qty
<1>1. /\ e.source = "STRATEGY"
      /\ e.type \in {"DELETE", "SUBTRACT", "SET"}
      /\ ~Unknown(e)
      /\ e.type = "SUBTRACT" => e.qty > 0
      /\ e.qty \in Int
  BY DEF ChangesPaperOrder, OnDelete, OnSubtract, OnSet, Accepts, Rejected,
         SubtractRejected, Event
<1>2. e.id \in DOMAIN paper_orders /\ PaperInvariant
  BY <1>1, Known DEF Inductive
<1>3. had \in Nat /\ had \in Int
  <2>1. paper_orders[e.id].remaining \in Nat
    BY <1>2, PaperOrderFacts
  <2> QED BY <2>1
<1>4. e.type = "SUBTRACT" =>
        left = IF e.qty >= had THEN 0 ELSE had - e.qty
  <2> HIDE DEF had
  <2> QED BY <1>1, <1>3 DEF Lesser
<1>5. /\ e.type = "DELETE" => left = 0
      /\ e.type = "SET" => left = IF e.qty < 0 THEN 0 ELSE e.qty
      /\ qty \in Int
  <2> HIDE DEF had
  <2> QED BY <1>1, <1>3 DEF Lesser
<1>6. left \in Nat
  <2> HIDE DEF had, left
  <2> QED BY <1>1, <1>3, <1>4, <1>5
<1>7. \E status :
        /\ e.type # "DELETE" => status = paper_orders[e.id].status
        /\ TakeFromPaperOrder(e.id, qty, status)
  <2>1. CASE e.type = "DELETE"
    <3>1. TakeFromPaperOrder(e.id, qty, "CANCELLED")
      BY <1>1, <2>1 DEF ChangesPaperOrder, OnDelete, OnSubtract, OnSet, Accepts
    <3> QED BY <2>1, <3>1
  <2>2. CASE e.type = "SUBTRACT"
    <3>1. TakeFromPaperOrder(e.id, qty, paper_orders[e.id].status)
      BY <1>1, <2>2 DEF ChangesPaperOrder, OnDelete, OnSubtract, OnSet, Accepts
    <3> QED BY <3>1
  <2>3. CASE e.type = "SET"
    <3>1. TakeFromPaperOrder(e.id, qty, paper_orders[e.id].status)
      BY <1>1, <2>3 DEF ChangesPaperOrder, OnDelete, OnSubtract, OnSet, Accepts
    <3> QED BY <3>1
  <2> QED BY <1>1, <2>1, <2>2, <2>3
<1>8. PICK status :
        /\ e.type # "DELETE" => status = paper_orders[e.id].status
        /\ TakeFromPaperOrder(e.id, qty, status)
  BY <1>7
<1>9. left = 0 <=> qty = had
  <2> HIDE DEF had, qty
  <2> QED BY <1>3, <1>5
<1> HIDE DEF qty
<1>10. /\ qty = had => e.id \notin DOMAIN paper_orders'
       /\ qty # had =>
            /\ e.id \in DOMAIN paper_orders'
            /\ paper_orders'[e.id].remaining = had - qty
            /\ paper_orders'[e.id].status = status
  BY <1>2, <1>8, LedgerOrderTaken DEF TakeFromPaperOrder
<1>11. left # 0 =>
         /\ e.type # "DELETE"
         /\ e.id \in DOMAIN paper_orders'
         /\ paper_orders'[e.id].remaining = left
         /\ paper_orders'[e.id].status = paper_orders[e.id].status
  BY <1>5, <1>8, <1>9, <1>10
<1>12. left = 0 => e.id \notin DOMAIN paper_orders'
  BY <1>9, <1>10
<1> HIDE DEF left
<1> QED BY <1>1, <1>2, <1>4, <1>5, <1>6, <1>11, <1>12 DEF had

LEMMA ChangedTracked ==
  ASSUME LedgerInvariant, Reported, NEW e \in Events, Update(e), ChangesPaperOrder(e)
  PROVE  Tracked(e.id)'
<1> DEFINE x     == e.id
           entry == ledger[x]
<1>1. /\ e \in Event /\ e.qty \in Int /\ e.source = "STRATEGY"
      /\ x \in Ids /\ Inductive /\ Tracked(x)
  BY EventsAssumption DEF Event, LedgerInvariant, LedgerFollows, ChangesPaperOrder
<1>2. ~Incoming(x)'
  BY DEF ChangesPaperOrder, Incoming, Running, Idle
<1>3. /\ x \in DOMAIN paper_orders
      /\ e.type \in {"DELETE", "SUBTRACT", "SET"}
  BY <1>1, PaperOrderChanged
<1>4. PICK left \in Nat :
        /\ e.type = "DELETE" => left = 0
        /\ e.type = "SUBTRACT" =>
             /\ e.qty > 0
             /\ left = IF e.qty >= paper_orders[x].remaining
                         THEN 0 ELSE paper_orders[x].remaining - e.qty
        /\ e.type = "SET" => left = IF e.qty < 0 THEN 0 ELSE e.qty
        /\ left = 0 => x \notin DOMAIN paper_orders'
        /\ left # 0 =>
             /\ e.type # "DELETE"
             /\ x \in DOMAIN paper_orders'
             /\ paper_orders'[x].remaining = left
             /\ paper_orders'[x].status = paper_orders[x].status
  BY <1>1, PaperOrderChanged
<1>5. CASE x \in estranged'
  BY <1>5 DEF Tracked
<1>6. CASE x \notin estranged'
  <2>1. x \notin estranged
    BY <1>6, LedgerUpdated
  <2>2. /\ x \in DOMAIN ledger
        /\ ~Closed(entry)
        /\ entry.remaining = paper_orders[x].remaining
        /\ entry.status = paper_orders[x].status
        /\ entry.filled + entry.remaining <= entry.initial
    BY <1>1, <1>3, <2>1 DEF Tracked, TracksOrder, Rests
  <2>3. /\ entry \in Entry
        /\ entry.remaining \in Nat /\ entry.filled \in Nat /\ entry.initial \in Nat
        /\ entry.status = IF entry.filled > 0 THEN "PARTIALLY_FILLED" ELSE "OPEN"
    BY <2>2, EntryFacts DEF LedgerInvariant, LedgerFollows, SoundLedger
  <2>4. x \in DOMAIN ledger' /\ ledger'[x] = Changed(entry, e)
    BY <1>1, <2>2, LedgerUpdated
  <2> HIDE DEF entry
  <2>5. /\ ledger'[x].remaining = left
        /\ ledger'[x].status = IF left = 0 THEN "CANCELLED" ELSE entry.status
        /\ ledger'[x].filled + ledger'[x].remaining <= ledger'[x].initial
    <3>1. CASE e.type = "DELETE"
      <4>1. Changed(entry, e) = Deleted(entry)
        BY <2>2, <3>1 DEF Changed, Closed
      <4>2. entry.filled + 0 <= entry.initial
        BY <2>2, <2>3
      <4> QED BY <1>4, <2>3, <2>4, <3>1, <4>1, <4>2, DeletedFacts
    <3>2. CASE e.type = "SUBTRACT"
      <4>1. Changed(entry, e) = Subtracted(entry, e.qty) /\ e.qty \in Nat
        BY <1>1, <1>4, <2>2, <3>2 DEF Changed
      <4>2. /\ Subtracted(entry, e.qty).remaining = left
            /\ Subtracted(entry, e.qty).status =
                 IF left = 0 THEN "CANCELLED" ELSE entry.status
            /\ Subtracted(entry, e.qty).filled = entry.filled
            /\ Subtracted(entry, e.qty).initial = entry.initial
        BY <1>4, <2>2, <2>3, <3>2, <4>1, SubtractedFacts
      <4>3. left <= entry.remaining
        BY <1>1, <1>4, <2>2, <2>3, <3>2
      <4>4. entry.filled + left <= entry.initial
        BY <2>2, <2>3, <4>3
      <4> QED BY <2>4, <4>1, <4>2, <4>4
    <3>3. CASE e.type = "SET"
      <4>1. Changed(entry, e) = SetTo(entry, e.qty)
        BY <2>2, <3>3 DEF Changed
      <4>2. /\ SetTo(entry, e.qty).remaining = IF e.qty < 0 THEN 0 ELSE e.qty
            /\ SetTo(entry, e.qty).filled + SetTo(entry, e.qty).remaining
                 <= SetTo(entry, e.qty).initial
            /\ SetTo(entry, e.qty).status =
                 IF e.qty <= 0 THEN "CANCELLED"
                 ELSE IF entry.filled > 0 THEN "PARTIALLY_FILLED" ELSE "OPEN"
        BY <1>1, <2>3, SetToFacts
      <4>3. left = 0 <=> e.qty <= 0
        BY <1>1, <1>4, <3>3
      <4> QED BY <1>4, <2>3, <2>4, <3>3, <4>1, <4>2, <4>3
    <3> QED BY <1>3, <3>1, <3>2, <3>3
  <2>6. left = 0 <=> ~Rests(x)'
    BY <1>4 DEF Rests
  <2>7. entry.status \notin {"CANCELLED", "FILLED"}
    BY <2>2 DEF Closed
  <2> QED BY <1>2, <1>4, <2>2, <2>4, <2>5, <2>6, <2>7 DEF Tracked, TracksOrder, Closed, Rests
<1> QED BY <1>5, <1>6

-----------------------------------------------------------------------------
(***************************************************************************)
(* The steps of the two together.                                          *)
(***************************************************************************)
LEMMA UpdateStep ==
  ASSUME LedgerInvariant, NEW e \in Events, Update(e)
  PROVE  LedgerFollows'
<1>1. /\ e \in Event /\ e.id \in Ids /\ e.qty \in Int
      /\ Inductive /\ SoundLedger(ledger) /\ DOMAIN ledger \subseteq Ids
  BY EventsAssumption DEF Event, LedgerInvariant, LedgerFollows
<1>2. sink' = sink
  BY DEF Update
<1>3. PaperPhase'
  BY <1>1, UpdateEffects DEF Update, Begins, ChangesPaperOrder, ChangesBookOrder,
     PaperPhase, Idle
<1>4. CASE ~Reported
  <2>1. ledger' = ledger
    BY <1>4 DEF Update
  <2>2. SoundLedger(ledger)' <=> SoundLedger(ledger)
    BY <2>1 DEF SoundLedger
  <2> QED BY <1>1, <1>2, <1>3, <1>4, <2>1, <2>2 DEF LedgerFollows, Reported
<1>5. CASE Reported
  <2>1. ledger' = update_strategy_order(ledger, e)
    BY <1>5 DEF Update
  <2>2. SoundLedger(update_strategy_order(ledger, e))
    BY <1>1, UpdatedSound
  <2>3. SoundLedger(ledger)'
    BY <2>1, <2>2 DEF SoundLedger
  <2>4. DOMAIN ledger' \subseteq Ids
    <3>1. DOMAIN update_strategy_order(ledger, e) =
            IF e.source = "STRATEGY" /\ e.type = "ADD" /\ e.qty > 0
              THEN DOMAIN ledger \cup {e.id} ELSE DOMAIN ledger
      BY <1>1, UpdatedEntries
    <3>2. DOMAIN update_strategy_order(ledger, e) \subseteq DOMAIN ledger \cup {e.id}
      BY <3>1
    <3> QED BY <1>1, <2>1, <3>2
  <2>5. AggressorUnknown'
    <3> SUFFICES ASSUME Handling', call'.event.type = "AGGRESSIVE_TRADE",
                        call'.event.id \in DOMAIN ledger'
                 PROVE  call'.event.id \in estranged'
      BY DEF AggressorUnknown
    <3>1. Begins(e)
      BY <1>1, UpdateEffects DEF Update, ChangesPaperOrder, ChangesBookOrder, Handling, Idle
    <3>2. call'.event = e /\ e.type = "AGGRESSIVE_TRADE" /\ e.source = "STRATEGY"
      BY <3>1 DEF Begins, Rejected, AggressiveTradeRejected
    <3>3. e.id \in DOMAIN ledger
      BY <1>5, <3>2, LedgerUpdated
    <3> QED BY <1>5, <3>2, <3>3, LedgerUpdated DEF Disputed
  <2>6. ASSUME NEW x \in Ids PROVE Tracked(x)'
    <3>1. CASE x # e.id \/ e.source # "STRATEGY"
      BY <1>5, <3>1, OthersTracked
    <3>2. CASE x = e.id /\ e.source = "STRATEGY"
      <4>1. Tracked(e.id)'
        BY <1>1, <1>5, <3>2, UpdateEffects, RefusedTracked, BegunTracked, ChangedTracked
           DEF Update, ChangesBookOrder
      <4>2. x = e.id
        BY <3>2
      <4> QED BY <4>1, <4>2 DEF Tracked, TracksOrder, Rests, Incoming
    <3> QED BY <3>1, <3>2
  <2> QED BY <1>3, <2>3, <2>4, <2>5, <2>6 DEF LedgerFollows
<1> QED BY <1>4, <1>5

LEMMA ProceedStep ==
  ASSUME LedgerInvariant, Proceed
  PROVE  LedgerFollows'
<1>1. Continue /\ sink' = sink /\ estranged \subseteq estranged'
  BY DEF Proceed
<1>2. /\ Handling' => Handling /\ call'.event = call.event
      /\ PaperPhase'
  BY <1>1, LedgerCallGoesOn DEF LedgerInvariant, LedgerFollows
<1>3. \/ Silent
      \/ \E f \in Fill : PaperTraded(f)
      \/ \E f \in Fill : StrategyTraded(f)
      \/ RestIsDropped
      \/ RestStrategy
  BY <1>1, ContinueEffects DEF LedgerInvariant, LedgerFollows
<1>4. ledger' = IF Reported /\ Fills
                  THEN WithFill(ledger, FillRecord(Last(call'.fills))) ELSE ledger
  BY DEF Proceed
<1>5. DOMAIN ledger' = DOMAIN ledger
  BY <1>4, FilledEntries
<1>6. SoundLedger(ledger)'
  <2>1. CASE ~(Reported /\ Fills)
    BY <1>4, <2>1 DEF LedgerInvariant, LedgerFollows, SoundLedger
  <2>2. CASE Reported /\ Fills
    <3>1. Last(call'.fills).qty \in Int
      BY <1>3, <2>2 DEF Silent, PaperTraded, StrategyTraded, Reports, RestIsDropped,
                        RestStrategy, Dropped, Fills
    <3> DEFINE r == FillRecord(Last(call'.fills))
    <3>2. r.qty \in Int
      BY <3>1 DEF FillRecord
    <3> HIDE DEF r
    <3>3. SoundLedger(WithFill(ledger, r))
      BY <3>2, FillSound DEF LedgerInvariant, LedgerFollows
    <3> QED BY <1>4, <2>2, <3>3 DEF SoundLedger, r
  <2> QED BY <2>1, <2>2
<1>7. CASE ~Reported
  BY <1>1, <1>2, <1>5, <1>6, <1>7 DEF LedgerFollows, LedgerInvariant, Reported
<1>8. CASE Reported
  <2>1. AggressorUnknown'
    BY <1>1, <1>2, <1>5, <1>8 DEF LedgerInvariant, LedgerFollows, AggressorUnknown
  <2>2. ASSUME NEW x \in Ids PROVE Tracked(x)'
    BY <1>3, <1>8, SilentTracks, PaperTradedTracks, StrategyTradedTracks, RestTracks
  <2> QED BY <1>2, <1>5, <1>6, <2>1, <2>2 DEF LedgerFollows, LedgerInvariant
<1> QED BY <1>7, <1>8

\* A snapshot removes every order from the engine, and from the ledger or not;
\* a sink that is attached knows none.
LEMMA SnapshotStep ==
  ASSUME LedgerInvariant, NEW rows, InitFromSnapshot(rows)
  PROVE  LedgerFollows'
<1>1. /\ paper_orders' = Empty
      /\ call'.pc \in {"l2", "l3"}
      /\ sink' = sink
      /\ ledger' = ledger \/ ledger' = Empty
      /\ estranged' = {id \in DOMAIN ledger' : ~Closed(ledger[id]) \/ id \in estranged}
  BY DEF InitFromSnapshot, InitFromL2Snapshot, InitFromL3Snapshot, clear_state, Reset
<1>2. DOMAIN Empty = {}
  BY DEF Empty
<1>3. PaperPhase' /\ AggressorUnknown'
  BY <1>1 DEF PaperPhase, AggressorUnknown, Handling
<1>4. SoundLedger(ledger)' /\ DOMAIN ledger' \subseteq Ids
  BY <1>1, <1>2 DEF SoundLedger, LedgerInvariant, LedgerFollows
<1>5. ASSUME Reported, NEW x \in Ids PROVE Tracked(x)'
  <2>1. ~Rests(x)' /\ ~Incoming(x)'
    BY <1>1, <1>2 DEF Rests, Incoming, Running
  <2>2. CASE x \notin DOMAIN ledger' \/ x \in estranged'
    BY <2>1, <2>2 DEF Tracked
  <2>3. CASE x \in DOMAIN ledger' /\ x \notin estranged'
    <3>1. ledger' = ledger /\ Closed(ledger[x]) /\ x \notin estranged
      BY <1>1, <1>2, <2>3
    <3>2. ledger[x].filled + ledger[x].remaining <= ledger[x].initial
      BY <1>5, <2>3, <3>1 DEF LedgerInvariant, LedgerFollows, Tracked, TracksOrder
    <3> QED BY <2>1, <2>3, <3>1, <3>2 DEF Tracked, TracksOrder
  <2> QED BY <2>2, <2>3
<1> QED BY <1>1, <1>3, <1>4, <1>5 DEF LedgerFollows, Reported

LEMMA AttachStep ==
  ASSUME LedgerInvariant, NEW kind, set_log_sink(kind)
  PROVE  LedgerFollows'
<1>1. /\ call = Idle /\ call' = Idle
      /\ paper_orders' = paper_orders
      /\ ledger' = Empty
      /\ sink' = kind
      /\ kind # "none" => estranged' = DOMAIN paper_orders
  BY DEF set_log_sink, vars, paperVars
<1>2. DOMAIN Empty = {}
  BY DEF Empty
<1>3. PaperPhase' /\ AggressorUnknown' /\ SoundLedger(ledger)' /\ DOMAIN ledger' \subseteq Ids
  BY <1>1, <1>2 DEF PaperPhase, AggressorUnknown, Handling, Idle, SoundLedger
<1>4. ASSUME Reported', NEW x \in Ids PROVE Tracked(x)'
  BY <1>1, <1>2, <1>4 DEF Tracked, Reported, Rests, Incoming, Running, Idle
<1> QED BY <1>3, <1>4 DEF LedgerFollows

LEMMA OtherStep ==
  ASSUME LedgerInvariant, Query \/ UNCHANGED allVars
  PROVE  LedgerFollows'
<1>1. UNCHANGED <<paper_orders, call, ledger, sink, estranged>>
  BY DEF Query, GetBestPriceTicks, paperVars, ledgerVars, allVars, vars
<1>2. \A x : Tracked(x)' <=> Tracked(x)
  BY <1>1 DEF Tracked, TracksOrder, Rests, Incoming, Running, Closed
<1> QED BY <1>1, <1>2 DEF LedgerFollows, LedgerInvariant, SoundLedger, PaperPhase, Reported,
           AggressorUnknown, Handling

LEMMA LedgeredSteps == LedgeredNext => [Next]_vars
<1> SUFFICES ASSUME LedgeredNext PROVE [Next]_vars
  OBVIOUS
<1>1. CASE \E e \in Events : Update(e)
  BY <1>1 DEF Update, Next
<1>2. CASE \E rows \in L2Snapshots \cup L3Snapshots : InitFromSnapshot(rows)
  BY <1>2 DEF InitFromSnapshot, Next
<1>3. CASE Query \/ Proceed
  BY <1>3 DEF Query, Proceed, Next
<1>4. CASE \E kind \in SinkKinds : set_log_sink(kind)
  BY <1>4 DEF set_log_sink
<1> QED BY <1>1, <1>2, <1>3, <1>4 DEF LedgeredNext

(***************************************************************************)
(* LedgerInvariant is inductive: whatever the feed and the strategy        *)
(* submit, a fill is credited to the order that trades, and to no other    *)
(* order that the ledger still follows.                                    *)
(***************************************************************************)
THEOREM LedgerInvariance == LedgeredSpec => []LedgerInvariant
<1>1. LedgeredInit => LedgerInvariant
  <2> SUFFICES ASSUME LedgeredInit PROVE LedgerInvariant
    OBVIOUS
  <2>1. Inductive /\ call = Idle /\ ledger = Empty /\ paper_orders = Empty
    BY Initially DEF LedgeredInit, Init
  <2>2. DOMAIN Empty = {}
    BY DEF Empty
  <2> QED BY <2>1, <2>2 DEF LedgerInvariant, LedgerFollows, SoundLedger, PaperPhase,
             Idle, AggressorUnknown, Handling, Tracked, Rests, Incoming, Running
<1>2. LedgerInvariant /\ [LedgeredNext]_allVars => LedgerInvariant'
  <2> SUFFICES ASSUME LedgerInvariant, [LedgeredNext]_allVars PROVE LedgerInvariant'
    OBVIOUS
  <2>1. [Next]_vars
    BY LedgeredSteps DEF allVars
  <2>2. Inductive'
    BY <2>1, StepPreservesInductive DEF LedgerInvariant
  <2>3. LedgerFollows'
    BY UpdateStep, SnapshotStep, AttachStep, OtherStep, ProceedStep DEF LedgeredNext
  <2> QED BY <2>2, <2>3 DEF LedgerInvariant
<1> QED BY <1>1, <1>2, PTL DEF LedgeredSpec

(***************************************************************************)
(* The ledger tells the truth about every order that is not estranged.     *)
(***************************************************************************)
THEOREM LedgerAlwaysAgrees == LedgeredSpec => []LedgerAgrees
<1>1. ASSUME LedgerInvariant PROVE LedgerAgrees
  <2> SUFFICES ASSUME Reported
               PROVE  /\ DOMAIN paper_orders \ estranged \subseteq DOMAIN ledger
                      /\ \A id \in DOMAIN ledger \ estranged : TracksOrder(id)
    BY DEF LedgerAgrees, TracksOrder, Rests
  <2>1. DOMAIN paper_orders \subseteq Ids /\ DOMAIN ledger \subseteq Ids
    BY <1>1 DEF LedgerInvariant, LedgerFollows, Inductive, PaperInvariant, PaperTypes,
                IsPartial
  <2>2. \A id \in Ids : Tracked(id)
    BY <1>1 DEF LedgerInvariant, LedgerFollows
  <2> QED BY <2>1, <2>2 DEF Tracked, Rests
<1> QED BY <1>1, LedgerInvariance, PTL

Over(id) ==
  \/ ledger[id].status = "CANCELLED"
  \/ ledger[id].status = "FILLED" /\ id \notin estranged'

(***************************************************************************)
(* What is over is over: no event and no fill changes a cancelled entry,   *)
(* nor a filled one, unless its id has come to be estranged.               *)
(***************************************************************************)
THEOREM ClosedAlwaysStays == LedgeredSpec => ClosedStays
<1>1. ASSUME LedgerInvariant, LedgeredNext, NEW id \in DOMAIN ledger \cap DOMAIN ledger',
             Over(id)
      PROVE  ledger'[id] = ledger[id]
  <2>1. id \in Ids /\ SoundLedger(ledger) /\ Sound(ledger[id]) /\ Closed(ledger[id])
    BY <1>1 DEF LedgerInvariant, LedgerFollows, SoundLedger, Over, Closed
  <2>2. CASE ledger' = ledger \/ ledger' = Empty
    BY <2>2 DEF Empty
  <2>3. ASSUME NEW e \in Events, Update(e), Reported PROVE ledger'[id] = ledger[id]
    <3>1. e.qty \in Int /\ ledger' = update_strategy_order(ledger, e)
      BY <2>3, EventsAssumption DEF Event, Update
    <3>2. Changed(ledger[id], e) = ledger[id]
      BY <2>1, ChangedFacts
    <3> QED BY <1>1, <2>1, <3>1, <3>2, UpdatedEntries
  <2>4. ASSUME Proceed, Reported, Fills PROVE ledger'[id] = ledger[id]
    <3>1. ledger' = WithFill(ledger, FillRecord(Last(call'.fills)))
      BY <2>4 DEF Proceed
    <3>2. CASE ledger[id].status = "CANCELLED"
      BY <1>1, <3>1, <3>2, FilledEntries
    <3>3. CASE ledger[id].status # "CANCELLED"
      <4>1. id \notin estranged
        BY <1>1, <2>4, <3>3 DEF Over, Proceed
      <4>2. ~Rests(id) /\ ~Incoming(id)
        BY <1>1, <2>1, <2>4, <4>1 DEF LedgerInvariant, LedgerFollows, Tracked, TracksOrder
      <4>3. CASE Silent \/ RestIsDropped \/ RestStrategy
        BY <1>1, <2>4, <4>3, LedgerKept
      <4>4. ASSUME NEW f \in Fill, PaperTraded(f) \/ StrategyTraded(f)
            PROVE  ledger'[id] = ledger[id]
        <5>1. ~Trades(id, f)
          BY <4>2, <4>4 DEF Trades, PaperTraded, StrategyTraded, Rests
        <5> QED BY <1>1, <2>4, <4>1, <4>4, <5>1, LedgerTraded
      <4> QED BY <1>1, <2>4, <4>3, <4>4, ContinueEffects
              DEF LedgerInvariant, LedgerFollows, Proceed
    <3> QED BY <3>2, <3>3
  <2> QED BY <1>1, <2>2, <2>3, <2>4
          DEF LedgeredNext, Update, Proceed, InitFromSnapshot, Reset, set_log_sink,
              Query, ledgerVars
<1>2. LedgerInvariant /\ [LedgeredNext]_allVars =>
        [\A id \in DOMAIN ledger \cap DOMAIN ledger' :
           \/ ledger[id].status = "CANCELLED"
           \/ ledger[id].status = "FILLED" /\ id \notin estranged'
           => ledger'[id] = ledger[id]]_allVars
  BY <1>1 DEF Over
<1> QED BY <1>2, LedgerInvariance, PTL DEF LedgeredSpec, ClosedStays
=============================================================================
