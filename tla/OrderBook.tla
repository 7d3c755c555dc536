----------------------------- MODULE OrderBook -----------------------------
(***************************************************************************)
(* What the engine promises of its historical book: a book with priority   *)
(* by price and then by arrival, without levels, heaps, queues and nodes.  *)
(* Orders trade one at a time, the best resting order first; an order      *)
(* rests only when nothing is left that it could trade with; changes of a  *)
(* resting order leave it where it is.                                     *)
(***************************************************************************)
EXTENDS Integers

CONSTANT Bids  \* a side: its orders are served from the highest price

VARIABLES
  orders,    \* resting: [side, price, arrival, qty, id]
  incoming,  \* the orders on their way, one or none: [side, limit, qty]
  loading    \* a snapshot is being loaded

vars == <<orders, incoming, loading>>

\* a is served before b, an order of the same side.
Before(a, b) ==
  \/ IF a.side = Bids THEN a.price > b.price ELSE a.price < b.price
  \/ a.price = b.price /\ a.arrival < b.arrival

Crossing(i, o) ==
  /\ o.side # i.side
  /\ IF i.side = Bids THEN o.price <= i.limit ELSE o.price >= i.limit

\* The resting order that an incoming one trades with next.
Best(i) ==
  {o \in orders : Crossing(i, o) /\ \A x \in orders : Crossing(i, x) => ~Before(x, o)}

WithQty(o, qty) == [o EXCEPT !.qty = qty]

\* orders in which o has qty lots; without any it is gone.
Requantified(o, qty) ==
  (orders \ {o}) \cup (IF qty > 0 THEN {WithQty(o, qty)} ELSE {})

Arrive ==
  /\ ~loading
  /\ incoming = {}
  /\ \E i \in incoming' : incoming' = {i} /\ i.qty >= 0
  /\ UNCHANGED <<orders, loading>>

\* An order without quantity, of a snapshot, leaves the book on the way.
Trade ==
  /\ \E i \in incoming : i.qty > 0 /\ \E o \in Best(i) :
       LET lots == IF o.qty <= i.qty THEN o.qty ELSE i.qty
       IN  /\ orders' = Requantified(o, o.qty - lots)
           /\ incoming' = {[i EXCEPT !.qty = i.qty - lots]}
  /\ UNCHANGED loading

\* Paper orders take lots from what the book has left.
Absorb ==
  /\ \E i \in incoming : Best(i) = {} /\ \E j \in incoming' :
       /\ incoming' = {j}
       /\ j.qty < i.qty /\ j.qty >= 0
       /\ j = [i EXCEPT !.qty = j.qty]
  /\ UNCHANGED <<orders, loading>>

\* An order is last at its price: it arrived after all others.
Enters(o) ==
  /\ orders' = orders \cup {o}
  /\ o \notin orders
  /\ \A x \in orders : x.arrival < o.arrival

Rest ==
  /\ \E i \in incoming :
       /\ i.qty > 0
       /\ Best(i) = {}
       /\ \E o \in orders' :
            o.side = i.side /\ o.price = i.limit /\ o.qty = i.qty /\ Enters(o)
  /\ incoming' = {}
  /\ UNCHANGED loading

\* Nothing is left to do, or no place to rest.
Leave ==
  /\ \E i \in incoming : i.qty = 0 \/ Best(i) = {}
  /\ incoming' = {}
  /\ UNCHANGED <<orders, loading>>

\* A feed reduces, resizes or removes an order, or reports it as traded.
Change ==
  /\ incoming = {}
  /\ ~loading
  /\ \E o \in orders :
       \/ orders' = Requantified(o, 0)
       \/ \E x \in orders' : x.qty > 0 /\ orders' = Requantified(o, x.qty)
  /\ UNCHANGED <<incoming, loading>>

Reset ==
  /\ incoming = {}
  /\ orders' = {}
  /\ loading' = TRUE
  /\ UNCHANGED incoming

Load ==
  /\ loading
  /\ \E o \in orders' : Enters(o)
  /\ UNCHANGED <<incoming, loading>>

EndLoad ==
  /\ loading
  /\ loading' = FALSE
  /\ UNCHANGED <<orders, incoming>>

Init == orders = {} /\ incoming = {} /\ loading = FALSE

Next ==
  Arrive \/ Trade \/ Absorb \/ Rest \/ Leave \/ Change \/ Reset \/ Load \/ EndLoad

Spec == Init /\ [][Next]_vars
=============================================================================
