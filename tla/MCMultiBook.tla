----------------------------- MODULE MCMultiBook -----------------------------
(***************************************************************************)
(* Instances of the simulator of several books for TLC.                    *)
(***************************************************************************)
EXTENDS MultiBookProperties, TLC

CONSTANTS b1, b2

Symmetry == Permutations({b1, b2})

E(ts, exchange) == [ts_received |-> ts, ts_exchange |-> exchange]

S(ts, exchange, latency) ==
  [book : {b1, b2}, ts_received : {ts}, ts_exchange : {exchange},
   latency : {latency}]

\* Ties in one feed and between feeds, events out of order, malformed ones.
MixedFeeds ==
  {<<E(1, 1), E(3, 2), E(3, 3)>>, <<E(3, 1), E(2, 1), E(4, 1)>>,
   <<Malformed, E(3, 2)>>}

\* Relative to the clock, at a time that feeds have, too, and in the past.
AllSubmissions ==
  S(0, 0, NoTime) \cup S(0, 2, 2) \cup S(3, 1, NoTime) \cup S(2, 0, -1)

RelativeSubmissions ==
  {s \in S(0, 0, NoTime) \cup S(0, 1, 2) : s.book = b1}

LaterEvents == {E(3, 1)}
=============================================================================
