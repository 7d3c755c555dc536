------------------------------- MODULE MCSinks -------------------------------
(***************************************************************************)
(* Instances of the sinks for TLC.                                         *)
(***************************************************************************)
EXTENDS SinkWiring

CONSTANTS b1, b2, a1, a2, o1

Symmetry == Permutations({b1, b2}) \cup Permutations({a1, a2})

F(key, maker, maker_source, taker, taker_source, qty) ==
  [key |-> key, maker |-> maker, maker_source |-> maker_source,
   taker |-> taker, taker_source |-> taker_source, qty |-> qty]

\* A paper order of one lot, or two after a SET, is filled as a maker or as a
\* taker; some records name a book, which may not be the one that reports.
SomeFills ==
  {F(NoKey, o1, "STRATEGY", UnknownOrderId, "HISTORICAL", 1),
   F(NoKey, UnknownOrderId, "HISTORICAL", o1, "STRATEGY", 1)}

E(key, type, source, qty, id) ==
  [key |-> key, type |-> type, source |-> source, qty |-> qty, id |-> id]

SomeEvents ==
  {E(NoKey, "ADD", "STRATEGY", 1, o1)}
    \cup {E(b, "SET", "STRATEGY", 2, o1) : b \in Books}

SomeDiagnostics == {[key |-> NoKey, code |-> 15]}
=============================================================================
