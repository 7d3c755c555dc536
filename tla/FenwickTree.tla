----------------------------- MODULE FenwickTree -----------------------------
(***************************************************************************)
(* The struct FenwickTree of paper_trading_simulator.hpp.  tree[i] holds   *)
(* the sum of the i & -i quantities that end with the one at index i - 1;  *)
(* the element 0 of the code's vector is never used and left out.  It      *)
(* grows by one element at a time, as the engine makes it grow.            *)
(***************************************************************************)
EXTENDS Integers, Sequences

CONSTANTS MaxLen, Quantities

ASSUME TreeAssumption == MaxLen \in Nat /\ Quantities \subseteq Int

VARIABLE tree

\* i & -i, the lowest bit that is set in i > 0
LowBit(i) ==
  LET low[n \in 1 .. i] == IF n % 2 = 1 THEN 1 ELSE 2 * low[n \div 2]
  IN  low[i]

\* sum(count)
Sum(t, count) ==
  LET sum[i \in 0 .. count] ==
        IF i = 0 THEN 0 ELSE t[i] + sum[i - LowBit(i)]
  IN  sum[count]

\* The elements that add(index, delta) visits.
Ancestors(index, size) ==
  LET from[i \in 1 .. 2 * (size + index + 1)] ==
        IF i > size THEN {} ELSE {i} \cup from[i + LowBit(i)]
  IN  from[index + 1]

Add(t, index, delta) ==
  [i \in DOMAIN t |->
     IF i \in Ancestors(index, Len(t)) THEN t[i] + delta ELSE t[i]]

\* Mutated form of Grown: the new element starts at zero.
GrownByZero(t) == Append(t, 0)

\* ensure_size(n) for one element more than there are: the element also
\* covers quantities that are there already.
Grown(t) ==
  LET i == Len(t) + 1
  IN  Append(t, Sum(t, i - 1) - Sum(t, i - LowBit(i)))

TreeInit == tree = <<>>

\* The quantity at an index, for the differences that the engine adds.
QuantityAt(index) == Sum(tree, index + 1) - Sum(tree, index)

\* ensure_size(size() + 1); add(size(), qty)
Join(qty) ==
  /\ Len(tree) < MaxLen
  /\ tree' = Add(Grown(tree), Len(tree), qty)

Change(index, qty) ==
  /\ index < Len(tree)
  /\ tree' = Add(tree, index, qty - QuantityAt(index))

TreeNext ==
  \E qty \in Quantities :
    Join(qty) \/ \E index \in 0 .. MaxLen - 1 : Change(index, qty)

TreeSpec == TreeInit /\ [][TreeNext]_tree
-----------------------------------------------------------------------------
Array == INSTANCE PrefixSumArray
           WITH sums <- [count \in 1 .. Len(tree) |-> Sum(tree, count)]

(***************************************************************************)
(* However quantities joined and changed, sum(count) is the sum of the     *)
(* first count quantities: the tree implements the array of prefix sums    *)
(* that the model of the engine uses for market_qty and paper_qty.         *)
(***************************************************************************)
ImplementsArray == Array!Spec
=============================================================================
