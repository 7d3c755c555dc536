----------------------------- MODULE PrefixSums -----------------------------
(***************************************************************************)
(* What the struct FenwickTree of paper_trading_simulator.hpp promises the *)
(* engine: a growing array of quantities, indexed from 0, that is updated  *)
(* at one index and summed over a prefix.  The array is represented by its *)
(* prefix sums: t[k] is the sum of the first k quantities.  The tree that  *)
(* the code keeps instead is modelled, and shown to compute these values,  *)
(* in FenwickTree.tla.                                                     *)
(***************************************************************************)
EXTENDS Integers, Sequences

\* sum(count): the sum of the quantities at the indices 0 .. count-1.
PrefixSum(t, count) == IF count = 0 THEN 0 ELSE t[count]

Total(t) == PrefixSum(t, Len(t))

\* The quantity at one index, which the code never reads back.
ValueAt(t, index) == PrefixSum(t, index + 1) - PrefixSum(t, index)

\* Mutated form of AddAt: the index is taken for one that starts at 1.
AddAtNext(t, index, delta) ==
  [k \in DOMAIN t |-> IF k > index + 1 THEN t[k] + delta ELSE t[k]]

\* add(index, delta): an index beyond the end changes nothing.
AddAt(t, index, delta) ==
  [k \in DOMAIN t |-> IF k > index THEN t[k] + delta ELSE t[k]]

\* ensure_size(size() + 1) followed by add(size(), value).
Push(t, value) == Append(t, Total(t) + value)
=============================================================================
