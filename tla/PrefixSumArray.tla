--------------------------- MODULE PrefixSumArray ---------------------------
(***************************************************************************)
(* The array of quantities that a paper level believes to keep, as a       *)
(* specification: its prefix sums, and the two changes that the engine     *)
(* makes to it.                                                            *)
(***************************************************************************)
EXTENDS PrefixSums

CONSTANTS
  MaxLen,      \* bound on the number of quantities
  Quantities   \* the values that a quantity takes

VARIABLE sums

Init == sums = <<>>

\* A node or a paper order joins the level.
Join(qty) ==
  /\ Len(sums) < MaxLen
  /\ sums' = Push(sums, qty)

\* One that is known trades, or changes its quantity.
Change(index, qty) ==
  /\ index < Len(sums)
  /\ sums' = AddAt(sums, index, qty - ValueAt(sums, index))

Next ==
  \E qty \in Quantities :
    Join(qty) \/ \E index \in 0 .. MaxLen - 1 : Change(index, qty)

Spec == Init /\ [][Next]_sums
=============================================================================
