----------------------------- MODULE Instrument -----------------------------
(***************************************************************************)
(* cpp/include/lobsim/instrument.hpp: prices and quantities become ticks   *)
(* and lots, on the grid of an instrument.                                 *)
(*                                                                         *)
(* An amount is the fraction num / den.  What is not finite has den = 0:   *)
(* infinity if num > 0, not a number otherwise.  The error of a long       *)
(* double is left out, except that Strict allows for StrictEps.            *)
(***************************************************************************)
EXTENDS Integers

CONSTANTS
  MaxInt64,   \* the largest std::int64_t
  StrictEps   \* strict_eps, a fraction of a tick or lot

RoundingPolicy == {"Strict", "Nearest", "Floor", "Ceil"}

Fraction == [num : Int, den : Nat]

\* InstrumentSpec
InstrumentSpec ==
  [tick_size : Fraction, lot_size : Fraction,
   price_policy : RoundingPolicy, qty_policy : RoundingPolicy]

ASSUME LimitsAssumption == MaxInt64 \in Nat /\ StrictEps \in Fraction

Finite(x) == x.den > 0

\* x >= 0, which no NaN is
AtLeastZero(x) == IF Finite(x) THEN x.num >= 0 ELSE x.num > 0

\* Rational::valid
Valid(grid) == grid.den > 0 /\ grid.num > 0

\* InstrumentSpec::is_valid
IsValid(spec) == Valid(spec.tick_size) /\ Valid(spec.lot_size)

Magnitude(n) == IF n < 0 THEN -n ELSE n

\* std::llround of what is not negative: halves go up.  Beyond 64 bits its
\* value is unspecified: x86-64 yields a negative number, which is refused as
\* here; where it saturates and a long double is a double, MaxInt64 results.
Nearest(x) == (2 * x.num + x.den) \div (2 * x.den)

\* Mutated form of Rounded: Ceil always moves to the next integer.
RoundedUp(x, policy) ==
  CASE policy \in {"Strict", "Nearest"} -> Nearest(x)
    [] policy = "Floor" -> x.num \div x.den
    [] policy = "Ceil"  -> x.num \div x.den + 1

Rounded(x, policy) ==
  CASE policy \in {"Strict", "Nearest"} -> Nearest(x)
    [] policy = "Floor" -> x.num \div x.den
    [] policy = "Ceil"  -> -((-x.num) \div x.den)

OffGrid(x) ==
  Magnitude(x.num - Nearest(x) * x.den) * StrictEps.den > StrictEps.num * x.den

\* The integers a conversion yields: one, or none if it fails.
round_to_int64(x, policy) ==
  IF ~Finite(x) \/ (policy = "Strict" /\ OffGrid(x))
    THEN {}
    ELSE {y \in {Rounded(x, policy)} : 0 <= y /\ y <= MaxInt64}

\* price_to_ticks with tick_size and price_policy, quantity_to_lots with
\* lot_size and qty_policy
ToUnits(spec, amount, grid, policy) ==
  IF IsValid(spec) /\ AtLeastZero(amount)
    THEN round_to_int64([num |-> amount.num * grid.den,
                         den |-> amount.den * grid.num], policy)
    ELSE {}

(***************************************************************************)
(* What a policy promises, by the distance of the grid point to the        *)
(* amount: both are integers over grid.den * amount.den here.              *)
(***************************************************************************)
OnGrid(units, amount, grid, policy) ==
  LET step  == grid.num * amount.den
      error == units * step - amount.num * grid.den
  IN  CASE policy = "Strict"  ->
             Magnitude(error) * StrictEps.den <= StrictEps.num * step
        [] policy = "Nearest" -> -step < 2 * error /\ 2 * error <= step
        [] policy = "Floor"   -> -step < error /\ error <= 0
        [] policy = "Ceil"    -> 0 <= error /\ error < step
=============================================================================
