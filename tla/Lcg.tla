--------------------------------- MODULE Lcg ---------------------------------
(***************************************************************************)
(* The random number generators of dbgen and qgen: one application of each, *)
(* and a draw from an interval (rnd.c, rng64.c). They keep the form they    *)
(* have in the code with smaller numbers: a prime for 2147483647, a power   *)
(* of two for 2^64, and multipliers below them.                             *)
(***************************************************************************)
EXTENDS Integers

CONSTANTS
  Multiplier, Modulus,   \* of the 31-bit generator: 16807 and 2147483647
  RNG_A, RNG_C, Width    \* of the 64-bit generator: c is 1, Width is 2^64

\* One application: NextRand, and NextRand64 with its implicit truncation.
NextRand(seed) == (seed * Multiplier) % Modulus
NextRand64(seed) == (seed * RNG_A + RNG_C) % Width

\* The part of the range [low, high] that the new seed stands for. The seed is
\* divided by the modulus as a double, and the product truncated.
UnifInt(low, high, seed) == low + (seed * (high - low + 1)) \div Modulus

Prime(m) == m \in Nat \ {0, 1} /\ \A d \in 2..(m - 1) : m % d # 0

GeneratorsAssumption ==
  /\ Prime(Modulus) /\ Multiplier \in 1..(Modulus - 1)
  /\ Width \in Nat \ {0} /\ RNG_A \in 1..(Width - 1) /\ RNG_C = 1
=============================================================================
