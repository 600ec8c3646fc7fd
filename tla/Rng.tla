--------------------------------- MODULE Rng ---------------------------------
(***************************************************************************)
(* The loops that move a seed past many applications of a generator at once *)
(* (NthElement of speed_seed.c, AdvanceRand64 of rng64.c), one turn of a     *)
(* loop per step.                                                           *)
(***************************************************************************)
EXTENDS Lcg

CONSTANT MaxSkip   \* bound: applications skipped at once

RngAssumption == GeneratorsAssumption /\ MaxSkip \in Nat

-----------------------------------------------------------------------------
VARIABLES
  fn,          \* the function that runs, or "none"
  seed, skip,  \* its arguments: *StartSeed or nSeed, N or nCount
  left,        \* N, or nBit
  mult, acc,   \* Mult and Z, or Apow and Dsum
  result       \* the seed it has returned
rngVars == <<fn, seed, skip, left, mult, acc, result>>

Init ==
  /\ fn = "none" /\ seed = 0 /\ skip = 0
  /\ left = 0 /\ mult = 0 /\ acc = 0 /\ result = 0

\* A row may have used more draws than its boundary: row_stop passes the difference
\* on, and NthElement does nothing for a negative N.
CallNthElement ==
  /\ fn = "none"
  /\ fn' = "NthElement"
  /\ seed' \in 1..(Modulus - 1)
  /\ skip' \in -1..MaxSkip
  /\ left' = skip' /\ mult' = Multiplier /\ acc' = seed'
  /\ result' = 0

NthElementAlways ==  \* mutant: the seed is multiplied for even powers too
  /\ fn = "NthElement" /\ left > 0
  /\ acc' = (mult * acc) % Modulus
  /\ left' = left \div 2
  /\ mult' = (mult * mult) % Modulus
  /\ UNCHANGED <<fn, seed, skip, result>>

\* One turn of the loop: a bit of N.
NthElement ==
  /\ fn = "NthElement" /\ left > 0
  /\ acc' = IF left % 2 # 0 THEN (mult * acc) % Modulus ELSE acc
  /\ left' = left \div 2
  /\ mult' = (mult * mult) % Modulus
  /\ UNCHANGED <<fn, seed, skip, result>>

\* n >> b
Shifted(n, b) == LET at[j \in 0..MaxSkip] == IF j = 0 THEN n ELSE at[j - 1] \div 2
                 IN  at[b]

\* The highest bit of nCount that is set.
HighestBit(n) == CHOOSE b \in 0..n : Shifted(n, b) = 1

CallAdvanceRand64 ==
  /\ fn = "none"
  /\ fn' = "AdvanceRand64"
  /\ seed' \in 0..(Width - 1)
  /\ skip' \in 0..MaxSkip
  /\ left' = IF skip' = 0 THEN 0 ELSE HighestBit(skip')
  /\ mult' = RNG_A /\ acc' = RNG_C
  /\ result' = 0

\* One turn of the loop: X(n) = mult * X(0) + acc becomes X(2n) or X(2n + 1).
AdvanceRand64 ==
  /\ fn = "AdvanceRand64" /\ left > 0
  /\ left' = left - 1
  /\ LET twice == (acc * (mult + 1)) % Width
         square == (mult * mult) % Width
     IN  IF Shifted(skip, left') % 2 = 1
         THEN acc' = (twice + square) % Width /\ mult' = (square * RNG_A) % Width
         ELSE acc' = twice /\ mult' = square
  /\ UNCHANGED <<fn, seed, skip, result>>

Return ==
  /\ fn # "none" /\ left <= 0
  /\ fn' = "none"
  /\ result' = IF fn = "NthElement" THEN acc
               ELSE IF skip = 0 THEN seed ELSE (seed * mult + acc * RNG_C) % Width
  /\ UNCHANGED <<seed, skip, left, mult, acc>>

Next == CallNthElement \/ NthElement \/ CallAdvanceRand64 \/ AdvanceRand64 \/ Return

-----------------------------------------------------------------------------
(* Properties *)

\* The seed after n applications of the generator, one at a time.
Applied(s, n) == LET at[k \in 0..MaxSkip] == IF k = 0 THEN s ELSE NextRand(at[k - 1])
                 IN  at[IF n < 0 THEN 0 ELSE n]
Applied64(s, n) == LET at[k \in 0..MaxSkip] == IF k = 0 THEN s ELSE NextRand64(at[k - 1])
                   IN  at[n]

ReturnsIterated ==
  Return =>
    IF fn = "NthElement"
    THEN /\ result' = Applied(seed, skip)
         /\ result' \in 1..(Modulus - 1)
         /\ \A low \in 0..1, n \in 1..5 : UnifInt(low, low + n, result') \in low..(low + n)
    ELSE result' = Applied64(seed, skip)

\* Skipping n rows leads to the seed that generating them would have left, for both
\* generators, and a 31-bit seed never sticks at 0 or draws outside its interval.
AdvanceIsIteration == [][ReturnsIterated]_rngVars
=============================================================================
