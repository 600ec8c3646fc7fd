------------------------------- MODULE Parts --------------------------------
(***************************************************************************)
(* The parts of dbgen that work below the rows, and qgen, side by side: a   *)
(* behaviour is one of rows, of a generator of random numbers, of a         *)
(* distribution, of the pool of text, or of qgen, while the others stay     *)
(* where they begin.                                                        *)
(***************************************************************************)
EXTENDS Rows

CONSTANTS
  Multiplier, Modulus, RNG_A, RNG_C, Width, MaxSkip,
  Files, Wanted, P_NAME_SCL, MaxNames,
  grammar, np, vp, WordLengths, TermLengths, TEXT_POOL_SIZE, PoolComments,
  Commands, permutation, MaxRuns, QueryMultiplier, QueryModulus

VARIABLES fn, seed, skip, left, mult, acc, result
rng == <<fn, seed, skip, left, mult, acc, result>>
VARIABLES file, line, name_set, count, target, state, permute, k, drawn, named
dists == <<file, line, name_set, count, target, state, permute, k, drawn, named>>
VARIABLES at, syntax, phrase, dest, res, whole, wordlen, cp, comment
text == <<at, syntax, phrase, dest, res, whole, wordlen, cp, comment>>
VARIABLES runs, doing, command, todo, Seed, qnum, step, turn, param, sizes, ccode,
          logged, lineno, in_comment, printed, texts
queries == <<runs, doing, command, todo, Seed, qnum, step, turn, param, sizes, ccode,
             logged, lineno, in_comment, printed, texts>>
VARIABLE what  \* the part that runs

Rng == INSTANCE Rng
Dists == INSTANCE Dists WITH at <- line
Text == INSTANCE Text WITH CommentLengths <- PoolComments
Qgen == INSTANCE Qgen WITH text <- printed, Multiplier <- QueryMultiplier,
                          Modulus <- QueryModulus

ASSUME PartsAssumption ==
  /\ Rng!RngAssumption /\ Dists!DistsAssumption
  /\ Text!TextAssumption /\ Qgen!QgenAssumption

PartsInit ==
  /\ what \in {"rows", "generators", "distributions", "sentences", "queries"}
  /\ Init /\ Rng!Init /\ Text!Init /\ Dists!Init /\ Qgen!Init
  /\ what # "distributions" => file = CHOOSE f \in Files : TRUE

PartsNext ==
  \/ what = "rows" /\ Next /\ UNCHANGED <<what, rng, dists, text, queries>>
  \/ what = "generators" /\ Rng!Next /\ UNCHANGED <<what, rowsVars, dists, text, queries>>
  \/ what = "distributions" /\ Dists!Next
       /\ UNCHANGED <<what, rowsVars, rng, text, queries>>
  \/ what = "sentences" /\ Text!Next /\ UNCHANGED <<what, rowsVars, rng, dists, queries>>
  \/ what = "queries" /\ Qgen!Next /\ UNCHANGED <<what, rowsVars, rng, dists, text>>

PartsSpec == PartsInit /\ [][PartsNext]_<<what, rowsVars, rng, dists, text, queries>>

-----------------------------------------------------------------------------
(* What the forms of dists.dss keep to: with words of up to "word" bytes, phrases of up
   to "words" and terminators of up to "term", each sentence fits the buffer; it has one
   terminator, at its end; and only a noun phrase has marks, between its words.        *)

Count(form, parts) == Cardinality({x \in DOMAIN form : form[x].part \in parts})
Unmarked(form) == \A x \in DOMAIN form : ~form[x].mark
WordsLength(form, word) ==
  Len(form) * (word + 1) + Cardinality({x \in DOMAIN form : form[x].mark})

SentencesFit(word, words, term) ==
  /\ \A x \in WordLengths : x <= word
  /\ \A x \in TermLengths : x <= term
  /\ \A form \in np \cup vp : WordsLength(form, word) <= words
  /\ \A form \in vp : Unmarked(form)
  /\ \A form \in grammar :
       /\ Len(form) > 0 /\ Unmarked(form)
       /\ \A x \in DOMAIN form : form[x].part = "T" <=> x = Len(form)
       /\ Count(form, {"P"}) * (word + Text!THE) + Count(form, {"N", "V", "P"}) * words + term
            <= Text!MAX_SENT_LEN

-----------------------------------------------------------------------------
\* No command line has the same query twice.
EachOnce ==
  \A c \in Commands : \A p, q \in DOMAIN Qgen!Queries(c) :
    p # q => Qgen!Queries(c)[p] # Qgen!Queries(c)[q]

-----------------------------------------------------------------------------
(* The properties of the other parts, under their own names. *)

AdvanceIsIteration == Rng!AdvanceIsIteration
PicksAreWeighted == Dists!PicksAreWeighted
NamesDependOnDraws == Dists!NamesDependOnDraws
PoolIsFilled == Text!PoolIsFilled
ParametersFromSeed == Qgen!ParametersFromSeed
ParametersAreValid == Qgen!ParametersAreValid
=============================================================================
