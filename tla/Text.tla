-------------------------------- MODULE Text --------------------------------
(***************************************************************************)
(* The pool of text that all comments are cut from (text.c): sentences are  *)
(* put together from a grammar, word by word, and written one after the     *)
(* other until the pool is full. The text itself is abstracted to lengths   *)
(* and to whether a byte without a character was left between two words.    *)
(***************************************************************************)
EXTENDS Integers, Sequences

CONSTANTS
  grammar, np, vp,  \* the forms: sequences of [part, mark], mark for punctuation
  WordLengths,      \* lengths of words
  TermLengths,      \* lengths of terminators
  TEXT_POOL_SIZE,
  CommentLengths    \* pairs of a shortest and a longest length of a comment

THE == 5            \* the length of " the "
MAX_SENT_LEN == 256 \* the size of the buffer of a sentence, but for its end

Form == Seq([part : {"N", "V", "P", "T", "A", "J", "D", "X"}, mark : BOOLEAN])

TextAssumption ==
  /\ grammar \subseteq Form /\ np \subseteq Form /\ vp \subseteq Form
  /\ WordLengths \subseteq Nat \ {0} /\ TermLengths \subseteq Nat \ {0}
  /\ TEXT_POOL_SIZE \in Nat
  /\ CommentLengths \subseteq Nat \X Nat
  /\ \A c \in CommentLengths : c[1] <= c[2] /\ c[2] <= TEXT_POOL_SIZE

VARIABLES
  at,          \* "pool", "sentence", "N" or "V" for a phrase, "done", or "comment"
  syntax,      \* what is left of the sentence's form
  phrase,      \* what is left of the phrase's form
  dest, res,   \* bytes written to the sentence, and the length that is returned
  whole,       \* there is a character in each byte before dest
  wordlen, cp, \* the pool: its length as it is counted, and where it is written
  comment      \* the comment cut last: its offset and its length
textVars == <<at, syntax, phrase, dest, res, whole, wordlen, cp, comment>>

Init ==
  /\ at = "pool" /\ syntax = <<>> /\ phrase = <<>>
  /\ dest = 0 /\ res = 0 /\ whole = TRUE
  /\ wordlen = 0 /\ cp = 0 /\ comment = <<0, 0>>

-----------------------------------------------------------------------------
(* txt_sentence, txt_np and txt_vp *)

\* dbg_text's loop asks for another sentence.
StartSentence ==
  /\ at = "pool" /\ wordlen < TEXT_POOL_SIZE
  /\ syntax' \in grammar
  /\ at' = "sentence" /\ dest' = 0 /\ res' = 0 /\ whole' = TRUE
  /\ UNCHANGED <<phrase, wordlen, cp, comment>>

\* The next token of the form is a phrase; for a P, a preposition and " the " first.
StartPhrase ==
  /\ at = "sentence" /\ syntax # <<>> /\ Head(syntax).part \in {"N", "V", "P"}
  /\ LET part == Head(syntax).part
     IN  /\ phrase' \in (IF part = "V" THEN vp ELSE np)
         /\ at' = IF part = "V" THEN "V" ELSE "N"
         /\ \E n \in WordLengths :
              LET len == IF part = "P" THEN n + THE ELSE 0
              IN  dest' = dest + len /\ res' = res + len
  /\ UNCHANGED <<syntax, whole, wordlen, cp, comment>>

\* txt_np puts a mark behind the word and a space behind both; txt_vp skips the
\* byte that ends the word, and its space takes the place of the mark.
Word ==
  /\ at \in {"N", "V"} /\ phrase # <<>>
  /\ \E n \in WordLengths :
       LET len == n + (IF Head(phrase).mark THEN 1 ELSE 0) + 1
       IN  dest' = dest + len /\ res' = res + len
  /\ whole' = (whole /\ ~(at = "V" /\ Head(phrase).mark))
  /\ phrase' = Tail(phrase)
  /\ UNCHANGED <<at, syntax, wordlen, cp, comment>>

\* A mark behind the token is written one byte too far.
EndPhrase ==
  /\ at \in {"N", "V"} /\ phrase = <<>>
  /\ at' = "sentence"
  /\ syntax' = Tail(syntax)
  /\ IF Head(syntax).mark
     THEN dest' = dest + 1 /\ res' = res + 1 /\ whole' = FALSE
     ELSE UNCHANGED <<dest, res, whole>>
  /\ UNCHANGED <<phrase, wordlen, cp, comment>>

TerminateAfter ==  \* mutant: the terminator does not abut the word
  /\ at = "sentence" /\ syntax # <<>> /\ Head(syntax).part = "T"
  /\ \E n \in TermLengths : dest' = dest + n /\ res' = res + n
  /\ syntax' = Tail(syntax)
  /\ UNCHANGED <<at, phrase, whole, wordlen, cp, comment>>

\* The terminator takes the place of the space behind the last word.
Terminate ==
  /\ at = "sentence" /\ syntax # <<>> /\ Head(syntax).part = "T"
  /\ \E n \in TermLengths : dest' = dest - 1 + n /\ res' = res + n
  /\ syntax' = Tail(syntax)
  /\ UNCHANGED <<at, phrase, whole, wordlen, cp, comment>>

-----------------------------------------------------------------------------
(* dbg_text *)

\* The sentence goes to the pool with a space behind it, or as much of it as fits.
AddSentence ==
  /\ at = "sentence" /\ syntax = <<>>
  /\ LET s_len  == res - 1
         needed == TEXT_POOL_SIZE - wordlen
         n      == IF needed >= s_len + 1 THEN s_len + 1 ELSE needed
     IN  /\ wordlen' = wordlen + n
         /\ cp' = cp + n
  /\ at' = "pool"
  /\ UNCHANGED <<syntax, phrase, dest, res, whole, comment>>

\* The pool is complete; it is made once in a process.
EndPool ==
  /\ at = "pool" /\ wordlen >= TEXT_POOL_SIZE
  /\ at' = "done"
  /\ UNCHANGED <<syntax, phrase, dest, res, whole, wordlen, cp, comment>>

\* A comment: two draws, for where it starts and how long it is.
dbg_text ==
  /\ at = "done"
  /\ at' = "comment"
  /\ \E c \in CommentLengths :
       \E hgOffset \in 0..(TEXT_POOL_SIZE - c[2]), hgLength \in c[1]..c[2] :
         comment' = <<hgOffset, hgLength>>
  /\ UNCHANGED <<syntax, phrase, dest, res, whole, wordlen, cp>>

Next ==
  \/ StartSentence \/ StartPhrase \/ Word \/ EndPhrase \/ Terminate
  \/ AddSentence \/ EndPool \/ dbg_text

-----------------------------------------------------------------------------
(* Properties *)

\* A sentence fits its buffer, and the length it returns is that of its text, which
\* has no hole; so the pool is filled from end to end, and a comment never is shorter
\* than its length says, by a hole or by the end of the pool.
PoolIsFilled ==
  /\ at = "sentence" /\ syntax = <<>> => res - 1 = dest /\ whole
  /\ dest <= MAX_SENT_LEN
  /\ cp = wordlen /\ wordlen <= TEXT_POOL_SIZE
  /\ at \in {"done", "comment"} => cp = TEXT_POOL_SIZE
  /\ at = "comment" => comment[1] + comment[2] <= cp
=============================================================================
