-------------------------------- MODULE Qgen --------------------------------
(***************************************************************************)
(* qgen: a process seeds one random stream for each of the 22 queries, and  *)
(* then, query by query, draws the parameters and writes the template with  *)
(* the parameters in the place of its tags (qgen.c, varsub.c, permute.c).   *)
(* Parameters, the sizes and country codes they are drawn from, and the     *)
(* state of the comment filter are static: they stay from query to query.   *)
(* One draw, one turn of a loop, or one line of a template per step.        *)
(*                                                                         *)
(* A parameter is the sequence of the numbers it is formatted from; <<>> is *)
(* the empty string. A template is a sequence of lines of tokens.           *)
(***************************************************************************)
EXTENDS Lcg, Calendar

CONSTANTS
  Commands,     \* command lines
  permutation,  \* permute.h: the order of the queries in each stream
  MaxRuns       \* bound: processes, one after the other

QUERIES_PER_SET == 22
MAX_PARAM == 10
MAX_PERMUTE == Len(permutation)

\* process_options: -r, -p (-1 without it), the queries named, and -c, -d, -l, -N, -x.
Command == [rndm : Int, snum : Int, names : Seq(1..QUERIES_PER_SET),
            flags : SUBSET {"COMMENT", "DFLT", "LOG", "DFLT_NUM", "EXPLAIN"}]

QgenAssumption ==
  /\ GeneratorsAssumption
  /\ Commands \subseteq Command
  /\ permutation \in Seq([1..QUERIES_PER_SET -> 1..QUERIES_PER_SET]) \ {<<>>}

VARIABLES
  runs,         \* processes so far
  doing,        \* "shell", "main", "varsub", "permute" or "template"
  command, todo,    \* the command line and the queries that are left
  Seed,         \* Seed[].value
  qnum, step,   \* the query, and its next instruction
  turn,         \* the loop of permute
  param, sizes, ccode,   \* static in varsub
  logged,       \* what the query has put to the log
  lineno, in_comment,    \* the template's line, and strip_comments' static
  text,         \* what the query has printed
  texts         \* of all queries of all processes, what was printed and logged
qgenVars == <<runs, doing, command, todo, Seed, qnum, step, turn, param, sizes, ccode,
              logged, lineno, in_comment, text, texts>>

NoCommand == [rndm |-> 0, snum |-> -1, names |-> <<>>, flags |-> {}]
AllSizes == [i \in 1..50 |-> i]
AllCodes == [i \in 1..25 |-> i - 1]
NoParam == [i \in 1..MAX_PARAM |-> <<>>]

Init ==
  /\ runs = 0 /\ doing = "shell" /\ command = NoCommand /\ todo = <<>>
  /\ Seed = [i \in 0..QUERIES_PER_SET |-> 0]
  /\ qnum = 0 /\ step = 1 /\ turn = 0
  /\ param = NoParam /\ sizes = AllSizes /\ ccode = AllCodes
  /\ logged = <<>> /\ lineno = 0 /\ in_comment = FALSE /\ text = <<>> /\ texts = {}

-----------------------------------------------------------------------------
(* varsub: what is drawn for a query *)

\* An instruction draws from low..high and puts what it stands for to parameter "to".
Num(p, lo, hi) == [to |-> p, low |-> lo, high |-> hi, as |-> "number"]
As(what, p, lo, hi) == [Num(p, lo, hi) EXCEPT !.as = what]
Member(p, n) == Num(p, 1, n)
BrandM(p) == Num(p, 1, 5)
BrandN(p) == As("second", p, 1, 5)
Permute(p) == As("permute", p, 0, 0)

recipe ==
  <<<<Num(1, 60, 120)>>,
    <<Num(1, 1, 50), As("material", 2, 1, 150), Member(3, 5)>>,
    <<Member(1, 5), As("march", 2, 0, 30)>>,
    <<As("month", 1, 0, 57)>>,
    <<Member(1, 5), Num(2, 93, 97)>>,
    <<Num(1, 93, 97), Num(2, 2, 9), Num(3, 24, 25)>>,
    <<Member(1, 25), As("other", 2, 1, 25)>>,
    <<As("nation", 1, 1, 25), Member(3, 150)>>,
    <<Member(1, 92)>>,
    <<As("month", 1, 1, 24)>>,
    <<As("fraction", 1, 1, 25)>>,
    <<Member(1, 7), As("other", 2, 1, 7), Num(3, 93, 97)>>,
    <<As("twenties", 1, 1, 80), As("forties", 2, 1, 160)>>,
    <<As("month", 1, 0, 59)>>,
    <<As("month", 1, 0, 57)>>,
    <<BrandM(1), BrandN(1), As("kind", 2, 1, 150), Permute(3)>>,
    <<BrandM(1), BrandN(1), Member(2, 40)>>,
    <<Num(1, 312, 315)>>,
    <<BrandM(1), BrandN(1), BrandM(2), BrandN(2), BrandM(3), BrandN(3),
      Num(4, 1, 10), Num(5, 10, 20), Num(6, 20, 30)>>,
    <<Member(1, 92), Num(2, 93, 97), Member(3, 25)>>,
    <<Member(1, 25)>>,
    <<Permute(1)>>>>

\* The file's weights of the nations add up to the number of the nation's region.
NationWeights == <<0, 1, 0, 0, 3, -4, 3, 0, -1, 0, 2, 0, -2, 2, -4, 0, 0, 1, 1, 1, 1,
                   -2, 1, 0, -2>>
Region[n \in 0..25] == IF n = 0 THEN 0 ELSE Region[n - 1] + NationWeights[n]

Put(params, p, v) == [params EXCEPT ![p] = v]

\* The parameters after instruction c has drawn v.
Drawn(params, c, v) ==
  CASE c.as \in {"number", "other"} -> Put(params, c.to, <<v>>)
    [] c.as = "second"   -> Put(params, c.to, Append(params[c.to], v))
    [] c.as = "month"    -> Put(params, c.to, <<93 + v \div 12, (v % 12) + 1>>)
    [] c.as = "march"    -> LET d == mk_time(v + 1155 + 1)
                            IN  Put(params, c.to, <<d.year, d.month, d.day>>)
    [] c.as = "material" -> Put(params, c.to, <<(v - 1) % 5>>)
    [] c.as = "kind"     -> Put(params, c.to, <<(v - 1) \div 5>>)
    [] c.as = "twenties" -> Put(params, c.to, <<(v - 1) \div 20>>)
    [] c.as = "forties"  -> Put(params, c.to, <<(v - 1) \div 40>>)
    [] c.as = "nation"   -> [Put(params, 1, <<v>>) EXCEPT ![2] = <<Region[v]>>]
    [] c.as = "fraction" -> [Put(params, 1, <<v>>) EXCEPT ![2] = <<1>>]  \* by the scale

\* -d draws nothing.
Recipe == IF "DFLT" \in command.flags THEN <<>> ELSE recipe[qnum]

RepeatsNever(params, c, v) == FALSE  \* mutant: the two may be the same

\* A nation or a ship mode is drawn again while it is the first one again.
Repeats(params, c, v) == c.as = "other" /\ params[c.to - 1] = <<v>>

Draw ==
  /\ doing = "varsub" /\ step <= Len(Recipe) /\ Recipe[step].as # "permute"
  /\ LET c == Recipe[step]
         next == NextRand(Seed[qnum])
         v == UnifInt(c.low, c.high, next)
     IN  /\ Seed' = [Seed EXCEPT ![qnum] = next]
         /\ param' = Drawn(param, c, v)
         /\ step' = IF Repeats(param, c, v) THEN step ELSE step + 1
  /\ UNCHANGED <<runs, doing, command, todo, qnum, turn, sizes, ccode, logged, lineno,
                 in_comment, text, texts>>

\* Query 16 permutes the sizes and query 22 the codes, in place.
permuted == IF qnum = 16 THEN sizes ELSE ccode

StartPermute ==
  /\ doing = "varsub" /\ step <= Len(Recipe) /\ Recipe[step].as = "permute"
  /\ doing' = "permute" /\ turn' = 1
  /\ UNCHANGED <<runs, command, todo, Seed, qnum, step, param, sizes, ccode, logged,
                 lineno, in_comment, text, texts>>

permute ==
  /\ doing = "permute" /\ turn <= Len(permuted)
  /\ LET next == NextRand(Seed[qnum])
         source == UnifInt(turn, Len(permuted), next)
         swapped == [permuted EXCEPT ![source] = permuted[turn], ![turn] = permuted[source]]
     IN  /\ Seed' = [Seed EXCEPT ![qnum] = next]
         /\ IF qnum = 16 THEN sizes' = swapped /\ UNCHANGED ccode
                         ELSE ccode' = swapped /\ UNCHANGED sizes
  /\ turn' = turn + 1
  /\ UNCHANGED <<runs, doing, command, todo, qnum, step, param, logged, lineno,
                 in_comment, text, texts>>

\* The first eight are the parameters.
EndPermute ==
  /\ doing = "permute" /\ turn > Len(permuted)
  /\ LET first == Recipe[step].to
     IN  param' = [p \in DOMAIN param |->
                     IF p - first \in 0..7
                     THEN <<permuted[p - first + 1] + (IF qnum = 22 THEN 10 ELSE 0)>>
                     ELSE param[p]]
  /\ doing' = "varsub" /\ step' = step + 1
  /\ UNCHANGED <<runs, command, todo, Seed, qnum, turn, sizes, ccode, logged, lineno,
                 in_comment, text, texts>>

\* The parameters of each query; a query with fewer than ten ends them with an
\* empty one, which for query 22 takes the place of the eighth code.
Params == <<1, 3, 2, 1, 2, 3, 2, 3, 1, 1, 2, 3, 2, 1, 1, 10, 2, 1, 6, 3, 1, 7>>

EndedNever == param  \* mutant: none is ended
Ended == IF "DFLT" \in command.flags \/ Params[qnum] = MAX_PARAM THEN param
         ELSE Put(param, Params[qnum] + 1, <<>>)

\* defaults[][]: one for each parameter of a query.
Default(k) == <<qnum, k>>

\* The log has the parameters up to the first that is empty, or the defaults.
Logged ==
  IF "LOG" \notin command.flags THEN <<>>
  ELSE IF "DFLT" \in command.flags THEN [k \in 1..Params[qnum] |-> Default(k)]
  ELSE LET full == {n \in 0..MAX_PARAM : \A p \in 1..n : Ended[p] # <<>>}
       IN  SubSeq(Ended, 1, CHOOSE n \in full : \A m \in full : m <= n)

\* What the text of a query is made from: its parameters for the tags, or its defaults.
Asked == [qnum |-> qnum, flags |-> command.flags,
          values |-> [k \in 1..Params[qnum] |->
                        IF "DFLT" \in command.flags THEN Default(k) ELSE param[k]]]

\* SET_ROWCOUNT, with the query's default or the number of its template.
RowCount(asked) == <<[of |-> "rows", is |-> <<asked.qnum>>]>>

EndVarsub ==
  /\ doing = "varsub" /\ step > Len(Recipe)
  /\ param' = Ended
  /\ logged' = Logged
  /\ doing' = "template" /\ lineno' = 1
  /\ text' = IF "DFLT_NUM" \in command.flags THEN RowCount(Asked) ELSE <<>>
  /\ UNCHANGED <<runs, command, todo, Seed, qnum, step, turn, sizes, ccode, in_comment, texts>>

-----------------------------------------------------------------------------
(* qsub: the template *)

Tag == <<":1", ":2", ":3", ":4", ":5", ":6", ":7", ":8", ":9", ":10">>

\* A comment in braces.
Open == "{"
Close == "}"

\* A comment of either style, the plan, the query with its tags, and the row count.
Template(query) ==
  (IF query % 2 = 0 THEN <<<<Open, "comment">>, <<"comment", Close>>>>
                    ELSE <<<<"--", "comment">>>>)
    \o <<<<":x">>, <<"select", "-">> \o SubSeq(Tag, 1, Params[query]) \o <<"from">>, <<":n">>>>

Find(line, tokens) ==
  LET at == {j \in DOMAIN line : line[j] \in tokens}
  IN  IF at = {} THEN 0 ELSE CHOOSE j \in at : \A h \in at : j <= h

\* strip_comments, on a line from each of its places on. Only a line's first dash can
\* begin a comment; the end of a comment in braces removes all of the line up to it, also
\* what is before its beginning.
Stripped(line) ==
  LET strip[from \in 1..(Len(line) + 1)] ==
        LET rest == SubSeq(line, from, Len(line))
            dash == Find(rest, {"-", "--"})
            to   == Find(rest, {Close})
        IN  IF dash > 0 /\ rest[dash] = "--"
            THEN [line |-> SubSeq(rest, 1, dash - 1), in_comment |-> FALSE]
            ELSE IF Find(rest, {Open}) = 0 THEN [line |-> rest, in_comment |-> FALSE]
            ELSE IF to = 0 THEN [line |-> <<>>, in_comment |-> TRUE]
            ELSE strip[from + to]
  IN  strip

strip_comments(line, commented) ==
  LET end == Find(line, {Close})
  IN  IF ~commented THEN Stripped(line)[1]
      ELSE IF end = 0 THEN [line |-> <<>>, in_comment |-> TRUE]
      ELSE Stripped(line)[end + 1]

\* qsub and varsub for one tag.
Substitute(tag, asked) ==
  CASE tag = ":x" -> IF "EXPLAIN" \in asked.flags THEN <<[of |-> "plan", is |-> <<>>]>> ELSE <<>>
    [] tag = ":n" -> IF "DFLT_NUM" \in asked.flags THEN <<>> ELSE RowCount(asked)
    [] OTHER -> <<[of |-> "param", is |-> asked.values[CHOOSE k \in DOMAIN Tag : tag = Tag[k]]]>>

Plain(words) == [j \in DOMAIN words |-> [of |-> words[j], is |-> <<>>]]

\* qsub's loop over a line: what is before a tag, and what the tag stands for. A row
\* count does not move the mark: what is before it is printed again, and nothing after.
Translate(line, asked) ==
  LET scan[from \in 1..(Len(line) + 1)] ==
        LET rest == SubSeq(line, from, Len(line))
            t    == Find(rest, {":x", ":n"} \cup {Tag[k] : k \in DOMAIN Tag})
            head == Plain(SubSeq(rest, 1, t - 1))
        IN  IF t = 0 THEN Plain(rest)
            ELSE IF rest[t] = ":n" THEN head \o Substitute(":n", asked) \o head
            ELSE head \o Substitute(rest[t], asked) \o scan[from + t]
  IN  scan[1]

Line ==
  /\ doing = "template" /\ lineno <= Len(Template(qnum))
  /\ LET line == Template(qnum)[lineno]
         s == IF "COMMENT" \in command.flags THEN [line |-> line, in_comment |-> in_comment]
              ELSE strip_comments(line, in_comment)
     IN  /\ text' = text \o Translate(s.line, Asked)
         /\ in_comment' = s.in_comment
  /\ lineno' = lineno + 1
  /\ UNCHANGED <<runs, doing, command, todo, Seed, qnum, step, turn, param, sizes, ccode,
                 logged, texts>>

EndQsub ==
  /\ doing = "template" /\ lineno > Len(Template(qnum))
  /\ texts' = texts \cup {[rndm |-> command.rndm, flags |-> command.flags, qnum |-> qnum,
                           text |-> text, logged |-> logged]}
  /\ doing' = "main"
  /\ UNCHANGED <<runs, command, todo, Seed, qnum, step, turn, param, sizes, ccode, logged,
                 lineno, in_comment, text>>

-----------------------------------------------------------------------------
(* main *)

SEQUENCE(stream, query) == permutation[(stream % MAX_PERMUTE) + 1][query]

\* The queries in the order of the command line, or all; -p takes the stream's order.
Queries(c) ==
  LET names == IF c.names = <<>> THEN [n \in 1..QUERIES_PER_SET |-> n] ELSE c.names
  IN  [n \in DOMAIN names |-> IF c.snum >= 0 THEN SEQUENCE(c.snum, names[n]) ELSE names[n]]

\* Each query's seed is the one before applied once more; Seed[0] runs along.
Seeded(rndm, flags) ==
  LET first == IF rndm < 0 THEN rndm + Modulus ELSE rndm
      at[n \in 0..QUERIES_PER_SET] == IF n = 0 THEN first ELSE NextRand(at[n - 1])
  IN  [n \in 0..QUERIES_PER_SET |-> IF "DFLT" \in flags THEN 0
                                    ELSE IF n = 0 THEN at[QUERIES_PER_SET] ELSE at[n]]

Exec(c) ==
  /\ doing = "shell" /\ runs < MaxRuns
  /\ runs' = runs + 1 /\ doing' = "main"
  /\ command' = c /\ todo' = Queries(c)
  /\ Seed' = Seeded(c.rndm, c.flags)
  /\ param' = NoParam /\ sizes' = AllSizes /\ ccode' = AllCodes /\ in_comment' = FALSE
  /\ UNCHANGED <<qnum, step, turn, logged, lineno, text, texts>>

qsub ==
  /\ doing = "main" /\ todo # <<>>
  /\ qnum' = Head(todo) /\ todo' = Tail(todo)
  /\ doing' = "varsub" /\ step' = 1
  /\ UNCHANGED <<runs, command, Seed, turn, param, sizes, ccode, logged, lineno,
                 in_comment, text, texts>>

Return ==
  /\ doing = "main" /\ todo = <<>>
  /\ doing' = "shell"
  /\ UNCHANGED <<runs, command, todo, Seed, qnum, step, turn, param, sizes, ccode, logged,
                 lineno, in_comment, text, texts>>

Next ==
  \/ \E c \in Commands : Exec(c)
  \/ qsub \/ Draw \/ StartPermute \/ permute \/ EndPermute \/ EndVarsub
  \/ Line \/ EndQsub \/ Return

-----------------------------------------------------------------------------
(* Properties *)

\* "parameter values were query order independent when a seed was provided" (BUGS,
\* problem 5): with one seed a query is printed and logged alike by every process
\* that is asked for it once, in whatever order and among whatever other queries.
ParametersFromSeed ==
  \A a, b \in texts :
    a.rndm = b.rndm /\ a.flags = b.flags /\ a.qnum = b.qnum => a = b

\* When a query is printed, its parameters are as many as its template has tags, the
\* two nations and the two ship modes differ, so do the eight sizes and the seven
\* codes, the day of query 3 is in March 1995, and the region of query 8 is one.
ParametersAreValid ==
  doing = "template" /\ "DFLT" \notin command.flags =>
    LET different(from, to) == \A p, q \in from..to : p # q => param[p] # param[q]
    IN  /\ "LOG" \in command.flags => Len(logged) = Params[qnum]
        /\ \A p \in 1..Params[qnum] : param[p] # <<>>
        /\ qnum \in {7, 12} => different(1, 2)
        /\ qnum = 3 => param[2][1] = 95 /\ param[2][2] = 3 /\ param[2][3] \in 1..31
        /\ qnum = 8 => param[2][1] \in 0..4
        /\ qnum = 16 => different(3, 10)
        /\ qnum = 22 => different(1, 7)
=============================================================================
