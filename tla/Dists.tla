-------------------------------- MODULE Dists --------------------------------
(***************************************************************************)
(* The weighted distributions of dbgen and qgen: read_dist reads one by its *)
(* name from the file dists.dss, pick_str draws a member, permute_dist and  *)
(* agg_str draw an order of all members (bm_utils.c, permute.c). One line   *)
(* of the file, or one turn of permute's loop, per step.                    *)
(***************************************************************************)
EXTENDS Integers, Sequences, FiniteSets

CONSTANTS
  Files,     \* what dists.dss may hold: sequences of lines
  Wanted,    \* the name of the distribution that is read
  P_NAME_SCL, \* members in a name
  MaxNames   \* bound: calls of agg_str

\* A line is blank or a comment, or it begins or ends a distribution, or it has a
\* token and, after a bar, a number.
Line == [kind : {"blank", "END"}] \cup [kind : {"BEGIN"}, name : STRING]
          \cup [kind : {"COUNT"}, n : Nat] \cup [kind : {"member"}, n : Nat]

DistsAssumption == Files \subseteq Seq(Line) /\ P_NAME_SCL \in Nat

VARIABLES
  file, at,        \* the file, and the line that is read next
  name_set, count, \* locals of read_dist
  target,          \* the distribution: its count, max, and what is stored in its list
  state,           \* "reading", "ready", "permuting", "exit", or the behaviour is
                   \* undefined: "overrun" of the list, or an "unset" entry is read
  permute,         \* target->permute: <<>> is NULL
  k,               \* the loop of permute
  drawn,           \* the draws of this call of agg_str
  named            \* of each call of agg_str, its draws and the order it used
distsVars == <<file, at, name_set, count, target, state, permute, k, drawn, named>>

Init ==
  /\ file \in Files
  /\ at = 1 /\ name_set = FALSE /\ count = 0
  /\ target = [count |-> 0, max |-> 0, weight |-> <<>>]
  /\ state = "reading"
  /\ permute = <<>> /\ k = 0 /\ drawn = <<>> /\ named = {}

-----------------------------------------------------------------------------
(* read_dist *)

Unset == -1  \* an entry of the list that malloc has made and nobody has filled

\* A line before the distribution's own: only its BEGIN matters.
Seek ==
  /\ state = "reading" /\ at <= Len(file) /\ ~name_set
  /\ name_set' = (file[at].kind = "BEGIN" /\ file[at].name = Wanted)
  /\ at' = at + 1
  /\ UNCHANGED <<file, count, target, state, permute, k, drawn, named>>

AddWeight(n) == Append(target.weight, n)  \* mutant: weights are not summed up

\* target->max grows by the weight and is the member's bound.
AddMember(n) == Append(target.weight, target.max + n)

\* A line of the distribution: COUNT allocates as many entries as it says, a member is
\* stored in the next one, whether there is one or not, and END ends.
ReadLine ==
  /\ state = "reading" /\ at <= Len(file) /\ name_set
  /\ at' = at + 1
  /\ target' = CASE file[at].kind = "COUNT"  ->
                      [count |-> file[at].n, max |-> 0, weight |-> [n \in 1..count |-> Unset]]
                 [] file[at].kind = "member" ->
                      [target EXCEPT !.max = @ + file[at].n, !.weight = AddMember(file[at].n)]
                 [] OTHER                    -> target
  /\ count' = IF file[at].kind = "member" THEN count + 1 ELSE count
  /\ state' = CASE file[at].kind = "END"                                -> "ready"
                [] file[at].kind = "member" /\ count >= target.count -> "overrun"
                [] OTHER                                             -> "reading"
  /\ UNCHANGED <<file, name_set, permute, k, drawn, named>>

\* Only at the end of the file, not at an END, the counts are compared; a name that
\* was not found has neither members nor a count, and passes.
EndOfFile ==
  /\ state = "reading" /\ at > Len(file)
  /\ state' = IF count # target.count THEN "exit" ELSE "ready"
  /\ UNCHANGED <<file, at, name_set, count, target, permute, k, drawn, named>>

\* pick_str draws up to the bound of entry count, and takes the first member whose
\* bound the draw does not exceed.
Draws == 1..target.weight[target.count]
pick_str(j) == CHOOSE n \in 1..target.count :
                 /\ target.weight[n] >= j
                 /\ \A p \in 1..(n - 1) : target.weight[p] < j

-----------------------------------------------------------------------------
(* agg_str *)

Identity == [n \in 1..target.count |-> n - 1]

PermuteAgain == IF permute = <<>> THEN Identity ELSE permute  \* mutant: only when new

\* permute_dist starts from the members' own order, whatever the last call has left.
PermuteFrom == Identity

agg_str ==
  /\ state = "ready" /\ Cardinality(named) < MaxNames
  /\ permute' = PermuteFrom
  /\ k' = 0
  /\ drawn' = <<>>
  /\ state' = "permuting"
  /\ UNCHANGED <<file, at, name_set, count, target, named>>

\* One turn of permute: member k changes places with one that is not placed yet.
Permute ==
  /\ state = "permuting" /\ k < target.count
  /\ \E source \in k..(target.count - 1) :
       /\ permute' = [permute EXCEPT ![source + 1] = permute[k + 1],
                                     ![k + 1] = permute[source + 1]]
       /\ drawn' = Append(drawn, source)
  /\ k' = k + 1
  /\ UNCHANGED <<file, at, name_set, count, target, state, named>>

\* Member n of the order is there, and its entry was filled.
Filled(n) == /\ n \in DOMAIN permute /\ permute[n] + 1 \in DOMAIN target.weight
             /\ target.weight[permute[n] + 1] # Unset

\* The members of the name are the first of this order.
Aggregate ==
  /\ state = "permuting" /\ k = target.count
  /\ named' = named \cup {[draws |-> drawn, order |-> permute]}
  /\ state' = IF \A n \in 1..P_NAME_SCL : Filled(n) THEN "ready" ELSE "unset"
  /\ UNCHANGED <<file, at, name_set, count, target, permute, k, drawn>>

Next == Seek \/ ReadLine \/ EndOfFile \/ agg_str \/ Permute \/ Aggregate

-----------------------------------------------------------------------------
(* Properties *)

\* The lines b to e are those of Wanted.
Block(b, e) ==
  /\ file[b].kind = "BEGIN" /\ file[b].name = Wanted
  /\ \A p \in 1..(b - 1) : ~(file[p].kind = "BEGIN" /\ file[p].name = Wanted)
  /\ b <= e /\ file[e].kind = "END" /\ \A p \in b..(e - 1) : file[p].kind # "END"

Own(b, e) == {n \in b..e : file[n].kind = "member"}

\* What the reader of a file relies on and does not look at: the COUNT of the block, at
\* line c, comes before its members and is their number.
CountIsRight(b, c, e) ==
  /\ c \in b..e /\ file[c].kind = "COUNT" /\ file[c].n = Cardinality(Own(b, e))
  /\ \A p \in b..e : /\ (file[p].kind = "COUNT" => p <= c)
                      /\ (file[p].kind = "member" => c < p)

\* A distribution whose COUNT is right is read within its list, which it fills: it has
\* the members the file gives it under its name, and of the draws of pick_str each
\* member gets as many as its weight says.
PicksAreWeighted ==
  name_set /\ state # "reading" =>
    \A b, e \in 1..Len(file) :
      Block(b, e) /\ (\E c \in b..e : CountIsRight(b, c, e)) =>
        /\ state \notin {"overrun", "exit"}
        /\ Len(target.weight) = target.count /\ target.count = Cardinality(Own(b, e))
        /\ \A n \in Own(b, e) :
             LET index == Cardinality({p \in Own(b, e) : p <= n})
             IN  Cardinality({j \in Draws : pick_str(j) = index}) = file[n].n

\* A name depends on its row's draws alone and not on the rows before, so that a
\* process may start at any row; and no two sequences of draws give one order, so
\* that every order of the colours is as likely as any other.
NamesDependOnDraws ==
  \A a, b \in named : /\ a.draws = b.draws <=> a.order = b.order
                      /\ {a.order[n] : n \in DOMAIN a.order} = {n - 1 : n \in DOMAIN a.order}
=============================================================================
