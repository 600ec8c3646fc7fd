------------------------------- MODULE MCDbgen -------------------------------
(* Instances of Dbgen for TLC: the commands that are run in one directory. *)
EXTENDS Dbgen

Plain == [T |-> "all", children |-> 1, step |-> -1, updates |-> 0,
          insert_segments |-> 0, delete_segments |-> 0, force |-> FALSE]

Of(letter) == [Plain EXCEPT !.T = letter]
Chunks(o, n) == {[o EXCEPT !.children = n, !.step = s] : s \in 1..n}
Updates(n, s, i, d) == [Plain EXCEPT !.updates = n, !.step = s,
                                     !.insert_segments = i, !.delete_segments = d]

\* Whole and split data sets, one table in chunks, refresh sets in one process or
\* one for each set, with and without segments, and commands that are refused.
AllPlans ==
  {{Plain}, Chunks(Of("l"), 2), Chunks([Of("s") EXCEPT !.force = TRUE], 3)}
  \cup {Chunks(Of(t), 2) : t \in {"O", "L", "o"}}
  \cup {Chunks(Of(t), 3) : t \in {"P", "S", "p"}}
  \cup {{Of("c"), Of("s")}, {Of("n"), Of("r")}}
  \cup {{Of("O"), Updates(2, -1, 0, 0)},
        {Updates(1, -1, 3, 0), Updates(2, 2, 2, 2)},
        {Updates(2, -1, 2, 1)}, {Updates(1, 1, 4, 3)}}
  \cup {{[Plain EXCEPT !.children = 2], [Plain EXCEPT !.step = 1],
         [Plain EXCEPT !.delete_segments = 2],
         [Updates(1, -1, 0, 0) EXCEPT !.children = 2, !.step = 1],
         [Updates(1, -1, 0, 0) EXCEPT !.T = "c"]}}

\* They are plans that the proofs are about: each makes one data set.
ASSUME AllPlansMakeOneDataSet == \A p \in AllPlans : MakesOneDataSet(p)

\* Orders and line items, in one piece and in two.
OrderPlans == {{Of("o")}, Chunks(Of("o"), 2)}
=============================================================================
