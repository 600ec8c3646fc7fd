------------------------------- MODULE MCParts -------------------------------
(* The parts of dbgen and qgen for TLC.                                     *)
EXTENDS Parts

-----------------------------------------------------------------------------
(* Values of the constants *)

B(name) == [kind |-> "BEGIN", name |-> name]
C(c) == [kind |-> "COUNT", n |-> c]
M(w) == [kind |-> "member", n |-> w]
E == [kind |-> "END"]
X == [kind |-> "blank"]

\* The distribution first, last, between others, with comments, and not at all.
TwoMembers == <<B("other"), C(2), M(3), M(1), E>>
FourMembers == <<X, B("colors"), C(4), M(1), X, M(2), M(4), M(2), E>>
\* COUNT too small, too large, missing, behind a member, given twice; no END.
WrongCounts == {<<B("colors"), C(1), M(2), M(3), E>>, <<B("colors"), C(3), M(2), M(3), E>>,
                <<B("colors"), M(2), E>>, <<B("colors"), C(1), M(2), C(2), M(3), E>>,
                <<B("colors"), C(3), C(2), M(2), M(3), E>>, <<B("colors"), C(4), M(2), M(3)>>}
DistFiles == {FourMembers \o TwoMembers, TwoMembers \o FourMembers,
              <<B("colors"), C(1), M(5), E>>, TwoMembers} \cup WrongCounts

\* The forms of dists.dss.
T(p) == [part |-> p, mark |-> FALSE]
Grammar == {<<T("N"), T("V"), T("T")>>, <<T("N"), T("V"), T("P"), T("T")>>,
            <<T("N"), T("V"), T("N"), T("T")>>, <<T("N"), T("P"), T("V"), T("N"), T("T")>>,
            <<T("N"), T("P"), T("V"), T("P"), T("T")>>}
NP == {<<T("N")>>, <<T("J"), T("N")>>, <<[part |-> "J", mark |-> TRUE], T("J"), T("N")>>,
       <<T("D"), T("J"), T("N")>>}
VP == {<<T("V")>>, <<T("X"), T("V")>>, <<T("V"), T("D")>>, <<T("X"), T("V"), T("D")>>}

\* The longest words of dists.dss.
ASSUME GrammarAssumption == SentencesFit(14, 46, 2)

PoolLengths == {<<3, 9>>, <<9, 21>>}

\* Around the day that decides on flags and states, and at both ends of the table.
ProbeDays == {0, 1112, 1142, 1232, 1262, 1263, 2405}

\* The orders of streams 0 and 1.
Streams0and1 ==
  <<<<14, 2, 9, 20, 6, 17, 18, 8, 21, 13, 3, 22, 16, 4, 11, 15, 1, 10, 19, 5, 7, 12>>,
    <<21, 3, 18, 5, 11, 7, 6, 20, 17, 12, 16, 15, 13, 10, 2, 8, 14, 19, 9, 22, 1, 4>>>>

\* All queries in three orders with two seeds, and a few with every option.
Ask(r, s, names, fl) == [rndm |-> r, snum |-> s, names |-> names, flags |-> fl]
AskAll == {Ask(r, s, <<>>, {"LOG", "EXPLAIN"}) : r \in {-5, 437}, s \in {-1, 0, 1}}
            \cup {Ask(0, -1, <<16, 11, 22, 7>>, {"DFLT", "LOG", "DFLT_NUM"}),
                  Ask(437, 42, <<3, 12>>, {"LOG", "EXPLAIN"}),
                  Ask(437, -1, <<8, 7>>, {"COMMENT"})}

\* Queries are asked for once by a command line.
ASSUME OnceAssumption == EachOnce
=============================================================================
