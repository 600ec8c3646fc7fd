-------------------------- MODULE MCPolyjuiceTxn --------------------------
(* Instances of PolyjuiceTxn for TLC: the programs the transactions run. *)
EXTENDS PolyjuiceTxn

CONSTANTS t1, t2, t3

\* policy/: optimistic policies, which read clean, whatever they expose and wait
\* for; learned policies, which take any decision; and policies that read dirty and
\* wait for nobody before their commit.
OptimisticPolicy == [occ |-> {TRUE}, piece_end |-> BOOLEAN, waits |-> {NoWait, WaitCommit}]
AnyPolicy == [occ |-> BOOLEAN, piece_end |-> BOOLEAN, waits |-> {NoWait, 1, WaitCommit}]
DirtyPolicy == [occ |-> {FALSE}, piece_end |-> BOOLEAN, waits |-> {NoWait}]

LearnedPolicies == {AnyPolicy, OptimisticPolicy}
DirtyPolicies == {DirtyPolicy}

Get(k) == [op |-> "get", key |-> k]
Update(k) == [op |-> "update", key |-> k]
Put(k) == [op |-> "put", key |-> k]

\* Two transactions over two tuples: crossed reads and writes, crossed updates,
\* two reads against updates, and a tuple that both access again after writing it.
TwoPrograms ==
  {[t \in {t1, t2} |-> IF t = t1 THEN pq[1] ELSE pq[2]] :
     pq \in ({<<Update(1), Get(2)>>} \X
               {<<Get(1), Put(2)>>, <<Update(2), Update(1)>>, <<Get(2), Get(1)>>})
       \cup ({<<Update(1), Put(1)>>, <<Put(1), Get(1)>>} \X
               {<<Get(1), Update(1)>>, <<Update(1), Get(1)>>})}

\* A tuple written twice by one transaction, read by another and written by a third.
OverwritePrograms ==
  {[t \in {t1, t2, t3} |->
      CASE t = t1 -> <<Put(1), Put(1)>>
        [] t = t2 -> <<Get(1)>>
        [] t = t3 -> <<Put(1)>>]}
=============================================================================
