--------------------------- MODULE PolyjuiceProofs ---------------------------
(***************************************************************************)
(* Proofs about the learned concurrency control, for any transactions,     *)
(* programs and policies: what a transaction leaves behind, what a dirty   *)
(* read refers to, that what committed transactions have read from others  *)
(* has been committed, that policies which read clean are serializable,    *)
(* and that any two transactions are under any policy.                     *)
(***************************************************************************)
EXTENDS PolyjuiceTxn, WellFoundedInduction, FiniteSetTheorems, TLAPS

-----------------------------------------------------------------------------
(* The invariant *)

Locations ==
  {"access", "expose", "exposing", "undo", "commit", "waitdeps", "lockws", "validate",
   "version", "seq", "intent", "install", "unlink", "release", "unlink_abort", "committed",
   "aborted"}
EntrySpace == [txn : Txns, op : {"r", "w"}, pos : Nat]
Versions == Txns \cup {V0}
Sources == [txn : Versions, pos : Nat]
Reads == [key : Keys, occ : BOOLEAN, from : Sources, clean_tid : Versions \cup {NONE},
          dirty : BOOLEAN]
Pieces == [reads : Nat, writes : Nat, deps : SUBSET Txns, at : Nat]

TypeOK ==
  /\ program \in Programs /\ policy \in Policies
  /\ pc \in [Txns -> Locations]
  /\ at \in [Txns -> Nat] /\ idx \in [Txns -> Nat]
  /\ state \in [Txns -> {"ACTIVE", "FINISH_EXEC", "COMMITED", "ABRT", "REUSED"}]
  /\ commit_tid \in [Txns -> Versions \cup {NONE}]
  /\ read_set \in [Txns -> Seq(Reads)] /\ write_set \in [Txns -> Seq(Keys)]
  /\ rmw \in [Txns -> SUBSET Nat]
  /\ dep_queue \in [Txns -> [Txns -> {"none", "order", "dirty"}]]
  /\ piece \in [Txns -> Pieces]
  /\ version \in [Keys -> Versions \cup {NONE}] /\ value \in [Keys -> Sources]
  /\ last_writer_seq \in [Keys -> Nat]
  /\ list \in [Keys -> Seq(EntrySpace)]
  /\ lock \in [Keys -> Txns \cup {NONE}] /\ write_intent \in [Keys -> BOOLEAN]
  /\ installed \in [Keys -> Seq(Versions)]

\* Where a transaction is in its program, and its piece behind it.
Undone == {"access", "expose", "exposing", "undo"}
InProgram(t) ==
  /\ 1 <= piece[t].at /\ piece[t].at <= at[t] /\ 1 <= idx[t]
  /\ pc[t] \in Undone \cup {"commit", "waitdeps", "lockws"} => idx[t] = 1
  /\ pc[t] \in Undone => piece[t].at <= Len(program[t])
  /\ pc[t] = "access" => at[t] <= Len(program[t])
  /\ piece[t].reads <= Len(read_set[t]) /\ piece[t].writes <= Len(write_set[t])
ProgramInv == \A t \in Txns : InProgram(t)

\* Every entry is of an access that its transaction counts; a write's piece is
\* exposed.
EntryIsOf(e, k) ==
  IF e.op = "w" THEN /\ e.pos \in DOMAIN write_set[e.txn] /\ e.pos <= piece[e.txn].writes
                     /\ write_set[e.txn][e.pos] = k
                ELSE e.pos \in DOMAIN read_set[e.txn] /\ read_set[e.txn][e.pos].key = k
ListInv == \A k \in Keys : \A e \in Entries(list[k]) : EntryIsOf(e, k)

\* What the end of a transaction has unlinked.
Unlinked(t, e) ==
  /\ pc[t] = "install" /\ e.op = "w" => e.pos >= idx[t]
  /\ pc[t] = "unlink" => e.op # "w"
  /\ pc[t] \notin Ended
UnlinkInv ==
  /\ \A k \in Keys : \A e \in Entries(list[k]) : Unlinked(e.txn, e)
  /\ \A t \in Txns : pc[t] = "install" => idx[t] \in DOMAIN write_set[t]

\* Who holds a lock, for what, and which ones with write intent: commit holds its
\* whole write set from the first validated read to the installation of each tuple.
Locking == {"expose", "exposing"}
Testing == {"version", "seq", "intent"}
Validating == {"validate"} \cup Testing
Writing == {"lockws", "install", "release"} \cup Validating
StillToInstall(t, k) == \E j \in DOMAIN write_set[t] : write_set[t][j] = k /\ j >= idx[t]
LocksOf(t) ==
  /\ \A k \in Keys : lock[k] = t =>
       /\ pc[t] \in Locking \cup Writing
       /\ pc[t] \in Writing => k \in WriteKeys(t)
       /\ pc[t] = "install" => StillToInstall(t, k)
       /\ write_intent[k] <=> pc[t] \in Writing
  /\ pc[t] = "lockws" => WriteKeys(t) \ Held(t) # {}
  /\ pc[t] \in Validating => WriteKeys(t) \subseteq Held(t)
  /\ pc[t] = "install" => \A k \in Keys : StillToInstall(t, k) => lock[k] = t
LockInv ==
  /\ \A t \in Txns : LocksOf(t)
  /\ \A k \in Keys : lock[k] = NONE => ~ write_intent[k]

\* A dirty read is of an exposed write of another transaction, which is in the
\* list until that one installs or aborts.
Leaving == {"unlink_abort", "install", "unlink"} \cup Ended
SourceIs(r) ==
  /\ r.from.txn \in Txns
  /\ r.from.pos \in DOMAIN write_set[r.from.txn]
  /\ r.from.pos <= piece[r.from.txn].writes
  /\ write_set[r.from.txn][r.from.pos] = r.key
  /\ pc[r.from.txn] \notin Leaving =>
       Entry(r.from.txn, "w", r.from.pos) \in Entries(list[r.key])
SourceInv ==
  \A t \in Txns : \A i \in DOMAIN read_set[t] :
    read_set[t][i].dirty => SourceIs(read_set[t][i])

\* The last write of a decided transaction to a tuple.
IsFinal(v, k) ==
  /\ v.txn \in Decided
  /\ v.pos \in DOMAIN write_set[v.txn] /\ write_set[v.txn][v.pos] = k
  /\ \A j \in DOMAIN write_set[v.txn] : write_set[v.txn][j] = k => j <= v.pos
ValueInv ==
  \A k \in Keys :
    IF version[k] = V0 THEN value[k].txn = V0
    ELSE /\ version[k] = value[k].txn
         /\ last_writer_seq[k] = value[k].pos
         /\ IsFinal(value[k], k)

\* A clean read is of a committed record, unless it is of the transaction's own
\* exposed write.  A dirty read is of another transaction, which has committed when
\* the read is validated; with two transactions it is of that one's last write.
Validated(t) == {i \in DOMAIN read_set[t] : t \in Decided \/ (pc[t] \in Validating /\ i < idx[t])}
AtMostTwo == \A a, b, c \in Txns : a = b \/ a = c \/ b = c
ReadIsFinal(t, r) == r.from.txn \in {V0, t} \/ IsFinal(r.from, r.key)
ReadInv ==
  \A t \in Txns : \A i \in DOMAIN read_set[t] :
    LET r == read_set[t][i] IN
    /\ ~ r.dirty => ReadIsFinal(t, r)
    /\ r.dirty => r.from.txn # t
    /\ r.dirty /\ i \in Validated(t) =>
         r.from.txn \in Decided /\ (AtMostTwo => ReadIsFinal(t, r))

\* The commit id of a transaction that has written, and when it counts; and how
\* far the tests of a dirty read are.
Tested(t, r) ==
  /\ r.dirty /\ pc[r.from.txn] = "committed"
  /\ pc[t] = "seq" /\ AtMostTwo => version[r.key] = r.from.txn
  /\ pc[t] = "intent" /\ AtMostTwo => ReadIsFinal(t, r)
CommitInv ==
  \A t \in Txns :
    /\ pc[t] \in {"install"} => commit_tid[t] = t
    /\ pc[t] \in {"unlink", "committed"} /\ write_set[t] # <<>> => commit_tid[t] = t
    /\ state[t] = "COMMITED" => pc[t] = "committed"
    /\ pc[t] \in Testing => idx[t] \in DOMAIN read_set[t] /\ Tested(t, TheRead(t))

\* Commit waits for the sources of its dirty reads: those of the exposed pieces are
\* kept as their dependencies, also when a piece is retried, and the others are found
\* in the lists, where with two transactions only more of the same source come after
\* them.
LatestIs(k, d) == \A e \in get_dependent_entry(list[k]) : e.txn = d
Waited == {"lockws", "install", "unlink", "committed"} \cup Validating
Awaited(t, i, d) ==
  /\ i <= piece[t].reads => d \in piece[t].deps
  /\ pc[t] = "waitdeps" => dep_queue[t][d] # "none"
  /\ pc[t] \notin Waited
  /\ i > piece[t].reads /\ pc[t] \notin Leaving => LatestIs(read_set[t][i].key, d)
DirtyReadIs(t, i) ==
  LET r == read_set[t][i] IN
  /\ ~ r.occ /\ r.from.txn # t
  /\ pc[r.from.txn] \notin Leaving => Awaited(t, i, r.from.txn)
StateInv == \A t \in Txns : Resolved(t) => pc[t] \in Leaving
DepsInv == \A t \in Txns : \A d \in piece[t].deps : dep_queue[t][d] # "none"
AwaitInv ==
  \A t \in Txns : \A i \in DOMAIN read_set[t] : read_set[t][i].dirty => DirtyReadIs(t, i)

\* Serializability.  A clean read names the version it saw, if it is not of an own
\* write; a tuple's versions are of different, decided transactions.
CleanInv ==
  \A t \in Txns : \A i \in DOMAIN read_set[t] :
    /\ policy.occ = {TRUE} => ~ read_set[t][i].dirty
    /\ ~ read_set[t][i].dirty /\ read_set[t][i].from.txn # t =>
         read_set[t][i].from.txn = read_set[t][i].clean_tid
HasInstalled(t, k) == t \in Decided /\ (pc[t] = "install" => ~ StillToInstall(t, k))
InstallsOf(k) ==
  /\ installed[k] # <<>> /\ version[k] = installed[k][Len(installed[k])]
  /\ \A i, j \in DOMAIN installed[k] : installed[k][i] = installed[k][j] => i = j
  /\ \A a \in Txns \cap Entries(installed[k]) : HasInstalled(a, k)
InstalledInv == \A k \in Keys : InstallsOf(k)

\* The order in which the transactions had their write sets locked, R, agrees
\* with what they read and write, and with what the validated ones may no longer
\* miss.
Committing == {t \in Txns : pc[t] \in Validating \cup {"install", "unlink", "committed"}}
ReadsAfter(R) ==
  \A b \in Committing : \A i \in DOMAIN read_set[b] :
    read_set[b][i].from.txn \in Committing \ {b} => R[read_set[b][i].from.txn] < R[b]
WritesInOrder(R) ==
  \A k \in Keys :
    /\ \A i, j \in DOMAIN installed[k] :
         i < j /\ installed[k][i] \in Txns /\ installed[k][j] \in Txns =>
           R[installed[k][i]] < R[installed[k][j]]
    /\ \A i \in DOMAIN installed[k] :
         installed[k][i] \in Txns /\ lock[k] \in Committing => R[installed[k][i]] < R[lock[k]]
ReadBefore(R, a, r) ==
  /\ \A m, l \in DOMAIN installed[r.key] :
       m < l /\ installed[r.key][m] = r.from.txn /\ installed[r.key][l] \in Txns \ {a} =>
         R[a] < R[installed[r.key][l]]
  /\ lock[r.key] \in Committing \ {a} => R[a] < R[lock[r.key]]
ReadsBefore(R) ==
  \A a \in Committing : \A i \in Validated(a) :
    read_set[a][i].from.txn # a => ReadBefore(R, a, read_set[a][i])
OrderIs(R, n) ==
  /\ R \in [Txns -> Nat] /\ n \in Nat /\ \A a \in Committing : R[a] < n
  /\ ReadsAfter(R) /\ WritesInOrder(R) /\ ReadsBefore(R)
Orderly == policy.occ = {TRUE} \/ AtMostTwo
OrderInv == Orderly => IsFiniteSet(Decided) /\ \E R, n : OrderIs(R, n)

-----------------------------------------------------------------------------
(* Sequences and sets of numbers.  Facts that need induction are proved with *)
(* the least element of the set of numbers for which they do not hold.       *)

LEMMA LeastOf ==
  ASSUME NEW T, T \subseteq Nat, T # {}
  PROVE  \E x \in T : \A y \in T : x <= y
  <1>1. PICK x \in T : \A y \in T : ~ (<<y, x>> \in OpToRel(<, Nat))
    BY NatLessThanWellFounded, WFMin
  <1>2. \A y \in T : ~ (y < x)
    BY <1>1, <<x, x>>[1] = x DEF OpToRel
  <1>3. QED
    BY <1>2

LEMMA MinOfIsIn ==
  ASSUME NEW S, S \subseteq Nat, S # {}
  PROVE  MinOf(S) \in S /\ \A y \in S : MinOf(S) <= y
  BY LeastOf DEF MinOf

LEMMA MaxOfIsIn ==
  ASSUME NEW n \in Nat, NEW S, S \subseteq 0 .. n, S # {}
  PROVE  MaxOf(S) \in S /\ \A y \in S : MaxOf(S) >= y
  <1>1. PICK T : T = {n - x : x \in S}
    OBVIOUS
  <1>2. T \subseteq Nat /\ T # {}
    <2>1. \A x \in 0 .. n : n - x \in Nat
      OBVIOUS
    <2>2. QED
      BY <1>1, <2>1
  <1>3. PICK m \in T : \A y \in T : m <= y
    BY <1>2, LeastOf
  <1>4. PICK x \in S : m = n - x
    BY <1>1, <1>3
  <1>5. \A y \in S : x >= y
    <2> SUFFICES ASSUME NEW y \in S PROVE x >= y
      OBVIOUS
    <2>1. n - x <= n - y
      BY <1>1, <1>3, <1>4
    <2>2. x \in 0 .. n /\ y \in 0 .. n
      OBVIOUS
    <2>3. QED
      BY <2>1, <2>2
  <1>6. QED
    BY <1>5 DEF MaxOf

LEMMA EntriesAppend ==
  ASSUME NEW X, NEW s \in Seq(X), NEW x \in X
  PROVE  Entries(Append(s, x)) = Entries(s) \cup {x}
  <1>1. Len(Append(s, x)) = Len(s) + 1 /\ Len(s) \in Nat
    OBVIOUS
  <1>2. \A i \in 1 .. Len(s) : Append(s, x)[i] = s[i]
    OBVIOUS
  <1>3. Append(s, x)[Len(s) + 1] = x
    OBVIOUS
  <1>4. DOMAIN Append(s, x) = 1 .. Len(s) + 1 /\ DOMAIN s = 1 .. Len(s)
    OBVIOUS
  <1>5. PICK t : t = Append(s, x)
    OBVIOUS
  <1>6. Entries(t) = Entries(s) \cup {x}
    BY <1>1, <1>2, <1>3, <1>4, <1>5 DEF Entries
  <1>7. QED
    BY <1>5, <1>6

LEMMA EntriesConcat ==
  ASSUME NEW X, NEW s \in Seq(X), NEW t \in Seq(X)
  PROVE  s \o t \in Seq(X) /\ Entries(s \o t) = Entries(s) \cup Entries(t)
  <1>1. Len(s \o t) = Len(s) + Len(t) /\ Len(s) \in Nat /\ Len(t) \in Nat /\ s \o t \in Seq(X)
    OBVIOUS
  <1>2. \A i \in 1 .. Len(s) : (s \o t)[i] = s[i]
    OBVIOUS
  <1>3. \A i \in 1 .. Len(t) : (s \o t)[Len(s) + i] = t[i]
    OBVIOUS
  <1>4. /\ DOMAIN (s \o t) = 1 .. Len(s) + Len(t)
        /\ DOMAIN s = 1 .. Len(s) /\ DOMAIN t = 1 .. Len(t)
    OBVIOUS
  <1>5. PICK u : u = s \o t
    OBVIOUS
  <1>6. \A i \in 1 .. Len(s) + Len(t) :
          i \in 1 .. Len(s) \/ \E j \in 1 .. Len(t) : i = Len(s) + j
    <2>1. \A i \in 1 .. Len(s) + Len(t) : i \notin 1 .. Len(s) =>
            i - Len(s) \in 1 .. Len(t) /\ i = Len(s) + (i - Len(s))
      BY <1>1
    <2> QED
      BY <2>1
  <1>7. \A j \in 1 .. Len(t) : Len(s) + j \in 1 .. Len(s) + Len(t)
    BY <1>1
  <1>8. \A j \in 1 .. Len(s) : j \in 1 .. Len(s) + Len(t)
    BY <1>1
  <1>9. \A e \in Entries(u) : e \in Entries(s) \cup Entries(t)
    <2>1. ASSUME NEW i \in 1 .. Len(s) + Len(t) PROVE u[i] \in Entries(s) \cup Entries(t)
      <3>1. CASE i \in 1 .. Len(s)
        BY <1>2, <1>4, <1>5, <3>1 DEF Entries
      <3>2. CASE \E j \in 1 .. Len(t) : i = Len(s) + j
        BY <1>3, <1>4, <1>5, <3>2 DEF Entries
      <3>3. QED
        BY <1>6, <3>1, <3>2
    <2>2. DOMAIN u = 1 .. Len(s) + Len(t)
      BY <1>4, <1>5
    <2>3. QED
      BY <2>1, <2>2 DEF Entries
  <1>10. \A e \in Entries(s) \cup Entries(t) : e \in Entries(u)
    BY <1>2, <1>3, <1>4, <1>5, <1>7, <1>8 DEF Entries
  <1>11. QED
    BY <1>1, <1>5, <1>9, <1>10

\* What Only computes, up to its n-th step.
OnlyStep(f, l, S, n) == IF l[n] \in S THEN Append(f[n - 1], l[n]) ELSE f[n - 1]
OnlyUpTo(f, l, S, m) == f = [n \in 0 .. m |-> IF n = 0 THEN <<>> ELSE OnlyStep(f, l, S, n)]
Chosen(l, S, n) == {l[i] : i \in {j \in 1 .. n : l[j] \in S}}

LEMMA OnlyExists ==
  ASSUME NEW l, NEW S, NEW m \in Nat
  PROVE  \E f : OnlyUpTo(f, l, S, m)
  <1> DEFINE Bad == {n \in Nat : ~ \E f : OnlyUpTo(f, l, S, n)}
  <1>1. SUFFICES ASSUME Bad # {} PROVE FALSE
    OBVIOUS
  <1>2. PICK n \in Bad : \A y \in Bad : n <= y
    <2>1. Bad \subseteq Nat
      OBVIOUS
    <2> HIDE DEF Bad
    <2>2. QED
      BY <1>1, <2>1, LeastOf
  <1>3. n # 0
    <2> SUFFICES \E f : OnlyUpTo(f, l, S, 0)
      BY <1>2
    <2> WITNESS [y \in 0 .. 0 |-> <<>>]
    <2> QED
      BY DEF OnlyUpTo
  <1>4. n \in Nat /\ n - 1 \in Nat /\ n - 1 \notin Bad
    BY <1>2, <1>3
  <1>5. PICK f : OnlyUpTo(f, l, S, n - 1)
    BY <1>4
  <1>6. PICK g : g = [y \in 0 .. n |-> IF y = n THEN OnlyStep(f, l, S, n) ELSE f[y]]
    OBVIOUS
  <1>7. \A y \in 0 .. n - 1 : g[y] = f[y]
    BY <1>4, <1>6
  <1>8. g[n] = OnlyStep(f, l, S, n)
    BY <1>4, <1>6
  <1>9. \A y \in 1 .. n : OnlyStep(g, l, S, y) = OnlyStep(f, l, S, y)
    BY <1>4, <1>7 DEF OnlyStep
  <1>10. \A y \in 0 .. n - 1 : f[y] = IF y = 0 THEN <<>> ELSE OnlyStep(f, l, S, y)
    BY <1>4, <1>5 DEF OnlyUpTo
  <1>11. OnlyUpTo(g, l, S, n)
    <2>1. \A y \in 0 .. n : g[y] = IF y = 0 THEN <<>> ELSE OnlyStep(g, l, S, y)
      BY <1>3, <1>4, <1>7, <1>8, <1>9, <1>10
    <2> QED
      BY <2>1, <1>6 DEF OnlyUpTo
  <1>12. QED
    BY <1>2, <1>11

LEMMA OnlyTakes ==
  ASSUME NEW X, NEW l \in Seq(X), NEW S, NEW f, OnlyUpTo(f, l, S, Len(l))
  PROVE  f[Len(l)] \in Seq(X) /\ Entries(f[Len(l)]) = Chosen(l, S, Len(l))
  <1> DEFINE Good(n) == f[n] \in Seq(X) /\ Entries(f[n]) = Chosen(l, S, n)
             Bad == {n \in 0 .. Len(l) : ~ Good(n)}
  <1>0. Len(l) \in Nat
    OBVIOUS
  <1>1. SUFFICES ASSUME Bad # {} PROVE FALSE
    BY <1>0
  <1>2. PICK n \in Bad : \A m \in Bad : n <= m
    <2>1. Bad \subseteq Nat
      BY <1>0
    <2> HIDE DEF Bad
    <2>2. QED
      BY <1>1, <2>1, LeastOf
  <1>3. n # 0
    <2>1. f[0] = <<>>
      BY <1>0 DEF OnlyUpTo
    <2>2. Chosen(l, S, 0) = {} /\ Entries(<<>>) = {} /\ <<>> \in Seq(X)
      BY DEF Chosen, Entries
    <2>3. QED
      BY <1>2, <2>1, <2>2
  <1>4. n - 1 \in 0 .. Len(l) /\ n \in 1 .. Len(l) /\ n - 1 \notin Bad
    BY <1>0, <1>2, <1>3
  <1>5. f[n - 1] \in Seq(X) /\ Entries(f[n - 1]) = Chosen(l, S, n - 1)
    BY <1>4
  <1>6. f[n] = OnlyStep(f, l, S, n)
    BY <1>0, <1>4 DEF OnlyUpTo
  <1>7. l[n] \in X
    BY <1>4
  <1>8. Chosen(l, S, n) = IF l[n] \in S THEN Chosen(l, S, n - 1) \cup {l[n]}
                          ELSE Chosen(l, S, n - 1)
    BY <1>4 DEF Chosen
  <1>9. CASE l[n] \in S
    <2>1. f[n] = Append(f[n - 1], l[n])
      BY <1>6, <1>9 DEF OnlyStep
    <2>2. Entries(Append(f[n - 1], l[n])) = Entries(f[n - 1]) \cup {l[n]}
      BY <1>5, <1>7, EntriesAppend
    <2>3. Append(f[n - 1], l[n]) \in Seq(X)
      BY <1>5, <1>7
    <2>4. Entries(f[n]) = Chosen(l, S, n)
      BY <1>5, <1>8, <1>9, <2>1, <2>2
    <2>5. QED
      BY <1>2, <2>1, <2>3, <2>4
  <1>10. CASE l[n] \notin S
    BY <1>2, <1>5, <1>6, <1>8, <1>10 DEF OnlyStep
  <1>11. QED
    BY <1>9, <1>10

LEMMA OnlyEntries ==
  ASSUME NEW X, NEW l \in Seq(X), NEW S
  PROVE  Only(l, S) \in Seq(X) /\ Entries(Only(l, S)) = Entries(l) \cap S
  <1>0. Len(l) \in Nat
    OBVIOUS
  <1>1. PICK f : OnlyUpTo(f, l, S, Len(l))
    BY <1>0, OnlyExists
  <1>2. PICK g : g = CHOOSE h : OnlyUpTo(h, l, S, Len(l))
    OBVIOUS
  <1>3. OnlyUpTo(g, l, S, Len(l))
    BY <1>1, <1>2
  <1>4. Only(l, S) = g[Len(l)]
    BY <1>2 DEF Only, OnlyUpTo, OnlyStep
  <1>5. g[Len(l)] \in Seq(X) /\ Entries(g[Len(l)]) = Chosen(l, S, Len(l))
    BY <1>3, OnlyTakes
  <1>6. Chosen(l, S, Len(l)) = Entries(l) \cap S
    <2>1. DOMAIN l = 1 .. Len(l)
      OBVIOUS
    <2>2. QED
      BY <2>1 DEF Entries, Chosen
  <1>7. QED
    BY <1>4, <1>5, <1>6

-----------------------------------------------------------------------------
(* Access lists and what is read from them *)

LEMMA DependentEntry ==
  ASSUME NEW l \in Seq(EntrySpace), get_dependent_entry(l) # {}
  PROVE  \E e \in Entries(l) : e.op = "w" /\ get_dependent_entry(l) = {e}
  <1>1. Writes(l) # {} /\ Writes(l) \subseteq 0 .. Len(l) /\ Len(l) \in Nat
    BY DEF get_dependent_entry, Writes
  <1>2. MaxOf(Writes(l)) \in Writes(l)
    BY <1>1, MaxOfIsIn
  <1>3. QED
    BY <1>1, <1>2 DEF get_dependent_entry, Writes, Entries

\* The latest write among the first n entries of a list.
WritesUpTo(l, n) == {i \in 1 .. n : l[i].op = "w"}
LatestUpTo(l, n) == IF WritesUpTo(l, n) = {} THEN {} ELSE {l[MaxOf(WritesUpTo(l, n))]}

LEMMA MaxOfIs ==
  ASSUME NEW n \in Nat, NEW S, S \subseteq 0 .. n, NEW m \in S, \A y \in S : m >= y
  PROVE  MaxOf(S) = m
  <1>1. PICK x : x = MaxOf(S)
    OBVIOUS
  <1>2. x \in S /\ x >= m
    BY <1>1, MaxOfIsIn
  <1>3. x \in 0 .. n /\ m \in 0 .. n /\ m >= x
    BY <1>2
  <1>4. x = m
    BY ONLY <1>2, <1>3, n \in Nat
  <1>5. QED
    BY <1>1, <1>4

LEMMA LatestSteps ==
  ASSUME NEW l, NEW n \in Nat \ {0}
  PROVE  LatestUpTo(l, n) = IF l[n].op = "w" THEN {l[n]} ELSE LatestUpTo(l, n - 1)
  <1>1. CASE l[n].op = "w"
    <2>1. n \in WritesUpTo(l, n) /\ WritesUpTo(l, n) \subseteq 0 .. n
      BY <1>1 DEF WritesUpTo
    <2>2. \A y \in WritesUpTo(l, n) : n >= y
      BY DEF WritesUpTo
    <2>3. MaxOf(WritesUpTo(l, n)) = n
      BY <2>1, <2>2, MaxOfIs
    <2>4. QED
      BY <1>1, <2>1, <2>3 DEF LatestUpTo
  <1>2. CASE l[n].op # "w"
    <2>1. WritesUpTo(l, n) = WritesUpTo(l, n - 1)
      BY <1>2 DEF WritesUpTo
    <2>2. QED
      BY <1>2, <2>1 DEF LatestUpTo
  <1>3. QED
    BY <1>1, <1>2

LEMMA LatestIsDependent ==
  ASSUME NEW X, NEW l \in Seq(X)
  PROVE  get_dependent_entry(l) = LatestUpTo(l, Len(l))
  <1>1. DOMAIN l = 1 .. Len(l)
    OBVIOUS
  <1>2. Writes(l) = WritesUpTo(l, Len(l))
    BY <1>1 DEF Writes, WritesUpTo
  <1>3. QED
    BY <1>2 DEF get_dependent_entry, LatestUpTo

LEMMA LatestOfSame ==
  ASSUME NEW l, NEW m, NEW n \in Nat, \A i \in 1 .. n : l[i] = m[i]
  PROVE  LatestUpTo(l, n) = LatestUpTo(m, n)
  <1>1. WritesUpTo(l, n) = WritesUpTo(m, n)
    BY DEF WritesUpTo
  <1>2. CASE WritesUpTo(l, n) = {}
    BY <1>1, <1>2 DEF LatestUpTo
  <1>3. CASE WritesUpTo(l, n) # {}
    <2>1. WritesUpTo(l, n) \subseteq 0 .. n
      BY DEF WritesUpTo
    <2>2. MaxOf(WritesUpTo(l, n)) \in WritesUpTo(l, n)
      BY <1>3, <2>1, MaxOfIsIn
    <2>3. MaxOf(WritesUpTo(l, n)) \in 1 .. n
      BY <2>2 DEF WritesUpTo
    <2>4. QED
      BY <1>1, <1>3, <2>3 DEF LatestUpTo
  <1>4. QED
    BY <1>2, <1>3

LEMMA DependentOfAppend ==
  ASSUME NEW X, NEW s \in Seq(X), NEW x \in X
  PROVE  get_dependent_entry(Append(s, x)) = IF x.op = "w" THEN {x} ELSE get_dependent_entry(s)
  <1>1. PICK u : u = Append(s, x)
    OBVIOUS
  <1>2. /\ u \in Seq(X) /\ Len(u) = Len(s) + 1 /\ Len(s) \in Nat /\ u[Len(u)] = x
        /\ \A i \in 1 .. Len(s) : u[i] = s[i]
    BY <1>1
  <1>3. get_dependent_entry(u) = IF x.op = "w" THEN {x} ELSE LatestUpTo(u, Len(s))
    <2>0. Len(u) \in Nat \ {0}
      BY <1>2
    <2>1. LatestUpTo(u, Len(u)) = IF u[Len(u)].op = "w" THEN {u[Len(u)]} ELSE LatestUpTo(u,
    Len(u) - 1)
      BY <2>0, LatestSteps
    <2>2. Len(u) - 1 = Len(s)
      BY <1>2
    <2>3. get_dependent_entry(u) = LatestUpTo(u, Len(u))
      BY <1>2, LatestIsDependent
    <2>4. QED
      BY <1>2, <2>1, <2>2, <2>3
  <1>4. LatestUpTo(u, Len(s)) = get_dependent_entry(s)
    BY <1>2, LatestOfSame, LatestIsDependent
  <1>5. QED
    BY <1>1, <1>3, <1>4

\* What is appended may be the latest write; what is left out is not, if it is a read.
LEMMA DependentOfConcat ==
  ASSUME NEW X, NEW s \in Seq(X), NEW m \in Seq(X)
  PROVE  get_dependent_entry(s \o m) \subseteq
           get_dependent_entry(s) \cup {e \in Entries(m) : e.op = "w"}
  <1>1. PICK u : u = s \o m
    OBVIOUS
  <1>2. /\ u \in Seq(X) /\ Len(u) = Len(s) + Len(m) /\ Len(s) \in Nat /\ Len(m) \in Nat
        /\ \A i \in 1 .. Len(s) : u[i] = s[i]
        /\ \A i \in 1 .. Len(m) : u[Len(s) + i] = m[i]
    BY <1>1
  <1> DEFINE Bad == {n \in Nat : n <= Len(m) /\ ~ (LatestUpTo(u, Len(s) + n) \subseteq
                       get_dependent_entry(s) \cup {e \in Entries(m) : e.op = "w"})}
  <1>3. Bad = {}
    <2>1. SUFFICES ASSUME Bad # {} PROVE FALSE
      OBVIOUS
    <2>2. PICK n \in Bad : \A y \in Bad : n <= y
      <3>1. Bad \subseteq Nat
        OBVIOUS
      <3> HIDE DEF Bad
      <3>2. QED
        BY <2>1, <3>1, LeastOf
    <2>3. n # 0
      <3>1. LatestUpTo(u, Len(s) + 0) = get_dependent_entry(s)
        BY <1>2, LatestOfSame, LatestIsDependent
      <3>2. QED
        BY <2>2, <3>1
    <2>4. n \in Nat /\ n - 1 \in Nat /\ n - 1 <= Len(m) /\ n - 1 \notin Bad /\ n \in 1 .. Len(m)
      <3>1. n \in Nat /\ n <= Len(m)
        OBVIOUS
      <3>2. n - 1 \in Nat /\ n - 1 <= Len(m) /\ n \in 1 .. Len(m) /\ ~ (n <= n - 1)
        BY ONLY <1>2, <2>3, <3>1
      <3> HIDE DEF Bad
      <3>3. n - 1 \notin Bad
        BY <2>2, <3>2
      <3>4. QED
        BY <3>1, <3>2, <3>3
    <2>5. LatestUpTo(u, Len(s) + (n - 1)) \subseteq
            get_dependent_entry(s) \cup {e \in Entries(m) : e.op = "w"}
      BY <2>4
    <2>6. /\ Len(s) + n \in Nat \ {0} /\ (Len(s) + n) - 1 = Len(s) + (n - 1)
          /\ u[Len(s) + n] = m[n]
      BY <1>2, <2>4
    <2>7. LatestUpTo(u, Len(s) + n) = IF m[n].op = "w" THEN {m[n]} ELSE LatestUpTo(u,
    Len(s) + (n - 1))
      BY <2>6, LatestSteps
    <2>8. m[n] \in Entries(m)
      BY <2>4 DEF Entries
    <2>9. LatestUpTo(u, Len(s) + n) \subseteq
            get_dependent_entry(s) \cup {e \in Entries(m) : e.op = "w"}
      BY <2>5, <2>7, <2>8
    <2>10. QED
      BY <2>2, <2>9
  <1>4. Len(m) \notin Bad
    BY <1>3
  <1>5. get_dependent_entry(u) = LatestUpTo(u, Len(s) + Len(m))
    BY <1>2, LatestIsDependent
  <1>6. QED
    BY <1>1, <1>2, <1>4, <1>5

LEMMA DependentOfOnly ==
  ASSUME NEW X, NEW l \in Seq(X), NEW S, \A e \in Entries(l) : e.op = "w" => e \in S
  PROVE  get_dependent_entry(Only(l, S)) = get_dependent_entry(l)
  <1>0. Len(l) \in Nat
    OBVIOUS
  <1>1. PICK h : OnlyUpTo(h, l, S, Len(l))
    BY <1>0, OnlyExists
  <1>2. PICK f : f = CHOOSE g : OnlyUpTo(g, l, S, Len(l))
    OBVIOUS
  <1>3. OnlyUpTo(f, l, S, Len(l))
    BY <1>1, <1>2
  <1>4. Only(l, S) = f[Len(l)]
    BY <1>2 DEF Only, OnlyUpTo, OnlyStep
  <1> DEFINE Good(n) == f[n] \in Seq(X) /\ get_dependent_entry(f[n]) = LatestUpTo(l, n)
             Bad == {n \in 0 .. Len(l) : ~ Good(n)}
  <1>5. Bad = {}
    <2>1. SUFFICES ASSUME Bad # {} PROVE FALSE
      OBVIOUS
    <2>2. PICK n \in Bad : \A m \in Bad : n <= m
      <3>1. Bad \subseteq Nat
        BY <1>0
      <3> HIDE DEF Bad
      <3>2. QED
        BY <2>1, <3>1, LeastOf
    <2>3. n # 0
      <3>1. f[0] = <<>>
        BY <1>0, <1>3 DEF OnlyUpTo
      <3>2. get_dependent_entry(<<>>) = {} /\ LatestUpTo(l, 0) = {} /\ <<>> \in Seq(X)
        BY DEF get_dependent_entry, Writes, LatestUpTo, WritesUpTo
      <3>3. QED
        BY <2>2, <3>1, <3>2
    <2>4. n - 1 \in 0 .. Len(l) /\ n \in 1 .. Len(l) /\ n - 1 \notin Bad /\ n \in Nat \ {0}
      BY <1>0, <2>2, <2>3
    <2>5. f[n - 1] \in Seq(X) /\ get_dependent_entry(f[n - 1]) = LatestUpTo(l, n - 1)
      BY <2>4
    <2>6. f[n] = OnlyStep(f, l, S, n)
      BY <1>0, <1>3, <2>4 DEF OnlyUpTo
    <2>7. l[n] \in X /\ l[n] \in Entries(l)
      BY <2>4 DEF Entries
    <2>8. LatestUpTo(l, n) = IF l[n].op = "w" THEN {l[n]} ELSE LatestUpTo(l, n - 1)
      BY <2>4, LatestSteps
    <2>9. CASE l[n] \in S
      <3>1. f[n] = Append(f[n - 1], l[n])
        BY <2>6, <2>9 DEF OnlyStep
      <3>2. /\ Append(f[n - 1], l[n]) \in Seq(X)
            /\ get_dependent_entry(Append(f[n - 1], l[n])) =
                 IF l[n].op = "w" THEN {l[n]} ELSE get_dependent_entry(f[n - 1])
        <4>1. \A y \in Seq(X), x \in X :
                /\ Append(y, x) \in Seq(X)
                /\ get_dependent_entry(Append(y, x)) =
                     IF x.op = "w" THEN {x} ELSE get_dependent_entry(y)
          BY DependentOfAppend
        <4>2. QED
          BY <2>5, <2>7, <4>1
      <3>3. Good(n)
        BY <2>5, <2>8, <3>1, <3>2
      <3>4. QED
        BY <2>2, <3>3
    <2>10. CASE l[n] \notin S
      <3>1. l[n].op # "w"
        BY <2>7, <2>10
      <3>2. f[n] = f[n - 1]
        BY <2>6, <2>10 DEF OnlyStep
      <3>3. Good(n)
        BY <2>5, <2>8, <3>1, <3>2
      <3>4. QED
        BY <2>2, <3>3
    <2>11. QED
      BY <2>9, <2>10
  <1>6. Len(l) \notin Bad
    BY <1>5
  <1>7. get_dependent_entry(f[Len(l)]) = LatestUpTo(l, Len(l))
    BY <1>0, <1>6
  <1>8. QED
    BY <1>4, <1>7, LatestIsDependent

LEMMA ReadRecordIs ==
  ASSUME TypeOK, NEW t \in Txns, NEW k \in Keys, NEW occ \in BOOLEAN,
         NEW r, r = ReadRecord(t, k, occ)
  PROVE  /\ r \in Reads
         /\ r.key = k /\ r.occ = occ /\ r.clean_tid = version[k]
         /\ \/ r.from = value[k] /\ ~ r.dirty /\ (occ \/ get_dependent_entry(list[k]) = {})
            \/ ~ occ /\ \E e \in Entries(list[k]) :
                 /\ e.op = "w" /\ r.from = [txn |-> e.txn, pos |-> e.pos]
                 /\ get_dependent_entry(list[k]) = {e} /\ (r.dirty <=> e.txn # t)
  <1>0. /\ list[k] \in Seq(EntrySpace) /\ value[k] \in Sources
        /\ version[k] \in Versions \cup {NONE}
    BY DEF TypeOK
  <1>1. PICK de : de = get_dependent_entry(list[k])
    OBVIOUS
  <1>2. PICK from : from = IF occ \/ de = {} THEN value[k]
                           ELSE CHOOSE v \in {[txn |-> x.txn, pos |-> x.pos] : x \in de} : TRUE
    OBVIOUS
  <1>3. PICK dirty \in BOOLEAN : dirty = (~ occ /\ de # {} /\ from.txn # t)
    OBVIOUS
  <1>4. r = [key |-> k, occ |-> occ, from |-> from, clean_tid |-> version[k], dirty |-> dirty]
    BY <1>1, <1>2, <1>3, Zenon DEF ReadRecord
  <1>5. /\ r.key = k /\ r.occ = occ /\ r.clean_tid = version[k] /\ r.from = from
        /\ r.dirty = dirty
    BY <1>4, SMT
  <1>6. from \in Sources => r \in Reads
    BY <1>0, <1>4 DEF Reads
  <1>7. CASE occ \/ de = {}
    <2>1. from = value[k] /\ ~ dirty
      BY <1>2, <1>3, <1>7
    <2>2. QED
      BY <1>0, <1>1, <1>5, <1>6, <1>7, <2>1
  <1>8. CASE ~ (occ \/ de = {})
    <2>1. PICK e \in Entries(list[k]) : e.op = "w" /\ de = {e}
      BY <1>0, <1>1, <1>8, DependentEntry
    <2>2. e \in EntrySpace
      BY <1>0 DEF Entries
    <2>3. from = [txn |-> e.txn, pos |-> e.pos]
      BY <1>2, <1>8, <2>1
    <2>4. from \in Sources /\ from.txn = e.txn
      BY <2>2, <2>3 DEF EntrySpace, Sources, Versions
    <2>5. dirty <=> e.txn # t
      BY <1>3, <1>8, <2>4
    <2>6. QED
      BY <1>1, <1>5, <1>6, <1>8, <2>1, <2>3, <2>4, <2>5
  <1>9. QED
    BY <1>7, <1>8

\* The entries that an exposed piece adds.
LEMMA ReadEntriesAre ==
  ASSUME TypeOK, NEW t \in Txns, NEW k \in Keys, NEW m \in 0 .. Len(read_set[t])
  PROVE  /\ ReadEntries(t, k, m) \in Seq(EntrySpace)
         /\ \A e \in Entries(ReadEntries(t, k, m)) :
              /\ e.txn = t /\ e.op = "r" /\ e.pos \in DOMAIN read_set[t]
              /\ read_set[t][e.pos].key = k /\ ~ read_set[t][e.pos].occ
  <1>1. m \in Nat
    BY DEF TypeOK
  <1>2. PICK l : l = [i \in 1 .. m |-> Entry(t, "r", i)]
    OBVIOUS
  <1>3. l \in Seq(EntrySpace)
    BY <1>1, <1>2 DEF Entry, EntrySpace
  <1>4. PICK S : S = {Entry(t, "r", i) : i \in {j \in PieceReads(t) :
                        /\ read_set[t][j].key = k
                        /\ ~ read_set[t][j].occ
                        /\ ~ is_overwrite(t, j)}}
    OBVIOUS
  <1>5. Only(l, S) \in Seq(EntrySpace) /\ Entries(Only(l, S)) = Entries(l) \cap S
    BY <1>3, OnlyEntries
  <1>6. ReadEntries(t, k, m) = Only(l, S)
    BY <1>2, <1>4 DEF ReadEntries
  <1>7. \A e \in S : /\ e.txn = t /\ e.op = "r" /\ e.pos \in DOMAIN read_set[t]
                     /\ read_set[t][e.pos].key = k /\ ~ read_set[t][e.pos].occ
    <2>1. PieceReads(t) \subseteq DOMAIN read_set[t]
      <3>1. piece[t].reads \in Nat /\ read_set[t] \in Seq(Reads)
        BY DEF TypeOK, Pieces
      <3>2. QED
        BY <3>1 DEF PieceReads
    <2>2. QED
      BY <1>4, <2>1 DEF Entry
  <1>8. QED
    BY <1>5, <1>6, <1>7

LEMMA WriteEntriesAre ==
  ASSUME TypeOK, NEW t \in Txns, NEW k \in Keys
  PROVE  /\ WriteEntries(t, k) \in Seq(EntrySpace)
         /\ \A e \in Entries(WriteEntries(t, k)) :
              /\ e.txn = t /\ e.op = "w" /\ e.pos \in DOMAIN write_set[t]
              /\ write_set[t][e.pos] = k
  <1>1. write_set[t] \in Seq(Keys) /\ Len(write_set[t]) \in Nat
    BY DEF TypeOK
  <1>2. PICK l : l = [i \in 1 .. Len(write_set[t]) |-> Entry(t, "w", i)]
    OBVIOUS
  <1>3. l \in Seq(EntrySpace)
    BY <1>1, <1>2 DEF Entry, EntrySpace
  <1>4. PICK S : S = {Entry(t, "w", i) : i \in {j \in PieceWrites(t) : write_set[t][j] = k}}
    OBVIOUS
  <1>5. Only(l, S) \in Seq(EntrySpace) /\ Entries(Only(l, S)) = Entries(l) \cap S
    BY <1>3, OnlyEntries
  <1>6. WriteEntries(t, k) = Only(l, S)
    BY <1>2, <1>4 DEF WriteEntries
  <1>7. \A e \in S : /\ e.txn = t /\ e.op = "w" /\ e.pos \in DOMAIN write_set[t]
                     /\ write_set[t][e.pos] = k
    <2>1. PieceWrites(t) \subseteq DOMAIN write_set[t]
      <3>1. piece[t].writes \in Nat
        BY DEF TypeOK, Pieces
      <3>2. QED
        BY <1>1, <3>1 DEF PieceWrites
    <2>2. QED
      BY <1>4, <2>1 DEF Entry
  <1>8. QED
    BY <1>5, <1>6, <1>7

\* An exposure adds entries of its own accesses, and takes none away.
Exposes(t) ==
  \A k \in Keys :
    /\ list'[k] \in Seq(EntrySpace)
    /\ Entries(list[k]) \subseteq Entries(list'[k])
    /\ \A e \in Entries(list'[k]) \ Entries(list[k]) :
         /\ e \in EntrySpace /\ e.txn = t
         /\ e.op = "w" => /\ e.pos \in DOMAIN write_set[t] /\ write_set[t][e.pos] = k
                          /\ piece'[t].writes = Len(write_set[t])
         /\ e.op = "r" => e.pos \in DOMAIN read_set[t] /\ read_set[t][e.pos].key = k

LEMMA ExposeExposes == ASSUME TypeOK, NEW t \in Txns, Expose(t) PROVE Exposes(t)
  <1>0. read_set[t] \in Seq(Reads) /\ Len(read_set[t]) \in Nat /\ \A k \in Keys : list[k] \in Seq(EntrySpace)
    BY DEF TypeOK
  <1>1. CASE ExposeOk(t)
    <2> SUFFICES ASSUME NEW k \in Keys
                 PROVE  /\ list'[k] \in Seq(EntrySpace)
                        /\ Entries(list[k]) \subseteq Entries(list'[k])
                        /\ \A e \in Entries(list'[k]) \ Entries(list[k]) :
                             /\ e \in EntrySpace /\ e.txn = t
                             /\ e.op = "w" => /\ e.pos \in DOMAIN write_set[t]
                                              /\ write_set[t][e.pos] = k
                                              /\ piece'[t].writes = Len(write_set[t])
                             /\ e.op = "r" => /\ e.pos \in DOMAIN read_set[t]
                                              /\ read_set[t][e.pos].key = k
      BY DEF Exposes
    <2>1. PICK a, b : a = ReadEntries(t, k, Len(read_set[t])) /\ b = WriteEntries(t, k)
      OBVIOUS
    <2>2. /\ a \in Seq(EntrySpace) /\ b \in Seq(EntrySpace)
          /\ \A e \in Entries(a) : /\ e.txn = t /\ e.op = "r" /\ e.pos \in DOMAIN read_set[t]
                                   /\ read_set[t][e.pos].key = k
          /\ \A e \in Entries(b) : /\ e.txn = t /\ e.op = "w" /\ e.pos \in DOMAIN write_set[t]
                                   /\ write_set[t][e.pos] = k
      <3>1. Len(read_set[t]) \in 0 .. Len(read_set[t])
        BY <1>0
      <3>2. QED
        BY <2>1, <3>1, ReadEntriesAre, WriteEntriesAre
    <2>3. list'[k] = (list[k] \o a) \o b
      BY <1>1, <2>1 DEF ExposeOk
    <2>4. list[k] \o a \in Seq(EntrySpace) /\ Entries(list[k] \o a) = Entries(list[k]) \cup Entries(a)
      BY <1>0, <2>2, EntriesConcat
    <2>5. /\ list'[k] \in Seq(EntrySpace)
          /\ Entries(list'[k]) = Entries(list[k]) \cup Entries(a) \cup Entries(b)
      <3>1. PICK s : s = list[k] \o a
        OBVIOUS
      <3>2. s \in Seq(EntrySpace) /\ b \in Seq(EntrySpace)
        BY <2>2, <2>4, <3>1
      <3>3. s \o b \in Seq(EntrySpace) /\ Entries(s \o b) = Entries(s) \cup Entries(b)
        BY <3>2, EntriesConcat
      <3>4. QED
        BY <2>3, <2>4, <3>1, <3>3
    <2>6. \A e \in Entries(list'[k]) : e \in EntrySpace
      BY <2>5 DEF Entries
    <2>7. piece'[t].writes = Len(write_set[t])
      BY <1>1 DEF ExposeOk, TypeOK
    <2>8. QED
      BY <2>2, <2>5, <2>6, <2>7
  <1>2. CASE ExposeFails(t)
    <2>1. PICK m : /\ m \in 0 .. Len(read_set[t])
                   /\ list' = [k \in Keys |-> list[k] \o ReadEntries(t, k, m)]
      <3>1. PICK F : F = {i \in PieceReads(t) : ~ EarlyValid(t, read_set[t][i])}
        OBVIOUS
      <3>2. F # {} /\ list' = [k \in Keys |-> list[k] \o ReadEntries(t, k, MinOf(F) - 1)]
        BY <1>2, <3>1 DEF ExposeFails
      <3>3. F \subseteq 1 .. Len(read_set[t])
        <4>1. piece[t].reads \in Nat
          BY DEF TypeOK, Pieces
        <4>2. QED
          BY <1>0, <3>1, <4>1 DEF PieceReads
      <3>4. MinOf(F) \in F
        <4>1. F \subseteq Nat
          BY <3>3
        <4>2. QED
          BY <3>2, <4>1, MinOfIsIn
      <3>5. PICK x \in 1 .. Len(read_set[t]) : x = MinOf(F)
        BY <3>3, <3>4
      <3>6. x - 1 \in 0 .. Len(read_set[t])
        BY <1>0, <3>5
      <3>7. QED
        BY <3>2, <3>5, <3>6
    <2> SUFFICES ASSUME NEW k \in Keys
                 PROVE  /\ list'[k] \in Seq(EntrySpace)
                        /\ Entries(list[k]) \subseteq Entries(list'[k])
                        /\ \A e \in Entries(list'[k]) \ Entries(list[k]) :
                             /\ e \in EntrySpace /\ e.txn = t
                             /\ e.op = "r" /\ e.pos \in DOMAIN read_set[t]
                             /\ read_set[t][e.pos].key = k
      BY DEF Exposes
    <2>2. PICK a : a = ReadEntries(t, k, m)
      OBVIOUS
    <2>3. /\ a \in Seq(EntrySpace)
          /\ \A e \in Entries(a) : /\ e.txn = t /\ e.op = "r" /\ e.pos \in DOMAIN read_set[t]
                                   /\ read_set[t][e.pos].key = k
      BY <2>1, <2>2, ReadEntriesAre
    <2>4. list'[k] = list[k] \o a
      BY <2>1, <2>2
    <2>5. /\ list'[k] \in Seq(EntrySpace)
          /\ Entries(list'[k]) = Entries(list[k]) \cup Entries(a)
      BY <1>0, <2>3, <2>4, EntriesConcat
    <2>6. \A e \in Entries(list'[k]) : e \in EntrySpace
      BY <2>5 DEF Entries
    <2>7. QED
      BY <2>3, <2>5, <2>6
  <1>3. QED
    BY <1>1, <1>2 DEF Expose

\* Unlinking takes entries of the transaction that unlinks.
Unlinks(t, ops) ==
  \A k \in Keys :
    /\ list'[k] \in Seq(EntrySpace)
    /\ Entries(list'[k]) \subseteq Entries(list[k])
    /\ \A e \in Entries(list[k]) \ Entries(list'[k]) : e.txn = t /\ e.op \in ops

LEMMA OnlyUnlinks ==
  ASSUME TypeOK, NEW t \in Txns, NEW k, NEW D, NEW ops, \A e \in D : e.txn = t /\ e.op \in ops,
         list' = [list EXCEPT ![k] = Only(@, Entries(@) \ D)]
  PROVE  /\ Unlinks(t, ops) /\ list' \in [Keys -> Seq(EntrySpace)]
         /\ k \in Keys => Entries(list'[k]) \cap D = {}
  <1> SUFFICES ASSUME NEW j \in Keys
               PROVE  /\ list'[j] \in Seq(EntrySpace)
                      /\ Entries(list'[j]) \subseteq Entries(list[j])
                      /\ \A e \in Entries(list[j]) \ Entries(list'[j]) : e \in D
                      /\ j = k => Entries(list'[j]) \cap D = {}
    BY DEF Unlinks, TypeOK
  <1>1. list \in [Keys -> Seq(EntrySpace)] /\ list[j] \in Seq(EntrySpace)
    BY DEF TypeOK
  <1>2. CASE j = k
    <2>1. list'[j] = Only(list[j], Entries(list[j]) \ D)
      BY <1>1, <1>2
    <2>2. /\ list'[j] \in Seq(EntrySpace)
          /\ Entries(list'[j]) = Entries(list[j]) \cap (Entries(list[j]) \ D)
      BY <1>1, <2>1, OnlyEntries
    <2>3. QED
      BY <2>2
  <1>3. CASE j # k
    BY <1>1, <1>3
  <1>4. QED
    BY <1>2, <1>3

LEMMA UnlinkReadUnlinks ==
  ASSUME TypeOK, NEW t \in Txns, NEW from, UnlinkRead(t, from)
  PROVE  Unlinks(t, {"r"}) /\ list' \in [Keys -> Seq(EntrySpace)]
  <1>1. PICK i : i = MinOf(LinkedReads(t, from))
    OBVIOUS
  <1>2. PICK k : k = read_set[t][i].key
    OBVIOUS
  <1>3. PICK D : D = {Entry(t, "r", i)}
    OBVIOUS
  <1>4. list' = [list EXCEPT ![k] = Only(@, Entries(@) \ D)]
    BY <1>1, <1>2, <1>3 DEF UnlinkRead, unlink_entry
  <1>5. \A e \in D : e.txn = t /\ e.op \in {"r"}
    BY <1>3 DEF Entry
  <1>6. QED
    BY <1>4, <1>5, OnlyUnlinks

LEMMA OwnEntriesAre ==
  ASSUME NEW t, NEW i
  PROVE  /\ \A e \in OwnEntries(t, i) : e.txn = t /\ e.op \in {"r", "w"}
         /\ Entry(t, "w", i) \in OwnEntries(t, i)
  BY DEF OwnEntries, Entry

LEMMA UnlinkWriteUnlinks ==
  ASSUME TypeOK, NEW t \in Txns, UnlinkWrite(t)
  PROVE  Unlinks(t, {"r", "w"}) /\ list' \in [Keys -> Seq(EntrySpace)]
  <1>1. PICK i : i = MinOf(LinkedWrites(t))
    OBVIOUS
  <1>2. PICK k : k = write_set[t][i]
    OBVIOUS
  <1>4. PICK D : D = OwnEntries(t, i)
    OBVIOUS
  <1>5. list' = [list EXCEPT ![k] = Only(@, Entries(@) \ D)]
    BY <1>1, <1>2, <1>4 DEF UnlinkWrite
  <1>6. \A e \in D : e.txn = t /\ e.op \in {"r", "w"}
    BY <1>4, OwnEntriesAre
  <1>7. QED
    BY <1>5, <1>6, OnlyUnlinks

LEMMA InstallUnlinks ==
  ASSUME TypeOK, NEW t \in Txns, Install(t)
  PROVE  /\ Unlinks(t, {"r", "w"}) /\ list' \in [Keys -> Seq(EntrySpace)]
         /\ write_set[t][idx[t]] \in Keys =>
              Entry(t, "w", idx[t]) \notin Entries(list'[write_set[t][idx[t]]])
  <1>1. PICK i : i = idx[t]
    OBVIOUS
  <1>2. PICK k : k = write_set[t][i]
    OBVIOUS
  <1>3. PICK R : R = OwnEntries(t, i)
    OBVIOUS
  <1>4. list' = [list EXCEPT ![k] = Only(@, Entries(@) \ R)]
    BY <1>1, <1>2, <1>3 DEF Install
  <1>5. (\A e \in R : e.txn = t /\ e.op \in {"r", "w"}) /\ Entry(t, "w", i) \in R
    BY <1>3, OwnEntriesAre
  <1>6. /\ Unlinks(t, {"r", "w"}) /\ list' \in [Keys -> Seq(EntrySpace)]
        /\ k \in Keys => Entries(list'[k]) \cap R = {}
    BY <1>4, <1>5, OnlyUnlinks
  <1>7. QED
    BY <1>1, <1>2, <1>5, <1>6

-----------------------------------------------------------------------------
(* Types *)

LEMMA ProgramAccess ==
  ASSUME TypeOK, NEW t \in Txns, NEW i \in DOMAIN program[t]
  PROVE  /\ program[t] \in Seq(Accesses) /\ program[t] # <<>> /\ program[t][i] \in Accesses
         /\ program[t][i].key \in Keys /\ program[t][i].op \in {"get", "update", "put"}
  <1>1. program \in [Txns -> Seq(Accesses) \ {<<>>}]
    BY TxnAssumption DEF TypeOK
  <1>2. program[t] \in Seq(Accesses) /\ program[t] # <<>>
    BY <1>1
  <1>3. program[t][i] \in Accesses
    BY <1>2
  <1>4. QED
    BY <1>2, <1>3, TxnAssumption DEF TypeOK, Accesses

\* What an access does, with its decisions.
AccessOf(t, a, occ, piece_end) ==
  /\ a = program[t][at[t]] /\ a \in Accesses /\ at[t] \in DOMAIN program[t]
  /\ occ \in BOOLEAN /\ occ \in policy.occ
  /\ IF a.op = "put" THEN read_set' = read_set
     ELSE read_set' = [read_set EXCEPT ![t] = Append(@, ReadRecord(t, a.key, occ))]
  /\ IF a.op = "get" THEN write_set' = write_set
     ELSE write_set' = [write_set EXCEPT ![t] = Append(@, a.key)]
  /\ pc' = [pc EXCEPT ![t] = NextPc(t, piece_end)]

LEMMA AccessIs ==
  ASSUME TypeOK, ProgramInv, NEW t \in Txns, Access(t)
  PROVE  \E a, occ, piece_end : AccessOf(t, a, occ, piece_end)
  <1>1. at[t] \in DOMAIN program[t]
    <2>1. at[t] \in Nat /\ 1 <= at[t] /\ at[t] <= Len(program[t])
      BY DEF Access, ProgramInv, InProgram, TypeOK, Pieces
    <2>2. program[t] \in Seq(Accesses)
      BY TxnAssumption DEF TypeOK
    <2>3. QED
      BY <2>1, <2>2
  <1>2. program[t][at[t]] \in Accesses
    BY <1>1, ProgramAccess
  <1>3. policy.occ \subseteq BOOLEAN
    BY TxnAssumption DEF TypeOK, PolicySpace
  <1>4. PICK a : a = program[t][at[t]]
    OBVIOUS
  <1>5. PICK occ \in policy.occ, piece_end \in policy.piece_end :
          /\ read_set' = IF a.op = "put" THEN read_set
               ELSE [read_set EXCEPT ![t] = Append(@, ReadRecord(t, a.key, occ))]
          /\ write_set' = IF a.op = "get" THEN write_set
               ELSE [write_set EXCEPT ![t] = Append(@, a.key)]
          /\ pc' = [pc EXCEPT ![t] = NextPc(t, piece_end)]
    BY <1>4 DEF Access
  <1>6. AccessOf(t, a, occ, piece_end)
    BY <1>1, <1>2, <1>3, <1>4, <1>5 DEF AccessOf
  <1>7. QED
    BY <1>6

\* What the installation of a write does.
IsLastWrite(t, i, k) == \A j \in DOMAIN write_set[t] : write_set[t][j] = k => j <= i
InstallOf(t, i, k) ==
  /\ i = idx[t] /\ k = write_set[t][i]
  /\ IF IsLastWrite(t, i, k)
     THEN /\ version' = [version EXCEPT ![k] = commit_tid[t]]
          /\ value' = [value EXCEPT ![k] = [txn |-> t, pos |-> i]]
          /\ last_writer_seq' = [last_writer_seq EXCEPT ![k] = i]
          /\ installed' = [installed EXCEPT ![k] = Append(@, t)]
          /\ lock' = [lock EXCEPT ![k] = NONE]
          /\ write_intent' = [write_intent EXCEPT ![k] = FALSE]
     ELSE UNCHANGED <<version, value, last_writer_seq, installed, lock, write_intent>>
  /\ idx' = [idx EXCEPT ![t] = @ + 1]
  /\ pc' = IF i = Len(write_set[t]) THEN [pc EXCEPT ![t] = "unlink"] ELSE pc
  /\ UNCHANGED <<program, policy, at, state, commit_tid, read_set, write_set, rmw, dep_queue,
                 piece>>

LEMMA InstallIs ==
  ASSUME NEW t \in Txns, Install(t)
  PROVE  pc[t] = "install" /\ \E i, k : InstallOf(t, i, k)
  <1>1. PICK i, k : i = idx[t] /\ k = write_set[t][i]
    OBVIOUS
  <1>2. InstallOf(t, i, k)
    BY <1>1 DEF Install, InstallOf, IsLastWrite
  <1>3. QED
    BY <1>2 DEF Install

\* A step of the validation of a read.
Validates(t) ==
  ValidateRead(t) \/ ValidateVersion(t) \/ ValidateSeq(t) \/ ValidateIntent(t)
Untouched ==
  UNCHANGED <<program, policy, at, state, commit_tid, read_set, write_set, rmw, dep_queue,
              piece, tuple_vars>>

LEMMA ValidatesIs ==
  ASSUME NEW t \in Txns, Validates(t)
  PROVE  /\ pc[t] \in Validating /\ Untouched
         /\ NextRead(t) \/ FailCommit(t) \/ \E next \in Testing : Test(t, next)
  BY DEF Validates, ValidateRead, ValidateVersion, ValidateSeq, ValidateIntent, Validating,
         Testing, Untouched

LEMMA NextPcIs == \A t, b : NextPc(t, b) \in {"expose", "commit", "access"}
  BY DEF NextPc

LEMMA InitTypes == Init => TypeOK
  <1> SUFFICES ASSUME Init PROVE TypeOK
    OBVIOUS
  <1>1. /\ program \in Programs /\ policy \in Policies /\ pc \in [Txns -> Locations]
        /\ at \in [Txns -> Nat] /\ idx \in [Txns -> Nat]
        /\ state \in [Txns -> {"ACTIVE", "FINISH_EXEC", "COMMITED", "ABRT", "REUSED"}]
        /\ commit_tid \in [Txns -> Versions \cup {NONE}]
    BY DEF Init, Locations, Versions
  <1>2. /\ read_set \in [Txns -> Seq(Reads)] /\ write_set \in [Txns -> Seq(Keys)]
        /\ rmw \in [Txns -> SUBSET Nat]
        /\ dep_queue \in [Txns -> [Txns -> {"none", "order", "dirty"}]]
        /\ piece \in [Txns -> Pieces]
    BY DEF Init, Pieces
  <1>3. /\ version \in [Keys -> Versions \cup {NONE}] /\ value \in [Keys -> Sources]
        /\ last_writer_seq \in [Keys -> Nat]
        /\ list \in [Keys -> Seq(EntrySpace)]
        /\ lock \in [Keys -> Txns \cup {NONE}] /\ write_intent \in [Keys -> BOOLEAN]
        /\ installed \in [Keys -> Seq(Versions)]
    BY DEF Init, Versions, Sources
  <1>4. QED
    BY <1>1, <1>2, <1>3 DEF TypeOK

LEMMA DepTypes ==
  ASSUME NEW q \in [Txns -> {"none", "order", "dirty"}], NEW ds, NEW kind \in {"order", "dirty"}
  PROVE  add_dep_txn(q, ds, kind) \in [Txns -> {"none", "order", "dirty"}]
  BY DEF add_dep_txn

LEMMA TypesKept == TypeOK /\ ProgramInv /\ [Next]_vars => TypeOK'
  <1> SUFFICES ASSUME TypeOK, ProgramInv, [Next]_vars PROVE TypeOK'
    OBVIOUS
  <1> USE DEF Locations
  <1>0. CASE UNCHANGED vars
    BY <1>0 DEF TypeOK, vars, txn_vars, tuple_vars
  <1>1. ASSUME NEW t \in Txns, Access(t) PROVE TypeOK'
    <2>1. PICK a, occ, piece_end : AccessOf(t, a, occ, piece_end)
      BY <1>1, AccessIs
    <2>2. a.key \in Keys /\ a.op \in {"get", "update", "put"}
      BY <2>1 DEF AccessOf, Accesses
    <2>3. ReadRecord(t, a.key, occ) \in Reads
      BY <2>1, <2>2, ReadRecordIs DEF AccessOf
    <2>4. read_set' \in [Txns -> Seq(Reads)]
      <3>1. Append(read_set[t], ReadRecord(t, a.key, occ)) \in Seq(Reads)
        BY <2>3 DEF TypeOK
      <3>2. QED
        BY <2>1, <3>1 DEF AccessOf, TypeOK
    <2>5. write_set' \in [Txns -> Seq(Keys)]
      <3>1. Append(write_set[t], a.key) \in Seq(Keys)
        BY <2>2 DEF TypeOK
      <3>2. QED
        BY <2>1, <3>1 DEF AccessOf, TypeOK
    <2>6. pc' \in [Txns -> Locations]
      BY <2>1, NextPcIs DEF AccessOf, TypeOK
    <2>7. at' \in [Txns -> Nat]
      BY <1>1 DEF Access, TypeOK
    <2>8. QED
      BY <1>1, <2>4, <2>5, <2>6, <2>7 DEF Access, TypeOK, tuple_vars
  <1>2. ASSUME NEW t \in Txns, ExposeLock(t) PROVE TypeOK'
    BY <1>2 DEF ExposeLock, TypeOK
  <1>3. ASSUME NEW t \in Txns, Expose(t) PROVE TypeOK'
    <2>1. list' \in [Keys -> Seq(EntrySpace)]
      <3>1. Exposes(t)
        BY <1>3, ExposeExposes
      <3>2. list' = [k \in Keys |-> list'[k]]
        BY <1>3 DEF Expose, ExposeOk, ExposeFails
      <3>3. QED
        BY <3>1, <3>2 DEF Exposes
    <2>2. dep_queue' \in [Txns -> [Txns -> {"none", "order", "dirty"}]]
      <3>1. PICK n, before : dep_queue' = [dep_queue EXCEPT ![t] =
                add_dep_txn(add_dep_txn(dep_queue[t], Running(t, ReadDeps(t, n)), "dirty"),
                            before, "order")]
              \/ dep_queue' = [dep_queue EXCEPT ![t] =
                   add_dep_txn(dep_queue[t], Running(t, ReadDeps(t, n)), "dirty")]
        BY <1>3 DEF Expose, ExposeOk, ExposeFails
      <3>2. PICK q : q = add_dep_txn(dep_queue[t], Running(t, ReadDeps(t, n)), "dirty")
        OBVIOUS
      <3>3. q \in [Txns -> {"none", "order", "dirty"}]
        BY <3>2, DepTypes DEF TypeOK
      <3>4. add_dep_txn(q, before, "order") \in [Txns -> {"none", "order", "dirty"}]
        BY <3>3, DepTypes
      <3>5. PICK e : dep_queue' = [dep_queue EXCEPT ![t] = e]
                     /\ e \in [Txns -> {"none", "order", "dirty"}]
        BY <3>1, <3>2, <3>3, <3>4
      <3>6. QED
        BY <3>5 DEF TypeOK
    <2>3. piece' \in [Txns -> Pieces]
      <3>1. CASE ExposeFails(t)
        BY <3>1 DEF ExposeFails, TypeOK
      <3>2. CASE ExposeOk(t)
        <4>1. PICK D : D \subseteq Txns /\ piece' = [piece EXCEPT ![t] =
                         [reads |-> Len(read_set[t]), writes |-> Len(write_set[t]), at |-> at[t],
                          deps |-> D]]
          BY <3>2 DEF ExposeOk
        <4>2. Len(read_set[t]) \in Nat /\ Len(write_set[t]) \in Nat /\ at[t] \in Nat
          BY DEF TypeOK
        <4>3. QED
          BY <4>1, <4>2 DEF TypeOK, Pieces
      <3>3. QED
        BY <1>3, <3>1, <3>2 DEF Expose
    <2>4. lock' \in [Keys -> Txns \cup {NONE}]
      BY <1>3 DEF Expose, TypeOK
    <2>5. pc' \in [Txns -> Locations]
      <3>1. PICK x \in {"commit", "access", "undo"} : pc' = [pc EXCEPT ![t] = x]
        BY <1>3 DEF Expose, ExposeOk, ExposeFails
      <3>2. QED
        BY <3>1 DEF TypeOK
    <2>6. rmw' \in [Txns -> SUBSET Nat]
      <3>1. piece[t].writes + 1 .. Len(write_set[t]) \subseteq Nat
        BY DEF TypeOK, Pieces
      <3>2. PICK W : W \subseteq Nat /\ (rmw' = rmw \/ rmw' = [rmw EXCEPT ![t] = @ \cup W])
        BY <1>3, <3>1 DEF Expose, ExposeOk, ExposeFails, PieceWrites
      <3>3. rmw \in [Txns -> SUBSET Nat]
        BY DEF TypeOK
      <3>4. PICK V : V = rmw[t] \cup W
        OBVIOUS
      <3>5. V \in SUBSET Nat /\ (rmw' = rmw \/ rmw' = [rmw EXCEPT ![t] = V])
        BY <3>2, <3>3, <3>4
      <3>6. QED
        BY <3>3, <3>5
    <2>7. QED
      BY <1>3, <2>1, <2>2, <2>3, <2>4, <2>5, <2>6 DEF Expose, TypeOK
  <1>4. ASSUME NEW t \in Txns, NEW from, UnlinkRead(t, from), TRUE PROVE TypeOK'
    BY <1>4, UnlinkReadUnlinks DEF UnlinkRead, TypeOK, txn_vars
  <1>5. ASSUME NEW t \in Txns, RetryPiece(t) PROVE TypeOK'
    <2>1. /\ piece[t].reads \in Nat /\ piece[t].writes \in Nat /\ piece[t].at \in Nat
          /\ read_set[t] \in Seq(Reads) /\ write_set[t] \in Seq(Keys)
          /\ piece[t].reads <= Len(read_set[t]) /\ piece[t].writes <= Len(write_set[t])
      BY DEF TypeOK, Pieces, ProgramInv, InProgram
    <2>2. /\ SubSeq(read_set[t], 1, piece[t].reads) \in Seq(Reads)
          /\ SubSeq(write_set[t], 1, piece[t].writes) \in Seq(Keys)
      BY <2>1
    <2>3. /\ read_set' \in [Txns -> Seq(Reads)] /\ write_set' \in [Txns -> Seq(Keys)]
          /\ at' \in [Txns -> Nat]
      BY <1>5, <2>1, <2>2 DEF RetryPiece, TypeOK
    <2>4. dep_queue' \in [Txns -> [Txns -> {"none", "order", "dirty"}]]
      BY <1>5 DEF RetryPiece, TypeOK
    <2>5. pc' \in [Txns -> Locations]
      BY <1>5 DEF RetryPiece, TypeOK
    <2>6. QED
      BY <1>5, <2>3, <2>4, <2>5 DEF RetryPiece, TypeOK, tuple_vars
  <1>6. ASSUME NEW t \in Txns, AbortWaiting(t) \/ UserAbort(t) PROVE TypeOK'
    <2>1. CASE AbortWaiting(t)
      BY <2>1 DEF AbortWaiting, TypeOK, tuple_vars
    <2>2. CASE UserAbort(t)
      BY <2>2 DEF UserAbort, TypeOK, tuple_vars
    <2>3. QED
      BY <1>6, <2>1, <2>2
  <1>7. ASSUME NEW t \in Txns, CommitDeps(t) PROVE TypeOK'
    <2>1. dep_queue' \in [Txns -> [Txns -> {"none", "order", "dirty"}]]
      BY <1>7, DepTypes DEF CommitDeps, TypeOK
    <2>2. QED
      BY <1>7, <2>1 DEF CommitDeps, TypeOK, tuple_vars
  <1>8. ASSUME NEW t \in Txns, WaitDeps(t) PROVE TypeOK'
    BY <1>8 DEF WaitDeps, TypeOK, tuple_vars
  <1>9. ASSUME NEW t \in Txns, LockWriteSet(t) PROVE TypeOK'
    BY <1>9 DEF LockWriteSet, TypeOK
  <1>10. ASSUME NEW t \in Txns, Validates(t) PROVE TypeOK'
    <2>1. NextRead(t) \/ FailCommit(t) \/ \E next \in Testing : Test(t, next)
      BY <1>10, ValidatesIs
    <2>2. pc' \in [Txns -> Locations] /\ idx' \in [Txns -> Nat]
      <3>1. PICK x \in {"validate", "release"} \cup Testing : pc' = [pc EXCEPT ![t] = x]
        BY <2>1 DEF NextRead, FailCommit, Test
      <3>2. idx' = idx \/ idx' = [idx EXCEPT ![t] = @ + 1]
        BY <2>1 DEF NextRead, FailCommit, Test
      <3>3. pc' \in [Txns -> Locations]
        BY <3>1 DEF TypeOK, Testing
      <3>4. idx' \in [Txns -> Nat]
        <4>1. idx \in [Txns -> Nat] /\ idx[t] + 1 \in Nat
          BY DEF TypeOK
        <4>2. QED
          BY <3>2, <4>1
      <3>5. QED
        BY <3>3, <3>4
    <2>3. QED
      BY <1>10, <2>2, ValidatesIs DEF Untouched, TypeOK, tuple_vars
  <1>11. ASSUME NEW t \in Txns, GenCommitTid(t) PROVE TypeOK'
    BY <1>11 DEF GenCommitTid, TypeOK, tuple_vars, Versions
  <1>12. ASSUME NEW t \in Txns, Install(t) PROVE TypeOK'
    <2>1. list' \in [Keys -> Seq(EntrySpace)]
      BY <1>12, InstallUnlinks
    <2>2. PICK i, k : InstallOf(t, i, k)
      BY <1>12, InstallIs
    <2>3. version' \in [Keys -> Versions \cup {NONE}]
      <3>1. commit_tid[t] \in Versions \cup {NONE}
        BY DEF TypeOK
      <3>2. version' = version \/ version' = [version EXCEPT ![k] = commit_tid[t]]
        BY <2>2 DEF InstallOf
      <3>3. QED
        BY <3>1, <3>2 DEF TypeOK
    <2>4. idx' \in [Txns -> Nat] /\ pc' \in [Txns -> Locations] /\ i \in Nat
      <3>1. i \in Nat /\ idx' \in [Txns -> Nat]
        <4>1. idx \in [Txns -> Nat] /\ idx[t] + 1 \in Nat
          BY DEF TypeOK
        <4>2. QED
          BY <2>2, <4>1 DEF InstallOf
      <3>2. pc' = pc \/ pc' = [pc EXCEPT ![t] = "unlink"]
        BY <2>2 DEF InstallOf
      <3>3. QED
        BY <3>1, <3>2 DEF TypeOK
    <2>5. value' \in [Keys -> Sources]
      <3>1. [txn |-> t, pos |-> i] \in Sources
        BY <2>4 DEF Sources, Versions
      <3>2. QED
        BY <2>2, <3>1 DEF InstallOf, TypeOK
    <2>6. installed' \in [Keys -> Seq(Versions)] /\ last_writer_seq' \in [Keys -> Nat]
      <3>1. \A j \in Keys : Append(installed[j], t) \in Seq(Versions)
        BY DEF TypeOK, Versions
      <3>2. installed' = installed \/ installed' = [installed EXCEPT ![k] = Append(@, t)]
        BY <2>2 DEF InstallOf
      <3>3. last_writer_seq' = last_writer_seq \/ last_writer_seq' = [last_writer_seq EXCEPT ![k] = i]
        BY <2>2 DEF InstallOf
      <3>4. installed' \in [Keys -> Seq(Versions)]
        <4>1. installed \in [Keys -> Seq(Versions)]
          BY DEF TypeOK
        <4>2. QED
          BY <3>1, <3>2, <4>1
      <3>5. last_writer_seq' \in [Keys -> Nat]
        BY <2>4, <3>3 DEF TypeOK
      <3>6. QED
        BY <3>4, <3>5
    <2>7. lock' \in [Keys -> Txns \cup {NONE}] /\ write_intent' \in [Keys -> BOOLEAN]
      BY <2>2 DEF InstallOf, TypeOK
    <2>8. QED
      BY <1>12, <2>1, <2>3, <2>4, <2>5, <2>6, <2>7 DEF Install, TypeOK
  <1>13. ASSUME NEW t \in Txns, Commit(t) \/ Abort(t) \/ Reuse(t) PROVE TypeOK'
    BY <1>13 DEF Commit, Abort, Reuse, TypeOK, tuple_vars
  <1>14. ASSUME NEW t \in Txns, ReleaseWriteSet(t) PROVE TypeOK'
    BY <1>14 DEF ReleaseWriteSet, TypeOK
  <1>15. ASSUME NEW t \in Txns, UnlinkWrite(t) PROVE TypeOK'
    BY <1>15, UnlinkWriteUnlinks DEF UnlinkWrite, TypeOK, txn_vars
  <1>16. QED
    BY <1>0, <1>1, <1>2, <1>3, <1>4, <1>5, <1>6, <1>7, <1>8, <1>9, <1>10, <1>11, <1>12, <1>13,
       <1>14,
       <1>15 DEF Next, Step, Validates, UndoExposed, UnlinkReads, UnlinkReadOfAbort, Terminated

-----------------------------------------------------------------------------
(* A transaction in its program *)

LEMMA InitProgram == Init => ProgramInv
  <1> SUFFICES ASSUME Init, NEW t \in Txns
               PROVE  /\ piece[t].at = 1 /\ at[t] = 1 /\ idx[t] = 1 /\ 1 <= Len(program[t])
                      /\ piece[t].reads = 0 /\ piece[t].writes = 0
                      /\ read_set[t] = <<>> /\ write_set[t] = <<>>
    BY DEF ProgramInv, InProgram
  <1>1. program[t] \in Seq(Accesses) /\ program[t] # <<>>
    BY TxnAssumption DEF Init
  <1>2. 1 <= Len(program[t])
    BY <1>1
  <1>3. QED
    BY <1>2 DEF Init

\* A step of t that leaves its accesses and those of its piece alone.
SameAccesses(t) ==
  /\ UNCHANGED <<program, at, piece, read_set, write_set>>
  /\ \A u \in Txns \ {t} : pc'[u] = pc[u] /\ idx'[u] = idx[u]
  /\ pc'[t] \in Undone => pc[t] \in Undone
  /\ pc'[t] = "access" => pc[t] = "access"
  /\ pc'[t] \in Undone \cup {"commit", "waitdeps", "lockws"} =>
       pc[t] \in Undone \cup {"commit", "waitdeps", "lockws"} /\ idx'[t] = idx[t]
  /\ idx'[t] \in {1, idx[t], idx[t] + 1}

LEMMA ProgramKeptBySame ==
  ASSUME TypeOK, ProgramInv, NEW t \in Txns, SameAccesses(t)
  PROVE  ProgramInv'
  <1> SUFFICES ASSUME NEW u \in Txns
               PROVE  /\ 1 <= idx'[u]
                      /\ pc'[u] \in Undone => pc[u] \in Undone
                      /\ pc'[u] = "access" => pc[u] = "access"
                      /\ pc'[u] \in Undone \cup {"commit", "waitdeps", "lockws"} => idx'[u] = 1
    BY DEF ProgramInv, InProgram, SameAccesses
  <1>1. idx[u] \in Nat /\ 1 <= idx[u]
    BY DEF TypeOK, ProgramInv, InProgram
  <1>2. QED
    BY <1>1 DEF ProgramInv, InProgram, SameAccesses

\* All steps but three are like that.
LEMMA OtherStepsAreSame ==
  ASSUME TypeOK, ProgramInv, NEW t \in Txns, Step(t) \/ Reuse(t),
         ~ Access(t), ~ Expose(t), ~ RetryPiece(t)
  PROVE  SameAccesses(t)
  <1> USE DEF Undone
  <1>0. pc \in [Txns -> Locations] /\ idx \in [Txns -> Nat]
    BY DEF TypeOK
  <1>1. CASE ExposeLock(t) \/ UnlinkRead(t, 0) \/ UnlinkRead(t, piece[t].reads)
    BY <1>0, <1>1 DEF SameAccesses, ExposeLock, UnlinkRead, txn_vars
  <1>2. CASE AbortWaiting(t) \/ UserAbort(t) \/ CommitDeps(t) \/ WaitDeps(t) \/ LockWriteSet(t)
    BY <1>0, <1>2 DEF SameAccesses, AbortWaiting, UserAbort, CommitDeps, WaitDeps, LockWriteSet
  <1>3. CASE Validates(t)
    <2>1. /\ pc[t] \in Validating /\ Untouched
          /\ NextRead(t) \/ FailCommit(t) \/ \E next \in Testing : Test(t, next)
      BY <1>3, ValidatesIs
    <2>2. QED
      BY <1>0, <2>1 DEF SameAccesses, Untouched, NextRead, FailCommit, Test, Testing, Validating
  <1>4. CASE GenCommitTid(t) \/ Commit(t) \/ Abort(t) \/ Reuse(t)
    BY <1>0, <1>4 DEF SameAccesses, GenCommitTid, Commit, Abort, Reuse, Ended
  <1>5. CASE Install(t)
    <2>1. PICK i, k : InstallOf(t, i, k)
      BY <1>5, InstallIs
    <2>2. QED
      BY <1>0, <1>5, <2>1, InstallIs DEF SameAccesses, InstallOf
  <1>6. CASE ReleaseWriteSet(t) \/ UnlinkWrite(t)
    BY <1>0, <1>6 DEF SameAccesses, ReleaseWriteSet, UnlinkWrite, txn_vars
  <1>7. QED
    BY <1>1, <1>2, <1>3, <1>4, <1>5, <1>6 DEF Step, Validates, UndoExposed, UnlinkReads,
       UnlinkReadOfAbort

LEMMA ProgramKept == TypeOK /\ ProgramInv /\ [Next]_vars => ProgramInv'
  <1> SUFFICES ASSUME TypeOK, ProgramInv, [Next]_vars PROVE ProgramInv'
    OBVIOUS
  <1> DEFINE Old == Undone \cup {"commit", "waitdeps", "lockws"}
  <1>0. CASE UNCHANGED vars
    BY <1>0 DEF ProgramInv, InProgram, vars, txn_vars, tuple_vars
  <1>1. ASSUME NEW t \in Txns, Access(t) PROVE ProgramInv'
    <2>1. PICK a, occ, piece_end : AccessOf(t, a, occ, piece_end)
      BY <1>1, AccessIs
    <2>2. /\ at[t] \in DOMAIN program[t] /\ a = program[t][at[t]] /\ program[t] \in Seq(Accesses)
          /\ at[t] \in Nat /\ at \in [Txns -> Nat] /\ pc \in [Txns -> Locations]
      BY <2>1, ProgramAccess DEF AccessOf, TypeOK
    <2>3. at' = [at EXCEPT ![t] = @ + 1] /\ UNCHANGED <<program, idx, piece>> /\ pc[t] = "access"
      BY <1>1 DEF Access
    <2>4. \A u \in Txns \ {t} : /\ at'[u] = at[u] /\ pc'[u] = pc[u] /\ read_set'[u] = read_set[u]
                                /\ write_set'[u] = write_set[u]
      <3>1. read_set \in [Txns -> Seq(Reads)] /\ write_set \in [Txns -> Seq(Keys)]
        BY DEF TypeOK
      <3>2. QED
        BY <2>1, <2>2, <2>3, <3>1 DEF AccessOf
    <2>5. at'[t] = at[t] + 1
      BY <2>2, <2>3
    <2>6. read_set'[t] = read_set[t] \/ \E r \in Reads : read_set'[t] = Append(read_set[t], r)
      <3>1. ReadRecord(t, a.key, occ) \in Reads
        BY <2>1, ReadRecordIs DEF AccessOf, Accesses
      <3>2. QED
        BY <2>1, <3>1 DEF AccessOf, TypeOK
    <2>7. \/ write_set'[t] = write_set[t]
          \/ a.op # "get" /\ write_set'[t] = Append(write_set[t], a.key)
      BY <2>1 DEF AccessOf, TypeOK
    <2>8. piece[t].reads <= Len(read_set'[t])
      <3>1. piece[t].reads \in Nat /\ piece[t].reads <= Len(read_set[t]) /\ Len(read_set[t]) \in Nat
        BY DEF TypeOK, Pieces, ProgramInv, InProgram
      <3>2. Len(read_set'[t]) \in {Len(read_set[t]), Len(read_set[t]) + 1}
        BY <2>6 DEF TypeOK
      <3>3. QED
        BY <3>1, <3>2
    <2>9. piece[t].writes <= Len(write_set'[t])
      <3>1. piece[t].writes \in Nat /\ piece[t].writes <= Len(write_set[t]) /\ Len(write_set[t]) \in Nat
        BY DEF TypeOK, Pieces, ProgramInv, InProgram
      <3>2. Len(write_set'[t]) \in {Len(write_set[t]), Len(write_set[t]) + 1}
        BY <2>1, <2>7 DEF TypeOK, AccessOf, Accesses
      <3>3. QED
        BY <3>1, <3>2
    <2>13. pc'[t] = "access" => at'[t] <= Len(program[t])
      <3>1. CASE at[t] = Len(program[t])
        BY <2>1, <2>2, <3>1 DEF AccessOf, NextPc
      <3>2. CASE at[t] # Len(program[t])
        BY <2>2, <2>5, <3>2
      <3>3. QED
        BY <3>1, <3>2
    <2>14. pc'[t] \in {"expose", "commit", "access"}
      BY <2>1, <2>2, NextPcIs DEF AccessOf
    <2>15. SUFFICES ASSUME NEW u \in Txns
                    PROVE InProgram(u)'
      BY DEF ProgramInv
    <2>16. CASE u # t
      BY <2>3, <2>4, <2>16 DEF ProgramInv, InProgram
    <2>17. CASE u = t
      <3>1. /\ 1 <= piece'[t].at /\ piece'[t].at <= at'[t] /\ 1 <= idx'[t]
            /\ pc'[t] \in Undone \cup {"commit", "waitdeps", "lockws"} => idx'[t] = 1
            /\ pc'[t] \in Undone => piece'[t].at <= Len(program'[t])
            /\ pc'[t] = "access" => at'[t] <= Len(program'[t])
        <4>1. piece[t].at \in Nat /\ piece[t].at <= at[t] /\ 1 <= piece[t].at /\ 1 <= idx[t] /\ idx[t] = 1
              /\ piece[t].at <= Len(program[t])
          BY <2>3 DEF TypeOK, Pieces, ProgramInv, InProgram, Undone
        <4>2. QED
          BY <2>2, <2>3, <2>5, <2>13, <4>1
      <3>4. QED
        BY <2>3, <2>8, <2>9, <2>17, <3>1 DEF InProgram
    <2>18. QED
      BY <2>16, <2>17
  <1>2. ASSUME NEW t \in Txns, Expose(t) PROVE ProgramInv'
    <2>1. UNCHANGED <<program, at, idx, read_set, write_set>> /\ pc[t] = "exposing"
      BY <1>2 DEF Expose
    <2>2. \A u \in Txns \ {t} : pc'[u] = pc[u] /\ piece'[u] = piece[u]
      BY <1>2 DEF Expose, ExposeOk, ExposeFails, TypeOK
    <2>3. \/ pc'[t] = "undo" /\ piece'[t] = piece[t]
          \/ /\ pc'[t] = IF at[t] > Len(program[t]) THEN "commit" ELSE "access"
             /\ piece'[t].reads = Len(read_set[t]) /\ piece'[t].writes = Len(write_set[t])
             /\ piece'[t].at = at[t]
      BY <1>2 DEF Expose, ExposeOk, ExposeFails, TypeOK
    <2>4. SUFFICES ASSUME NEW u \in Txns
                   PROVE InProgram(u)'
      BY DEF ProgramInv
    <2>5. CASE u # t
      BY <2>1, <2>2, <2>5 DEF ProgramInv, InProgram
    <2>6. CASE u = t
      <3>1. /\ at[t] \in Nat /\ Len(read_set[t]) \in Nat /\ Len(write_set[t]) \in Nat
            /\ 1 <= piece[t].at /\ piece[t].at <= at[t] /\ idx[t] = 1 /\ piece[t].at \in Nat
            /\ Len(program[t]) \in Nat
        <4>1. program[t] \in Seq(Accesses)
          BY TxnAssumption DEF TypeOK
        <4>2. at[t] \in Nat /\ read_set[t] \in Seq(Reads) /\ write_set[t] \in Seq(Keys) /\ piece[t].at \in Nat
          BY DEF TypeOK, Pieces
        <4>3. 1 <= piece[t].at /\ piece[t].at <= at[t] /\ idx[t] = 1
          BY <2>1 DEF ProgramInv, InProgram, Undone
        <4>4. QED
          BY <4>1, <4>2, <4>3
      <3>2. CASE pc'[t] = "undo" /\ piece'[t] = piece[t]
        <4>1. /\ pc[t] \in Undone /\ pc'[t] \in Undone /\ pc'[t] # "access"
              /\ InProgram(t)
          BY <2>1, <3>2 DEF ProgramInv, Undone
        <4>3. QED
          BY ONLY <2>1, <2>6, <3>2, <4>1 DEF InProgram
      <3>3. CASE /\ pc'[t] = IF at[t] > Len(program[t]) THEN "commit" ELSE "access"
                 /\ piece'[t].reads = Len(read_set[t]) /\ piece'[t].writes = Len(write_set[t])
                 /\ piece'[t].at = at[t]
        <4>1. pc'[t] = "access" => at[t] <= Len(program[t])
          BY <3>1, <3>3
        <4>2. 1 <= at[t] /\ at[t] <= at[t] /\ Len(read_set[t]) <= Len(read_set[t])
              /\ Len(write_set[t]) <= Len(write_set[t]) /\ pc'[t] \in {"commit", "access"}
          BY <3>1, <3>3
        <4>3. QED
          BY <2>1, <2>6, <3>1, <3>3, <4>1, <4>2 DEF InProgram, Undone
      <3>4. QED
        BY <2>3, <3>2, <3>3
    <2>7. QED
      BY <2>5, <2>6
  <1>3. ASSUME NEW t \in Txns, RetryPiece(t) PROVE ProgramInv'
    <2>1. UNCHANGED <<program, idx, piece>> /\ pc[t] = "undo" /\ pc'[t] = "access"
          /\ at'[t] = piece[t].at
      BY <1>3 DEF RetryPiece, TypeOK
    <2>2. \A u \in Txns \ {t} : /\ pc'[u] = pc[u] /\ at'[u] = at[u] /\ read_set'[u] = read_set[u]
                                /\ write_set'[u] = write_set[u]
      BY <1>3 DEF RetryPiece, TypeOK
    <2>3. /\ piece[t].at \in Nat /\ piece[t].reads \in Nat /\ piece[t].writes \in Nat
          /\ 1 <= piece[t].at /\ piece[t].at <= Len(program[t]) /\ idx[t] = 1
          /\ piece[t].reads <= Len(read_set[t]) /\ piece[t].writes <= Len(write_set[t])
          /\ read_set[t] \in Seq(Reads) /\ write_set[t] \in Seq(Keys)
      BY <2>1 DEF TypeOK, Pieces, ProgramInv, InProgram, Undone
    <2>4. /\ read_set'[t] = SubSeq(read_set[t], 1, piece[t].reads)
          /\ write_set'[t] = SubSeq(write_set[t], 1, piece[t].writes)
      BY <1>3 DEF RetryPiece, TypeOK
    <2>5. /\ Len(read_set'[t]) = piece[t].reads /\ Len(write_set'[t]) = piece[t].writes
      <3>1. Len(read_set[t]) \in Nat /\ Len(write_set[t]) \in Nat
        BY <2>3
      <3>2. Len(read_set'[t]) = piece[t].reads
        BY <2>3, <2>4, <3>1
      <3>3. Len(write_set'[t]) = piece[t].writes
        BY <2>3, <2>4, <3>1
      <3>4. QED
        BY <3>2, <3>3
    <2>6. SUFFICES ASSUME NEW u \in Txns
                   PROVE InProgram(u)'
      BY DEF ProgramInv
    <2>7. CASE u # t
      BY <2>1, <2>2, <2>7 DEF ProgramInv, InProgram
    <2>8. CASE u = t
      <3>3. /\ 1 <= piece'[t].at /\ piece'[t].at <= at'[t] /\ 1 <= idx'[t] /\ idx'[t] = 1
            /\ piece'[t].at <= Len(program'[t]) /\ at'[t] <= Len(program'[t])
            /\ piece'[t].reads <= Len(read_set'[t]) /\ piece'[t].writes <= Len(write_set'[t])
        BY <2>1, <2>3, <2>5
      <3>4. QED
        BY <2>8, <3>3 DEF InProgram
    <2>9. QED
      BY <2>7, <2>8
  <1>4. ASSUME NEW t \in Txns, Step(t) \/ Reuse(t), ~ Access(t), ~ Expose(t), ~ RetryPiece(t)
        PROVE  ProgramInv'
    BY <1>4, OtherStepsAreSame, ProgramKeptBySame
  <1>5. QED
    BY <1>0, <1>1, <1>2, <1>3, <1>4 DEF Next, Terminated

-----------------------------------------------------------------------------
(* Access lists *)

\* A step of t is a step of t alone, what it has exposed it does not take back,
\* and it forgets reads only when it retries a piece.
StepOf(t) ==
  /\ \A u \in Txns \ {t} :
       /\ pc'[u] = pc[u] /\ idx'[u] = idx[u] /\ at'[u] = at[u] /\ piece'[u] = piece[u]
       /\ read_set'[u] = read_set[u] /\ write_set'[u] = write_set[u]
       /\ state'[u] = state[u] /\ commit_tid'[u] = commit_tid[u]
  /\ pc[t] \notin {"access", "undo"} => read_set'[t] = read_set[t] /\ write_set'[t] = write_set[t]
  /\ piece[t].writes <= piece'[t].writes
  /\ \A i \in DOMAIN write_set[t] : i <= piece[t].writes =>
       i \in DOMAIN write_set'[t] /\ write_set'[t][i] = write_set[t][i]
  /\ \A i \in DOMAIN read_set[t] : i <= piece[t].reads \/ ~ RetryPiece(t) =>
       i \in DOMAIN read_set'[t] /\ read_set'[t][i] = read_set[t][i]

LEMMA AppendKeeps ==
  ASSUME NEW X, NEW s \in Seq(X), NEW x \in X
  PROVE  \A i \in DOMAIN s : i \in DOMAIN Append(s, x) /\ Append(s, x)[i] = s[i]
  OBVIOUS

LEMMA StepsAreOf ==
  ASSUME TypeOK, ProgramInv, NEW t \in Txns, Step(t) \/ Reuse(t)
  PROVE  StepOf(t)
  <1>0. /\ pc \in [Txns -> Locations] /\ idx \in [Txns -> Nat] /\ at \in [Txns -> Nat]
        /\ piece \in [Txns -> Pieces] /\ piece[t].writes \in Nat /\ piece[t].reads \in Nat
        /\ state = [u \in Txns |-> state[u]] /\ commit_tid = [u \in Txns |-> commit_tid[u]]
        /\ read_set \in [Txns -> Seq(Reads)] /\ write_set \in [Txns -> Seq(Keys)]
        /\ piece[t].reads <= Len(read_set[t]) /\ piece[t].writes <= Len(write_set[t])
    BY DEF TypeOK, Pieces, ProgramInv, InProgram
  <1>1. CASE Access(t)
    <2>1. PICK a, occ, piece_end : AccessOf(t, a, occ, piece_end)
      BY <1>1, AccessIs
    <2>2. ReadRecord(t, a.key, occ) \in Reads /\ a.key \in Keys
      BY <2>1, ReadRecordIs DEF AccessOf, Accesses
    <2>3. /\ \A u \in Txns \ {t} : pc'[u] = pc[u] /\ read_set'[u] = read_set[u]
                                   /\ write_set'[u] = write_set[u]
          /\ read_set'[t] = read_set[t] \/ read_set'[t] = Append(read_set[t], ReadRecord(t, a.key,
                      occ))
          /\ write_set'[t] = write_set[t] \/ write_set'[t] = Append(write_set[t], a.key)
      BY <1>0, <2>1 DEF AccessOf
    <2>4. \A i \in DOMAIN read_set[t] : i \in DOMAIN read_set'[t] /\ read_set'[t][i] = read_set[t][i]
      <3>1. PICK r \in Reads : read_set'[t] = read_set[t] \/ read_set'[t] = Append(read_set[t], r)
        BY <2>2, <2>3
      <3>2. read_set[t] \in Seq(Reads)
        BY <1>0
      <3>3. QED
        BY <3>1, <3>2, AppendKeeps
    <2>5. \A i \in DOMAIN write_set[t] : i \in DOMAIN write_set'[t] /\ write_set'[t][i] = write_set[t][i]
      <3>1. PICK k \in Keys : write_set'[t] = write_set[t] \/ write_set'[t] = Append(write_set[t],
      k)
        BY <2>2, <2>3
      <3>2. write_set[t] \in Seq(Keys)
        BY <1>0
      <3>3. QED
        BY <3>1, <3>2, AppendKeeps
    <2>6. /\ \A u \in Txns \ {t} : at'[u] = at[u]
          /\ UNCHANGED <<idx, piece, state, commit_tid>> /\ pc[t] = "access"
      BY <1>0, <1>1 DEF Access
    <2>7. QED
      BY <1>0, <2>3, <2>4, <2>5, <2>6 DEF StepOf
  <1>2. CASE Expose(t)
    <2>1. UNCHANGED <<at, idx, state, commit_tid, read_set, write_set>>
      BY <1>2 DEF Expose
    <2>2. \A u \in Txns \ {t} : pc'[u] = pc[u] /\ piece'[u] = piece[u]
      BY <1>0, <1>2 DEF Expose, ExposeOk, ExposeFails
    <2>3. piece'[t] = piece[t] \/ piece'[t].writes = Len(write_set[t])
      BY <1>2 DEF Expose, ExposeOk, ExposeFails, TypeOK
    <2>4. piece[t].writes <= piece'[t].writes
      BY <1>0, <2>3
    <2>5. QED
      BY <2>1, <2>2, <2>4 DEF StepOf
  <1>3. CASE RetryPiece(t)
    <2>1. /\ \A u \in Txns \ {t} : pc'[u] = pc[u] /\ at'[u] = at[u] /\ read_set'[u] = read_set[u]
                                   /\ write_set'[u] = write_set[u]
          /\ read_set'[t] = SubSeq(read_set[t], 1, piece[t].reads)
          /\ write_set'[t] = SubSeq(write_set[t], 1, piece[t].writes)
          /\ UNCHANGED <<idx, piece, state, commit_tid>> /\ pc[t] = "undo"
      BY <1>0, <1>3 DEF RetryPiece
    <2>2. \A i \in DOMAIN read_set[t] : i <= piece[t].reads =>
            i \in DOMAIN read_set'[t] /\ read_set'[t][i] = read_set[t][i]
      BY <1>0, <2>1
    <2>3. \A i \in DOMAIN write_set[t] : i <= piece[t].writes =>
            i \in DOMAIN write_set'[t] /\ write_set'[t][i] = write_set[t][i]
      BY <1>0, <2>1
    <2>4. QED
      BY <1>0, <1>3, <2>1, <2>2, <2>3 DEF StepOf
  <1>4. CASE ~ Access(t) /\ ~ Expose(t) /\ ~ RetryPiece(t)
    <2>1. SameAccesses(t)
      BY <1>4, OtherStepsAreSame
    <2>2. \A u \in Txns \ {t} : state'[u] = state[u] /\ commit_tid'[u] = commit_tid[u]
      BY <1>0, <1>4 DEF Step, Reuse, ExposeLock, UndoExposed, UnlinkRead, AbortWaiting, UserAbort,
           CommitDeps, WaitDeps, LockWriteSet, ValidateRead, ValidateVersion, ValidateSeq,
           ValidateIntent, GenCommitTid, Install,
           UnlinkReads, Commit, ReleaseWriteSet, UnlinkWrite, UnlinkReadOfAbort, Abort, txn_vars
    <2>3. QED
      BY <1>0, <2>1, <2>2 DEF SameAccesses, StepOf
  <1>5. QED
    BY <1>1, <1>2, <1>3, <1>4

\* Lists gain entries of what t exposes, and lose entries of t: writes only when
\* it installs or aborts.
ListStep(t) ==
  \A k \in Keys :
    /\ \A e \in Entries(list'[k]) \ Entries(list[k]) :
         /\ Expose(t) /\ e \in EntrySpace /\ e.txn = t
         /\ e.op = "w" => /\ e.pos \in DOMAIN write_set[t] /\ write_set[t][e.pos] = k
                          /\ piece'[t].writes = Len(write_set[t])
         /\ e.op = "r" => e.pos \in DOMAIN read_set[t] /\ read_set[t][e.pos].key = k
    /\ \A e \in Entries(list[k]) \ Entries(list'[k]) :
         e.txn = t /\ (e.op = "r" \/ pc[t] \in {"install", "unlink_abort"})

LEMMA ListSteps ==
  ASSUME TypeOK, NEW t \in Txns, Step(t) \/ Reuse(t)
  PROVE  ListStep(t)
  <1>1. CASE Expose(t)
    BY <1>1, ExposeExposes DEF Exposes, ListStep
  <1>2. CASE \E from : UnlinkRead(t, from)
    BY <1>2, UnlinkReadUnlinks DEF Unlinks, ListStep
  <1>3. CASE Install(t)
    <2>1. Unlinks(t, {"r", "w"}) /\ pc[t] = "install"
      BY <1>3, InstallUnlinks, InstallIs
    <2>2. \A k \in Keys : Entries(list'[k]) \subseteq Entries(list[k])
      BY <2>1 DEF Unlinks
    <2>3. \A k \in Keys : \A e \in Entries(list[k]) \ Entries(list'[k]) : e.txn = t
      BY <2>1 DEF Unlinks
    <2>4. QED
      BY <2>1, <2>2, <2>3 DEF ListStep
  <1>4. CASE UnlinkWrite(t)
    <2>1. Unlinks(t, {"r", "w"}) /\ pc[t] = "unlink_abort"
      BY <1>4, UnlinkWriteUnlinks DEF UnlinkWrite
    <2>2. \A k \in Keys : Entries(list'[k]) \subseteq Entries(list[k])
      BY <2>1 DEF Unlinks
    <2>3. \A k \in Keys : \A e \in Entries(list[k]) \ Entries(list'[k]) : e.txn = t
      BY <2>1 DEF Unlinks
    <2>4. QED
      BY <2>1, <2>2, <2>3 DEF ListStep
  <1>5. CASE /\ ~ Expose(t) /\ ~ Install(t) /\ ~ UnlinkWrite(t) /\ ~ \E from : UnlinkRead(t, from)
    <2>1. UNCHANGED list
      BY <1>5 DEF Step, Reuse, Access, ExposeLock, UndoExposed, RetryPiece, AbortWaiting, UserAbort,
           CommitDeps, WaitDeps, LockWriteSet, ValidateRead, ValidateVersion, ValidateSeq,
           ValidateIntent, GenCommitTid,
           UnlinkReads, Commit, ReleaseWriteSet, UnlinkReadOfAbort, Abort, tuple_vars
    <2>2. QED
      BY <2>1 DEF ListStep
  <1>6. QED
    BY <1>1, <1>2, <1>3, <1>4, <1>5

LEMMA EntryTypes ==
  ASSUME TypeOK, NEW k \in Keys, NEW e \in Entries(list[k])
  PROVE  e \in EntrySpace /\ e.txn \in Txns /\ e.op \in {"r", "w"} /\ e.pos \in Nat
  <1>1. list[k] \in Seq(EntrySpace)
    BY DEF TypeOK
  <1>2. e \in EntrySpace
    BY <1>1 DEF Entries
  <1>3. QED
    BY <1>2 DEF EntrySpace

\* The latest write of a list stays that until t exposes writes, installs or aborts.
LEMMA DependentKept ==
  ASSUME TypeOK, NEW t \in Txns, Step(t) \/ Reuse(t), pc[t] \notin {"install", "unlink_abort"},
         NEW k \in Keys, NEW e \in get_dependent_entry(list'[k])
  PROVE  e \in get_dependent_entry(list[k]) \/ (e.txn = t /\ Expose(t) /\ ExposeOk(t))
  <1>0. /\ list \in [Keys -> Seq(EntrySpace)] /\ list[k] \in Seq(EntrySpace)
        /\ read_set[t] \in Seq(Reads) /\ piece[t].reads \in Nat
    BY DEF TypeOK, Pieces
  <1>1. CASE Expose(t) /\ ExposeOk(t)
    <2>1. PICK a, b, u : /\ a = ReadEntries(t, k, Len(read_set[t])) /\ b = WriteEntries(t, k)
                         /\ u = list[k] \o a
      OBVIOUS
    <2>2. Len(read_set[t]) \in 0 .. Len(read_set[t])
      BY <1>0
    <2>3. /\ a \in Seq(EntrySpace) /\ \A x \in Entries(a) : x.txn = t
          /\ b \in Seq(EntrySpace) /\ \A x \in Entries(b) : x.txn = t
      BY <2>1, <2>2, ReadEntriesAre, WriteEntriesAre
    <2>4. u \in Seq(EntrySpace)
      BY <1>0, <2>1, <2>3
    <2>5. get_dependent_entry(u) \subseteq
            get_dependent_entry(list[k]) \cup {x \in Entries(a) : x.op = "w"}
      BY <1>0, <2>1, <2>3, DependentOfConcat
    <2>6. get_dependent_entry(u \o b) \subseteq
            get_dependent_entry(u) \cup {x \in Entries(b) : x.op = "w"}
      BY <2>3, <2>4, DependentOfConcat
    <2>7. list'[k] = u \o b
      BY <1>1, <2>1 DEF ExposeOk
    <2>8. QED
      BY <1>1, <2>3, <2>5, <2>6, <2>7
  <1>2. CASE Expose(t) /\ ExposeFails(t)
    <2>1. PICK F : F = {i \in PieceReads(t) : ~ EarlyValid(t, read_set[t][i])}
      OBVIOUS
    <2>2. F # {} /\ list' = [j \in Keys |-> list[j] \o ReadEntries(t, j, MinOf(F) - 1)]
      BY <1>2, <2>1 DEF ExposeFails
    <2>3. F \subseteq 1 .. Len(read_set[t])
      BY <1>0, <2>1 DEF PieceReads
    <2>4. F \subseteq Nat
      BY <2>3
    <2>5. MinOf(F) \in F
      BY <2>2, <2>4, MinOfIsIn
    <2>6. PICK x \in 1 .. Len(read_set[t]) : x = MinOf(F)
      BY <2>3, <2>5
    <2>7. x - 1 \in 0 .. Len(read_set[t])
      BY <1>0, <2>6
    <2>8. PICK a : a = ReadEntries(t, k, x - 1)
      OBVIOUS
    <2>9. a \in Seq(EntrySpace) /\ \A y \in Entries(a) : y.op = "r"
      BY <2>7, <2>8, ReadEntriesAre
    <2>10. get_dependent_entry(list[k] \o a) \subseteq
             get_dependent_entry(list[k]) \cup {y \in Entries(a) : y.op = "w"}
      BY <1>0, <2>9, DependentOfConcat
    <2>11. list'[k] = list[k] \o a
      BY <2>2, <2>6, <2>8
    <2>12. QED
      BY <2>9, <2>10, <2>11
  <1>3. CASE \E from : UnlinkRead(t, from)
    <2>1. PICK from : UnlinkRead(t, from)
      BY <1>3
    <2>2. PICK i, j : i = MinOf(LinkedReads(t, from)) /\ j = read_set[t][i].key
      OBVIOUS
    <2>3. list' = [list EXCEPT ![j] = Only(@, Entries(@) \ {Entry(t, "r", i)})]
      BY <2>1, <2>2 DEF UnlinkRead, unlink_entry
    <2>4. CASE j # k
      BY <1>0, <2>3, <2>4
    <2>5. CASE j = k
      <3>1. PICK S : S = Entries(list[k]) \ {Entry(t, "r", i)}
        OBVIOUS
      <3>2. list'[k] = Only(list[k], S)
        BY <1>0, <2>3, <2>5, <3>1
      <3>3. \A y \in Entries(list[k]) : y.op = "w" => y \in S
        BY <3>1 DEF Entry
      <3>4. get_dependent_entry(Only(list[k], S)) = get_dependent_entry(list[k])
        BY <1>0, <3>3, DependentOfOnly
      <3>5. QED
        BY <3>2, <3>4
    <2>6. QED
      BY <2>4, <2>5
  <1>4. CASE ~ Expose(t) /\ ~ \E from : UnlinkRead(t, from)
    <2>1. UNCHANGED list
      BY <1>4 DEF Step, Reuse, Access, ExposeLock, UndoExposed, RetryPiece, AbortWaiting, UserAbort,
           CommitDeps, WaitDeps, LockWriteSet, ValidateRead, ValidateVersion, ValidateSeq,
           ValidateIntent, GenCommitTid, Install, UnlinkReads, Commit, ReleaseWriteSet, UnlinkWrite,
           UnlinkReadOfAbort, Abort, tuple_vars
    <2>2. QED
      BY <2>1
  <1>5. QED
    BY <1>1, <1>2, <1>3, <1>4 DEF Expose

LEMMA ListKept ==
  ASSUME TypeOK, ProgramInv, ListInv, NEW t \in Txns, Step(t) \/ Reuse(t)
  PROVE  ListInv'
  <1> SUFFICES ASSUME NEW k \in Keys, NEW e \in Entries(list'[k])
               PROVE  EntryIsOf(e, k)'
    BY DEF ListInv
  <1>1. StepOf(t) /\ ListStep(t)
    BY StepsAreOf, ListSteps
  <1>2. CASE e \in Entries(list[k])
    <2>1. e.txn \in Txns /\ e.op \in {"r", "w"} /\ e.pos \in Nat /\ EntryIsOf(e, k)
      BY <1>2, EntryTypes DEF ListInv
    <2>2. CASE e.txn # t
      BY <1>1, <2>1, <2>2 DEF StepOf, EntryIsOf
    <2>3. CASE e.txn = t /\ e.op = "w"
      <3>1. piece[t].writes \in Nat /\ piece'[t].writes \in Nat
        BY TypesKept DEF TypeOK, Pieces, Next
      <3>2. e.pos <= piece'[t].writes
        BY <1>1, <2>1, <2>3, <3>1 DEF StepOf, EntryIsOf
      <3>3. QED
        BY <1>1, <2>1, <2>3, <3>2 DEF StepOf, EntryIsOf
    <2>4. CASE e.txn = t /\ e.op = "r"
      <3>1. e.pos <= piece[t].reads \/ ~ RetryPiece(t)
        <4>1. SUFFICES ASSUME RetryPiece(t) PROVE e.pos <= piece[t].reads
          OBVIOUS
        <4>2. LinkedReads(t, piece[t].reads) = {} /\ piece[t].reads \in Nat
          BY <4>1 DEF RetryPiece, TypeOK, Pieces
        <4>3. e = Entry(t, "r", e.pos)
          BY <1>2, <2>4, EntryTypes DEF Entry, EntrySpace
        <4>4. ~ (e.pos > piece[t].reads)
          BY <1>2, <2>1, <2>4, <4>2, <4>3 DEF LinkedReads, EntryIsOf
        <4>5. QED
          BY <2>1, <4>2, <4>4
      <3>2. QED
        BY <1>1, <2>1, <2>4, <3>1 DEF StepOf, EntryIsOf
    <2>5. QED
      BY <2>1, <2>2, <2>3, <2>4
  <1>3. CASE e \notin Entries(list[k])
    <2>1. /\ Expose(t) /\ e \in EntrySpace /\ e.txn = t
          /\ e.op = "w" => /\ e.pos \in DOMAIN write_set[t] /\ write_set[t][e.pos] = k
                           /\ piece'[t].writes = Len(write_set[t])
          /\ e.op = "r" => e.pos \in DOMAIN read_set[t] /\ read_set[t][e.pos].key = k
      BY <1>1, <1>3 DEF ListStep
    <2>2. UNCHANGED <<read_set, write_set>> /\ e.op \in {"r", "w"}
      BY <2>1 DEF Expose, EntrySpace
    <2>3. e.op = "w" => e.pos <= piece'[t].writes
      <3>1. write_set[t] \in Seq(Keys)
        BY DEF TypeOK
      <3>2. QED
        BY <2>1, <3>1
    <2>4. QED
      BY <2>1, <2>2, <2>3 DEF EntryIsOf
  <1>4. QED
    BY <1>2, <1>3

-----------------------------------------------------------------------------
(* Where a step takes its transaction *)

LEMMA PcOfAccess ==
  ASSUME TypeOK, ProgramInv, NEW t \in Txns,
         Access(t) \/ ExposeLock(t) \/ Expose(t) \/ RetryPiece(t)
  PROVE  pc'[t] \in Undone \cup {"commit"} /\ pc[t] \in Undone
  <1>0. pc \in [Txns -> Locations]
    BY DEF TypeOK
  <1>1. CASE Access(t)
    <2>1. PICK a, occ, piece_end : AccessOf(t, a, occ, piece_end)
      BY <1>1, AccessIs
    <2>2. pc[t] = "access"
      BY <1>1 DEF Access
    <2>3. QED
      BY <1>0, <2>1, <2>2, NextPcIs DEF AccessOf, Undone
  <1>2. CASE ExposeLock(t)
    BY <1>0, <1>2 DEF ExposeLock, Undone
  <1>3. CASE Expose(t)
    BY <1>0, <1>3 DEF Expose, ExposeOk, ExposeFails, Undone
  <1>4. CASE RetryPiece(t)
    BY <1>0, <1>4 DEF RetryPiece, Undone
  <1>5. QED
    BY <1>1, <1>2, <1>3, <1>4

LEMMA PcOfUnlink ==
  ASSUME NEW t \in Txns,
         UndoExposed(t) \/ UnlinkReads(t) \/ UnlinkWrite(t) \/ UnlinkReadOfAbort(t)
  PROVE  UNCHANGED txn_vars /\ pc[t] \in {"undo", "unlink", "unlink_abort"}
         /\ (pc[t] = "unlink" => UnlinkReads(t))
  BY DEF UndoExposed, UnlinkReads, UnlinkWrite, UnlinkReadOfAbort, UnlinkRead

LEMMA PcOfCommit ==
  ASSUME TypeOK, NEW t \in Txns,
         CommitDeps(t) \/ WaitDeps(t) \/ LockWriteSet(t) \/ AbortWaiting(t) \/ UserAbort(t)
  PROVE  /\ pc[t] \in {"access", "expose", "commit", "waitdeps", "lockws"}
         /\ pc'[t] \in {"waitdeps", "lockws", "validate", "unlink_abort"}
         /\ pc'[t] = "validate" => (WaitDeps(t) /\ WriteKeys(t) = {}) \/ LockWriteSet(t)
         /\ pc'[t] = "lockws" => (WaitDeps(t) /\ WriteKeys(t) # {}) \/ LockWriteSet(t)
         /\ pc'[t] = "unlink_abort" => pc[t] \in {"access", "expose", "waitdeps"}
  <1>0. pc \in [Txns -> Locations]
    BY DEF TypeOK
  <1>1. CASE CommitDeps(t) \/ WaitDeps(t) \/ LockWriteSet(t) \/ UserAbort(t)
    BY <1>0, <1>1 DEF CommitDeps, WaitDeps, LockWriteSet, UserAbort
  <1>2. CASE AbortWaiting(t)
    <2>1. pc'[t] = "unlink_abort"
      BY <1>0, <1>2 DEF AbortWaiting
    <2>2. Targets(t) # {}
      BY <1>2 DEF AbortWaiting, Timeout, Cascade
    <2>3. pc[t] \in {"access", "expose", "waitdeps"}
      BY <2>2 DEF Targets
    <2>4. QED
      BY <2>1, <2>3
  <1>3. QED
    BY <1>1, <1>2

LEMMA PcOfValidate ==
  ASSUME TypeOK, NEW t \in Txns, Validates(t)
  PROVE  /\ pc[t] \in Validating /\ pc'[t] \in {"validate", "release"} \cup Testing
         /\ NextRead(t) \/ FailCommit(t) \/ \E next \in Testing : Test(t, next)
         /\ pc'[t] = "validate" => NextRead(t)
         /\ pc'[t] = "version" => ValidateRead(t)
         /\ pc'[t] = "seq" => ValidateVersion(t)
         /\ pc'[t] = "intent" => ValidateSeq(t)
  <1>0. pc \in [Txns -> Locations]
    BY DEF TypeOK
  <1>1. pc[t] \in Validating /\ (NextRead(t) \/ FailCommit(t) \/ \E next \in Testing : Test(t,
  next))
    BY ValidatesIs
  <1>2. /\ Test(t, "version") => ValidateRead(t)
        /\ Test(t, "seq") => ValidateVersion(t)
        /\ Test(t, "intent") => ValidateSeq(t)
    BY <1>0 DEF Validates, ValidateRead, ValidateVersion, ValidateSeq, ValidateIntent, Test,
       NextRead,
         FailCommit
  <1>3. CASE NextRead(t) \/ FailCommit(t)
    BY <1>0, <1>1, <1>3 DEF NextRead, FailCommit
  <1>4. CASE \E next \in Testing : Test(t, next)
    BY <1>0, <1>1, <1>2, <1>4 DEF Test, Testing
  <1>5. QED
    BY <1>1, <1>3, <1>4

LEMMA PcOfEnd ==
  ASSUME TypeOK, NEW t \in Txns,
         GenCommitTid(t) \/ Install(t) \/ Commit(t) \/ ReleaseWriteSet(t) \/ Abort(t) \/ Reuse(t)
  PROVE  /\ pc[t] \in {"validate", "install", "unlink", "release", "unlink_abort"} \cup Ended
         /\ pc'[t] \in {"install", "unlink", "release", "unlink_abort"} \cup Ended
         /\ pc'[t] = "install" => (GenCommitTid(t) /\ WriteKeys(t) # {}) \/ Install(t)
         /\ pc'[t] = "unlink" => (GenCommitTid(t) /\ WriteKeys(t) = {}) \/ Install(t)
         /\ pc'[t] \in {"release", "unlink_abort"} => ReleaseWriteSet(t)
         /\ pc'[t] \in Ended => Commit(t) \/ Abort(t) \/ (Reuse(t) /\ pc'[t] = pc[t])
         /\ pc'[t] = "committed" => Commit(t) \/ (Reuse(t) /\ pc[t] = "committed")
  <1>0. pc \in [Txns -> Locations]
    BY DEF TypeOK
  <1>1. CASE Install(t)
    <2>1. PICK i, k : InstallOf(t, i, k)
      BY <1>1, InstallIs
    <2>2. pc[t] = "install" /\ pc'[t] \in {"install", "unlink"}
      BY <1>0, <1>1, <2>1, InstallIs DEF InstallOf
    <2>3. QED
      BY <1>1, <2>2 DEF Ended
  <1>2. CASE GenCommitTid(t) \/ Commit(t) \/ ReleaseWriteSet(t) \/ Abort(t) \/ Reuse(t)
    BY <1>0, <1>2 DEF GenCommitTid, Commit, ReleaseWriteSet, Abort, Reuse, Ended
  <1>3. QED
    BY <1>1, <1>2

LEMMA Moves ==
  ASSUME TypeOK, ProgramInv, NEW t \in Txns, Step(t) \/ Reuse(t)
  PROVE  /\ pc'[t] = "lockws" => (WaitDeps(t) /\ WriteKeys(t) # {}) \/ LockWriteSet(t)
         /\ pc'[t] = "validate" =>
              (WaitDeps(t) /\ WriteKeys(t) = {}) \/ LockWriteSet(t) \/ Validates(t)
         /\ pc'[t] = "version" => ValidateRead(t)
         /\ pc'[t] = "seq" => ValidateVersion(t)
         /\ pc'[t] = "intent" => ValidateSeq(t)
         /\ pc'[t] = "install" => (GenCommitTid(t) /\ WriteKeys(t) # {}) \/ Install(t)
         /\ pc'[t] = "unlink" => (GenCommitTid(t) /\ WriteKeys(t) = {}) \/ Install(t) \/ UnlinkReads(t)
         /\ pc'[t] \in Ended => Commit(t) \/ Abort(t) \/ (Reuse(t) /\ pc'[t] = pc[t])
         /\ pc'[t] = "committed" => Commit(t) \/ (Reuse(t) /\ pc[t] = "committed")
  <1> USE DEF Ended, Testing
  <1>1. CASE Access(t) \/ ExposeLock(t) \/ Expose(t) \/ RetryPiece(t)
    BY <1>1, PcOfAccess DEF Undone
  <1>2. CASE UndoExposed(t) \/ UnlinkReads(t) \/ UnlinkWrite(t) \/ UnlinkReadOfAbort(t)
    BY <1>2, PcOfUnlink DEF txn_vars
  <1>3. CASE CommitDeps(t) \/ WaitDeps(t) \/ LockWriteSet(t) \/ AbortWaiting(t) \/ UserAbort(t)
    BY <1>3, PcOfCommit
  <1>4. CASE Validates(t)
    BY <1>4, PcOfValidate
  <1>5. CASE GenCommitTid(t) \/ Install(t) \/ Commit(t) \/ ReleaseWriteSet(t) \/ Abort(t) \/ Reuse(t)
    BY <1>5, PcOfEnd
  <1>6. QED
    BY <1>1, <1>2, <1>3, <1>4, <1>5 DEF Step, Validates

-----------------------------------------------------------------------------
(* What the end of a transaction unlinks *)

LEMMA UnlinkedKept ==
  ASSUME TypeOK, ProgramInv, ListInv, UnlinkInv, NEW t \in Txns, Step(t) \/ Reuse(t)
  PROVE  UnlinkInv'
  <1>0. /\ StepOf(t) /\ ListStep(t) /\ idx \in [Txns -> Nat] /\ pc \in [Txns -> Locations]
        /\ write_set[t] \in Seq(Keys)
    BY StepsAreOf, ListSteps DEF TypeOK
  <1>1. ASSUME NEW u \in Txns, pc'[u] = "install" PROVE idx'[u] \in DOMAIN write_set'[u]
    <2>1. CASE u # t
      BY <1>0, <1>1, <2>1 DEF StepOf, UnlinkInv
    <2>2. CASE u = t /\ GenCommitTid(t) /\ WriteKeys(t) # {}
      <3>1. idx'[t] = 1 /\ write_set' = write_set
        BY <1>0, <2>2 DEF GenCommitTid
      <3>2. 1 \in DOMAIN write_set[t]
        BY <1>0, <2>2 DEF WriteKeys
      <3>3. QED
        BY <2>2, <3>1, <3>2
    <2>3. CASE u = t /\ Install(t)
      <3>1. PICK i, k : InstallOf(t, i, k)
        BY <2>3, InstallIs
      <3>2. /\ pc[t] = "install" /\ i = idx[t] /\ idx'[t] = i + 1 /\ write_set' = write_set
            /\ i # Len(write_set[t])
        BY <1>0, <1>1, <2>3, <3>1, InstallIs DEF InstallOf
      <3>3. i \in DOMAIN write_set[t]
        BY <3>2 DEF UnlinkInv
      <3>4. i + 1 \in DOMAIN write_set[t]
        BY <1>0, <3>2, <3>3
      <3>5. QED
        BY <2>3, <3>2, <3>4
    <2>4. QED
      BY <1>1, <2>1, <2>2, <2>3, Moves
  <1>2. ASSUME NEW k \in Keys, NEW e \in Entries(list'[k]) PROVE Unlinked(e.txn, e)'
    <2>1. CASE e \notin Entries(list[k])
      <3>1. Expose(t) /\ e.txn = t
        BY <1>0, <2>1 DEF ListStep
      <3>2. pc'[t] \in Undone \cup {"commit"}
        BY <3>1, PcOfAccess
      <3>3. QED
        BY <3>1, <3>2 DEF Unlinked, Undone, Ended
    <2>2. CASE e \in Entries(list[k]) /\ e.txn # t
      <3>1. e.txn \in Txns /\ Unlinked(e.txn, e)
        BY <2>2, EntryTypes DEF UnlinkInv
      <3>2. QED
        BY <1>0, <2>2, <3>1 DEF StepOf, Unlinked
    <2>3. CASE e \in Entries(list[k]) /\ e.txn = t
      <3>1. /\ Unlinked(t, e) /\ EntryIsOf(e, k) /\ e.op \in {"r", "w"} /\ e.pos \in Nat
            /\ e = Entry(t, e.op, e.pos)
        BY <2>3, EntryTypes DEF UnlinkInv, ListInv, Entry, EntrySpace
      <3>a. /\ idx \in [Txns -> Nat] /\ pc \in [Txns -> Locations] /\ write_set[t] \in Seq(Keys)
            /\ Len(write_set[t]) \in Nat
        BY <1>0
      <3>b. e.op = "w" => /\ e.pos \in 1 .. Len(write_set[t]) /\ e.pos \in DOMAIN write_set[t]
                          /\ write_set[t][e.pos] = k
        BY <2>3, <3>1, <3>a DEF EntryIsOf
      <3>2. ASSUME pc'[t] = "install", e.op = "w" PROVE e.pos >= idx'[t]
        <4>1. CASE GenCommitTid(t)
          <5>1. idx'[t] = 1
            BY <1>0, <4>1 DEF GenCommitTid
          <5>2. QED
            BY <3>2, <3>a, <3>b, <5>1
        <4>2. CASE Install(t)
          <5>1. PICK i, j : InstallOf(t, i, j)
            BY <4>2, InstallIs
          <5>2. /\ pc[t] = "install" /\ i = idx[t] /\ idx'[t] = i + 1 /\ j = write_set[t][i]
                /\ i \in Nat /\ e.pos >= i
            BY <1>0, <3>1, <3>2, <4>2, <5>1, InstallIs DEF InstallOf, Unlinked
          <5>3. e.pos # i
            <6>1. e.pos = i => Entry(t, "w", i) \notin Entries(list'[k])
              BY <3>2, <3>b, <4>2, <5>2, InstallUnlinks
            <6>2. QED
              BY <3>1, <3>2, <6>1
          <5>4. QED
            BY <3>1, <5>2, <5>3
        <4>3. QED
          BY <3>2, <4>1, <4>2, Moves
      <3>3. ASSUME pc'[t] = "unlink" PROVE e.op # "w"
        <4>1. CASE GenCommitTid(t) /\ WriteKeys(t) = {}
          BY <3>b, <4>1 DEF WriteKeys
        <4>2. CASE Install(t)
          <5>1. PICK i, j : InstallOf(t, i, j)
            BY <4>2, InstallIs
          <5>2. /\ pc[t] = "install" /\ i = idx[t] /\ i \in Nat /\ i = Len(write_set[t])
            BY <1>0, <3>3, <4>2, <5>1, InstallIs DEF InstallOf
          <5>3. SUFFICES ASSUME e.op = "w" PROVE FALSE
            OBVIOUS
          <5>4. e.pos >= i /\ e.pos \in DOMAIN write_set[t]
            BY <3>1, <3>b, <5>2, <5>3 DEF Unlinked
          <5>5. e.pos = i
            BY <1>0, <5>2, <5>4
          <5>6. Entry(t, "w", i) \notin Entries(list'[k])
            BY <3>b, <4>2, <5>2, <5>3, <5>5, InstallUnlinks
          <5>7. QED
            BY <3>1, <5>3, <5>5, <5>6
        <4>3. CASE UnlinkReads(t)
          BY <3>1, <4>3 DEF UnlinkReads, Unlinked
        <4>4. QED
          BY <3>3, <4>1, <4>2, <4>3, Moves
      <3>4. pc'[t] \notin Ended
        <4>1. SUFFICES ASSUME pc'[t] \in Ended PROVE FALSE
          OBVIOUS
        <4>2. pc[t] \notin Ended
          BY <3>1 DEF Unlinked
        <4>3. Commit(t) \/ Abort(t)
          BY <4>1, <4>2, Moves
        <4>4. LinkedReads(t, 0) = {}
          BY <4>3 DEF Commit, Abort
        <4>5. CASE e.op = "r"
          <5>1. e.pos > 0
            <6>1. e.pos \in DOMAIN read_set[t] /\ read_set[t] \in Seq(Reads)
              BY <3>1, <4>5, <2>3 DEF EntryIsOf, TypeOK
            <6>2. QED
              BY <6>1
          <5>2. QED
            BY <2>3, <3>1, <4>4, <4>5, <5>1 DEF EntryIsOf, LinkedReads
        <4>6. CASE e.op = "w"
          <5>1. CASE Commit(t)
            BY <3>1, <4>6, <5>1 DEF Commit, Unlinked
          <5>2. CASE Abort(t)
            BY <2>3, <3>1, <4>6, <5>2 DEF Abort, LinkedWrites, EntryIsOf
          <5>3. QED
            BY <4>3, <5>1, <5>2
        <4>7. QED
          BY <3>1, <4>5, <4>6
      <3>5. QED
        BY <2>3, <3>2, <3>3, <3>4 DEF Unlinked
    <2>4. QED
      BY <2>1, <2>2, <2>3
  <1>3. QED
    BY <1>1, <1>2 DEF UnlinkInv

-----------------------------------------------------------------------------
(* Locks *)

LEMMA HeldIs ==
  ASSUME NEW t \in Txns
  PROVE  /\ Held(t) \subseteq Nat /\ Held(t) \subseteq Keys
         /\ Held(t) # {} => MinOf(Held(t)) \in Held(t)
         /\ Cardinality(Held(t)) <= 1 => Held(t) = {} \/ Held(t) = {MinOf(Held(t))}
  <1>1. Held(t) \subseteq Keys /\ Held(t) \subseteq Nat
    BY TxnAssumption DEF Held
  <1>2. Held(t) # {} => MinOf(Held(t)) \in Held(t)
    BY <1>1, MinOfIsIn
  <1>3. ASSUME Cardinality(Held(t)) <= 1 PROVE Held(t) = {} \/ Held(t) = {MinOf(Held(t))}
    <2>1. IsFiniteSet(Held(t)) /\ Cardinality(Held(t)) \in Nat
      <3>1. Held(t) \in SUBSET Keys
        BY <1>1
      <3>2. IsFiniteSet(Held(t))
        BY <3>1, TxnAssumption, FS_Subset
      <3>3. QED
        BY <3>2, FS_CardinalityType
    <2>2. Cardinality(Held(t)) = 0 \/ Cardinality(Held(t)) = 1
      BY <1>3, <2>1
    <2>3. Cardinality(Held(t)) = 0 => Held(t) = {}
      BY <2>1, FS_EmptySet
    <2>4. Cardinality(Held(t)) = 1 => \E x : Held(t) = {x}
      BY <2>1, FS_Singleton
    <2>5. QED
      BY <1>2, <2>2, <2>3, <2>4
  <1>4. QED
    BY <1>1, <1>2, <1>3

LEMMA WriteKeysAre ==
  ASSUME TypeOK, NEW t \in Txns
  PROVE  /\ WriteKeys(t) \subseteq Keys /\ WriteKeys(t) \subseteq Nat
         /\ \A k \in WriteKeys(t) : \E j \in DOMAIN write_set[t] : write_set[t][j] = k /\ j >= 1
  <1>1. write_set[t] \in Seq(Keys) /\ Keys \subseteq Nat
    BY TxnAssumption DEF TypeOK
  <1>2. \A j \in DOMAIN write_set[t] : write_set[t][j] \in Keys /\ j >= 1
    BY <1>1
  <1>3. QED
    BY <1>1, <1>2 DEF WriteKeys

LEMMA InstallingIs ==
  ASSUME TypeOK, UnlinkInv, LockInv, NEW t \in Txns, NEW i, NEW k, Install(t), InstallOf(t, i, k)
  PROVE  /\ pc[t] = "install" /\ i = idx[t] /\ i \in Nat /\ i \in DOMAIN write_set[t]
         /\ k \in Keys /\ k = write_set[t][i] /\ lock[k] = t
  <1>1. /\ pc[t] = "install" /\ i = idx[t] /\ k = write_set[t][i] /\ i \in DOMAIN write_set[t]
        /\ idx[t] \in Nat /\ write_set[t] \in Seq(Keys)
    BY InstallIs DEF InstallOf, UnlinkInv, TypeOK
  <1>2. k \in Keys /\ StillToInstall(t, k)
    BY <1>1 DEF StillToInstall
  <1>3. QED
    BY <1>1, <1>2 DEF LockInv, LocksOf

\* A step takes free locks, and frees only its transaction's; write intent goes
\* with the locks of a commit.
LockChange(t, k) ==
  \/ lock'[k] = lock[k] /\ write_intent'[k] = write_intent[k]
  \/ lock[k] = NONE /\ lock'[k] = t /\ ExposeLock(t) /\ write_intent'[k] = write_intent[k]
  \/ lock[k] = NONE /\ lock'[k] = t /\ LockWriteSet(t) /\ write_intent'[k] /\ k \in WriteKeys(t)
  \/ lock[k] = t /\ lock'[k] = NONE /\ Expose(t) /\ write_intent'[k] = write_intent[k]
  \/ lock[k] = t /\ lock'[k] = NONE /\ ~ write_intent'[k] /\ (Install(t) \/ ReleaseWriteSet(t))

LEMMA LockChanges ==
  ASSUME TypeOK, ProgramInv, UnlinkInv, LockInv, NEW t \in Txns, Step(t) \/ Reuse(t), NEW k \in Keys
  PROVE  LockChange(t, k)
  <1>0. /\ lock \in [Keys -> Txns \cup {NONE}] /\ write_intent \in [Keys -> BOOLEAN]
        /\ pc \in [Txns -> Locations]
    BY DEF TypeOK
  <1>1. CASE ExposeLock(t)
    <2>1. PICK j : /\ lock[j] = NONE /\ lock' = [lock EXCEPT ![j] = t]
                   /\ write_intent' = write_intent
      BY <1>1 DEF ExposeLock
    <2>2. QED
      BY <1>0, <1>1, <2>1 DEF LockChange
  <1>2. CASE Expose(t)
    <2>1. /\ lock' = [j \in Keys |-> IF lock[j] = t THEN NONE ELSE lock[j]]
          /\ write_intent' = write_intent
      BY <1>2 DEF Expose
    <2>2. QED
      BY <1>0, <1>2, <2>1 DEF LockChange
  <1>3. CASE LockWriteSet(t)
    <2>1. PICK j : /\ j = MinOf(WriteKeys(t) \ Held(t))
                   /\ lock[j] = NONE /\ lock' = [lock EXCEPT ![j] = t]
                   /\ write_intent' = [write_intent EXCEPT ![j] = TRUE]
      BY <1>3 DEF LockWriteSet
    <2>2. j \in WriteKeys(t)
      <3>1. WriteKeys(t) \ Held(t) # {} /\ WriteKeys(t) \ Held(t) \subseteq Nat
        BY <1>3, WriteKeysAre DEF LockWriteSet, LockInv, LocksOf
      <3>2. QED
        BY <2>1, <3>1, MinOfIsIn
    <2>3. QED
      BY <1>0, <1>3, <2>1, <2>2 DEF LockChange
  <1>4. CASE Install(t)
    <2>1. PICK i, j : InstallOf(t, i, j)
      BY <1>4, InstallIs
    <2>2. lock[j] = t /\ j \in Keys
      BY <1>4, <2>1, InstallingIs
    <2>3. \/ lock' = lock /\ write_intent' = write_intent
          \/ /\ lock' = [lock EXCEPT ![j] = NONE]
             /\ write_intent' = [write_intent EXCEPT ![j] = FALSE]
      BY <2>1 DEF InstallOf
    <2>4. QED
      BY <1>0, <1>4, <2>2, <2>3 DEF LockChange
  <1>5. CASE ReleaseWriteSet(t)
    <2>1. CASE Held(t) = {}
      BY <1>5, <2>1 DEF ReleaseWriteSet, LockChange
    <2>2. CASE Held(t) # {}
      <3>1. PICK j : /\ j = MinOf(Held(t)) /\ lock' = [lock EXCEPT ![j] = NONE]
                     /\ write_intent' = [write_intent EXCEPT ![j] = FALSE]
        BY <1>5, <2>2 DEF ReleaseWriteSet
      <3>2. j \in Held(t)
        BY <2>2, <3>1, HeldIs
      <3>3. lock[j] = t
        BY <3>2 DEF Held
      <3>4. QED
        BY <1>0, <1>5, <3>1, <3>3 DEF LockChange
    <2>3. QED
      BY <2>1, <2>2
  <1>6. CASE /\ ~ ExposeLock(t) /\ ~ Expose(t) /\ ~ LockWriteSet(t) /\ ~ Install(t)
             /\ ~ ReleaseWriteSet(t)
    <2>1. UNCHANGED <<lock, write_intent>>
      BY <1>6 DEF Step, Reuse, Access, UndoExposed, UnlinkRead, RetryPiece, AbortWaiting, UserAbort,
           CommitDeps, WaitDeps, ValidateRead, ValidateVersion, ValidateSeq, ValidateIntent,
           GenCommitTid,
           UnlinkReads, Commit, UnlinkWrite, UnlinkReadOfAbort, Abort, tuple_vars
    <2>2. QED
      BY <2>1 DEF LockChange
  <1>7. QED
    BY <1>1, <1>2, <1>3, <1>4, <1>5, <1>6

\* A transaction that is neither exposing nor committing has no lock; nor has one
\* that takes another way.
LEMMA NoLocksToKeep ==
  ASSUME TypeOK, ProgramInv, LockInv, NEW t \in Txns, \A k \in Keys : lock'[k] # t,
         pc'[t] # "install",
         pc'[t] = "lockws" => WriteKeys(t)' # {}, pc'[t] \in Validating => WriteKeys(t)' = {}
  PROVE  LocksOf(t)'
  BY DEF LocksOf, Held

LEMMA OwnLocksKept ==
  ASSUME TypeOK, ProgramInv, UnlinkInv, LockInv, NEW t \in Txns, Step(t) \/ Reuse(t)
  PROVE  LocksOf(t)'
  <1>0. /\ lock \in [Keys -> Txns \cup {NONE}] /\ write_intent \in [Keys -> BOOLEAN]
        /\ pc \in [Txns -> Locations] /\ LocksOf(t) /\ idx \in [Txns -> Nat] /\ t # NONE
    BY TxnAssumption DEF TypeOK, LockInv
  <1>a. \A k \in Keys : LockChange(t, k)
    BY LockChanges
  <1>1. CASE pc[t] \notin Locking \cup Writing \/ AbortWaiting(t)
    <2>1. \A k \in Keys : lock[k] # t
      <3>1. CASE pc[t] \notin Locking \cup Writing
        BY <1>0, <3>1 DEF LocksOf
      <3>2. CASE AbortWaiting(t) /\ pc[t] \in Locking \cup Writing
        <4>1. Targets(t) # {}
          BY <3>2 DEF AbortWaiting, Timeout, Cascade
        <4>2. Held(t) = {}
          BY <3>2, <4>1 DEF Targets, Locking, Writing, Validating, Testing
        <4>3. QED
          BY <4>2 DEF Held
      <3>3. QED
        BY <1>1, <3>1, <3>2
    <2>2. ~ ExposeLock(t) /\ ~ LockWriteSet(t)
      <3>1. CASE AbortWaiting(t)
        BY <1>0, <3>1 DEF AbortWaiting, ExposeLock, LockWriteSet
      <3>2. CASE pc[t] \notin Locking \cup Writing
        BY <3>2 DEF ExposeLock, LockWriteSet, Locking, Writing
      <3>3. QED
        BY <1>1, <3>1, <3>2
    <2>3. \A k \in Keys : lock'[k] # t
      BY <1>0, <1>a, <2>1, <2>2 DEF LockChange
    <2>4. pc'[t] # "install" /\ (pc'[t] = "lockws" => WriteKeys(t)' # {})
          /\ (pc'[t] \in Validating => WriteKeys(t)' = {})
      <3>1. CASE pc[t] \notin Locking \cup Writing
        <4>1. /\ ~ GenCommitTid(t) /\ ~ Install(t) /\ ~ Validates(t)
          BY <3>1, ValidatesIs DEF GenCommitTid, Install, Writing, Validating
        <4>2. WaitDeps(t) => WriteKeys(t)' = WriteKeys(t)
          BY DEF WaitDeps, WriteKeys
        <4>3. QED
          BY <2>2, <4>1, <4>2, Moves DEF Validating, Testing, Validates
      <3>2. CASE AbortWaiting(t)
        BY <1>0, <3>2 DEF AbortWaiting, Validating, Testing
      <3>3. QED
        BY <1>1, <3>1, <3>2
    <2>5. QED
      BY <2>3, <2>4, NoLocksToKeep
  <1>2. CASE ExposeLock(t)
    <2>1. pc'[t] \in Locking /\ pc[t] \in Locking /\ write_intent' = write_intent
      BY <1>0, <1>2 DEF ExposeLock, Locking
    <2>2. ASSUME NEW k \in Keys, lock'[k] = t PROVE ~ write_intent'[k]
      BY <1>0, <1>2, <1>a, <2>1, <2>2 DEF LockChange, LocksOf, LockInv, Writing, Validating,
         Testing,
         Locking, ExposeLock, LockWriteSet
    <2>3. QED
      BY <2>1, <2>2 DEF LocksOf, Locking, Writing, Validating, Testing
  <1>3. CASE Expose(t)
    <2>1. \A k \in Keys : lock'[k] # t
      BY <1>0, <1>3 DEF Expose
    <2>2. pc'[t] \in Undone \cup {"commit"}
      BY <1>3, PcOfAccess
    <2>3. QED
      BY <2>1, <2>2, NoLocksToKeep DEF Undone, Validating, Testing
  <1>4. CASE LockWriteSet(t)
    <2>1. PICK k : /\ k = MinOf(WriteKeys(t) \ Held(t)) /\ lock' = [lock EXCEPT ![k] = t]
                   /\ write_intent' = [write_intent EXCEPT ![k] = TRUE]
                   /\ pc' = IF WriteKeys(t) \ Held(t) = {k} THEN [pc EXCEPT ![t] = "validate"] ELSE pc
                   /\ write_set' = write_set /\ pc[t] = "lockws"
      BY <1>4 DEF LockWriteSet
    <2>2. k \in WriteKeys(t) /\ k \notin Held(t) /\ k \in Keys
      <3>1. WriteKeys(t) \ Held(t) # {} /\ WriteKeys(t) \ Held(t) \subseteq Nat
        BY <2>1, WriteKeysAre DEF LockInv, LocksOf
      <3>2. QED
        BY <2>1, <3>1, MinOfIsIn, WriteKeysAre
    <2>3. Held(t)' = Held(t) \cup {k} /\ WriteKeys(t)' = WriteKeys(t)
      BY <1>0, <2>1, <2>2 DEF Held, WriteKeys
    <2>4. pc'[t] = IF WriteKeys(t) \ Held(t) = {k} THEN "validate" ELSE "lockws"
      BY <1>0, <2>1
    <2>5. ASSUME NEW j \in Keys, lock'[j] = t PROVE j \in WriteKeys(t) /\ write_intent'[j]
      BY <1>0, <2>1, <2>2, <2>5 DEF LocksOf, Writing
    <2>6. pc'[t] = "lockws" => WriteKeys(t)' \ Held(t)' # {}
      BY <2>2, <2>3, <2>4
    <2>7. pc'[t] = "validate" => WriteKeys(t)' \subseteq Held(t)'
      BY <2>3, <2>4
    <2>8. QED
      BY <2>3, <2>4, <2>5, <2>6, <2>7 DEF LocksOf, Locking, Writing, Validating, Testing
  <1>5. CASE Validates(t)
    <2>1. /\ pc[t] \in Validating /\ pc'[t] \in {"validate", "release"} \cup Testing
          /\ UNCHANGED <<lock, write_intent, write_set>>
      BY <1>5, PcOfValidate, ValidatesIs DEF Untouched, tuple_vars
    <2>2. Held(t)' = Held(t) /\ WriteKeys(t)' = WriteKeys(t)
      BY <2>1 DEF Held, WriteKeys
    <2>3. QED
      BY <1>0, <2>1, <2>2 DEF LocksOf, Locking, Writing, Validating, Testing
  <1>6. CASE GenCommitTid(t)
    <2>1. /\ pc[t] = "validate" /\ UNCHANGED <<lock, write_intent, write_set>> /\ idx'[t] = 1
          /\ pc'[t] = IF WriteKeys(t) = {} THEN "unlink" ELSE "install"
      BY <1>0, <1>6 DEF GenCommitTid, tuple_vars
    <2>2. Held(t)' = Held(t) /\ WriteKeys(t)' = WriteKeys(t) /\ WriteKeys(t) \subseteq Held(t)
          /\ \A k \in Keys : lock[k] = t => k \in WriteKeys(t) /\ write_intent[k]
      BY <1>0, <2>1 DEF Held, WriteKeys, LocksOf, Validating, Writing
    <2>3. \A k \in Keys : StillToInstall(t, k)' <=> k \in WriteKeys(t)
      <3>1. \A k \in WriteKeys(t) : \E j \in DOMAIN write_set[t] : write_set[t][j] = k /\ j >= 1
        BY WriteKeysAre
      <3>2. QED
        BY <2>1, <3>1 DEF StillToInstall, WriteKeys
    <2>4. \A k \in WriteKeys(t) : lock[k] = t
      BY <2>2 DEF Held
    <2>5. QED
      BY <2>1, <2>2, <2>3, <2>4 DEF LocksOf, Locking, Writing, Validating, Testing
  <1>7. CASE Install(t)
    <2>1. PICK i, k : InstallOf(t, i, k)
      BY <1>7, InstallIs
    <2>2. /\ pc[t] = "install" /\ i = idx[t] /\ i \in Nat /\ i \in DOMAIN write_set[t]
          /\ k \in Keys /\ k = write_set[t][i] /\ lock[k] = t
      BY <1>7, <2>1, InstallingIs
    <2>3. /\ write_set' = write_set /\ WriteKeys(t)' = WriteKeys(t) /\ idx'[t] = i + 1
          /\ write_set[t] \in Seq(Keys) /\ Len(write_set[t]) \in Nat
      BY <1>0, <2>1, <2>2 DEF InstallOf, WriteKeys, TypeOK
    <2>4. pc'[t] = IF i = Len(write_set[t]) THEN "unlink" ELSE "install"
      BY <1>0, <2>1, <2>2 DEF InstallOf
    <2>5. \A j \in Keys : StillToInstall(t, j)' <=>
            \E m \in DOMAIN write_set[t] : write_set[t][m] = j /\ m >= i + 1
      BY <2>3 DEF StillToInstall
    <2>6. \A j \in Keys : StillToInstall(t, j) <=>
            \E m \in DOMAIN write_set[t] : write_set[t][m] = j /\ m >= i
      BY <2>2 DEF StillToInstall
    <2>7. ASSUME NEW j \in Keys PROVE lock'[j] = t <=> StillToInstall(t, j)'
      <3>1. lock[j] = t <=> StillToInstall(t, j)
        BY <1>0, <2>2 DEF LocksOf
      <3>2. CASE j # k
        <4>1. lock'[j] = lock[j]
          BY <1>0, <2>1, <3>2 DEF InstallOf
        <4>2. \A m \in DOMAIN write_set[t] : write_set[t][m] = j => (m >= i <=> m >= i + 1)
          BY <2>2, <2>3, <3>2
        <4>3. QED
          BY <2>5, <2>6, <3>1, <4>1, <4>2
      <3>3. CASE j = k /\ IsLastWrite(t, i, k)
        <4>1. lock'[j] = NONE
          BY <1>0, <2>1, <2>2, <3>3 DEF InstallOf
        <4>2. \A m \in DOMAIN write_set[t] : write_set[t][m] = j => ~ (m >= i + 1)
          BY <2>2, <2>3, <3>3 DEF IsLastWrite
        <4>3. QED
          BY <1>0, <2>5, <4>1, <4>2
      <3>4. CASE j = k /\ ~ IsLastWrite(t, i, k)
        <4>1. lock'[j] = t
          BY <2>1, <2>2, <3>4 DEF InstallOf
        <4>2. PICK m \in DOMAIN write_set[t] : write_set[t][m] = k /\ ~ (m <= i)
          BY <3>4 DEF IsLastWrite
        <4>3. m >= i + 1
          BY <2>2, <2>3, <4>2
        <4>4. QED
          BY <2>5, <3>4, <4>1, <4>2, <4>3
      <3>5. QED
        BY <3>2, <3>3, <3>4
    <2>8. ASSUME NEW j \in Keys,
    lock'[j] = t PROVE j \in WriteKeys(t) /\ write_intent'[j] /\ pc'[t] = "install"
      <3>1. PICK m \in DOMAIN write_set[t] : write_set[t][m] = j /\ m >= i + 1
        BY <2>5, <2>7, <2>8
      <3>2. i # Len(write_set[t])
        BY <2>2, <2>3, <3>1
      <3>3. lock[j] = t
        BY <1>a, <1>7, <2>2, <2>8 DEF LockChange, ExposeLock, LockWriteSet
      <3>4. write_intent'[j] = write_intent[j]
        BY <1>0, <1>a, <2>8, <3>3 DEF LockChange
      <3>5. QED
        BY <1>0, <2>2, <2>4, <3>1, <3>2, <3>3, <3>4 DEF LocksOf, Writing, WriteKeys
    <2>9. QED
      BY <2>3, <2>4, <2>7, <2>8 DEF LocksOf, Locking, Writing, Validating, Testing
  <1>8. CASE ReleaseWriteSet(t)
    <2>1. /\ pc[t] = "release" /\ write_set' = write_set /\ WriteKeys(t)' = WriteKeys(t)
          /\ pc'[t] = IF Cardinality(Held(t)) <= 1 THEN "unlink_abort" ELSE "release"
      BY <1>0, <1>8 DEF ReleaseWriteSet, WriteKeys
    <2>2. ASSUME NEW j \in Keys, lock'[j] = t
          PROVE  j \in WriteKeys(t) /\ write_intent'[j] /\ pc'[t] = "release"
      <3>1. lock[j] = t /\ write_intent'[j] = write_intent[j]
        BY <1>0, <1>a, <2>1, <2>2 DEF LockChange, ExposeLock, LockWriteSet
      <3>2. Held(t) # {} /\ Held(t) # {MinOf(Held(t))}
        <4>1. j \in Held(t)
          BY <3>1 DEF Held
        <4>2. lock' = [lock EXCEPT ![MinOf(Held(t))] = NONE]
          BY <1>8, <4>1 DEF ReleaseWriteSet
        <4>3. j # MinOf(Held(t))
          BY <1>0, <2>2, <4>2
        <4>4. QED
          BY <4>1, <4>3
      <3>3. pc'[t] = "release"
        BY <2>1, <3>2, HeldIs
      <3>4. QED
        BY <1>0, <2>1, <3>1, <3>3 DEF LocksOf, Writing
    <2>3. QED
      BY <2>1, <2>2 DEF LocksOf, Locking, Writing, Validating, Testing
  <1>9. QED
    <2>1. pc[t] \in Locking \cup Writing /\ ~ AbortWaiting(t) =>
            \/ ExposeLock(t) \/ Expose(t) \/ LockWriteSet(t) \/ Validates(t)
            \/ GenCommitTid(t) \/ Install(t) \/ ReleaseWriteSet(t)
      BY DEF Locking, Writing, Step, Reuse, Access, UndoExposed, RetryPiece, UserAbort, CommitDeps,
             WaitDeps, UnlinkReads, Commit, UnlinkWrite, UnlinkReadOfAbort, Abort, Ended, Validates,
             Validating, Testing
    <2>2. QED
      BY <2>1, <1>1, <1>2, <1>3, <1>4, <1>5, <1>6, <1>7, <1>8

LEMMA LocksKept ==
  ASSUME TypeOK, ProgramInv, UnlinkInv, LockInv, NEW t \in Txns, Step(t) \/ Reuse(t)
  PROVE  LockInv'
  <1>0. /\ StepOf(t) /\ t # NONE
        /\ lock \in [Keys -> Txns \cup {NONE}] /\ write_intent \in [Keys -> BOOLEAN]
    BY StepsAreOf, TxnAssumption DEF TypeOK
  <1>1. \A k \in Keys : LockChange(t, k)
    BY LockChanges
  <1>2. ASSUME NEW u \in Txns \ {t} PROVE LocksOf(u)'
    <2>1. LocksOf(u) /\ u # NONE
      BY TxnAssumption DEF LockInv
    <2>2. /\ pc'[u] = pc[u] /\ write_set'[u] = write_set[u] /\ idx'[u] = idx[u]
      BY <1>0 DEF StepOf
    <2>3. \A k \in Keys : /\ lock'[k] = u <=> lock[k] = u
                          /\ lock[k] = u => write_intent'[k] = write_intent[k]
      BY <1>0, <1>1, <2>1 DEF LockChange
    <2>4. /\ Held(u)' = Held(u) /\ WriteKeys(u)' = WriteKeys(u)
          /\ \A k \in Keys : StillToInstall(u, k)' <=> StillToInstall(u, k)
      BY <2>2, <2>3 DEF Held, WriteKeys, StillToInstall
    <2>5. QED
      BY <2>1, <2>2, <2>3, <2>4 DEF LocksOf
  <1>3. LocksOf(t)'
    BY OwnLocksKept
  <1>4. ASSUME NEW k \in Keys, lock'[k] = NONE PROVE ~ write_intent'[k]
    <2>1. CASE lock[k] = NONE
      BY <1>0, <1>1, <1>4, <2>1 DEF LockChange, LockInv
    <2>2. CASE lock[k] # NONE
      <3>1. lock[k] = t /\ ~ (lock'[k] = lock[k])
        BY <1>0, <1>1, <1>4, <2>2 DEF LockChange
      <3>2. CASE Expose(t)
        BY <1>0, <1>1, <1>4, <3>1, <3>2 DEF LockChange, LockInv, LocksOf, Expose, Writing,
           Validating,
           Testing
      <3>3. CASE ~ Expose(t)
        BY <1>0, <1>1, <1>4, <3>1, <3>3 DEF LockChange
      <3>4. QED
        BY <3>2, <3>3
    <2>3. QED
      BY <2>1, <2>2
  <1>5. QED
    BY <1>2, <1>3, <1>4 DEF LockInv

-----------------------------------------------------------------------------
(* What a transaction has read *)

\* Every read was there before the step, or it is the access of the step.
NewRead(t, r) ==
  \E k \in Keys, occ \in BOOLEAN :
    /\ r = ReadRecord(t, k, occ)
    /\ occ \in policy.occ

LEMMA ReadsAre ==
  ASSUME TypeOK, ProgramInv, NEW t \in Txns, Step(t) \/ Reuse(t),
         NEW u \in Txns, NEW i \in DOMAIN read_set'[u]
  PROVE  \/ i \in DOMAIN read_set[u] /\ read_set'[u][i] = read_set[u][i]
         \/ u = t /\ Access(t) /\ NewRead(t, read_set'[u][i])
  <1>0. read_set \in [Txns -> Seq(Reads)] /\ StepOf(t) /\ piece[t].reads \in Nat
        /\ piece[t].reads <= Len(read_set[t])
    BY StepsAreOf DEF TypeOK, Pieces, ProgramInv, InProgram
  <1>1. CASE u # t
    BY <1>0, <1>1 DEF StepOf
  <1>2. CASE u = t /\ Access(t)
    <2>1. PICK a, occ, piece_end : AccessOf(t, a, occ, piece_end)
      BY <1>2, AccessIs
    <2>2. PICK r : r = ReadRecord(t, a.key, occ)
      OBVIOUS
    <2>3. r \in Reads /\ a.key \in Keys /\ a.op \in {"get", "update", "put"} /\ occ \in BOOLEAN
          /\ at[t] \in DOMAIN program[t] /\ a = program[t][at[t]]
      BY <2>1, <2>2, ReadRecordIs DEF AccessOf, Accesses
    <2>4. CASE a.op = "put"
      BY <1>2, <2>1, <2>4 DEF AccessOf
    <2>5. CASE a.op # "put"
      <3>1. read_set'[t] = Append(read_set[t], r)
        BY <1>0, <2>1, <2>2, <2>5 DEF AccessOf
      <3>2. read_set[t] \in Seq(Reads)
        BY <1>0
      <3>3. \/ i \in DOMAIN read_set[t] /\ read_set'[t][i] = read_set[t][i]
            \/ read_set'[t][i] = r
        BY <1>2, <2>3, <3>1, <3>2
      <3>5. NewRead(t, r)
        <4>1. occ \in policy.occ
          BY <2>1 DEF AccessOf
        <4>2. QED
          BY <2>2, <2>3, <4>1 DEF NewRead
      <3>6. QED
        BY <1>2, <3>3, <3>5
    <2>6. QED
      BY <2>4, <2>5
  <1>3. CASE u = t /\ RetryPiece(t)
    <2>1. read_set'[t] = SubSeq(read_set[t], 1, piece[t].reads)
      BY <1>0, <1>3 DEF RetryPiece
    <2>2. read_set[t] \in Seq(Reads)
      BY <1>0
    <2>3. QED
      BY <1>0, <1>3, <2>1, <2>2
  <1>4. CASE u = t /\ ~ Access(t) /\ ~ RetryPiece(t)
    <2>1. CASE Expose(t)
      BY <1>4, <2>1 DEF Expose
    <2>2. CASE ~ Expose(t)
      BY <1>4, <2>2, OtherStepsAreSame DEF SameAccesses
    <2>3. QED
      BY <2>1, <2>2
  <1>5. QED
    BY <1>1, <1>2, <1>3, <1>4

\* A new read is of the committed record, or of the latest entry: its own or that
\* of another transaction.
ReadOfEntry(r) ==
  \E e \in Entries(list[r.key]) :
    /\ e.op = "w" /\ r.from = [txn |-> e.txn, pos |-> e.pos]
    /\ get_dependent_entry(list[r.key]) = {e}

LEMMA NewReadIs ==
  ASSUME TypeOK, NEW t \in Txns, NEW r, NewRead(t, r)
  PROVE  /\ r \in Reads /\ r.occ \in policy.occ
         /\ \/ ~ r.dirty /\ r.from = value[r.key] /\ r.clean_tid = version[r.key]
            \/ ~ r.dirty /\ ~ r.occ /\ r.from.txn = t
            \/ r.dirty /\ ~ r.occ /\ r.from.txn # t /\ ReadOfEntry(r)
  <1>1. PICK k \in Keys, occ \in BOOLEAN : r = ReadRecord(t, k, occ) /\ occ \in policy.occ
    BY DEF NewRead
  <1>2. /\ r \in Reads /\ r.key = k /\ r.occ = occ /\ r.clean_tid = version[k]
        /\ \/ r.from = value[k] /\ ~ r.dirty
           \/ ~ occ /\ \E e \in Entries(list[k]) :
                /\ e.op = "w" /\ r.from = [txn |-> e.txn, pos |-> e.pos]
                /\ get_dependent_entry(list[k]) = {e} /\ (r.dirty <=> e.txn # t)
    BY <1>1, ReadRecordIs
  <1>3. r.dirty \in BOOLEAN
    BY <1>2 DEF Reads
  <1>4. CASE r.from = value[k] /\ ~ r.dirty
    BY <1>1, <1>2, <1>4
  <1>5. CASE ~ (r.from = value[k] /\ ~ r.dirty)
    <2>1. PICK e \in Entries(list[k]) :
            /\ e.op = "w" /\ r.from = [txn |-> e.txn, pos |-> e.pos]
            /\ get_dependent_entry(list[k]) = {e} /\ (r.dirty <=> e.txn # t)
      BY <1>2, <1>5
    <2>2. ~ occ /\ r.from.txn = e.txn
      BY <1>2, <1>5, <2>1
    <2>3. ReadOfEntry(r)
      BY <1>2, <2>1 DEF ReadOfEntry
    <2>4. QED
      BY <1>1, <1>2, <1>3, <2>1, <2>2, <2>3
  <1>6. QED
    BY <1>4, <1>5

\* Who is ending goes on ending, and who has decided stays so.
LEMMA LeavingIsForEver ==
  ASSUME TypeOK, ProgramInv, NEW t \in Txns, Step(t) \/ Reuse(t), pc[t] \in Leaving
  PROVE  /\ pc'[t] \in Leaving
         /\ pc[t] \in {"install", "unlink", "committed"} => pc'[t] \in {"install", "unlink",
                     "committed"}
         /\ ~ Access(t) /\ ~ RetryPiece(t)
  <1> USE DEF Leaving, Ended
  <1>0. pc \in [Txns -> Locations]
    BY DEF TypeOK
  <1>1. CASE Access(t) \/ ExposeLock(t) \/ Expose(t) \/ RetryPiece(t)
    BY <1>1, PcOfAccess DEF Undone
  <1>2. CASE UndoExposed(t) \/ UnlinkReads(t) \/ UnlinkWrite(t) \/ UnlinkReadOfAbort(t)
    BY <1>2, PcOfUnlink DEF txn_vars, Access, RetryPiece
  <1>3. CASE CommitDeps(t) \/ WaitDeps(t) \/ LockWriteSet(t) \/ AbortWaiting(t) \/ UserAbort(t)
    BY <1>3, PcOfCommit
  <1>4. CASE Validates(t)
    BY <1>4, PcOfValidate DEF Validating, Testing
  <1>5. CASE Install(t)
    <2>1. pc[t] = "install" /\ pc'[t] \in {"install", "unlink"}
      <3>1. PICK i, k : InstallOf(t, i, k)
        BY <1>5, InstallIs
      <3>2. QED
        BY <1>0, <1>5, <3>1, InstallIs DEF InstallOf
    <2>2. QED
      BY <2>1 DEF Access, RetryPiece
  <1>6. CASE GenCommitTid(t) \/ Commit(t) \/ ReleaseWriteSet(t) \/ Abort(t) \/ Reuse(t)
    BY <1>0, <1>6 DEF GenCommitTid, Commit, ReleaseWriteSet, Abort, Reuse, Access, RetryPiece
  <1>7. QED
    BY <1>1, <1>2, <1>3, <1>4, <1>5, <1>6 DEF Step, Validates

LEMMA SourcesKept ==
  ASSUME TypeOK, ProgramInv, ListInv, SourceInv, NEW t \in Txns, Step(t) \/ Reuse(t)
  PROVE  SourceInv'
  <1> SUFFICES ASSUME NEW u \in Txns, NEW i \in DOMAIN read_set'[u], read_set'[u][i].dirty
               PROVE  SourceIs(read_set[u][i])'
    BY DEF SourceInv
  <1>0. StepOf(t) /\ ListStep(t)
    BY StepsAreOf, ListSteps
  <1>1. PICK r : r = read_set'[u][i]
    OBVIOUS
  <1>a. piece'[t].writes \in Nat /\ piece[t].writes \in Nat
    BY TypesKept DEF TypeOK, Pieces, Next
  <1>2. CASE i \in DOMAIN read_set[u] /\ read_set'[u][i] = read_set[u][i]
    <2>1. SourceIs(r) /\ r.from.txn \in Txns /\ r \in Reads
      <3>1. SourceIs(r)
        BY <1>1, <1>2 DEF SourceInv
      <3>2. read_set[u] \in Seq(Reads)
        BY DEF TypeOK
      <3>3. QED
        BY <1>1, <1>2, <3>1, <3>2 DEF SourceIs
    <2>2. PICK d \in Txns, p \in Nat : r.from.txn = d /\ r.from.pos = p
      BY <2>1 DEF Reads, Sources
    <2>3. /\ p \in DOMAIN write_set[d] /\ p <= piece[d].writes /\ write_set[d][p] = r.key
          /\ r.key \in Keys
      BY <2>1, <2>2 DEF SourceIs, Reads
    <2>4. /\ p \in DOMAIN write_set'[d] /\ p <= piece'[d].writes /\ write_set'[d][p] = r.key
      <3>1. CASE d # t
        BY <1>0, <2>3, <3>1 DEF StepOf
      <3>2. CASE d = t
        <4>1. p <= piece'[t].writes
          BY <1>0, <1>a, <2>2, <2>3, <3>2 DEF StepOf
        <4>2. QED
          BY <1>0, <2>3, <3>2, <4>1 DEF StepOf
      <3>3. QED
        BY <3>1, <3>2
    <2>5. ASSUME pc'[d] \notin Leaving PROVE Entry(d, "w", p) \in Entries(list'[r.key])
      <3>1. pc[d] \notin Leaving
        BY <1>0, <2>5, LeavingIsForEver DEF StepOf
      <3>2. Entry(d, "w", p) \in Entries(list[r.key])
        BY <2>1, <2>2, <3>1 DEF SourceIs
      <3>3. Entry(d, "w", p).txn = d /\ Entry(d, "w", p).op = "w"
        BY DEF Entry
      <3>4. QED
        BY <1>0, <2>3, <3>1, <3>2, <3>3 DEF ListStep, Leaving
    <2>6. SourceIs(r)'
      BY <2>2, <2>4, <2>5 DEF SourceIs
    <2>7. QED
      BY <1>1, <2>6 DEF SourceIs
  <1>3. CASE u = t /\ Access(t) /\ NewRead(t, r)
    <2>1. r.dirty /\ r \in Reads
      BY <1>1, <1>3, NewReadIs
    <2>2. PICK e \in Entries(list[r.key]) :
            e.op = "w" /\ e.txn # t /\ r.from = [txn |-> e.txn, pos |-> e.pos]
      BY <1>3, <2>1, NewReadIs DEF ReadOfEntry
    <2>3. r.key \in Keys
      BY <2>1 DEF Reads
    <2>4. EntryIsOf(e, r.key) /\ e \in EntrySpace /\ e.txn \in Txns
      BY <2>2, <2>3, EntryTypes DEF ListInv
    <2>5. UNCHANGED <<list, piece>> /\ write_set'[e.txn] = write_set[e.txn]
      BY <1>0, <1>3, <2>2, <2>4 DEF Access, tuple_vars, StepOf
    <2>6. Entry(e.txn, "w", e.pos) = e
      BY <2>2, <2>4 DEF Entry, EntrySpace
    <2>7. r.from.txn = e.txn /\ r.from.pos = e.pos
      BY <2>2
    <2>8. SourceIs(r)'
      BY <2>2, <2>4, <2>5, <2>6, <2>7 DEF SourceIs, EntryIsOf
    <2>9. QED
      BY <1>1, <2>8 DEF SourceIs
  <1>4. QED
    BY <1>1, <1>2, <1>3, ReadsAre

-----------------------------------------------------------------------------
(* What is final *)

LEMMA FinalKept ==
  ASSUME TypeOK, ProgramInv, NEW t \in Txns, Step(t) \/ Reuse(t), NEW v, NEW k, IsFinal(v, k)
  PROVE  IsFinal(v, k)'
  <1>1. v.txn \in Txns /\ pc[v.txn] \in {"install", "unlink", "committed"}
    BY DEF IsFinal, Decided
  <1>2. StepOf(t)
    BY StepsAreOf
  <1>3. pc'[v.txn] \in {"install", "unlink", "committed"} /\ write_set'[v.txn] = write_set[v.txn]
    <2>1. CASE v.txn # t
      BY <1>1, <1>2, <2>1 DEF StepOf
    <2>2. CASE v.txn = t
      BY <1>1, <1>2, <2>2, LeavingIsForEver DEF StepOf, Leaving, Ended
    <2>3. QED
      BY <2>1, <2>2
  <1>4. QED
    BY <1>1, <1>3 DEF IsFinal, Decided

LEMMA ValuesAreInstalled ==
  ASSUME NEW t \in Txns, Step(t) \/ Reuse(t), ~ Install(t)
  PROVE  UNCHANGED <<version, value, last_writer_seq, installed>>
  BY DEF Step, Reuse, Access, ExposeLock, Expose, UndoExposed, UnlinkRead, RetryPiece, AbortWaiting,
       UserAbort, CommitDeps, WaitDeps, LockWriteSet, ValidateRead, ValidateVersion, ValidateSeq,
       ValidateIntent, GenCommitTid,
       UnlinkReads, Commit, ReleaseWriteSet, UnlinkWrite, UnlinkReadOfAbort, Abort, tuple_vars

LEMMA ValuesKept ==
  ASSUME TypeOK, ProgramInv, UnlinkInv, LockInv, CommitInv, ValueInv, NEW t \in Txns,
  Step(t) \/ Reuse(t)
  PROVE  ValueInv'
  <1> SUFFICES ASSUME NEW k \in Keys
               PROVE  IF version'[k] = V0 THEN value'[k].txn = V0
                      ELSE /\ version'[k] = value'[k].txn
                           /\ last_writer_seq'[k] = value'[k].pos
                           /\ IsFinal(value[k], k)'
    BY DEF ValueInv
  <1>1. IF version[k] = V0 THEN value[k].txn = V0
        ELSE /\ version[k] = value[k].txn
             /\ last_writer_seq[k] = value[k].pos
             /\ IsFinal(value[k], k)
    BY DEF ValueInv
  <1>2. CASE version'[k] = version[k] /\ value'[k] = value[k] /\ last_writer_seq'[k] = last_writer_seq[k]
    <2>1. PICK v : v = value[k]
      OBVIOUS
    <2>2. IsFinal(v, k) => IsFinal(v, k)'
      BY FinalKept
    <2>3. IsFinal(v, k)' => IsFinal(value[k], k)'
      BY <1>2, <2>1 DEF IsFinal
    <2>4. QED
      BY <1>1, <1>2, <2>1, <2>2, <2>3
  <1>3. CASE ~ (version'[k] = version[k] /\ value'[k] = value[k] /\ last_writer_seq'[k] = last_writer_seq[k])
    <2>1. Install(t)
      BY <1>3, ValuesAreInstalled
    <2>2. PICK i, j : InstallOf(t, i, j)
      BY <2>1, InstallIs
    <2>3. /\ pc[t] = "install" /\ i = idx[t] /\ i \in Nat /\ i \in DOMAIN write_set[t]
          /\ j \in Keys /\ j = write_set[t][i] /\ commit_tid[t] = t
      BY <2>1, <2>2, InstallingIs DEF CommitInv
    <2>4. /\ version \in [Keys -> Versions \cup {NONE}] /\ value \in [Keys -> Sources]
          /\ last_writer_seq \in [Keys -> Nat] /\ pc \in [Txns -> Locations]
      BY DEF TypeOK
    <2>5. IsLastWrite(t, i, j) /\ j = k
      <3>1. IsLastWrite(t, i, j)
        BY <1>3, <2>2 DEF InstallOf
      <3>2. QED
        BY <1>3, <2>2, <2>4, <3>1 DEF InstallOf
    <2>6. /\ version'[k] = t /\ value'[k] = [txn |-> t, pos |-> i] /\ last_writer_seq'[k] = i
      BY <2>2, <2>3, <2>4, <2>5 DEF InstallOf
    <2>7. t # V0
      BY TxnAssumption
    <2>8. value'[k].txn = t /\ value'[k].pos = i
      BY <2>6
    <2>9. pc'[t] \in {"install", "unlink"} /\ write_set' = write_set
      BY <2>2, <2>3, <2>4 DEF InstallOf
    <2>10. IsFinal(value[k], k)'
      BY <2>3, <2>5, <2>8, <2>9 DEF IsFinal, Decided, IsLastWrite
    <2>11. QED
      BY <2>6, <2>7, <2>8, <2>10
  <1>4. QED
    BY <1>2, <1>3

\* A transaction that has ended well stays so, and one that has decided too.
LEMMA CommittedStays ==
  ASSUME TypeOK, ProgramInv, NEW t \in Txns, Step(t) \/ Reuse(t), NEW d \in Txns
  PROVE  /\ pc[d] = "committed" => pc'[d] = "committed"
         /\ d \in Decided => d \in Decided'
  <1>1. StepOf(t)
    BY StepsAreOf
  <1>2. CASE d # t
    BY <1>1, <1>2 DEF StepOf, Decided
  <1>3. CASE d = t
    <2>1. d \in Decided => pc'[d] \in {"install", "unlink", "committed"}
      BY <1>3, LeavingIsForEver DEF Decided, Leaving, Ended
    <2>2. ASSUME pc[t] = "committed" PROVE pc'[t] \notin {"install", "unlink"}
      BY <2>2, Moves DEF GenCommitTid, Install, UnlinkReads
    <2>3. QED
      BY <1>3, <2>1, <2>2 DEF Decided
  <1>4. QED
    BY <1>2, <1>3

LEMMA FinalReadKept ==
  ASSUME TypeOK, ProgramInv, NEW t \in Txns, Step(t) \/ Reuse(t), NEW u, NEW r, ReadIsFinal(u, r)
  PROVE  ReadIsFinal(u, r)'
  BY FinalKept DEF ReadIsFinal

\* The tests of a dirty read: its writer has committed, the version is the writer's,
\* and so is the last write, if nobody else can have installed in between.
LEMMA WriterHasCommitted ==
  ASSUME TypeOK, CommitInv, SourceInv, NEW t \in Txns, ValidateRead(t), pc'[t] = "version"
  PROVE  /\ idx[t] \in DOMAIN read_set[t] /\ UNCHANGED idx
         /\ TheRead(t).dirty /\ pc[TheRead(t).from.txn] = "committed"
  <1>0. pc \in [Txns -> Locations]
    BY DEF TypeOK
  <1>1. idx[t] \in DOMAIN read_set[t]
    BY DEF ValidateRead
  <1>2. TheRead(t).dirty /\ WriterCommitted(TheRead(t).from.txn) /\ UNCHANGED idx
    BY <1>0 DEF ValidateRead, NextRead, FailCommit, Test
  <1>3. SourceIs(TheRead(t))
    BY <1>1, <1>2 DEF SourceInv, TheRead
  <1>4. QED
    BY <1>1, <1>2, <1>3 DEF CommitInv, WriterCommitted, SourceIs

LEMMA VersionIsOfSource ==
  ASSUME TypeOK, CommitInv, SourceInv, NEW t \in Txns, ValidateVersion(t), pc'[t] = "seq"
  PROVE  UNCHANGED idx /\ version[TheRead(t).key] = TheRead(t).from.txn
  <1>0. pc \in [Txns -> Locations]
    BY DEF TypeOK
  <1>1. /\ UNCHANGED idx /\ pc[t] = "version"
        /\ commit_tid[TheRead(t).from.txn] = version[TheRead(t).key]
    BY <1>0 DEF ValidateVersion, Test, FailCommit
  <1>2. /\ idx[t] \in DOMAIN read_set[t] /\ TheRead(t).dirty
        /\ pc[TheRead(t).from.txn] = "committed"
    BY <1>1 DEF CommitInv, Tested, Testing
  <1>3. SourceIs(TheRead(t))
    BY <1>2 DEF SourceInv, TheRead
  <1>4. PICK d \in Txns : d = TheRead(t).from.txn
    BY <1>3 DEF SourceIs
  <1>5. write_set[d] # <<>>
    <2>1. TheRead(t).from.pos \in DOMAIN write_set[d]
      BY <1>3, <1>4 DEF SourceIs
    <2>2. QED
      BY <2>1
  <1>6. commit_tid[d] = d
    BY <1>2, <1>4, <1>5 DEF CommitInv
  <1>7. QED
    BY <1>1, <1>4, <1>6

LEMMA SeqIsFinal ==
  ASSUME TypeOK, CommitInv, SourceInv, ValueInv, AtMostTwo, NEW t \in Txns, ValidateSeq(t),
         pc'[t] # "release"
  PROVE  ReadIsFinal(t, TheRead(t))
  <1>0. pc \in [Txns -> Locations]
    BY DEF TypeOK
  <1>1. pc[t] = "seq" /\ last_writer_seq[TheRead(t).key] = TheRead(t).from.pos
    BY <1>0 DEF ValidateSeq, FailCommit
  <1>2. /\ idx[t] \in DOMAIN read_set[t] /\ TheRead(t).dirty
        /\ version[TheRead(t).key] = TheRead(t).from.txn
    BY <1>1 DEF CommitInv, Tested, Testing
  <1>3. PICK r : r = TheRead(t)
    OBVIOUS
  <1>4. r \in Reads /\ r.key \in Keys
    <2>1. read_set[t] \in Seq(Reads)
      BY DEF TypeOK
    <2>2. r \in Reads
      BY <1>2, <1>3, <2>1 DEF TheRead
    <2>3. QED
      BY <2>2 DEF Reads
  <1>5. r.from.txn \in Txns
    BY <1>2, <1>3 DEF SourceInv, SourceIs, TheRead
  <1>6. version[r.key] # V0
    BY <1>2, <1>3, <1>5, TxnAssumption
  <1>7. /\ version[r.key] = value[r.key].txn /\ last_writer_seq[r.key] = value[r.key].pos
        /\ IsFinal(value[r.key], r.key)
    BY <1>4, <1>6 DEF ValueInv
  <1>8. r.from.txn = value[r.key].txn /\ r.from.pos = value[r.key].pos
    BY <1>1, <1>2, <1>3, <1>7
  <1>9. QED
    BY <1>3, <1>7, <1>8 DEF ReadIsFinal, IsFinal

\* A test of a dirty read that has gone well keeps what it has shown.
LEMMA TestedKept ==
  ASSUME TypeOK, ProgramInv, NEW t \in Txns, Step(t) \/ Reuse(t), NEW u \in Txns, u # t,
         NEW r, r.from.txn \in Txns, pc[u] \in Testing, Tested(u, r)
  PROVE  Tested(u, r)'
  <1>1. pc'[u] = pc[u]
    BY StepsAreOf DEF StepOf
  <1>2. r.dirty /\ pc[r.from.txn] = "committed" /\ pc'[r.from.txn] = "committed"
    BY CommittedStays DEF Tested
  <1>3. ASSUME pc[u] = "seq", AtMostTwo PROVE version'[r.key] = r.from.txn
    <2>1. version[r.key] = r.from.txn
      BY <1>3 DEF Tested
    <2>2. ~ Install(t)
      BY <1>2, <1>3 DEF Install, AtMostTwo
    <2>3. QED
      BY <2>1, <2>2, ValuesAreInstalled
  <1>4. ASSUME pc[u] = "intent", AtMostTwo PROVE ReadIsFinal(u, r)'
    BY <1>4, FinalReadKept DEF Tested
  <1>5. QED
    BY <1>1, <1>2, <1>3, <1>4 DEF Tested

LEMMA CommitsKept ==
  ASSUME TypeOK, ProgramInv, CommitInv, ValueInv, SourceInv, NEW t \in Txns, Step(t) \/ Reuse(t)
  PROVE  CommitInv'
  <1>0. /\ StepOf(t) /\ pc \in [Txns -> Locations] /\ write_set[t] \in Seq(Keys)
        /\ state = [u \in Txns |-> state[u]] /\ commit_tid = [u \in Txns |-> commit_tid[u]]
    BY StepsAreOf DEF TypeOK
  <1> SUFFICES ASSUME NEW u \in Txns
               PROVE  /\ pc'[u] \in {"install"} => commit_tid'[u] = u
                      /\ pc'[u] \in {"unlink",
                                  "committed"} /\ write_set'[u] # <<>> => commit_tid'[u] = u
                      /\ state'[u] = "COMMITED" => pc'[u] = "committed"
                      /\ pc'[u] \in Testing =>
                           idx'[u] \in DOMAIN read_set'[u] /\ Tested(u, TheRead(u))'
    BY DEF CommitInv
  <1>2. CASE u # t
    <2>1. TheRead(u)' = TheRead(u)
      BY <1>0, <1>2 DEF StepOf, TheRead
    <2>2. PICK r : r = TheRead(u)
      OBVIOUS
    <2>3. /\ pc'[u] = pc[u] /\ idx'[u] = idx[u] /\ read_set'[u] = read_set[u]
          /\ commit_tid'[u] = commit_tid[u] /\ state'[u] = state[u] /\ write_set'[u] = write_set[u]
      BY <1>0, <1>2 DEF StepOf
    <2>4. ASSUME pc[u] \in Testing
          PROVE  idx[u] \in DOMAIN read_set[u] /\ Tested(u, TheRead(u))'
      <3>1. idx[u] \in DOMAIN read_set[u] /\ Tested(u, r)
        BY <2>2, <2>4 DEF CommitInv
      <3>2. r.from.txn \in Txns
        BY <2>2, <3>1 DEF Tested, SourceInv, SourceIs, TheRead
      <3>3. Tested(u, r)'
        BY <1>2, <2>4, <3>1, <3>2, TestedKept
      <3>4. QED
        BY <2>1, <2>2, <3>1, <3>3 DEF Tested, ReadIsFinal, IsFinal
    <2>5. QED
      BY <2>3, <2>4 DEF CommitInv
  <1>3. CASE u = t
    <2>1. ASSUME pc'[t] = "install" PROVE commit_tid'[t] = t
      <3>1. CASE GenCommitTid(t) /\ WriteKeys(t) # {}
        BY <1>0, <3>1 DEF GenCommitTid
      <3>2. CASE Install(t)
        <4>1. PICK i, k : InstallOf(t, i, k)
          BY <3>2, InstallIs
        <4>2. QED
          BY <3>2, <4>1, InstallIs DEF InstallOf, CommitInv
      <3>3. QED
        BY <2>1, <3>1, <3>2, Moves
    <2>2. ASSUME pc'[t] \in {"unlink", "committed"}, write_set'[t] # <<>> PROVE commit_tid'[t] = t
      <3>1. CASE GenCommitTid(t) /\ WriteKeys(t) = {}
        <4>1. write_set[t] # <<>>
          BY <2>2, <3>1 DEF GenCommitTid
        <4>2. 1 \in DOMAIN write_set[t]
          BY <1>0, <4>1
        <4>3. QED
          BY <3>1, <4>2 DEF WriteKeys
      <3>2. CASE Install(t)
        <4>1. PICK i, k : InstallOf(t, i, k)
          BY <3>2, InstallIs
        <4>2. QED
          BY <3>2, <4>1, InstallIs DEF InstallOf, CommitInv
      <3>3. CASE UnlinkReads(t) \/ Commit(t)
        BY <2>2, <3>3 DEF UnlinkReads, UnlinkRead, Commit, CommitInv, txn_vars
      <3>4. CASE Reuse(t) /\ pc'[t] = pc[t]
        BY <2>2, <3>4 DEF Reuse, CommitInv, Ended
      <3>5. CASE Abort(t)
        BY <1>0, <2>2, <3>5 DEF Abort
      <3>6. QED
        BY <2>2, <3>1, <3>2, <3>3, <3>4, <3>5, Moves DEF Ended
    <2>3. ASSUME state'[t] = "COMMITED" PROVE pc'[t] = "committed"
      <3>1. CASE Commit(t)
        BY <1>0, <3>1 DEF Commit
      <3>2. CASE ~ Commit(t)
        <4>1. state'[t] = state[t] \/ state'[t] \in {"ABRT", "FINISH_EXEC", "REUSED"}
          BY <1>0, <3>2 DEF Step, Reuse, Access, ExposeLock, Expose, UndoExposed, UnlinkRead,
             RetryPiece, AbortWaiting, UserAbort, CommitDeps, WaitDeps, LockWriteSet,
             ValidateRead, ValidateVersion, ValidateSeq, ValidateIntent, GenCommitTid, Install,
             UnlinkReads, ReleaseWriteSet, UnlinkWrite, UnlinkReadOfAbort, Abort, txn_vars
        <4>2. pc[t] = "committed"
          BY <2>3, <4>1 DEF CommitInv
        <4>3. Reuse(t)
          BY <3>2, <4>2 DEF Step, Access, ExposeLock, Expose, UndoExposed,
             RetryPiece, AbortWaiting, Timeout, Cascade, Targets, UserAbort, CommitDeps, WaitDeps,
             LockWriteSet, ValidateRead, ValidateVersion, ValidateSeq, ValidateIntent,
             GenCommitTid, Install, UnlinkReads,
             ReleaseWriteSet, UnlinkWrite, UnlinkReadOfAbort, Abort
        <4>4. QED
          BY <1>0, <2>3, <4>3 DEF Reuse
      <3>3. QED
        BY <3>1, <3>2
    <2>4. ASSUME pc'[t] \in Testing
          PROVE  idx'[t] \in DOMAIN read_set'[t] /\ Tested(t, TheRead(t))'
      <3>1. PICK r : r = TheRead(t)
        OBVIOUS
      <3>2. CASE pc'[t] = "version"
        <4>1. ValidateRead(t)
          BY <3>2, Moves
        <4>2. /\ idx[t] \in DOMAIN read_set[t] /\ UNCHANGED <<idx, read_set>>
              /\ r.dirty /\ pc[r.from.txn] = "committed"
          BY <3>1, <3>2, <4>1, WriterHasCommitted DEF ValidateRead
        <4>3. TheRead(t)' = r /\ SourceIs(r)
          BY <3>1, <4>2 DEF TheRead, SourceInv
        <4>4. pc'[r.from.txn] = "committed"
          BY <4>2, <4>3, CommittedStays DEF SourceIs
        <4>5. QED
          BY <3>2, <4>2, <4>3, <4>4 DEF Tested
      <3>3. CASE pc'[t] = "seq"
        <4>1. ValidateVersion(t)
          BY <3>3, Moves
        <4>2. /\ UNCHANGED <<idx, read_set, version>> /\ pc[t] = "version"
              /\ version[r.key] = r.from.txn
          BY <3>1, <3>3, <4>1, VersionIsOfSource DEF ValidateVersion, tuple_vars
        <4>3. /\ idx[t] \in DOMAIN read_set[t] /\ r.dirty /\ pc[r.from.txn] = "committed"
          BY <3>1, <4>2 DEF CommitInv, Tested, Testing
        <4>4. TheRead(t)' = r /\ SourceIs(r)
          BY <3>1, <4>2, <4>3 DEF TheRead, SourceInv
        <4>5. pc'[r.from.txn] = "committed"
          BY <4>3, <4>4, CommittedStays DEF SourceIs
        <4>6. QED
          BY <3>3, <4>2, <4>3, <4>4, <4>5 DEF Tested
      <3>4. CASE pc'[t] = "intent"
        <4>1. ValidateSeq(t)
          BY <3>4, Moves
        <4>2. UNCHANGED <<idx, read_set>> /\ pc[t] = "seq"
          BY <1>0, <3>4, <4>1 DEF ValidateSeq, NextRead, FailCommit, Test
        <4>3. /\ idx[t] \in DOMAIN read_set[t] /\ r.dirty /\ pc[r.from.txn] = "committed"
          BY <3>1, <4>2 DEF CommitInv, Tested, Testing
        <4>4. TheRead(t)' = r /\ SourceIs(r)
          BY <3>1, <4>2, <4>3 DEF TheRead, SourceInv
        <4>5. pc'[r.from.txn] = "committed"
          BY <4>3, <4>4, CommittedStays DEF SourceIs
        <4>6. ASSUME AtMostTwo PROVE ReadIsFinal(t, r)'
          <5>1. ReadIsFinal(t, r)
            BY <3>1, <3>4, <4>1, <4>6, SeqIsFinal
          <5>2. QED
            BY <5>1, FinalReadKept
        <4>7. QED
          BY <3>4, <4>2, <4>3, <4>4, <4>5, <4>6 DEF Tested
      <3>5. QED
        BY <2>4, <3>2, <3>3, <3>4 DEF Testing
    <2>5. QED
      BY <1>3, <2>1, <2>2, <2>3, <2>4
  <1>4. QED
    BY <1>2, <1>3

LEMMA ReadsKept ==
  ASSUME TypeOK, ProgramInv, ListInv, CommitInv, ValueInv, SourceInv, ReadInv,
         NEW t \in Txns, Step(t) \/ Reuse(t)
  PROVE  ReadInv'
  <1>0. /\ StepOf(t) /\ pc \in [Txns -> Locations] /\ idx \in [Txns -> Nat]
    BY StepsAreOf DEF TypeOK
  <1> SUFFICES ASSUME NEW u \in Txns, NEW i \in DOMAIN read_set'[u],
                      NEW r, r = read_set'[u][i]
               PROVE  /\ ~ r.dirty => ReadIsFinal(u, r)'
                      /\ r.dirty => r.from.txn # u
                      /\ r.dirty /\ i \in Validated(u)' =>
                           r.from.txn \in Decided' /\ (AtMostTwo => ReadIsFinal(u, r)')
    BY DEF ReadInv, ReadIsFinal, IsFinal
  <1>3. CASE u = t /\ Access(t) /\ NewRead(t, r)
    <2>1. pc'[t] \in Undone \cup {"commit"}
      BY <1>3, PcOfAccess
    <2>2. i \notin Validated(u)'
      BY <1>3, <2>1 DEF Validated, Decided, Validating, Testing, Undone
    <2>a. /\ r \in Reads
          /\ \/ ~ r.dirty /\ r.from = value[r.key]
             \/ ~ r.dirty /\ r.from.txn = t
             \/ r.dirty /\ r.from.txn # t
      <3>1. NewRead(t, r)
        BY <1>3
      <3>2. QED
        BY <3>1, NewReadIs
    <2>3. r.key \in Keys
      BY <2>a DEF Reads
    <2>4. CASE r.dirty
      <3>1. r.from.txn # t
        BY <2>4, <2>a
      <3>2. QED
        BY <1>3, <2>2, <2>4, <3>1
    <2>5. CASE ~ r.dirty
      <3>1. r.from.txn = t \/ r.from = value[r.key]
        BY <2>5, <2>a
      <3>2. ReadIsFinal(t, r)
        BY <2>3, <3>1 DEF ValueInv, ReadIsFinal
      <3>3. ReadIsFinal(t, r)'
        BY <3>2, FinalReadKept
      <3>4. QED
        BY <1>3, <2>5, <3>3
    <2>6. QED
      BY <2>4, <2>5
  <1>4. CASE i \in DOMAIN read_set[u] /\ r = read_set[u][i]
    <2>0. i \in Nat /\ 1 <= i /\ i <= Len(read_set[u]) /\ Len(read_set[u]) \in Nat
          /\ DOMAIN read_set[u] = 1 .. Len(read_set[u])
      <3>1. read_set[u] \in Seq(Reads)
        BY DEF TypeOK
      <3>2. QED
        BY <1>4, <3>1
    <2>1. /\ ~ r.dirty => ReadIsFinal(u, r)'
          /\ r.dirty => r.from.txn # u
      BY <1>4, FinalReadKept DEF ReadInv
    <2>2. SUFFICES ASSUME r.dirty, i \in Validated(u)'
                   PROVE  r.from.txn \in Decided /\ (AtMostTwo => ReadIsFinal(u, r))
      <3>1. r.dirty => r.from.txn \in Txns
        BY <1>4 DEF SourceInv, SourceIs
      <3>2. QED
        BY <2>1, <2>2, <3>1, CommittedStays, FinalReadKept
    <2>3. CASE i \in Validated(u)
      BY <1>4, <2>2, <2>3 DEF ReadInv
    <2>4. CASE i \notin Validated(u)
      <3>0. /\ u \in Decided' \/ (pc'[u] \in Validating /\ i < idx'[u])
            /\ u \notin Decided /\ ~ (pc[u] \in Validating /\ i < idx[u])
        BY <1>4, <2>2, <2>4 DEF Validated
      <3>1. u = t
        <4>1. SUFFICES ASSUME u # t PROVE FALSE
          OBVIOUS
        <4>2. pc'[u] = pc[u] /\ idx'[u] = idx[u]
          BY <1>0, <4>1 DEF StepOf
        <4>3. QED
          BY <3>0, <4>2 DEF Decided
      <3>2. CASE t \in Decided'
        <4>1. GenCommitTid(t)
          <5>1. pc'[t] \in {"install", "unlink", "committed"}
            BY <3>2 DEF Decided
          <5>2. pc[t] \notin {"install", "unlink", "committed"}
            BY <3>0, <3>1 DEF Decided
          <5>3. QED
            BY <5>1, <5>2, Moves DEF Install, UnlinkReads, Commit, Abort, Reuse, Ended
        <4>2. pc[t] = "validate" /\ idx[t] \notin DOMAIN read_set[t]
          BY <4>1 DEF GenCommitTid
        <4>3. idx[t] \in Nat /\ 1 <= idx[t]
          BY <1>0 DEF ProgramInv, InProgram
        <4>4. i < idx[t]
          BY <2>0, <3>1, <4>2, <4>3
        <4>5. QED
          BY <3>0, <3>1, <4>2, <4>4 DEF Validating
      <3>3. CASE pc'[t] \in Validating /\ i < idx'[t]
        <4>1. \/ WaitDeps(t) \/ LockWriteSet(t) \/ Validates(t)
          BY <3>3, Moves DEF Validating, Testing, Validates
        <4>2. CASE WaitDeps(t) \/ LockWriteSet(t)
          <5>1. idx'[t] = idx[t] /\ pc[t] \in {"waitdeps", "lockws"}
            BY <4>2 DEF WaitDeps, LockWriteSet
          <5>2. idx[t] = 1
            BY <5>1 DEF ProgramInv, InProgram
          <5>3. QED
            BY <2>0, <3>3, <5>1, <5>2
        <4>3. CASE Validates(t)
          <5>1. pc[t] \in Validating
            BY <4>3, PcOfValidate
          <5>2. ~ (i < idx[t])
            BY <3>0, <3>1, <5>1
          <5>3. NextRead(t) /\ i = idx[t]
            <6>1. ~ UNCHANGED idx
              BY <3>3, <5>2
            <6>2. NextRead(t)
              BY <4>3, <6>1, PcOfValidate DEF FailCommit, Test
            <6>3. idx'[t] = idx[t] + 1 /\ idx[t] \in Nat
              BY <1>0, <6>2 DEF NextRead
            <6>4. QED
              BY <2>0, <3>3, <5>2, <6>2, <6>3
          <5>4. r = TheRead(t) /\ r.dirty /\ pc'[t] = "validate" /\ ~ UNCHANGED idx
            BY <1>0, <1>4, <2>2, <3>1, <3>3, <5>2, <5>3 DEF TheRead, NextRead
          <5>5. ValidateSeq(t) \/ ValidateIntent(t)
            <6>1. ~ ValidateRead(t)
              BY <5>4 DEF ValidateRead, FailCommit, Test
            <6>2. ~ ValidateVersion(t)
              BY <5>4 DEF ValidateVersion, FailCommit, Test
            <6>3. QED
              BY <4>3, <6>1, <6>2 DEF Validates
          <5>6. pc[t] \in {"seq", "intent"} /\ Tested(t, r)
            BY <5>4, <5>5 DEF ValidateSeq, ValidateIntent, CommitInv, Testing
          <5>7. r.from.txn \in Decided
            <6>1. pc[r.from.txn] = "committed" /\ r.from.txn \in Txns
              BY <1>4, <2>2, <5>6 DEF Tested, SourceInv, SourceIs
            <6>2. QED
              BY <6>1 DEF Decided
          <5>8. ASSUME AtMostTwo PROVE ReadIsFinal(t, r)
            <6>1. CASE ValidateSeq(t)
              BY <5>4, <5>8, <6>1, SeqIsFinal
            <6>2. CASE ValidateIntent(t)
              BY <5>6, <5>8, <6>2 DEF ValidateIntent, Tested
            <6>3. QED
              BY <5>5, <6>1, <6>2
          <5>9. QED
            BY <3>1, <5>7, <5>8
        <4>4. QED
          BY <4>1, <4>2, <4>3
      <3>4. QED
        BY <3>0, <3>1, <3>2, <3>3
    <2>5. QED
      BY <2>3, <2>4
  <1>5. QED
    BY <1>3, <1>4, ReadsAre

-----------------------------------------------------------------------------
(* The theorems *)

TxnInv ==
  TypeOK /\ ProgramInv /\ ListInv /\ UnlinkInv /\ LockInv /\ SourceInv /\ ValueInv /\ ReadInv /\ CommitInv

LEMMA InitTxnInv == Init => TxnInv
  <1> SUFFICES ASSUME Init PROVE TxnInv
    OBVIOUS
  <1>1. TypeOK /\ ProgramInv
    BY InitTypes, InitProgram
  <1>2. \A k \in Keys : Entries(list[k]) = {}
    BY DEF Init, Entries
  <1>3. ListInv /\ UnlinkInv
    BY <1>2 DEF ListInv, UnlinkInv, Init
  <1>4. LockInv
    BY TxnAssumption DEF LockInv, LocksOf, Init, Validating, Testing
  <1>5. SourceInv /\ ReadInv
    BY DEF SourceInv, ReadInv, Init
  <1>6. ValueInv /\ CommitInv
    BY DEF ValueInv, CommitInv, Testing, Init
  <1>7. QED
    BY <1>1, <1>3, <1>4, <1>5, <1>6 DEF TxnInv

LEMMA TxnInvKept == TxnInv /\ [Next]_vars => TxnInv'
  <1> SUFFICES ASSUME TxnInv, [Next]_vars PROVE TxnInv'
    OBVIOUS
  <1>0. TypeOK /\ ProgramInv /\ ListInv /\ UnlinkInv /\ LockInv /\ SourceInv /\ ValueInv /\ ReadInv
        /\ CommitInv
    BY DEF TxnInv
  <1>1. TypeOK' /\ ProgramInv'
    BY <1>0, TypesKept, ProgramKept
  <1>2. CASE UNCHANGED vars
    <2>1. UNCHANGED <<program, policy, pc, at, idx, state, commit_tid, read_set, write_set, piece,
                      version, value, last_writer_seq, list, lock, write_intent, installed>>
      BY <1>2 DEF vars, txn_vars, tuple_vars
    <2>2. ListInv' /\ UnlinkInv'
      BY <1>0, <2>1 DEF ListInv, EntryIsOf, UnlinkInv, Unlinked
    <2>3. LockInv'
      BY <1>0, <2>1 DEF LockInv, LocksOf, StillToInstall, WriteKeys, Held
    <2>4. SourceInv'
      BY <1>0, <2>1 DEF SourceInv, SourceIs
    <2>5. ValueInv' /\ ReadInv' /\ CommitInv'
      <3>1. /\ \A t, r : ReadIsFinal(t, r)' <=> ReadIsFinal(t, r)
            /\ \A t : Validated(t)' = Validated(t)
            /\ Decided' = Decided
        BY <2>1 DEF ReadIsFinal, IsFinal, Decided, Validated
      <3>2. ValueInv'
        BY <1>0, <2>1 DEF ValueInv, IsFinal, Decided
      <3>3. ReadInv'
        BY <1>0, <2>1, <3>1 DEF ReadInv
      <3>4. CommitInv'
        BY <1>0, <2>1, <3>1 DEF CommitInv, Tested, TheRead
      <3>5. QED
        BY <3>2, <3>3, <3>4
    <2>6. QED
      BY <1>1, <2>2, <2>3, <2>4, <2>5 DEF TxnInv
  <1>3. ASSUME NEW t \in Txns, Step(t) \/ Reuse(t) PROVE TxnInv'
    BY <1>0, <1>1, <1>3, ListKept, UnlinkedKept, LocksKept, SourcesKept, ValuesKept, ReadsKept,
       CommitsKept DEF TxnInv
  <1>4. QED
    BY <1>2, <1>3 DEF Next, Terminated

THEOREM TxnInvariant == Spec => []TxnInv
  BY InitTxnInv, TxnInvKept, PTL DEF Spec

\* An ended transaction leaves no entry and no lock behind, and every entry is of
\* an access that its transaction counts.
THEOREM NothingIsLeftBehind == Spec => []NothingLeftBehind
  <1>1. TxnInv => NothingLeftBehind
    <2> SUFFICES ASSUME TxnInv PROVE NothingLeftBehind
      OBVIOUS
    <2>1. ASSUME NEW t \in Txns, pc[t] \in Ended, NEW k \in Keys
          PROVE  lock[k] # t /\ \A e \in Entries(list[k]) : e.txn # t
      BY <2>1 DEF TxnInv, LockInv, LocksOf, UnlinkInv, Unlinked, Ended, Locking, Writing,
         Validating, Testing
    <2>2. \A k \in Keys : \A e \in Entries(list[k]) : EntryIsOf(e, k)
      BY DEF TxnInv, ListInv
    <2>3. QED
      BY <2>1, <2>2 DEF NothingLeftBehind, EntryIsOf
  <1>2. QED
    BY <1>1, TxnInvariant, PTL

\* What a transaction has read dirty stays exposed until its writer installs or
\* aborts.
THEOREM SourcesStayExposed == Spec => []DirtyReadsHaveSource
  <1>1. TxnInv => DirtyReadsHaveSource
    BY DEF TxnInv, SourceInv, SourceIs, DirtyReadsHaveSource, Leaving
  <1>2. QED
    BY <1>1, TxnInvariant, PTL

\* A transaction that decides to commit has read, besides loaded records and its
\* own writes, only what transactions wrote that commit, too: however many there are,
\* no write of an aborted one, or of an undone piece, gets through.
THEOREM CommitsReadCommitted == Spec => []CommittedReadsAreCommitted
  <1>1. TxnInv => CommittedReadsAreCommitted
    <2> SUFFICES ASSUME TxnInv, NEW t \in Decided, NEW i \in DOMAIN read_set[t],
                        read_set[t][i].from.txn \notin {V0, t}
                 PROVE  LET r == read_set[t][i]  d == r.from.txn IN
                        /\ d \in Decided
                        /\ r.from.pos \in DOMAIN write_set[d]
                        /\ write_set[d][r.from.pos] = r.key
      BY DEF CommittedReadsAreCommitted
    <2>1. t \in Txns
      BY DEF Decided
    <2>2. CASE read_set[t][i].dirty
      <3>1. SourceIs(read_set[t][i])
        BY <2>1, <2>2 DEF TxnInv, SourceInv
      <3>2. read_set[t][i].from.txn \in Decided
        BY <2>1, <2>2 DEF TxnInv, ReadInv, Validated
      <3>3. QED
        BY <3>1, <3>2 DEF SourceIs
    <2>3. CASE ~ read_set[t][i].dirty
      <3>1. ReadIsFinal(t, read_set[t][i])
        BY <2>1, <2>3 DEF TxnInv, ReadInv
      <3>2. QED
        BY <3>1 DEF ReadIsFinal, IsFinal
    <2>4. QED
      BY <2>2, <2>3
  <1>2. QED
    BY <1>1, TxnInvariant, PTL

-----------------------------------------------------------------------------
(* What commit waits for *)

LEMMA StatesKept ==
  ASSUME TypeOK, ProgramInv, StateInv, NEW t \in Txns, Step(t) \/ Reuse(t)
  PROVE  StateInv'
  <1> SUFFICES ASSUME NEW u \in Txns, Resolved(u)' PROVE pc'[u] \in Leaving
    BY DEF StateInv
  <1>0. StepOf(t) /\ pc \in [Txns -> Locations]
        /\ state \in [Txns -> {"ACTIVE", "FINISH_EXEC", "COMMITED", "ABRT", "REUSED"}]
    BY StepsAreOf DEF TypeOK
  <1>1. CASE state'[u] = state[u]
    <2>1. Resolved(u)
      BY <1>1 DEF Resolved, is_commit, is_abort
    <2>2. pc[u] \in Leaving
      BY <2>1 DEF StateInv
    <2>3. QED
      BY <1>0, <2>2, LeavingIsForEver DEF StepOf
  <1>2. CASE state'[u] # state[u]
    <2>1. u = t
      BY <1>0, <1>2 DEF StepOf
    <2>2. state'[t] # "FINISH_EXEC"
      BY <2>1 DEF Resolved, is_commit, is_abort
    <2>3. AbortWaiting(t) \/ Commit(t) \/ Abort(t) \/ Reuse(t)
      BY <1>0, <1>2, <2>1, <2>2 DEF Step, Access, ExposeLock, Expose, UndoExposed, UnlinkRead,
         RetryPiece,
         UserAbort, CommitDeps, WaitDeps, LockWriteSet, ValidateRead, ValidateVersion, ValidateSeq,
         ValidateIntent, GenCommitTid,
         Install, UnlinkReads, ReleaseWriteSet, UnlinkWrite, UnlinkReadOfAbort, txn_vars
    <2>4. QED
      BY <1>0, <2>1, <2>3 DEF AbortWaiting, Commit, Abort, Reuse, Leaving, Ended
  <1>3. QED
    BY <1>1, <1>2

\* Dependencies are only added.
LEMMA DepsGrow ==
  ASSUME NEW q \in [Txns -> {"none", "order", "dirty"}], NEW ds, NEW kind \in {"order", "dirty"},
         NEW d \in Txns
  PROVE  /\ q[d] # "none" => add_dep_txn(q, ds, kind)[d] # "none"
         /\ d \in ds => add_dep_txn(q, ds, kind)[d] # "none"
  BY DEF add_dep_txn

\* What a step does to what a transaction depends on: a retry goes back to what
\* the exposed pieces depend on, and only an exposure changes that.
DepStep(t) ==
  /\ \A u \in Txns \ {t} : dep_queue'[u] = dep_queue[u]
  /\ \A d \in Txns : dep_queue[t][d] # "none" /\ (RetryPiece(t) => d \in piece[t].deps) =>
       dep_queue'[t][d] # "none"
  /\ piece'[t] # piece[t] =>
       pc[t] = "exposing" /\ ExposeOk(t) /\ piece'[t].deps = {d \in Txns : dep_queue'[t][d] # "none"}
       /\ piece'[t].reads = Len(read_set[t])

LEMMA DepSteps ==
  ASSUME TypeOK, NEW t \in Txns, Step(t) \/ Reuse(t)
  PROVE  DepStep(t)
  <1>0. /\ dep_queue \in [Txns -> [Txns -> {"none", "order", "dirty"}]]
        /\ dep_queue[t] \in [Txns -> {"none", "order", "dirty"}]
        /\ piece \in [Txns -> Pieces]
    BY DEF TypeOK
  <1>1. CASE Expose(t)
    <2>1. CASE ExposeOk(t)
      <3>1. PICK ds, before :
              /\ dep_queue' = [dep_queue EXCEPT ![t] =
                   add_dep_txn(add_dep_txn(dep_queue[t], ds, "dirty"), before, "order")]
              /\ piece' = [piece EXCEPT ![t] =
                   [reads |-> Len(read_set[t]), writes |-> Len(write_set[t]), at |-> at[t],
                    deps |-> {d \in Txns :
                      add_dep_txn(add_dep_txn(dep_queue[t], ds, "dirty"), before,
                      "order")[d] # "none"}]]
        BY <2>1 DEF ExposeOk
      <3>2. PICK p : p = add_dep_txn(dep_queue[t], ds, "dirty")
        OBVIOUS
      <3>3. PICK q : q = add_dep_txn(p, before, "order")
        OBVIOUS
      <3>4. p \in [Txns -> {"none", "order", "dirty"}]
        BY <1>0, <3>2, DepTypes
      <3>5. dep_queue'[t] = q /\ \A u \in Txns \ {t} : dep_queue'[u] = dep_queue[u]
        BY <1>0, <3>1, <3>2, <3>3
      <3>6. piece'[t].deps = {d \in Txns : q[d] # "none"} /\ piece'[t].reads = Len(read_set[t])
        BY <1>0, <3>1, <3>2, <3>3
      <3>7. \A d \in Txns : dep_queue[t][d] # "none" => q[d] # "none"
        BY <1>0, <3>2, <3>3, <3>4, DepsGrow
      <3>8. pc[t] = "exposing"
        BY <1>1 DEF Expose
      <3>9. QED
        BY <2>1, <3>5, <3>6, <3>7, <3>8 DEF DepStep
    <2>2. CASE ExposeFails(t)
      <3>1. PICK ds : dep_queue' = [dep_queue EXCEPT ![t] = add_dep_txn(dep_queue[t], ds, "dirty")]
        BY <2>2 DEF ExposeFails
      <3>2. /\ dep_queue'[t] = add_dep_txn(dep_queue[t], ds, "dirty")
            /\ \A u \in Txns \ {t} : dep_queue'[u] = dep_queue[u]
        BY <1>0, <3>1
      <3>3. UNCHANGED piece
        BY <2>2 DEF ExposeFails
      <3>4. QED
        BY <1>0, <3>2, <3>3, DepsGrow DEF DepStep
    <2>3. QED
      BY <1>1, <2>1, <2>2 DEF Expose
  <1>2. CASE RetryPiece(t)
    BY <1>0, <1>2 DEF RetryPiece, DepStep
  <1>3. CASE CommitDeps(t)
    <2>1. PICK ds : dep_queue' = [dep_queue EXCEPT ![t] = add_dep_txn(dep_queue[t], ds, "dirty")]
      BY <1>3 DEF CommitDeps
    <2>2. /\ dep_queue'[t] = add_dep_txn(dep_queue[t], ds, "dirty")
          /\ \A u \in Txns \ {t} : dep_queue'[u] = dep_queue[u]
      BY <1>0, <2>1
    <2>3. UNCHANGED piece
      BY <1>3 DEF CommitDeps
    <2>4. QED
      BY <1>0, <2>2, <2>3, DepsGrow DEF DepStep
  <1>4. CASE ~ Expose(t) /\ ~ RetryPiece(t) /\ ~ CommitDeps(t)
    <2>1. UNCHANGED <<dep_queue, piece>>
      BY <1>4 DEF Step, Reuse, Access, ExposeLock, UndoExposed, UnlinkRead, AbortWaiting,
         UserAbort, WaitDeps, LockWriteSet, ValidateRead, ValidateVersion, ValidateSeq,
         ValidateIntent, GenCommitTid,
         Install, UnlinkReads, Commit, ReleaseWriteSet, UnlinkWrite, UnlinkReadOfAbort, Abort,
         txn_vars
    <2>2. QED
      BY <2>1 DEF DepStep
  <1>5. QED
    BY <1>1, <1>2, <1>3, <1>4

LEMMA DepsKept ==
  ASSUME TypeOK, ProgramInv, DepsInv, NEW t \in Txns, Step(t) \/ Reuse(t)
  PROVE  DepsInv'
  <1> SUFFICES ASSUME NEW u \in Txns, NEW d \in piece'[u].deps PROVE dep_queue'[u][d] # "none"
    BY DEF DepsInv
  <1>0. StepOf(t) /\ DepStep(t)
    BY StepsAreOf, DepSteps
  <1>1. CASE u # t
    BY <1>0, <1>1 DEF StepOf, DepStep, DepsInv
  <1>2. CASE u = t /\ piece'[t] = piece[t]
    <2>1. d \in piece[t].deps /\ piece[t] \in Pieces
      BY <1>2 DEF TypeOK
    <2>2. d \in Txns /\ dep_queue[t][d] # "none"
      BY <2>1 DEF DepsInv, Pieces
    <2>3. QED
      BY <1>0, <1>2, <2>1, <2>2 DEF DepStep
  <1>3. CASE u = t /\ piece'[t] # piece[t]
    BY <1>0, <1>3 DEF DepStep
  <1>4. QED
    BY <1>1, <1>2, <1>3

\* The source of a dirty read that is not exposed yet is found in the tuple's list.
LEMMA SourceIsLatest ==
  ASSUME TypeOK, SourceInv, StateInv, NEW t \in Txns, NEW i \in DOMAIN read_set[t],
         read_set[t][i].dirty, DirtyReadIs(t, i), i > piece[t].reads, pc[t] \notin Leaving,
         pc[read_set[t][i].from.txn] \notin Leaving
  PROVE  read_set[t][i].from.txn \in Running(t, ReadDeps(t, Len(read_set[t])))
  <1>1. PICK r : r = read_set[t][i]
    OBVIOUS
  <1>2. PICK d : d = r.from.txn
    OBVIOUS
  <1>3. r \in Reads /\ r.key \in Keys /\ i \in PieceReads(t) /\ i <= Len(read_set[t])
    <2>1. read_set[t] \in Seq(Reads) /\ piece[t].reads \in Nat
      BY DEF TypeOK, Pieces
    <2>2. r \in Reads
      BY <1>1, <2>1
    <2>3. i \in PieceReads(t) /\ i <= Len(read_set[t])
      BY <2>1 DEF PieceReads
    <2>4. QED
      BY <2>2, <2>3 DEF Reads
  <1>4. PICK k \in Keys : k = r.key
    BY <1>3
  <1>5. /\ ~ r.occ /\ d # t /\ d \in Txns /\ LatestIs(k, d)
        /\ Entry(d, "w", r.from.pos) \in Entries(list[k])
    BY <1>1, <1>2, <1>4 DEF DirtyReadIs, Awaited, SourceInv, SourceIs
  <1>6. list[k] \in Seq(EntrySpace)
    BY DEF TypeOK
  <1>7. get_dependent_entry(list[k]) # {}
    <2>1. PICK n \in DOMAIN list[k] : list[k][n] = Entry(d, "w", r.from.pos)
      BY <1>5 DEF Entries
    <2>2. n \in Writes(list[k])
      BY <2>1 DEF Writes, Entry
    <2>3. QED
      BY <2>2 DEF get_dependent_entry
  <1>8. PICK e \in Entries(list[k]) : e.op = "w" /\ get_dependent_entry(list[k]) = {e}
    BY <1>6, <1>7, DependentEntry
  <1>9. e.txn = d
    BY <1>5, <1>8 DEF LatestIs
  <1>10. e \in ReadDeps(t, Len(read_set[t]))
    BY <1>1, <1>3, <1>4, <1>5, <1>8 DEF ReadDeps
  <1>11. ~ is_commit(d)
    BY <1>1, <1>2, <1>5 DEF StateInv, Resolved
  <1>12. QED
    BY <1>1, <1>2, <1>5, <1>9, <1>10, <1>11 DEF Running

\* What the piece of a transaction depends on, once it is exposed, and what its
\* commit waits for, are the sources of its dirty reads among others.
LEMMA SourcesAreDeps ==
  ASSUME TypeOK, SourceInv, StateInv, DepsInv, NEW t \in Txns,
         NEW i \in DOMAIN read_set[t], read_set[t][i].dirty, DirtyReadIs(t, i),
         pc[t] \notin Leaving,
         pc[read_set[t][i].from.txn] \notin Leaving, CommitDeps(t) \/ (Expose(t) /\ ExposeOk(t))
  PROVE  dep_queue'[t][read_set[t][i].from.txn] # "none"
  <1>1. PICK d \in Txns : d = read_set[t][i].from.txn
    BY DEF SourceInv, SourceIs
  <1>2. PICK ds : ds = Running(t, ReadDeps(t, Len(read_set[t])))
    OBVIOUS
  <1>3. /\ dep_queue \in [Txns -> [Txns -> {"none", "order", "dirty"}]]
        /\ dep_queue[t] \in [Txns -> {"none", "order", "dirty"}]
    BY DEF TypeOK
  <1>4. dep_queue[t][d] # "none" \/ d \in ds
    <2>1. CASE i > piece[t].reads
      BY <1>1, <1>2, <2>1, SourceIsLatest
    <2>2. CASE i <= piece[t].reads
      BY <1>1, <2>2 DEF DirtyReadIs, Awaited, DepsInv
    <2>3. piece[t].reads \in Nat /\ i \in Nat
      BY DEF TypeOK, Pieces
    <2>4. QED
      BY <2>1, <2>2, <2>3
  <1>5. PICK p : p = add_dep_txn(dep_queue[t], ds, "dirty")
    OBVIOUS
  <1>6. p \in [Txns -> {"none", "order", "dirty"}] /\ p[d] # "none"
    BY <1>3, <1>4, <1>5, DepTypes, DepsGrow
  <1>7. CASE CommitDeps(t)
    <2>1. dep_queue' = [dep_queue EXCEPT ![t] = p]
      BY <1>2, <1>5, <1>7 DEF CommitDeps
    <2>2. QED
      BY <1>1, <1>3, <1>6, <2>1
  <1>8. CASE ExposeOk(t)
    <2>1. PICK before : dep_queue' = [dep_queue EXCEPT ![t] = add_dep_txn(p, before, "order")]
      BY <1>2, <1>5, <1>8 DEF ExposeOk
    <2>2. add_dep_txn(p, before, "order")[d] # "none"
      BY <1>6, DepsGrow
    <2>3. QED
      BY <1>1, <1>3, <2>1, <2>2
  <1>9. QED
    BY <1>7, <1>8

\* How a transaction gets to where commit waits, and past it.
LEMMA WaitMoves ==
  ASSUME TypeOK, ProgramInv, NEW t \in Txns, Step(t) \/ Reuse(t)
  PROVE  /\ pc'[t] = "waitdeps" => CommitDeps(t)
         /\ pc'[t] \in Waited => pc[t] \in Waited \/ WaitDeps(t)
  <1> USE DEF Ended, Waited, Validating, Testing
  <1>0. pc \in [Txns -> Locations]
    BY DEF TypeOK
  <1>1. CASE Access(t) \/ ExposeLock(t) \/ Expose(t) \/ RetryPiece(t)
    BY <1>1, PcOfAccess DEF Undone
  <1>2. CASE UndoExposed(t) \/ UnlinkReads(t) \/ UnlinkWrite(t) \/ UnlinkReadOfAbort(t)
    BY <1>2, PcOfUnlink DEF txn_vars
  <1>3. CASE CommitDeps(t) \/ WaitDeps(t) \/ LockWriteSet(t) \/ UserAbort(t)
    BY <1>0, <1>3 DEF CommitDeps, WaitDeps, LockWriteSet, UserAbort
  <1>4. CASE AbortWaiting(t)
    BY <1>0, <1>4 DEF AbortWaiting
  <1>5. CASE Validates(t)
    BY <1>5, PcOfValidate
  <1>6. CASE GenCommitTid(t) \/ Install(t) \/ Commit(t) \/ ReleaseWriteSet(t) \/ Abort(t) \/ Reuse(t)
    <2>1. CASE Install(t)
      BY <2>1, PcOfEnd, InstallIs
    <2>2. CASE ~ Install(t)
      BY <1>0, <1>6, <2>2 DEF GenCommitTid, Commit, ReleaseWriteSet, Abort, Reuse
    <2>3. QED
      BY <2>1, <2>2
  <1>7. QED
    BY <1>1, <1>2, <1>3, <1>4, <1>5, <1>6 DEF Step, Validates

LEMMA AwaitKept ==
  ASSUME TypeOK, ProgramInv, ListInv, SourceInv, StateInv, DepsInv, AwaitInv, AtMostTwo,
         NEW t \in Txns, Step(t) \/ Reuse(t)
  PROVE  AwaitInv'
  <1> SUFFICES ASSUME NEW u \in Txns, NEW i \in DOMAIN read_set'[u], read_set'[u][i].dirty
               PROVE  DirtyReadIs(u, i)'
    BY DEF AwaitInv
  <1>0. /\ StepOf(t) /\ DepStep(t) /\ pc \in [Txns -> Locations] /\ piece \in [Txns -> Pieces]
        /\ write_set \in [Txns -> Seq(Keys)] /\ read_set \in [Txns -> Seq(Reads)]
        /\ piece[t].reads \in Nat /\ piece[t].writes \in Nat /\ piece[t].writes <= Len(write_set[t])
        /\ piece[t].reads <= Len(read_set[t])
    BY StepsAreOf, DepSteps DEF TypeOK, Pieces, ProgramInv, InProgram
  <1>1. PICK r : r = read_set'[u][i]
    OBVIOUS
  <1>2. PICK d : d = r.from.txn
    OBVIOUS
  <1>3. \A w \in Txns : pc'[w] \notin Leaving => pc[w] \notin Leaving
    BY <1>0, LeavingIsForEver DEF StepOf
  <1>4. ASSUME i \in DOMAIN read_set[u], read_set'[u][i] = read_set[u][i]
        PROVE  DirtyReadIs(u, i)'
    <2>1. DirtyReadIs(u, i) /\ read_set[u][i] = r /\ r.dirty /\ SourceIs(r) /\ d \in Txns
      <3>1. DirtyReadIs(u, i) /\ SourceIs(read_set[u][i])
        BY <1>4 DEF AwaitInv, SourceInv
      <3>2. QED
        BY <1>1, <1>2, <1>4, <3>1 DEF SourceIs
    <2>2. ~ r.occ /\ d # u
      BY <1>2, <2>1 DEF DirtyReadIs
    <2>3. ASSUME pc'[d] \notin Leaving, pc'[u] \notin Leaving, i > piece'[u].reads
          PROVE  LatestIs(r.key, d)'
      <3>1. pc[d] \notin Leaving /\ pc[u] \notin Leaving
        BY <1>3, <2>1, <2>3
      <3>2. ~ (u = t /\ piece'[t] # piece[t])
        BY <1>0, <1>4, <2>3 DEF DepStep
      <3>3. i > piece[u].reads
        BY <1>0, <2>3, <3>2 DEF StepOf
      <3>4. LatestIs(r.key, d)
        BY <1>2, <2>1, <3>1, <3>3 DEF DirtyReadIs, Awaited
      <3>5. t = u \/ t = d
        BY <2>1, <2>2 DEF AtMostTwo
      <3>6. pc[t] \notin {"install", "unlink_abort"}
        BY <3>1, <3>5 DEF Leaving
      <3>7. t = u => ~ ExposeOk(t)
        <4>1. SUFFICES ASSUME t = u, ExposeOk(t) PROVE piece'[t].reads = Len(read_set[t])
          BY <1>0, <1>4, <2>3
        <4>2. QED
          BY <1>0, <4>1 DEF ExposeOk
      <3>8. r.key \in Keys
        <4>1. read_set[u] \in Seq(Reads) /\ i \in DOMAIN read_set[u]
          BY <1>0, <1>4
        <4>2. r \in Reads
          BY <2>1, <4>1
        <4>3. QED
          BY <4>2 DEF Reads
      <3>9. ASSUME NEW e \in get_dependent_entry(list'[r.key]) PROVE e.txn = d
        <4>1. e \in get_dependent_entry(list[r.key]) \/ (e.txn = t /\ ExposeOk(t))
          BY <3>6, <3>8, DependentKept
        <4>2. QED
          BY <3>4, <3>5, <3>7, <4>1 DEF LatestIs
      <3>10. QED
        BY <3>9 DEF LatestIs
    <2>4. ASSUME pc'[d] \notin Leaving PROVE Awaited(u, i, d)'
      <3>0. pc[d] \notin Leaving /\ Awaited(u, i, d)
        BY <1>2, <1>3, <2>1, <2>4 DEF DirtyReadIs
      <3>a. i > piece'[u].reads /\ pc'[u] \notin Leaving => LatestIs(read_set[u][i].key, d)'
        BY <1>1, <2>3, <2>4
      <3>1. CASE u # t
        BY <1>0, <3>0, <3>1, <3>a DEF StepOf, DepStep, Awaited
      <3>2. CASE u = t
        <4>1. i <= piece'[t].reads => d \in piece'[t].deps
          <5>1. CASE piece'[t] = piece[t]
            BY <3>0, <3>2, <5>1 DEF Awaited
          <5>2. CASE piece'[t] # piece[t]
            <6>1. Expose(t) /\ ExposeOk(t) /\ piece'[t].deps = {x \in Txns : dep_queue'[t][x] # "none"}
              <7>1. pc[t] = "exposing" /\ ExposeOk(t)
                    /\ piece'[t].deps = {x \in Txns : dep_queue'[t][x] # "none"}
                BY <1>0, <5>2 DEF DepStep
              <7>2. Expose(t)
                BY <5>2, <7>1 DEF Step, Reuse, Access, ExposeLock, UndoExposed, UnlinkRead,
                   RetryPiece,
                   AbortWaiting, UserAbort, CommitDeps, WaitDeps, LockWriteSet, ValidateRead,
                   ValidateVersion, ValidateSeq, ValidateIntent, GenCommitTid, Install, UnlinkReads,
                   Commit, ReleaseWriteSet, UnlinkWrite, UnlinkReadOfAbort, Abort, txn_vars
              <7>3. QED
                BY <7>1, <7>2
            <6>2. dep_queue'[t][d] # "none"
              <7>1. pc[t] \notin Leaving
                BY <6>1 DEF Expose, Leaving, Ended
              <7>2. QED
                BY <1>2, <1>4, <2>1, <3>0, <3>2, <6>1, <7>1, SourcesAreDeps
            <6>3. QED
              BY <2>1, <6>1, <6>2
          <5>3. QED
            BY <5>1, <5>2
        <4>2. pc'[t] = "waitdeps" => dep_queue'[t][d] # "none"
          <5>1. SUFFICES ASSUME CommitDeps(t) PROVE dep_queue'[t][d] # "none"
            BY WaitMoves
          <5>2. pc[t] \notin Leaving
            BY <5>1 DEF CommitDeps, Leaving, Ended
          <5>3. QED
            BY <1>2, <1>4, <2>1, <3>0, <3>2, <5>1, <5>2, SourcesAreDeps
        <4>3. pc'[t] \notin Waited
          <5>1. SUFFICES ASSUME WaitDeps(t) PROVE FALSE
            BY <3>0, <3>2, WaitMoves DEF Awaited
          <5>2. dep_queue[t][d] # "none" /\ ~ WaitsFor(t, d, WaitCommit)
            BY <2>1, <3>0, <3>2, <5>1 DEF Awaited, WaitDeps, WaitIsOver
          <5>3. Resolved(d)
            BY <5>2, TxnAssumption DEF WaitsFor
          <5>4. QED
            BY <2>1, <3>0, <5>3 DEF StateInv
        <4>4. QED
          BY <3>2, <3>a, <4>1, <4>2, <4>3 DEF Awaited
      <3>3. QED
        BY <3>1, <3>2
    <2>5. QED
      BY <1>1, <1>2, <2>2, <2>4 DEF DirtyReadIs
  <1>5. ASSUME u = t, Access(t), NewRead(t, r), i \notin DOMAIN read_set[t]
        PROVE  DirtyReadIs(u, i)'
    <2>1. r \in Reads /\ r.key \in Keys /\ ~ r.occ /\ d # t /\ ReadOfEntry(r)
      <3>1. r \in Reads /\ ~ r.occ /\ d # t /\ ReadOfEntry(r)
        BY <1>1, <1>2, <1>5, NewReadIs
      <3>2. QED
        BY <3>1 DEF Reads
    <2>2. piece' = piece /\ list' = list /\ pc'[t] \in Undone \cup {"commit"}
      BY <1>5, PcOfAccess DEF Access, tuple_vars
    <2>3. ~ (i <= piece'[t].reads)
      <3>1. read_set'[t] \in Seq(Reads)
        BY TypesKept DEF TypeOK, Next
      <3>2. i \in Nat /\ 1 <= i
        BY <1>5, <3>1
      <3>3. QED
        BY <1>0, <1>5, <2>2, <3>2
    <2>4. LatestIs(r.key, d)'
      <3>1. LatestIs(r.key, d)
        <4>1. PICK e \in Entries(list[r.key]) :
                r.from = [txn |-> e.txn, pos |-> e.pos] /\ get_dependent_entry(list[r.key]) = {e}
          BY <2>1 DEF ReadOfEntry
        <4>2. e.txn = d
          BY <1>2, <4>1
        <4>3. QED
          BY <4>1, <4>2 DEF LatestIs
      <3>2. QED
        BY <2>2, <3>1 DEF LatestIs
    <2>5. Awaited(t, i, d)'
      BY <1>1, <1>5, <2>2, <2>3, <2>4 DEF Awaited, Undone, Waited, Validating, Testing
    <2>6. QED
      BY <1>1, <1>2, <1>5, <2>1, <2>5 DEF DirtyReadIs
  <1>6. QED
    <2>1. CASE i \in DOMAIN read_set[u] /\ read_set'[u][i] = read_set[u][i]
      BY <1>4, <2>1
    <2>2. CASE u = t /\ Access(t) /\ NewRead(t, r) /\ i \notin DOMAIN read_set[t]
      BY <1>5, <2>2
    <2>3. CASE u = t /\ Access(t) /\ i \in DOMAIN read_set[t]
      <3>1. ~ RetryPiece(t)
        BY <2>3 DEF Access, RetryPiece
      <3>2. read_set'[t][i] = read_set[t][i]
        BY <1>0, <2>3, <3>1 DEF StepOf
      <3>3. QED
        BY <1>4, <2>3, <3>2
    <2>4. QED
      BY <1>1, <2>1, <2>2, <2>3, ReadsAre

-----------------------------------------------------------------------------
(* The optimistic policy, and any policy of two transactions, is serializable *)

LEMMA PolicyKept == ASSUME NEW t \in Txns, Step(t) \/ Reuse(t) PROVE policy' = policy
  BY DEF Step, Reuse, Access, ExposeLock, Expose, UndoExposed, UnlinkRead, RetryPiece, AbortWaiting,
       UserAbort, CommitDeps, WaitDeps, LockWriteSet, ValidateRead, ValidateVersion, ValidateSeq,
       ValidateIntent, GenCommitTid,
       Install, UnlinkReads, Commit, ReleaseWriteSet, UnlinkWrite, UnlinkReadOfAbort, Abort,
       txn_vars

LEMMA CleanKept ==
  ASSUME TypeOK, ProgramInv, ListInv, ValueInv, CleanInv, NEW t \in Txns, Step(t) \/ Reuse(t)
  PROVE  CleanInv'
  <1> SUFFICES ASSUME NEW u \in Txns, NEW i \in DOMAIN read_set'[u]
               PROVE  /\ policy.occ = {TRUE} => ~ read_set'[u][i].dirty
                      /\ ~ read_set'[u][i].dirty /\ read_set'[u][i].from.txn # u =>
                           read_set'[u][i].from.txn = read_set'[u][i].clean_tid
    BY PolicyKept DEF CleanInv
  <1>1. PICK r : r = read_set'[u][i]
    OBVIOUS
  <1>2. CASE i \in DOMAIN read_set[u] /\ read_set'[u][i] = read_set[u][i]
    BY <1>2 DEF CleanInv
  <1>3. CASE u = t /\ NewRead(t, r)
    <2>1. /\ r \in Reads /\ r.occ \in policy.occ
          /\ \/ ~ r.dirty /\ r.from = value[r.key] /\ r.clean_tid = version[r.key]
             \/ ~ r.dirty /\ ~ r.occ /\ r.from.txn = t
             \/ r.dirty /\ ~ r.occ /\ r.from.txn # t /\ ReadOfEntry(r)
      BY <1>3, NewReadIs
    <2>2. version[r.key] = value[r.key].txn
      BY <2>1 DEF ValueInv, Reads
    <2>3. policy.occ = {TRUE} => r.occ
      <3>1. PICK o \in BOOLEAN : o = r.occ /\ o \in policy.occ
        BY <2>1 DEF Reads
      <3>2. policy.occ = {TRUE} => o
        BY <3>1
      <3>3. QED
        BY <3>1, <3>2
    <2>4. QED
      BY <1>1, <1>3, <2>1, <2>2, <2>3
  <1>4. QED
    BY <1>1, <1>2, <1>3, ReadsAre

LEMMA InstallsKept ==
  ASSUME TypeOK, ProgramInv, UnlinkInv, LockInv, CommitInv, InstalledInv, NEW t \in Txns,
  Step(t) \/ Reuse(t)
  PROVE  InstalledInv'
  <1> SUFFICES ASSUME NEW k \in Keys PROVE InstallsOf(k)'
    BY DEF InstalledInv
  <1>0. /\ StepOf(t) /\ InstallsOf(k) /\ installed[k] \in Seq(Versions) /\ Len(installed[k]) \in Nat
        /\ pc \in [Txns -> Locations] /\ installed \in [Keys -> Seq(Versions)]
        /\ version \in [Keys -> Versions \cup {NONE}]
    BY StepsAreOf DEF InstalledInv, TypeOK
  <1>1. ASSUME NEW a \in Txns, HasInstalled(a, k) PROVE HasInstalled(a, k)'
    <2>1. CASE a # t
      <3>1. pc'[a] = pc[a] /\ write_set'[a] = write_set[a] /\ idx'[a] = idx[a]
        BY <1>0, <2>1 DEF StepOf
      <3>2. QED
        BY <1>1, <3>1 DEF HasInstalled, Decided, StillToInstall
    <2>2. CASE a = t
      <3>1. pc[t] \in {"install", "unlink", "committed"} /\ pc'[t] \in {"install", "unlink",
      "committed"}
        BY <1>1, <2>2, LeavingIsForEver DEF Leaving, Ended, HasInstalled, Decided
      <3>2. ASSUME pc'[t] = "install" PROVE ~ StillToInstall(t, k)'
        <4>1. pc[t] = "install" /\ Install(t)
          BY <3>1, <3>2, Moves DEF GenCommitTid, Install
        <4>2. PICK i, j : InstallOf(t, i, j)
          BY <4>1, InstallIs
        <4>3. /\ idx'[t] = idx[t] + 1 /\ idx[t] \in Nat /\ write_set' = write_set
              /\ write_set[t] \in Seq(Keys)
          BY <4>2 DEF InstallOf, TypeOK
        <4>4. \A m \in DOMAIN write_set[t] : m >= idx[t] + 1 => m >= idx[t]
          BY <4>3
        <4>5. QED
          BY <1>1, <2>2, <4>1, <4>3, <4>4 DEF HasInstalled, StillToInstall
      <3>3. QED
        BY <2>2, <3>1, <3>2 DEF HasInstalled, Decided
    <2>3. QED
      BY <2>1, <2>2
  <1>2. CASE installed'[k] = installed[k] /\ version'[k] = version[k]
    <2>1. \A a \in Txns \cap Entries(installed'[k]) : HasInstalled(a, k)'
      BY <1>0, <1>1, <1>2 DEF InstallsOf
    <2>2. Entries(installed[k])' = Entries(installed'[k])
      BY DEF Entries
    <2>3. QED
      BY <1>0, <1>2, <2>1, <2>2 DEF InstallsOf
  <1>3. CASE ~ (installed'[k] = installed[k] /\ version'[k] = version[k])
    <2>1. Install(t)
      BY <1>3, ValuesAreInstalled
    <2>2. PICK i, j : InstallOf(t, i, j)
      BY <2>1, InstallIs
    <2>3. /\ pc[t] = "install" /\ i = idx[t] /\ i \in Nat /\ i \in DOMAIN write_set[t]
          /\ j \in Keys /\ j = write_set[t][i] /\ commit_tid[t] = t
      BY <2>1, <2>2, InstallingIs DEF CommitInv
    <2>4. IsLastWrite(t, i, j) /\ j = k
      <3>1. IsLastWrite(t, i, j)
        BY <1>3, <2>2 DEF InstallOf
      <3>2. QED
        BY <1>0, <1>3, <2>2, <3>1 DEF InstallOf
    <2>5. installed'[k] = Append(installed[k], t) /\ version'[k] = t
      BY <1>0, <2>2, <2>3, <2>4 DEF InstallOf
    <2>6. t \in Versions
      BY DEF Versions
    <2>7. t \notin Entries(installed[k])
      <3>1. StillToInstall(t, k)
        <4>1. i >= i
          BY <2>3
        <4>2. QED
          BY <2>3, <2>4, <4>1 DEF StillToInstall
      <3>2. QED
        BY <1>0, <2>3, <3>1 DEF InstallsOf, HasInstalled
    <2>8. PICK s : s = installed[k]
      OBVIOUS
    <2>9. /\ s \in Seq(Versions) /\ Append(s, t) # <<>> /\ Append(s, t)[Len(Append(s, t))] = t
          /\ Entries(Append(s, t)) = Entries(s) \cup {t}
          /\ DOMAIN Append(s, t) = 1 .. Len(s) + 1 /\ DOMAIN s = 1 .. Len(s) /\ Len(s) \in Nat
          /\ Append(s, t)[Len(s) + 1] = t
          /\ \A m \in DOMAIN s : Append(s, t)[m] = s[m]
      <3>1. s \in Seq(Versions) /\ Len(s) \in Nat /\ DOMAIN s = 1 .. Len(s)
        BY <1>0, <2>8
      <3>2. Entries(Append(s, t)) = Entries(s) \cup {t}
        BY <2>6, <3>1, EntriesAppend
      <3>3. PICK u : u = Append(s, t)
        OBVIOUS
      <3>4. u \in Seq(Versions) /\ Len(u) = Len(s) + 1 /\ u[Len(s) + 1] = t
            /\ \A m \in 1 .. Len(s) : u[m] = s[m]
        BY <2>6, <3>1, <3>3
      <3>5. DOMAIN u = 1 .. Len(s) + 1 /\ u # <<>> /\ u[Len(u)] = t
        BY <3>1, <3>4
      <3>6. QED
        BY <3>1, <3>2, <3>3, <3>4, <3>5
    <2>10. \A m, l \in DOMAIN Append(s, t) : Append(s, t)[m] = Append(s, t)[l] => m = l
      <3>1. \A m \in DOMAIN s : s[m] # t
        BY <2>7, <2>8 DEF Entries
      <3>2. \A m, l \in DOMAIN s : s[m] = s[l] => m = l
        BY <1>0, <2>8 DEF InstallsOf
      <3>3. \A m \in DOMAIN Append(s, t) : m \in DOMAIN s \/ m = Len(s) + 1
        BY <2>9
      <3>4. QED
        BY <2>9, <3>1, <3>2, <3>3
    <2>11. HasInstalled(t, k)'
      <3>1. pc'[t] \in {"install", "unlink"} /\ write_set' = write_set /\ idx'[t] = i + 1
            /\ write_set[t] \in Seq(Keys)
        BY <1>0, <2>2, <2>3 DEF InstallOf, TypeOK
      <3>2. \A m \in DOMAIN write_set[t] : write_set[t][m] = k => ~ (m >= i + 1)
        BY <2>3, <2>4, <3>1 DEF IsLastWrite
      <3>3. QED
        BY <3>1, <3>2 DEF HasInstalled, Decided, StillToInstall
    <2>12. Entries(installed[k])' = Entries(s) \cup {t}
      BY <2>5, <2>8, <2>9 DEF Entries
    <2>13. \A a \in Txns \cap Entries(installed[k])' : HasInstalled(a, k)'
      BY <1>0, <1>1, <2>8, <2>11, <2>12 DEF InstallsOf
    <2>14. QED
      BY <2>5, <2>8, <2>9, <2>10, <2>13 DEF InstallsOf
  <1>4. QED
    BY <1>2, <1>3

\* The order is kept by steps that start no commit, validate no read and install
\* nothing.
LEMMA OrderKeptByLess ==
  ASSUME TypeOK, NEW R, NEW n, OrderIs(R, n), installed' = installed,
  Committing' \subseteq Committing,
         \A k \in Keys : \A b \in Committing' : lock'[k] = b => lock[k] = b,
         \A a \in Committing' : read_set'[a] = read_set[a] /\ Validated(a)' \subseteq Validated(a)
  PROVE  OrderIs(R, n)'
  <1>1. ReadsAfter(R)'
    BY DEF OrderIs, ReadsAfter
  <1>2. WritesInOrder(R)'
    <2> SUFFICES ASSUME NEW k \in Keys
                 PROVE  /\ \A i, j \in DOMAIN installed[k] :
                             i < j /\ installed[k][i] \in Txns /\ installed[k][j] \in Txns =>
                               R[installed[k][i]] < R[installed[k][j]]
                        /\ \A i \in DOMAIN installed[k] :
                             installed[k][i] \in Txns /\ lock'[k] \in Committing' =>
                               R[installed[k][i]] < R[lock'[k]]
      BY DEF WritesInOrder
    <2>1. lock'[k] \in Committing' => lock'[k] = lock[k] /\ lock[k] \in Committing
      OBVIOUS
    <2>2. QED
      BY <2>1 DEF OrderIs, WritesInOrder
  <1>3. ReadsBefore(R)'
    <2> SUFFICES ASSUME NEW a \in Committing', NEW i \in Validated(a)', read_set'[a][i].from.txn # a
                 PROVE  ReadBefore(R, a, read_set[a][i])'
      BY DEF ReadsBefore
    <2>1. PICK r : r = read_set[a][i]
      OBVIOUS
    <2>2. a \in Committing /\ i \in Validated(a) /\ read_set'[a][i] = r
      BY <2>1
    <2>3. ReadBefore(R, a, r)
      BY <2>1, <2>2 DEF OrderIs, ReadsBefore
    <2>4. lock'[r.key] \in Committing' \ {a} => lock'[r.key] = lock[r.key] /\ lock[r.key] \in Committing \ {a}
      <3>1. read_set[a] \in Seq(Reads) /\ i \in DOMAIN read_set[a]
        BY <2>2 DEF TypeOK, Committing, Validated
      <3>2. r \in Reads
        BY <2>1, <3>1
      <3>3. r.key \in Keys
        BY <3>2 DEF Reads
      <3>4. QED
        BY <3>3
    <2>5. ReadBefore(R, a, r)'
      BY <2>3, <2>4 DEF ReadBefore
    <2>6. QED
      BY <2>2, <2>5 DEF ReadBefore
  <1>4. QED
    BY <1>1, <1>2, <1>3 DEF OrderIs

\* What the actions that are not like that do to the order.
LEMMA CommittingIs ==
  ASSUME TypeOK, ProgramInv, NEW t \in Txns, Step(t) \/ Reuse(t)
  PROVE  /\ Committing' \subseteq Committing \cup {t} /\ Committing \subseteq Committing' \cup {t}
         /\ Decided \subseteq Decided' /\ Decided' \subseteq Decided \cup {t}
         /\ \A a \in Committing \ {t} : read_set'[a] = read_set[a] /\ Validated(a)' = Validated(a)
         /\ t \in Committing => read_set'[t] = read_set[t] /\ ~ Access(t) /\ ~ ExposeLock(t) /\ ~ LockWriteSet(t)
         /\ t \in Committing' \ Committing => WaitDeps(t) \/ LockWriteSet(t)
  <1>0. StepOf(t)
    BY StepsAreOf
  <1>1. \A a \in Txns \ {t} : pc'[a] = pc[a] /\ idx'[a] = idx[a] /\ read_set'[a] = read_set[a]
    BY <1>0 DEF StepOf
  <1>2. /\ Committing' \subseteq Committing \cup {t} /\ Committing \subseteq Committing' \cup {t}
        /\ Decided' \subseteq Decided \cup {t}
    BY <1>1 DEF Committing, Decided
  <1>3. \A a \in Committing \ {t} : read_set'[a] = read_set[a] /\ Validated(a)' = Validated(a)
    <2> SUFFICES ASSUME NEW a \in Txns,
    a # t PROVE read_set'[a] = read_set[a] /\ Validated(a)' = Validated(a)
      BY DEF Committing
    <2>1. pc'[a] = pc[a] /\ idx'[a] = idx[a] /\ read_set'[a] = read_set[a]
      BY <1>1
    <2>2. (a \in Decided)' <=> a \in Decided
      BY <2>1 DEF Decided
    <2>3. QED
      BY <2>1, <2>2 DEF Validated
  <1>4. t \in Decided => t \in Decided'
    BY LeavingIsForEver DEF Decided, Leaving, Ended
  <1>5. Decided \subseteq Decided'
    BY <1>1, <1>4 DEF Decided
  <1>6. t \in Committing => read_set'[t] = read_set[t] /\ ~ Access(t) /\ ~ ExposeLock(t) /\ ~ LockWriteSet(t)
    BY <1>0 DEF Committing, Validating, Testing, StepOf, Access, ExposeLock, LockWriteSet
  <1>7. ASSUME t \in Committing' \ Committing PROVE WaitDeps(t) \/ LockWriteSet(t)
    <2>1. /\ pc'[t] \in Validating \cup {"install", "unlink", "committed"}
          /\ pc[t] \notin Validating \cup {"install", "unlink", "committed"}
      BY <1>7 DEF Committing
    <2>2. QED
      BY <2>1, Moves, ValidatesIs DEF Validating, Testing, Ended, Validates, ValidateRead,
         ValidateVersion, ValidateSeq, GenCommitTid, Install, UnlinkReads, Commit
  <1>8. QED
    BY <1>2, <1>3, <1>5, <1>6, <1>7

\* Whoever's write a transaction that is to be validated has read installs or aborts.
LEMMA SourceHasLeft ==
  ASSUME ReadInv', AwaitInv', NEW b \in Committing', NEW i \in DOMAIN read_set'[b],
         read_set'[b][i].from.txn \in Txns \ {b}
  PROVE  pc'[read_set'[b][i].from.txn] \in Leaving
  <1>0. b \in Txns /\ pc'[b] \in Waited
    BY DEF Committing, Waited
  <1>1. CASE read_set'[b][i].dirty
    <2>1. DirtyReadIs(b, i)'
      BY <1>0, <1>1 DEF AwaitInv
    <2>2. QED
      BY <1>0, <2>1 DEF DirtyReadIs, Awaited
  <1>2. CASE ~ read_set'[b][i].dirty
    <2>1. ReadIsFinal(b, read_set[b][i])'
      BY <1>0, <1>2 DEF ReadInv
    <2>2. QED
      BY <2>1, TxnAssumption DEF ReadIsFinal, IsFinal, Decided, Leaving, Ended
  <1>3. QED
    BY <1>1, <1>2

\* A transaction that has locked its write set is the last in the order.
LEMMA OrderGrows ==
  ASSUME TypeOK, ProgramInv, InstalledInv, UnlinkInv, LockInv, ReadInv', AwaitInv',
         NEW R, NEW n, OrderIs(R, n), NEW t \in Txns, WaitDeps(t) \/ LockWriteSet(t),
         t \notin Committing, t \in Committing'
  PROVE  \E Q, m : OrderIs(Q, m)'
  <1>0. /\ Committing' = Committing \cup {t}
        /\ \A a \in Committing \ {t} : read_set'[a] = read_set[a] /\ Validated(a)' = Validated(a)
    BY CommittingIs DEF Step
  <1>1. /\ UNCHANGED <<installed, read_set, idx>> /\ idx[t] = 1
        /\ R \in [Txns -> Nat] /\ n \in Nat
    BY DEF WaitDeps, LockWriteSet, ProgramInv, InProgram, OrderIs, tuple_vars
  <1>2. PICK Q : Q = [R EXCEPT ![t] = n]
    OBVIOUS
  <1>3. /\ Q \in [Txns -> Nat] /\ Q[t] = n /\ n + 1 \in Nat
        /\ \A a \in Committing : a # t /\ Q[a] = R[a] /\ R[a] < n /\ R[a] \in Nat /\ a \in Txns
    BY <1>1, <1>2 DEF OrderIs, Committing
  <1>4. \A a \in Committing' : Q[a] < n + 1
    BY <1>0, <1>1, <1>3
  <1>5. Decided \subseteq Committing
    BY DEF Decided, Committing
  <1>6. \A k \in Keys : \A i \in DOMAIN installed[k] : installed[k][i] \in Txns => installed[k][i] \in Committing
    BY <1>5 DEF InstalledInv, InstallsOf, HasInstalled, Entries
  <1>7. ReadsAfter(Q)'
    <2> SUFFICES ASSUME NEW b \in Committing', NEW i \in DOMAIN read_set'[b],
                        read_set'[b][i].from.txn \in Committing' \ {b}
                 PROVE  Q[read_set'[b][i].from.txn] < Q[b]
      BY DEF ReadsAfter
    <2>1. pc'[read_set'[b][i].from.txn] \in Leaving
      BY SourceHasLeft DEF Committing
    <2>a. pc'[t] \notin Leaving
      BY PcOfCommit DEF Committing, Validating, Testing, Leaving, Ended
    <2>2. PICK a \in Committing :
            a = read_set'[b][i].from.txn /\ a = read_set[b][i].from.txn /\ a # b
      BY <1>0, <1>1, <2>1, <2>a
    <2>3. CASE b = t
      BY <1>3, <2>2, <2>3
    <2>4. CASE b \in Committing
      <3>1. R[a] < R[b]
        BY <1>1, <2>2, <2>4 DEF OrderIs, ReadsAfter
      <3>2. QED
        BY <1>3, <2>2, <2>4, <3>1
    <2>5. QED
      BY <1>0, <2>3, <2>4
  <1>a. \A k \in Keys : lock'[k] \in Committing' => lock'[k] = t \/ (lock[k] = lock'[k] /\ lock[k] \in Committing)
    <2>1. \A k \in Keys : LockChange(t, k)
      BY LockChanges DEF Step
    <2>2. NONE \notin Committing'
      BY TxnAssumption DEF Committing
    <2>3. QED
      BY <1>0, <2>1, <2>2 DEF LockChange
  <1>8. WritesInOrder(Q)'
    <2> SUFFICES ASSUME NEW k \in Keys
                 PROVE  /\ \A i, j \in DOMAIN installed[k] :
                             i < j /\ installed[k][i] \in Txns /\ installed[k][j] \in Txns =>
                               Q[installed[k][i]] < Q[installed[k][j]]
                        /\ \A i \in DOMAIN installed[k] :
                             installed[k][i] \in Txns /\ lock'[k] \in Committing' =>
                               Q[installed[k][i]] < Q[lock'[k]]
      BY <1>1 DEF WritesInOrder
    <2>1. ASSUME NEW i \in DOMAIN installed[k], NEW j \in DOMAIN installed[k], i < j,
                 installed[k][i] \in Txns, installed[k][j] \in Txns
          PROVE  Q[installed[k][i]] < Q[installed[k][j]]
      <3>1. R[installed[k][i]] < R[installed[k][j]]
        BY <2>1 DEF OrderIs, WritesInOrder
      <3>2. QED
        BY <1>3, <1>6, <2>1, <3>1
    <2>2. ASSUME NEW i \in DOMAIN installed[k], installed[k][i] \in Txns, lock'[k] \in Committing'
          PROVE  Q[installed[k][i]] < Q[lock'[k]]
      <3>1. CASE lock'[k] = t
        BY <1>3, <1>6, <2>2, <3>1
      <3>2. CASE lock[k] = lock'[k] /\ lock[k] \in Committing
        <4>1. R[installed[k][i]] < R[lock[k]]
          BY <2>2, <3>2 DEF OrderIs, WritesInOrder
        <4>2. QED
          BY <1>3, <1>6, <2>2, <3>2, <4>1
      <3>3. QED
        BY <1>a, <2>2, <3>1, <3>2
    <2>3. QED
      BY <2>1, <2>2
  <1>9. ReadsBefore(Q)'
    <2> SUFFICES ASSUME NEW a \in Committing', NEW i \in Validated(a)', read_set'[a][i].from.txn # a
                 PROVE  ReadBefore(Q, a, read_set[a][i])'
      BY DEF ReadsBefore
    <2>1. a # t
      <3>1. SUFFICES ASSUME a = t PROVE FALSE
        OBVIOUS
      <3>2. read_set[t] \in Seq(Reads) /\ i \in DOMAIN read_set[t] /\ t \notin Decided' /\ i < 1
        <4>1. t \notin Decided'
          <5>1. pc'[t] = "validate"
            BY PcOfCommit DEF Committing, Validating, Testing
          <5>2. QED
            BY <5>1 DEF Decided
        <4>2. QED
          BY <1>1, <3>1, <4>1 DEF Validated, TypeOK
      <3>3. QED
        BY <3>2
    <2>2. PICK r : r = read_set[a][i]
      OBVIOUS
    <2>3. a \in Committing /\ i \in Validated(a) /\ read_set'[a][i] = r /\ i \in DOMAIN read_set[a]
      BY <1>0, <1>1, <2>1, <2>2 DEF Validated
    <2>4. r.key \in Keys
      <3>1. read_set[a] \in Seq(Reads)
        BY <1>3, <2>3 DEF TypeOK
      <3>2. r \in Reads
        BY <2>2, <2>3, <3>1
      <3>3. QED
        BY <3>2 DEF Reads
    <2>5. ReadBefore(R, a, r)
      BY <2>2, <2>3 DEF OrderIs, ReadsBefore
    <2>6. ASSUME NEW m \in DOMAIN installed[r.key], NEW l \in DOMAIN installed[r.key], m < l,
                 installed[r.key][m] = r.from.txn, installed[r.key][l] \in Txns \ {a}
          PROVE  Q[a] < Q[installed[r.key][l]]
      <3>1. R[a] < R[installed[r.key][l]]
        BY <2>5, <2>6 DEF ReadBefore
      <3>2. QED
        BY <1>3, <1>6, <2>3, <2>4, <2>6, <3>1
    <2>7. ASSUME lock'[r.key] \in Committing' \ {a} PROVE Q[a] < Q[lock'[r.key]]
      <3>1. CASE lock'[r.key] = t
        BY <1>3, <2>3, <3>1
      <3>2. CASE lock[r.key] = lock'[r.key] /\ lock[r.key] \in Committing
        <4>1. R[a] < R[lock[r.key]]
          BY <2>5, <2>7, <3>2 DEF ReadBefore
        <4>2. QED
          BY <1>3, <2>3, <3>2, <4>1
      <3>3. QED
        BY <1>a, <2>4, <2>7, <3>1, <3>2
    <2>8. ReadBefore(Q, a, r)'
      BY <1>1, <2>6, <2>7 DEF ReadBefore
    <2>9. QED
      BY <2>3, <2>8 DEF ReadBefore
  <1>10. OrderIs(Q, n + 1)'
    BY <1>3, <1>4, <1>7, <1>8, <1>9 DEF OrderIs
  <1>11. QED
    BY <1>10

\* A tuple that a validating transaction has locked, or that carries no intent, is
\* of no other transaction that has locked its write set.
LEMMA NobodyInstalls ==
  ASSUME TypeOK, LockInv, NEW t \in Txns, pc[t] \in Validating, NEW k \in Keys,
         k \in WriteKeys(t) \/ ~ write_intent[k]
  PROVE  lock[k] \notin Committing \ {t}
  <1> SUFFICES ASSUME lock[k] \in Committing \ {t} PROVE FALSE
    OBVIOUS
  <1>1. PICK b \in Txns : b = lock[k] /\ b \in Committing /\ b # t
    BY DEF Committing
  <1>2. pc[b] \in Writing /\ write_intent[k]
    <2>1. LocksOf(b)
      BY DEF LockInv
    <2>2. pc[b] \in Locking \cup Writing /\ (write_intent[k] <=> pc[b] \in Writing)
      BY <1>1, <2>1 DEF LocksOf
    <2>3. pc[b] \notin Locking
      BY <1>1 DEF Committing, Validating, Testing, Locking
    <2>4. QED
      BY <2>2, <2>3
  <1>3. k \in WriteKeys(t)
    BY <1>2
  <1>4. lock[k] = t
    BY <1>3 DEF LockInv, LocksOf, Held
  <1>5. QED
    BY <1>1, <1>4

\* A validated read is of the latest version, and nobody else is about to
\* install one.
LEMMA ValidIsLatest ==
  ASSUME TypeOK, InstalledInv, LockInv, CleanInv, NEW R, NEW t \in Txns, pc[t] = "validate",
         NEW i \in DOMAIN read_set[t], ~ read_set[t][i].dirty, CleanValid(t, read_set[t][i]),
         read_set[t][i].from.txn # t
  PROVE  ReadBefore(R, t, read_set[t][i])
  <1>1. PICK r : r = read_set[t][i]
    OBVIOUS
  <1>2. r \in Reads /\ r.key \in Keys
    <2>1. read_set[t] \in Seq(Reads)
      BY DEF TypeOK
    <2>2. r \in Reads
      BY <1>1, <2>1
    <2>3. QED
      BY <2>2 DEF Reads
  <1>3. /\ r.from.txn = version[r.key]
        /\ r.key \in WriteKeys(t) \/ ~ write_intent[r.key]
    BY <1>1 DEF CleanInv, CleanValid
  <1>4. PICK s : s = installed[r.key]
    OBVIOUS
  <1>5. /\ s \in Seq(Versions) /\ Len(s) \in Nat /\ DOMAIN s = 1 .. Len(s)
        /\ s # <<>> /\ r.from.txn = s[Len(s)] /\ Len(s) \in DOMAIN s
        /\ \A m, l \in DOMAIN s : s[m] = s[l] => m = l
    <2>1. s \in Seq(Versions)
      BY <1>2, <1>4 DEF TypeOK
    <2>2. s # <<>> /\ r.from.txn = s[Len(s)] /\ \A m, l \in DOMAIN s : s[m] = s[l] => m = l
      BY <1>2, <1>3, <1>4 DEF InstalledInv, InstallsOf
    <2>3. QED
      BY <2>1, <2>2
  <1>6. ASSUME NEW m \in DOMAIN s, NEW l \in DOMAIN s, m < l, s[m] = r.from.txn PROVE FALSE
    <2>1. m = Len(s)
      BY <1>5, <1>6
    <2>2. QED
      BY <1>5, <1>6, <2>1
  <1>7. lock[r.key] \notin Committing \ {t}
    BY <1>2, <1>3, NobodyInstalls DEF Validating
  <1>8. ReadBefore(R, t, r)
    BY <1>4, <1>6, <1>7 DEF ReadBefore
  <1>9. QED
    BY <1>1, <1>8

\* Of two transactions, the one whose write the other has read installs no other
\* version of the tuple.
LEMMA DirtyIsLatest ==
  ASSUME TypeOK, InstalledInv, LockInv, SourceInv, AwaitInv, AtMostTwo, NEW R, NEW t \in Txns,
         pc[t] \in Validating, NEW i \in DOMAIN read_set[t], read_set[t][i].dirty,
         read_set[t][i].key \in WriteKeys(t) \/ ~ write_intent[read_set[t][i].key]
  PROVE  ReadBefore(R, t, read_set[t][i])
  <1>1. PICK r : r = read_set[t][i]
    OBVIOUS
  <1>2. r.key \in Keys
    <2>1. read_set[t] \in Seq(Reads)
      BY DEF TypeOK
    <2>2. r \in Reads
      BY <1>1, <2>1
    <2>3. QED
      BY <2>2 DEF Reads
  <1>3. r.from.txn \in Txns /\ r.from.txn # t
    BY <1>1 DEF SourceInv, SourceIs, AwaitInv, DirtyReadIs
  <1>4. lock[r.key] \notin Committing \ {t}
    BY <1>1, <1>2, NobodyInstalls
  <1>5. PICK s : s = installed[r.key]
    OBVIOUS
  <1>6. \A m, l \in DOMAIN s : s[m] = s[l] => m = l
    BY <1>2, <1>5 DEF InstalledInv, InstallsOf
  <1>7. ASSUME NEW m \in DOMAIN s, NEW l \in DOMAIN s, m < l, s[m] = r.from.txn, s[l] \in Txns \ {t}
        PROVE  FALSE
    <2>1. s[l] = s[m]
      BY <1>3, <1>7 DEF AtMostTwo
    <2>2. m = l
      BY <1>6, <2>1
    <2>3. m \in Nat
      <3>1. s \in Seq(Versions)
        BY <1>2, <1>5 DEF TypeOK
      <3>2. QED
        BY <3>1
    <2>4. QED
      BY <1>7, <2>2, <2>3
  <1>8. ReadBefore(R, t, r)
    BY <1>4, <1>5, <1>7 DEF ReadBefore
  <1>9. QED
    BY <1>1, <1>8

\* What the validation of a read does.
LEMMA ValidationIs ==
  ASSUME NEW t \in Txns, Validates(t)
  PROVE  \/ FailCommit(t)
         \/ /\ pc[t] = "validate" /\ ~ TheRead(t).dirty /\ CleanValid(t, TheRead(t))
            /\ idx[t] \in DOMAIN read_set[t] /\ NextRead(t)
         \/ \E next \in Testing : Test(t, next)
         \/ /\ pc[t] \in Testing
            /\ TheRead(t).key \in WriteKeys(t) \/ ~ write_intent[TheRead(t).key]
            /\ NextRead(t)
  BY DEF Validates, ValidateRead, ValidateVersion, ValidateSeq, ValidateIntent, Testing

LEMMA OrderValidates ==
  ASSUME TypeOK, ProgramInv, UnlinkInv, InstalledInv, LockInv, SourceInv, CleanInv, CommitInv,
  AwaitInv,
         Orderly, NEW R, NEW n, OrderIs(R, n), NEW t \in Txns, Validates(t)
  PROVE  OrderIs(R, n)'
  <1>0. /\ Committing' \subseteq Committing \cup {t} /\ t \in Committing
        /\ \A a \in Committing \ {t} : read_set'[a] = read_set[a] /\ Validated(a)' = Validated(a)
        /\ UNCHANGED <<read_set, installed, lock>> /\ pc[t] \in Validating
        /\ pc \in [Txns -> Locations] /\ idx \in [Txns -> Nat]
    <2>1. pc[t] \in Validating /\ UNCHANGED <<read_set, installed, lock>>
      BY ValidatesIs DEF Untouched, tuple_vars
    <2>2. t \in Committing
      BY <2>1 DEF Committing
    <2>3. Step(t)
      BY DEF Step, Validates
    <2>4. QED
      BY <2>1, <2>2, <2>3, CommittingIs DEF TypeOK
  <1>1. CASE \E next \in Testing : Test(t, next)
    <2>1. PICK next \in Testing : pc' = [pc EXCEPT ![t] = next] /\ UNCHANGED idx
      BY <1>1 DEF Test
    <2>2. Committing' \subseteq Committing
      BY <1>0
    <2>3. t \notin Decided' /\ t \notin Decided
      BY <1>0, <2>1 DEF Decided, Validating, Testing
    <2>4. Validated(t)' \subseteq Validated(t)
      BY <1>0, <2>1, <2>3 DEF Validated
    <2>5. \A a \in Committing' : read_set'[a] = read_set[a] /\ Validated(a)' \subseteq Validated(a)
      BY <1>0, <2>2, <2>4
    <2>6. QED
      BY <1>0, <2>2, <2>5, OrderKeptByLess
  <1>2. \/ (TheRead(t).from.txn # t => ReadBefore(R, t, TheRead(t))) /\ NextRead(t)
        \/ FailCommit(t)
        \/ \E next \in Testing : Test(t, next)
    <2>1. CASE /\ pc[t] = "validate" /\ ~ TheRead(t).dirty /\ CleanValid(t, TheRead(t))
               /\ idx[t] \in DOMAIN read_set[t] /\ NextRead(t)
      BY <2>1, ValidIsLatest DEF TheRead
    <2>2. CASE /\ pc[t] \in Testing
               /\ TheRead(t).key \in WriteKeys(t) \/ ~ write_intent[TheRead(t).key]
               /\ NextRead(t)
      <3>1. idx[t] \in DOMAIN read_set[t] /\ TheRead(t).dirty
        BY <2>2 DEF CommitInv, Tested
      <3>2. AtMostTwo
        BY <3>1 DEF Orderly, CleanInv, TheRead
      <3>3. QED
        BY <1>0, <2>2, <3>1, <3>2, DirtyIsLatest DEF TheRead
    <2>3. QED
      BY <2>1, <2>2, ValidationIs
  <1>3. CASE FailCommit(t)
    <2>1. t \notin Committing'
      BY <1>0, <1>3 DEF FailCommit, Committing, Validating, Testing
    <2>2. Committing' \subseteq Committing
      BY <1>0
    <2>3. \A a \in Committing' : read_set'[a] = read_set[a] /\ Validated(a)' \subseteq Validated(a)
      BY <1>0, <2>1
    <2>4. QED
      BY <1>0, <2>2, <2>3, OrderKeptByLess
  <1>4. CASE (TheRead(t).from.txn # t => ReadBefore(R, t, TheRead(t))) /\ NextRead(t)
    <2>1. pc'[t] = "validate" /\ idx'[t] = idx[t] + 1 /\ idx[t] \in Nat
      BY <1>0, <1>4 DEF NextRead
    <2>2. Committing' \subseteq Committing
      BY <1>0
    <2>3. \A j \in DOMAIN read_set[t] : j < idx[t] + 1 => j < idx[t] \/ j = idx[t]
      <3>1. read_set[t] \in Seq(Reads)
        BY DEF TypeOK
      <3>2. QED
        BY <2>1, <3>1
    <2>4. Validated(t)' \subseteq Validated(t) \cup {idx[t]}
      BY <1>0, <2>1, <2>3 DEF Validated, Decided, Validating, Testing
    <2>5. TheRead(t).from.txn # t => ReadBefore(R, t, TheRead(t))
      BY <1>4
    <2>6. ReadsAfter(R)'
      BY <1>0, <2>2 DEF OrderIs, ReadsAfter
    <2>7. WritesInOrder(R)'
      BY <1>0, <2>2 DEF OrderIs, WritesInOrder
    <2>8. ReadsBefore(R)'
      <3> SUFFICES ASSUME NEW a \in Committing', NEW i \in Validated(a)',
                          read_set'[a][i].from.txn # a
                   PROVE  ReadBefore(R, a, read_set[a][i])'
        BY DEF ReadsBefore
      <3>1. PICK r : r = read_set[a][i]
        OBVIOUS
      <3>2. ReadBefore(R, a, r)
        <4>1. CASE a # t \/ i \in Validated(t)
          BY <1>0, <2>2, <3>1, <4>1 DEF OrderIs, ReadsBefore
        <4>2. CASE a = t /\ i = idx[t]
          BY <1>0, <2>5, <3>1, <4>2 DEF TheRead
        <4>3. QED
          BY <2>4, <4>1, <4>2
      <3>3. ReadBefore(R, a, r)'
        BY <1>0, <2>2, <3>2 DEF ReadBefore
      <3>4. QED
        BY <1>0, <3>1, <3>3 DEF ReadBefore
    <2>9. QED
      BY <2>2, <2>6, <2>7, <2>8 DEF OrderIs
  <1>5. QED
    BY <1>1, <1>2, <1>3, <1>4

LEMMA OrderInstalls ==
  ASSUME TypeOK, ProgramInv, UnlinkInv, InstalledInv, LockInv, NEW R, NEW n, OrderIs(R, n),
         NEW t \in Txns, Install(t)
  PROVE  OrderIs(R, n)'
  <1>1. PICK i, k : InstallOf(t, i, k)
    BY InstallIs
  <1>2. /\ pc[t] = "install" /\ k \in Keys /\ lock[k] = t /\ t \in Committing /\ t \in Decided
    BY <1>1, InstallingIs DEF Committing, Decided
  <1>3. /\ UNCHANGED read_set /\ lock \in [Keys -> Txns \cup {NONE}]
        /\ installed \in [Keys -> Seq(Versions)] /\ installed[k] \in Seq(Versions)
    BY <1>1, <1>2 DEF InstallOf, TypeOK
  <1>4. /\ Committing' \subseteq Committing
        /\ \A a \in Committing : Validated(a)' \subseteq Validated(a)
    <2>1. Committing' \subseteq Committing \cup {t}
          /\ \A a \in Committing \ {t} : Validated(a)' = Validated(a)
      BY CommittingIs DEF Step
    <2>2. Validated(t) = DOMAIN read_set[t] /\ Validated(t)' \subseteq DOMAIN read_set'[t]
      BY <1>2 DEF Validated
    <2>3. QED
      BY <1>2, <1>3, <2>1, <2>2
  <1>5. CASE ~ IsLastWrite(t, i, k)
    <2>1. UNCHANGED <<lock, installed>>
      BY <1>1, <1>5 DEF InstallOf
    <2>2. QED
      BY <1>3, <1>4, <2>1, OrderKeptByLess
  <1>6. CASE IsLastWrite(t, i, k)
    <2>1. /\ lock' = [lock EXCEPT ![k] = NONE] /\ installed' = [installed EXCEPT ![k] = Append(@,
                t)]
      BY <1>1, <1>6 DEF InstallOf
    <2>2. /\ \A j \in Keys \ {k} : lock'[j] = lock[j] /\ installed'[j] = installed[j]
          /\ lock'[k] = NONE /\ NONE \notin Committing' /\ installed'[k] = Append(installed[k], t)
      BY <1>2, <1>3, <2>1, TxnAssumption DEF Committing
    <2>3. PICK s, u : s = installed[k] /\ u = installed'[k]
      OBVIOUS
    <2>4. /\ DOMAIN u = 1 .. Len(s) + 1 /\ DOMAIN s = 1 .. Len(s) /\ Len(s) \in Nat
          /\ u[Len(s) + 1] = t /\ \A m \in DOMAIN s : u[m] = s[m]
      <3>1. s \in Seq(Versions) /\ t \in Versions /\ u = Append(s, t)
        BY <1>3, <2>2, <2>3 DEF Versions
      <3>2. QED
        BY <3>1
    <2>5. ReadsAfter(R)'
      BY <1>3, <1>4 DEF OrderIs, ReadsAfter
    <2>6. WritesInOrder(R)'
      <3>1. ASSUME NEW m \in DOMAIN u, NEW l \in DOMAIN u, m < l, u[m] \in Txns, u[l] \in Txns
            PROVE  R[u[m]] < R[u[l]]
        <4>1. m \in DOMAIN s
          BY <2>4, <3>1
        <4>2. CASE l \in DOMAIN s
          <5>1. u[m] = s[m] /\ u[l] = s[l]
            BY <2>4, <4>1, <4>2
          <5>2. QED
            BY <1>2, <2>3, <3>1, <4>1, <4>2, <5>1 DEF OrderIs, WritesInOrder
        <4>3. CASE l = Len(s) + 1
          <5>1. u[m] = s[m] /\ u[l] = t
            BY <2>4, <4>1, <4>3
          <5>2. QED
            BY <1>2, <2>3, <3>1, <4>1, <5>1 DEF OrderIs, WritesInOrder
        <4>4. QED
          BY <2>4, <4>2, <4>3
      <3> SUFFICES ASSUME NEW j \in Keys
                   PROVE  /\ \A m, l \in DOMAIN installed'[j] :
                               m < l /\ installed'[j][m] \in Txns /\ installed'[j][l] \in Txns =>
                                 R[installed'[j][m]] < R[installed'[j][l]]
                          /\ \A m \in DOMAIN installed'[j] :
                               installed'[j][m] \in Txns /\ lock'[j] \in Committing' =>
                                 R[installed'[j][m]] < R[lock'[j]]
        BY DEF WritesInOrder
      <3>2. CASE j = k
        BY <2>2, <2>3, <3>1, <3>2
      <3>3. CASE j # k
        BY <1>4, <2>2, <3>3 DEF OrderIs, WritesInOrder
      <3>4. QED
        BY <3>2, <3>3
    <2>7. ReadsBefore(R)'
      <3> SUFFICES ASSUME NEW a \in Committing', NEW j \in Validated(a)',
                          read_set'[a][j].from.txn # a
                   PROVE  ReadBefore(R, a, read_set[a][j])'
        BY DEF ReadsBefore
      <3>1. PICK r : r = read_set[a][j]
        OBVIOUS
      <3>2. a \in Committing /\ j \in Validated(a) /\ read_set'[a][j] = r
        BY <1>3, <1>4, <3>1
      <3>3. ReadBefore(R, a, r)
        BY <3>1, <3>2 DEF OrderIs, ReadsBefore
      <3>4. r.key \in Keys
        <4>1. read_set[a] \in Seq(Reads) /\ j \in DOMAIN read_set[a]
          BY <3>2 DEF TypeOK, Committing, Validated
        <4>2. r \in Reads
          BY <3>1, <4>1
        <4>3. QED
          BY <4>2 DEF Reads
      <3>5. CASE r.key # k
        <4>1. ReadBefore(R, a, r)'
          BY <1>4, <2>2, <3>3, <3>4, <3>5 DEF ReadBefore
        <4>2. QED
          BY <3>2, <4>1 DEF ReadBefore
      <3>6. CASE r.key = k
        <4>1. ASSUME NEW m \in DOMAIN u, NEW l \in DOMAIN u, m < l, u[m] = r.from.txn,
        u[l] \in Txns \ {a}
              PROVE  R[a] < R[u[l]]
          <5>1. m \in DOMAIN s
            BY <2>4, <4>1
          <5>2. CASE l \in DOMAIN s
            <6>1. u[m] = s[m] /\ u[l] = s[l]
              BY <2>4, <5>1, <5>2
            <6>2. QED
              BY <2>3, <3>3, <3>6, <4>1, <5>1, <5>2, <6>1 DEF ReadBefore
          <5>3. CASE l = Len(s) + 1
            <6>1. u[l] = t
              BY <2>4, <5>3
            <6>2. QED
              BY <1>2, <3>3, <3>6, <4>1, <6>1 DEF ReadBefore
          <5>4. QED
            BY <2>4, <5>2, <5>3
        <4>2. ReadBefore(R, a, r)'
          BY <2>2, <2>3, <3>6, <4>1 DEF ReadBefore
        <4>3. QED
          BY <3>2, <4>2 DEF ReadBefore
      <3>7. QED
        BY <3>5, <3>6
    <2>8. QED
      BY <1>4, <2>5, <2>6, <2>7 DEF OrderIs
  <1>7. QED
    BY <1>5, <1>6


LEMMA FewerValidated ==
  ASSUME TypeOK, ProgramInv, NEW t \in Txns, Step(t) \/ Reuse(t), t \in Committing,
         ~ Validates(t)
  PROVE  Validated(t)' \subseteq Validated(t)
  <1>0. read_set'[t] = read_set[t] /\ pc[t] \in Validating \cup {"install", "unlink", "committed"}
        /\ idx \in [Txns -> Nat] /\ read_set[t] \in Seq(Reads)
    BY CommittingIs DEF Committing, TypeOK
  <1>1. CASE t \in Decided
    BY <1>0, <1>1 DEF Validated
  <1>2. CASE t \notin Decided
    <2>1. pc[t] \in Validating
      BY <1>0, <1>2 DEF Decided
    <2>2. CASE GenCommitTid(t)
      <3>1. idx[t] \notin DOMAIN read_set[t] /\ 1 <= idx[t] /\ pc[t] = "validate"
        BY <2>2 DEF GenCommitTid, ProgramInv, InProgram
      <3>2. \A i \in DOMAIN read_set[t] : i < idx[t]
        <4>1. DOMAIN read_set[t] = 1 .. Len(read_set[t]) /\ Len(read_set[t]) \in Nat /\ idx[t] \in Nat
          BY <1>0
        <4>2. QED
          BY <3>1, <4>1
      <3>3. QED
        BY <1>0, <3>1, <3>2 DEF Validated, Validating, Testing
    <2>3. CASE ~ GenCommitTid(t)
      <3>1. pc'[t] \notin Validating \cup {"install", "unlink", "committed"}
        BY <2>1, <2>3, Moves DEF Validating, Testing, Ended, Validates, WaitDeps, LockWriteSet,
           Install,
           UnlinkReads, Commit, Abort, Reuse
      <3>2. QED
        BY <3>1 DEF Validated, Decided
    <2>4. QED
      BY <2>2, <2>3
  <1>3. QED
    BY <1>1, <1>2

LEMMA OrderKept ==
  ASSUME TypeOK, ProgramInv, ListInv, UnlinkInv, LockInv, ValueInv, ReadInv, CommitInv,
         SourceInv, CleanInv, InstalledInv, OrderInv, AtMostTwo => AwaitInv, AtMostTwo => AwaitInv',
         CleanInv', ReadInv', NEW t \in Txns, Step(t) \/ Reuse(t)
  PROVE  OrderInv'
  <1> SUFFICES ASSUME Orderly' PROVE IsFiniteSet(Decided') /\ \E R, n : OrderIs(R, n)'
    BY DEF OrderInv
  <1>0. Orderly /\ AwaitInv /\ AwaitInv'
    BY PolicyKept DEF Orderly, CleanInv, AwaitInv
  <1>1. IsFiniteSet(Decided) /\ \E R, n : OrderIs(R, n)
    BY <1>0 DEF OrderInv
  <1>2. IsFiniteSet(Decided')
    <2>1. Decided' = Decided \/ Decided' = Decided \cup {t}
      BY CommittingIs
    <2>2. QED
      BY <1>1, <2>1, FS_AddElement
  <1>3. PICK R, n : OrderIs(R, n)
    BY <1>1
  <1>4. \E Q, m : OrderIs(Q, m)'
    <2>1. CASE t \in Committing' \ Committing
      BY <1>0, <1>3, <2>1, CommittingIs, OrderGrows
    <2>2. CASE Validates(t)
      BY <1>0, <1>3, <2>2, OrderValidates
    <2>3. CASE Install(t)
      BY <1>3, <2>3, OrderInstalls
    <2>4. CASE /\ t \notin Committing' \ Committing /\ ~ Validates(t)
               /\ ~ Install(t)
      <3>1. installed' = installed
        BY <2>4, ValuesAreInstalled
      <3>2. Committing' \subseteq Committing
        BY <2>4, CommittingIs
      <3>3. ASSUME NEW k \in Keys, NEW b \in Committing', lock'[k] = b PROVE lock[k] = b
        <4>1. b \in Txns /\ b # NONE /\ b \in Committing
          BY <3>2, TxnAssumption DEF Committing
        <4>2. LockChange(t, k)
          BY LockChanges
        <4>3. b = t => ~ ExposeLock(t) /\ ~ LockWriteSet(t)
          BY <4>1, CommittingIs
        <4>4. QED
          BY <3>3, <4>1, <4>2, <4>3 DEF LockChange
      <3>4. ASSUME NEW a \in Committing'
            PROVE  read_set'[a] = read_set[a] /\ Validated(a)' \subseteq Validated(a)
        <4>1. CASE a = t
          BY <2>4, <3>2, <4>1, CommittingIs, FewerValidated
        <4>2. CASE a # t
          BY <3>2, <4>2, CommittingIs
        <4>3. QED
          BY <4>1, <4>2
      <3>5. OrderIs(R, n)'
        BY <1>3, <3>1, <3>2, <3>3, <3>4, OrderKeptByLess
      <3>6. QED
        BY <3>5
    <2>5. QED
      BY <2>1, <2>2, <2>3, <2>4
  <1>5. QED
    BY <1>2, <1>4

-----------------------------------------------------------------------------
(* From the order to ranks *)

\* The rank of a transaction counts the decided ones up to it.
UpTo(R, a) == {b \in Decided : R[b] <= R[a]}
Rank(R) == [a \in Decided |-> Cardinality(UpTo(R, a))]

LEMMA RankIs ==
  ASSUME IsFiniteSet(Decided), NEW R, \A a \in Decided : R[a] \in Nat
  PROVE  /\ Rank(R) \in [Decided -> 1 .. Cardinality(Decided)]
         /\ \A a, b \in Decided : R[a] < R[b] => Rank(R)[a] < Rank(R)[b]
  <1>1. ASSUME NEW a \in Decided
        PROVE  /\ IsFiniteSet(UpTo(R, a)) /\ Cardinality(UpTo(R, a)) \in Nat
               /\ 1 <= Cardinality(UpTo(R, a)) /\ Cardinality(UpTo(R, a)) <= Cardinality(Decided)
    <2>1. UpTo(R, a) \subseteq Decided /\ a \in UpTo(R, a)
      BY DEF UpTo
    <2>2. /\ IsFiniteSet(UpTo(R, a)) /\ Cardinality(UpTo(R, a)) <= Cardinality(Decided)
      BY <2>1, FS_Subset
    <2>3. Cardinality(UpTo(R, a)) \in Nat
      BY <2>2, FS_CardinalityType
    <2>4. Cardinality(UpTo(R, a)) # 0
      BY <2>1, <2>2, FS_EmptySet
    <2>5. QED
      BY <2>2, <2>3, <2>4
  <1>2. Cardinality(Decided) \in Nat
    BY FS_CardinalityType
  <1>3. ASSUME NEW a \in Decided, NEW b \in Decided, R[a] < R[b]
        PROVE  Cardinality(UpTo(R, a)) < Cardinality(UpTo(R, b))
    <2>1. \A c \in Decided : R[c] <= R[a] => R[c] <= R[b]
      BY <1>3
    <2>2. b \in UpTo(R, b) /\ b \notin UpTo(R, a)
      BY <1>3 DEF UpTo
    <2>3. UpTo(R, a) \subseteq UpTo(R, b) /\ UpTo(R, a) # UpTo(R, b)
      BY <2>1, <2>2 DEF UpTo
    <2>4. QED
      BY <1>1, <2>3, FS_Subset
  <1>4. Rank(R) \in [Decided -> 1 .. Cardinality(Decided)]
    <2>1. \A a \in Decided : Cardinality(UpTo(R, a)) \in 1 .. Cardinality(Decided)
      BY <1>1, <1>2
    <2>2. QED
      BY <2>1 DEF Rank
  <1>5. QED
    BY <1>3, <1>4 DEF Rank

LEMMA PrecedesIsBefore ==
  ASSUME TypeOK, NEW R, NEW n, OrderIs(R, n), NEW a \in Decided, NEW b \in Decided, a # b,
  Precedes(a, b)
  PROVE  R[a] < R[b]
  <1>1. a \in Committing /\ b \in Committing /\ a \in Txns /\ b \in Txns
    BY DEF Decided, Committing
  <1>2. CASE \E i \in DOMAIN read_set[b] : read_set[b][i].from.txn = a
    BY <1>1, <1>2 DEF OrderIs, ReadsAfter
  <1>3. CASE \E k \in Keys : \E i, j \in DOMAIN installed[k] :
               i < j /\ installed[k][i] = a /\ installed[k][j] = b
    BY <1>1, <1>3 DEF OrderIs, WritesInOrder
  <1>4. CASE \E i \in DOMAIN read_set[a] :
               LET r == read_set[a][i] IN
               \E m, l \in DOMAIN installed[r.key] :
                 m < l /\ installed[r.key][m] = r.from.txn /\ installed[r.key][l] = b
    <2>1. PICK i \in DOMAIN read_set[a] :
               LET r == read_set[a][i] IN
               \E m, l \in DOMAIN installed[r.key] :
                 m < l /\ installed[r.key][m] = r.from.txn /\ installed[r.key][l] = b
      BY <1>4
    <2>2. PICK r : r = read_set[a][i]
      OBVIOUS
    <2>3. PICK m \in DOMAIN installed[r.key], l \in DOMAIN installed[r.key] :
            m < l /\ installed[r.key][m] = r.from.txn /\ installed[r.key][l] = b
      BY <2>1, <2>2
    <2>4. CASE r.from.txn # a
      <3>1. ReadBefore(R, a, r)
        BY <1>1, <2>2, <2>4 DEF OrderIs, ReadsBefore, Validated
      <3>2. QED
        BY <1>1, <2>3, <3>1 DEF ReadBefore
    <2>5. CASE r.from.txn = a
      <3>1. read_set[a] \in Seq(Reads)
        BY <1>1 DEF TypeOK
      <3>2. r \in Reads
        BY <2>2, <3>1
      <3>3. r.key \in Keys
        BY <3>2 DEF Reads
      <3>4. QED
        BY <1>1, <2>3, <2>5, <3>3 DEF OrderIs, WritesInOrder
    <2>6. QED
      BY <2>4, <2>5
  <1>5. QED
    BY <1>2, <1>3, <1>4 DEF Precedes

LEMMA ReadsAreLast ==
  ASSUME ReadInv, CleanInv, Orderly
  PROVE  NoIntermediateRead
  <1> SUFFICES ASSUME NEW t \in Decided, NEW i \in DOMAIN read_set[t],
                      read_set[t][i].from.txn \notin {V0, t}
               PROVE  \A j \in DOMAIN write_set[read_set[t][i].from.txn] :
                        write_set[read_set[t][i].from.txn][j] = read_set[t][i].key =>
                          j <= read_set[t][i].from.pos
    BY DEF NoIntermediateRead
  <1>1. t \in Txns /\ i \in Validated(t)
    BY DEF Decided, Validated
  <1>2. ReadIsFinal(t, read_set[t][i])
    <2>1. CASE ~ read_set[t][i].dirty
      BY <1>1, <2>1 DEF ReadInv
    <2>2. CASE read_set[t][i].dirty
      <3>1. AtMostTwo
        BY <1>1, <2>2 DEF Orderly, CleanInv
      <3>2. QED
        BY <1>1, <2>2, <3>1 DEF ReadInv
    <2>3. QED
      BY <2>1, <2>2
  <1>3. QED
    BY <1>2 DEF ReadIsFinal, IsFinal

LEMMA OrderSerializes ==
  ASSUME TypeOK, ReadInv, CleanInv, OrderInv, Orderly
  PROVE  Serializable
  <1>1. PICK R, n : OrderIs(R, n)
    BY DEF OrderInv
  <1>2. IsFiniteSet(Decided) /\ \A a \in Decided : R[a] \in Nat
    BY <1>1 DEF OrderInv, OrderIs, Decided
  <1>3. \A a, b \in Decided : a # b /\ Precedes(a, b) => Rank(R)[a] < Rank(R)[b]
    BY <1>1, <1>2, RankIs, PrecedesIsBefore
  <1>4. Rank(R) \in [Decided -> 1 .. Cardinality(Decided)]
    BY <1>2, RankIs
  <1>5. QED
    BY <1>3, <1>4, ReadsAreLast DEF Serializable

-----------------------------------------------------------------------------
(* The invariant behind the order *)

SerialInv ==
  /\ TxnInv /\ StateInv /\ DepsInv /\ (AtMostTwo => AwaitInv)
  /\ CleanInv /\ InstalledInv /\ OrderInv

LEMMA InitSerialInv == Init => SerialInv
  <1> SUFFICES ASSUME Init PROVE SerialInv
    OBVIOUS
  <1>1. TxnInv
    BY InitTxnInv
  <1>2. CleanInv /\ StateInv /\ DepsInv /\ AwaitInv
    BY DEF Init, CleanInv, StateInv, Resolved, is_commit, is_abort, DepsInv, AwaitInv
  <1>3. ASSUME NEW k \in Keys PROVE installed[k] = <<V0>> /\ version[k] = V0 /\ lock[k] = NONE
    BY DEF Init
  <1>4. InstalledInv
    <2> SUFFICES ASSUME NEW k \in Keys PROVE InstallsOf(k)
      BY DEF InstalledInv
    <2>1. Entries(installed[k]) = {V0}
      BY <1>3 DEF Entries
    <2>2. QED
      BY <1>3, <2>1, TxnAssumption DEF InstallsOf
  <1>5. Decided = {} /\ Committing = {}
    BY DEF Init, Decided, Committing, Validating, Testing
  <1>6. OrderInv
    <2>1. PICK R : R = [t \in Txns |-> 0]
      OBVIOUS
    <2>2. R \in [Txns -> Nat]
      BY <2>1
    <2>3. WritesInOrder(R)
      <3>1. ASSUME NEW k \in Keys
            PROVE  DOMAIN installed[k] = {1} /\ installed[k][1] = V0 /\ V0 \notin Txns
        BY <1>3, TxnAssumption
      <3>2. QED
        BY <3>1 DEF WritesInOrder
    <2>4. OrderIs(R, 0)
      BY <1>5, <2>2, <2>3 DEF OrderIs, ReadsAfter, ReadsBefore
    <2>5. IsFiniteSet(Decided)
      BY <1>5, FS_EmptySet
    <2>6. QED
      BY <2>4, <2>5 DEF OrderInv
  <1>7. QED
    BY <1>1, <1>2, <1>4, <1>6 DEF SerialInv

LEMMA SerialInvKept == SerialInv /\ [Next]_vars => SerialInv'
  <1> SUFFICES ASSUME SerialInv, [Next]_vars PROVE SerialInv'
    OBVIOUS
  <1>0. /\ TxnInv /\ StateInv /\ DepsInv /\ (AtMostTwo => AwaitInv)
        /\ CleanInv /\ InstalledInv /\ OrderInv
    BY DEF SerialInv
  <1>1. TxnInv'
    BY <1>0, TxnInvKept
  <1>2. CASE UNCHANGED vars
    <2>1. UNCHANGED <<policy, pc, idx, state, read_set, write_set, dep_queue, piece, version, list,
                      lock, installed>>
      BY <1>2 DEF vars, txn_vars, tuple_vars
    <2>2. CleanInv' /\ StateInv' /\ DepsInv' /\ (AtMostTwo => AwaitInv')
      <3>1. CleanInv'
        BY <1>0, <2>1 DEF CleanInv
      <3>2. StateInv' /\ DepsInv'
        BY <1>0, <2>1 DEF StateInv, Resolved, is_commit, is_abort, DepsInv
      <3>3. AtMostTwo => AwaitInv'
        BY <1>0, <2>1 DEF AwaitInv, DirtyReadIs, Awaited, LatestIs
      <3>4. QED
        BY <3>1, <3>2, <3>3
    <2>3. InstalledInv'
      BY <1>0, <2>1 DEF InstalledInv, InstallsOf, Entries, HasInstalled, Decided, StillToInstall
    <2>4. ASSUME NEW R, NEW n, OrderIs(R, n) PROVE OrderIs(R, n)'
      <3>1. Committing' = Committing
        BY <2>1 DEF Committing
      <3>2. \A t : Validated(t)' = Validated(t)
        BY <2>1 DEF Validated, Decided
      <3>3. ReadsAfter(R)'
        BY <2>1, <2>4, <3>1 DEF OrderIs, ReadsAfter
      <3>4. WritesInOrder(R)'
        BY <2>1, <2>4, <3>1 DEF OrderIs, WritesInOrder
      <3>5. \A a, r : ReadBefore(R, a, r)' <=> ReadBefore(R, a, r)
        BY <2>1, <3>1 DEF ReadBefore
      <3>6. ReadsBefore(R)'
        BY <2>1, <2>4, <3>1, <3>2, <3>5 DEF OrderIs, ReadsBefore
      <3>7. QED
        BY <2>4, <3>1, <3>3, <3>4, <3>6 DEF OrderIs
    <2>5. Decided' = Decided
      BY <2>1 DEF Decided
    <2>6. OrderInv'
      BY <1>0, <2>1, <2>4, <2>5 DEF OrderInv, Orderly
    <2>7. QED
      BY <1>1, <2>2, <2>3, <2>6 DEF SerialInv
  <1>3. ASSUME NEW t \in Txns, Step(t) \/ Reuse(t) PROVE SerialInv'
    <2>1. /\ TypeOK /\ ProgramInv /\ ListInv /\ UnlinkInv /\ LockInv /\ SourceInv /\ ValueInv /\ ReadInv
          /\ CommitInv /\ ReadInv'
      BY <1>0, <1>1 DEF TxnInv
    <2>2. CleanInv' /\ InstalledInv' /\ StateInv' /\ DepsInv'
      BY <1>0, <1>3, <2>1, CleanKept, InstallsKept, StatesKept, DepsKept
    <2>3. AtMostTwo => AwaitInv'
      BY <1>0, <1>3, <2>1, AwaitKept
    <2>4. OrderInv'
      BY <1>0, <1>3, <2>1, <2>2, <2>3, OrderKept
    <2>5. QED
      BY <1>1, <2>2, <2>3, <2>4 DEF SerialInv
  <1>4. QED
    BY <1>2, <1>3 DEF Next, Terminated

THEOREM OptimisticSerializes == Spec => []OptimisticIsSerializable
  <1>1. SerialInv => OptimisticIsSerializable
    BY OrderSerializes DEF SerialInv, TxnInv, Orderly, OptimisticIsSerializable
  <1>2. QED
    BY <1>1, InitSerialInv, SerialInvKept, PTL DEF Spec

\* Two transactions are serializable under any policy, however they read and
\* whatever they expose: the one that reads dirty waits for the other one.
THEOREM TwoSerialize == ASSUME AtMostTwo PROVE Spec => []Serializable
  <1>1. SerialInv => Serializable
    BY OrderSerializes DEF SerialInv, TxnInv, Orderly
  <1>2. QED
    BY <1>1, InitSerialInv, SerialInvKept, PTL DEF Spec
=============================================================================
