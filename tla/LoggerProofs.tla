---------------------------- MODULE LoggerProofs ----------------------------
(***************************************************************************)
(* Proofs about group commit, for any cores, buffers, lag and transactions: *)
(* the file is what the workers committed in its order, what the logger     *)
(* claims is in the file, and no epoch that is said to be over gets another  *)
(* transaction.                                                             *)
(***************************************************************************)
EXTENDS Logger, WellFoundedInduction, SequenceTheorems, TLAPS

-----------------------------------------------------------------------------
(* The invariant *)

Epochs == Nat \ {0}
LogBuffers == Seq(Epochs) \ {<<>>}
InSection == {"txn", "log", "logged"}

ClockTypes == now \in Epochs /\ done \in Nat /\ open \in [Cores -> Nat]
WorkerTypes ==
  /\ pc \in [Cores -> InSection \cup {"idle", "ended"}]
  /\ commit_epoch \in [Cores -> Nat]
  /\ head \in [Cores -> Seq(Epochs)] /\ committed \in [Cores -> Seq(Epochs)]
  /\ nbufs \in [Cores -> Nat] /\ queue \in [Cores -> Seq(LogBuffers)]
LoggerTypes ==
  /\ file \in [Cores -> Seq(Epochs)] /\ epochs \in [Cores -> Nat]
  /\ w_pc \in {"start", "collect", "update", "store", "return"} /\ w_todo \in SUBSET Cores
  /\ w_pc \in {"store", "return"} => w_todo # {}
  /\ nbufswritten \in Nat
  /\ scheduled \in [Cores -> Nat] /\ sense \in {0, 1}
  /\ epoch_prefixes \in [0 .. 1 -> [Cores -> Nat]]
PersisterTypes ==
  /\ p_pc \in {"sleep", "peek", "trylock", "recheck", "advance", "load"}
  /\ p_todo \in SUBSET Cores /\ p_core \in Cores \cup {NONE}
  /\ p_pc \in {"trylock", "recheck", "advance", "load"} => p_core \in Cores
  /\ best_tick_inc \in Nat /\ min_so_far \in Nat /\ system_sync_epoch \in Nat
TypeOK == ClockTypes /\ WorkerTypes /\ LoggerTypes /\ PersisterTypes

\* A section is open from its beginning to its end; what a worker is to log has
\* an epoch, what it has just logged is at the end of the buffer it fills, and a
\* buffer with contents is one that it owns.
WorkerInv ==
  \A c \in Cores :
    /\ open[c] = 0 <=> pc[c] \in {"idle", "ended"}
    /\ pc[c] = "log" => commit_epoch[c] \in Epochs /\ commit_epoch[c] <= now
    /\ pc[c] = "logged" => /\ head[c] # <<>> /\ EpochOf(head[c]) = commit_epoch[c]
                           /\ commit_epoch[c] \in Epochs /\ commit_epoch[c] <= now
    /\ head[c] # <<>> => nbufs[c] > 0

\* The logger holds on to what it has collected until it has returned it.
ScheduledInv ==
  \A c \in Cores :
    /\ scheduled[c] <= Len(queue[c])
    /\ w_pc = "start" \/ (w_pc = "collect" /\ (c \in w_todo \/ nbufswritten = 0))
         \/ (Updating /\ c \notin w_todo)
         => scheduled[c] = 0

\* Epochs grow along what a core commits, through its queue up to the buffer it
\* fills and the transaction it is about to log.
CommitsGrow ==
  \A c \in Cores :
    /\ \A i, j \in DOMAIN committed[c] : i <= j => committed[c][i] <= committed[c][j]
    /\ \A i \in DOMAIN committed[c] :
         committed[c][i] <= now /\ (pc[c] = "log" => committed[c][i] <= commit_epoch[c])
QueuesGrow ==
  \A c \in Cores :
    /\ \A i, j \in DOMAIN queue[c] : i <= j => EpochOf(queue[c][i]) <= EpochOf(queue[c][j])
    /\ \A i \in DOMAIN queue[c] :
         /\ EpochOf(queue[c][i]) <= now
         /\ head[c] # <<>> => EpochOf(queue[c][i]) <= EpochOf(head[c])
         /\ pc[c] = "log" => EpochOf(queue[c][i]) <= commit_epoch[c]
    /\ head[c] # <<>> =>
         /\ EpochOf(head[c]) <= now
         /\ pc[c] = "log" => EpochOf(head[c]) <= commit_epoch[c]

\* What the logger has prepared to say of a core, now or the time before, is
\* behind whatever of that core is still to be written; this time, it is one
\* behind the last buffer collected, whose end is the end of the file once that
\* is written.
PrefixesAreBehind ==
  \A s \in 0 .. 1 : \A c \in Cores :
    /\ epoch_prefixes[s][c] < now
    /\ \A i \in DOMAIN queue[c] : i > scheduled[c] => epoch_prefixes[s][c] < EpochOf(queue[c][i])
    /\ head[c] # <<>> => epoch_prefixes[s][c] < EpochOf(head[c])
    /\ pc[c] = "log" => epoch_prefixes[s][c] < commit_epoch[c]
ClaimInv ==
  \A c \in Cores : scheduled[c] > 0 =>
    /\ Claim(c) = EpochOf(queue[c][scheduled[c]]) - 1
    /\ Updating => file[c] # <<>> /\ EpochOf(file[c]) = EpochOf(queue[c][scheduled[c]])

\* The persister has the lock of a core that it finds idle with nothing queued;
\* only the end of its worker can change that.
LockedIsIdle ==
  /\ p_pc \in {"recheck", "advance"} => pc[p_core] \in {"idle", "ended"}
  /\ p_pc = "advance" /\ pc[p_core] = "idle" => queue[p_core] = <<>>

\* What has been said of the cores and of the system, and what the persister is
\* about to say, is over: it is behind the clock and behind any transaction that
\* a core is logging or has logged in the section it is in.
Visited == Cores \ (p_todo \cup IF p_pc = "peek" THEN {} ELSE {p_core})
InCommit == {"log", "logged"}
SyncInv ==
  \A c \in Cores :
    /\ epochs[c] < now /\ system_sync_epoch < now
    /\ p_pc # "sleep" => best_tick_inc < now
    /\ p_pc # "sleep" /\ c \in Visited => min_so_far < now
    /\ pc[c] \in InCommit =>
         /\ epochs[c] < commit_epoch[c] /\ system_sync_epoch < commit_epoch[c]
         /\ p_pc # "sleep" /\ c \in Visited => min_so_far < commit_epoch[c]

LogInv ==
  /\ TypeOK /\ WorkerInv /\ ScheduledInv /\ LogIsInCommitOrder
  /\ CommitsGrow /\ QueuesGrow /\ PrefixesAreBehind /\ ClaimInv /\ LockedIsIdle /\ SyncInv

-----------------------------------------------------------------------------
(* Sequences.  Facts that need induction are proved with the least element of *)
(* the set of numbers for which they do not hold.                            *)

LEMMA LeastOf ==
  ASSUME NEW T, T \subseteq Nat, T # {}
  PROVE  \E x \in T : \A y \in T : x <= y
  <1>1. PICK x \in T : \A y \in T : ~ (<<y, x>> \in OpToRel(<, Nat))
    BY NatLessThanWellFounded, WFMin
  <1>2. \A y \in T : ~ (y < x)
    BY <1>1, <<x, x>>[1] = x DEF OpToRel
  <1>3. QED
    BY <1>2

LEMMA MinOfSetIs ==
  ASSUME NEW S, S \subseteq Nat, S # {}
  PROVE  MinOfSet(S) \in S /\ \A y \in S : MinOfSet(S) <= y
  BY LeastOf DEF MinOfSet

LEMMA MinOfTwo ==
  ASSUME NEW x \in Nat, NEW y \in Nat
  PROVE  /\ MinOfSet({x, y}) \in Nat /\ MinOfSet({x, y}) \in {x, y}
         /\ MinOfSet({x, y}) <= x /\ MinOfSet({x, y}) <= y
  <1>1. {x, y} \subseteq Nat /\ {x, y} # {} /\ x \in {x, y} /\ y \in {x, y}
    OBVIOUS
  <1>2. QED
    BY <1>1, MinOfSetIs

\* FlattenSeq of the first m sequences of s, for every m up to n.
Flattens(f, s, n) ==
  /\ f = [i \in 1 .. n |-> f[i]]
  /\ \A i \in 1 .. n : f[i] = IF i = 1 THEN s[i] ELSE f[i - 1] \o s[i]

LEMMA FlattensExists ==
  ASSUME NEW s, NEW n \in Nat
  PROVE  \E f : Flattens(f, s, n)
  <1> DEFINE Bad == {m \in Nat : ~ \E f : Flattens(f, s, m)}
  <1>1. SUFFICES ASSUME Bad # {} PROVE FALSE
    OBVIOUS
  <1>2. PICK m \in Bad : \A y \in Bad : m <= y
    <2>1. Bad \subseteq Nat
      OBVIOUS
    <2> HIDE DEF Bad
    <2>2. QED
      BY <1>1, <2>1, LeastOf
  <1>3. m # 0
    <2>1. PICK f : f = [i \in 1 .. 0 |-> <<>>]
      OBVIOUS
    <2>2. Flattens(f, s, 0)
      BY <2>1 DEF Flattens
    <2>3. QED
      BY <1>2, <2>2
  <1>4. m \in Nat /\ m - 1 \in Nat /\ m - 1 \notin Bad
    BY <1>2, <1>3
  <1>5. PICK f : Flattens(f, s, m - 1)
    BY <1>4
  <1>6. PICK g : g = [i \in 1 .. m |-> IF i = m THEN IF m = 1 THEN s[m] ELSE f[m - 1] \o s[m] ELSE f[i]]
    OBVIOUS
  <1>7. \A i \in 1 .. m - 1 : g[i] = f[i] /\ f[i] = IF i = 1 THEN s[i] ELSE f[i - 1] \o s[i]
    <2>1. \A i \in 1 .. m - 1 : i \in 1 .. m /\ i # m
      BY <1>4
    <2>2. \A i \in 1 .. m - 1 : g[i] = f[i]
      BY <1>6, <2>1
    <2>3. \A i \in 1 .. m - 1 : f[i] = IF i = 1 THEN s[i] ELSE f[i - 1] \o s[i]
      BY <1>5 DEF Flattens
    <2>4. QED
      BY <2>2, <2>3
  <1>8. g[m] = IF m = 1 THEN s[m] ELSE g[m - 1] \o s[m]
    <2>1. m \in 1 .. m /\ (m # 1 => m - 1 \in 1 .. m - 1)
      BY <1>3, <1>4
    <2>2. QED
      BY <1>6, <1>7, <2>1
  <1>9. \A i \in 1 .. m : g[i] = IF i = 1 THEN s[i] ELSE g[i - 1] \o s[i]
    <2> SUFFICES ASSUME NEW i \in 1 .. m, i # m PROVE g[i] = IF i = 1 THEN s[i] ELSE g[i - 1] \o s[i]
      BY <1>8
    <2>1. i \in 1 .. m - 1 /\ (i # 1 => i - 1 \in 1 .. m - 1)
      BY <1>4
    <2>2. QED
      BY <1>7, <2>1
  <1>10. Flattens(g, s, m)
    BY <1>6, <1>9 DEF Flattens
  <1>11. QED
    BY <1>2, <1>10

LEMMA FlattenSeqIs ==
  ASSUME NEW s, Len(s) \in Nat, Len(s) # 0
  PROVE  \E f : Flattens(f, s, Len(s)) /\ FlattenSeq(s) = f[Len(s)]
  <1> DEFINE Is(f) == f = [i \in 1 .. Len(s) |-> IF i = 1 THEN s[i] ELSE f[i - 1] \o s[i]]
  <1>1. PICK g : Flattens(g, s, Len(s))
    BY FlattensExists
  <1>2. Is(g)
    <2>1. \A i \in 1 .. Len(s) : g[i] = IF i = 1 THEN s[i] ELSE g[i - 1] \o s[i]
      BY <1>1 DEF Flattens
    <2>2. g = [i \in 1 .. Len(s) |-> g[i]]
      BY <1>1 DEF Flattens
    <2>3. [i \in 1 .. Len(s) |-> g[i]] = [i \in 1 .. Len(s) |-> IF i = 1 THEN s[i] ELSE g[i - 1] \o s[i]]
      BY <2>1
    <2>4. QED
      BY <2>2, <2>3
  <1>3. PICK f : f = CHOOSE h : Is(h)
    OBVIOUS
  <1>4. Is(f)
    BY <1>2, <1>3
  <1>5. FlattenSeq(s) = f[Len(s)]
    BY <1>3 DEF FlattenSeq
  <1>6. Flattens(f, s, Len(s))
    <2>1. \A i \in 1 .. Len(s) : f[i] = IF i = 1 THEN s[i] ELSE f[i - 1] \o s[i]
      BY <1>4
    <2>2. f = [i \in 1 .. Len(s) |-> f[i]]
      BY <1>4
    <2>3. QED
      BY <2>1, <2>2 DEF Flattens
  <1>7. QED
    BY <1>5, <1>6

\* Sequences that begin with the same sequences are flattened the same way.
LEMMA FlattensAgree ==
  ASSUME NEW s, NEW t, NEW f, NEW g, NEW m \in Nat, NEW n \in Nat, m <= n,
         Flattens(f, s, m), Flattens(g, t, n), \A i \in 1 .. m : s[i] = t[i]
  PROVE  \A i \in 1 .. m : f[i] = g[i]
  <1> DEFINE Bad == {i \in 1 .. m : f[i] # g[i]}
  <1>1. SUFFICES ASSUME Bad # {} PROVE FALSE
    OBVIOUS
  <1>2. PICK i \in Bad : \A y \in Bad : i <= y
    <2>1. Bad \subseteq Nat
      OBVIOUS
    <2> HIDE DEF Bad
    <2>2. QED
      BY <1>1, <2>1, LeastOf
  <1>3. i \in 1 .. m /\ i \in 1 .. n /\ f[i] # g[i] /\ s[i] = t[i]
    BY <1>2
  <1>4. i # 1 => i - 1 \in 1 .. m /\ i - 1 \notin Bad
    BY <1>2, <1>3
  <1>5. /\ f[i] = IF i = 1 THEN s[i] ELSE f[i - 1] \o s[i]
        /\ g[i] = IF i = 1 THEN t[i] ELSE g[i - 1] \o t[i]
    BY <1>3 DEF Flattens
  <1>6. QED
    BY <1>3, <1>4, <1>5

LEMMA FlattenEmpty == FlattenSeq(<<>>) = <<>>
  BY DEF FlattenSeq

LEMMA FlattenType ==
  ASSUME NEW X, NEW s \in Seq(Seq(X))
  PROVE  FlattenSeq(s) \in Seq(X)
  <1>1. CASE Len(s) = 0
    <2>1. s = <<>>
      BY <1>1
    <2>2. QED
      BY <2>1, FlattenEmpty, EmptySeq
  <1>2. CASE Len(s) # 0
    <2>1. PICK f : Flattens(f, s, Len(s)) /\ FlattenSeq(s) = f[Len(s)]
      BY <1>2, FlattenSeqIs
    <2> DEFINE Bad == {i \in 1 .. Len(s) : f[i] \notin Seq(X)}
    <2>2. ASSUME Bad # {} PROVE FALSE
      <3>1. PICK i \in Bad : \A y \in Bad : i <= y
        <4>1. Bad \subseteq Nat
          OBVIOUS
        <4> HIDE DEF Bad
        <4>2. QED
          BY <2>2, <4>1, LeastOf
      <3>2. i \in 1 .. Len(s) /\ s[i] \in Seq(X) /\ f[i] = IF i = 1 THEN s[i] ELSE f[i - 1] \o s[i]
        <4>1. i \in 1 .. Len(s)
          BY <3>1
        <4>2. f[i] = IF i = 1 THEN s[i] ELSE f[i - 1] \o s[i]
          BY <2>1, <4>1 DEF Flattens
        <4>3. QED
          BY <4>1, <4>2
      <3>3. ASSUME i # 1 PROVE f[i - 1] \in Seq(X)
        <4>1. i - 1 \in 1 .. Len(s) /\ ~ i <= i - 1
          BY <3>2, <3>3
        <4>2. i - 1 \notin Bad
          <5> HIDE DEF Bad
          <5>1. QED
            BY ONLY <3>1, <4>1
        <4>3. QED
          BY ONLY <4>1, <4>2
      <3>4. f[i] \in Seq(X)
        BY <3>2, <3>3, ConcatProperties
      <3>5. QED
        BY <3>1, <3>4
    <2>3. Len(s) \in 1 .. Len(s)
      BY <1>2
    <2>4. QED
      BY <2>1, <2>2, <2>3
  <1>3. QED
    BY <1>1, <1>2

LEMMA FlattenAppend ==
  ASSUME NEW X, NEW s \in Seq(Seq(X)), NEW b \in Seq(X)
  PROVE  FlattenSeq(Append(s, b)) = FlattenSeq(s) \o b
  <1>1. PICK t : t = Append(s, b)
    OBVIOUS
  <1>2. /\ t \in Seq(Seq(X)) /\ Len(t) = Len(s) + 1 /\ Len(s) \in Nat
        /\ t[Len(s) + 1] = b /\ \A i \in 1 .. Len(s) : t[i] = s[i]
    BY <1>1, AppendProperties
  <1>3. PICK g : Flattens(g, t, Len(s) + 1) /\ FlattenSeq(t) = g[Len(s) + 1]
    BY <1>2, FlattenSeqIs
  <1>4. g[Len(s) + 1] = IF Len(s) + 1 = 1 THEN b ELSE g[Len(s)] \o b
    <2>1. Len(s) + 1 \in 1 .. Len(s) + 1 /\ (Len(s) + 1) - 1 = Len(s)
      BY <1>2
    <2>2. g[Len(s) + 1] = IF Len(s) + 1 = 1 THEN t[Len(s) + 1] ELSE g[(Len(s) + 1) - 1] \o t[Len(s) + 1]
      BY <1>3, <2>1 DEF Flattens
    <2>3. QED
      BY <1>2, <2>1, <2>2
  <1>5. CASE Len(s) = 0
    <2>1. s = <<>>
      BY <1>5
    <2>2. QED
      BY <1>1, <1>3, <1>4, <1>5, <2>1, FlattenEmpty, ConcatEmptySeq
  <1>6. CASE Len(s) # 0
    <2>1. PICK f : Flattens(f, s, Len(s)) /\ FlattenSeq(s) = f[Len(s)]
      BY <1>2, <1>6, FlattenSeqIs
    <2>2. \A i \in 1 .. Len(s) : f[i] = g[i]
      <3>1. Len(s) <= Len(s) + 1 /\ Len(s) + 1 \in Nat /\ \A i \in 1 .. Len(s) : s[i] = t[i]
        BY <1>2
      <3>2. Flattens(f, s, Len(s)) /\ Flattens(g, t, Len(s) + 1)
        BY <1>3, <2>1
      <3>3. PICK m, n : m = Len(s) /\ n = Len(s) + 1
        OBVIOUS
      <3>4. /\ m \in Nat /\ n \in Nat /\ m <= n /\ Flattens(f, s, m) /\ Flattens(g, t, n)
            /\ \A i \in 1 .. m : s[i] = t[i]
        BY <1>2, <3>1, <3>2, <3>3
      <3>5. \A i \in 1 .. m : f[i] = g[i]
        BY ONLY <3>4, FlattensAgree, SMTT(30)
      <3>6. QED
        BY <3>3, <3>5
    <2>3. Len(s) \in 1 .. Len(s) /\ Len(s) + 1 # 1
      BY <1>2, <1>6
    <2>4. QED
      BY <1>1, <1>3, <1>4, <2>1, <2>2, <2>3
  <1>7. QED
    BY <1>5, <1>6

LEMMA SubSeqTypes ==
  ASSUME NEW Y, NEW s \in Seq(Y), NEW m \in Nat, NEW n \in 0 .. Len(s)
  PROVE  /\ SubSeq(s, m + 1, n) \in Seq(Y)
         /\ Len(SubSeq(s, m + 1, n)) = IF m <= n THEN n - m ELSE 0
         /\ \A i \in 1 .. n - m : SubSeq(s, m + 1, n)[i] = s[m + i]
  <1>1. Len(s) \in Nat /\ m + 1 \in Int /\ n \in Int
    OBVIOUS
  <1>2. \A i \in m + 1 .. n : s[i] \in Y
    OBVIOUS
  <1>3. /\ SubSeq(s, m + 1, n) \in Seq(Y)
        /\ Len(SubSeq(s, m + 1, n)) = IF m + 1 <= n THEN n - (m + 1) + 1 ELSE 0
        /\ \A i \in 1 .. n - (m + 1) + 1 : SubSeq(s, m + 1, n)[i] = s[(m + 1) + i - 1]
    BY <1>1, <1>2, SubSeqProperties
  <1>4. n - (m + 1) + 1 = n - m
    BY <1>1
  <1>5. \A i \in 1 .. n - m : (m + 1) + i - 1 = m + i
    BY <1>1
  <1>6. Len(SubSeq(s, m + 1, n)) = IF m <= n THEN n - m ELSE 0
    BY <1>1, <1>3
  <1>7. QED
    BY <1>3, <1>4, <1>5, <1>6

\* A part that goes one element further.
LEMMA SubSeqGrows ==
  ASSUME NEW Y, NEW s \in Seq(Y), NEW m \in Nat, NEW n \in m + 1 .. Len(s)
  PROVE  SubSeq(s, m + 1, n) = Append(SubSeq(s, m + 1, n - 1), s[n])
  <1>1. m + 1 \in 1 .. Len(s) /\ n \in (m + 1) .. Len(s) /\ n \in 1 .. Len(s) /\ s[n] \in Y
    OBVIOUS
  <1>2. SubSeq(s, m + 1, n) = SubSeq(s, m + 1, n - 1) \o <<s[n]>>
    BY <1>1, SubSeqRecursiveSecond
  <1>3. SubSeq(s, m + 1, n - 1) \in Seq(Y)
    <2>1. n - 1 \in 0 .. Len(s)
      BY <1>1
    <2>2. QED
      BY <2>1, SubSeqTypes
  <1>4. QED
    BY <1>1, <1>2, <1>3, AppendIsConcat

\* A sequence of sequences, cut in two, is flattened part by part.
LEMMA FlattenParts ==
  ASSUME NEW X, NEW s \in Seq(Seq(X)), NEW n \in 0 .. Len(s)
  PROVE  FlattenSeq(s) = FlattenSeq(SubSeq(s, 1, n)) \o FlattenSeq(SubSeq(s, n + 1, Len(s)))
  <1> DEFINE Whole(m) == FlattenSeq(SubSeq(s, 1, m))
             Part(m) == FlattenSeq(SubSeq(s, n + 1, m))
             Bad == {m \in n .. Len(s) : Whole(m) # Whole(n) \o Part(m)}
  <1>0. n \in Nat /\ Len(s) \in Nat /\ n <= Len(s) /\ SubSeq(s, 1, n) \in Seq(Seq(X))
    <2>1. n \in Nat /\ Len(s) \in Nat /\ n <= Len(s)
      OBVIOUS
    <2>2. SubSeq(s, 0 + 1, n) \in Seq(Seq(X))
      BY <2>1, SubSeqTypes
    <2>3. QED
      BY <2>1, <2>2
  <1>1. ASSUME Bad # {} PROVE FALSE
    <2>1. PICK m : m \in Bad /\ \A y \in Bad : m <= y
      <3>1. Bad \subseteq Nat
        BY <1>0
      <3> HIDE DEF Bad
      <3>2. QED
        BY <1>1, <3>1, LeastOf
    <2>2. m \in n .. Len(s) /\ m \in Nat
      BY <1>0, <2>1
    <2>3. m # n
      <3>1. SubSeq(s, n + 1, n) = <<>>
        BY <1>0, SubSeqEmpty
      <3>2. Whole(n) \in Seq(X)
        BY <1>0, FlattenType
      <3>3. Whole(n) = Whole(n) \o Part(n)
        BY <3>1, <3>2, FlattenEmpty, ConcatEmptySeq
      <3>4. QED
        BY <2>1, <3>3
    <2>4. m - 1 \in n .. Len(s) /\ m - 1 \in Nat /\ m \in n + 1 .. Len(s) /\ m \in 0 + 1 .. Len(s)
          /\ m - 1 \in 0 .. Len(s)
      BY <1>0, <2>2, <2>3
    <2>5. m - 1 \notin Bad
      BY <2>1, <2>2, <2>4
    <2>6. Whole(m - 1) = Whole(n) \o Part(m - 1)
      BY <2>4, <2>5
    <2>7. /\ SubSeq(s, 1, m) = Append(SubSeq(s, 1, m - 1), s[m])
          /\ SubSeq(s, n + 1, m) = Append(SubSeq(s, n + 1, m - 1), s[m])
      <3>1. SubSeq(s, 0 + 1, m) = Append(SubSeq(s, 0 + 1, m - 1), s[m])
        BY <2>4, SubSeqGrows
      <3>2. SubSeq(s, n + 1, m) = Append(SubSeq(s, n + 1, m - 1), s[m])
        BY <1>0, <2>4, SubSeqGrows
      <3>3. SubSeq(s, 1, m) = Append(SubSeq(s, 1, m - 1), s[m])
        BY <3>1, 0 + 1 = 1
      <3>4. QED
        BY <3>2, <3>3
    <2>8. /\ SubSeq(s, 1, m - 1) \in Seq(Seq(X)) /\ SubSeq(s, n + 1, m - 1) \in Seq(Seq(X))
          /\ s[m] \in Seq(X)
      <3>1. SubSeq(s, 0 + 1, m - 1) \in Seq(Seq(X))
        BY <2>4, SubSeqTypes
      <3>2. QED
        BY <1>0, <2>4, <3>1, SubSeqTypes
    <2>9. Whole(m) = Whole(m - 1) \o s[m] /\ Part(m) = Part(m - 1) \o s[m]
      BY <2>7, <2>8, FlattenAppend
    <2>10. Whole(n) \in Seq(X) /\ Part(m - 1) \in Seq(X)
      BY <1>0, <2>8, FlattenType
    <2>11. Whole(m) = Whole(n) \o Part(m)
      <3>1. PICK a, b, e : a = Whole(n) /\ b = Part(m - 1) /\ e = s[m]
        OBVIOUS
      <3>2. a \in Seq(X) /\ b \in Seq(X) /\ e \in Seq(X)
        BY <2>8, <2>10, <3>1
      <3>3. (a \o b) \o e = a \o (b \o e)
        BY ONLY <3>2, ConcatAssociative, SMTT(30)
      <3>4. QED
        BY <2>6, <2>9, <3>1, <3>3
    <2>12. QED
      BY <2>1, <2>11
  <1>2. Len(s) \in n .. Len(s)
    BY <1>0
  <1>3. Whole(Len(s)) = Whole(n) \o Part(Len(s))
    BY <1>1, <1>2
  <1>4. QED
    BY <1>3, SubSeqFull

-----------------------------------------------------------------------------
(* Types *)

LEMMA EpochIs ==
  ASSUME NEW b \in Seq(Epochs), b # <<>>
  PROVE  EpochOf(b) \in Epochs /\ Len(b) \in Nat \ {0} /\ b \in LogBuffers
  <1>1. Len(b) \in Nat \ {0}
    BY EmptySeq
  <1>2. Len(b) \in 1 .. Len(b)
    BY <1>1
  <1>3. QED
    BY <1>1, <1>2 DEF EpochOf, LogBuffers

LEMMA QueueIs ==
  ASSUME TypeOK, NEW c \in Cores
  PROVE  /\ queue[c] \in Seq(LogBuffers) /\ Len(queue[c]) \in Nat /\ queue[c] \in Seq(Seq(Epochs))
         /\ DOMAIN queue[c] = 1 .. Len(queue[c])
         /\ \A i \in DOMAIN queue[c] :
              /\ queue[c][i] \in LogBuffers /\ queue[c][i] \in Seq(Epochs) /\ queue[c][i] # <<>>
              /\ EpochOf(queue[c][i]) \in Epochs
  <1>1. queue[c] \in Seq(LogBuffers)
    BY DEF TypeOK, WorkerTypes
  <1>2. Len(queue[c]) \in Nat /\ DOMAIN queue[c] = 1 .. Len(queue[c])
    BY <1>1
  <1>3. \A i \in DOMAIN queue[c] : queue[c][i] \in LogBuffers
    BY <1>1
  <1>4. \A i \in DOMAIN queue[c] : queue[c][i] \in Seq(Epochs) /\ queue[c][i] # <<>>
    BY <1>3 DEF LogBuffers
  <1>5. queue[c] \in Seq(Seq(Epochs))
    BY <1>1, <1>2, <1>4
  <1>6. QED
    BY <1>1, <1>2, <1>3, <1>4, <1>5, EpochIs

\* What is pushed is a buffer with contents that the worker owns.
Pushing(c) == (PushFull(c) \/ (ThreadEnd(c) /\ head[c] # <<>>))
LEMMA PushIs ==
  ASSUME TypeOK, WorkerInv, NEW c \in Cores, Pushing(c)
  PROVE  /\ Push(c) /\ head[c] # <<>> /\ head[c] \in LogBuffers /\ nbufs[c] > 0
         /\ pc[c] \in {"log", "idle"} /\ (pc[c] = "idle" => pc' = [pc EXCEPT ![c] = "ended"])
         /\ (pc[c] = "log" => pc' = pc)
         /\ UNCHANGED <<clock_vars, commit_epoch, committed, logger_vars, persister_vars>>
  <1>1. head[c] \in Seq(Epochs)
    BY DEF TypeOK, WorkerTypes
  <1>2. head[c] # <<>>
    BY LoggerAssumption DEF Pushing, PushFull, CanHold
  <1>3. nbufs[c] > 0
    BY <1>2 DEF Pushing, PushFull, WorkerInv
  <1>4. QED
    BY <1>1, <1>2, <1>3, EpochIs DEF Pushing, PushFull, ThreadEnd

LEMMA RestIs ==
  ASSUME TypeOK, ScheduledInv, NEW c \in Cores
  PROVE  /\ Rest(c) \in Seq(LogBuffers) /\ Len(Rest(c)) = Len(queue[c]) - scheduled[c]
         /\ \A i \in 1 .. Len(queue[c]) - scheduled[c] : Rest(c)[i] = queue[c][scheduled[c] + i]
         /\ scheduled[c] \in 0 .. Len(queue[c])
  <1>1. queue[c] \in Seq(LogBuffers) /\ Len(queue[c]) \in Nat /\ scheduled[c] \in Nat
        /\ scheduled[c] <= Len(queue[c])
    BY QueueIs DEF TypeOK, LoggerTypes, ScheduledInv
  <1>2. Len(queue[c]) \in 0 .. Len(queue[c])
    BY <1>1
  <1>3. /\ SubSeq(queue[c], scheduled[c] + 1, Len(queue[c])) \in Seq(LogBuffers)
        /\ Len(SubSeq(queue[c], scheduled[c] + 1, Len(queue[c]))) = Len(queue[c]) - scheduled[c]
        /\ \A i \in 1 .. Len(queue[c]) - scheduled[c] :
             SubSeq(queue[c], scheduled[c] + 1, Len(queue[c]))[i] = queue[c][scheduled[c] + i]
    <2>1. PICK s, m, n : s = queue[c] /\ m = scheduled[c] /\ n = Len(queue[c])
      OBVIOUS
    <2>2. s \in Seq(LogBuffers) /\ m \in Nat /\ n \in 0 .. Len(s) /\ m <= n
      BY <1>1, <1>2, <2>1
    <2>3. /\ SubSeq(s, m + 1, n) \in Seq(LogBuffers)
          /\ Len(SubSeq(s, m + 1, n)) = n - m
          /\ \A i \in 1 .. n - m : SubSeq(s, m + 1, n)[i] = s[m + i]
      BY ONLY <2>2, SubSeqTypes
    <2>4. QED
      BY ONLY <2>1, <2>3
  <1>4. QED
    BY ONLY <1>1, <1>3, SMTT(30) DEF Rest

LEMMA InitTypes == Init => TypeOK
  <1> SUFFICES ASSUME Init PROVE TypeOK
    OBVIOUS
  <1>1. ClockTypes
    BY DEF Init, ClockInit, ClockTypes, Epochs
  <1>2. WorkerTypes
    BY LoggerAssumption, EmptySeq DEF Init, WorkerTypes, Zero, Empty
  <1>3. LoggerTypes
    BY EmptySeq DEF Init, LoggerTypes, Zero, Empty
  <1>4. PersisterTypes
    BY DEF Init, PersisterTypes
  <1>5. QED
    BY <1>1, <1>2, <1>3, <1>4 DEF TypeOK

LEMMA WorkerTypesKept ==
  ASSUME TypeOK, WorkerInv, NEW c \in Cores, WorkerStep(c)
  PROVE  TypeOK'
  <1>0. ClockTypes /\ WorkerTypes /\ LoggerTypes /\ PersisterTypes
    BY DEF TypeOK
  <1>1. LoggerTypes' /\ PersisterTypes'
    <2>1. UNCHANGED <<file, epochs, w_pc, w_todo, nbufswritten, scheduled, sense, epoch_prefixes>>
          /\ UNCHANGED <<p_pc, p_todo, p_core, best_tick_inc, min_so_far, system_sync_epoch>>
      BY DEF WorkerStep, Begin, Commit, LogTxn, PushFull, End, ThreadEnd, logger_vars, persister_vars
    <2>2. QED
      BY <1>0, <2>1 DEF LoggerTypes, PersisterTypes
  <1>2. ClockTypes'
    <2>1. now' = now /\ done' = done
          /\ (open' = open \/ open' = [open EXCEPT ![c] = now] \/ open' = [open EXCEPT ![c] = 0])
      BY DEF WorkerStep, Begin, Commit, LogTxn, PushFull, End, ThreadEnd, Open, Close, clock_vars
    <2>2. QED
      BY <1>0, <2>1 DEF ClockTypes, Epochs
  <1>3. WorkerTypes'
    <2>1. CASE Begin(c)
      BY <1>0, <2>1 DEF WorkerTypes, Begin, ring_vars, InSection
    <2>2. CASE Commit(c)
      BY <1>0, <2>2 DEF WorkerTypes, Commit, ring_vars, InSection, ClockTypes, Epochs
    <2>3. CASE LogTxn(c)
      <3>1. commit_epoch[c] \in Epochs
        BY <2>3 DEF WorkerInv, LogTxn
      <3>2. Append(head[c], commit_epoch[c]) \in Seq(Epochs) /\ Append(committed[c], commit_epoch[c]) \in Seq(Epochs)
        BY <1>0, <3>1, AppendProperties DEF WorkerTypes
      <3>3. QED
        BY <1>0, <2>3, <3>2 DEF WorkerTypes, LogTxn, ring_vars, InSection
    <2>4. CASE Pushing(c)
      <3>1. /\ Push(c) /\ head[c] \in LogBuffers /\ nbufs[c] > 0
            /\ (pc' = pc \/ pc' = [pc EXCEPT ![c] = "ended"])
            /\ UNCHANGED <<commit_epoch, committed>>
        BY <2>4, PushIs
      <3>2. Append(queue[c], head[c]) \in Seq(LogBuffers) /\ nbufs[c] - 1 \in Nat /\ <<>> \in Seq(Epochs)
        BY <1>0, <3>1, AppendProperties, EmptySeq DEF WorkerTypes
      <3>3. QED
        BY <1>0, <3>1, <3>2 DEF WorkerTypes, Push
    <2>5. CASE End(c)
      BY <1>0, <2>5 DEF WorkerTypes, End, ring_vars
    <2>6. CASE ThreadEnd(c) /\ head[c] = <<>>
      BY <1>0, <2>6 DEF WorkerTypes, ThreadEnd, ring_vars
    <2>7. QED
      BY <2>1, <2>2, <2>3, <2>4, <2>5, <2>6 DEF WorkerStep, Pushing
  <1>4. QED
    BY <1>1, <1>2, <1>3 DEF TypeOK

\* What the logger collects from a core.
LEMMA CollectIs ==
  ASSUME TypeOK, NEW c \in Cores, Collect(c)
  PROVE  \E n \in 0 .. Len(queue[c]) :
           /\ scheduled' = [scheduled EXCEPT ![c] = n]
           /\ epoch_prefixes' = IF n = 0 THEN epoch_prefixes
                                ELSE [epoch_prefixes EXCEPT ![sense][c] = EpochOf(queue[c][n]) - 1]
           /\ n > 0 => n \in DOMAIN queue[c] /\ EpochOf(queue[c][n]) \in Epochs
           /\ nbufswritten' = nbufswritten + n /\ w_todo' \in SUBSET (w_todo \ {c})
  <1>1. PICK n \in 0 .. Len(queue[c]) :
           /\ nbufswritten' = nbufswritten + n /\ w_todo' \in SUBSET (w_todo \ {c})
           /\ scheduled' = [scheduled EXCEPT ![c] = n]
           /\ epoch_prefixes' = [epoch_prefixes EXCEPT ![sense][c] =
                IF n = 0 THEN @ ELSE PrefixOf(queue[c][n])]
    BY DEF Collect
  <1>2. n = 0 => epoch_prefixes' = epoch_prefixes
    BY <1>1 DEF TypeOK, LoggerTypes
  <1>3. n # 0 => epoch_prefixes' = [epoch_prefixes EXCEPT ![sense][c] = EpochOf(queue[c][n]) - 1]
    BY <1>1 DEF PrefixOf
  <1>4. n > 0 => n \in DOMAIN queue[c] /\ EpochOf(queue[c][n]) \in Epochs
    <2>1. Len(queue[c]) \in Nat /\ DOMAIN queue[c] = 1 .. Len(queue[c])
          /\ \A i \in DOMAIN queue[c] : EpochOf(queue[c][i]) \in Epochs
      BY QueueIs
    <2>2. QED
      BY <2>1
  <1>5. QED
    BY <1>1, <1>2, <1>3, <1>4

LEMMA WriterTypesKept ==
  ASSUME TypeOK, WorkerInv, ScheduledInv, WriterStep
  PROVE  TypeOK'
  <1>0. ClockTypes /\ WorkerTypes /\ LoggerTypes /\ PersisterTypes
    BY DEF TypeOK
  <1>1. UNCHANGED <<now, done, open, pc, commit_epoch, head, committed>>
        /\ UNCHANGED <<p_pc, p_todo, p_core, best_tick_inc, min_so_far, system_sync_epoch>>
    BY DEF WriterStep, StartLoop, Collect, Write, Update, StoreClaim, Return, clock_vars, worker_vars,
       persister_vars
  <1>2. ClockTypes' /\ PersisterTypes'
    BY <1>0, <1>1 DEF ClockTypes, PersisterTypes
  <1>3. CASE StartLoop
    <2>1. WorkerTypes' /\ LoggerTypes'
      BY <1>0, <1>1, <1>3 DEF StartLoop, ring_vars, WorkerTypes, LoggerTypes
    <2>2. QED
      BY <1>2, <2>1 DEF TypeOK
  <1>4. ASSUME NEW c \in Cores, Collect(c) PROVE TypeOK'
    <2>1. PICK n \in 0 .. Len(queue[c]) :
           /\ scheduled' = [scheduled EXCEPT ![c] = n]
           /\ epoch_prefixes' = IF n = 0 THEN epoch_prefixes
                                ELSE [epoch_prefixes EXCEPT ![sense][c] = EpochOf(queue[c][n]) - 1]
           /\ n > 0 => n \in DOMAIN queue[c] /\ EpochOf(queue[c][n]) \in Epochs
           /\ nbufswritten' = nbufswritten + n /\ w_todo' \in SUBSET (w_todo \ {c})
      BY <1>4, CollectIs
    <2>2. n \in Nat
      BY QueueIs
    <2>3. epoch_prefixes' \in [0 .. 1 -> [Cores -> Nat]]
      <3>1. CASE n = 0
        BY <1>0, <2>1, <3>1 DEF LoggerTypes
      <3>2. CASE n # 0
        <4>1. EpochOf(queue[c][n]) - 1 \in Nat
          BY <2>1, <2>2, <3>2 DEF Epochs
        <4>2. QED
          BY <1>0, <2>1, <3>2, <4>1 DEF LoggerTypes
      <3>3. QED
        BY <3>1, <3>2
    <2>4. w_todo' \in SUBSET Cores /\ nbufswritten' \in Nat
          /\ scheduled' \in [Cores -> Nat]
      <3>1. w_todo' \in SUBSET Cores
        BY <1>0, <2>1 DEF LoggerTypes
      <3>2. nbufswritten' \in Nat
        BY <1>0, <2>1, <2>2 DEF LoggerTypes
      <3>3. scheduled' \in [Cores -> Nat]
        BY <1>0, <2>1, <2>2 DEF LoggerTypes
      <3>4. QED
        BY <3>1, <3>2, <3>3
    <2>5. UNCHANGED <<file, epochs, sense>> /\ w_pc' = "collect"
      BY <1>4 DEF Collect
    <2>6. LoggerTypes'
      BY <1>0, <2>3, <2>4, <2>5 DEF LoggerTypes
    <2>7. WorkerTypes'
      BY <1>0, <1>1, <1>4 DEF Collect, ring_vars, WorkerTypes
    <2>8. QED
      BY <1>2, <2>6, <2>7 DEF TypeOK
  <1>5. CASE Write
    <2>1. file' \in [Cores -> Seq(Epochs)]
      <3>1. ASSUME NEW c \in Cores
            PROVE  file[c] \o FlattenSeq(SubSeq(queue[c], 1, scheduled[c])) \in Seq(Epochs)
        <4>1. queue[c] \in Seq(Seq(Epochs)) /\ scheduled[c] \in 0 .. Len(queue[c])
          BY QueueIs, RestIs
        <4>2. SubSeq(queue[c], 0 + 1, scheduled[c]) \in Seq(Seq(Epochs))
          BY <4>1, SubSeqTypes
        <4>3. SubSeq(queue[c], 1, scheduled[c]) \in Seq(Seq(Epochs))
          BY <4>2, 0 + 1 = 1
        <4>4. FlattenSeq(SubSeq(queue[c], 1, scheduled[c])) \in Seq(Epochs) /\ file[c] \in Seq(Epochs)
          BY <1>0, <4>3, FlattenType DEF LoggerTypes
        <4>5. QED
          BY <4>4, ConcatProperties
      <3>2. CASE nbufswritten = 0
        BY <1>0, <1>5, <3>2 DEF Write, LoggerTypes
      <3>3. CASE nbufswritten # 0
        <4>1. file' = [c \in Cores |->
                file[c] \o FlattenSeq(SubSeq(queue[c], 1, scheduled[c]))]
          BY <1>5, <3>3 DEF Write
        <4>2. QED
          BY <3>1, <4>1
      <3>4. QED
        BY <3>2, <3>3
    <2>2. WorkerTypes' /\ LoggerTypes'
      BY <1>0, <1>1, <1>5, <2>1 DEF Write, ring_vars, WorkerTypes, LoggerTypes
    <2>3. QED
      BY <1>2, <2>2 DEF TypeOK
  <1>6. ASSUME NEW c \in Cores, Update(c) \/ StoreClaim(c) PROVE TypeOK'
    <2>1. Claim(c) \in Nat
      BY <1>0 DEF Claim, LoggerTypes
    <2>2. WorkerTypes'
      BY <1>0, <1>1, <1>6 DEF Update, StoreClaim, ring_vars, WorkerTypes
    <2>3. LoggerTypes'
      <3>1. UNCHANGED <<file, epoch_prefixes, w_todo, nbufswritten, scheduled, sense>>
            /\ w_pc' \in {"store", "return"} /\ w_todo # {}
            /\ (epochs' = epochs \/ epochs' = [epochs EXCEPT ![c] = Claim(c)])
        BY <1>0, <1>6 DEF Update, StoreClaim, LoggerTypes
      <3>2. QED
        BY <1>0, <2>1, <3>1 DEF LoggerTypes
    <2>4. QED
      BY <1>2, <2>2, <2>3 DEF TypeOK
  <1>7. ASSUME NEW c \in Cores, Return(c) PROVE TypeOK'
    <2>1. Rest(c) \in Seq(LogBuffers)
      BY RestIs
    <2>2. WorkerTypes'
      <3>1. queue' = [queue EXCEPT ![c] = Rest(c)] /\ nbufs' = [nbufs EXCEPT ![c] = nbufs[c] + scheduled[c]]
        BY <1>7 DEF Return
      <3>2. queue' \in [Cores -> Seq(LogBuffers)]
        BY <1>0, <2>1, <3>1 DEF WorkerTypes
      <3>3. nbufs[c] + scheduled[c] \in Nat /\ nbufs \in [Cores -> Nat]
        BY <1>0 DEF WorkerTypes, LoggerTypes
      <3>4. nbufs' \in [Cores -> Nat]
        BY <3>1, <3>3
      <3>5. QED
        BY <1>0, <1>1, <3>2, <3>4 DEF WorkerTypes
    <2>3. LoggerTypes'
      <3>1. UNCHANGED <<file, epochs, epoch_prefixes, nbufswritten>> /\ w_todo' = w_todo \ {c}
            /\ w_pc' \in {"start", "update"} /\ sense' \in {sense, 1 - sense}
            /\ scheduled' = [scheduled EXCEPT ![c] = 0]
        BY <1>7 DEF Return
      <3>2. QED
        BY <1>0, <3>1 DEF LoggerTypes
    <2>4. QED
      BY <1>2, <2>2, <2>3 DEF TypeOK
  <1>8. QED
    BY <1>3, <1>4, <1>5, <1>6, <1>7 DEF WriterStep

LEMMA PersisterTypesKept ==
  ASSUME TypeOK, PersisterStep
  PROVE  TypeOK'
  <1>0. ClockTypes /\ WorkerTypes /\ LoggerTypes /\ PersisterTypes
    BY DEF TypeOK
  <1>1. /\ UNCHANGED <<now, done, open, pc, commit_epoch, head, committed, nbufs, queue>>
        /\ UNCHANGED <<file, w_pc, w_todo, nbufswritten, scheduled, sense, epoch_prefixes>>
    BY DEF PersisterStep, StartAdvance, Peek, LockFails, LockCore, Recheck, AdvanceCore, LoadCore, Aggregate,
       clock_vars, worker_vars, ring_vars, logger_vars
  <1>2. ClockTypes' /\ WorkerTypes'
    BY <1>0, <1>1 DEF ClockTypes, WorkerTypes
  <1>3. epochs' = epochs \/ AdvanceCore
    BY DEF PersisterStep, StartAdvance, Peek, LockFails, LockCore, Recheck, LoadCore, Aggregate, logger_vars
  <1>4. epochs' \in [Cores -> Nat]
    BY <1>0, <1>3 DEF AdvanceCore, LoggerTypes, PersisterTypes
  <1>5. LoggerTypes'
    BY <1>0, <1>1, <1>4 DEF LoggerTypes
  <1>6. PersisterTypes'
    <2>1. CASE StartAdvance
      BY <1>0, <2>1, LoggerAssumption DEF StartAdvance, PersisterTypes, ClockTypes, Epochs
    <2>2. ASSUME NEW c \in Cores, Peek(c) PROVE PersisterTypes'
      BY <1>0, <2>2 DEF Peek, PersisterTypes
    <2>3. CASE LockFails \/ LockCore \/ Recheck
      BY <1>0, <2>3 DEF LockFails, LockCore, Recheck, PersisterTypes
    <2>4. CASE AdvanceCore
      <3>1. MinOfSet({min_so_far, best_tick_inc}) \in Nat
        BY <1>0, MinOfTwo DEF PersisterTypes
      <3>2. QED
        BY <1>0, <2>4, <3>1 DEF AdvanceCore, PersisterTypes
    <2>5. CASE LoadCore
      <3>1. MinOfSet({min_so_far, epochs[p_core]}) \in Nat
        BY <1>0, <2>5, MinOfTwo DEF PersisterTypes, LoggerTypes, LoadCore
      <3>2. QED
        BY <1>0, <2>5, <3>1 DEF LoadCore, PersisterTypes
    <2>6. CASE Aggregate
      BY <1>0, <2>6 DEF Aggregate, PersisterTypes
    <2>7. QED
      BY <2>1, <2>2, <2>3, <2>4, <2>5, <2>6 DEF PersisterStep
  <1>7. QED
    BY <1>2, <1>5, <1>6 DEF TypeOK

LEMMA OtherTypesKept ==
  ASSUME TypeOK, ClockStep \/ Finish \/ UNCHANGED vars
  PROVE  TypeOK'
  <1>1. /\ UNCHANGED <<open, pc, commit_epoch, head, committed, nbufs, queue>>
        /\ UNCHANGED <<file, epochs, w_pc, w_todo, nbufswritten, scheduled, sense, epoch_prefixes>>
        /\ UNCHANGED <<p_pc, p_todo, p_core, best_tick_inc, min_so_far, system_sync_epoch>>
        /\ now' \in {now, now + 1} /\ done' \in {done, now - 1}
    BY DEF ClockStep, Advance, Declare, Finish, vars, clock_vars, worker_vars, ring_vars, logger_vars,
       persister_vars
  <1>2. ClockTypes'
    BY <1>1 DEF TypeOK, ClockTypes, Epochs
  <1>3. WorkerTypes' /\ LoggerTypes' /\ PersisterTypes'
    BY <1>1 DEF TypeOK, WorkerTypes, LoggerTypes, PersisterTypes
  <1>4. QED
    BY <1>2, <1>3 DEF TypeOK

-----------------------------------------------------------------------------
(* A worker's steps *)

LEMMA AppendIs ==
  ASSUME NEW X, NEW s \in Seq(X), NEW e \in X
  PROVE  /\ Append(s, e) \in Seq(X) /\ Append(s, e) # <<>>
         /\ Len(Append(s, e)) = Len(s) + 1 /\ EpochOf(Append(s, e)) = e
         /\ DOMAIN Append(s, e) = 1 .. Len(s) + 1 /\ DOMAIN s = 1 .. Len(s) /\ Len(s) \in Nat
         /\ \A i \in 1 .. Len(s) : Append(s, e)[i] = s[i]
         /\ Append(s, e)[Len(s) + 1] = e
  BY AppendProperties DEF EpochOf

\* A worker's step is about its own core.
Own(c) == <<pc[c], open[c], commit_epoch[c], head[c], committed[c], nbufs[c], queue[c]>>
Rings(c) == <<head[c], committed[c], nbufs[c], queue[c]>>
Others == <<now, file, epochs, w_pc, w_todo, nbufswritten, scheduled, sense, epoch_prefixes,
            p_pc, p_todo, p_core, best_tick_inc, min_so_far, system_sync_epoch>>
LEMMA WorkerFrame ==
  ASSUME TypeOK, NEW c \in Cores, WorkerStep(c)
  PROVE  /\ UNCHANGED Others
         /\ \A d \in Cores \ {c} :
              /\ pc'[d] = pc[d] /\ open'[d] = open[d] /\ commit_epoch'[d] = commit_epoch[d]
              /\ head'[d] = head[d] /\ committed'[d] = committed[d]
              /\ nbufs'[d] = nbufs[d] /\ queue'[d] = queue[d]
  <1>1. UNCHANGED Others
    BY DEF WorkerStep, Begin, Commit, LogTxn, PushFull, End, ThreadEnd, Open, Close, clock_vars,
       logger_vars, persister_vars, Others
  <1>2. ASSUME NEW d \in Cores \ {c}
        PROVE  /\ pc'[d] = pc[d] /\ open'[d] = open[d] /\ commit_epoch'[d] = commit_epoch[d]
               /\ committed'[d] = committed[d]
    BY DEF WorkerStep, Begin, Commit, LogTxn, PushFull, End, ThreadEnd, Open, Close, clock_vars,
       TypeOK, ClockTypes, WorkerTypes
  <1>3. ASSUME NEW d \in Cores \ {c}
        PROVE  head'[d] = head[d] /\ nbufs'[d] = nbufs[d] /\ queue'[d] = queue[d]
    BY DEF WorkerStep, Begin, Commit, LogTxn, PushFull, End, ThreadEnd, Push, ring_vars,
       TypeOK, ClockTypes, WorkerTypes
  <1>4. QED
    BY <1>1, <1>2, <1>3

\* What it does there.
Moves(c) ==
  \/ /\ pc[c] = "idle" /\ pc'[c] = "txn" /\ open'[c] = now /\ UNCHANGED commit_epoch[c]
     /\ p_core # c \/ p_pc \notin {"recheck", "advance"}
  \/ pc[c] = "txn" /\ pc'[c] = "log" /\ open'[c] = open[c] /\ commit_epoch'[c] = now
  \/ /\ pc[c] \in {"txn", "logged"} /\ pc'[c] = "idle" /\ open'[c] = 0
     /\ commit_epoch'[c] = commit_epoch[c]
  \/ /\ pc[c] = "idle" /\ pc'[c] = "ended" /\ open'[c] = open[c]
     /\ commit_epoch'[c] = commit_epoch[c]
Logs(c) ==
  /\ pc[c] = "log" /\ pc'[c] = "logged" /\ nbufs[c] > 0
  /\ open'[c] = open[c] /\ commit_epoch'[c] = commit_epoch[c]
  /\ head'[c] = Append(head[c], commit_epoch[c])
  /\ committed'[c] = Append(committed[c], commit_epoch[c])
  /\ nbufs'[c] = nbufs[c] /\ queue'[c] = queue[c]
  /\ head[c] # <<>> => EpochOf(head[c]) = commit_epoch[c]
Pushes(c) ==
  /\ (pc[c] = "log" /\ pc'[c] = "log") \/ (pc[c] = "idle" /\ pc'[c] = "ended")
  /\ nbufs[c] > 0 /\ head[c] # <<>>
  /\ open'[c] = open[c] /\ commit_epoch'[c] = commit_epoch[c] /\ committed'[c] = committed[c]
  /\ head'[c] = <<>> /\ nbufs'[c] = nbufs[c] - 1 /\ queue'[c] = Append(queue[c], head[c])
LEMMA WorkerMoves ==
  ASSUME TypeOK, WorkerInv, NEW c \in Cores, WorkerStep(c)
  PROVE  (Moves(c) /\ UNCHANGED Rings(c)) \/ Logs(c) \/ Pushes(c)
  <1>0. c \in DOMAIN pc /\ c \in DOMAIN open /\ c \in DOMAIN commit_epoch /\ c \in DOMAIN head
        /\ c \in DOMAIN committed /\ c \in DOMAIN nbufs /\ c \in DOMAIN queue
    BY DEF TypeOK, ClockTypes, WorkerTypes
  <1>1. CASE Begin(c)
    BY <1>0, <1>1 DEF Begin, Open, Moves, Rings, ring_vars
  <1>2. CASE Commit(c)
    BY <1>0, <1>2 DEF Commit, Moves, Rings, ring_vars, clock_vars
  <1>3. CASE LogTxn(c)
    BY <1>0, <1>3 DEF LogTxn, CanHold, Logs, ring_vars, clock_vars
  <1>4. CASE Pushing(c)
    <2>1. /\ Push(c) /\ head[c] # <<>> /\ nbufs[c] > 0
          /\ pc[c] \in {"log", "idle"} /\ (pc[c] = "idle" => pc' = [pc EXCEPT ![c] = "ended"])
          /\ (pc[c] = "log" => pc' = pc)
          /\ UNCHANGED <<clock_vars, commit_epoch, committed>>
      BY <1>4, PushIs
    <2>2. QED
      BY <1>0, <2>1 DEF Push, Pushes, clock_vars
  <1>5. CASE End(c)
    BY <1>0, <1>5 DEF End, Close, Moves, Rings, ring_vars
  <1>6. CASE ThreadEnd(c) /\ head[c] = <<>>
    BY <1>0, <1>6 DEF ThreadEnd, Moves, Rings, ring_vars, clock_vars
  <1>7. QED
    BY <1>1, <1>2, <1>3, <1>4, <1>5, <1>6 DEF WorkerStep, Pushing

LEMMA SubSeqAgree ==
  ASSUME NEW Y, NEW s \in Seq(Y), NEW t \in Seq(Y), NEW m \in Nat, NEW n \in 0 .. Len(s), n \in 0 .. Len(t),
         \A i \in 1 .. n - m : s[m + i] = t[m + i]
  PROVE  SubSeq(s, m + 1, n) = SubSeq(t, m + 1, n)
  <1>1. PICK x : x = SubSeq(s, m + 1, n)
    OBVIOUS
  <1>2. PICK y : y = SubSeq(t, m + 1, n)
    OBVIOUS
  <1>3. x \in Seq(Y) /\ y \in Seq(Y) /\ Len(x) = Len(y) /\ n \in Nat
        /\ Len(x) = (IF m <= n THEN n - m ELSE 0)
        /\ \A i \in 1 .. n - m : x[i] = s[m + i] /\ y[i] = t[m + i]
    <2>1. x \in Seq(Y) /\ Len(x) = (IF m <= n THEN n - m ELSE 0) /\ \A i \in 1 .. n - m : x[i] = s[m + i]
      BY <1>1, SubSeqTypes
    <2>2. y \in Seq(Y) /\ Len(y) = (IF m <= n THEN n - m ELSE 0) /\ \A i \in 1 .. n - m : y[i] = t[m + i]
      BY <1>2, SubSeqTypes
    <2>3. n \in Nat
      OBVIOUS
    <2>4. QED
      BY ONLY <2>1, <2>2, <2>3
  <1>4. \A i \in 1 .. Len(x) : x[i] = y[i]
    <2>1. Len(x) = (IF m <= n THEN n - m ELSE 0) /\ n \in Nat /\ m \in Nat
      BY <1>3
    <2>2. \A i \in 1 .. Len(x) : i \in 1 .. n - m
      BY <2>1
    <2>3. QED
      BY <1>3, <2>2
  <1>5. QED
    BY <1>1, <1>2, <1>3, <1>4, SeqEqual

LEMMA WorkerKeepsWorker ==
  ASSUME TypeOK, WorkerInv, NEW c \in Cores, WorkerStep(c)
  PROVE  WorkerInv'
  <1>1. /\ UNCHANGED Others
        /\ \A d \in Cores \ {c} :
             /\ pc'[d] = pc[d] /\ open'[d] = open[d] /\ commit_epoch'[d] = commit_epoch[d]
             /\ head'[d] = head[d] /\ committed'[d] = committed[d]
             /\ nbufs'[d] = nbufs[d] /\ queue'[d] = queue[d]
    BY WorkerFrame
  <1>2. now \in Epochs /\ now' = now
    BY <1>1 DEF TypeOK, ClockTypes, Others
  <1>3. /\ open'[c] = 0 <=> pc'[c] \in {"idle", "ended"}
        /\ pc'[c] = "log" => commit_epoch'[c] \in Epochs /\ commit_epoch'[c] <= now'
        /\ pc'[c] = "logged" => /\ head'[c] # <<>> /\ EpochOf(head'[c]) = commit_epoch'[c]
                                /\ commit_epoch'[c] \in Epochs /\ commit_epoch'[c] <= now'
        /\ head'[c] # <<>> => nbufs'[c] > 0
    <2>1. CASE Moves(c) /\ UNCHANGED Rings(c)
      BY <1>2, <2>1 DEF Moves, Rings, WorkerInv, Epochs
    <2>2. CASE Logs(c)
      <3>1. head[c] \in Seq(Epochs) /\ commit_epoch[c] \in Epochs /\ commit_epoch[c] <= now
        BY <2>2 DEF Logs, WorkerInv, TypeOK, WorkerTypes
      <3>2. head'[c] # <<>> /\ EpochOf(head'[c]) = commit_epoch[c]
        BY <2>2, <3>1, AppendIs DEF Logs
      <3>3. QED
        BY <1>2, <2>2, <3>1, <3>2 DEF Logs, WorkerInv
    <2>3. CASE Pushes(c)
      BY <1>2, <2>3 DEF Pushes, WorkerInv
    <2>4. QED
      BY <2>1, <2>2, <2>3, WorkerMoves
  <1>4. QED
    BY <1>1, <1>2, <1>3 DEF WorkerInv

LEMMA WorkerKeepsScheduled ==
  ASSUME TypeOK, WorkerInv, ScheduledInv, NEW c \in Cores, WorkerStep(c)
  PROVE  ScheduledInv'
  <1>1. /\ UNCHANGED <<w_pc, w_todo, nbufswritten, scheduled>>
        /\ \A d \in Cores \ {c} : queue'[d] = queue[d]
    BY WorkerFrame DEF Others
  <1>2. queue'[c] = queue[c] \/ queue'[c] = Append(queue[c], head[c])
    BY WorkerMoves DEF Rings, Logs, Pushes
  <1>3. Len(queue[c]) \in Nat /\ queue[c] \in Seq(LogBuffers) /\ scheduled[c] \in Nat
    BY QueueIs DEF TypeOK, LoggerTypes
  <1>4. scheduled[c] <= Len(queue'[c])
    <2>1. scheduled[c] <= Len(queue[c])
      BY DEF ScheduledInv
    <2>2. Len(queue'[c]) \in {Len(queue[c]), Len(queue[c]) + 1}
      BY <1>2, <1>3
    <2>3. QED
      BY <1>3, <2>1, <2>2
  <1>5. QED
    BY <1>1, <1>4 DEF ScheduledInv, Updating

LEMMA WorkerKeepsOrder ==
  ASSUME TypeOK, WorkerInv, ScheduledInv, LogIsInCommitOrder, NEW c \in Cores, WorkerStep(c)
  PROVE  LogIsInCommitOrder'
  <1>1. /\ UNCHANGED <<w_pc, w_todo, scheduled, file>>
        /\ \A d \in Cores \ {c} : /\ head'[d] = head[d] /\ committed'[d] = committed[d]
                                  /\ nbufs'[d] = nbufs[d] /\ queue'[d] = queue[d]
    BY WorkerFrame DEF Others
  <1>2. \A d \in Cores : InFile(d)' = InFile(d)
    BY <1>1 DEF InFile, Updating
  <1>3. \A d \in Cores \ {c} : Unwritten(d)' = Unwritten(d)
    BY <1>1, <1>2 DEF Unwritten
  <1>4. /\ queue[c] \in Seq(LogBuffers) /\ queue[c] \in Seq(Seq(Epochs)) /\ Len(queue[c]) \in Nat
        /\ head[c] \in Seq(Epochs) /\ file[c] \in Seq(Epochs) /\ nbufs[c] \in Nat
        /\ InFile(c) \in Nat /\ InFile(c) <= Len(queue[c])
    <2>1. queue[c] \in Seq(LogBuffers) /\ queue[c] \in Seq(Seq(Epochs)) /\ Len(queue[c]) \in Nat
      BY QueueIs
    <2>2. head[c] \in Seq(Epochs) /\ file[c] \in Seq(Epochs) /\ nbufs[c] \in Nat /\ scheduled[c] \in Nat
      BY DEF TypeOK, WorkerTypes, LoggerTypes
    <2>3. InFile(c) \in {0, scheduled[c]} /\ scheduled[c] <= Len(queue[c])
      BY DEF InFile, ScheduledInv
    <2>4. QED
      BY <2>1, <2>2, <2>3
  <1>5. Unwritten(c) \in Seq(Seq(Epochs)) /\ Unwritten(c) = SubSeq(queue[c], InFile(c) + 1, Len(queue[c]))
    <2>1. Len(queue[c]) \in 0 .. Len(queue[c])
      BY <1>4
    <2>2. QED
      BY <1>4, <2>1, SubSeqTypes DEF Unwritten
  <1>6. PICK u : u = FlattenSeq(Unwritten(c))
    OBVIOUS
  <1>7. u \in Seq(Epochs) /\ committed[c] = file[c] \o u \o head[c] /\ nbufs[c] + Len(queue[c]) = Buffers
    BY <1>5, <1>6, FlattenType DEF LogIsInCommitOrder
  <1>8. /\ committed'[c] = file'[c] \o FlattenSeq(Unwritten(c)') \o head'[c]
        /\ nbufs'[c] + Len(queue'[c]) = Buffers
    <2>1. CASE UNCHANGED Rings(c)
      <3>1. Unwritten(c)' = Unwritten(c)
        BY <1>2, <2>1 DEF Rings, Unwritten
      <3>2. QED
        BY <1>1, <1>6, <1>7, <2>1, <3>1 DEF Rings
    <2>2. CASE Logs(c)
      <3>1. Unwritten(c)' = Unwritten(c)
        BY <1>2, <2>2 DEF Logs, Unwritten
      <3>2. PICK e : e = commit_epoch[c]
        OBVIOUS
      <3>3. e \in Epochs
        BY <2>2, <3>2 DEF Logs, WorkerInv
      <3>4. Append(file[c] \o u \o head[c], e) = file[c] \o u \o Append(head[c], e)
        <4>1. file[c] \in Seq(Epochs) /\ u \in Seq(Epochs) /\ head[c] \in Seq(Epochs)
          BY <1>4, <1>7
        <4>2. PICK f : f = file[c]
          OBVIOUS
        <4>3. PICK h : h = head[c]
          OBVIOUS
        <4>4. f \in Seq(Epochs) /\ u \in Seq(Epochs) /\ h \in Seq(Epochs) /\ e \in Epochs
          BY <3>3, <4>1, <4>2, <4>3
        <4>5. PICK x : x = f \o u
          OBVIOUS
        <4>7. x \in Seq(Epochs)
          BY <4>4, <4>5, ConcatProperties
        <4>8. PICK r : r = x \o h
          OBVIOUS
        <4>9. Append(r, e) = x \o Append(h, e)
          <5>1. Append(r, e) = r \o <<e>> /\ Append(h, e) = h \o <<e>>
            BY <4>4, <4>7, <4>8, AppendIsConcat, ConcatProperties
          <5>2. <<e>> \in Seq(Epochs)
            BY <4>4
          <5>3. (x \o h) \o <<e>> = x \o (h \o <<e>>)
            BY ONLY <4>4, <4>7, <5>2, ConcatAssociative
          <5>4. QED
            BY <4>8, <5>1, <5>3
        <4>6. QED
          BY <4>2, <4>3, <4>5, <4>8, <4>9
      <3>5. QED
        BY <1>1, <1>6, <1>7, <2>2, <3>1, <3>2, <3>4 DEF Logs
    <2>3. CASE Pushes(c)
      <3>1. PICK q : q = Append(queue[c], head[c])
        OBVIOUS
      <3>2. q \in Seq(Seq(Epochs)) /\ Len(q) = Len(queue[c]) + 1 /\ q[Len(q)] = head[c]
            /\ \A i \in 1 .. Len(queue[c]) : q[i] = queue[c][i]
        BY <1>4, <3>1, AppendProperties
      <3>3. Unwritten(c)' = SubSeq(q, InFile(c) + 1, Len(q))
        BY <1>2, <2>3, <3>1 DEF Pushes, Unwritten
      <3>4. SubSeq(q, InFile(c) + 1, Len(q)) = Append(SubSeq(q, InFile(c) + 1, Len(q) - 1), q[Len(q)])
        <4>1. Len(q) \in InFile(c) + 1 .. Len(q)
          BY <1>4, <3>2
        <4>2. QED
          BY <1>4, <3>2, <4>1, SubSeqGrows
      <3>5. SubSeq(q, InFile(c) + 1, Len(q) - 1) = Unwritten(c)
        <4>1. /\ Len(q) - 1 \in 0 .. Len(q) /\ Len(queue[c]) \in 0 .. Len(queue[c])
              /\ Len(q) - 1 = Len(queue[c])
          BY <1>4, <3>2
        <4>2. \A i \in 1 .. Len(queue[c]) - InFile(c) : q[InFile(c) + i] = queue[c][InFile(c) + i]
          <5>1. InFile(c) \in Nat /\ Len(queue[c]) \in Nat
            BY <1>4
          <5>2. \A i \in 1 .. Len(queue[c]) - InFile(c) : InFile(c) + i \in 1 .. Len(queue[c])
            BY <5>1
          <5>3. QED
            BY <3>2, <5>2
        <4>3. q \in Seq(Seq(Epochs)) /\ queue[c] \in Seq(Seq(Epochs)) /\ InFile(c) \in Nat
              /\ Len(queue[c]) \in 0 .. Len(q)
          BY <1>4, <3>2, <4>1
        <4>4. SubSeq(q, InFile(c) + 1, Len(queue[c])) = SubSeq(queue[c], InFile(c) + 1, Len(queue[c]))
          BY <4>1, <4>2, <4>3, SubSeqAgree
        <4>5. QED
          BY <1>5, <4>1, <4>4
      <3>6. FlattenSeq(Unwritten(c)') = u \o head[c]
        BY <1>4, <1>5, <1>6, <3>2, <3>3, <3>4, <3>5, FlattenAppend
      <3>7. file[c] \o u \o head[c] = file[c] \o (u \o head[c]) \o <<>>
        <4>1. file[c] \o (u \o head[c]) \in Seq(Epochs)
          BY <1>4, <1>7, ConcatProperties
        <4>2. file[c] \in Seq(Epochs) /\ u \in Seq(Epochs) /\ head[c] \in Seq(Epochs)
          BY <1>4, <1>7
        <4>3. (file[c] \o u) \o head[c] = file[c] \o (u \o head[c])
          <5>1. PICK f : f = file[c]
            OBVIOUS
          <5>2. PICK h : h = head[c]
            OBVIOUS
          <5>3. f \in Seq(Epochs) /\ u \in Seq(Epochs) /\ h \in Seq(Epochs)
            BY <4>2, <5>1, <5>2
          <5>4. (f \o u) \o h = f \o (u \o h)
            BY ONLY <5>3, ConcatAssociative
          <5>5. QED
            BY <5>1, <5>2, <5>4
        <4>4. file[c] \o (u \o head[c]) \o <<>> = file[c] \o (u \o head[c])
          BY <4>1, ConcatEmptySeq
        <4>5. QED
          BY <4>3, <4>4
      <3>8. nbufs'[c] + Len(queue'[c]) = nbufs[c] + Len(queue[c])
        <4>1. nbufs'[c] = nbufs[c] - 1 /\ queue'[c] = q
          BY <2>3, <3>1 DEF Pushes
        <4>2. nbufs[c] \in Nat /\ Len(queue[c]) \in Nat /\ Len(queue'[c]) = Len(queue[c]) + 1
          BY <1>4, <3>2, <4>1
        <4>3. QED
          BY ONLY <4>1, <4>2
      <3>9. QED
        BY <1>1, <1>7, <2>3, <3>6, <3>7, <3>8 DEF Pushes
    <2>4. QED
      BY <2>1, <2>2, <2>3, WorkerMoves
  <1>9. QED
    <2>1. ASSUME NEW d \in Cores
          PROVE  /\ committed'[d] = file'[d] \o FlattenSeq(Unwritten(d)') \o head'[d]
                 /\ nbufs'[d] + Len(queue'[d]) = Buffers
      <3>1. CASE d = c
        BY <1>8, <3>1
      <3>2. CASE d # c
        BY <1>1, <1>3, <3>2 DEF LogIsInCommitOrder
      <3>3. QED
        BY <3>1, <3>2
    <2>2. QED
      BY <2>1 DEF LogIsInCommitOrder

LEMMA WorkerKeepsCommits ==
  ASSUME TypeOK, WorkerInv, CommitsGrow, NEW c \in Cores, WorkerStep(c)
  PROVE  CommitsGrow'
  <1>1. /\ now' = now
        /\ \A d \in Cores \ {c} : /\ pc'[d] = pc[d] /\ commit_epoch'[d] = commit_epoch[d]
                                  /\ committed'[d] = committed[d]
    BY WorkerFrame DEF Others
  <1>2. committed[c] \in Seq(Epochs) /\ DOMAIN committed[c] = 1 .. Len(committed[c])
        /\ Len(committed[c]) \in Nat /\ now \in Epochs
        /\ \A i \in DOMAIN committed[c] : committed[c][i] \in Epochs
    BY DEF TypeOK, ClockTypes, WorkerTypes
  <1>3. /\ \A i, j \in DOMAIN committed'[c] : i <= j => committed'[c][i] <= committed'[c][j]
        /\ \A i \in DOMAIN committed'[c] :
             committed'[c][i] <= now /\ (pc'[c] = "log" => committed'[c][i] <= commit_epoch'[c])
    <2>1. CASE Moves(c) /\ UNCHANGED Rings(c)
      BY <1>2, <2>1 DEF CommitsGrow, Moves, Rings
    <2>2. CASE Logs(c)
      <3>1. PICK e : e = commit_epoch[c]
        OBVIOUS
      <3>2. PICK k : k = committed'[c]
        OBVIOUS
      <3>3. e \in Epochs /\ e <= now /\ pc[c] = "log" /\ pc'[c] = "logged"
        BY <2>2, <3>1 DEF Logs, WorkerInv
      <3>4. /\ DOMAIN k = 1 .. Len(committed[c]) + 1 /\ k[Len(committed[c]) + 1] = e
            /\ \A i \in 1 .. Len(committed[c]) : k[i] = committed[c][i]
        BY <1>2, <2>2, <3>1, <3>2, <3>3, AppendIs DEF Logs
      <3>5. \A i \in 1 .. Len(committed[c]) : committed[c][i] \in Epochs /\ committed[c][i] <= now /\ committed[c][i] <= e
        BY <1>2, <3>1, <3>3 DEF CommitsGrow
      <3>6. \A i, j \in 1 .. Len(committed[c]) : i <= j => committed[c][i] <= committed[c][j]
        BY <1>2 DEF CommitsGrow
      <3>7. ASSUME NEW i \in DOMAIN k, NEW j \in DOMAIN k, i <= j PROVE k[i] <= k[j]
        <4>1. CASE j = Len(committed[c]) + 1
          BY <1>2, <3>3, <3>4, <3>5, <4>1 DEF Epochs
        <4>2. CASE j # Len(committed[c]) + 1
          <5>1. i \in 1 .. Len(committed[c]) /\ j \in 1 .. Len(committed[c])
            BY <1>2, <3>4, <3>7, <4>2
          <5>2. QED
            BY <3>4, <3>6, <3>7, <5>1
        <4>3. QED
          BY <4>1, <4>2
      <3>8. ASSUME NEW i \in DOMAIN k PROVE k[i] <= now
        <4>1. CASE i = Len(committed[c]) + 1
          BY <3>3, <3>4, <4>1
        <4>2. CASE i # Len(committed[c]) + 1
          <5>1. i \in 1 .. Len(committed[c])
            BY <1>2, <3>4, <4>2
          <5>2. QED
            BY <3>4, <3>5, <5>1
        <4>3. QED
          BY <4>1, <4>2
      <3>9. QED
        BY <3>2, <3>3, <3>7, <3>8
    <2>3. CASE Pushes(c)
      BY <2>3 DEF CommitsGrow, Pushes
    <2>4. QED
      BY <2>1, <2>2, <2>3, WorkerMoves
  <1>4. QED
    BY <1>1, <1>3 DEF CommitsGrow

LEMMA WorkerKeepsQueues ==
  ASSUME TypeOK, WorkerInv, QueuesGrow, NEW c \in Cores, WorkerStep(c)
  PROVE  QueuesGrow'
  <1>1. /\ now' = now
        /\ \A d \in Cores \ {c} : /\ pc'[d] = pc[d] /\ commit_epoch'[d] = commit_epoch[d]
                                  /\ head'[d] = head[d] /\ queue'[d] = queue[d]
    BY WorkerFrame DEF Others
  <1>2. /\ queue[c] \in Seq(LogBuffers) /\ DOMAIN queue[c] = 1 .. Len(queue[c]) /\ Len(queue[c]) \in Nat
        /\ \A i \in DOMAIN queue[c] : EpochOf(queue[c][i]) \in Epochs
        /\ head[c] \in Seq(Epochs) /\ (head[c] # <<>> => EpochOf(head[c]) \in Epochs) /\ now \in Epochs
    <2>1. head[c] \in Seq(Epochs) /\ now \in Epochs
      BY DEF TypeOK, ClockTypes, WorkerTypes
    <2>2. QED
      BY <2>1, QueueIs, EpochIs
  <1>3. /\ \A i, j \in DOMAIN queue'[c] : i <= j => EpochOf(queue'[c][i]) <= EpochOf(queue'[c][j])
        /\ \A i \in DOMAIN queue'[c] :
             /\ EpochOf(queue'[c][i]) <= now
             /\ head'[c] # <<>> => EpochOf(queue'[c][i]) <= EpochOf(head'[c])
             /\ pc'[c] = "log" => EpochOf(queue'[c][i]) <= commit_epoch'[c]
        /\ head'[c] # <<>> =>
             /\ EpochOf(head'[c]) <= now
             /\ pc'[c] = "log" => EpochOf(head'[c]) <= commit_epoch'[c]
    <2>1. CASE Moves(c) /\ UNCHANGED Rings(c)
      BY <1>2, <2>1 DEF QueuesGrow, Moves, Rings
    <2>2. CASE Logs(c)
      <3>1. /\ commit_epoch[c] \in Epochs /\ commit_epoch[c] <= now /\ pc[c] = "log" /\ pc'[c] = "logged"
            /\ queue'[c] = queue[c]
        BY <2>2 DEF Logs, WorkerInv
      <3>2. EpochOf(head'[c]) = commit_epoch[c]
        BY <1>2, <2>2, <3>1, AppendIs DEF Logs
      <3>3. QED
        BY <3>1, <3>2 DEF QueuesGrow
    <2>3. CASE Pushes(c)
      <3>1. PICK q : q = queue'[c]
        OBVIOUS
      <3>2. head[c] # <<>> /\ head'[c] = <<>> /\ commit_epoch'[c] = commit_epoch[c]
            /\ (pc'[c] = "log" => pc[c] = "log") /\ q = Append(queue[c], head[c])
        BY <2>3, <3>1 DEF Pushes
      <3>3. head[c] \in LogBuffers /\ EpochOf(head[c]) \in Epochs
        BY <1>2, <3>2, EpochIs
      <3>4. /\ DOMAIN q = 1 .. Len(queue[c]) + 1 /\ q[Len(queue[c]) + 1] = head[c]
            /\ \A i \in 1 .. Len(queue[c]) : q[i] = queue[c][i]
        BY <1>2, <3>2, <3>3, AppendIs
      <3>5. /\ \A i \in 1 .. Len(queue[c]) :
                 /\ EpochOf(queue[c][i]) \in Epochs /\ EpochOf(queue[c][i]) <= now
                 /\ EpochOf(queue[c][i]) <= EpochOf(head[c])
                 /\ pc[c] = "log" => EpochOf(queue[c][i]) <= commit_epoch[c]
            /\ EpochOf(head[c]) <= now /\ (pc[c] = "log" => EpochOf(head[c]) <= commit_epoch[c])
        BY <1>2, <3>2 DEF QueuesGrow
      <3>6. \A i, j \in 1 .. Len(queue[c]) : i <= j => EpochOf(queue[c][i]) <= EpochOf(queue[c][j])
        BY <1>2 DEF QueuesGrow
      <3>7. ASSUME NEW i \in DOMAIN q, NEW j \in DOMAIN q, i <= j PROVE EpochOf(q[i]) <= EpochOf(q[j])
        <4>1. CASE j = Len(queue[c]) + 1
          <5>1. i \in 1 .. Len(queue[c]) \/ i = j
            BY <1>2, <3>4, <4>1
          <5>2. QED
            BY <3>3, <3>4, <3>5, <4>1, <5>1 DEF Epochs
        <4>2. CASE j # Len(queue[c]) + 1
          <5>1. i \in 1 .. Len(queue[c]) /\ j \in 1 .. Len(queue[c])
            BY <1>2, <3>4, <3>7, <4>2
          <5>2. QED
            BY <3>4, <3>6, <3>7, <5>1
        <4>3. QED
          BY <4>1, <4>2
      <3>8. ASSUME NEW i \in DOMAIN q
            PROVE  EpochOf(q[i]) <= now /\ (pc'[c] = "log" => EpochOf(q[i]) <= commit_epoch'[c])
        <4>1. i \in 1 .. Len(queue[c]) \/ i = Len(queue[c]) + 1
          BY <1>2, <3>4
        <4>2. QED
          BY <3>2, <3>4, <3>5, <4>1
      <3>9. QED
        BY <3>1, <3>2, <3>7, <3>8
    <2>4. QED
      BY <2>1, <2>2, <2>3, WorkerMoves
  <1>4. QED
    <2>1. ASSUME NEW d \in Cores
          PROVE  /\ \A i, j \in DOMAIN queue'[d] : i <= j => EpochOf(queue'[d][i]) <= EpochOf(queue'[d][j])
                 /\ \A i \in DOMAIN queue'[d] :
                      /\ EpochOf(queue'[d][i]) <= now'
                      /\ head'[d] # <<>> => EpochOf(queue'[d][i]) <= EpochOf(head'[d])
                      /\ pc'[d] = "log" => EpochOf(queue'[d][i]) <= commit_epoch'[d]
                 /\ head'[d] # <<>> =>
                      /\ EpochOf(head'[d]) <= now'
                      /\ pc'[d] = "log" => EpochOf(head'[d]) <= commit_epoch'[d]
      <3>1. CASE d = c
        BY <1>1, <1>3, <3>1
      <3>2. CASE d # c
        BY <1>1, <3>2 DEF QueuesGrow
      <3>3. QED
        BY <3>1, <3>2
    <2>2. QED
      BY <2>1 DEF QueuesGrow

LEMMA WorkerKeepsPrefixes ==
  ASSUME TypeOK, WorkerInv, ScheduledInv, PrefixesAreBehind, NEW c \in Cores, WorkerStep(c)
  PROVE  PrefixesAreBehind'
  <1>1. /\ UNCHANGED <<now, scheduled, epoch_prefixes>>
        /\ \A d \in Cores \ {c} : /\ pc'[d] = pc[d] /\ commit_epoch'[d] = commit_epoch[d]
                                  /\ head'[d] = head[d] /\ queue'[d] = queue[d]
    BY WorkerFrame DEF Others
  <1>2. /\ queue[c] \in Seq(LogBuffers) /\ DOMAIN queue[c] = 1 .. Len(queue[c]) /\ Len(queue[c]) \in Nat
        /\ head[c] \in Seq(Epochs)
    BY QueueIs DEF TypeOK, WorkerTypes
  <1>3. ASSUME NEW s \in 0 .. 1
        PROVE  /\ \A i \in DOMAIN queue'[c] : i > scheduled[c] => epoch_prefixes[s][c] < EpochOf(queue'[c][i])
               /\ head'[c] # <<>> => epoch_prefixes[s][c] < EpochOf(head'[c])
               /\ pc'[c] = "log" => epoch_prefixes[s][c] < commit_epoch'[c]
    <2>1. CASE Moves(c) /\ UNCHANGED Rings(c)
      BY <1>2, <2>1 DEF PrefixesAreBehind, Moves, Rings
    <2>2. CASE Logs(c)
      <3>1. commit_epoch[c] \in Epochs /\ pc[c] = "log" /\ pc'[c] = "logged" /\ queue'[c] = queue[c]
        BY <2>2 DEF Logs, WorkerInv
      <3>2. EpochOf(head'[c]) = commit_epoch[c]
        BY <1>2, <2>2, <3>1, AppendIs DEF Logs
      <3>3. QED
        BY <3>1, <3>2 DEF PrefixesAreBehind
    <2>3. CASE Pushes(c)
      <3>1. PICK q : q = queue'[c]
        OBVIOUS
      <3>2. head[c] # <<>> /\ head'[c] = <<>> /\ commit_epoch'[c] = commit_epoch[c]
            /\ (pc'[c] = "log" => pc[c] = "log") /\ q = Append(queue[c], head[c])
        BY <2>3, <3>1 DEF Pushes
      <3>3. head[c] \in LogBuffers
        BY <1>2, <3>2, EpochIs
      <3>4. /\ DOMAIN q = 1 .. Len(queue[c]) + 1 /\ q[Len(queue[c]) + 1] = head[c]
            /\ \A i \in 1 .. Len(queue[c]) : q[i] = queue[c][i]
        BY <1>2, <3>2, <3>3, AppendIs
      <3>5. ASSUME NEW i \in DOMAIN q, i > scheduled[c] PROVE epoch_prefixes[s][c] < EpochOf(q[i])
        <4>1. i \in 1 .. Len(queue[c]) \/ i = Len(queue[c]) + 1
          BY <1>2, <3>4
        <4>2. QED
          BY <1>2, <3>2, <3>4, <3>5, <4>1 DEF PrefixesAreBehind
      <3>6. QED
        BY <3>1, <3>2, <3>5 DEF PrefixesAreBehind
    <2>4. QED
      BY <2>1, <2>2, <2>3, WorkerMoves
  <1>4. ASSUME NEW s \in 0 .. 1, NEW d \in Cores
        PROVE  /\ epoch_prefixes'[s][d] < now'
               /\ \A i \in DOMAIN queue'[d] : i > scheduled'[d] => epoch_prefixes'[s][d] < EpochOf(queue'[d][i])
               /\ head'[d] # <<>> => epoch_prefixes'[s][d] < EpochOf(head'[d])
               /\ pc'[d] = "log" => epoch_prefixes'[s][d] < commit_epoch'[d]
    <2>1. CASE d = c
      BY <1>1, <1>3, <2>1 DEF PrefixesAreBehind
    <2>2. CASE d # c
      BY <1>1, <2>2 DEF PrefixesAreBehind
    <2>3. QED
      BY <2>1, <2>2
  <1>5. QED
    BY <1>4 DEF PrefixesAreBehind

LEMMA WorkerKeepsClaims ==
  ASSUME TypeOK, WorkerInv, ScheduledInv, ClaimInv, NEW c \in Cores, WorkerStep(c)
  PROVE  ClaimInv'
  <1>1. /\ UNCHANGED <<file, w_pc, scheduled, sense, epoch_prefixes>>
        /\ \A d \in Cores \ {c} : queue'[d] = queue[d]
    BY WorkerFrame DEF Others
  <1>2. \A d \in Cores : Claim(d)' = Claim(d)
    BY <1>1 DEF Claim
  <1>3. queue'[c] = queue[c] \/ (Pushes(c) /\ queue'[c] = Append(queue[c], head[c]))
    BY WorkerMoves DEF Rings, Logs, Pushes
  <1>4. scheduled[c] > 0 => queue'[c][scheduled[c]] = queue[c][scheduled[c]]
    <2>1. queue[c] \in Seq(LogBuffers) /\ Len(queue[c]) \in Nat /\ scheduled[c] \in Nat
          /\ scheduled[c] <= Len(queue[c]) /\ head[c] \in Seq(Epochs)
      BY QueueIs DEF TypeOK, WorkerTypes, LoggerTypes, ScheduledInv
    <2>2. scheduled[c] > 0 => scheduled[c] \in 1 .. Len(queue[c])
      BY <2>1
    <2>3. Pushes(c) => head[c] \in LogBuffers
      BY <2>1, EpochIs DEF Pushes
    <2>4. QED
      BY <1>3, <2>1, <2>2, <2>3, AppendIs
  <1>5. ASSUME NEW d \in Cores, scheduled'[d] > 0
        PROVE  /\ Claim(d)' = EpochOf(queue'[d][scheduled'[d]]) - 1
               /\ Updating' => file'[d] # <<>> /\ EpochOf(file'[d]) = EpochOf(queue'[d][scheduled'[d]])
    <2>1. queue'[d][scheduled[d]] = queue[d][scheduled[d]] /\ scheduled[d] > 0
      BY <1>1, <1>4, <1>5
    <2>2. Updating' = Updating
      BY <1>1 DEF Updating
    <2>3. QED
      BY <1>1, <1>2, <2>1, <2>2 DEF ClaimInv
  <1>6. QED
    BY <1>5 DEF ClaimInv

LEMMA WorkerKeepsLocked ==
  ASSUME TypeOK, WorkerInv, LockedIsIdle, NEW c \in Cores, WorkerStep(c)
  PROVE  LockedIsIdle'
  <1>1. /\ UNCHANGED <<p_pc, p_core>>
        /\ \A d \in Cores \ {c} : pc'[d] = pc[d] /\ queue'[d] = queue[d]
    BY WorkerFrame DEF Others
  <1>2. SUFFICES ASSUME p_pc \in {"recheck", "advance"}
                 PROVE  /\ pc'[p_core] \in {"idle", "ended"}
                        /\ p_pc = "advance" /\ pc'[p_core] = "idle" => queue'[p_core] = <<>>
    BY <1>1 DEF LockedIsIdle
  <1>3. p_core \in Cores
    BY <1>2 DEF TypeOK, PersisterTypes
  <1>4. CASE p_core # c
    BY <1>1, <1>2, <1>3, <1>4 DEF LockedIsIdle
  <1>5. CASE p_core = c
    <2>1. pc[c] \in {"idle", "ended"}
      BY <1>2, <1>5 DEF LockedIsIdle
    <2>2. CASE Moves(c) /\ UNCHANGED Rings(c)
      BY <1>2, <1>5, <2>1, <2>2 DEF Moves, Rings
    <2>3. CASE Logs(c)
      BY <2>1, <2>3 DEF Logs
    <2>4. CASE Pushes(c)
      BY <1>5, <2>1, <2>4 DEF Pushes
    <2>5. QED
      BY <2>2, <2>3, <2>4, WorkerMoves
  <1>6. QED
    BY <1>4, <1>5

\* A commit takes the clock's tick, and nothing that is not over is said of it.
LEMMA WorkerKeepsSync ==
  ASSUME TypeOK, WorkerInv, SyncInv, NEW c \in Cores, WorkerStep(c)
  PROVE  SyncInv'
  <1>1. /\ UNCHANGED <<now, p_pc, p_todo, p_core, best_tick_inc, min_so_far, system_sync_epoch, epochs>>
        /\ \A d \in Cores \ {c} : pc'[d] = pc[d] /\ commit_epoch'[d] = commit_epoch[d]
    BY WorkerFrame DEF Others
  <1>2. Visited' = Visited
    BY <1>1 DEF Visited
  <1>3. pc'[c] \in InCommit => (pc[c] \in InCommit /\ commit_epoch'[c] = commit_epoch[c]) \/ commit_epoch'[c] = now
    BY WorkerMoves DEF Moves, Logs, Pushes, InCommit
  <1>4. ASSUME NEW d \in Cores, pc'[d] \in InCommit
        PROVE  /\ epochs[d] < commit_epoch'[d] /\ system_sync_epoch < commit_epoch'[d]
               /\ p_pc # "sleep" /\ d \in Visited => min_so_far < commit_epoch'[d]
    <2>1. (pc[d] \in InCommit /\ commit_epoch'[d] = commit_epoch[d]) \/ commit_epoch'[d] = now
      BY <1>1, <1>3, <1>4
    <2>2. QED
      BY <2>1 DEF SyncInv
  <1>5. QED
    BY <1>1, <1>2, <1>4 DEF SyncInv

-----------------------------------------------------------------------------
(* The logger's steps *)

LEMMA WriterFrame ==
  ASSUME WriterStep
  PROVE  UNCHANGED <<now, done, open, pc, commit_epoch, head, committed,
                     p_pc, p_todo, p_core, best_tick_inc, min_so_far, system_sync_epoch>>
  BY DEF WriterStep, StartLoop, Collect, Write, Update, StoreClaim, Return, clock_vars, worker_vars,
     persister_vars

\* Each of them, core by core.
Starts ==
  /\ w_pc = "start" /\ w_pc' = "collect" /\ w_todo' = Cores
  /\ UNCHANGED <<file, epochs, scheduled, sense, epoch_prefixes, nbufs, queue>>
Collects(c, n) ==
  /\ w_pc = "collect" /\ c \in w_todo /\ w_pc' = w_pc /\ w_todo' \in SUBSET (w_todo \ {c})
  /\ n \in 0 .. Len(queue[c]) /\ nbufswritten' = nbufswritten + n
  /\ scheduled' = [scheduled EXCEPT ![c] = n]
  /\ epoch_prefixes' = IF n = 0 THEN epoch_prefixes
                       ELSE [epoch_prefixes EXCEPT ![sense][c] = EpochOf(queue[c][n]) - 1]
  /\ UNCHANGED <<file, epochs, sense, nbufs, queue>>
Writes ==
  /\ w_pc = "collect" /\ w_todo = {} /\ w_pc' = "update" /\ w_todo' = Cores
  /\ \A c \in Cores : file'[c] = file[c] \o FlattenSeq(SubSeq(queue[c], 1, scheduled[c]))
  /\ UNCHANGED <<epochs, scheduled, sense, epoch_prefixes, nbufs, queue>>
Skips ==
  /\ w_pc = "collect" /\ w_todo = {} /\ nbufswritten = 0 /\ w_pc' = "start" /\ w_todo' = w_todo
  /\ UNCHANGED <<file, epochs, scheduled, sense, epoch_prefixes, nbufs, queue>>
Compares(c) ==
  /\ w_pc = "update" /\ c \in w_todo /\ w_pc' \in {"store", "return"} /\ w_todo' = w_todo
  /\ UNCHANGED <<file, epochs, scheduled, sense, epoch_prefixes, nbufs, queue>>
Stores(c) ==
  /\ w_pc = "store" /\ c \in w_todo /\ w_pc' = "return" /\ w_todo' = w_todo
  /\ epochs'[c] = Claim(c) /\ \A d \in Cores \ {c} : epochs'[d] = epochs[d]
  /\ UNCHANGED <<file, scheduled, sense, epoch_prefixes, nbufs, queue>>
Returns(c) ==
  /\ w_pc = "return" /\ c \in w_todo /\ w_todo' = w_todo \ {c}
  /\ \/ w_todo = {c} /\ w_pc' = "start"
     \/ w_todo # {c} /\ w_pc' = "update" /\ sense' = sense
  /\ queue'[c] = Rest(c) /\ nbufs'[c] = nbufs[c] + scheduled[c] /\ scheduled'[c] = 0
  /\ \A d \in Cores \ {c} :
       queue'[d] = queue[d] /\ nbufs'[d] = nbufs[d] /\ scheduled'[d] = scheduled[d]
  /\ UNCHANGED <<file, epochs, epoch_prefixes>>
LEMMA WriterMoves ==
  ASSUME TypeOK, WriterStep
  PROVE  Starts \/ (\E c \in Cores : \E n \in Nat : Collects(c, n)) \/ Writes \/ Skips
         \/ \E c \in Cores : Compares(c) \/ Stores(c) \/ Returns(c)
  <1>0. /\ epochs \in [Cores -> Nat] /\ queue \in [Cores -> Seq(LogBuffers)]
        /\ nbufs \in [Cores -> Nat] /\ scheduled \in [Cores -> Nat] /\ w_todo \subseteq Cores
    BY DEF TypeOK, LoggerTypes, WorkerTypes
  <1>1. CASE StartLoop
    BY <1>1 DEF StartLoop, Starts, ring_vars
  <1>2. ASSUME NEW c \in Cores, Collect(c) PROVE \E n \in Nat : Collects(c, n)
    <2>1. PICK n \in 0 .. Len(queue[c]) :
           /\ scheduled' = [scheduled EXCEPT ![c] = n]
           /\ epoch_prefixes' = IF n = 0 THEN epoch_prefixes
                                ELSE [epoch_prefixes EXCEPT ![sense][c] = EpochOf(queue[c][n]) - 1]
           /\ n > 0 => n \in DOMAIN queue[c] /\ EpochOf(queue[c][n]) \in Epochs
           /\ nbufswritten' = nbufswritten + n /\ w_todo' \in SUBSET (w_todo \ {c})
      BY <1>2, CollectIs
    <2>2. c \in w_todo
      BY <1>0, <1>2, MinOfSetIs, LoggerAssumption DEF Collect
    <2>3. n \in Nat /\ n \in 0 .. Len(queue[c])
      BY QueueIs
    <2>4. Collects(c, n)
      BY <1>2, <2>1, <2>2, <2>3 DEF Collect, Collects, ring_vars
    <2>5. QED
      BY <2>3, <2>4
  <1>3. CASE Write
    <2>1. CASE nbufswritten = 0
      BY <1>3, <2>1 DEF Write, Skips, ring_vars
    <2>2. CASE nbufswritten # 0
      <3>1. file' = [c \in Cores |-> file[c] \o FlattenSeq(SubSeq(queue[c], 1, scheduled[c]))]
        BY <1>3, <2>2 DEF Write
      <3>2. QED
        BY <1>3, <2>2, <3>1 DEF Write, Writes, ring_vars
    <2>3. QED
      BY <2>1, <2>2
  <1>4. ASSUME NEW c \in Cores, Update(c) PROVE Compares(c)
    <2>1. c \in w_todo
      BY <1>0, <1>4, MinOfSetIs, LoggerAssumption DEF Update
    <2>2. QED
      BY <1>4, <2>1 DEF Update, Compares, ring_vars
  <1>5. ASSUME NEW c \in Cores, StoreClaim(c) PROVE Stores(c)
    <2>1. c \in w_todo
      <3>1. w_todo # {}
        BY <1>5 DEF StoreClaim, TypeOK, LoggerTypes
      <3>2. QED
        BY <1>0, <1>5, <3>1, MinOfSetIs, LoggerAssumption DEF StoreClaim
    <2>2. QED
      BY <1>0, <1>5, <2>1 DEF StoreClaim, Stores, ring_vars
  <1>6. ASSUME NEW c \in Cores, Return(c) PROVE Returns(c)
    <2>1. c \in w_todo
      <3>1. w_todo # {}
        BY <1>6 DEF Return, TypeOK, LoggerTypes
      <3>2. QED
        BY <1>0, <1>6, <3>1, MinOfSetIs, LoggerAssumption DEF Return
    <2>2. QED
      BY <1>0, <1>6, <2>1 DEF Return, Returns
  <1>7. QED
    BY <1>1, <1>2, <1>3, <1>4, <1>5, <1>6 DEF WriterStep

LEMMA WriterKeepsWorker ==
  ASSUME TypeOK, WorkerInv, ScheduledInv, WriterStep
  PROVE  WorkerInv'
  <1>1. UNCHANGED <<now, open, pc, commit_epoch, head>>
    BY WriterFrame
  <1>2. \A d \in Cores : nbufs[d] \in Nat /\ scheduled[d] \in Nat
    BY DEF TypeOK, WorkerTypes, LoggerTypes
  <1>3. \A d \in Cores : nbufs'[d] \in {nbufs[d], nbufs[d] + scheduled[d]}
    BY WriterMoves DEF Starts, Collects, Writes, Skips, Compares, Stores, Returns
  <1>4. \A d \in Cores : nbufs[d] > 0 => nbufs'[d] > 0
    BY <1>2, <1>3
  <1>5. QED
    BY <1>1, <1>4 DEF WorkerInv

LEMMA WriterKeepsScheduled ==
  ASSUME TypeOK, ScheduledInv, WriterStep
  PROVE  ScheduledInv'
  <1>0. scheduled \in [Cores -> Nat] /\ w_todo \subseteq Cores /\ nbufswritten \in Nat
    BY DEF TypeOK, LoggerTypes
  <1>1. CASE Starts \/ Skips
    BY <1>1 DEF Starts, Skips, ScheduledInv, Updating
  <1>2. ASSUME NEW c \in Cores, NEW n \in Nat, Collects(c, n) PROVE ScheduledInv'
    <2>1. n <= Len(queue[c]) /\ \A d \in Cores : scheduled'[d] = IF d = c THEN n ELSE scheduled[d]
      BY <1>0, <1>2, QueueIs DEF Collects
    <2>2. /\ w_pc = "collect" /\ w_pc' = "collect" /\ w_todo' \subseteq w_todo \ {c} /\ queue' = queue
          /\ nbufswritten' = nbufswritten + n
      BY <1>2 DEF Collects
    <2>3. nbufswritten' = 0 => n = 0 /\ nbufswritten = 0
      BY <1>0, <2>2
    <2>4. QED
      BY <2>1, <2>2, <2>3 DEF ScheduledInv, Updating
  <1>3. CASE Writes
    BY <1>3 DEF Writes, ScheduledInv, Updating
  <1>4. ASSUME NEW c \in Cores, Compares(c) \/ Stores(c) PROVE ScheduledInv'
    BY <1>4 DEF Compares, Stores, ScheduledInv, Updating
  <1>5. ASSUME NEW c \in Cores, Returns(c) PROVE ScheduledInv'
    <2>1. Len(Rest(c)) \in Nat
      BY RestIs
    <2>2. w_pc = "return" /\ w_todo' = w_todo \ {c} /\ scheduled'[c] = 0 /\ queue'[c] = Rest(c)
          /\ (w_pc' = "update" \/ (w_todo = {c} /\ w_pc' = "start"))
          /\ \A d \in Cores \ {c} : queue'[d] = queue[d] /\ scheduled'[d] = scheduled[d]
      BY <1>5 DEF Returns
    <2>3. ASSUME NEW d \in Cores
          PROVE  /\ scheduled'[d] <= Len(queue'[d])
                 /\ w_pc' = "start" \/ (w_pc' = "update" /\ d \notin w_todo') => scheduled'[d] = 0
      <3>1. CASE d = c
        BY <2>1, <2>2, <3>1
      <3>2. CASE d # c
        BY <2>2, <3>2 DEF ScheduledInv, Updating
      <3>3. QED
        BY <3>1, <3>2
    <2>4. QED
      BY <2>2, <2>3 DEF ScheduledInv, Updating
  <1>6. QED
    BY <1>1, <1>2, <1>3, <1>4, <1>5, WriterMoves

LEMMA WriterKeepsCommits ==
  ASSUME CommitsGrow, WriterStep
  PROVE  CommitsGrow'
  BY WriterFrame DEF CommitsGrow

LEMMA WriterKeepsQueues ==
  ASSUME TypeOK, ScheduledInv, QueuesGrow, WriterStep
  PROVE  QueuesGrow'
  <1>1. UNCHANGED <<now, pc, commit_epoch, head>>
    BY WriterFrame
  <1>2. ASSUME NEW d \in Cores
        PROVE  /\ \A i, j \in DOMAIN queue'[d] : i <= j => EpochOf(queue'[d][i]) <= EpochOf(queue'[d][j])
               /\ \A i \in DOMAIN queue'[d] :
                    /\ EpochOf(queue'[d][i]) <= now'
                    /\ head'[d] # <<>> => EpochOf(queue'[d][i]) <= EpochOf(head'[d])
                    /\ pc'[d] = "log" => EpochOf(queue'[d][i]) <= commit_epoch'[d]
               /\ head'[d] # <<>> =>
                    /\ EpochOf(head'[d]) <= now'
                    /\ pc'[d] = "log" => EpochOf(head'[d]) <= commit_epoch'[d]
    <2>1. queue'[d] = queue[d] \/ queue'[d] = Rest(d)
      BY WriterMoves DEF Starts, Collects, Writes, Skips, Compares, Stores, Returns
    <2>2. CASE queue'[d] = queue[d]
      BY <1>1, <2>2 DEF QueuesGrow
    <2>3. CASE queue'[d] = Rest(d)
      <3>1. /\ Rest(d) \in Seq(LogBuffers) /\ Len(Rest(d)) = Len(queue[d]) - scheduled[d]
            /\ \A i \in 1 .. Len(queue[d]) - scheduled[d] : Rest(d)[i] = queue[d][scheduled[d] + i]
            /\ scheduled[d] \in 0 .. Len(queue[d])
        BY RestIs
      <3>2. Len(queue[d]) \in Nat /\ DOMAIN queue[d] = 1 .. Len(queue[d]) /\ scheduled[d] \in Nat
        BY <3>1, QueueIs
      <3>3. DOMAIN Rest(d) = 1 .. Len(queue[d]) - scheduled[d]
        BY <3>1
      <3>4. \A i \in DOMAIN Rest(d) : scheduled[d] + i \in DOMAIN queue[d] /\ Rest(d)[i] = queue[d][scheduled[d] + i]
        BY <3>1, <3>2, <3>3
      <3>5. ASSUME NEW i \in DOMAIN Rest(d), NEW j \in DOMAIN Rest(d), i <= j
            PROVE  EpochOf(Rest(d)[i]) <= EpochOf(Rest(d)[j])
        <4>1. scheduled[d] + i <= scheduled[d] + j
          BY <3>2, <3>3, <3>5
        <4>2. QED
          BY <3>4, <4>1 DEF QueuesGrow
      <3>6. QED
        BY <1>1, <2>3, <3>4, <3>5 DEF QueuesGrow
    <2>4. QED
      BY <2>1, <2>2, <2>3
  <1>3. QED
    BY <1>2 DEF QueuesGrow

LEMMA WriterKeepsPrefixes ==
  ASSUME TypeOK, WorkerInv, ScheduledInv, QueuesGrow, PrefixesAreBehind, WriterStep
  PROVE  PrefixesAreBehind'
  <1>1. UNCHANGED <<now, pc, commit_epoch, head>>
    BY WriterFrame
  <1>2. CASE Starts \/ Writes \/ Skips \/ \E c \in Cores : Compares(c) \/ Stores(c)
    BY <1>1, <1>2 DEF Starts, Writes, Skips, Compares, Stores, PrefixesAreBehind
  <1>3. ASSUME NEW c \in Cores, NEW n \in Nat, Collects(c, n) PROVE PrefixesAreBehind'
    <2>1. scheduled[c] = 0 /\ sense \in 0 .. 1 /\ scheduled \in [Cores -> Nat]
          /\ epoch_prefixes \in [0 .. 1 -> [Cores -> Nat]] /\ now \in Epochs
      BY <1>3 DEF Collects, ScheduledInv, TypeOK, ClockTypes, LoggerTypes
    <2>2. queue' = queue /\ \A d \in Cores : scheduled'[d] = IF d = c THEN n ELSE scheduled[d]
      BY <1>3, <2>1 DEF Collects
    <2>3. CASE n = 0
      <3>1. epoch_prefixes' = epoch_prefixes /\ \A d \in Cores : scheduled'[d] = scheduled[d]
        BY <1>3, <2>1, <2>2, <2>3 DEF Collects
      <3>2. QED
        BY <1>1, <2>2, <3>1 DEF PrefixesAreBehind
    <2>4. CASE n # 0
      <3>1. PICK e : e = EpochOf(queue[c][n])
        OBVIOUS
      <3>2. \A s \in 0 .. 1 : \A d \in Cores :
              epoch_prefixes'[s][d] = IF s = sense /\ d = c THEN e - 1 ELSE epoch_prefixes[s][d]
        BY <1>3, <2>1, <2>4, <3>1 DEF Collects
      <3>3. Len(queue[c]) \in Nat /\ n \in DOMAIN queue[c] /\ DOMAIN queue[c] = 1 .. Len(queue[c]) /\ e \in Epochs
            /\ \A i \in DOMAIN queue[c] : EpochOf(queue[c][i]) \in Epochs
        <4>1. Len(queue[c]) \in Nat /\ DOMAIN queue[c] = 1 .. Len(queue[c])
              /\ \A i \in DOMAIN queue[c] : EpochOf(queue[c][i]) \in Epochs
          BY QueueIs
        <4>2. n \in DOMAIN queue[c]
          BY <1>3, <2>4, <4>1 DEF Collects
        <4>3. QED
          BY <3>1, <4>1, <4>2
      <3>4. /\ e <= now /\ \A i \in DOMAIN queue[c] : i > n => e <= EpochOf(queue[c][i])
            /\ head[c] # <<>> => e <= EpochOf(head[c])
            /\ pc[c] = "log" => e <= commit_epoch[c]
        BY <3>1, <3>3 DEF QueuesGrow
      <3>5. /\ pc[c] = "log" => commit_epoch[c] \in Epochs
            /\ head[c] # <<>> => EpochOf(head[c]) \in Epochs
        BY EpochIs DEF WorkerInv, TypeOK, WorkerTypes
      <3>6. /\ e - 1 < now /\ \A i \in DOMAIN queue[c] : i > n => e - 1 < EpochOf(queue[c][i])
            /\ head[c] # <<>> => e - 1 < EpochOf(head[c])
            /\ pc[c] = "log" => e - 1 < commit_epoch[c]
        BY <2>1, <3>3, <3>4, <3>5 DEF Epochs
      <3>7. ASSUME NEW s \in 0 .. 1, NEW d \in Cores
            PROVE  /\ epoch_prefixes'[s][d] < now'
                   /\ \A i \in DOMAIN queue'[d] : i > scheduled'[d] => epoch_prefixes'[s][d] < EpochOf(queue'[d][i])
                   /\ head'[d] # <<>> => epoch_prefixes'[s][d] < EpochOf(head'[d])
                   /\ pc'[d] = "log" => epoch_prefixes'[s][d] < commit_epoch'[d]
        <4>1. CASE s = sense /\ d = c
          BY <1>1, <2>2, <3>2, <3>6, <4>1
        <4>2. CASE ~ (s = sense /\ d = c)
          <5>1. epoch_prefixes'[s][d] = epoch_prefixes[s][d] /\ (\A i \in DOMAIN queue[d] : i > scheduled'[d] => i > scheduled[d])
            <6>1. CASE d = c
              BY <2>1, <2>2, <3>2, <3>3, <4>2, <6>1
            <6>2. CASE d # c
              BY <2>2, <3>2, <6>2
            <6>3. QED
              BY <6>1, <6>2
          <5>2. QED
            BY <1>1, <2>2, <5>1 DEF PrefixesAreBehind
        <4>3. QED
          BY <4>1, <4>2
      <3>8. QED
        BY <3>7 DEF PrefixesAreBehind
    <2>5. QED
      BY <2>3, <2>4
  <1>4. ASSUME NEW c \in Cores, Returns(c) PROVE PrefixesAreBehind'
    <2>1. /\ Rest(c) \in Seq(LogBuffers) /\ Len(Rest(c)) = Len(queue[c]) - scheduled[c]
          /\ \A i \in 1 .. Len(queue[c]) - scheduled[c] : Rest(c)[i] = queue[c][scheduled[c] + i]
          /\ scheduled[c] \in 0 .. Len(queue[c])
      BY RestIs
    <2>2. Len(queue[c]) \in Nat /\ DOMAIN queue[c] = 1 .. Len(queue[c]) /\ scheduled[c] \in Nat
      BY <2>1, QueueIs
    <2>3. DOMAIN Rest(c) = 1 .. Len(queue[c]) - scheduled[c]
      BY <2>1
    <2>4. \A i \in DOMAIN Rest(c) : /\ scheduled[c] + i \in DOMAIN queue[c] /\ scheduled[c] + i > scheduled[c]
                                    /\ Rest(c)[i] = queue[c][scheduled[c] + i]
      BY <2>1, <2>2, <2>3
    <2>5. queue'[c] = Rest(c) /\ scheduled'[c] = 0 /\ epoch_prefixes' = epoch_prefixes
          /\ \A d \in Cores \ {c} : queue'[d] = queue[d] /\ scheduled'[d] = scheduled[d]
      BY <1>4 DEF Returns
    <2>6. ASSUME NEW s \in 0 .. 1, NEW d \in Cores
          PROVE  /\ epoch_prefixes'[s][d] < now'
                 /\ \A i \in DOMAIN queue'[d] : i > scheduled'[d] => epoch_prefixes'[s][d] < EpochOf(queue'[d][i])
                 /\ head'[d] # <<>> => epoch_prefixes'[s][d] < EpochOf(head'[d])
                 /\ pc'[d] = "log" => epoch_prefixes'[s][d] < commit_epoch'[d]
      <3>1. CASE d = c
        BY <1>1, <2>4, <2>5, <3>1 DEF PrefixesAreBehind
      <3>2. CASE d # c
        BY <1>1, <2>5, <3>2 DEF PrefixesAreBehind
      <3>3. QED
        BY <3>1, <3>2
    <2>7. QED
      BY <2>6 DEF PrefixesAreBehind
  <1>5. QED
    BY <1>2, <1>3, <1>4, WriterMoves

\* What is written of a core ends as the last buffer that was collected does.
LEMMA WrittenEnds ==
  ASSUME TypeOK, ScheduledInv, NEW c \in Cores, NEW f \in Seq(Epochs), scheduled[c] > 0
  PROVE  LET w == f \o FlattenSeq(SubSeq(queue[c], 1, scheduled[c]))
         IN  w # <<>> /\ EpochOf(w) = EpochOf(queue[c][scheduled[c]])
  <1>1. PICK q : q = queue[c]
    OBVIOUS
  <1>2. PICK n : n = scheduled[c]
    OBVIOUS
  <1>3. q \in Seq(Seq(Epochs)) /\ Len(q) \in Nat /\ n \in 1 .. Len(q)
    <2>1. n \in 0 .. Len(q) /\ q \in Seq(Seq(Epochs)) /\ Len(q) \in Nat
      BY <1>1, <1>2, QueueIs, RestIs
    <2>2. QED
      BY <1>2, <2>1
  <1>4. q[n] \in Seq(Epochs) /\ q[n] # <<>>
    BY <1>1, <1>3, QueueIs
  <1>5. SubSeq(q, 1, n) = Append(SubSeq(q, 1, n - 1), q[n])
    <2>1. n \in 0 + 1 .. Len(q)
      BY <1>3
    <2>2. SubSeq(q, 0 + 1, n) = Append(SubSeq(q, 0 + 1, n - 1), q[n])
      BY <1>3, <2>1, SubSeqGrows
    <2>3. QED
      BY <2>2, 0 + 1 = 1
  <1>6. SubSeq(q, 1, n - 1) \in Seq(Seq(Epochs))
    <2>1. n - 1 \in 0 .. Len(q)
      BY <1>3
    <2>2. SubSeq(q, 0 + 1, n - 1) \in Seq(Seq(Epochs))
      BY <1>3, <2>1, SubSeqTypes
    <2>3. QED
      BY <2>2, 0 + 1 = 1
  <1>7. PICK g : g = FlattenSeq(SubSeq(q, 1, n - 1))
    OBVIOUS
  <1>8. g \in Seq(Epochs) /\ FlattenSeq(SubSeq(q, 1, n)) = g \o q[n]
    BY <1>4, <1>5, <1>6, <1>7, FlattenType, FlattenAppend
  <1>9. PICK b : b = q[n]
    OBVIOUS
  <1>10. PICK x : x = g \o b
    OBVIOUS
  <1>11. b \in Seq(Epochs) /\ Len(b) \in Nat \ {0} /\ x \in Seq(Epochs) /\ Len(x) \in Nat \ {0}
         /\ x[Len(x)] = b[Len(b)]
    <2>1. b \in Seq(Epochs) /\ Len(b) \in Nat \ {0} /\ g \in Seq(Epochs)
      BY <1>4, <1>8, <1>9, EpochIs
    <2>2. QED
      BY <1>10, <2>1
  <1>12. f \o x # <<>> /\ (f \o x)[Len(f \o x)] = x[Len(x)]
    BY <1>11
  <1>13. QED
    BY <1>1, <1>2, <1>8, <1>9, <1>10, <1>11, <1>12 DEF EpochOf

LEMMA WriterKeepsClaims ==
  ASSUME TypeOK, ScheduledInv, ClaimInv, WriterStep
  PROVE  ClaimInv'
  <1>0. /\ scheduled \in [Cores -> Nat] /\ sense \in 0 .. 1
        /\ epoch_prefixes \in [0 .. 1 -> [Cores -> Nat]] /\ file \in [Cores -> Seq(Epochs)]
    BY DEF TypeOK, LoggerTypes
  <1>1. CASE Starts \/ Skips
    <2>1. \A d \in Cores : scheduled'[d] = 0
      BY <1>1 DEF Starts, Skips, ScheduledInv
    <2>2. QED
      BY <2>1 DEF ClaimInv
  <1>2. ASSUME NEW c \in Cores, NEW n \in Nat, Collects(c, n) PROVE ClaimInv'
    <2>1. w_pc' = "collect" /\ queue' = queue /\ sense' = sense
          /\ \A d \in Cores : scheduled'[d] = IF d = c THEN n ELSE scheduled[d]
      BY <1>0, <1>2 DEF Collects
    <2>2. PICK e : e = EpochOf(queue[c][n])
      OBVIOUS
    <2>3. \A d \in Cores : Claim(d)' = IF d = c /\ n # 0 THEN e - 1 ELSE Claim(d)
      <3>1. \A d \in Cores : epoch_prefixes'[sense][d] = IF d = c /\ n # 0 THEN e - 1 ELSE epoch_prefixes[sense][d]
        BY <1>0, <1>2, <2>2 DEF Collects
      <3>2. QED
        BY <2>1, <3>1 DEF Claim
    <2>4. QED
      BY <2>1, <2>2, <2>3 DEF ClaimInv, Updating
  <1>3. CASE Writes
    <2>1. UNCHANGED <<scheduled, queue>> /\ \A d \in Cores : Claim(d)' = Claim(d)
      BY <1>3 DEF Writes, Claim
    <2>2. ASSUME NEW d \in Cores, scheduled[d] > 0
          PROVE  file'[d] # <<>> /\ EpochOf(file'[d]) = EpochOf(queue[d][scheduled[d]])
      <3>1. file[d] \in Seq(Epochs) /\ file'[d] = file[d] \o FlattenSeq(SubSeq(queue[d], 1, scheduled[d]))
        BY <1>0, <1>3 DEF Writes
      <3>2. QED
        BY <2>2, <3>1, WrittenEnds
    <2>3. QED
      BY <2>1, <2>2 DEF ClaimInv
  <1>4. ASSUME NEW c \in Cores, Compares(c) \/ Stores(c) PROVE ClaimInv'
    <2>1. /\ Updating /\ UNCHANGED <<file, scheduled, queue>>
          /\ \A d \in Cores : Claim(d)' = Claim(d)
      BY <1>4 DEF Compares, Stores, Claim, Updating
    <2>2. QED
      BY <2>1 DEF ClaimInv
  <1>5. ASSUME NEW c \in Cores, Returns(c) PROVE ClaimInv'
    <2>1. w_pc = "return" /\ UNCHANGED <<file, epoch_prefixes>> /\ scheduled'[c] = 0
          /\ \A d \in Cores \ {c} : queue'[d] = queue[d] /\ scheduled'[d] = scheduled[d]
      BY <1>5 DEF Returns
    <2>2. CASE w_todo = {c}
      <3>1. \A d \in Cores : scheduled'[d] = 0
        BY <2>1, <2>2 DEF ScheduledInv, Updating
      <3>2. QED
        BY <3>1 DEF ClaimInv
    <2>3. CASE w_todo # {c}
      <3>1. Updating /\ \A d \in Cores : Claim(d)' = Claim(d)
        BY <1>5, <2>1, <2>3 DEF Returns, Claim, Updating
      <3>2. QED
        BY <2>1, <3>1 DEF ClaimInv
    <2>4. QED
      BY <2>2, <2>3
  <1>6. QED
    BY <1>1, <1>2, <1>3, <1>4, <1>5, WriterMoves

LEMMA WriterKeepsOrder ==
  ASSUME TypeOK, ScheduledInv, LogIsInCommitOrder, WriterStep
  PROVE  LogIsInCommitOrder'
  <1>1. UNCHANGED <<committed, head>>
    BY WriterFrame
  <1>2. SUFFICES ASSUME NEW d \in Cores
                 PROVE  /\ committed[d] = file'[d] \o FlattenSeq(Unwritten(d)') \o head[d]
                        /\ nbufs'[d] + Len(queue'[d]) = Buffers
    BY <1>1 DEF LogIsInCommitOrder
  <1>3. /\ queue[d] \in Seq(Seq(Epochs)) /\ Len(queue[d]) \in Nat /\ file[d] \in Seq(Epochs)
        /\ scheduled[d] \in Nat /\ scheduled[d] <= Len(queue[d]) /\ nbufs[d] \in Nat
        /\ scheduled[d] \in 0 .. Len(queue[d])
    BY QueueIs, RestIs DEF TypeOK, LoggerTypes, WorkerTypes, ScheduledInv
  <1>4. committed[d] = file[d] \o FlattenSeq(Unwritten(d)) \o head[d] /\ nbufs[d] + Len(queue[d]) = Buffers
    BY DEF LogIsInCommitOrder
  <1>5. CASE file'[d] = file[d] /\ UNCHANGED <<nbufs, queue>> /\ InFile(d)' = InFile(d)
    <2>1. Unwritten(d)' = Unwritten(d)
      BY <1>5 DEF Unwritten
    <2>2. QED
      BY <1>4, <1>5, <2>1
  <1>6. \/ Starts \/ Skips \/ (\E c \in Cores : \E n \in Nat : Collects(c, n))
        \/ \E c \in Cores : Compares(c) \/ Stores(c)
        => file'[d] = file[d] /\ UNCHANGED <<nbufs, queue>> /\ InFile(d)' = InFile(d)
    BY DEF Starts, Skips, Collects, Compares, Stores, InFile, Updating
  <1>7. CASE Writes
    <2>1. InFile(d) = 0 /\ InFile(d)' = scheduled[d] /\ UNCHANGED <<nbufs, queue>>
      BY <1>7 DEF Writes, InFile, Updating
    <2>2. Unwritten(d) = queue[d]
      BY <1>3, <2>1, SubSeqFull DEF Unwritten
    <2>3. PICK a : a = FlattenSeq(SubSeq(queue[d], 1, scheduled[d]))
      OBVIOUS
    <2>4. PICK b : b = FlattenSeq(SubSeq(queue[d], scheduled[d] + 1, Len(queue[d])))
      OBVIOUS
    <2>5. PICK f : f = file[d]
      OBVIOUS
    <2>6. FlattenSeq(queue[d]) = a \o b
      BY <1>3, <2>3, <2>4, FlattenParts
    <2>7. file'[d] = f \o a /\ FlattenSeq(Unwritten(d)') = b
      BY <1>7, <2>1, <2>3, <2>4, <2>5 DEF Writes, Unwritten
    <2>8. a \in Seq(Epochs) /\ b \in Seq(Epochs) /\ f \in Seq(Epochs)
      <3>1. SubSeq(queue[d], 0 + 1, scheduled[d]) \in Seq(Seq(Epochs))
        BY <1>3, SubSeqTypes
      <3>2. SubSeq(queue[d], 1, scheduled[d]) \in Seq(Seq(Epochs))
        BY <3>1, 0 + 1 = 1
      <3>3. Len(queue[d]) \in 0 .. Len(queue[d])
        BY <1>3
      <3>4. SubSeq(queue[d], scheduled[d] + 1, Len(queue[d])) \in Seq(Seq(Epochs))
        BY <1>3, <3>3, SubSeqTypes
      <3>5. QED
        BY <1>3, <2>3, <2>4, <2>5, <3>2, <3>4, FlattenType
    <2>9. f \o (a \o b) = (f \o a) \o b
      BY ONLY <2>8, ConcatAssociative
    <2>10. QED
      BY <1>4, <2>1, <2>2, <2>5, <2>6, <2>7, <2>9
  <1>8. ASSUME NEW c \in Cores, Returns(c), d # c
        PROVE  /\ committed[d] = file'[d] \o FlattenSeq(Unwritten(d)') \o head[d]
               /\ nbufs'[d] + Len(queue'[d]) = Buffers
    <2>1. file' = file /\ nbufs'[d] = nbufs[d] /\ queue'[d] = queue[d] /\ scheduled'[d] = scheduled[d]
      BY <1>8 DEF Returns
    <2>2. InFile(d)' = InFile(d)
      BY <1>8, <2>1 DEF Returns, InFile, Updating
    <2>3. Unwritten(d)' = Unwritten(d)
      BY <2>1, <2>2 DEF Unwritten
    <2>4. QED
      BY <1>4, <2>1, <2>3
  <1>9. ASSUME Returns(d)
        PROVE  /\ committed[d] = file'[d] \o FlattenSeq(Unwritten(d)') \o head[d]
               /\ nbufs'[d] + Len(queue'[d]) = Buffers
    <2>1. file' = file /\ queue'[d] = Rest(d) /\ nbufs'[d] = nbufs[d] + scheduled[d]
          /\ InFile(d) = scheduled[d] /\ InFile(d)' = 0
      BY <1>9 DEF Returns, InFile, Updating
    <2>2. Rest(d) \in Seq(LogBuffers) /\ Len(Rest(d)) = Len(queue[d]) - scheduled[d]
      BY RestIs
    <2>3. Unwritten(d) = Rest(d)
      BY <2>1 DEF Unwritten, Rest
    <2>4. Unwritten(d)' = SubSeq(Rest(d), 1, Len(Rest(d)))
      BY <2>1 DEF Unwritten
    <2>5. SubSeq(Rest(d), 1, Len(Rest(d))) = Rest(d)
      BY <2>2, SubSeqFull
    <2>6. nbufs[d] + scheduled[d] + (Len(queue[d]) - scheduled[d]) = Buffers
      BY <1>3, <1>4, LoggerAssumption
    <2>7. QED
      BY <1>4, <2>1, <2>2, <2>3, <2>4, <2>5, <2>6
  <1>10. QED
    BY <1>5, <1>6, <1>7, <1>8, <1>9, WriterMoves

LEMMA WriterKeepsLocked ==
  ASSUME TypeOK, ScheduledInv, LockedIsIdle, WriterStep
  PROVE  LockedIsIdle'
  <1>1. UNCHANGED <<p_pc, p_core, pc>>
    BY WriterFrame
  <1>2. ASSUME NEW d \in Cores, queue[d] = <<>> PROVE queue'[d] = <<>>
    <2>1. queue'[d] = queue[d] \/ queue'[d] = Rest(d)
      BY WriterMoves DEF Starts, Collects, Writes, Skips, Compares, Stores, Returns
    <2>2. Rest(d) \in Seq(LogBuffers) /\ Len(Rest(d)) = Len(queue[d]) - scheduled[d] /\ scheduled[d] \in 0 .. Len(queue[d])
      BY RestIs
    <2>3. Len(Rest(d)) = 0
      BY <1>2, <2>2, EmptySeq
    <2>4. QED
      BY <1>2, <2>1, <2>2, <2>3, EmptySeq
  <1>3. QED
    BY <1>1, <1>2 DEF LockedIsIdle, TypeOK, PersisterTypes

\* A claim is behind the clock and behind what its core is logging.
LEMMA WriterKeepsSync ==
  ASSUME TypeOK, WorkerInv, PrefixesAreBehind, SyncInv, WriterStep
  PROVE  SyncInv'
  <1>1. UNCHANGED <<now, pc, commit_epoch, head,
                    p_pc, p_todo, p_core, best_tick_inc, min_so_far, system_sync_epoch>>
    BY WriterFrame
  <1>2. \A d \in Cores : epochs'[d] = epochs[d] \/ epochs'[d] = Claim(d)
    BY WriterMoves DEF Starts, Collects, Writes, Skips, Compares, Stores, Returns
  <1>3. ASSUME NEW d \in Cores
        PROVE  Claim(d) < now /\ (pc[d] \in InCommit => Claim(d) < commit_epoch[d])
    <2>1. sense \in 0 .. 1
      BY DEF TypeOK, LoggerTypes
    <2>2. QED
      BY <2>1 DEF PrefixesAreBehind, Claim, InCommit, WorkerInv
  <1>4. Visited' = Visited
    BY <1>1 DEF Visited
  <1>5. ASSUME NEW d \in Cores
        PROVE  epochs'[d] < now /\ (pc[d] \in InCommit => epochs'[d] < commit_epoch[d])
    BY <1>2, <1>3 DEF SyncInv
  <1>6. QED
    BY <1>1, <1>4, <1>5 DEF SyncInv

-----------------------------------------------------------------------------
(* The persister's steps and the rest *)

RestOfLog ==
  /\ WorkerInv /\ ScheduledInv /\ LogIsInCommitOrder /\ CommitsGrow /\ QueuesGrow
  /\ PrefixesAreBehind /\ ClaimInv

\* Neither the persister nor the clock touches what the workers and the logger
\* share.
LEMMA QuietKeeps ==
  ASSUME TypeOK, RestOfLog,
         UNCHANGED <<open, pc, commit_epoch, head, committed, nbufs, queue>>,
         UNCHANGED <<file, w_pc, w_todo, nbufswritten, scheduled, sense, epoch_prefixes>>,
         now' \in {now, now + 1}
  PROVE  RestOfLog'
  <1>1. now \in Epochs /\ now' \in Epochs /\ now <= now'
    BY DEF TypeOK, ClockTypes, Epochs
  <1>2. WorkerInv'
    <2>1. \A d \in Cores : pc[d] \in {"log", "logged"} => commit_epoch[d] \in Epochs /\ commit_epoch[d] <= now'
      BY <1>1 DEF RestOfLog, WorkerInv, Epochs
    <2>2. QED
      BY <2>1 DEF RestOfLog, WorkerInv
  <1>3. ScheduledInv' /\ ClaimInv'
    BY DEF RestOfLog, ScheduledInv, ClaimInv, Claim, Updating
  <1>4. LogIsInCommitOrder'
    <2>1. \A d \in Cores : Unwritten(d)' = Unwritten(d)
      BY DEF Unwritten, InFile, Updating
    <2>2. QED
      BY <2>1 DEF RestOfLog, LogIsInCommitOrder
  <1>5. CommitsGrow'
    <2>1. \A d \in Cores : \A i \in DOMAIN committed[d] : committed[d][i] \in Epochs /\ committed[d][i] <= now
      BY DEF TypeOK, WorkerTypes, RestOfLog, CommitsGrow
    <2>2. \A d \in Cores : \A i \in DOMAIN committed[d] : committed[d][i] <= now'
      BY <1>1, <2>1 DEF Epochs
    <2>3. QED
      BY <2>2 DEF RestOfLog, CommitsGrow
  <1>6. QueuesGrow'
    <2>1. ASSUME NEW d \in Cores
          PROVE  /\ \A i \in DOMAIN queue[d] : EpochOf(queue[d][i]) <= now'
                 /\ head[d] # <<>> => EpochOf(head[d]) <= now'
      <3>1. /\ \A i \in DOMAIN queue[d] : EpochOf(queue[d][i]) \in Epochs
            /\ head[d] # <<>> => EpochOf(head[d]) \in Epochs
        BY QueueIs, EpochIs DEF TypeOK, WorkerTypes
      <3>2. /\ \A i \in DOMAIN queue[d] : EpochOf(queue[d][i]) <= now
            /\ head[d] # <<>> => EpochOf(head[d]) <= now
        BY DEF RestOfLog, QueuesGrow
      <3>3. QED
        BY <1>1, <3>1, <3>2 DEF Epochs
    <2>2. QED
      BY <2>1 DEF RestOfLog, QueuesGrow
  <1>7. PrefixesAreBehind'
    <2>1. \A s \in 0 .. 1 : \A d \in Cores : epoch_prefixes[s][d] \in Nat
      BY DEF TypeOK, LoggerTypes
    <2>2. \A s \in 0 .. 1 : \A d \in Cores : epoch_prefixes[s][d] < now'
      BY <1>1, <2>1 DEF RestOfLog, PrefixesAreBehind, Epochs
    <2>3. QED
      BY <2>2 DEF RestOfLog, PrefixesAreBehind
  <1>8. QED
    BY <1>2, <1>3, <1>4, <1>5, <1>6, <1>7 DEF RestOfLog

LEMMA PersisterFrame ==
  ASSUME PersisterStep
  PROVE  /\ UNCHANGED <<open, pc, commit_epoch, head, committed, nbufs, queue>>
         /\ UNCHANGED <<file, w_pc, w_todo, nbufswritten, scheduled, sense, epoch_prefixes>>
         /\ now' = now
  BY DEF PersisterStep, StartAdvance, Peek, LockFails, LockCore, Recheck, AdvanceCore, LoadCore, Aggregate,
     clock_vars, worker_vars, ring_vars, logger_vars

LEMMA PersisterKeepsLocked ==
  ASSUME TypeOK, WorkerInv, LockedIsIdle, PersisterStep
  PROVE  LockedIsIdle'
  <1>1. UNCHANGED <<pc, queue>>
    BY PersisterFrame
  <1>2. CASE LockCore
    <2>1. p_pc' = "recheck" /\ p_core' = p_core /\ p_core \in Cores /\ open[p_core] = 0
      BY <1>2 DEF LockCore, TypeOK, PersisterTypes, persister_vars
    <2>2. QED
      BY <1>1, <2>1 DEF LockedIsIdle, WorkerInv
  <1>3. CASE Recheck
    BY <1>1, <1>3 DEF Recheck, LockedIsIdle
  <1>4. CASE ~ (LockCore \/ Recheck)
    <2>1. p_pc' \notin {"recheck", "advance"}
      BY <1>4 DEF PersisterStep, StartAdvance, Peek, LockFails, AdvanceCore, LoadCore, Aggregate
    <2>2. QED
      BY <2>1 DEF LockedIsIdle
  <1>5. QED
    BY <1>2, <1>3, <1>4

\* The tick that the persister takes is over, a core that it moves ahead is in no
\* section, and what it finds of the others is behind what they log.
LEMMA PersisterKeepsSync ==
  ASSUME TypeOK, LockedIsIdle, SyncInv, PersisterStep
  PROVE  SyncInv'
  <1>1. UNCHANGED <<now, pc, commit_epoch>>
    BY PersisterFrame
  <1>2. /\ epochs \in [Cores -> Nat] /\ now \in Nat \ {0} /\ min_so_far \in Nat /\ best_tick_inc \in Nat
        /\ system_sync_epoch \in Nat /\ p_todo \subseteq Cores
        /\ \A d \in Cores : epochs[d] \in Nat /\ commit_epoch[d] \in Nat
    BY DEF TypeOK, ClockTypes, LoggerTypes, PersisterTypes, WorkerTypes, Epochs
  <1>3. CASE StartAdvance
    <2>1. /\ UNCHANGED <<epochs, system_sync_epoch>> /\ best_tick_inc' = now - 1
          /\ p_todo' = Cores /\ p_pc' = "peek"
      BY <1>3 DEF StartAdvance, logger_vars
    <2>2. Visited' = {} /\ best_tick_inc' < now
      BY <1>2, <2>1 DEF Visited
    <2>3. QED
      BY <1>1, <2>1, <2>2 DEF SyncInv
  <1>4. ASSUME NEW c \in Cores, Peek(c) PROVE SyncInv'
    <2>1. /\ UNCHANGED <<epochs, system_sync_epoch, best_tick_inc, min_so_far>>
          /\ p_pc = "peek" /\ p_pc' \in {"trylock", "load"} /\ p_todo' = p_todo \ {c} /\ p_core' = c
      BY <1>4 DEF Peek, logger_vars
    <2>2. c \in p_todo
      BY <1>2, <1>4, MinOfSetIs, LoggerAssumption DEF Peek
    <2>3. Visited' = Visited
      BY <2>1, <2>2 DEF Visited
    <2>4. QED
      BY <1>1, <2>1, <2>3 DEF SyncInv
  <1>5. CASE LockFails \/ LockCore \/ Recheck
    <2>1. /\ UNCHANGED <<epochs, system_sync_epoch, best_tick_inc, min_so_far, p_todo, p_core>>
          /\ p_pc \notin {"peek", "sleep"} /\ p_pc' \notin {"peek", "sleep"}
      BY <1>5 DEF LockFails, LockCore, Recheck, logger_vars
    <2>2. Visited' = Visited
      BY <2>1 DEF Visited
    <2>3. QED
      BY <1>1, <2>1, <2>2 DEF SyncInv
  <1>6. CASE AdvanceCore
    <2>1. /\ UNCHANGED <<system_sync_epoch, best_tick_inc, p_todo, p_core>>
          /\ p_pc = "advance" /\ p_pc' = "peek" /\ p_core \in Cores
          /\ epochs' = [epochs EXCEPT ![p_core] = best_tick_inc]
      BY <1>6 DEF AdvanceCore, TypeOK, PersisterTypes
    <2>2. min_so_far' \in Nat /\ min_so_far' <= min_so_far /\ min_so_far' <= best_tick_inc
      BY <1>2, <1>6, MinOfTwo DEF AdvanceCore
    <2>3. \A d \in Visited' : d = p_core \/ d \in Visited
      BY <2>1 DEF Visited
    <2>4. pc[p_core] \notin InCommit
      BY <2>1 DEF LockedIsIdle, InCommit
    <2>5. ASSUME NEW d \in Cores
          PROVE  /\ epochs'[d] < now /\ min_so_far' < now
                 /\ pc[d] \in InCommit =>
                      /\ epochs'[d] < commit_epoch[d]
                      /\ d \in Visited' => min_so_far' < commit_epoch[d]
      <3>1. best_tick_inc < now
        BY <2>1 DEF SyncInv
      <3>2. min_so_far' < now
        BY <1>2, <2>2, <3>1
      <3>3. CASE d = p_core
        BY <1>2, <2>1, <2>4, <3>1, <3>2, <3>3
      <3>4. CASE d # p_core
        <4>1. epochs'[d] = epochs[d] /\ (d \in Visited' => d \in Visited)
          BY <1>2, <2>1, <2>3, <3>4
        <4>2. pc[d] \in InCommit /\ d \in Visited => min_so_far < commit_epoch[d]
          BY <2>1 DEF SyncInv
        <4>3. pc[d] \in InCommit /\ d \in Visited => min_so_far' < commit_epoch[d]
          BY <1>2, <2>2, <4>2
        <4>4. QED
          BY <3>2, <4>1, <4>3 DEF SyncInv
      <3>5. QED
        BY <3>3, <3>4
    <2>6. best_tick_inc < now \/ Cores = {}
      BY <2>1 DEF SyncInv
    <2>7. QED
      BY <1>1, <2>1, <2>5, <2>6 DEF SyncInv
  <1>7. CASE LoadCore
    <2>1. /\ UNCHANGED <<epochs, system_sync_epoch, best_tick_inc, p_todo, p_core>>
          /\ p_pc = "load" /\ p_pc' = "peek" /\ p_core \in Cores
      BY <1>7 DEF LoadCore, TypeOK, PersisterTypes, logger_vars
    <2>2. min_so_far' \in Nat /\ min_so_far' <= min_so_far /\ min_so_far' <= epochs[p_core]
      BY <1>2, <1>7, <2>1, MinOfTwo DEF LoadCore
    <2>3. \A d \in Visited' : d = p_core \/ d \in Visited
      BY <2>1 DEF Visited
    <2>4. ASSUME NEW d \in Cores
          PROVE  min_so_far' < now /\ (pc[d] \in InCommit /\ d \in Visited' => min_so_far' < commit_epoch[d])
      <3>1. epochs[p_core] < now
        BY <2>1 DEF SyncInv
      <3>2. min_so_far' < now
        BY <1>2, <2>1, <2>2, <3>1
      <3>3. ASSUME pc[d] \in InCommit, d \in Visited' PROVE min_so_far' < commit_epoch[d]
        <4>1. epochs[d] < commit_epoch[d] /\ (d \in Visited => min_so_far < commit_epoch[d])
          BY <2>1, <3>3 DEF SyncInv
        <4>2. CASE d = p_core
          BY <1>2, <2>2, <4>1, <4>2
        <4>3. CASE d \in Visited
          BY <1>2, <2>2, <4>1, <4>3
        <4>4. QED
          BY <2>3, <3>3, <4>2, <4>3
      <3>4. QED
        BY <3>2, <3>3
    <2>5. QED
      BY <1>1, <2>1, <2>4 DEF SyncInv
  <1>8. CASE Aggregate
    <2>1. /\ UNCHANGED <<epochs, best_tick_inc, min_so_far>>
          /\ p_pc = "peek" /\ p_pc' = "sleep" /\ p_todo = {} /\ system_sync_epoch' = min_so_far
      BY <1>8 DEF Aggregate, logger_vars
    <2>2. Visited = Cores
      BY <2>1 DEF Visited
    <2>3. QED
      BY <1>1, <2>1, <2>2 DEF SyncInv
  <1>9. QED
    BY <1>3, <1>4, <1>5, <1>6, <1>7, <1>8 DEF PersisterStep

LEMMA OthersKeepSync ==
  ASSUME TypeOK, LockedIsIdle, SyncInv, ClockStep \/ Finish \/ UNCHANGED vars
  PROVE  /\ UNCHANGED <<open, pc, commit_epoch, head, committed, nbufs, queue>>
         /\ UNCHANGED <<file, w_pc, w_todo, nbufswritten, scheduled, sense, epoch_prefixes>>
         /\ now' \in {now, now + 1} /\ LockedIsIdle' /\ SyncInv'
         /\ UNCHANGED epochs
  <1>1. /\ UNCHANGED <<open, pc, commit_epoch, head, committed, nbufs, queue>>
        /\ UNCHANGED <<file, epochs, w_pc, w_todo, nbufswritten, scheduled, sense, epoch_prefixes>>
        /\ UNCHANGED <<p_pc, p_todo, p_core, best_tick_inc, min_so_far, system_sync_epoch>>
        /\ now' \in {now, now + 1}
    BY DEF ClockStep, Advance, Declare, Finish, vars, clock_vars, worker_vars, ring_vars, logger_vars,
       persister_vars
  <1>2. LockedIsIdle' /\ Visited' = Visited
    BY <1>1 DEF LockedIsIdle, Visited
  <1>3. /\ now \in Nat /\ best_tick_inc \in Nat /\ min_so_far \in Nat /\ system_sync_epoch \in Nat
        /\ \A d \in Cores : epochs[d] \in Nat
    BY DEF TypeOK, ClockTypes, LoggerTypes, PersisterTypes, Epochs
  <1>4. \A x \in Nat : x < now => x < now'
    BY <1>1, <1>3
  <1>5. SyncInv'
    BY <1>1, <1>2, <1>3, <1>4 DEF SyncInv
  <1>6. QED
    BY <1>1, <1>2, <1>5

-----------------------------------------------------------------------------
(* The theorems *)

LEMMA InitInv == Init => LogInv
  <1> SUFFICES ASSUME Init PROVE LogInv
    OBVIOUS
  <1>1. TypeOK
    BY InitTypes
  <1>2. WorkerInv /\ ScheduledInv
    BY <1>1, QueueIs DEF Init, ClockInit, WorkerInv, ScheduledInv, Zero, Empty, Updating
  <1>3. LogIsInCommitOrder
    <2>1. ASSUME NEW d \in Cores PROVE Unwritten(d) = <<>>
      BY SubSeqEmpty DEF Init, Unwritten, InFile, Empty, Updating
    <2>2. <<>> \o <<>> \o <<>> = <<>>
      OBVIOUS
    <2>3. ASSUME NEW d \in Cores
          PROVE  /\ committed[d] = <<>> /\ file[d] = <<>> /\ head[d] = <<>>
                 /\ FlattenSeq(Unwritten(d)) = <<>>
      BY <2>1, FlattenEmpty DEF Init, Empty
    <2>4. ASSUME NEW d \in Cores PROVE nbufs[d] + Len(queue[d]) = Buffers
      BY EmptySeq, LoggerAssumption DEF Init, Empty
    <2>5. QED
      BY <2>2, <2>3, <2>4 DEF LogIsInCommitOrder
  <1>4. CommitsGrow /\ QueuesGrow /\ PrefixesAreBehind
    BY EmptySeq DEF Init, ClockInit, CommitsGrow, QueuesGrow, PrefixesAreBehind, Zero, Empty
  <1>5. ClaimInv /\ LockedIsIdle
    BY DEF Init, ClaimInv, LockedIsIdle, Zero
  <1>6. SyncInv
    <2>1. ASSUME NEW c \in Cores
          PROVE  epochs[c] = 0 /\ pc[c] = "idle"
      BY DEF Init, Zero
    <2>2. system_sync_epoch = 0 /\ now = 1 /\ p_pc = "sleep"
      BY DEF Init, ClockInit
    <2>3. 0 < 1
      OBVIOUS
    <2>4. QED
      BY ONLY <2>1, <2>2, <2>3 DEF SyncInv, InCommit
  <1>7. QED
    BY <1>1, <1>2, <1>3, <1>4, <1>5, <1>6 DEF LogInv

LEMMA NextInv == LogInv /\ [Next]_vars => LogInv'
  <1> SUFFICES ASSUME LogInv, [Next]_vars PROVE LogInv'
    OBVIOUS
  <1>0. /\ TypeOK /\ WorkerInv /\ ScheduledInv /\ LogIsInCommitOrder
        /\ CommitsGrow /\ QueuesGrow /\ PrefixesAreBehind /\ ClaimInv /\ LockedIsIdle /\ SyncInv
    BY DEF LogInv
  <1>1. ASSUME NEW c \in Cores, WorkerStep(c) PROVE LogInv'
    <2>1. TypeOK' /\ WorkerInv' /\ ScheduledInv' /\ LogIsInCommitOrder'
      BY <1>0, <1>1, WorkerTypesKept, WorkerKeepsWorker, WorkerKeepsScheduled, WorkerKeepsOrder
    <2>2. CommitsGrow' /\ QueuesGrow' /\ PrefixesAreBehind'
      BY <1>0, <1>1, WorkerKeepsCommits, WorkerKeepsQueues, WorkerKeepsPrefixes
    <2>3. ClaimInv' /\ LockedIsIdle' /\ SyncInv'
      BY <1>0, <1>1, WorkerKeepsClaims, WorkerKeepsLocked, WorkerKeepsSync
    <2>4. QED
      BY <2>1, <2>2, <2>3 DEF LogInv
  <1>2. CASE WriterStep
    <2>1. TypeOK' /\ WorkerInv' /\ ScheduledInv' /\ LogIsInCommitOrder'
      BY <1>0, <1>2, WriterTypesKept, WriterKeepsWorker, WriterKeepsScheduled, WriterKeepsOrder
    <2>2. CommitsGrow' /\ QueuesGrow' /\ PrefixesAreBehind'
      BY <1>0, <1>2, WriterKeepsCommits, WriterKeepsQueues, WriterKeepsPrefixes
    <2>3. ClaimInv' /\ LockedIsIdle' /\ SyncInv'
      BY <1>0, <1>2, WriterKeepsClaims, WriterKeepsLocked, WriterKeepsSync
    <2>4. QED
      BY <2>1, <2>2, <2>3 DEF LogInv
  <1>3. CASE PersisterStep
    <2>1. TypeOK' /\ LockedIsIdle' /\ SyncInv'
      BY <1>0, <1>3, PersisterTypesKept, PersisterKeepsLocked, PersisterKeepsSync
    <2>2. RestOfLog'
      BY <1>0, <1>3, PersisterFrame, QuietKeeps DEF RestOfLog
    <2>3. QED
      BY <2>1, <2>2 DEF LogInv, RestOfLog
  <1>4. CASE ClockStep \/ Finish \/ UNCHANGED vars
    <2>1. TypeOK' /\ LockedIsIdle' /\ SyncInv'
      BY <1>0, <1>4, OtherTypesKept, OthersKeepSync
    <2>2. RestOfLog
      BY <1>0 DEF RestOfLog
    <2>3. RestOfLog'
      BY <1>0, <1>4, <2>2, OthersKeepSync, QuietKeeps
    <2>4. QED
      BY <2>1, <2>3 DEF LogInv, RestOfLog
  <1>5. QED
    BY <1>1, <1>2, <1>3, <1>4 DEF Next

\* The file is what the workers committed, in its order, with what is queued and
\* what is being filled (txn_logger): nothing is lost, repeated or reordered.
THEOREM LogInvariant == Spec => []LogInv
  <1>1. LogInv /\ [Next]_vars => LogInv'
    BY NextInv
  <1>2. QED
    BY InitInv, <1>1, PTL DEF Spec

THEOREM LogInOrder == Spec => []LogIsInCommitOrder
  <1>1. LogInv => LogIsInCommitOrder
    BY DEF LogInv
  <1>2. QED
    BY LogInvariant, <1>1, PTL

\* What the logger claims between the write and the return of the buffers is in
\* the file: past the end of the file no transaction is older than the last one
\* written, and the claim is one epoch behind that.
LEMMA ClaimsAreDurable == LogInv => LoggerClaimsAreDurable
  <1> SUFFICES ASSUME LogInv,
                      NEW c \in Cores, Updating, c \in w_todo, scheduled[c] > 0,
                      NEW i \in DOMAIN committed[c], committed[c][i] <= Claim(c)
               PROVE  i <= Len(file[c])
    BY DEF LoggerClaimsAreDurable
  <1>1. PICK f : f = file[c]
    OBVIOUS
  <1>2. PICK k : k = committed[c]
    OBVIOUS
  <1>3. PICK u : u = FlattenSeq(Unwritten(c))
    OBVIOUS
  <1>4. PICK h : h = head[c]
    OBVIOUS
  <1>5. f \in Seq(Epochs) /\ k \in Seq(Epochs) /\ h \in Seq(Epochs) /\ k = f \o u \o h
    BY <1>1, <1>2, <1>3, <1>4 DEF LogInv, TypeOK, WorkerTypes, LoggerTypes, LogIsInCommitOrder
  <1>6. u \in Seq(Epochs)
    <2>1. scheduled[c] \in Nat /\ InFile(c) = scheduled[c] /\ queue[c] \in Seq(Seq(Epochs)) /\ Len(queue[c]) \in Nat
      BY QueueIs DEF LogInv, TypeOK, LoggerTypes, InFile, Updating
    <2>2. Len(queue[c]) \in 0 .. Len(queue[c])
      BY <2>1
    <2>3. Unwritten(c) \in Seq(Seq(Epochs))
      BY <2>1, <2>2, SubSeqTypes DEF Unwritten
    <2>4. QED
      BY <1>3, <2>3, FlattenType
  <1>7. f # <<>> /\ Claim(c) = EpochOf(f) - 1
    BY <1>1 DEF LogInv, ClaimInv
  <1>8. EpochOf(f) \in Epochs /\ Len(f) \in Nat \ {0} /\ EpochOf(f) = f[Len(f)]
    BY <1>5, <1>7, EpochIs DEF EpochOf
  <1>9. Len(f) \in DOMAIN k /\ k[Len(f)] = f[Len(f)] /\ DOMAIN k = 1 .. Len(k) /\ Len(k) \in Nat
    <2>1. PICK x : x = f \o u
      OBVIOUS
    <2>2. x \in Seq(Epochs) /\ Len(x) = Len(f) + Len(u) /\ x[Len(f)] = f[Len(f)] /\ Len(u) \in Nat
      BY <1>5, <1>6, <1>8, <2>1
    <2>3. k = x \o h /\ Len(h) \in Nat
      BY <1>5, <2>1
    <2>4. QED
      BY <1>5, <1>8, <2>2, <2>3
  <1>10. k[i] \in Epochs /\ k[i] < f[Len(f)] /\ i \in 1 .. Len(k)
    <2>1. k[i] \in Epochs /\ i \in 1 .. Len(k)
      BY <1>2, <1>5
    <2>2. QED
      BY <1>2, <1>7, <1>8, <2>1 DEF Epochs
  <1>11. \A j \in DOMAIN k : Len(f) <= j => k[Len(f)] <= k[j]
    BY <1>2, <1>9 DEF LogInv, CommitsGrow
  <1>12. ASSUME i > Len(f) PROVE FALSE
    <2>1. k[Len(f)] <= k[i]
      BY <1>2, <1>8, <1>9, <1>10, <1>11, <1>12
    <2>2. QED
      BY <1>8, <1>9, <1>10, <2>1 DEF Epochs
  <1>13. QED
    BY <1>1, <1>8, <1>10, <1>12

THEOREM LoggerClaims == Spec => []LoggerClaimsAreDurable
  BY LogInvariant, ClaimsAreDurable, PTL

\* txn_ic3_impl.cc:162: whoever stores an epoch for a core that still runs, no
\* buffer that waits to be written is of that epoch or of an earlier one: the
\* logger's claim is behind what it leaves, and the persister moves a core
\* ahead only when it finds nothing queued with the core's lock held.
THEOREM QueuedNotClaimed == Spec => QueuedIsNotClaimed
  <1>1. ASSUME LogInv, [Next]_vars
        PROVE  [\A c \in Cores :
                  epochs'[c] > epochs[c] /\ pc[c] # "ended" =>
                    \A i \in DOMAIN Unwritten(c)' : EpochOf(Unwritten(c)'[i]) > epochs'[c]]_vars
    <2>0. TypeOK /\ LogInv'
      BY <1>1, NextInv DEF LogInv
    <2>1. SUFFICES ASSUME NEW c \in Cores, epochs'[c] > epochs[c], pc[c] # "ended"
                   PROVE  \A i \in DOMAIN Unwritten(c)' : EpochOf(Unwritten(c)'[i]) > epochs'[c]
      OBVIOUS
    <2>2. epochs[c] \in Nat /\ epochs'[c] # epochs[c]
      BY <2>0, <2>1 DEF TypeOK, LoggerTypes
    <2>3. CASE \E d \in Cores : WorkerStep(d)
      BY <2>0, <2>2, <2>3, WorkerFrame DEF Others
    <2>4. CASE WriterStep
      <3>1. PICK d \in Cores : Stores(d)
        BY <2>0, <2>2, <2>4, WriterMoves DEF Starts, Collects, Writes, Skips, Compares, Returns
      <3>2. d = c
        BY <2>2, <3>1 DEF Stores
      <3>3. /\ epochs'[c] = Claim(c) /\ InFile(c)' = scheduled[c] /\ queue' = queue
        BY <3>1, <3>2 DEF Stores, InFile, Updating
      <3>4. sense \in 0 .. 1
        BY <2>0 DEF TypeOK, LoggerTypes
      <3>5. /\ Rest(c) \in Seq(LogBuffers) /\ Len(Rest(c)) = Len(queue[c]) - scheduled[c]
            /\ \A i \in 1 .. Len(queue[c]) - scheduled[c] : Rest(c)[i] = queue[c][scheduled[c] + i]
            /\ scheduled[c] \in 0 .. Len(queue[c]) /\ Len(queue[c]) \in Nat
            /\ DOMAIN queue[c] = 1 .. Len(queue[c])
        BY <1>1, RestIs, QueueIs DEF LogInv
      <3>6. Unwritten(c)' = Rest(c) /\ DOMAIN Rest(c) = 1 .. Len(queue[c]) - scheduled[c]
        BY <3>3, <3>5 DEF Unwritten, Rest
      <3>7. ASSUME NEW i \in 1 .. Len(queue[c]) - scheduled[c] PROVE EpochOf(Rest(c)[i]) > Claim(c)
        <4>1. scheduled[c] + i \in DOMAIN queue[c] /\ scheduled[c] + i > scheduled[c]
          BY <3>5
        <4>2. Claim(c) < EpochOf(queue[c][scheduled[c] + i])
          BY <1>1, <3>4, <4>1 DEF LogInv, PrefixesAreBehind, Claim
        <4>3. Claim(c) \in Nat /\ EpochOf(queue[c][scheduled[c] + i]) \in Epochs
          BY <2>0, <3>4, <4>1, QueueIs DEF TypeOK, LoggerTypes, Claim
        <4>4. QED
          BY <3>5, <4>2, <4>3 DEF Epochs
      <3>8. QED
        BY <3>3, <3>6, <3>7
    <2>5. CASE PersisterStep
      <3>1. AdvanceCore
        BY <2>2, <2>5 DEF PersisterStep, StartAdvance, Peek, LockFails, LockCore, Recheck, LoadCore, Aggregate,
           logger_vars
      <3>2. p_core = c /\ p_pc = "advance"
        BY <2>0, <2>2, <3>1 DEF AdvanceCore, TypeOK, LoggerTypes
      <3>3. queue[c] = <<>> /\ queue'[c] = queue[c]
        BY <1>1, <2>1, <2>5, <3>2, PersisterFrame DEF LogInv, LockedIsIdle
      <3>4. InFile(c)' \in Nat
        BY <2>0 DEF LogInv, TypeOK, LoggerTypes, InFile, Updating
      <3>5. Unwritten(c)' = <<>>
        <4>1. Unwritten(c)' = SubSeq(<<>>, InFile(c)' + 1, 0)
          BY <3>3, EmptySeq DEF Unwritten
        <4>2. QED
          BY <3>4, <4>1, SubSeqEmpty
      <3>6. QED
        BY <3>5
    <2>6. CASE ClockStep \/ Finish \/ UNCHANGED vars
      BY <1>1, <2>2, <2>6, OthersKeepSync DEF LogInv
    <2>7. QED
      BY <1>1, <2>3, <2>4, <2>5, <2>6 DEF Next
  <1>2. QED
    BY <1>1, LogInvariant, PTL DEF Spec, QueuedIsNotClaimed

\* txn_ic3_impl.cc:165: what is said of a core or of the system is over, whatever
\* the logger and the persister store after one another: no transaction that a
\* core is logging, or has logged in the section it is in, is of that epoch.
THEOREM CommitsComeLater == Spec => []CommitsAreLater
  <1>1. LogInv => CommitsAreLater
    BY DEF LogInv, SyncInv, InCommit, CommitsAreLater
  <1>2. QED
    BY LogInvariant, <1>1, PTL
=============================================================================
