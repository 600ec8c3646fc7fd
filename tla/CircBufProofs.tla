----------------------------- MODULE CircBufProofs -----------------------------
(***************************************************************************)
(* The ring is a first-in first-out queue, for any capacity and any items, *)
(* when one thread enqueues: a worker fills one ring and a logger returns  *)
(* buffers through another, so each ring of the engine has one enqueuer.   *)
(***************************************************************************)
EXTENDS CircBuf, TLAPS

CONSTANT e  \* the enqueuer

OneEnqueuer == Enqueuers = {e}

-----------------------------------------------------------------------------
(* Slots *)

\* The slot that is j behind slot i.
Plus(i, j) == IF i + j < Capacity THEN i + j ELSE i + j - Capacity

LEMMA PlusIsModulo ==
  ASSUME NEW i \in Slots, NEW j \in Slots
  PROVE  (i + j) % Capacity = Plus(i, j) /\ Plus(i, j) \in Slots
  <1>1. PICK c \in Nat \ {0} : c = Capacity
    BY CircBufAssumption
  <1>2. i \in 0 .. c - 1 /\ j \in 0 .. c - 1 /\ i + j \in Nat
    BY <1>1 DEF Slots
  <1>3. Plus(i, j) \in 0 .. c - 1
    BY <1>1, <1>2 DEF Plus
  <1>4. \A a \in Nat, q \in {0, 1}, r \in 0 .. c - 1 : a = (c * q) + r => a % c = r
    <2> SUFFICES ASSUME NEW a \in Nat, NEW q \in {0, 1}, NEW r \in 0 .. c - 1, a = (c * q) + r
                 PROVE  a % c = r
      OBVIOUS
    <2>1. PICK p \in Nat : a = (c * p) + (a % c) /\ a % c \in 0 .. c - 1
      <3>1. a \div c \in Nat /\ a = (c * (a \div c)) + (a % c) /\ a % c \in 0 .. c - 1
        BY SMT
      <3>. QED  BY <3>1
    <2>2. PICK k \in Int : k = p - q
      OBVIOUS
    <2>3. c * k = r - (a % c)
      BY <2>1, <2>2
    <2>4. c * k < c /\ c * k > -c
      BY <2>1, <2>3
    <2>5. k = 0
      BY <2>4
    <2>. QED  BY <2>1, <2>3, <2>5
  <1>5. CASE i + j < c
    <2>1. i + j = (c * 0) + (i + j) /\ i + j \in 0 .. c - 1
      BY <1>2, <1>5
    <2>. QED  BY <1>1, <1>2, <1>3, <1>4, <1>5, <2>1 DEF Plus, Slots
  <1>6. CASE ~ (i + j < c)
    <2>1. i + j = (c * 1) + (i + j - c) /\ i + j - c \in 0 .. c - 1
      BY <1>2, <1>6
    <2>. QED  BY <1>1, <1>2, <1>3, <1>4, <1>6, <2>1 DEF Plus, Slots
  <1>. QED  BY <1>5, <1>6

LEMMA NextIsPlus ==
  ASSUME NEW i \in Slots
  PROVE  Next1(i) = (IF i + 1 < Capacity THEN i + 1 ELSE 0) /\ Next1(i) \in Slots
  <1>1. CASE Capacity = 1
    <2>1. i = 0 /\ Next1(i) = 1 % 1
      BY <1>1 DEF Slots, Next1
    <2>. QED  BY <1>1, <2>1 DEF Slots
  <1>2. CASE Capacity # 1
    <2>1. 1 \in Slots
      BY <1>2, CircBufAssumption DEF Slots
    <2>2. Next1(i) = Plus(i, 1) /\ Plus(i, 1) \in Slots
      BY <2>1, PlusIsModulo DEF Next1
    <2>. QED  BY <2>2, CircBufAssumption DEF Plus, Slots
  <1>. QED  BY <1>1, <1>2

LEMMA OneSlotOn ==
  ASSUME NEW t \in Slots, NEW j \in Slots
  PROVE  /\ Plus(t, 0) = t
         /\ j + 1 < Capacity => /\ j + 1 \in Slots
                                /\ Next1(Plus(t, j)) = Plus(t, j + 1)
                                /\ Plus(Next1(t), j) = Plus(t, j + 1)
         /\ j + 1 = Capacity => Next1(Plus(t, j)) = t /\ Plus(Next1(t), j) = t
  <1>1. Plus(t, j) \in Slots
    BY PlusIsModulo
  <1>2. /\ Next1(Plus(t, j)) = (IF Plus(t, j) + 1 < Capacity THEN Plus(t, j) + 1 ELSE 0)
        /\ Next1(t) = (IF t + 1 < Capacity THEN t + 1 ELSE 0)
    BY <1>1, NextIsPlus
  <1>. QED  BY <1>2, CircBufAssumption DEF Plus, Slots

LEMMA PlusIsInjective ==
  ASSUME NEW t \in Slots, NEW i \in Slots, NEW j \in Slots, Plus(t, i) = Plus(t, j)
  PROVE  i = j
  BY CircBufAssumption DEF Plus, Slots

-----------------------------------------------------------------------------
(* A ring of n items from slot t up to slot h.  F says who occupies a slot. *)

Ring(F, h, t, n) ==
  /\ n \in 0 .. Capacity
  /\ h = (IF n = Capacity THEN t ELSE Plus(t, n))
  /\ \A j \in Slots : F[Plus(t, j)] # NULL <=> j < n

\* The items in the order they went in.
Line(F, t, n) == [j \in 1 .. n |-> F[Plus(t, j - 1)]]

Values == Items \cup {NULL}

LEMMA LineType ==
  ASSUME NEW F \in [Slots -> Values], NEW t \in Slots, NEW n \in 0 .. Capacity
  PROVE  Line(F, t, n) \in Seq(Values) /\ Len(Line(F, t, n)) = n
  <1>1. \A j \in 1 .. n : j - 1 \in Slots
    BY CircBufAssumption DEF Slots
  <1>2. \A j \in 1 .. n : F[Plus(t, j - 1)] \in Values
    BY <1>1, PlusIsModulo
  <1>3. n \in Nat
    BY CircBufAssumption
  <1>. QED  BY <1>2, <1>3 DEF Line

LEMMA RingTakesItem ==
  ASSUME NEW F \in [Slots -> Values], NEW h \in Slots, NEW t \in Slots, NEW n \in Nat,
         NEW p \in Items, Ring(F, h, t, n), F[h] = NULL
  PROVE  /\ n < Capacity
         /\ Ring([F EXCEPT ![h] = p], Next1(h), t, n + 1)
         /\ Line([F EXCEPT ![h] = p], t, n + 1) = Append(Line(F, t, n), p)
  <1> DEFINE G == [F EXCEPT ![h] = p]
  <1>0. 0 \in Slots /\ Plus(t, 0) = t
    BY OneSlotOn, CircBufAssumption DEF Slots
  <1>1. n \in Slots /\ n < Capacity /\ n + 1 \in 0 .. Capacity /\ h = Plus(t, n)
    <2>1. n # Capacity
      BY <1>0, CircBufAssumption DEF Ring, Slots
    <2>. QED  BY <2>1, CircBufAssumption DEF Ring, Slots
  <1>2. \A j \in Slots : Plus(t, j) \in Slots /\ (Plus(t, j) = h <=> j = n)
    BY <1>1, PlusIsInjective, PlusIsModulo
  <1>3. G \in [Slots -> Values] /\ p # NULL
    BY CircBufAssumption DEF Values
  <1>4. \A j \in Slots : G[Plus(t, j)] = IF j = n THEN p ELSE F[Plus(t, j)]
    BY <1>2
  <1>5. \A j \in Slots : j # n => (j < n <=> j < n + 1)
    BY <1>1 DEF Slots
  <1>6. \A j \in Slots : G[Plus(t, j)] # NULL <=> j < n + 1
    <2> SUFFICES ASSUME NEW j \in Slots PROVE G[Plus(t, j)] # NULL <=> j < n + 1
      OBVIOUS
    <2>1. CASE j = n
      <3>1. j < n + 1
        BY <2>1, <1>1 DEF Slots
      <3>. QED  BY <1>3, <1>4, <2>1, <3>1
    <2>2. CASE j # n
      BY <1>4, <1>5, <2>2 DEF Ring
    <2>. QED  BY <2>1, <2>2
  <1>7. Next1(h) = IF n + 1 = Capacity THEN t ELSE Plus(t, n + 1)
    <2>1. n + 1 < Capacity \/ n + 1 = Capacity
      BY <1>1, CircBufAssumption DEF Slots
    <2>2. n + 1 < Capacity => n + 1 # Capacity
      BY <1>1, CircBufAssumption DEF Slots
    <2>. QED  BY <1>1, <2>1, <2>2, OneSlotOn
  <1>8. Ring(G, Next1(h), t, n + 1)
    BY <1>1, <1>6, <1>7 DEF Ring
  <1>9. Line(G, t, n + 1) = Append(Line(F, t, n), p)
    <2> DEFINE a == Line(F, t, n)
               b == Line(G, t, n + 1)
    <2>1. a \in Seq(Values) /\ Len(a) = n /\ b \in Seq(Values) /\ Len(b) = n + 1
      BY <1>1, <1>3, LineType DEF Ring
    <2>2. \A j \in 1 .. n : j - 1 \in Slots /\ j - 1 # n /\ j \in 1 .. n + 1
      BY <1>1, CircBufAssumption DEF Slots
    <2>3. \A j \in 1 .. n : b[j] = a[j]
      BY <1>4, <2>2 DEF Line
    <2>4. b[n + 1] = p
      <3>1. n + 1 \in 1 .. n + 1 /\ (n + 1) - 1 = n
        BY <1>1 DEF Slots
      <3>. QED  BY <1>1, <1>4, <3>1 DEF Line
    <2>. HIDE DEF a, b
    <2>5. Append(a, p) \in Seq(Values) /\ Len(Append(a, p)) = n + 1
          /\ (\A j \in 1 .. n : Append(a, p)[j] = a[j]) /\ Append(a, p)[n + 1] = p
      BY <2>1, <1>3 DEF Values
    <2>6. \A j \in 1 .. n + 1 : b[j] = Append(a, p)[j]
      <3>1. \A j \in 1 .. n + 1 : j \in 1 .. n \/ j = n + 1
        BY <1>1 DEF Slots
      <3>. QED  BY <2>3, <2>4, <2>5, <3>1
    <2>7. b = Append(a, p)
      BY <2>1, <2>5, <2>6
    <2>. QED  BY <2>7 DEF a, b
  <1>. QED  BY <1>1, <1>8, <1>9

LEMMA RingGivesItem ==
  ASSUME NEW F \in [Slots -> Values], NEW h \in Slots, NEW t \in Slots, NEW n \in Nat,
         Ring(F, h, t, n), F[t] # NULL
  PROVE  /\ n > 0
         /\ Ring([F EXCEPT ![t] = NULL], h, Next1(t), n - 1)
         /\ Line([F EXCEPT ![t] = NULL], Next1(t), n - 1) = Tail(Line(F, t, n))
  <1> DEFINE G == [F EXCEPT ![t] = NULL]
             u == Next1(t)
  <1>0. 0 \in Slots /\ Plus(t, 0) = t
    BY OneSlotOn, CircBufAssumption DEF Slots
  <1>1. n \in 1 .. Capacity /\ n - 1 \in Slots /\ n - 1 \in 0 .. Capacity /\ n - 1 # Capacity
    BY <1>0, CircBufAssumption DEF Ring, Slots
  <1>2. u \in Slots /\ G \in [Slots -> Values]
    BY NextIsPlus DEF Values
  <1>3. \A j \in Slots : j + 1 < Capacity =>
          j + 1 \in Slots /\ Plus(u, j) = Plus(t, j + 1) /\ Plus(u, j) # t
    <2> SUFFICES ASSUME NEW j \in Slots, j + 1 < Capacity
                 PROVE  j + 1 \in Slots /\ Plus(u, j) = Plus(t, j + 1) /\ Plus(u, j) # t
      OBVIOUS
    <2>1. j + 1 \in Slots /\ Plus(u, j) = Plus(t, j + 1)
      BY OneSlotOn
    <2>2. j + 1 # 0
      BY DEF Slots
    <2>. QED  BY <1>0, <2>1, <2>2, PlusIsInjective
  <1>4. \A j \in Slots : j + 1 = Capacity => Plus(u, j) = t
    BY OneSlotOn
  <1>5. \A j \in Slots : j + 1 < Capacity \/ j + 1 = Capacity
    BY CircBufAssumption DEF Slots
  <1>6. \A j \in Slots : Plus(u, j) \in Slots
    BY <1>2, PlusIsModulo
  <1>7. \A j \in Slots : j + 1 < Capacity => G[Plus(u, j)] = F[Plus(t, j + 1)]
    BY <1>3, <1>6
  <1>8. \A j \in Slots : G[Plus(u, j)] # NULL <=> j < n - 1
    <2> SUFFICES ASSUME NEW j \in Slots PROVE G[Plus(u, j)] # NULL <=> j < n - 1
      OBVIOUS
    <2>1. CASE j + 1 < Capacity
      <3>1. F[Plus(t, j + 1)] # NULL <=> j + 1 < n
        BY <1>3, <2>1 DEF Ring
      <3>2. j + 1 < n <=> j < n - 1
        BY <1>1 DEF Slots
      <3>. QED  BY <1>7, <2>1, <3>1, <3>2
    <2>2. CASE j + 1 = Capacity
      <3>1. ~ (j < n - 1)
        BY <1>1, <2>2, CircBufAssumption DEF Slots
      <3>2. G[Plus(u, j)] = NULL
        BY <1>4, <2>2
      <3>. QED  BY <3>1, <3>2
    <2>. QED  BY <1>5, <2>1, <2>2
  <1>9. h = Plus(u, n - 1)
    <2>1. CASE n = Capacity
      <3>1. (n - 1) + 1 = Capacity
        BY <1>1, <2>1, CircBufAssumption
      <3>. QED  BY <1>1, <1>4, <2>1, <3>1 DEF Ring
    <2>2. CASE n # Capacity
      <3>1. (n - 1) + 1 < Capacity /\ (n - 1) + 1 = n
        BY <1>1, <2>2, CircBufAssumption
      <3>2. Plus(u, n - 1) = Plus(t, (n - 1) + 1)
        BY <1>1, <1>3, <3>1
      <3>. QED  BY <2>2, <3>1, <3>2 DEF Ring
    <2>. QED  BY <2>1, <2>2
  <1>10. Ring(G, h, u, n - 1)
    BY <1>1, <1>8, <1>9 DEF Ring
  <1>11. Line(G, u, n - 1) = Tail(Line(F, t, n))
    <2> DEFINE a == Line(F, t, n)
               b == Line(G, u, n - 1)
    <2>1. a \in Seq(Values) /\ Len(a) = n /\ b \in Seq(Values) /\ Len(b) = n - 1
      BY <1>1, <1>2, LineType DEF Ring
    <2>2. \A j \in 1 .. n - 1 : /\ j - 1 \in Slots /\ (j - 1) + 1 < Capacity
                                /\ (j - 1) + 1 = (j + 1) - 1 /\ j + 1 \in 1 .. n
      BY <1>1, CircBufAssumption DEF Slots
    <2>3. \A j \in 1 .. n - 1 : b[j] = a[j + 1]
      <3> SUFFICES ASSUME NEW j \in 1 .. n - 1 PROVE b[j] = a[j + 1]
        OBVIOUS
      <3>1. b[j] = G[Plus(u, j - 1)] /\ a[j + 1] = F[Plus(t, (j + 1) - 1)]
        BY <2>2 DEF Line
      <3>2. G[Plus(u, j - 1)] = F[Plus(t, (j - 1) + 1)]
        BY <1>7, <2>2
      <3>. QED  BY <2>2, <3>1, <3>2
    <2>. HIDE DEF a, b
    <2>4. a # <<>>
      BY <1>1, <2>1
    <2>5. Tail(a) \in Seq(Values) /\ Len(Tail(a)) = n - 1
          /\ (\A j \in 1 .. n - 1 : Tail(a)[j] = a[j + 1])
      BY <1>1, <2>1, <2>4
    <2>6. b = Tail(a)
      BY <2>1, <2>3, <2>5
    <2>. QED  BY <2>6 DEF a, b
  <1>12. n > 0
    BY <1>1, CircBufAssumption
  <1>. QED  BY <1>10, <1>11, <1>12

-----------------------------------------------------------------------------
(* The invariant: where the two threads are, and the ring between them. *)

Held == [i \in Slots |-> Occupant(i)]

Types ==
  /\ buf \in [Slots -> Values]
  /\ head \in Slots /\ tail \in Slots
  /\ pc \in [Enqueuers -> {"idle", "load", "check", "cas", "store"}]
  /\ item \in [Enqueuers -> Values]
  /\ icur \in [Enqueuers -> Slots]
  /\ d_pc \in {"wait", "take", "move", "clear"}
  /\ ret \in Values /\ old \in Slots
  /\ outside \subseteq Items

\* With no rival the head stays where enq has read it, and the slot empty.
EnqInv ==
  /\ pc[e] # "idle" => item[e] \in Items
  /\ pc[e] \in {"check", "cas"} => icur[e] = head
  /\ pc[e] = "cas" => buf[head] = NULL
  /\ pc[e] = "store" => buf[icur[e]] = NULL

DeqInv ==
  /\ d_pc \in {"take", "move"} => buf[tail] # NULL
  /\ d_pc = "move" => ret = buf[tail]
  /\ d_pc = "clear" => ret \in Items /\ buf[old] = ret

RingInv == \E n \in Nat : Ring(Held, head, tail, n)

CInv == Types /\ EnqInv /\ DeqInv /\ RingInv

-----------------------------------------------------------------------------
(* Occupants *)

LEMMA OccupantIs ==
  ASSUME OneEnqueuer, NEW i \in Slots
  PROVE  Occupant(i) = IF d_pc = "clear" /\ old = i THEN NULL
                       ELSE IF pc[e] = "store" /\ icur[e] = i THEN item[e] ELSE buf[i]
  <1> DEFINE winners == {f \in Enqueuers : pc[f] = "store" /\ icur[f] = i}
  <1>1. CASE pc[e] = "store" /\ icur[e] = i
    <2>1. winners = {e}
      BY <1>1 DEF OneEnqueuer
    <2>2. (CHOOSE f \in winners : TRUE) = e
      BY <2>1
    <2>. QED  BY <1>1, <2>1, <2>2 DEF Occupant
  <1>2. CASE ~ (pc[e] = "store" /\ icur[e] = i)
    <2>1. winners = {}
      BY <1>2 DEF OneEnqueuer
    <2>. QED  BY <1>2, <2>1 DEF Occupant
  <1>. QED  BY <1>1, <1>2

LEMMA OccupantBecomes ==
  ASSUME OneEnqueuer, NEW i \in Slots
  PROVE  Occupant(i)' = IF d_pc' = "clear" /\ old' = i THEN NULL
                        ELSE IF pc'[e] = "store" /\ icur'[e] = i THEN item'[e] ELSE buf'[i]
  <1> DEFINE winners == {f \in Enqueuers : pc'[f] = "store" /\ icur'[f] = i}
  <1>1. CASE pc'[e] = "store" /\ icur'[e] = i
    <2>1. winners = {e}
      BY <1>1 DEF OneEnqueuer
    <2>2. (CHOOSE f \in winners : TRUE) = e
      BY <2>1
    <2>. QED  BY <1>1, <2>1, <2>2 DEF Occupant
  <1>2. CASE ~ (pc'[e] = "store" /\ icur'[e] = i)
    <2>1. winners = {}
      BY <1>2 DEF OneEnqueuer
    <2>. QED  BY <1>2, <2>1 DEF Occupant
  <1>. QED  BY <1>1, <1>2

LEMMA HeldType ==
  ASSUME OneEnqueuer, Types
  PROVE  Held \in [Slots -> Values]
  <1>1. \A i \in Slots : Occupant(i) \in Values
    BY OccupantIs DEF Types, Values, OneEnqueuer
  <1>. QED  BY <1>1 DEF Held

\* The slots that Count counts, whatever the ring holds.
LEMMA CountIs ==
  ASSUME NEW n \in Nat, head \in Slots, tail \in Slots, Ring(Held, head, tail, n)
  PROVE  Count = n
  <1>0. 0 \in Slots /\ Plus(tail, 0) = tail /\ Held[tail] = Occupant(tail)
    BY OneSlotOn, CircBufAssumption DEF Slots, Held
  <1>1. Occupant(tail) # NULL <=> 0 < n
    BY <1>0 DEF Ring
  <1>2. n \in 0 .. Capacity /\ head = (IF n = Capacity THEN tail ELSE Plus(tail, n))
    BY DEF Ring
  <1>3. CASE n = Capacity
    BY <1>1, <1>2, <1>3, CircBufAssumption DEF Count
  <1>4. CASE n # Capacity
    <2>1. n \in Slots /\ head = Plus(tail, n)
      BY <1>2, <1>4, CircBufAssumption DEF Slots
    <2>2. CASE n = 0
      <3>1. head = tail
        BY <1>0, <2>1, <2>2
      <3>. QED  BY <1>1, <2>2, <3>1 DEF Count
    <2>3. CASE n # 0
      <3>1. head # tail
        BY <1>0, <2>1, <2>3, PlusIsInjective
      <3>2. n = IF tail < head THEN head - tail ELSE head + Capacity - tail
        BY <2>1, <3>1, CircBufAssumption DEF Plus, Slots
      <3>. QED  BY <3>1, <3>2 DEF Count
    <2>. QED  BY <2>2, <2>3
  <1>. QED  BY <1>3, <1>4

LEMMA ContentsAre ==
  ASSUME NEW n \in Nat, head \in Slots, tail \in Slots, Ring(Held, head, tail, n)
  PROVE  Contents = Line(Held, tail, n)
  <1>1. Count = n
    BY CountIs
  <1>2. ASSUME NEW j \in 1 .. n
        PROVE  Occupant((tail + j - 1) % Capacity) = Held[Plus(tail, j - 1)]
    <2>1. j - 1 \in Slots /\ tail + j - 1 = tail + (j - 1)
      BY CircBufAssumption DEF Slots, Ring
    <2>2. (tail + (j - 1)) % Capacity = Plus(tail, j - 1) /\ Plus(tail, j - 1) \in Slots
      BY <2>1, PlusIsModulo
    <2>. QED  BY <2>1, <2>2 DEF Held
  <1>. QED  BY <1>1, <1>2 DEF Contents, Line

-----------------------------------------------------------------------------
(* Steps *)

Shown == \A n \in Nat : Ring(Held, head, tail, n) => Contents = Line(Held, tail, n)

LEMMA LineIsShown == Types => Shown
  BY ContentsAre DEF Types, Shown

LEMMA LineIsShownNext == Types' => Shown'
  BY LineIsShown, PTL

\* What a step does to the queue: nothing, the item of e in, the oldest out.
Kept == Held' = Held /\ UNCHANGED <<head, tail>>

Won ==
  /\ Held[head] = NULL /\ item[e] \in Items
  /\ Held' = [Held EXCEPT ![head] = item[e]]
  /\ head' = Next1(head) /\ tail' = tail

Moved ==
  /\ Held[tail] # NULL
  /\ Held' = [Held EXCEPT ![tail] = NULL]
  /\ head' = head /\ tail' = Next1(tail)

LEMMA KeptStep ==
  ASSUME OneEnqueuer, CInv, Types', Kept
  PROVE  RingInv' /\ Contents' = Contents
  <1>1. PICK n \in Nat : Ring(Held, head, tail, n)
    BY DEF CInv, RingInv
  <1>2. Ring(Held, head, tail, n)'
    BY <1>1 DEF Kept, Ring
  <1>3. Contents = Line(Held, tail, n)
    BY <1>1, LineIsShown DEF Shown, CInv
  <1>4. Contents' = Line(Held', tail', n)
    BY <1>2, LineIsShownNext DEF Shown, Line, Ring
  <1>. QED  BY <1>2, <1>3, <1>4 DEF RingInv, Kept

LEMMA WonStep ==
  ASSUME OneEnqueuer, CInv, Types', Won
  PROVE  RingInv' /\ Queue!Put(item[e])
  <1>1. PICK n \in Nat : Ring(Held, head, tail, n)
    BY DEF CInv, RingInv
  <1>2. Held \in [Slots -> Values] /\ head \in Slots /\ tail \in Slots
    BY HeldType DEF CInv, Types
  <1>a. PICK F \in [Slots -> Values] : F = Held
    BY <1>2
  <1>b. PICK p \in Items : p = item[e]
    BY DEF Won
  <1>c. Ring(F, head, tail, n) /\ F[head] = NULL
    BY <1>1, <1>a DEF Won
  <1>3. /\ n < Capacity
        /\ Ring([F EXCEPT ![head] = p], Next1(head), tail, n + 1)
        /\ Line([F EXCEPT ![head] = p], tail, n + 1) = Append(Line(F, tail, n), p)
    BY <1>2, <1>c, RingTakesItem
  <1>d. Held' = [F EXCEPT ![head] = p] /\ head' = Next1(head) /\ tail' = tail
    BY <1>a, <1>b DEF Won
  <1>4. Ring(Held', head', tail', n + 1) /\ n + 1 \in Nat
    BY <1>3, <1>d
  <1>5. RingInv'
    BY <1>4 DEF RingInv, Ring
  <1>6. Contents = Line(F, tail, n)
    BY <1>1, <1>a, LineIsShown DEF Shown, CInv
  <1>7. Contents' = Line(Held', tail', n + 1)
    BY <1>4, LineIsShownNext DEF Shown, Line, Ring
  <1>8. Contents' = Append(Contents, p)
    BY <1>3, <1>6, <1>7, <1>d
  <1>9. Len(Contents) = n
    BY <1>2, <1>6, <1>c, LineType DEF Ring
  <1>. QED  BY <1>3, <1>5, <1>8, <1>9, <1>b DEF Queue!Put

LEMMA MovedStep ==
  ASSUME OneEnqueuer, CInv, Types', Moved
  PROVE  RingInv' /\ Queue!Get
  <1>1. PICK n \in Nat : Ring(Held, head, tail, n)
    BY DEF CInv, RingInv
  <1>2. Held \in [Slots -> Values] /\ head \in Slots /\ tail \in Slots
    BY HeldType DEF CInv, Types
  <1>3. /\ n > 0
        /\ Ring([Held EXCEPT ![tail] = NULL], head, Next1(tail), n - 1)
        /\ Line([Held EXCEPT ![tail] = NULL], Next1(tail), n - 1)
             = Tail(Line(Held, tail, n))
    BY <1>1, <1>2, RingGivesItem DEF Moved
  <1>4. Ring(Held', head', tail', n - 1) /\ n - 1 \in Nat
    BY <1>3 DEF Moved
  <1>5. RingInv'
    BY <1>4 DEF RingInv, Ring
  <1>6. Contents = Line(Held, tail, n)
    BY <1>1, LineIsShown DEF Shown, CInv
  <1>7. Contents' = Line(Held', tail', n - 1)
    BY <1>4, LineIsShownNext DEF Shown, Line, Ring
  <1>8. Contents' = Tail(Contents)
    BY <1>3, <1>6, <1>7 DEF Moved
  <1>9. Len(Contents) = n
    BY <1>1, <1>2, <1>6, LineType DEF Ring
  <1>10. Contents # <<>>
    BY <1>3, <1>9
  <1>. QED  BY <1>5, <1>8, <1>10 DEF Queue!Get

LEMMA HeldKept ==
  ASSUME \A i \in Slots : Occupant(i)' = Occupant(i)
  PROVE  Held' = Held
  BY DEF Held

LEMMA HeldUpdated ==
  ASSUME NEW s \in Slots, NEW v, Occupant(s)' = v,
         \A i \in Slots \ {s} : Occupant(i)' = Occupant(i)
  PROVE  Held' = [Held EXCEPT ![s] = v]
  BY DEF Held

-----------------------------------------------------------------------------
LEMMA InitInv ==
  ASSUME OneEnqueuer, Init
  PROVE  CInv /\ Contents = <<>>
  <1>1. 0 \in Slots /\ NULL \notin Items /\ Capacity # 0
    BY CircBufAssumption DEF Slots
  <1>2. Types
    BY <1>1 DEF Init, Types, Values
  <1>3. EnqInv /\ DeqInv
    BY <1>1 DEF Init, EnqInv, DeqInv, OneEnqueuer
  <1>4. \A i \in Slots : Held[i] = NULL
    <2>1. \A i \in Slots : Occupant(i) = NULL
      BY OccupantIs DEF Init, OneEnqueuer
    <2>. QED  BY <2>1 DEF Held
  <1>5. Ring(Held, head, tail, 0)
    <2>1. Plus(0, 0) = 0 /\ \A j \in Slots : Plus(0, j) \in Slots /\ ~ (j < 0)
      <3>1. \A j \in Slots : ~ (j < 0)
        BY DEF Slots
      <3>. QED  BY <1>1, <3>1, OneSlotOn, PlusIsModulo
    <2>2. 0 \in 0 .. Capacity
      BY CircBufAssumption
    <2>. QED  BY <1>1, <1>4, <2>1, <2>2 DEF Init, Ring
  <1>6. RingInv
    BY <1>5 DEF RingInv
  <1>7. Contents = Line(Held, tail, 0)
    BY <1>2, <1>5, LineIsShown DEF Shown
  <1>8. Line(Held, tail, 0) = <<>>
    <2>1. Line(Held, tail, 0) \in Seq(Values) /\ Len(Line(Held, tail, 0)) = 0
      BY <1>2, HeldType, LineType, CircBufAssumption DEF Types
    <2>. QED  BY <2>1
  <1>. QED  BY <1>2, <1>3, <1>6, <1>7, <1>8 DEF CInv

LEMMA TypesStep ==
  ASSUME OneEnqueuer, CInv, [Next]_vars
  PROVE  Types'
  <1>. USE DEF Types
  <1>0. Types /\ EnqInv /\ DeqInv
    BY DEF CInv
  <1>1. CASE UNCHANGED vars
    BY <1>0, <1>1 DEF vars, enq_vars, deq_vars
  <1>2. CASE Deq
    <2>1. CASE Wait
      BY <1>0, <2>1 DEF Wait, enq_vars
    <2>2. CASE Take
      BY <1>0, <2>2 DEF Take, enq_vars
    <2>3. CASE MoveTail
      BY <1>0, <2>3, NextIsPlus DEF MoveTail, enq_vars
    <2>4. CASE Clear
      BY <1>0, <2>4 DEF Clear, enq_vars, Values, DeqInv
    <2>. QED  BY <1>2, <2>1, <2>2, <2>3, <2>4 DEF Deq
  <1>3. CASE Enq(e)
    <2>0. e \in Enqueuers
      BY DEF OneEnqueuer
    <2>1. CASE Call(e)
      BY <1>0, <2>0, <2>1 DEF Call, deq_vars, Values
    <2>2. CASE LoadHead(e)
      BY <1>0, <2>0, <2>2 DEF LoadHead, deq_vars
    <2>3. CASE CheckSlot(e)
      BY <1>0, <2>0, <2>3 DEF CheckSlot, deq_vars
    <2>4. CASE Claim(e)
      BY <1>0, <2>0, <2>4, NextIsPlus DEF Claim, deq_vars
    <2>5. CASE Store(e)
      BY <1>0, <2>0, <2>5 DEF Store, deq_vars, Values
    <2>. QED  BY <1>3, <2>1, <2>2, <2>3, <2>4, <2>5 DEF Enq
  <1>. QED  BY <1>1, <1>2, <1>3 DEF Next, OneEnqueuer

\* The control of the two threads.
LEMMA ThreadsStep ==
  ASSUME OneEnqueuer, CInv, [Next]_vars
  PROVE  EnqInv' /\ DeqInv'
  <1>0. Types /\ EnqInv /\ DeqInv /\ e \in Enqueuers /\ NULL \notin Items
    BY CircBufAssumption DEF CInv, OneEnqueuer
  <1>. USE DEF EnqInv, DeqInv, Types
  <1>1. CASE UNCHANGED vars
    BY <1>0, <1>1 DEF vars, enq_vars, deq_vars
  <1>2. CASE Wait
    BY <1>0, <1>2 DEF Wait, enq_vars
  <1>3. CASE Take
    BY <1>0, <1>3 DEF Take, enq_vars
  <1>4. CASE MoveTail
    BY <1>0, <1>4 DEF MoveTail, enq_vars, Values
  <1>5. CASE Clear
    BY <1>0, <1>5 DEF Clear, enq_vars
  <1>6. CASE Call(e)
    BY <1>0, <1>6 DEF Call, deq_vars
  <1>7. CASE LoadHead(e)
    BY <1>0, <1>7 DEF LoadHead, deq_vars
  <1>8. CASE CheckSlot(e)
    BY <1>0, <1>8 DEF CheckSlot, deq_vars
  <1>9. CASE Claim(e)
    BY <1>0, <1>9 DEF Claim, deq_vars
  <1>10. CASE Store(e)
    BY <1>0, <1>10 DEF Store, deq_vars
  <1>. QED  BY <1>1, <1>2, <1>3, <1>4, <1>5, <1>6, <1>7, <1>8, <1>9, <1>10
            DEF Next, OneEnqueuer, Enq, Deq

\* Winning the head puts the item in, moving the tail takes the oldest out, and
\* the other steps leave every slot with its occupant.
LEMMA StepOfQueue ==
  ASSUME OneEnqueuer, CInv, [Next]_vars
  PROVE  Kept \/ Won \/ Moved
  <1>0. Types /\ EnqInv /\ DeqInv /\ e \in Enqueuers /\ NULL \notin Items
    BY CircBufAssumption DEF CInv, OneEnqueuer
  <1>1. CASE UNCHANGED vars
    <2>1. \A i \in Slots : Occupant(i)' = Occupant(i)
      BY <1>1 DEF Occupant, vars, enq_vars, deq_vars
    <2>. QED  BY <1>1, <2>1, HeldKept DEF Kept, vars
  <1>2. CASE Wait
    <2>1. \A i \in Slots : Occupant(i)' = Occupant(i)
      BY <1>0, <1>2, OccupantIs, OccupantBecomes DEF Wait, enq_vars
    <2>. QED  BY <1>2, <2>1, HeldKept DEF Kept, Wait
  <1>3. CASE Take
    <2>1. \A i \in Slots : Occupant(i)' = Occupant(i)
      BY <1>0, <1>3, OccupantIs, OccupantBecomes DEF Take, enq_vars
    <2>. QED  BY <1>3, <2>1, HeldKept DEF Kept, Take
  <1>4. CASE MoveTail
    <2>0. PICK s \in Slots : s = tail
      BY <1>0 DEF Types
    <2>1. Occupant(s)' = NULL
      BY <2>0, <1>0, <1>4, OccupantBecomes DEF MoveTail, Types
    <2>2. \A i \in Slots \ {s} : Occupant(i)' = Occupant(i)
      BY <2>0, <1>0, <1>4, OccupantIs, OccupantBecomes DEF MoveTail, enq_vars
    <2>3. Occupant(s) # NULL
      BY <2>0, <1>0, <1>4, OccupantIs DEF MoveTail, Types, EnqInv, DeqInv
    <2>4. Held' = [Held EXCEPT ![s] = NULL] /\ Held[s] # NULL
      BY <2>1, <2>2, <2>3, HeldUpdated DEF Held
    <2>. QED  BY <1>4, <2>0, <2>4 DEF Moved, MoveTail
  <1>5. CASE Clear
    <2>1. \A i \in Slots : Occupant(i)' = Occupant(i)
      <3> SUFFICES ASSUME NEW i \in Slots PROVE Occupant(i)' = Occupant(i)
        OBVIOUS
      <3>1. buf'[i] = IF i = old THEN NULL ELSE buf[i]
        BY <1>0, <1>5 DEF Clear, Types
      <3>2. d_pc = "clear" /\ d_pc' = "wait" /\ pc' = pc /\ icur' = icur /\ item' = item
        BY <1>5 DEF Clear, enq_vars
      <3>3. ~ (pc[e] = "store" /\ icur[e] = old)
        BY <1>0, <3>2 DEF EnqInv, DeqInv
      <3>. QED  BY <3>1, <3>2, <3>3, OccupantIs, OccupantBecomes
    <2>. QED  BY <1>5, <2>1, HeldKept DEF Kept, Clear
  <1>6. CASE Call(e)
    <2>1. \A i \in Slots : Occupant(i)' = Occupant(i)
      BY <1>0, <1>6, OccupantIs, OccupantBecomes DEF Call, deq_vars, Types
    <2>. QED  BY <1>6, <2>1, HeldKept DEF Kept, Call
  <1>7. CASE LoadHead(e)
    <2>1. \A i \in Slots : Occupant(i)' = Occupant(i)
      BY <1>0, <1>7, OccupantIs, OccupantBecomes DEF LoadHead, deq_vars, Types
    <2>. QED  BY <1>7, <2>1, HeldKept DEF Kept, LoadHead
  <1>8. CASE CheckSlot(e)
    <2>1. \A i \in Slots : Occupant(i)' = Occupant(i)
      BY <1>0, <1>8, OccupantIs, OccupantBecomes DEF CheckSlot, deq_vars, Types
    <2>. QED  BY <1>8, <2>1, HeldKept DEF Kept, CheckSlot
  <1>9. CASE Claim(e)
    <2>1. pc[e] = "cas" /\ icur[e] = head /\ buf[head] = NULL
      BY <1>0, <1>9 DEF Claim, EnqInv
    <2>2. /\ head' = Next1(head) /\ pc'[e] = "store" /\ tail' = tail
          /\ icur' = icur /\ item' = item /\ buf' = buf /\ d_pc' = d_pc /\ old' = old
      BY <1>0, <1>9, <2>1 DEF Claim, deq_vars, Types
    <2>3. ~ (d_pc = "clear" /\ old = head)
      BY <1>0, <2>1 DEF DeqInv
    <2>a. PICK s \in Slots : s = head
      BY <1>0 DEF Types
    <2>4. Occupant(s) = NULL /\ Occupant(s)' = item[e]
      BY <2>a, <1>0, <2>1, <2>2, <2>3, OccupantIs, OccupantBecomes DEF Types
    <2>5. \A i \in Slots \ {s} : Occupant(i)' = Occupant(i)
      BY <2>a, <2>1, <2>2, OccupantIs, OccupantBecomes
    <2>6. Held' = [Held EXCEPT ![s] = item[e]] /\ Held[s] = NULL
      BY <2>4, <2>5, HeldUpdated DEF Held
    <2>7. item[e] \in Items
      BY <1>0, <2>1 DEF EnqInv
    <2>. QED  BY <2>a, <2>2, <2>6, <2>7 DEF Won
  <1>10. CASE Store(e)
    <2>1. \A i \in Slots : Occupant(i)' = Occupant(i)
      <3> SUFFICES ASSUME NEW i \in Slots PROVE Occupant(i)' = Occupant(i)
        OBVIOUS
      <3>1. buf'[i] = IF i = icur[e] THEN item[e] ELSE buf[i]
        BY <1>0, <1>10 DEF Store, Types
      <3>2. pc[e] = "store" /\ pc'[e] = "idle" /\ d_pc' = d_pc /\ old' = old
        BY <1>0, <1>10 DEF Store, deq_vars, Types
      <3>. QED  BY <3>1, <3>2, OccupantIs, OccupantBecomes
    <2>. QED  BY <1>10, <2>1, HeldKept DEF Kept, Store
  <1>. QED  BY <1>1, <1>2, <1>3, <1>4, <1>5, <1>6, <1>7, <1>8, <1>9, <1>10
            DEF Next, OneEnqueuer, Enq, Deq

-----------------------------------------------------------------------------
LEMMA StepInv ==
  ASSUME OneEnqueuer, CInv, [Next]_vars
  PROVE  CInv' /\ [Queue!Get \/ \E p \in Items : Queue!Put(p)]_Contents
  <1>1. Types' /\ EnqInv' /\ DeqInv'
    BY TypesStep, ThreadsStep
  <1>2. CASE Kept
    BY <1>1, <1>2, KeptStep DEF CInv
  <1>3. CASE Won
    <2>1. item[e] \in Items
      BY <1>3 DEF Won
    <2>. QED  BY <1>1, <1>3, <2>1, WonStep DEF CInv
  <1>4. CASE Moved
    BY <1>1, <1>4, MovedStep DEF CInv
  <1>. QED  BY <1>2, <1>3, <1>4, StepOfQueue

(* ImplementsFifo: with one enqueuer, whatever Capacity and however enq and *)
(* deq interleave, items leave once each in the order they entered (Put and *)
(* Get are the compare-and-swap of enq and the increment of tail_ in deq).  *)
THEOREM RingImplementsFifo == OneEnqueuer => (Spec => ImplementsFifo)
  <1>. SUFFICES ASSUME OneEnqueuer
                PROVE  Spec => ImplementsFifo
    OBVIOUS
  <1>1. Init => CInv /\ Queue!FifoInit
    BY InitInv DEF Queue!FifoInit
  <1>2. CInv /\ [Next]_vars => CInv' /\ [Queue!Get \/ \E p \in Items : Queue!Put(p)]_Contents
    BY StepInv
  <1>. QED  BY <1>1, <1>2, PTL DEF Spec, ImplementsFifo, Queue!FifoSpec
=============================================================================
