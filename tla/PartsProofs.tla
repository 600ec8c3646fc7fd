----------------------------- MODULE PartsProofs -----------------------------
(***************************************************************************)
(* Proofs about the parts of dbgen below the rows, the rows themselves and  *)
(* qgen, for all values of the constants: any files of distributions, any   *)
(* grammar that fits its buffer, any prime modulus, any command lines, any  *)
(* number of suppliers, parts and customers, and any draws.                 *)
(***************************************************************************)
EXTENDS Parts, FiniteSetTheorems, SequenceTheorems, WellFoundedInduction, TLAPS

(* A set of natural numbers has a least one.                                *)
LEMMA LeastNumber ==
  ASSUME NEW T, T \subseteq Nat, T # {}
  PROVE  \E x \in T : \A y \in T : x <= y
  <1>1. PICK x \in T : \A y \in T : ~ (<<y, x>> \in OpToRel(<, Nat))
    BY NatLessThanWellFounded, WFMin
  <1>2. \A y \in T : ~ (y < x)
    BY <1>1, <<x, x>>[1] = x DEF OpToRel
  <1>3. QED
    BY <1>2

-----------------------------------------------------------------------------
(* The suppliers of a part *)

\* At scale 1 there are 10000 suppliers and 20 parts for each: 57 < 2500. It fails
\* only for scales under 0.0232.
EnoughSuppliers ==
  3 * ((PartCount - 1) \div tot_scnt) < tot_scnt \div SUPP_PER_PART

(* Numbers that are less than m apart leave different remainders.           *)
LEMMA SameRemainder ==
  ASSUME NEW a \in Nat, NEW d \in Nat, NEW m \in Nat \ {0}, 0 < d, d < m
  PROVE  (a + d) % m # a % m
  <1> SUFFICES ASSUME (a + d) % m = a % m PROVE FALSE
    OBVIOUS
  <1>1. PICK q \in Int : a = (m * q) + (a % m)
    <2>1. a \div m \in Int /\ a = (m * (a \div m)) + (a % m)
      BY SMT
    <2>2. QED
      BY <2>1
  <1>2. PICK r \in Int : a + d = (m * r) + (a % m)
    <2>1. (a + d) \div m \in Int /\ a + d = (m * ((a + d) \div m)) + ((a + d) % m)
      BY SMT
    <2>2. QED
      BY <2>1
  <1>3. a % m \in Int
    BY SMT
  <1>4. d = m * (r - q)
    BY <1>1, <1>2, <1>3
  <1>5. PICK e \in Int : d = m * e
    BY <1>4
  <1>6. QED
    BY <1>5

(* The quotient grows with the number.                                      *)
LEMMA QuotientGrows ==
  ASSUME NEW a \in Nat, NEW b \in Nat, NEW m \in Nat \ {0}, a <= b
  PROVE  a \div m \in Nat /\ b \div m \in Nat /\ a \div m <= b \div m
  <1>1. PICK q \in Nat : q = a \div m /\ q * m <= a
    <2>1. a \div m \in Nat /\ a = (m * (a \div m)) + (a % m) /\ a % m \in Nat
      BY SMT
    <2>2. QED
      BY <2>1
  <1>2. PICK r \in Nat : r = b \div m /\ b < (r + 1) * m
    <2>1. b \div m \in Nat /\ b = (m * (b \div m)) + (b % m) /\ b % m \in 0..(m - 1)
      BY SMT
    <2>2. QED
      BY <2>1
  <1>3. q * m < (r + 1) * m
    BY <1>1, <1>2
  <1>4. q < r + 1
    <2> SUFFICES ASSUME r + 1 <= q PROVE FALSE
      OBVIOUS
    <2>1. PICK x \in Nat : q = r + 1 + x
      <3>1. q - (r + 1) \in Nat
        OBVIOUS
      <3>2. QED
        BY <3>1
    <2>2. q * m = ((r + 1) * m) + (x * m) /\ x * m \in Nat
      BY <2>1
    <2>3. QED
      BY <1>3, <2>2
  <1>5. QED
    BY <1>1, <1>2, <1>4

(* The four suppliers of a part exist and differ.                           *)
LEMMA BridgeSpreads ==
  ASSUME EnoughSuppliers, NEW p \in 1..PartCount
  PROVE  /\ \A s \in 0..3 : PART_SUPP_BRIDGE(p, s) \in 1..tot_scnt
         /\ \A s, t \in 0..3 : s # t => PART_SUPP_BRIDGE(p, s) # PART_SUPP_BRIDGE(p, t)
  <1>0. tot_scnt \in Nat \ {0} /\ PartCount \in Nat
    BY RowsAssumption
  <1>1. PICK o \in Nat : /\ o = (tot_scnt \div 4) + ((p - 1) \div tot_scnt)
                         /\ 0 < o /\ 3 * o < tot_scnt
    <2>1. /\ (p - 1) \div tot_scnt \in Nat /\ (PartCount - 1) \div tot_scnt \in Nat
          /\ (p - 1) \div tot_scnt <= (PartCount - 1) \div tot_scnt
      <3>1. p - 1 \in Nat /\ PartCount - 1 \in Nat /\ p - 1 <= PartCount - 1
        BY <1>0
      <3>2. QED
        BY <1>0, <3>1, QuotientGrows
    <2>2. tot_scnt \div 4 \in Nat /\ 4 * (tot_scnt \div 4) <= tot_scnt
      <3>1. \A x \in Nat : x \div 4 \in Nat /\ 4 * (x \div 4) <= x
        OBVIOUS
      <3>2. QED
        BY <1>0, <3>1
    <2>3. 3 * ((PartCount - 1) \div tot_scnt) < tot_scnt \div 4
      BY DEF EnoughSuppliers, SUPP_PER_PART
    <2>4. PICK x \in Nat, q \in Nat : /\ x = (p - 1) \div tot_scnt /\ q = tot_scnt \div 4
                                     /\ 3 * x < q /\ 4 * q <= tot_scnt
      BY <2>1, <2>2, <2>3
    <2>5. q + x \in Nat /\ 0 < q + x /\ 3 * (q + x) < tot_scnt
      BY <1>0, <2>4
    <2>6. QED
      BY <2>4, <2>5
  <1>2. \A s \in 0..3 : PART_SUPP_BRIDGE(p, s) = ((p + s * o) % tot_scnt) + 1
    BY <1>1 DEF PART_SUPP_BRIDGE, SUPP_PER_PART
  <1>3. ASSUME NEW s \in 0..3 PROVE PART_SUPP_BRIDGE(p, s) \in 1..tot_scnt
    <2>1. PICK a \in Nat : a = p + s * o
      BY <1>0
    <2>2. a % tot_scnt \in 0..(tot_scnt - 1)
      BY <1>0
    <2>3. QED
      BY <1>0, <1>2, <2>1, <2>2
  <1>4. ASSUME NEW s \in 0..3, NEW t \in 0..3, s < t
        PROVE  (p + s * o) % tot_scnt # (p + t * o) % tot_scnt
    <2>1. PICK d \in Nat : t = s + d /\ d \in 1..3
      <3>1. t - s \in 1..3
        BY <1>4
      <3>2. QED
        BY <3>1
    <2>2. d * o \in Nat /\ 0 < d * o /\ d * o < tot_scnt
      <3>1. d = 1 \/ d = 2 \/ d = 3
        BY <2>1
      <3>2. QED
        BY <1>0, <1>1, <3>1
    <2>3. p + t * o = (p + s * o) + (d * o)
      BY <1>0, <2>1
    <2>4. p + s * o \in Nat
      BY <1>0
    <2>5. ((p + s * o) + (d * o)) % tot_scnt # (p + s * o) % tot_scnt
      BY <1>0, <2>2, <2>4, SameRemainder
    <2>6. QED
      BY <2>3, <2>5
  <1>5. ASSUME NEW s \in 0..3, NEW t \in 0..3, s # t
        PROVE  PART_SUPP_BRIDGE(p, s) # PART_SUPP_BRIDGE(p, t)
    <2>1. (p + s * o) % tot_scnt # (p + t * o) % tot_scnt
      <3>1. s < t \/ t < s
        BY <1>5
      <3>2. QED
        BY <1>4, <3>1
    <2>2. (p + s * o) % tot_scnt \in Int /\ (p + t * o) % tot_scnt \in Int
      <3>1. p + s * o \in Nat /\ p + t * o \in Nat
        BY <1>0
      <3>2. QED
        BY <1>0, <3>1
    <2>3. QED
      BY <1>2, <2>1, <2>2
  <1>6. QED
    BY <1>3, <1>5

PartInv ==
  \/ part.key = 0
  \/ /\ part.key \in 1..PartCount
     /\ part.supp = [s \in 1..SUPP_PER_PART |-> PART_SUPP_BRIDGE(part.key, s - 1)]

LEMMA PartInvGives == ASSUME EnoughSuppliers, PartInv PROVE FourSuppliers
  <1> SUFFICES ASSUME part.key > 0 PROVE FourSuppliers
    BY DEF FourSuppliers
  <1>1. /\ part.key \in 1..PartCount
        /\ part.supp = [s \in 1..4 |-> PART_SUPP_BRIDGE(part.key, s - 1)]
    BY DEF PartInv, SUPP_PER_PART
  <1>2. \A s \in 1..4 : part.supp[s] = PART_SUPP_BRIDGE(part.key, s - 1)
    BY <1>1
  <1>3. \A s \in 1..4 : s - 1 \in 0..3
    OBVIOUS
  <1>4. \A s, t \in 1..4 : s # t => s - 1 # t - 1
    OBVIOUS
  <1>5. /\ \A s \in 0..3 : PART_SUPP_BRIDGE(part.key, s) \in 1..tot_scnt
        /\ \A s, t \in 0..3 :
             s # t => PART_SUPP_BRIDGE(part.key, s) # PART_SUPP_BRIDGE(part.key, t)
    BY <1>1, BridgeSpreads
  <1>6. \A s \in 1..4 : part.supp[s] \in 1..tot_scnt
    BY <1>2, <1>3, <1>5
  <1>7. \A s, t \in 1..4 : s # t => part.supp[s] # part.supp[t]
    BY <1>2, <1>3, <1>4, <1>5
  <1>8. QED
    BY <1>6, <1>7 DEF FourSuppliers, SUPP_PER_PART

LEMMA PartInvHolds == Spec => []PartInv
  <1>1. Init => PartInv
    BY DEF Init, PartInv
  <1>2. PartInv /\ [Next]_rowsVars => PartInv'
    <2> SUFFICES ASSUME PartInv, [Next]_rowsVars PROVE PartInv'
      OBVIOUS
    <2>1. ASSUME UNCHANGED part PROVE PartInv'
      BY <2>1 DEF PartInv, PART_SUPP_BRIDGE
    <2>2. CASE mk_part
      <3>1. PICK p \in 1..PartCount :
               part' = [key |-> p,
                        supp |-> [s \in 1..SUPP_PER_PART |-> PART_SUPP_BRIDGE(p, s - 1)]]
        BY <2>2 DEF mk_part
      <3>2. part'.key = p
        BY <3>1
      <3>3. part'.supp = [s \in 1..SUPP_PER_PART |-> PART_SUPP_BRIDGE(p, s - 1)]
        BY <3>1
      <3>4. QED
        BY <3>2, <3>3 DEF PartInv, PART_SUPP_BRIDGE
    <2>3. CASE Forget
      BY <2>3 DEF Forget, PartInv
    <2>4. ASSUME ~mk_part, ~Forget PROVE UNCHANGED part
      BY <2>4 DEF Next, NeedDates, mk_ascdate, StartOrder, Survive, DrawOrder, Line, EndOrder,
                  mk_cust, a_rnd, EndAddress, mk_supp, rowsVars
    <2>5. QED
      BY <2>1, <2>2, <2>3, <2>4
  <1>3. QED
    BY <1>1, <1>2, PTL DEF Spec

(* Whatever the numbers of suppliers and parts, as long as there are enough *)
(* suppliers: PART_SUPP_BRIDGE names four different suppliers for each part *)
(* that mk_part makes, so that no two rows of PARTSUPP have the same key.   *)
THEOREM FourSuppliersHolds == ASSUME EnoughSuppliers PROVE Spec => []FourSuppliers
  <1>1. PartInv => FourSuppliers
    BY EnoughSuppliers, PartInvGives
  <1>2. QED
    BY <1>1, PartInvHolds, PTL

-----------------------------------------------------------------------------
(* The calendar *)

\* The days from the first of 1992 to the first of the year y.
Before(y) == 365 * (y - 92) + (y - 89) \div 4

LEMMA YearsAre ==
  /\ Years = 92..99 /\ STARTDATE \div 1000 = 92
  /\ \A y \in 92..99 : LEAP(y) = IF y \in {92, 96} THEN 1 ELSE 0
  BY DEF Years, STARTDATE, LEAP

LEMMA YearsFollow ==
  /\ Before(92) = 0 /\ \A y \in 92..99 : Before(y) \in Nat
  /\ \A y \in 93..99 : Before(y) = Before(y - 1) + 365 + LEAP(y - 1)
  <1>1. \A y \in 93..99 : LEAP(y - 1) = IF y \in {93, 97} THEN 1 ELSE 0
    BY YearsAre
  <1>2. Before(92) = 0 /\ \A y \in 92..99 : Before(y) \in Nat
    BY DEF Before
  <1>3. \A y \in 93..99 : Before(y) = Before(y - 1) + 365 + IF y \in {93, 97} THEN 1 ELSE 0
    BY DEF Before
  <1>4. QED
    BY <1>1, <1>2, <1>3

(* julian's offset in each year, when it begins with d.                     *)
LEMMA OffsetsAre ==
  ASSUME NEW d \in Int, NEW f,
         f = CHOOSE g : g = [y \in 92..99 |-> IF y = 92 THEN d ELSE g[y - 1] - (365 + LEAP(y - 1))]
  PROVE  \A y \in 92..99 : f[y] = d - Before(y)
  <1>1. PICK w : w = [y \in 92..99 |-> d - Before(y)]
    OBVIOUS
  <1>2. w = [y \in 92..99 |-> IF y = 92 THEN d ELSE w[y - 1] - (365 + LEAP(y - 1))]
    <2>1. ASSUME NEW y \in 92..99
          PROVE  d - Before(y) = IF y = 92 THEN d ELSE w[y - 1] - (365 + LEAP(y - 1))
      <3>1. CASE y = 92
        BY <3>1, YearsFollow
      <3>2. CASE y # 92
        <4>1. y \in 93..99 /\ y - 1 \in 92..99
          BY <3>2
        <4>2. Before(y) = Before(y - 1) + 365 + LEAP(y - 1) /\ Before(y - 1) \in Nat
              /\ LEAP(y - 1) \in Int
          BY <4>1, YearsFollow, YearsAre
        <4>3. QED
          BY <1>1, <3>2, <4>1, <4>2
      <3>3. QED
        BY <3>1, <3>2
    <2>2. QED
      BY <1>1, <2>1
  <1>3. f = [y \in 92..99 |-> IF y = 92 THEN d ELSE f[y - 1] - (365 + LEAP(y - 1))]
    BY <1>2
  <1>4. f[92] = d - Before(92)
    BY <1>3, YearsFollow
  <1>5. ASSUME NEW y \in 93..99, f[y - 1] = d - Before(y - 1) PROVE f[y] = d - Before(y)
    <2>1. f[y] = f[y - 1] - (365 + LEAP(y - 1))
      BY <1>3
    <2>2. y - 1 \in 92..99
      OBVIOUS
    <2>3. Before(y) = Before(y - 1) + 365 + LEAP(y - 1) /\ Before(y - 1) \in Nat
          /\ LEAP(y - 1) \in Int
      BY <2>2, YearsFollow, YearsAre
    <2>4. QED
      BY <1>5, <2>1, <2>3
  <1> DEFINE P(y) == f[y] = d - Before(y)
  <1>6. P(92) /\ \A y \in 93..99 : P(y - 1) => P(y)
    BY <1>4, <1>5
  <1> HIDE DEF P
  <1>7. P(93) /\ P(94) /\ P(95)
    BY <1>6
  <1>8. P(96) /\ P(97) /\ P(98) /\ P(99)
    BY <1>6, <1>7
  <1>9. \A y \in 92..99 : P(y)
    BY <1>6, <1>7, <1>8
  <1>10. QED
    BY <1>9 DEF P

(* The days that unjulian counts for the years before each.                 *)
LEMMA DaysAre ==
  ASSUME NEW f,
         f = CHOOSE g : g = [y \in 92..99 |-> IF y = 92 THEN 0 ELSE g[y - 1] + 365 + LEAP(y - 1)]
  PROVE  \A y \in 92..99 : f[y] = Before(y)
  <1>1. PICK w : w = [y \in 92..99 |-> Before(y)]
    OBVIOUS
  <1>2. w = [y \in 92..99 |-> IF y = 92 THEN 0 ELSE w[y - 1] + 365 + LEAP(y - 1)]
    <2>1. ASSUME NEW y \in 92..99
          PROVE  Before(y) = IF y = 92 THEN 0 ELSE w[y - 1] + 365 + LEAP(y - 1)
      <3>1. CASE y = 92
        BY <3>1, YearsFollow
      <3>2. CASE y # 92
        <4>1. y \in 93..99 /\ y - 1 \in 92..99
          BY <3>2
        <4>2. QED
          BY <1>1, <3>2, <4>1, YearsFollow
      <3>3. QED
        BY <3>1, <3>2
    <2>2. QED
      BY <1>1, <2>1
  <1>3. f = [y \in 92..99 |-> IF y = 92 THEN 0 ELSE f[y - 1] + 365 + LEAP(y - 1)]
    BY <1>2
  <1> DEFINE P(y) == f[y] = Before(y)
  <1>4. P(92) /\ \A y \in 93..99 : P(y - 1) => P(y)
    BY <1>3, YearsFollow
  <1> HIDE DEF P
  <1>5. P(93) /\ P(94) /\ P(95)
    BY <1>4
  <1>6. P(96) /\ P(97) /\ P(98) /\ P(99)
    BY <1>4, <1>5
  <1>7. \A y \in 92..99 : P(y)
    BY <1>4, <1>5, <1>6
  <1>8. QED
    BY <1>7 DEF P

\* The first year of S, from b on, whose days end behind what is left of d, and its date.
OffsetFrom(S, b, d) ==
  CHOOSE f : f = [y \in S |-> IF y = b THEN d ELSE f[y - 1] - (365 + LEAP(y - 1))]

FirstOf(S, f) ==
  CHOOSE y \in S : f[y] < 365 + LEAP(y) /\ \A x \in S : x < y => f[x] >= 365 + LEAP(x)

LEMMA JulianLoop ==
  ASSUME NEW x, NEW f, f = OffsetFrom(Years, STARTDATE \div 1000, x - STARTDATE)
  PROVE  julian(x) = FirstOf(Years, f) * 1000 + 1 + f[FirstOf(Years, f)]
  BY Zenon DEF julian, OffsetFrom, FirstOf

(* The date of the day e of the year y, counted from 0.                     *)
LEMMA JulianIs ==
  ASSUME NEW y \in 92..99, NEW e \in 0..365, e < 365 + LEAP(y)
  PROVE  julian(STARTDATE + Before(y) + e) = y * 1000 + 1 + e
  <1>1. PICK d \in Nat : d = Before(y) + e
    BY YearsFollow
  <1>2. PICK x : x = STARTDATE + Before(y) + e /\ x - STARTDATE = d
    BY <1>1, YearsFollow DEF STARTDATE
  <1>3. PICK f : f = OffsetFrom(Years, STARTDATE \div 1000, x - STARTDATE)
    OBVIOUS
  <1>4. \A z \in 92..99 : f[z] = d - Before(z)
    <2>1. f = OffsetFrom(92..99, 92, d)
      BY <1>2, <1>3, YearsAre
    <2>2. QED
      BY <2>1, OffsetsAre DEF OffsetFrom
  <1> DEFINE Last(z) == /\ f[z] < 365 + LEAP(z)
                        /\ \A r \in 92..99 : r < z => f[r] >= 365 + LEAP(r)
  <1>5. /\ julian(x) = FirstOf(92..99, f) * 1000 + 1 + f[FirstOf(92..99, f)]
        /\ FirstOf(92..99, f) = CHOOSE z \in 92..99 : Last(z)
    BY <1>3, JulianLoop, YearsAre DEF FirstOf
  <1>6. f[y] = e
    BY <1>1, <1>4, YearsFollow
  <1>7. ASSUME NEW r \in 92..99, r < y PROVE f[r] >= 365 + LEAP(r)
    <2>1. LEAP(r) = IF r \in {92, 96} THEN 1 ELSE 0
      BY YearsAre
    <2>2. f[r] = Before(y) + e - Before(r)
      <3>1. f[r] = d - Before(r) /\ Before(r) \in Nat /\ Before(y) \in Nat
        BY <1>4, YearsFollow
      <3>2. QED
        BY <3>1, <1>1
    <2>3. QED
      BY <1>7, <2>1, <2>2 DEF Before
  <1>8. Last(y)
    BY <1>6, <1>7
  <1>9. ASSUME NEW z \in 92..99, Last(z) PROVE z = y
    <2>1. ~(y < z)
      <3> SUFFICES ASSUME y < z PROVE FALSE
        OBVIOUS
      <3>1. f[y] >= 365 + LEAP(y)
        BY <1>9
      <3>2. LEAP(y) \in Int
        BY YearsAre
      <3>3. QED
        BY <1>6, <3>1, <3>2
    <2>2. ~(z < y)
      <3> SUFFICES ASSUME z < y PROVE FALSE
        OBVIOUS
      <3>1. f[z] >= 365 + LEAP(z) /\ f[z] < 365 + LEAP(z)
        BY <1>7, <1>9
      <3>2. LEAP(z) \in Int /\ f[z] \in Int
        BY YearsAre, <1>4, YearsFollow
      <3>3. QED
        BY <3>1, <3>2
    <2>3. QED
      BY <2>1, <2>2
  <1> HIDE DEF Last
  <1>10. (CHOOSE z \in 92..99 : Last(z)) = y
    BY <1>8, <1>9
  <1>11. PICK c : c = FirstOf(92..99, f) /\ julian(x) = c * 1000 + 1 + f[c]
    BY <1>5
  <1>12. c = y
    BY <1>5, <1>10, <1>11
  <1>13. QED
    BY <1>2, <1>6, <1>11, <1>12

(* The days of a year up to the end of its months.                          *)
MonthEnd(y, m) == dcnt(m) + LEAP_ADJ(y, m)

MonthsOf(y) ==
  /\ MonthEnd(y, 0) = 0 /\ MonthEnd(y, 12) = 365 + LEAP(y)
  /\ \A m \in 0..12 : MonthEnd(y, m) \in 0..366
  /\ \A m \in 1..12 : /\ MonthEnd(y, m) = MonthEnd(y, m - 1) + LastDay(y, m)
                       /\ LastDay(y, m) \in 28..31

LEMMA MonthsFollow ==
  ASSUME NEW y \in 92..99
  PROVE  MonthsOf(y)
  <1>1. LEAP(y) = IF y \in {92, 96} THEN 1 ELSE 0
    BY YearsAre
  <1>2. y % 4 = 0 <=> y \in {92, 96}
    OBVIOUS
  <1>3. PICK a \in {0, 1} : LEAP(y) = a /\ (y % 4 = 0 <=> a = 1)
    BY <1>1, <1>2
  <1>4. \A m \in 0..12 : MonthEnd(y, m) = dcnt(m) + IF a = 1 /\ m >= 2 THEN 1 ELSE 0
    BY <1>3 DEF MonthEnd, LEAP_ADJ
  <1>5. /\ dcnt(0) = 0 /\ dcnt(1) = 31 /\ dcnt(2) = 59 /\ dcnt(3) = 90 /\ dcnt(4) = 120
        /\ dcnt(5) = 151 /\ dcnt(6) = 181 /\ dcnt(7) = 212 /\ dcnt(8) = 243 /\ dcnt(9) = 273
        /\ dcnt(10) = 304 /\ dcnt(11) = 334 /\ dcnt(12) = 365
    BY DEF dcnt, Days
  <1>6. \A m \in 0..12 : MonthEnd(y, m) \in 0..366
    <2> SUFFICES ASSUME NEW m \in 0..12 PROVE MonthEnd(y, m) \in 0..366
      OBVIOUS
    <2>1. dcnt(m) \in 0..365
      BY <1>5
    <2>2. QED
      BY <2>1, <1>4
  <1>7. ASSUME NEW m \in 1..12
        PROVE  MonthEnd(y, m) = MonthEnd(y, m - 1) + LastDay(y, m) /\ LastDay(y, m) \in 28..31
    <2>1. LastDay(y, m) = IF m \in {4, 6, 9, 11} THEN 30 ELSE IF m = 2 THEN 28 + a ELSE 31
      BY <1>3 DEF LastDay
    <2>2. m \in 0..12 /\ m - 1 \in 0..12
      OBVIOUS
    <2>3. /\ MonthEnd(y, m) = dcnt(m) + IF a = 1 /\ m >= 2 THEN 1 ELSE 0
          /\ MonthEnd(y, m - 1) = dcnt(m - 1) + IF a = 1 /\ m - 1 >= 2 THEN 1 ELSE 0
      BY <2>2, <1>4
    <2>4. PICK g : g = [x \in 0..12 |-> dcnt(x)]
      OBVIOUS
    <2>5. /\ g[m] = dcnt(m) /\ g[m - 1] = dcnt(m - 1) /\ g[0] = 0 /\ g[1] = 31 /\ g[2] = 59
          /\ g[3] = 90 /\ g[4] = 120 /\ g[5] = 151 /\ g[6] = 181 /\ g[7] = 212 /\ g[8] = 243
          /\ g[9] = 273 /\ g[10] = 304 /\ g[11] = 334 /\ g[12] = 365
      BY <2>4, <1>5
    <2>6. g[m] = g[m - 1] + IF m \in {4, 6, 9, 11} THEN 30 ELSE IF m = 2 THEN 28 ELSE 31
      BY <2>5
    <2>7. g[m - 1] \in Int
      BY <2>5
    <2>8. QED
      BY <2>1, <2>3, <2>5, <2>6, <2>7
  <1>8. MonthEnd(y, 0) = 0 /\ MonthEnd(y, 12) = 365 + LEAP(y)
    BY <1>3, <1>4, <1>5
  <1>9. QED
    BY <1>6, <1>7, <1>8 DEF MonthsOf

YearSpan(y) == MonthEnd(y, 0) = 0 /\ MonthEnd(y, 12) = 365 + LEAP(y) /\ LEAP(y) \in {0, 1}

LEMMA YearEnds == ASSUME NEW y \in 92..99 PROVE YearSpan(y)
  <1>1. MonthsOf(y)
    BY MonthsFollow
  <1>2. LEAP(y) \in {0, 1}
    BY YearsAre
  <1>3. QED
    BY <1>1, <1>2 DEF MonthsOf, YearSpan

\* The month m ends c days after the month before.
MonthSpan(y, m, a, b, c) ==
  /\ a = MonthEnd(y, m - 1) /\ b = MonthEnd(y, m) /\ c = LastDay(y, m)
  /\ a \in Nat /\ b \in Nat /\ c \in 28..31 /\ b = a + c

LEMMA MonthEndNext ==
  ASSUME NEW y \in 92..99, NEW m \in 1..12
  PROVE  \E a, b, c : MonthSpan(y, m, a, b, c)
  <1>1. MonthsOf(y)
    BY MonthsFollow
  <1>2. m \in 0..12 /\ m - 1 \in 0..12
    OBVIOUS
  <1>3. PICK a, b, c : a = MonthEnd(y, m - 1) /\ b = MonthEnd(y, m) /\ c = LastDay(y, m)
    OBVIOUS
  <1>4. a \in Nat /\ b \in Nat /\ c \in 28..31 /\ b = a + c
    BY <1>1, <1>2, <1>3 DEF MonthsOf
  <1>5. QED
    BY <1>3, <1>4 DEF MonthSpan

IsDays(b) == b \in 0..366

LEMMA MonthEndBounds == ASSUME NEW y \in 92..99, NEW m \in 0..12 PROVE IsDays(MonthEnd(y, m))
  <1>1. MonthsOf(y)
    BY MonthsFollow
  <1>2. QED
    BY <1>1 DEF MonthsOf, IsDays

LEMMA MonthEndsGrow ==
  ASSUME NEW y \in 92..99, NEW m \in 0..12, NEW r \in 0..12, m < r
  PROVE  MonthEnd(y, m) < MonthEnd(y, r)
  <1> DEFINE P(x) == m < x /\ x <= 12 => MonthEnd(y, m) < MonthEnd(y, x)
  <1>1. P(0)
    OBVIOUS
  <1>2. ASSUME NEW x \in 1..12, P(x - 1) PROVE P(x)
    <2> SUFFICES ASSUME m < x PROVE MonthEnd(y, m) < MonthEnd(y, x)
      OBVIOUS
    <2>1. PICK o \in Int, a \in Int, b \in Int :
            /\ o = MonthEnd(y, m) /\ a = MonthEnd(y, x - 1) /\ b = MonthEnd(y, x) /\ a < b
      <3>1. PICK a, b, c : MonthSpan(y, x, a, b, c)
        BY MonthEndNext
      <3>2. IsDays(MonthEnd(y, m))
        BY MonthEndBounds
      <3>3. QED
        BY <3>1, <3>2 DEF MonthSpan, IsDays
    <2>2. CASE m = x - 1
      BY <2>1, <2>2
    <2>3. CASE m < x - 1
      BY <1>2, <2>1, <2>3
    <2>4. QED
      BY <2>2, <2>3
  <1> HIDE DEF P
  <1>3. P(1) /\ P(2) /\ P(3) /\ P(4)
    BY <1>1, <1>2
  <1>4. P(5) /\ P(6) /\ P(7) /\ P(8)
    BY <1>2, <1>3
  <1>5. P(9) /\ P(10) /\ P(11) /\ P(12)
    BY <1>2, <1>4
  <1>6. P(r)
    BY <1>1, <1>3, <1>4, <1>5
  <1>7. QED
    BY <1>6 DEF P

\* The day e of the year y, counted from 0, is in the month m.
InMonth(y, m, e) == MonthEnd(y, m - 1) <= e /\ e < MonthEnd(y, m)

LEMMA MonthOfDay ==
  ASSUME NEW y \in 92..99, NEW m \in 1..12, NEW e \in Nat, InMonth(y, m, e)
  PROVE  MonthOf(y, e + 1) = m
  <1> DEFINE First(x) == /\ e + 1 <= MonthEnd(y, x)
                         /\ \A r \in 1..(x - 1) : e + 1 > MonthEnd(y, r)
  <1>1. MonthOf(y, e + 1) = CHOOSE x \in 1..12 : First(x)
    BY DEF MonthOf, MonthEnd
  <1>2. \A x \in 0..12 : MonthEnd(y, x) \in Nat
    <2> TAKE x \in 0..12
    <2>1. IsDays(MonthEnd(y, x))
      BY MonthEndBounds
    <2> QED
      BY <2>1 DEF IsDays
  <1>3. e < MonthEnd(y, m) /\ MonthEnd(y, m - 1) <= e
    BY DEF InMonth
  <1>4. ASSUME NEW r \in 1..(m - 1) PROVE e + 1 > MonthEnd(y, r)
    <2>1. r \in 0..12 /\ m - 1 \in 0..12 /\ (r = m - 1 \/ r < m - 1)
      OBVIOUS
    <2>2. MonthEnd(y, r) <= MonthEnd(y, m - 1)
      BY <2>1, <1>2, MonthEndsGrow
    <2>3. QED
      BY <2>1, <2>2, <1>2, <1>3
  <1>5. First(m)
    BY <1>2, <1>3, <1>4
  <1>6. ASSUME NEW x \in 1..12, First(x) PROVE x = m
    <2>1. ~(m < x)
      <3> SUFFICES ASSUME m < x PROVE FALSE
        OBVIOUS
      <3>1. m \in 1..(x - 1)
        OBVIOUS
      <3>2. e + 1 > MonthEnd(y, m)
        BY <1>6, <3>1
      <3>3. QED
        BY <3>2, <1>2, <1>3
    <2>2. ~(x < m)
      <3> SUFFICES ASSUME x < m PROVE FALSE
        OBVIOUS
      <3>1. x \in 1..(m - 1)
        OBVIOUS
      <3>2. e + 1 > MonthEnd(y, x) /\ e + 1 <= MonthEnd(y, x)
        BY <1>4, <1>6, <3>1
      <3>3. QED
        BY <3>2, <1>2
    <2>3. QED
      BY <2>1, <2>2
  <1> HIDE DEF First
  <1>7. QED
    BY <1>1, <1>5, <1>6

(* What the table has for a day of a year.                                  *)
DateFrom(y, d, m) ==
  [year |-> y, month |-> m, day |-> d - dcnt(m - 1) - (IF LEAP(y) = 1 /\ m > 2 THEN 1 ELSE 0)]
FromJulian(j) == DateFrom(j \div 1000, j % 1000, MonthOf(j \div 1000, j % 1000))
IsDate(d, y, m, c) == mk_time(d) = [year |-> y, month |-> m, day |-> c]

LEMMA DateIs ==
  ASSUME NEW y \in 92..99, NEW m \in 1..12, NEW e \in Nat, InMonth(y, m, e),
         NEW d, d = Before(y) + e + 1, NEW c, c = e + 1 - MonthEnd(y, m - 1)
  PROVE  IsDate(d, y, m, c)
  <1>1. e < 365 + LEAP(y) /\ e \in 0..365
    <2>1. m = 12 \/ m < 12
      OBVIOUS
    <2>0. IsDays(MonthEnd(y, m)) /\ IsDays(MonthEnd(y, 12)) /\ YearSpan(y)
      BY MonthEndBounds, YearEnds, 12 \in 0..12, m \in 0..12
    <2>2. MonthEnd(y, m) <= MonthEnd(y, 12)
      <3>1. CASE m = 12
        BY <3>1, <2>0 DEF IsDays
      <3>2. CASE m < 12
        <4>1. MonthEnd(y, m) < MonthEnd(y, 12)
          BY <3>2, MonthEndsGrow, 12 \in 0..12, m \in 0..12
        <4>2. PICK p, q : p = MonthEnd(y, m) /\ q = MonthEnd(y, 12)
          OBVIOUS
        <4>3. p \in Int /\ q \in Int /\ p < q
          BY <2>0, <4>1, <4>2 DEF IsDays
        <4>4. p <= q
          BY <4>3
        <4>5. QED
          BY <4>2, <4>4
      <3>3. QED
        BY <2>1, <3>1, <3>2
    <2>3. MonthEnd(y, m) \in 0..366 /\ LEAP(y) \in {0, 1} /\ MonthEnd(y, 12) = 365 + LEAP(y)
      BY <2>0 DEF IsDays, YearSpan
    <2>4. QED
      BY <2>2, <2>3 DEF InMonth
  <1>2. PICK j : j = julian(d + STARTDATE - 1)
    OBVIOUS
  <1>3. j = y * 1000 + 1 + e
    <2>1. d + STARTDATE - 1 = STARTDATE + Before(y) + e
      BY YearsFollow DEF STARTDATE
    <2>2. QED
      BY <1>1, <1>2, <2>1, JulianIs
  <1>4. j \div 1000 = y /\ j % 1000 = e + 1
    BY <1>1, <1>3
  <1>5. MonthOf(y, e + 1) = m
    BY MonthOfDay
  <1>6. PICK a \in {0, 1}, b \in Int : /\ a = IF LEAP(y) = 1 /\ m > 2 THEN 1 ELSE 0
                                       /\ b = dcnt(m - 1)
    BY DEF dcnt, Days
  <1>7. MonthEnd(y, m - 1) = b + a
    BY <1>6 DEF MonthEnd, LEAP_ADJ
  <1>8. c = e + 1 - b - a
    BY <1>6, <1>7
  <1>9. mk_time(d) = [year |-> y, month |-> m, day |-> e + 1 - b - a]
    <2>1. mk_time(d) = FromJulian(j)
      <3>1. mk_time(d) = FromJulian(julian(d + STARTDATE - 1))
        BY DEF mk_time, FromJulian, DateFrom
      <3>2. QED
        BY ONLY <3>1, <1>2
    <2>2. FromJulian(j) = DateFrom(y, e + 1, MonthOf(y, e + 1))
      BY <1>4 DEF FromJulian
    <2>3. mk_time(d) = DateFrom(y, e + 1, m)
      BY <1>5, <2>1, <2>2
    <2>4. QED
      BY <1>6, <2>3 DEF DateFrom
  <1>10. QED
    BY <1>8, <1>9 DEF IsDate

(* Each day is in a month of its year, and each of the table in a year.     *)
LEMMA DayHasMonth ==
  ASSUME NEW y \in 92..99, NEW e \in Nat, e < 365 + LEAP(y)
  PROVE  \E m \in 1..12 : InMonth(y, m, e)
  <1> SUFFICES ASSUME \A m \in 1..12 : ~InMonth(y, m, e) PROVE FALSE
    OBVIOUS
  <1> DEFINE P(m) == MonthEnd(y, m) <= e
  <1>0. YearSpan(y)
    BY YearEnds
  <1>1. P(0)
    BY <1>0 DEF YearSpan
  <1>2. ASSUME NEW m \in 1..12, P(m - 1) PROVE P(m)
    <2>1. ~(e < MonthEnd(y, m))
      BY <1>2 DEF InMonth
    <2>2. IsDays(MonthEnd(y, m))
      BY MonthEndBounds, m \in 0..12
    <2>3. QED
      BY <2>1, <2>2 DEF IsDays
  <1> HIDE DEF P
  <1>3. P(1) /\ P(2) /\ P(3) /\ P(4)
    BY <1>1, <1>2
  <1>4. P(5) /\ P(6) /\ P(7) /\ P(8)
    BY <1>2, <1>3
  <1>5. P(9) /\ P(10) /\ P(11) /\ P(12)
    BY <1>2, <1>4
  <1>6. QED
    BY <1>0, <1>5 DEF P, YearSpan

LEMMA DayHasYear ==
  ASSUME NEW d \in 0..(TOTDATE - 1)
  PROVE  \E y \in 92..98 : \E e \in 0..365 : e < 365 + LEAP(y) /\ d = Before(y) + e
  <1>1. d \in 0..2556
    BY DEF TOTDATE
  <1>2. ASSUME NEW y \in 92..98, Before(y) <= d, d < Before(y) + 365 + LEAP(y)
        PROVE  \E e \in 0..365 : e < 365 + LEAP(y) /\ d = Before(y) + e
    <2>1. Before(y) \in Nat /\ LEAP(y) \in {0, 1}
      BY YearsFollow, YearsAre
    <2>2. PICK e \in Int : e = d - Before(y)
      BY <1>1, <2>1
    <2>3. e \in 0..365 /\ e < 365 + LEAP(y) /\ d = Before(y) + e
      BY <1>1, <1>2, <2>1, <2>2
    <2>4. QED
      BY <2>3
  <1>3. \E y \in 92..98 : Before(y) <= d /\ d < Before(y) + 365 + LEAP(y)
    <2>1. /\ Before(92) = 0 /\ Before(93) = 366 /\ Before(94) = 731 /\ Before(95) = 1096
          /\ Before(96) = 1461 /\ Before(97) = 1827 /\ Before(98) = 2192
      BY DEF Before
    <2>2. /\ LEAP(92) = 1 /\ LEAP(93) = 0 /\ LEAP(94) = 0 /\ LEAP(95) = 0 /\ LEAP(96) = 1
          /\ LEAP(97) = 0 /\ LEAP(98) = 0
      BY YearsAre
    <2>3. QED
      BY <1>1, <2>1, <2>2
  <1>4. QED
    BY <1>2, <1>3

(* Julian dates grow with the days as far as CURRENTDATE is concerned.      *)
CurrentDay == 1263

LEMMA CurrentIsDay ==
  \A d \in 0..(TOTDATE - 1) : julian(STARTDATE + d) <= CURRENTDATE <=> d <= CurrentDay
  <1> SUFFICES ASSUME NEW d \in 0..(TOTDATE - 1)
               PROVE  julian(STARTDATE + d) <= CURRENTDATE <=> d <= CurrentDay
    OBVIOUS
  <1>1. PICK y \in 92..98, e \in 0..365 : e < 365 + LEAP(y) /\ d = Before(y) + e
    BY DayHasYear
  <1>2. julian(STARTDATE + d) = y * 1000 + 1 + e
    <2>1. STARTDATE + d = STARTDATE + Before(y) + e
      BY <1>1, YearsFollow DEF STARTDATE
    <2>2. QED
      BY <1>1, <2>1, JulianIs
  <1>3. LEAP(y) = IF y \in {92, 96} THEN 1 ELSE 0
    BY YearsAre
  <1>4. QED
    BY <1>1, <1>2, <1>3 DEF Before, CURRENTDATE, CurrentDay

(* The entry of a day of the table follows that of the day before.          *)
LEMMA DatesFollow ==
  ASSUME NEW d \in 1..(TOTDATE - 1)
  PROVE  mk_time(d + 1) = DayAfter(mk_time(d))
  <1>1. d - 1 \in 0..(TOTDATE - 1) /\ d \in Nat
    <2>1. PICK o \in Nat : o = TOTDATE - 1
      BY DEF TOTDATE
    <2>2. d \in 1..o
      BY <2>1
    <2>3. d - 1 \in 0..o /\ d \in Nat
      BY ONLY <2>2, o \in Nat
    <2>4. QED
      BY <2>1, <2>3
  <1>2. PICK y \in 92..98, e \in 0..365 : e < 365 + LEAP(y) /\ d - 1 = Before(y) + e
    BY <1>1, DayHasYear
  <1>3. PICK m \in 1..12 : InMonth(y, m, e)
    BY <1>2, DayHasMonth
  <1>4. Before(y) \in Nat /\ Before(y) + e + 1 = d
    BY <1>1, <1>2, YearsFollow
  <1>5. PICK a \in Int, b \in Int, c \in Int :
          /\ a = MonthEnd(y, m - 1) /\ b = MonthEnd(y, m) /\ c = LastDay(y, m) /\ b = a + c
    <2>1. PICK a, b, c : MonthSpan(y, m, a, b, c)
      BY MonthEndNext
    <2>2. QED
      BY <2>1 DEF MonthSpan
  <1>6. a <= e /\ e < b
    BY <1>3, <1>5 DEF InMonth
  <1>7. PICK t \in Int : t = e + 1 - a
    OBVIOUS
  <1>8. PICK o : o = mk_time(d)
    OBVIOUS
  <1>9. o = [year |-> y, month |-> m, day |-> t]
    <2>1. y \in 92..99 /\ e \in Nat /\ d = Before(y) + e + 1 /\ t = e + 1 - MonthEnd(y, m - 1)
      BY <1>4, <1>5, <1>7
    <2>2. IsDate(d, y, m, t)
      BY <2>1, <1>3, DateIs
    <2>3. QED
      BY <1>8, <2>2 DEF IsDate
  <1>10. CASE e + 1 < b
    <2>1. InMonth(y, m, e + 1)
      BY <1>5, <1>6, <1>10 DEF InMonth
    <2>2. d + 1 = Before(y) + (e + 1) + 1 /\ t + 1 = (e + 1) + 1 - a
      BY <1>4, <1>7
    <2>3. IsDate(d + 1, y, m, t + 1)
      BY <2>1, <2>2, <1>5, DateIs, e + 1 \in Nat, y \in 92..99
    <2>4. t < c
      BY <1>5, <1>7, <1>10
    <2>5. QED
      BY <1>5, <1>8, <1>9, <2>3, <2>4 DEF DayAfter, IsDate
  <1>11. CASE e + 1 = b
    <2>1. ~(t < c)
      BY <1>5, <1>7, <1>11
    <2>2. CASE m < 12
      <3>1. PICK r \in 1..12 : r = m + 1 /\ r - 1 = m
        BY <2>2
      <3>2. PICK p, g, q : MonthSpan(y, r, p, g, q)
        BY MonthEndNext, y \in 92..99
      <3>3. p = b /\ g \in Int /\ b < g /\ MonthEnd(y, r - 1) = b /\ MonthEnd(y, r) = g
        <4>1. MonthEnd(y, r - 1) = MonthEnd(y, m)
          BY ONLY <3>1
        <4>2. QED
          BY ONLY <4>1, <3>2, <1>5 DEF MonthSpan
      <3>4. InMonth(y, r, e + 1)
        BY <1>11, <3>3 DEF InMonth
      <3>5. d + 1 = Before(y) + (e + 1) + 1 /\ 1 = (e + 1) + 1 - MonthEnd(y, r - 1)
        BY <1>4, <1>11, <3>3
      <3>6. IsDate(d + 1, y, r, 1)
        BY <3>4, <3>5, DateIs, e + 1 \in Nat, y \in 92..99
      <3>7. [o EXCEPT !.month = @ + 1, !.day = 1] = [year |-> y, month |-> r, day |-> 1]
        <4>1. PICK w : w = [o EXCEPT !.month = @ + 1]
          OBVIOUS
        <4>2. w = [year |-> y, month |-> r, day |-> t]
          BY ONLY <1>9, <3>1, <4>1
        <4>3. [w EXCEPT !.day = 1] = [year |-> y, month |-> r, day |-> 1]
          BY ONLY <4>2
        <4>4. [o EXCEPT !.month = @ + 1, !.day = 1] = [w EXCEPT !.day = 1]
          BY ONLY <4>1
        <4>5. QED
          BY ONLY <4>3, <4>4
      <3>8. DayAfter(o) = [o EXCEPT !.month = @ + 1, !.day = 1]
        BY <1>5, <1>9, <2>1, <2>2 DEF DayAfter
      <3>9. QED
        BY <1>8, <3>6, <3>7, <3>8 DEF IsDate
    <2>3. CASE m = 12
      <3>1. y + 1 \in 93..99 /\ y + 1 \in 92..99 /\ (y + 1) - 1 = y
        OBVIOUS
      <3>2. b = 365 + LEAP(y) /\ LEAP(y) \in Int
        <4>1. YearSpan(y)
          BY YearEnds, y \in 92..99
        <4>2. b = MonthEnd(y, 12)
          BY <1>5, <2>3
        <4>3. QED
          BY <4>1, <4>2 DEF YearSpan
      <3>3. Before(y + 1) = Before(y) + 365 + LEAP(y)
        BY <3>1, YearsFollow
      <3>4. d + 1 = Before(y + 1) + 0 + 1
        BY <1>4, <1>11, <3>2, <3>3
      <3>5. PICK g \in Int : g = MonthEnd(y + 1, 1) /\ 0 < g /\ MonthEnd(y + 1, 1 - 1) = 0
        <4>1. YearSpan(y + 1)
          BY <3>1, YearEnds
        <4>2. PICK p, g, q : MonthSpan(y + 1, 1, p, g, q)
          BY <3>1, MonthEndNext, 1 \in 1..12
        <4>3. 1 - 1 = 0
          OBVIOUS
        <4>4. p = 0 /\ MonthEnd(y + 1, 1 - 1) = 0
          BY <4>1, <4>2, <4>3 DEF MonthSpan, YearSpan
        <4>5. QED
          BY <4>2, <4>4 DEF MonthSpan
      <3>6. InMonth(y + 1, 1, 0)
        BY <3>5 DEF InMonth
      <3>7. 1 = 0 + 1 - MonthEnd(y + 1, 1 - 1)
        BY <3>5
      <3>8. IsDate(d + 1, y + 1, 1, 1)
        BY <3>1, <3>4, <3>6, <3>7, DateIs, 0 \in Nat, 1 \in 1..12
      <3>9. QED
        BY <1>5, <1>8, <1>9, <2>1, <2>3, <3>8 DEF DayAfter, IsDate
    <2>4. QED
      BY <2>2, <2>3
  <1>12. QED
    BY <1>5, <1>6, <1>10, <1>11

LEMMA FirstDate == mk_time(1) = [year |-> 92, month |-> 1, day |-> 1]
  <1>1. MonthEnd(92, 1 - 1) = 0 /\ MonthEnd(92, 1) > 0
    <2>1. YearSpan(92)
      BY YearEnds, 92 \in 92..99
    <2>2. PICK p, g, q : MonthSpan(92, 1, p, g, q)
      BY MonthEndNext, 1 \in 1..12, 92 \in 92..99
    <2>3. 1 - 1 = 0
      OBVIOUS
    <2>4. p = 0 /\ MonthEnd(92, 1 - 1) = 0
      BY <2>1, <2>2, <2>3 DEF MonthSpan, YearSpan
    <2>5. QED
      BY <2>2, <2>4 DEF MonthSpan
  <1>2. InMonth(92, 1, 0)
    BY <1>1 DEF InMonth
  <1>3. 1 = Before(92) + 0 + 1 /\ 1 = 0 + 1 - MonthEnd(92, 1 - 1)
    BY <1>1, YearsFollow
  <1>4. IsDate(1, 92, 1, 1)
    BY <1>2, <1>3, DateIs, 0 \in Nat, 1 \in 1..12
  <1>5. QED
    BY <1>4 DEF IsDate

(* unjulian is the inverse of julian in the table.                          *)
DaysFrom(S, b) == CHOOSE f : f = [y \in S |-> IF y = b THEN 0 ELSE f[y - 1] + 365 + LEAP(y - 1)]

LEMMA DaysLoop ==
  ASSUME NEW x, NEW f, f = DaysFrom(Years, STARTDATE \div 1000)
  PROVE  unjulian(x) = f[x \div 1000] + (x % 1000) - 1
  BY Zenon DEF unjulian, DaysFrom

LEMMA UnjulianInverts ==
  ASSUME NEW d \in 0..(TOTDATE - 1)
  PROVE  unjulian(julian(STARTDATE + d)) = d
  <1>1. PICK y \in 92..98, e \in 0..365 : e < 365 + LEAP(y) /\ d = Before(y) + e
    BY DayHasYear
  <1>2. PICK x \in Int : x = julian(STARTDATE + d) /\ x = y * 1000 + 1 + e
    <2>1. STARTDATE + d = STARTDATE + Before(y) + e
      BY <1>1, YearsFollow DEF STARTDATE
    <2>2. QED
      BY <1>1, <2>1, JulianIs
  <1>3. x \div 1000 = y /\ x % 1000 = e + 1
    BY <1>2
  <1>4. PICK f : f = DaysFrom(Years, STARTDATE \div 1000)
    OBVIOUS
  <1>5. f[y] = Before(y) /\ Before(y) \in Nat
    <2>1. f = DaysFrom(92..99, 92)
      BY <1>4, YearsAre
    <2>2. QED
      BY <2>1, DaysAre, YearsFollow DEF DaysFrom
  <1>6. unjulian(x) = f[x \div 1000] + (x % 1000) - 1
    BY <1>4, DaysLoop
  <1>7. QED
    BY <1>1, <1>2, <1>3, <1>5, <1>6

\* The last day that the table has got, while it is built.
DaysInv ==
  /\ i \in 0..TOTDATE
  /\ pc = "dates" => i < TOTDATE
  /\ i > 0 => date = mk_time(i)

DayFollows ==
  i' # i =>
    /\ date' = IF i = 0 THEN [year |-> 92, month |-> 1, day |-> 1] ELSE DayAfter(date)
    /\ unjulian(julian(STARTDATE + i)) = i

LEMMA DaysPreserved == DaysInv /\ [Next]_rowsVars => DaysInv' /\ DayFollows
  <1> SUFFICES ASSUME DaysInv, [Next]_rowsVars PROVE DaysInv' /\ DayFollows
    OBVIOUS
  <1>1. CASE mk_ascdate
    <2>1. /\ pc = "dates" /\ date' = mk_time(i + 1) /\ i' = i + 1
          /\ pc' = IF i' < TOTDATE THEN "dates" ELSE "idle"
      BY <1>1 DEF mk_ascdate
    <2>2. i \in 0..(TOTDATE - 1) /\ TOTDATE \in Nat
      BY <2>1 DEF DaysInv, TOTDATE
    <2>3. DaysInv'
      BY <2>1, <2>2 DEF DaysInv
    <2>4. unjulian(julian(STARTDATE + i)) = i
      BY <2>2, UnjulianInverts
    <2>5. CASE i = 0
      <3>1. date' = mk_time(1)
        BY <2>1, <2>5
      <3>2. QED
        BY <2>3, <2>4, <2>5, <3>1, FirstDate DEF DayFollows
    <2>6. CASE i # 0
      <3>1. i \in 1..(TOTDATE - 1) /\ i > 0
        BY <2>2, <2>6
      <3>2. mk_time(i + 1) = DayAfter(mk_time(i))
        BY <3>1, DatesFollow
      <3>3. date = mk_time(i)
        BY <3>1 DEF DaysInv
      <3>4. QED
        BY <2>1, <2>3, <2>4, <2>6, <3>2, <3>3 DEF DayFollows
    <2>7. QED
      BY <2>5, <2>6
  <1>2. CASE NeedDates
    <2>1. i = 0 /\ i' = i /\ date' = date
      BY <1>2 DEF NeedDates
    <2>2. QED
      BY <2>1 DEF DaysInv, DayFollows, TOTDATE
  <1>3. ASSUME ~mk_ascdate, ~NeedDates PROVE UNCHANGED <<i, date>> /\ (pc' = "dates" => pc = "dates")
    BY <1>3 DEF Next, StartOrder, Survive, DrawOrder, Line, EndOrder, mk_part, mk_cust, a_rnd,
                EndAddress, mk_supp, Forget, rowsVars
  <1>4. ASSUME UNCHANGED <<i, date>>, pc' = "dates" => pc = "dates" PROVE DaysInv' /\ DayFollows
    BY <1>4 DEF DaysInv, DayFollows
  <1>5. QED
    BY <1>1, <1>2, <1>3, <1>4

(* For all 2557 entries that mk_ascdate makes of mk_time and julian: each   *)
(* is the day after the one before, through the ends of months and years    *)
(* and leap days, and unjulian gives back the number that julian had.       *)
THEOREM DaysFollowHolds == Spec => DaysFollow
  <1>1. Init => DaysInv
    BY DEF Init, DaysInv, TOTDATE
  <1>2. DaysInv /\ [Next]_rowsVars => DaysInv' /\ DayFollows
    BY DaysPreserved
  <1>3. DaysInv /\ [Next]_rowsVars => [DayFollows]_rowsVars
    BY <1>2
  <1>4. QED
    BY <1>1, <1>2, <1>3, PTL DEF Spec, DaysFollow, DayFollows

-----------------------------------------------------------------------------
(* Bounds *)

LineRow == [sdate : Int, cdate : Int, rdate : Int, rflag : {"R", "A", "N"}, lstatus : {"F", "O"}]

(* Why nothing is out of bounds: an order's date leaves room for the longest *)
(* waits, and a_rnd has drawn once for the length and for each five letters. *)
DatesInv ==
  /\ tmp_date \in STARTDATE..O_ODATE_MAX
  /\ l \in Seq(LineRow)
  /\ \A j \in 1..Len(l) : InTable(l[j].sdate) /\ InTable(l[j].cdate) /\ InTable(l[j].rdate)

AddressInv ==
  /\ len \in 0..40 /\ n \in 0..len
  /\ draws \in 0..(1 + (n + 4) \div 5)

PressInv == pc = "supplier row" => press.first >= 0 /\ press.last < press.clen

LEMMA BoundsInvGives == DatesInv /\ AddressInv /\ PressInv => NothingOutOfBounds
  <1> SUFFICES ASSUME DatesInv, AddressInv, PressInv PROVE NothingOutOfBounds
    OBVIOUS
  <1>1. InTable(tmp_date)
    <2>1. tmp_date - STARTDATE \in 0..2405
      BY DEF DatesInv, STARTDATE, O_ODATE_MAX, TOTDATE, L_SDTE_MAX, L_RDTE_MAX
    <2>2. QED
      BY <2>1 DEF InTable, TOTDATE
  <1>2. draws <= ADDR_BOUNDARY
    BY DEF AddressInv, ADDR_BOUNDARY
  <1>3. QED
    BY <1>1, <1>2 DEF DatesInv, PressInv, NothingOutOfBounds

LEMMA InitBounds == Init => DatesInv /\ AddressInv /\ PressInv
  <1> SUFFICES ASSUME Init PROVE DatesInv /\ AddressInv /\ PressInv
    OBVIOUS
  <1>1. DatesInv
    BY DEF Init, DatesInv, STARTDATE, O_ODATE_MAX, TOTDATE, L_SDTE_MAX, L_RDTE_MAX
  <1>2. AddressInv
    BY DEF Init, AddressInv
  <1>3. PressInv
    BY DEF Init, PressInv
  <1>4. QED
    BY <1>1, <1>2, <1>3

(* A new line is in the table, and its flag only says returned or accepted  *)
(* when it was shipped by CURRENTDATE.                                      *)
LEMMA LineAppends ==
  ASSUME DatesInv, Line
  PROVE  \E row \in LineRow :
           /\ l' = Append(l, row)
           /\ InTable(row.sdate) /\ InTable(row.cdate) /\ InTable(row.rdate)
           /\ row.rflag # "N" => row.lstatus = "F"
           /\ ocnt' = IF row.lstatus = "F" THEN ocnt + 1 ELSE ocnt
  <1>1. PICK s \in ShipDays, c \in CommitDays, r \in ReceiptDays :
          \E rflag \in Flag(tmp_date + s + r) :
            LET lstatus == IF julian(tmp_date + s) <= CURRENTDATE THEN "F" ELSE "O"
            IN  /\ l' = Append(l, [sdate |-> tmp_date + s, cdate |-> tmp_date + c,
                                   rdate |-> tmp_date + s + r, rflag |-> rflag,
                                   lstatus |-> lstatus])
                /\ ocnt' = IF lstatus = "F" THEN ocnt + 1 ELSE ocnt
    BY DEF Line
  <1>2. PICK lstatus : lstatus = IF julian(tmp_date + s) <= CURRENTDATE THEN "F" ELSE "O"
    OBVIOUS
  <1>2a. PICK rflag \in Flag(tmp_date + s + r) :
          /\ l' = Append(l, [sdate |-> tmp_date + s, cdate |-> tmp_date + c,
                             rdate |-> tmp_date + s + r, rflag |-> rflag,
                             lstatus |-> lstatus])
          /\ ocnt' = IF lstatus = "F" THEN ocnt + 1 ELSE ocnt
    BY <1>1, <1>2
  <1>3. PICK row : row = [sdate |-> tmp_date + s, cdate |-> tmp_date + c,
                          rdate |-> tmp_date + s + r, rflag |-> rflag, lstatus |-> lstatus]
    OBVIOUS
  <1>4. PICK d \in 0..2405 : tmp_date = STARTDATE + d
    <2>1. tmp_date - STARTDATE \in 0..2405
      BY DEF DatesInv, STARTDATE, O_ODATE_MAX, TOTDATE, L_SDTE_MAX, L_RDTE_MAX
    <2>2. tmp_date = STARTDATE + (tmp_date - STARTDATE)
      BY DEF DatesInv, STARTDATE
    <2>3. QED
      BY <2>1, <2>2, SMTT(30)
  <1>5. s \in 1..121 /\ c \in 30..90 /\ r \in 1..30
    BY RowsAssumption DEF L_SDTE_MAX, L_CDTE_MAX, L_RDTE_MAX
  <1>6. /\ InTable(tmp_date + s) /\ InTable(tmp_date + c) /\ InTable(tmp_date + s + r)
        /\ tmp_date + s \in Int /\ tmp_date + c \in Int /\ tmp_date + s + r \in Int
    <2>1. PICK x \in Int : x = STARTDATE /\ x = 92001
      BY DEF STARTDATE
    <2>2. PICK y \in Int : y = tmp_date /\ y = x + d
      <3>1. PICK z \in Int : z = tmp_date
        BY DEF DatesInv, STARTDATE, O_ODATE_MAX, TOTDATE, L_SDTE_MAX, L_RDTE_MAX
      <3>2. z = 92001 + d
        BY <1>4, <3>1 DEF STARTDATE
      <3>3. z = x + d
        BY ONLY <2>1, <3>2
      <3>4. QED
        BY ONLY <3>1, <3>3
    <2>3. \A e \in x..(x + 2556) : InTable(e)
      BY <2>1 DEF InTable, STARTDATE, TOTDATE
    <2>4. y + s \in x..(x + 2556) /\ y + c \in x..(x + 2556) /\ y + s + r \in x..(x + 2556)
      BY ONLY <2>2, <1>5, d \in 0..2405, x \in Int
    <2>5. /\ InTable(y + s) /\ InTable(y + c) /\ InTable(y + s + r)
          /\ y + s \in Int /\ y + c \in Int /\ y + s + r \in Int
      BY ONLY <2>3, <2>4, <1>5, y \in Int, x \in Int
    <2>6. QED
      BY <2>2, <2>5
  <1>7. rflag \in {"R", "A", "N"} /\ (rflag # "N" => julian(tmp_date + s + r) <= CURRENTDATE)
    BY <1>2a DEF Flag
  <1>8. ASSUME julian(tmp_date + s + r) <= CURRENTDATE PROVE julian(tmp_date + s) <= CURRENTDATE
    <2>1. d + s \in 0..(TOTDATE - 1) /\ d + s + r \in 0..(TOTDATE - 1)
      BY <1>4, <1>5, SMTT(30) DEF TOTDATE
    <2>2. tmp_date + s = STARTDATE + (d + s) /\ tmp_date + s + r = STARTDATE + (d + s + r)
      BY <1>4, <1>5 DEF STARTDATE
    <2>3. d + s + r <= CurrentDay
      BY <1>8, <2>1, <2>2, CurrentIsDay
    <2>4. d + s <= CurrentDay
      BY <1>4, <1>5, <2>3 DEF CurrentDay
    <2>5. QED
      BY <2>1, <2>2, <2>4, CurrentIsDay
  <1>9. lstatus \in {"F", "O"} /\ (rflag # "N" => lstatus = "F")
    BY <1>2, <1>7, <1>8
  <1>10. row \in LineRow /\ row.sdate = tmp_date + s /\ row.cdate = tmp_date + c
         /\ row.rdate = tmp_date + s + r /\ row.rflag = rflag /\ row.lstatus = lstatus
    BY <1>3, <1>6, <1>7, <1>9 DEF LineRow
  <1>11. QED
    BY <1>2a, <1>3, <1>6, <1>9, <1>10

LEMMA DatesPreserved == DatesInv /\ [Next]_rowsVars => DatesInv'
  <1> SUFFICES ASSUME DatesInv, [Next]_rowsVars PROVE DatesInv'
    OBVIOUS
  <1>1. ASSUME UNCHANGED <<tmp_date, l>> PROVE DatesInv'
    BY <1>1 DEF DatesInv, InTable
  <1>2. ASSUME tmp_date' = STARTDATE, l' = <<>> PROVE DatesInv'
    <2>1. STARTDATE \in STARTDATE..O_ODATE_MAX
      BY DEF STARTDATE, O_ODATE_MAX, TOTDATE, L_SDTE_MAX, L_RDTE_MAX
    <2>2. l' \in Seq(LineRow) /\ Len(l') = 0
      BY <1>2
    <2>3. QED
      BY <1>2, <2>1, <2>2 DEF DatesInv
  <1>3. CASE DrawOrder
    <2>1. PICK d \in OrderDays : tmp_date' = STARTDATE + d
      BY <1>3 DEF DrawOrder
    <2>2. d \in 0..(O_ODATE_MAX - STARTDATE)
      BY RowsAssumption
    <2>3. tmp_date' \in STARTDATE..O_ODATE_MAX
      BY <2>1, <2>2 DEF STARTDATE, O_ODATE_MAX, TOTDATE, L_SDTE_MAX, L_RDTE_MAX
    <2>4. l' = l
      BY <1>3 DEF DrawOrder
    <2>5. QED
      BY <2>3, <2>4 DEF DatesInv, InTable
  <1>4. CASE Line
    <2>1. PICK row \in LineRow :
            /\ l' = Append(l, row)
            /\ InTable(row.sdate) /\ InTable(row.cdate) /\ InTable(row.rdate)
      BY <1>4, LineAppends
    <2>2. l \in Seq(LineRow)
      BY DEF DatesInv
    <2>3. /\ l' \in Seq(LineRow)
          /\ \A j \in 1..Len(l') : l'[j] = row \/ (j \in 1..Len(l) /\ l'[j] = l[j])
      BY <2>1, <2>2
    <2>4. tmp_date' = tmp_date
      BY <1>4 DEF Line
    <2>5. \A j \in 1..Len(l') :
            InTable(l'[j].sdate) /\ InTable(l'[j].cdate) /\ InTable(l'[j].rdate)
      BY <2>1, <2>3 DEF DatesInv
    <2>6. QED
      BY <2>3, <2>4, <2>5 DEF DatesInv, InTable
  <1>5. CASE StartOrder
    BY <1>2, <1>5 DEF StartOrder
  <1>6. CASE Forget
    BY <1>2, <1>6 DEF Forget
  <1>7. ASSUME ~DrawOrder, ~Line, ~StartOrder, ~Forget PROVE UNCHANGED <<tmp_date, l>>
    BY <1>7 DEF Next, NeedDates, mk_ascdate, Survive, EndOrder, mk_part, mk_cust, a_rnd,
                EndAddress, mk_supp, rowsVars, order
  <1>8. QED
    BY <1>1, <1>3, <1>4, <1>5, <1>6, <1>7

LEMMA AddressPreserved == AddressInv /\ [Next]_rowsVars => AddressInv'
  <1> SUFFICES ASSUME AddressInv, [Next]_rowsVars PROVE AddressInv'
    OBVIOUS
  <1>1. ASSUME UNCHANGED address PROVE AddressInv'
    BY <1>1 DEF AddressInv, address
  <1>2. CASE mk_cust
    <2>1. len' \in 0..40 /\ n' = 0 /\ draws' = 1
      BY <1>2, RowsAssumption DEF mk_cust
    <2>2. QED
      BY <2>1 DEF AddressInv
  <1>3. CASE a_rnd
    <2>1. /\ n < len /\ n' = n + 1 /\ len' = len
          /\ draws' = IF n % 5 = 0 THEN draws + 1 ELSE draws
      BY <1>3 DEF a_rnd
    <2>2. \A m \in Nat : (m + 1 + 4) \div 5 = IF m % 5 = 0 THEN (m + 4) \div 5 + 1
                                             ELSE (m + 4) \div 5
      OBVIOUS
    <2>3. n \in Nat /\ (n + 1 + 4) \div 5 = IF n % 5 = 0 THEN (n + 4) \div 5 + 1
                                            ELSE (n + 4) \div 5
      BY <2>2 DEF AddressInv
    <2>4. draws' \in 0..(1 + (n + 1 + 4) \div 5)
      BY <2>1, <2>3 DEF AddressInv
    <2>5. QED
      BY <2>1, <2>4 DEF AddressInv
  <1>4. CASE Forget
    <2>1. len' = 0 /\ n' = 0 /\ draws' = 0
      BY <1>4 DEF Forget
    <2>2. QED
      BY <2>1 DEF AddressInv
  <1>5. ASSUME ~mk_cust, ~a_rnd, ~Forget PROVE UNCHANGED address
    BY <1>5 DEF Next, NeedDates, mk_ascdate, StartOrder, Survive, DrawOrder, Line, EndOrder,
                mk_part, EndAddress, mk_supp, rowsVars, address
  <1>6. QED
    BY <1>1, <1>2, <1>3, <1>4, <1>5

LEMMA PressPreserved == PressInv /\ [Next]_rowsVars => PressInv'
  <1> SUFFICES ASSUME PressInv, [Next]_rowsVars PROVE PressInv'
    OBVIOUS
  <1>1. CASE mk_supp
    <2>1. PICK clen \in CommentLengths :
            \E noise \in 0..(clen - BBB_CMNT_LEN) : \E offset \in 0..MaxOffset(clen, noise) :
              press' = [clen |-> clen, first |-> offset, noise |-> noise,
                        last |-> BBB_BASE_LEN + offset + noise + BBB_TYPE_LEN - 1]
      BY <1>1 DEF mk_supp
    <2>1a. PICK noise \in 0..(clen - BBB_CMNT_LEN) : \E offset \in 0..MaxOffset(clen, noise) :
              press' = [clen |-> clen, first |-> offset, noise |-> noise,
                        last |-> BBB_BASE_LEN + offset + noise + BBB_TYPE_LEN - 1]
      BY <2>1
    <2>1b. PICK offset \in 0..MaxOffset(clen, noise) :
              press' = [clen |-> clen, first |-> offset, noise |-> noise,
                        last |-> BBB_BASE_LEN + offset + noise + BBB_TYPE_LEN - 1]
      BY <2>1a
    <2>2. clen \in 25..100
      BY RowsAssumption
    <2>3. /\ press'.first = offset /\ press'.clen = clen
          /\ press'.last = 9 + offset + noise + 10 - 1
      BY <2>1b DEF BBB_BASE_LEN, BBB_TYPE_LEN
    <2>4. /\ offset \in Int /\ noise \in Int /\ clen \in Int
          /\ offset >= 0 /\ offset + noise <= clen - 19
      BY <2>1, <2>2 DEF BBB_CMNT_LEN, MaxOffset
    <2>5. 9 + offset + noise + 10 - 1 < clen
      BY <2>4
    <2>6. press'.first >= 0 /\ press'.last < press'.clen
      BY <2>3, <2>4, <2>5
    <2>7. QED
      BY <2>6 DEF PressInv
  <1>2. ASSUME ~mk_supp
        PROVE  pc' # "supplier row" \/ (pc = "supplier row" /\ press' = press)
    BY <1>2 DEF Next, NeedDates, mk_ascdate, StartOrder, Survive, DrawOrder, Line, EndOrder,
                mk_part, mk_cust, a_rnd, EndAddress, Forget, rowsVars
  <1>3. QED
    BY <1>1, <1>2 DEF PressInv

(* For any draws of the intervals of build.c: the dates of an order and its *)
(* lines are entries of mk_ascdate's table, a complaint ends in the comment *)
(* that mk_supp writes it over, and an address stays within its draws.      *)
THEOREM NothingOutOfBoundsHolds == Spec => []NothingOutOfBounds
  <1>1. Init => DatesInv /\ AddressInv /\ PressInv
    BY InitBounds
  <1>2. DatesInv /\ AddressInv /\ PressInv /\ [Next]_rowsVars
          => DatesInv' /\ AddressInv' /\ PressInv'
    BY DatesPreserved, AddressPreserved, PressPreserved
  <1>3. DatesInv /\ AddressInv /\ PressInv => NothingOutOfBounds
    BY BoundsInvGives
  <1>4. QED
    BY <1>1, <1>2, <1>3, PTL DEF Spec

-----------------------------------------------------------------------------
(* The states of an order and of its lines *)

(* The customer: the neighbour of a multiple of three, on either side.      *)
CustomerInv ==
  /\ pc = "customer" => /\ custkey \in 1..O_CKEY_MAX /\ delta \in {-1, 1}
                        /\ l = <<>> /\ ocnt = 0
  /\ pc \in {"line", "order"} => custkey \in 1..O_CKEY_MAX /\ custkey % CUST_MORTALITY # 0

(* What mk_order has counted when it decides on the order's state.          *)
CountInv ==
  /\ ocnt \in 0..Len(l)
  /\ ocnt = Len(l) <=> \A j \in 1..Len(l) : l[j].lstatus = "F"
  /\ ocnt = 0 <=> \A j \in 1..Len(l) : l[j].lstatus = "O"
  /\ \A j \in 1..Len(l) : l[j].rflag # "N" => l[j].lstatus = "F"

StatusInv ==
  /\ pc = "line" => orderstatus = "O" /\ lines \in 1..O_LCNT_MAX
  /\ pc = "order" => /\ lines \in 1..O_LCNT_MAX /\ Len(l) = lines
                     /\ orderstatus = IF ocnt = lines THEN "F" ELSE IF ocnt > 0 THEN "P" ELSE "O"

OrderInv == DatesInv /\ CustomerInv /\ CountInv /\ StatusInv

LEMMA OrderInvGives == OrderInv => OrderIsConsistent
  <1> SUFFICES ASSUME OrderInv PROVE OrderIsConsistent
    OBVIOUS
  <1> USE DEF OrderInv
  <1>1. ASSUME pc = "order"
        PROVE  LET states == {l[j].lstatus : j \in 1..lines}
               IN  orderstatus = IF states = {"F"} THEN "F" ELSE IF states = {"O"} THEN "O" ELSE "P"
    <2>1. /\ lines \in 1..O_LCNT_MAX /\ Len(l) = lines
          /\ orderstatus = IF ocnt = lines THEN "F" ELSE IF ocnt > 0 THEN "P" ELSE "O"
      BY <1>1 DEF StatusInv
    <2>2. PICK states : states = {l[j].lstatus : j \in 1..lines}
      OBVIOUS
    <2>3. l[1].lstatus \in states
      BY <2>1, <2>2
    <2>4. ocnt = lines <=> states = {"F"}
      <3>1. ocnt = lines <=> \A j \in 1..lines : l[j].lstatus = "F"
        BY <2>1 DEF CountInv
      <3>2. QED
        BY ONLY <2>2, <2>3, <3>1, Zenon
    <2>5. ocnt = 0 <=> states = {"O"}
      <3>1. ocnt = 0 <=> \A j \in 1..lines : l[j].lstatus = "O"
        BY <2>1 DEF CountInv
      <3>2. QED
        BY ONLY <2>2, <2>3, <3>1, Zenon
    <2>6. ocnt \in Nat
      BY <2>1 DEF CountInv, O_LCNT_MAX
    <2>7. orderstatus = IF states = {"F"} THEN "F" ELSE IF states = {"O"} THEN "O" ELSE "P"
      BY <2>1, <2>4, <2>5, <2>6
    <2>8. QED
      BY <2>2, <2>7
  <1>2. QED
    BY <1>1 DEF CustomerInv, CountInv, OrderIsConsistent

LEMMA InitOrder == Init => OrderInv
  <1> SUFFICES ASSUME Init PROVE OrderInv
    OBVIOUS
  <1>1. DatesInv
    BY InitBounds
  <1>2. CustomerInv
    BY DEF Init, CustomerInv
  <1>3. CountInv
    BY DEF Init, CountInv
  <1>4. StatusInv
    BY DEF Init, StatusInv
  <1>5. QED
    BY <1>1, <1>2, <1>3, <1>4 DEF OrderInv

(* Outside an order, the other rows leave its variables alone.              *)
LEMMA OtherRows ==
  ASSUME [Next]_rowsVars, ~StartOrder, ~Survive, ~DrawOrder, ~Line, ~EndOrder, ~Forget
  PROVE  /\ UNCHANGED order
         /\ pc' = pc \/ pc' \notin {"customer", "line", "order"}
  BY DEF Next, NeedDates, mk_ascdate, mk_part, mk_cust, a_rnd, EndAddress, mk_supp, rowsVars,
         order

LEMMA CustomerPreserved == OrderInv /\ [Next]_rowsVars => CustomerInv'
  <1> SUFFICES ASSUME OrderInv, [Next]_rowsVars PROVE CustomerInv'
    OBVIOUS
  <1>0. CustomerInv /\ O_CKEY_MAX \in Nat \ {0}
    BY RowsAssumption DEF OrderInv
  <1>1. CASE StartOrder
    <2>1. custkey' \in 1..O_CKEY_MAX /\ pc' = "customer" /\ delta' = 1 /\ l' = <<>> /\ ocnt' = 0
      BY <1>1, RowsAssumption DEF StartOrder
    <2>2. QED
      BY <2>1 DEF CustomerInv
  <1>2. CASE Survive
    <2>1. /\ pc' = pc /\ pc = "customer" /\ l' = l /\ ocnt' = ocnt
          /\ custkey % 3 = 0 /\ delta' = -delta
          /\ custkey' = IF custkey + delta < O_CKEY_MAX THEN custkey + delta ELSE O_CKEY_MAX
      BY <1>2 DEF Survive, CUST_MORTALITY
    <2>2. custkey \in 1..O_CKEY_MAX /\ delta \in {-1, 1} /\ l = <<>> /\ ocnt = 0
      BY <1>0, <2>1 DEF CustomerInv
    <2>3. custkey >= 3
      BY <1>0, <2>1, <2>2
    <2>4. custkey' \in 1..O_CKEY_MAX /\ delta' \in {-1, 1}
      BY <1>0, <2>1, <2>2, <2>3
    <2>5. QED
      BY <2>1, <2>2, <2>4 DEF CustomerInv
  <1>3. CASE DrawOrder
    BY <1>0, <1>3 DEF DrawOrder, CustomerInv
  <1>4. CASE Line
    BY <1>0, <1>4 DEF Line, CustomerInv
  <1>5. CASE EndOrder
    BY <1>0, <1>5 DEF EndOrder, CustomerInv
  <1>6. CASE Forget
    BY <1>6 DEF Forget, CustomerInv
  <1>7. ASSUME ~StartOrder, ~Survive, ~DrawOrder, ~Line, ~EndOrder, ~Forget PROVE CustomerInv'
    BY <1>0, <1>7, OtherRows DEF order, CustomerInv
  <1>8. QED
    BY <1>1, <1>2, <1>3, <1>4, <1>5, <1>6, <1>7

LEMMA CountPreserved == OrderInv /\ [Next]_rowsVars => CountInv'
  <1> SUFFICES ASSUME OrderInv, [Next]_rowsVars PROVE CountInv'
    OBVIOUS
  <1>0. CountInv /\ DatesInv
    BY DEF OrderInv
  <1>1. ASSUME l' = <<>>, ocnt' = 0 PROVE CountInv'
    <2>1. Len(l') = 0
      BY <1>1
    <2>2. QED
      BY <1>1, <2>1 DEF CountInv
  <1>2. ASSUME UNCHANGED <<l, ocnt>> PROVE CountInv'
    BY <1>0, <1>2 DEF CountInv
  <1>3. CASE Line
    <2>1. PICK row \in LineRow :
            /\ l' = Append(l, row)
            /\ row.rflag # "N" => row.lstatus = "F"
            /\ ocnt' = IF row.lstatus = "F" THEN ocnt + 1 ELSE ocnt
      BY <1>0, <1>3, LineAppends
    <2>2. l \in Seq(LineRow) /\ Len(l) \in Nat
      BY <1>0 DEF DatesInv
    <2>3. /\ Len(l') = Len(l) + 1
          /\ \A j \in 1..Len(l) : l'[j] = l[j]
          /\ l'[Len(l) + 1] = row
      BY <2>1, <2>2
    <2>4. row.lstatus = "F" \/ row.lstatus = "O"
      BY DEF LineRow
    <2>5. 1..Len(l') = 1..Len(l) \cup {Len(l) + 1}
      BY <2>2, <2>3
    <2>6. ocnt' \in 0..Len(l')
      BY <1>0, <2>1, <2>2, <2>3 DEF CountInv
    <2>7. \A s \in {"F", "O"} :
            (\A j \in 1..Len(l') : l'[j].lstatus = s)
              <=> (\A j \in 1..Len(l) : l[j].lstatus = s) /\ row.lstatus = s
      BY <2>3, <2>5
    <2>8. ocnt' = Len(l') <=> \A j \in 1..Len(l') : l'[j].lstatus = "F"
      <3>1. ocnt' = Len(l') <=> ocnt = Len(l) /\ row.lstatus = "F"
        BY <1>0, <2>1, <2>2, <2>3, <2>4 DEF CountInv
      <3>2. QED
        BY <1>0, <2>7, <3>1 DEF CountInv
    <2>9. ocnt' = 0 <=> \A j \in 1..Len(l') : l'[j].lstatus = "O"
      <3>1. ocnt' = 0 <=> ocnt = 0 /\ row.lstatus = "O"
        BY <1>0, <2>1, <2>2, <2>4 DEF CountInv
      <3>2. QED
        BY <1>0, <2>7, <3>1 DEF CountInv
    <2>10. \A j \in 1..Len(l') : l'[j].rflag # "N" => l'[j].lstatus = "F"
      BY <1>0, <2>1, <2>3, <2>5 DEF CountInv
    <2>11. QED
      BY <2>6, <2>8, <2>9, <2>10 DEF CountInv
  <1>4. CASE StartOrder
    BY <1>1, <1>4 DEF StartOrder
  <1>5. CASE Forget
    BY <1>1, <1>5 DEF Forget
  <1>6. ASSUME ~Line, ~StartOrder, ~Forget PROVE UNCHANGED <<l, ocnt>>
    BY <1>6 DEF Next, NeedDates, mk_ascdate, Survive, DrawOrder, EndOrder, mk_part, mk_cust,
                a_rnd, EndAddress, mk_supp, rowsVars, order
  <1>7. QED
    BY <1>2, <1>3, <1>4, <1>5, <1>6

LEMMA StatusPreserved == OrderInv /\ [Next]_rowsVars => StatusInv'
  <1> SUFFICES ASSUME OrderInv, [Next]_rowsVars PROVE StatusInv'
    OBVIOUS
  <1>0. StatusInv
    BY DEF OrderInv
  <1>1. CASE StartOrder
    BY <1>1 DEF StartOrder, StatusInv
  <1>2. CASE Survive
    BY <1>2 DEF Survive, StatusInv
  <1>3. CASE DrawOrder
    BY <1>3, RowsAssumption DEF DrawOrder, StatusInv
  <1>4. CASE Line
    BY <1>0, <1>4 DEF Line, StatusInv
  <1>5. CASE EndOrder
    <2>1. /\ pc' = "order" /\ lines' = lines /\ l' = l /\ ocnt' = ocnt /\ Len(l) = lines
          /\ orderstatus' = IF ocnt = lines THEN "F" ELSE IF ocnt > 0 THEN "P" ELSE orderstatus
          /\ pc = "line"
      BY <1>5 DEF EndOrder, Status
    <2>2. QED
      BY <1>0, <2>1 DEF StatusInv
  <1>6. CASE Forget
    BY <1>6 DEF Forget, StatusInv
  <1>7. ASSUME ~StartOrder, ~Survive, ~DrawOrder, ~Line, ~EndOrder, ~Forget PROVE StatusInv'
    BY <1>0, <1>7, OtherRows DEF order, StatusInv
  <1>8. QED
    BY <1>1, <1>2, <1>3, <1>4, <1>5, <1>6, <1>7

(* For any number of customers and any draws: mk_order gives an order to a  *)
(* customer that exists and is not one of the third that never order, and   *)
(* its state is that of its lines, however many there are.                  *)
THEOREM OrderIsConsistentHolds == Spec => []OrderIsConsistent
  <1>1. Init => OrderInv
    BY InitOrder
  <1>2. OrderInv /\ [Next]_rowsVars => OrderInv'
    BY DatesPreserved, CustomerPreserved, CountPreserved, StatusPreserved DEF OrderInv
  <1>3. OrderInv => OrderIsConsistent
    BY OrderInvGives
  <1>4. QED
    BY <1>1, <1>2, <1>3, PTL DEF Spec

-----------------------------------------------------------------------------
(* Orders that are drawn *)

\* The orders of n members.
Orders(N) == {f \in [1..N -> 0..(N - 1)] :
                /\ \A p, q \in 1..N : f[p] = f[q] => p = q
                /\ \A y \in 0..(N - 1) : \E p \in 1..N : f[p] = y}

Exchange(f, j, s) == [f EXCEPT ![s + 1] = f[j + 1], ![j + 1] = f[s + 1]]

\* h has the order after each turn of permute's loop with the draws d.
Turns(N, d, h) ==
  /\ h[0] = [p \in 1..N |-> p - 1]
  /\ \A t \in 1..Len(d) : d[t] \in (t - 1)..(N - 1) /\ h[t] = Exchange(h[t - 1], t - 1, d[t])

\* The draws d lead to the order f.
OrderOf(N, d, f) ==
  /\ d \in Seq(Nat) /\ Len(d) <= N
  /\ \E h \in [0..Len(d) -> Orders(N)] : Turns(N, d, h) /\ h[Len(d)] = f

(* A turn puts the member that is drawn to its place, leaves the places     *)
(* before it alone, and loses no member.                                    *)
LEMMA ExchangeKeeps ==
  ASSUME NEW N \in Nat, NEW f \in Orders(N), NEW j \in 0..(N - 1), NEW s \in j..(N - 1)
  PROVE  /\ Exchange(f, j, s) \in Orders(N)
         /\ Exchange(f, j, s)[j + 1] = f[s + 1]
         /\ \A p \in 1..j : Exchange(f, j, s)[p] = f[p]
  <1> DEFINE g == Exchange(f, j, s)
  <1>1. /\ f \in [1..N -> 0..(N - 1)]
        /\ \A p, q \in 1..N : f[p] = f[q] => p = q
        /\ \A y \in 0..(N - 1) : \E p \in 1..N : f[p] = y
    BY DEF Orders
  <1>2. j \in Int /\ s \in Int /\ j + 1 \in 1..N /\ s + 1 \in 1..N /\ j + 1 <= s + 1
    OBVIOUS
  <1>3. /\ g \in [1..N -> 0..(N - 1)] /\ g[j + 1] = f[s + 1] /\ g[s + 1] = f[j + 1]
        /\ \A p \in (1..N) \ {j + 1, s + 1} : g[p] = f[p]
    BY <1>1, <1>2 DEF Exchange
  <1>4. \A p, q \in 1..N : g[p] = g[q] => p = q
    <2>1. PICK h, a, b, T :
            /\ h = g /\ a = j + 1 /\ b = s + 1 /\ T = 1..N /\ a \in T /\ b \in T
            /\ h[a] = f[b] /\ h[b] = f[a] /\ \A p \in T \ {a, b} : h[p] = f[p]
            /\ \A p, q \in T : f[p] = f[q] => p = q
      BY <1>1, <1>2, <1>3
    <2>2. \A p, q \in T : h[p] = h[q] => p = q
      BY ONLY <2>1
    <2>3. QED
      BY <2>1, <2>2
  <1>5. \A y \in 0..(N - 1) : \E p \in 1..N : g[p] = y
    <2> TAKE y \in 0..(N - 1)
    <2>1. PICK p \in 1..N : f[p] = y
      BY <1>1
    <2>2. QED
      BY <2>1, <1>2, <1>3
  <1>6. \A p \in 1..j : p \in (1..N) \ {j + 1, s + 1}
    BY <1>2
  <1>7. QED
    BY <1>3, <1>4, <1>5, <1>6 DEF Orders

(* With no draw the order is the members' own.                              *)
LEMMA NoTurn == \A N \in Nat : OrderOf(N, <<>>, [p \in 1..N |-> p - 1])
  <1> SUFFICES ASSUME NEW N \in Nat PROVE OrderOf(N, <<>>, [p \in 1..N |-> p - 1])
    OBVIOUS
  <1> DEFINE f == [p \in 1..N |-> p - 1]
             h == [t \in 0..0 |-> f]
  <1>1. \A y \in 0..(N - 1) : y + 1 \in 1..N /\ f[y + 1] = y
    OBVIOUS
  <1>2. f \in Orders(N)
    <2>1. f \in [1..N -> 0..(N - 1)] /\ \A p, q \in 1..N : f[p] = f[q] => p = q
      OBVIOUS
    <2>2. \A y \in 0..(N - 1) : \E p \in 1..N : f[p] = y
      BY <1>1
    <2> HIDE DEF f
    <2>3. QED
      BY <2>1, <2>2 DEF Orders
  <1>3. <<>> \in Seq(Nat) /\ Len(<<>>) = 0
    OBVIOUS
  <1>4. h \in [0..Len(<<>>) -> Orders(N)] /\ h[0] = f
    BY <1>2, <1>3
  <1>5. Turns(N, <<>>, h) /\ h[Len(<<>>)] = f
    BY <1>3, <1>4 DEF Turns
  <1> HIDE DEF f, h
  <1>6. \E w \in [0..Len(<<>>) -> Orders(N)] : Turns(N, <<>>, w) /\ w[Len(<<>>)] = f
    BY <1>4, <1>5
  <1>7. Len(<<>>) <= N
    BY <1>3
  <1>8. OrderOf(N, <<>>, f)
    BY <1>3, <1>6, <1>7 DEF OrderOf
  <1>9. QED
    BY <1>8 DEF f

(* A turn adds its draw.                                                    *)
LEMMA OneTurn ==
  ASSUME NEW N \in Nat, NEW d, NEW f, OrderOf(N, d, f), NEW s \in Len(d)..(N - 1)
  PROVE  OrderOf(N, Append(d, s), Exchange(f, Len(d), s))
  <1>1. PICK h \in [0..Len(d) -> Orders(N)] : Turns(N, d, h) /\ h[Len(d)] = f
    BY DEF OrderOf
  <1>2. d \in Seq(Nat) /\ Len(d) \in Nat
    BY DEF OrderOf
  <1>3. PICK m \in Nat : m = Len(d)
    BY <1>2
  <1> DEFINE e == Append(d, s)
             g == [t \in 0..(m + 1) |-> IF t <= m THEN h[t] ELSE Exchange(f, m, s)]
  <1>4. m \in 0..(N - 1) /\ s \in Nat /\ s \in m..(N - 1)
    BY <1>3
  <1>5. /\ e \in Seq(Nat) /\ Len(e) = m + 1 /\ e[m + 1] = s
        /\ \A t \in 1..m : e[t] = d[t]
    BY <1>2, <1>3, <1>4
  <1>6. f \in Orders(N)
    BY <1>1, <1>2
  <1>7. g \in [0..(m + 1) -> Orders(N)]
    BY <1>1, <1>3, <1>4, <1>6, ExchangeKeeps
  <1>8. ASSUME NEW t \in 1..(m + 1)
        PROVE  e[t] \in (t - 1)..(N - 1) /\ g[t] = Exchange(g[t - 1], t - 1, e[t])
    <2>1. CASE t = m + 1
      BY <2>1, <1>1, <1>3, <1>4, <1>5
    <2>2. CASE t # m + 1
      <3>1. t \in 1..m /\ t - 1 \in 0..m
        BY <2>2
      <3>2. g[t] = h[t] /\ g[t - 1] = h[t - 1] /\ e[t] = d[t]
        BY <3>1, <1>5
      <3>3. QED
        BY <3>1, <3>2, <1>1, <1>3 DEF Turns
    <2>3. QED
      BY <2>1, <2>2
  <1>9. g[0] = h[0] /\ g[m + 1] = Exchange(f, m, s)
    OBVIOUS
  <1> HIDE DEF g, e
  <1>10. Turns(N, e, g)
    BY <1>1, <1>5, <1>8, <1>9 DEF Turns
  <1>11. OrderOf(N, e, Exchange(f, m, s))
    <2>1. g \in [0..Len(e) -> Orders(N)] /\ g[Len(e)] = Exchange(f, m, s) /\ Len(e) <= N
      BY <1>4, <1>5, <1>7, <1>9
    <2>2. QED
      BY <2>1, <1>5, <1>10 DEF OrderOf
  <1>12. QED
    BY <1>11, <1>3 DEF e

(* What is in its place stays there.                                        *)
LEMMA PlacedStays ==
  ASSUME NEW N \in Nat, NEW d \in Seq(Nat), Len(d) <= N,
         NEW h \in [0..Len(d) -> Orders(N)], Turns(N, d, h), NEW t \in 1..Len(d)
  PROVE  h[Len(d)][t] = h[t - 1][d[t] + 1]
  <1>1. PICK m \in Nat : m = Len(d)
    OBVIOUS
  <1>2. t \in Nat /\ t - 1 \in 0..(N - 1) /\ d[t] \in (t - 1)..(N - 1) /\ t - 1 \in 0..m /\ t <= m
    BY <1>1 DEF Turns
  <1>3. h[t][t] = h[t - 1][d[t] + 1]
    <2>1. h[t] = Exchange(h[t - 1], t - 1, d[t]) /\ h[t - 1] \in Orders(N)
      BY <1>1, <1>2 DEF Turns
    <2>2. Exchange(h[t - 1], t - 1, d[t])[(t - 1) + 1] = h[t - 1][d[t] + 1]
      BY <2>1, <1>2, ExchangeKeeps
    <2>3. (t - 1) + 1 = t
      BY <1>2
    <2>4. QED
      BY <2>1, <2>2, <2>3
  <1> DEFINE T == {j \in t..m : h[j][t] # h[t][t]}
  <1>4. CASE T # {}
    <2>1. T \subseteq Nat
      BY <1>2
    <2> HIDE DEF T
    <2>2. PICK x \in T : \A y \in T : x <= y
      BY <2>1, <1>4, LeastNumber
    <2>3. x \in t..m /\ h[x][t] # h[t][t]
      BY DEF T
    <2>4. x \in Nat /\ x - 1 \in t..m /\ x \in 1..m
      BY <2>3, <1>2
    <2>5. h[x - 1][t] = h[t][t]
      BY <2>2, <2>4 DEF T
    <2>6. PICK u, s : u = h[x - 1] /\ s = d[x]
      OBVIOUS
    <2>7. h[x] = Exchange(u, x - 1, s) /\ s \in (x - 1)..(N - 1)
      BY <2>4, <2>6, <1>1 DEF Turns
    <2>8. u \in Orders(N)
      <3>1. x - 1 \in 0..m /\ h \in [0..m -> Orders(N)]
        BY <2>4, <1>1, <1>2
      <3>2. QED
        BY <3>1, <2>6
    <2>9. x - 1 \in 0..(N - 1) /\ t \in 1..(x - 1)
      BY <2>4, <1>1, <1>2
    <2>10. h[x][t] = u[t]
      <3>1. PICK j \in 0..(N - 1) : j = x - 1
        BY <2>9
      <3>2. \A p \in 1..j : Exchange(u, j, s)[p] = u[p]
        BY <3>1, <2>7, <2>8, ExchangeKeeps
      <3>3. QED
        BY <3>1, <3>2, <2>7, <2>9
    <2>11. QED
      BY <2>3, <2>5, <2>6, <2>10
  <1>5. CASE T = {}
    <2>1. m \in t..m
      BY <1>2
    <2>2. h[m][t] = h[t][t]
      BY <2>1, <1>5
    <2>3. QED
      BY <2>2, <1>1, <1>3
  <1>6. QED
    BY <1>4, <1>5

(* As many draws lead to the same order only if they are the same.          *)
LEMMA OrderTellsDraws ==
  ASSUME NEW N \in Nat, NEW d, NEW e, NEW f, NEW g, OrderOf(N, d, f), OrderOf(N, e, g),
         Len(d) = Len(e)
  PROVE  d = e <=> f = g
  <1>1. PICK h \in [0..Len(d) -> Orders(N)] : Turns(N, d, h) /\ h[Len(d)] = f
    BY DEF OrderOf
  <1>2. PICK w \in [0..Len(d) -> Orders(N)] : Turns(N, e, w) /\ w[Len(d)] = g
    BY DEF OrderOf
  <1>3. d \in Seq(Nat) /\ e \in Seq(Nat) /\ Len(d) \in Nat /\ Len(d) <= N
    BY DEF OrderOf
  <1>4. PICK m \in Nat : m = Len(d) /\ m = Len(e) /\ m <= N
    BY <1>3
  <1>5. h[0] = w[0]
    BY <1>1, <1>2 DEF Turns
  <1>6. ASSUME NEW x \in 1..m, h[x - 1] = w[x - 1], d[x] = e[x] PROVE h[x] = w[x]
    BY <1>6, <1>1, <1>2, <1>4 DEF Turns
  <1>7. ASSUME NEW x \in 1..m, h[x - 1] = w[x - 1], f = g PROVE d[x] = e[x]
    <2>1. h[m][x] = h[x - 1][d[x] + 1] /\ w[m][x] = w[x - 1][e[x] + 1]
      BY <1>1, <1>2, <1>3, <1>4, PlacedStays, SMTT(30)
    <2>2. h[x - 1][d[x] + 1] = h[x - 1][e[x] + 1]
      BY <2>1, <1>7, <1>1, <1>2, <1>4
    <2>3. x \in Nat /\ d[x] \in (x - 1)..(N - 1) /\ e[x] \in (x - 1)..(N - 1)
      BY <1>1, <1>2, <1>4 DEF Turns
    <2>4. d[x] \in Nat /\ e[x] \in Nat /\ d[x] + 1 \in 1..N /\ e[x] + 1 \in 1..N
      BY ONLY <2>3, N \in Nat, SMTT(30)
    <2>5. h[x - 1] \in Orders(N)
      BY <1>1, <1>4
    <2>6. d[x] + 1 = e[x] + 1
      BY <2>2, <2>4, <2>5 DEF Orders
    <2>7. QED
      BY <2>6, <2>4
  <1>8. ASSUME d = e \/ f = g PROVE \A x \in 0..m : h[x] = w[x] /\ (x > 0 => d[x] = e[x])
    <2> DEFINE T == {x \in 0..m : ~(h[x] = w[x] /\ (x > 0 => d[x] = e[x]))}
    <2> SUFFICES ASSUME T # {} PROVE FALSE
      OBVIOUS
    <2>1. T \subseteq Nat
      BY <1>4
    <2> HIDE DEF T
    <2>2. PICK x \in T : \A y \in T : x <= y
      BY <2>1, LeastNumber
    <2>3. x \in 0..m /\ ~(h[x] = w[x] /\ (x > 0 => d[x] = e[x]))
      BY DEF T
    <2>4. x # 0
      BY <2>3, <1>5
    <2>5. x \in 1..m /\ x - 1 \in 0..m /\ ~(x <= x - 1)
      BY <2>3, <2>4
    <2>6. h[x - 1] = w[x - 1]
      BY <2>2, <2>5 DEF T
    <2>7. d[x] = e[x]
      BY <2>5, <2>6, <1>7, <1>8
    <2>8. QED
      BY <2>3, <2>5, <2>6, <2>7, <1>6
  <1>9. d = e => f = g
    BY <1>8, <1>1, <1>2, <1>4
  <1>10. ASSUME f = g PROVE d = e
    <2>1. \A x \in 1..m : d[x] = e[x]
      <3> TAKE x \in 1..m
      <3>1. x \in 0..m /\ x > 0
        BY <1>4
      <3>2. QED
        BY <3>1, <1>8, <1>10
    <2>2. d \in [1..m -> Nat] /\ e \in [1..m -> Nat]
      BY <1>3, <1>4
    <2>3. QED
      BY <2>1, <2>2
  <1>11. QED
    BY <1>9, <1>10

-----------------------------------------------------------------------------
(* Members and their weights *)

DistTypes ==
  /\ file \in Files /\ line \in Nat \ {0}
  /\ target \in [count : Nat, max : Nat, weight : Seq(Int)] /\ count \in Nat

NamesInv ==
  /\ state \in {"reading", "overrun", "exit"} => named = {}
  /\ state = "permuting" =>
       Len(drawn) = k /\ k \in 0..target.count /\ OrderOf(target.count, drawn, permute)
  /\ \A a \in named : Len(a.draws) = target.count /\ OrderOf(target.count, a.draws, a.order)

(* What the steps that read, and those that draw, have in common.           *)
LEMMA DistTypesPreserved == DistTypes /\ [Dists!Next]_dists => DistTypes'
  <1> SUFFICES ASSUME DistTypes, [Dists!Next]_dists PROVE DistTypes'
    OBVIOUS
  <1>1. CASE Dists!ReadLine
    <2>1. file \in Seq(Dists!Line) /\ line \in 1..Len(file)
      BY <1>1, PartsAssumption DEF DistTypes, Dists!DistsAssumption, Dists!ReadLine
    <2>2. file[line] \in Dists!Line
      BY <2>1
    <2>3. file[line].kind \in {"COUNT", "member"} => file[line].n \in Nat
      BY <2>2 DEF Dists!Line
    <2>4. target.max \in Nat /\ target.weight \in Seq(Int) /\ count \in Nat
      BY DEF DistTypes
    <2>5. CASE file[line].kind = "COUNT"
      <3>1. target' = [count |-> file[line].n, max |-> 0,
                       weight |-> [m \in 1..count |-> Dists!Unset]] /\ count' = count
        BY <1>1, <2>5 DEF Dists!ReadLine
      <3>2. [m \in 1..count |-> Dists!Unset] \in Seq(Int)
        BY <2>4 DEF Dists!Unset
      <3>3. file' = file /\ line' = line + 1
        BY <1>1 DEF Dists!ReadLine
      <3>4. QED
        BY <2>1, <2>3, <2>4, <2>5, <3>1, <3>2, <3>3 DEF DistTypes
    <2>6. CASE file[line].kind = "member"
      <3>1. target' = [target EXCEPT !.max = target.max + file[line].n,
                                     !.weight = Append(target.weight, target.max + file[line].n)]
            /\ count' = count + 1 /\ file' = file /\ line' = line + 1
        BY <1>1, <2>6 DEF Dists!ReadLine, Dists!AddMember
      <3>2. target.max + file[line].n \in Nat
        BY <2>3, <2>4, <2>6
      <3>3. Append(target.weight, target.max + file[line].n) \in Seq(Int)
        BY <2>4, <3>2
      <3>4. \A x \in Nat : \A w \in Seq(Int) :
              [target EXCEPT !.max = x, !.weight = w] \in [count : Nat, max : Nat, weight : Seq(Int)]
        BY DEF DistTypes
      <3>5. target' \in [count : Nat, max : Nat, weight : Seq(Int)]
        BY <3>1, <3>2, <3>3, <3>4
      <3>6. count' \in Nat /\ line' \in Nat \ {0} /\ file' \in Files
        BY <2>1, <2>4, <3>1 DEF DistTypes
      <3>7. QED
        BY <3>5, <3>6 DEF DistTypes
    <2>7. CASE file[line].kind \notin {"COUNT", "member"}
      BY <1>1, <2>1, <2>7 DEF Dists!ReadLine, DistTypes
    <2>8. QED
      BY <2>5, <2>6, <2>7
  <1>2. CASE UNCHANGED <<file, target, count>> /\ line' \in {line, line + 1}
    BY <1>2 DEF DistTypes
  <1>3. QED
    BY <1>1, <1>2 DEF Dists!Next, Dists!Seek, Dists!EndOfFile, Dists!agg_str, Dists!Permute,
      Dists!Aggregate, dists

LEMMA NamesPreserved == DistTypes /\ NamesInv /\ [Dists!Next]_dists => NamesInv'
  <1> SUFFICES ASSUME DistTypes, NamesInv, [Dists!Next]_dists PROVE NamesInv'
    OBVIOUS
  <1>1. target.count \in Nat
    BY DEF DistTypes
  <1>2. CASE Dists!Seek \/ Dists!ReadLine \/ Dists!EndOfFile
    BY <1>2 DEF Dists!Seek, Dists!ReadLine, Dists!EndOfFile, NamesInv
  <1>3. CASE Dists!agg_str
    <2>1. OrderOf(target.count, <<>>, Dists!Identity)
      BY <1>1, NoTurn DEF Dists!Identity
    <2>2. QED
      BY <1>1, <1>3, <2>1 DEF Dists!agg_str, Dists!PermuteFrom, NamesInv
  <1>4. CASE Dists!Permute
    <2>1. PICK source \in k..(target.count - 1) :
            /\ permute' = Exchange(permute, k, source)
            /\ drawn' = Append(drawn, source)
      BY <1>4 DEF Dists!Permute, Exchange
    <2>2. Len(drawn) = k /\ k \in 0..target.count /\ OrderOf(target.count, drawn, permute)
      BY <1>4 DEF Dists!Permute, NamesInv
    <2>3. OrderOf(target.count, drawn', permute')
      BY <1>1, <2>1, <2>2, OneTurn
    <2>4. Len(drawn') = k + 1 /\ k + 1 \in 0..target.count
      BY <1>1, <1>4, <2>1, <2>2 DEF OrderOf, Dists!Permute
    <2>5. k' = k + 1 /\ UNCHANGED <<target, state, named>> /\ state = "permuting"
      BY <1>4 DEF Dists!Permute
    <2>6. QED
      BY <2>3, <2>4, <2>5 DEF NamesInv
  <1>5. CASE Dists!Aggregate
    <2>1. Len(drawn) = target.count /\ OrderOf(target.count, drawn, permute)
      BY <1>5 DEF Dists!Aggregate, NamesInv
    <2>2. QED
      BY <1>5, <2>1 DEF Dists!Aggregate, NamesInv
  <1>6. CASE UNCHANGED dists
    BY <1>6 DEF dists, NamesInv
  <1>7. QED
    BY <1>2, <1>3, <1>4, <1>5, <1>6 DEF Dists!Next

LEMMA NamesInvGives == DistTypes /\ NamesInv => NamesDependOnDraws
  <1> SUFFICES ASSUME DistTypes, NamesInv PROVE NamesDependOnDraws
    OBVIOUS
  <1>1. target.count \in Nat
    BY DEF DistTypes
  <1>2. ASSUME NEW a \in named, NEW b \in named PROVE a.draws = b.draws <=> a.order = b.order
    BY <1>1, <1>2, OrderTellsDraws DEF NamesInv
  <1>3. ASSUME NEW a \in named
        PROVE  {a.order[N] : N \in DOMAIN a.order} = {N - 1 : N \in DOMAIN a.order}
    <2>1. PICK N \in Nat : N = target.count
      BY <1>1
    <2>2. PICK f : f = a.order
      OBVIOUS
    <2>3. f \in Orders(N)
      BY <1>3, <2>1, <2>2 DEF NamesInv, OrderOf
    <2>4. /\ DOMAIN f = 1..N /\ \A p \in 1..N : f[p] \in 0..(N - 1)
          /\ \A y \in 0..(N - 1) : \E p \in 1..N : f[p] = y
      BY <2>3 DEF Orders
    <2>5. /\ \A p \in 1..N : \E m \in 1..N : f[p] = m - 1
          /\ \A m \in 1..N : \E p \in 1..N : f[p] = m - 1
      <3>1. \A p \in 1..N : f[p] + 1 \in 1..N /\ f[p] = (f[p] + 1) - 1
        BY <2>4
      <3>2. \A m \in 1..N : m - 1 \in 0..(N - 1)
        OBVIOUS
      <3>3. QED
        BY <2>4, <3>1, <3>2
    <2>6. {f[p] : p \in 1..N} = {m - 1 : m \in 1..N}
      BY ONLY <2>5
    <2>7. QED
      BY <2>2, <2>4, <2>6
  <1>4. QED
    BY <1>2, <1>3 DEF NamesDependOnDraws, Dists!NamesDependOnDraws

LEMMA PartsDists == PartsSpec => Dists!Init /\ [][Dists!Next]_dists
  <1>1. PartsInit => Dists!Init
    BY DEF PartsInit
  <1>2. [PartsNext]_<<what, rowsVars, rng, dists, text, queries>> => [Dists!Next]_dists
    BY DEF PartsNext
  <1>3. QED
    BY <1>1, <1>2, PTL DEF PartsSpec

(* For all files and draws: the order that permute_dist gives the colours   *)
(* of a part's name is decided by the draws of its row alone, whatever rows *)
(* were made before, no two sequences of draws give one order, and each     *)
(* order has every colour once.                                             *)
THEOREM NamesDependOnDrawsHolds == PartsSpec => []NamesDependOnDraws
  <1>1. Dists!Init => DistTypes /\ NamesInv
    BY DEF Dists!Init, DistTypes, NamesInv
  <1>2. QED
    BY <1>1, DistTypesPreserved, NamesPreserved, NamesInvGives, PartsDists, PTL

-----------------------------------------------------------------------------
(* The weights of a distribution *)

Rank(M, u) == Cardinality({p \in M : p <= u})
Below(w, t) == IF t = 1 THEN 0 ELSE w[t - 1]
LastOf(w) == IF w = <<>> THEN 0 ELSE w[Len(w)]

\* w has the cumulative weights of the members in the lines M of the file f.
Weighs(f, M, w) ==
  /\ w \in Seq(Nat) /\ IsFiniteSet(M) /\ Len(w) = Cardinality(M)
  /\ \A u \in M : Rank(M, u) \in 1..Len(w) /\ w[Rank(M, u)] = Below(w, Rank(M, u)) + f[u].n
  /\ \A t \in 1..Len(w) : Below(w, t) <= w[t]

\* pick_str
Picked(w, j) == CHOOSE u \in 1..Len(w) : w[u] >= j /\ \A p \in 1..(u - 1) : w[p] < j

(* The bounds of the members grow.                                          *)
LEMMA BoundsGrow ==
  ASSUME NEW w \in Seq(Nat), \A t \in 1..Len(w) : Below(w, t) <= w[t],
         NEW a \in 1..Len(w), NEW b \in 1..Len(w), a <= b
  PROVE  w[a] <= w[b]
  <1> DEFINE T == {x \in a..b : w[x] < w[a]}
  <1> SUFFICES ASSUME T # {} PROVE FALSE
    OBVIOUS
  <1>1. T \subseteq Nat /\ a \in Nat /\ \A x \in 1..Len(w) : w[x] \in Nat
    BY SMTT(30)
  <1> HIDE DEF T
  <1>2. PICK x \in T : \A y \in T : x <= y
    BY <1>1, LeastNumber
  <1>3. x \in a..b /\ w[x] < w[a] /\ x \in 1..Len(w)
    BY DEF T
  <1>4. x # a /\ x \in Nat
    BY <1>1, <1>3
  <1>5. x - 1 \in a..b /\ x - 1 \in 1..Len(w) /\ x - 1 < x /\ x # 1
    BY <1>3, <1>4
  <1>6. w[x - 1] <= w[x]
    BY <1>3, <1>5 DEF Below
  <1>7. x - 1 \in T
    BY <1>1, <1>3, <1>5, <1>6, SMTT(30) DEF T
  <1>8. QED
    BY <1>2, <1>4, <1>5, <1>7

(* The draws that pick member i are those between the bound before and its. *)
LEMMA PickedBetween ==
  ASSUME NEW w \in Seq(Nat), \A t \in 1..Len(w) : Below(w, t) <= w[t], NEW t \in 1..Len(w)
  PROVE  {j \in 1..LastOf(w) : Picked(w, j) = t} = (Below(w, t) + 1)..w[t]
  <1>1. \A x \in 1..Len(w) : w[x] \in Nat
    OBVIOUS
  <1>2. w # <<>> /\ LastOf(w) = w[Len(w)] /\ Len(w) \in Nat /\ Len(w) \in 1..Len(w)
    BY DEF LastOf
  <1>3. Below(w, t) \in Nat
    BY <1>1 DEF Below
  <1>4. \A a, b \in 1..Len(w) : a <= b => w[a] <= w[b]
    BY BoundsGrow
  <1> DEFINE Is(u, j) == w[u] >= j /\ \A p \in 1..(u - 1) : w[p] < j
  <1>5. ASSUME NEW j \in 1..LastOf(w) PROVE \E u \in 1..Len(w) : Is(u, j)
    <2> DEFINE T == {u \in 1..Len(w) : w[u] >= j}
    <2>1. Len(w) \in T /\ T \subseteq Nat
      BY <1>1, <1>2
    <2> HIDE DEF T
    <2>2. PICK u \in T : \A y \in T : u <= y
      BY <2>1, LeastNumber
    <2>3. u \in 1..Len(w) /\ w[u] >= j
      BY DEF T
    <2>4. ASSUME NEW p \in 1..(u - 1) PROVE w[p] < j
      <3>1. p \in 1..Len(w) /\ ~(u <= p)
        BY <2>3
      <3>2. ~(w[p] >= j)
        BY <2>2, <3>1 DEF T
      <3>3. QED
        BY <3>1, <3>2, <1>1, <1>2
    <2>5. QED
      BY <2>3, <2>4
  <1>6. \A j \in 1..LastOf(w) : \A u, m \in 1..Len(w) : Is(u, j) /\ Is(m, j) => u = m
    <2> SUFFICES ASSUME NEW j \in 1..LastOf(w), NEW u \in 1..Len(w), NEW m \in 1..Len(w),
                        Is(u, j), Is(m, j), u < m
                 PROVE FALSE
      OBVIOUS
    <2>1. u \in 1..(m - 1)
      OBVIOUS
    <2>2. w[u] < j /\ w[u] >= j
      BY <2>1
    <2>3. QED
      BY <2>2, <1>1, <1>2
  <1>7. \A j \in 1..LastOf(w) : Picked(w, j) \in 1..Len(w) /\ Is(Picked(w, j), j)
    BY <1>5 DEF Picked
  <1>8. ASSUME NEW j \in 1..LastOf(w), Picked(w, j) = t PROVE j \in (Below(w, t) + 1)..w[t]
    <2>1. w[t] >= j /\ (t # 1 => t - 1 \in 1..(t - 1) /\ w[t - 1] < j)
      <3>1. t # 1 => t - 1 \in 1..(t - 1)
        OBVIOUS
      <3>2. QED
        BY <1>7, <1>8, <3>1
    <2>2. QED
      BY <2>1, <1>1, <1>3 DEF Below
  <1>9. ASSUME NEW j \in (Below(w, t) + 1)..w[t] PROVE j \in 1..LastOf(w) /\ Picked(w, j) = t
    <2>1. j \in Nat /\ j > Below(w, t) /\ j <= w[t] /\ w[t] <= w[Len(w)]
      BY <1>1, <1>2, <1>3, <1>4
    <2>2. j \in 1..LastOf(w)
      BY <2>1, <1>1, <1>2, <1>3
    <2>3. ASSUME NEW p \in 1..(t - 1) PROVE w[p] < j
      <3>1. p \in 1..Len(w) /\ t - 1 \in 1..Len(w) /\ p <= t - 1 /\ t # 1
        OBVIOUS
      <3>2. w[p] <= w[t - 1] /\ w[t - 1] < j
        BY <3>1, <1>4, <2>1 DEF Below
      <3>3. QED
        BY <3>1, <3>2, <1>1, <2>1, SMTT(30)
    <2>4. Is(t, j)
      BY <2>1, <2>3, <1>1
    <2>5. QED
      BY <2>2, <2>4, <1>6, <1>7
  <1> HIDE DEF Is
  <1>10. QED
    BY <1>8, <1>9

(* So a member gets as many draws as its weight says.                       *)
LEMMA PickedAsWeighed ==
  ASSUME NEW f, NEW M, NEW w, Weighs(f, M, w), NEW u \in M, f[u].n \in Nat
  PROVE  Cardinality({j \in 1..LastOf(w) : Picked(w, j) = Rank(M, u)}) = f[u].n
  <1>1. PICK t \in 1..Len(w) : t = Rank(M, u)
    BY DEF Weighs
  <1>2. w \in Seq(Nat) /\ (\A x \in 1..Len(w) : Below(w, x) <= w[x]) /\ w[t] = Below(w, t) + f[u].n
    BY <1>1 DEF Weighs
  <1>3. Below(w, t) \in Nat /\ w[t] \in Nat
    BY <1>2 DEF Below
  <1>4. {j \in 1..LastOf(w) : Picked(w, j) = t} = (Below(w, t) + 1)..w[t]
    BY <1>2, PickedBetween
  <1>5. Cardinality((Below(w, t) + 1)..w[t]) = f[u].n
    <2>1. PICK a \in Nat, b \in Nat, c \in Nat :
            a = Below(w, t) + 1 /\ b = w[t] /\ c = f[u].n /\ b = a - 1 + c
      BY <1>2, <1>3
    <2>2. Cardinality(a..b) = IF a > b THEN 0 ELSE b - a + 1
      BY FS_Interval
    <2>3. (IF a > b THEN 0 ELSE b - a + 1) = c
      BY ONLY <2>1, a \in Nat, b \in Nat, c \in Nat, SMTT(30)
    <2>4. QED
      BY <2>1, <2>2, <2>3
  <1>6. QED
    BY <1>1, <1>4, <1>5

(* A line more with a member.                                               *)
LEMMA OneMemberMore ==
  ASSUME NEW f, NEW v \in Nat, NEW M \in SUBSET (1..(v - 1)), NEW w, Weighs(f, M, w),
         f[v].n \in Nat
  PROVE  Weighs(f, M \cup {v}, Append(w, LastOf(w) + f[v].n))
  <1>1. PICK m \in Nat, c \in Nat : m = Len(w) /\ c = LastOf(w) + f[v].n /\ c >= LastOf(w)
    <2>1. LastOf(w) \in Nat
      BY DEF LastOf, Weighs
    <2>2. QED
      BY <2>1 DEF Weighs
  <1> DEFINE N == M \cup {v}
             e == Append(w, c)
  <1>2. /\ e \in Seq(Nat) /\ Len(e) = m + 1 /\ e[m + 1] = c /\ \A t \in 1..m : e[t] = w[t]
        /\ w \in Seq(Nat)
    BY <1>1 DEF Weighs
  <1>3. v \notin M /\ IsFiniteSet(M)
    BY DEF Weighs
  <1>4. IsFiniteSet(N) /\ Cardinality(N) = m + 1
    BY <1>1, <1>3, FS_AddElement DEF Weighs
  <1>5. Rank(N, v) = m + 1
    <2>1. \A p \in M : p \in 1..(v - 1) /\ p <= v
      OBVIOUS
    <2>2. {p \in N : p <= v} = N
      <3>1. \A p \in N : p <= v
        BY <2>1
      <3> HIDE DEF N
      <3>2. QED
        BY <3>1
    <2>3. QED
      BY <2>2, <1>4 DEF Rank
  <1>6. ASSUME NEW u \in M PROVE Rank(N, u) = Rank(M, u)
    <2>1. u \in 1..(v - 1) /\ ~(v <= u)
      OBVIOUS
    <2>2. {p \in N : p <= u} = {p \in M : p <= u}
      BY <2>1
    <2>3. QED
      BY <2>2 DEF Rank
  <1>7. \A t \in 1..m : Below(e, t) = Below(w, t)
    BY <1>2 DEF Below
  <1>8. Below(e, m + 1) = LastOf(w)
    <2>1. CASE m = 0
      <3>1. w = <<>>
        BY <1>1, <1>2, <2>1
      <3>2. QED
        BY <2>1, <3>1 DEF Below, LastOf
    <2>2. CASE m # 0
      <3>1. w # <<>> /\ m + 1 # 1 /\ (m + 1) - 1 = m /\ m \in 1..m
        BY <1>1, <2>2
      <3>2. Below(e, m + 1) = e[m]
        BY <3>1 DEF Below
      <3>3. QED
        BY <3>1, <3>2, <1>1, <1>2 DEF LastOf
    <2>3. QED
      BY <2>1, <2>2
  <1>9. /\ \A u \in M : Rank(M, u) \in 1..m /\ w[Rank(M, u)] = Below(w, Rank(M, u)) + f[u].n
        /\ \A t \in 1..m : Below(w, t) <= w[t]
    BY <1>1 DEF Weighs
  <1> HIDE DEF e
  <1>10. ASSUME NEW u \in N
         PROVE  Rank(N, u) \in 1..(m + 1) /\ e[Rank(N, u)] = Below(e, Rank(N, u)) + f[u].n
    <2>1. CASE u = v
      BY <2>1, <1>1, <1>2, <1>5, <1>8
    <2>2. CASE u \in M
      <3>1. PICK r \in 1..m : r = Rank(N, u) /\ r = Rank(M, u)
        BY <2>2, <1>6, <1>9
      <3>2. e[r] = w[r] /\ Below(e, r) = Below(w, r) /\ w[r] = Below(w, r) + f[u].n
        BY <3>1, <2>2, <1>2, <1>7, <1>9
      <3>3. QED
        BY <3>1, <3>2
    <2>3. QED
      BY <2>1, <2>2
  <1>11. ASSUME NEW t \in 1..(m + 1) PROVE Below(e, t) <= e[t]
    <2>1. CASE t = m + 1
      BY <2>1, <1>1, <1>2, <1>8
    <2>2. CASE t # m + 1
      <3>1. t \in 1..m
        BY <2>2
      <3>2. QED
        BY <3>1, <1>2, <1>7, <1>9
    <2>3. QED
      BY <2>1, <2>2
  <1> HIDE DEF N
  <1>12. Weighs(f, N, e)
    BY <1>2, <1>4, <1>10, <1>11 DEF Weighs
  <1>13. QED
    BY <1>1, <1>12 DEF N, e

-----------------------------------------------------------------------------
(* Reading the file *)

MembersIn(f, b, e) == {u \in b..e : f[u].kind = "member"}

\* Of a block whose COUNT is right, what is stored are the weights of the members read
\* so far, and once the COUNT is read there is room for all of them.
Loaded(b, c, e) ==
  /\ ~name_set => /\ line <= b /\ count = 0 /\ state = "reading"
                  /\ target.weight = <<>> /\ target.max = 0
  /\ name_set => \E v \in b..e :
       /\ v = line - 1 /\ state \notin {"overrun", "exit"} /\ (state = "reading" <=> v # e)
       /\ Weighs(file, MembersIn(file, b, v), target.weight)
       /\ count = Len(target.weight) /\ target.max = LastOf(target.weight)
       /\ v >= c => target.count = Cardinality(MembersIn(file, b, e))

Counted(b, c, e) == Dists!Block(b, e) /\ Dists!CountIsRight(b, c, e)

WeightInv ==
  \A b, e \in 1..Len(file) : \A c \in b..e : Counted(b, c, e) => Loaded(b, c, e)

(* The lines of a file.                                                     *)
LEMMA FileLines ==
  ASSUME DistTypes
  PROVE  /\ file \in Seq(Dists!Line) /\ line \in Nat \ {0} /\ Len(file) \in Nat
         /\ \A u \in 1..Len(file) : file[u].kind \in {"COUNT", "member"} => file[u].n \in Nat
  <1>1. file \in Seq(Dists!Line) /\ line \in Nat \ {0}
    BY PartsAssumption DEF DistTypes, Dists!DistsAssumption
  <1>2. \A u \in 1..Len(file) : file[u] \in Dists!Line
    BY <1>1
  <1>3. QED
    BY <1>1, <1>2 DEF Dists!Line

(* What a right COUNT says of the lines of its block.                       *)
LEMMA CountedBlock ==
  ASSUME DistTypes, NEW b \in 1..Len(file), NEW e \in 1..Len(file), NEW c \in b..e,
         Counted(b, c, e)
  PROVE  /\ b \in Nat /\ c \in Nat /\ e \in Nat /\ b <= c /\ c <= e
         /\ file[b].kind = "BEGIN" /\ file[b].name = Wanted
         /\ \A p \in 1..(b - 1) : ~(file[p].kind = "BEGIN" /\ file[p].name = Wanted)
         /\ file[e].kind = "END" /\ \A p \in b..(e - 1) : file[p].kind # "END"
         /\ file[c].kind = "COUNT" /\ file[c].n = Cardinality(MembersIn(file, b, e))
         /\ \A p \in b..e : /\ (file[p].kind = "COUNT" => p <= c)
                             /\ (file[p].kind = "member" => c < p)
  <1>1. \A S : Dists!Cardinality(S) = Cardinality(S)
    BY Zenon DEF Dists!Cardinality, Cardinality
  <1>2. Dists!Own(b, e) = MembersIn(file, b, e)
    BY DEF Dists!Own, MembersIn
  <1>3. b \in Nat /\ c \in Nat /\ e \in Nat /\ b <= c /\ c <= e
    BY FileLines
  <1>4. QED
    BY <1>1, <1>2, <1>3 DEF Counted, Dists!Block, Dists!CountIsRight

(* No member yet.                                                           *)
LEMMA NoMembers ==
  ASSUME NEW f, NEW b, NEW e, MembersIn(f, b, e) = {}
  PROVE  Weighs(f, MembersIn(f, b, e), <<>>)
  <1>1. <<>> \in Seq(Nat) /\ Len(<<>>) = 0
    OBVIOUS
  <1>2. QED
    BY <1>1, FS_EmptySet DEF Weighs

LEMMA SeekLoads ==
  ASSUME DistTypes, Dists!Seek, NEW b \in 1..Len(file), NEW e \in 1..Len(file), NEW c \in b..e,
         Counted(b, c, e), Loaded(b, c, e)
  PROVE  Loaded(b, c, e)'
  <1>1. PICK v \in Nat \ {0} : v = line /\ v \in 1..Len(file) /\ line' = v + 1
    BY FileLines DEF Dists!Seek
  <1>2. /\ ~name_set /\ state = "reading" /\ UNCHANGED <<file, count, target, state>>
        /\ name_set' = (file[v].kind = "BEGIN" /\ file[v].name = Wanted)
    BY <1>1 DEF Dists!Seek
  <1>3. v <= b /\ count = 0 /\ target.weight = <<>> /\ target.max = 0
    BY <1>1, <1>2 DEF Loaded
  <1>4. b \in Nat /\ c \in Nat /\ e \in Nat /\ b <= c /\ c <= e
        /\ file[b].kind = "BEGIN" /\ file[b].name = Wanted /\ file[e].kind = "END"
        /\ file[c].kind = "COUNT"
        /\ \A p \in 1..(b - 1) : ~(file[p].kind = "BEGIN" /\ file[p].name = Wanted)
    BY CountedBlock
  <1>5. CASE v < b
    <2>1. v \in 1..(b - 1) /\ v + 1 <= b
      BY <1>1, <1>4, <1>5
    <2>2. ~name_set'
      BY <1>2, <1>4, <2>1
    <2>3. QED
      BY <1>1, <1>2, <1>3, <2>1, <2>2 DEF Loaded
  <1>6. CASE v = b
    <2>1. name_set' /\ b # e /\ ~(b >= c) /\ b \in b..e
      <3>1. name_set'
        BY <1>2, <1>4, <1>6, Zenon
      <3>2. b # e /\ b # c
        BY <1>4
      <3>3. ~(b >= c) /\ b \in b..e
        BY <1>4, <3>2
      <3>4. QED
        BY <3>1, <3>2, <3>3
    <2>2. MembersIn(file, b, b) = {}
      BY <1>4 DEF MembersIn
    <2>3. Weighs(file, MembersIn(file, b, b), target.weight)
      BY <1>3, <2>2, NoMembers
    <2>4. Len(target.weight) = 0 /\ LastOf(target.weight) = 0
      BY <1>3 DEF LastOf
    <2>5. b = line' - 1
      BY <1>1, <1>4, <1>6
    <2>6. QED
      BY <1>2, <1>3, <2>1, <2>3, <2>4, <2>5 DEF Loaded
  <1>7. QED
    BY <1>1, <1>3, <1>4, <1>5, <1>6

LEMMA ReadLineLoads ==
  ASSUME DistTypes, Dists!ReadLine, NEW b \in 1..Len(file), NEW e \in 1..Len(file),
         NEW c \in b..e, Counted(b, c, e), Loaded(b, c, e)
  PROVE  Loaded(b, c, e)'
  <1>1. PICK v \in Nat : v = line /\ v \in 1..Len(file) /\ line' = v + 1 /\ v # 0
    BY FileLines DEF Dists!ReadLine
  <1>2. /\ name_set /\ name_set' /\ file' = file /\ state = "reading"
        /\ count' = IF file[v].kind = "member" THEN count + 1 ELSE count
        /\ state' = CASE file[v].kind = "END"                                -> "ready"
                      [] file[v].kind = "member" /\ count >= target.count -> "overrun"
                      [] OTHER                                             -> "reading"
        /\ target' = CASE file[v].kind = "COUNT" ->
                            [count |-> file[v].n, max |-> 0,
                             weight |-> [m \in 1..count |-> Dists!Unset]]
                       [] file[v].kind = "member" ->
                            [target EXCEPT !.max = @ + file[v].n,
                                           !.weight = Dists!AddMember(file[v].n)]
                       [] OTHER -> target
    BY <1>1 DEF Dists!ReadLine
  <1>3. /\ v - 1 \in b..e /\ v - 1 # e
        /\ Weighs(file, MembersIn(file, b, v - 1), target.weight)
        /\ count = Len(target.weight) /\ target.max = LastOf(target.weight)
        /\ v - 1 >= c => target.count = Cardinality(MembersIn(file, b, e))
    BY <1>1, <1>2 DEF Loaded
  <1>4. b \in Nat /\ c \in Nat /\ e \in Nat /\ b <= c /\ c <= e
        /\ file[e].kind = "END" /\ (\A p \in b..(e - 1) : file[p].kind # "END")
        /\ file[c].kind = "COUNT" /\ file[c].n = Cardinality(MembersIn(file, b, e))
        /\ \A p \in b..e : /\ (file[p].kind = "COUNT" => p <= c)
                            /\ (file[p].kind = "member" => c < p)
    BY CountedBlock
  <1>5. v \in b..e /\ v \in (b + 1)..e /\ (v + 1) - 1 = v /\ b <= v - 1
    BY <1>1, <1>3, <1>4
  <1>6. file[v].kind = "END" <=> v = e
    <2>1. v # e => v \in b..(e - 1)
      BY <1>4, <1>5
    <2>2. QED
      BY <1>4, <2>1
  <1>7. target.count \in Nat /\ count \in Nat /\ target.weight \in Seq(Int)
    BY DEF DistTypes
  <1>8. SUFFICES /\ state' \notin {"overrun", "exit"} /\ (state' = "reading" <=> v # e)
                 /\ Weighs(file, MembersIn(file, b, v), target'.weight)
                 /\ count' = Len(target'.weight) /\ target'.max = LastOf(target'.weight)
                 /\ v >= c => target'.count = Cardinality(MembersIn(file, b, e))
    BY <1>1, <1>2, <1>5 DEF Loaded
  <1>9. CASE file[v].kind = "COUNT"
    <2>1. v <= c /\ v # e
      BY <1>4, <1>5, <1>6, <1>9
    <2>2. MembersIn(file, b, v - 1) = {} /\ MembersIn(file, b, v) = {}
      <3>1. ASSUME NEW p \in b..v PROVE file[p].kind # "member"
        <4>1. p \in b..e /\ ~(c < p)
          BY <1>4, <1>5, <2>1
        <4>2. QED
          BY <1>4, <4>1
      <3>2. \A p \in b..(v - 1) : p \in b..v
        BY <1>4, <1>5
      <3>3. QED
        BY <3>1, <3>2 DEF MembersIn
    <2>3. count = 0
      BY <1>3, <2>2, FS_EmptySet DEF Weighs
    <2>4. target' = [count |-> file[v].n, max |-> 0,
                     weight |-> [m \in 1..count |-> Dists!Unset]]
      BY <1>2, <1>9
    <2>5. target'.weight = <<>> /\ target'.max = 0 /\ target'.count = file[v].n
      <3>1. [m \in 1..0 |-> Dists!Unset] = <<>>
        OBVIOUS
      <3>2. QED
        BY <2>3, <2>4, <3>1
    <2>6. Weighs(file, MembersIn(file, b, v), target'.weight)
      BY <2>2, <2>5, NoMembers
    <2>7. state' = "reading" /\ count' = 0
      BY <1>2, <1>9, <2>3
    <2>8. Len(target'.weight) = 0 /\ LastOf(target'.weight) = 0
      BY <2>5 DEF LastOf
    <2>9. v >= c => target'.count = Cardinality(MembersIn(file, b, e))
      BY <1>4, <1>5, <2>1, <2>5
    <2>10. QED
      BY <2>1, <2>5, <2>6, <2>7, <2>8, <2>9
  <1>10. CASE file[v].kind = "member"
    <2>1. c < v /\ v # e /\ v - 1 >= c
      BY <1>4, <1>5, <1>6, <1>10
    <2>2. file[v].n \in Nat
      BY <1>1, <1>10, FileLines
    <2>3. target' = [target EXCEPT !.max = target.max + file[v].n,
                                   !.weight = Append(target.weight, target.max + file[v].n)]
      BY <1>2, <1>10 DEF Dists!AddMember
    <2>4. /\ target'.weight = Append(target.weight, LastOf(target.weight) + file[v].n)
          /\ target'.max = LastOf(target.weight) + file[v].n /\ target'.count = target.count
      BY <1>3, <2>3 DEF DistTypes
    <2>5. MembersIn(file, b, v) = MembersIn(file, b, v - 1) \cup {v}
      BY <1>4, <1>5, <1>10 DEF MembersIn
    <2>6. MembersIn(file, b, v - 1) \in SUBSET (1..(v - 1))
      BY <1>4, <1>5 DEF MembersIn
    <2>7. Weighs(file, MembersIn(file, b, v), target'.weight)
      <3>1. Weighs(file, MembersIn(file, b, v - 1) \cup {v},
                   Append(target.weight, LastOf(target.weight) + file[v].n))
        BY <1>3, <2>2, <2>6, OneMemberMore
      <3>2. QED
        BY <2>4, <2>5, <3>1
    <2>8. Len(target'.weight) = count + 1 /\ LastOf(target'.weight) = target'.max
      <3>1. PICK w, x : w = target.weight /\ x = LastOf(target.weight) + file[v].n
        OBVIOUS
      <3>2. w \in Seq(Nat) /\ x \in Nat
        BY <1>3, <2>2, <3>1 DEF Weighs, LastOf
      <3>3. Len(Append(w, x)) = Len(w) + 1 /\ Append(w, x) # <<>>
            /\ Append(w, x)[Len(w) + 1] = x
        BY <3>2
      <3>4. QED
        BY <1>3, <2>4, <3>1, <3>3 DEF LastOf
    <2>9. count < target.count
      <3>1. MembersIn(file, b, v) \in SUBSET MembersIn(file, b, e)
        BY <1>4, <1>5 DEF MembersIn
      <3>2. IsFiniteSet(MembersIn(file, b, e))
        <4>1. IsFiniteSet(b..e) /\ MembersIn(file, b, e) \in SUBSET (b..e)
          BY <1>4, FS_Interval DEF MembersIn
        <4>2. QED
          BY <4>1, FS_Subset
      <3>3. Cardinality(MembersIn(file, b, v)) <= Cardinality(MembersIn(file, b, e))
        BY <3>1, <3>2, FS_Subset
      <3>4. Cardinality(MembersIn(file, b, v)) = count + 1
        BY <2>7, <2>8 DEF Weighs
      <3>5. target.count = Cardinality(MembersIn(file, b, e))
        BY <1>3, <2>1
      <3>6. QED
        BY <1>7, <3>3, <3>4, <3>5
    <2>10. state' = "reading" /\ count' = count + 1
      BY <1>2, <1>7, <1>10, <2>9
    <2>11. target'.count = Cardinality(MembersIn(file, b, e))
      BY <1>3, <2>1, <2>4
    <2>12. QED
      BY <2>1, <2>7, <2>8, <2>10, <2>11
  <1>11. CASE file[v].kind \notin {"COUNT", "member"}
    <2>1. target' = target /\ count' = count
          /\ state' = IF file[v].kind = "END" THEN "ready" ELSE "reading"
      BY <1>2, <1>11
    <2>2. MembersIn(file, b, v) = MembersIn(file, b, v - 1)
      BY <1>4, <1>5, <1>11 DEF MembersIn
    <2>3. v >= c => v - 1 >= c
      BY <1>4, <1>5, <1>11
    <2>4. QED
      BY <1>3, <1>6, <2>1, <2>2, <2>3
  <1>12. QED
    BY <1>9, <1>10, <1>11

LEMMA WeightsPreserved == DistTypes /\ WeightInv /\ [Dists!Next]_dists => WeightInv'
  <1> SUFFICES ASSUME DistTypes, WeightInv, [Dists!Next]_dists PROVE WeightInv'
    OBVIOUS
  <1>1. file' = file
    BY DEF Dists!Next, Dists!Seek, Dists!ReadLine, Dists!EndOfFile, Dists!agg_str,
      Dists!Permute, Dists!Aggregate, dists
  <1>2. SUFFICES ASSUME NEW b \in 1..Len(file), NEW e \in 1..Len(file), NEW c \in b..e,
                        Counted(b, c, e)
                 PROVE  Loaded(b, c, e)'
    <2>1. \A b, c, e : Counted(b, c, e)' <=> Counted(b, c, e)
      BY <1>1 DEF Counted, Dists!Block, Dists!CountIsRight, Dists!Own
    <2>2. QED
      BY <1>1, <2>1 DEF WeightInv
  <1>3. Loaded(b, c, e)
    BY <1>2 DEF WeightInv
  <1>4. CASE Dists!Seek
    BY <1>2, <1>3, <1>4, SeekLoads
  <1>5. CASE Dists!ReadLine
    BY <1>2, <1>3, <1>5, ReadLineLoads
  <1>6. CASE Dists!EndOfFile
    <2>1. state = "reading" /\ line > Len(file)
      BY <1>6 DEF Dists!EndOfFile
    <2>2. line \in Nat /\ Len(file) \in Nat /\ b <= Len(file) /\ e <= Len(file)
      BY <1>2, FileLines
    <2>3. b \in Nat /\ e \in Nat
      BY <1>2, CountedBlock
    <2>4. name_set
      BY <1>3, <2>1, <2>2, <2>3 DEF Loaded
    <2>5. line - 1 \in b..e /\ line - 1 # e
      BY <1>3, <2>1, <2>4 DEF Loaded
    <2>6. QED
      BY <2>1, <2>2, <2>3, <2>5
  <1>7. CASE Dists!agg_str \/ Dists!Permute \/ Dists!Aggregate \/ UNCHANGED dists
    <2>1. /\ UNCHANGED <<file, line, name_set, count, target>>
          /\ \A s \in {"reading", "overrun", "exit"} : state' = s <=> state = s
      BY <1>7 DEF Dists!agg_str, Dists!Permute, Dists!Aggregate, dists
    <2>2. /\ (state' = "reading") = (state = "reading")
          /\ state \notin {"overrun", "exit"} => state' \notin {"overrun", "exit"}
      BY <2>1
    <2>3. QED
      BY <1>3, <2>1, <2>2 DEF Loaded
  <1>8. QED
    BY <1>4, <1>5, <1>6, <1>7 DEF Dists!Next

LEMMA WeightInvGives == DistTypes /\ WeightInv => PicksAreWeighted
  <1> SUFFICES ASSUME DistTypes, WeightInv, state # "reading", name_set,
                      NEW b \in 1..Len(file), NEW e \in 1..Len(file), NEW c \in b..e,
                      Counted(b, c, e)
               PROVE  /\ state \notin {"overrun", "exit"}
                      /\ Len(target.weight) = target.count
                      /\ target.count = Cardinality(Dists!Own(b, e))
                      /\ \A u \in Dists!Own(b, e) :
                           Cardinality({j \in Dists!Draws :
                             Dists!pick_str(j) = Cardinality({p \in Dists!Own(b, e) : p <= u})})
                               = file[u].n
    <2>1. \A S : Dists!Cardinality(S) = Cardinality(S)
      BY Zenon DEF Dists!Cardinality, Cardinality
    <2>2. QED
      BY <2>1 DEF PicksAreWeighted, Dists!PicksAreWeighted, Counted
  <1>1. Loaded(b, c, e)
    BY DEF WeightInv
  <1>2. /\ state \notin {"overrun", "exit"}
        /\ Weighs(file, MembersIn(file, b, e), target.weight)
        /\ e >= c => target.count = Cardinality(MembersIn(file, b, e))
    BY <1>1 DEF Loaded
  <1>3. e >= c
    BY CountedBlock
  <1>4. Dists!Own(b, e) = MembersIn(file, b, e)
    BY DEF Dists!Own, MembersIn
  <1>5. PICK M, w, f : M = Dists!Own(b, e) /\ w = target.weight /\ f = file
    OBVIOUS
  <1>6. Weighs(f, M, w) /\ Len(w) = target.count /\ target.count = Cardinality(M)
    BY <1>2, <1>3, <1>4, <1>5 DEF Weighs
  <1>7. ASSUME NEW u \in M
        PROVE  Cardinality({j \in Dists!Draws : Dists!pick_str(j) = Rank(M, u)}) = f[u].n
    <2>1. f[u].n \in Nat
      BY <1>4, <1>5, <1>7, FileLines, CountedBlock DEF MembersIn
    <2>2. w # <<>> /\ w[Len(w)] = LastOf(w)
      <3>1. Len(w) \in Nat /\ Rank(M, u) \in 1..Len(w)
        BY <1>6, <1>7 DEF Weighs
      <3>2. w # <<>>
        BY <3>1
      <3>3. QED
        BY <3>2 DEF LastOf
    <2>3. Dists!Draws = 1..LastOf(w) /\ \A j : Dists!pick_str(j) = Picked(w, j)
      BY <1>5, <1>6, <2>2 DEF Dists!Draws, Dists!pick_str, Picked
    <2>4. Cardinality({j \in 1..LastOf(w) : Picked(w, j) = Rank(M, u)}) = f[u].n
      BY <1>6, <1>7, <2>1, PickedAsWeighed
    <2>5. QED
      BY <2>3, <2>4
  <1>8. QED
    BY <1>2, <1>5, <1>6, <1>7 DEF Rank

(* For every file whose COUNT for the distribution is right, wherever the   *)
(* distribution stands in it and whatever comments and blank lines it has:  *)
(* read_dist stays within the list it has allocated and fills it, and       *)
(* pick_str picks each member with as many draws as the file gives it       *)
(* weight. The code does not look at a COUNT when it meets an END; of files *)
(* whose COUNT is wrong nothing is said.                                    *)
THEOREM PicksAreWeightedHolds == PartsSpec => []PicksAreWeighted
  <1>1. Dists!Init => DistTypes /\ WeightInv
    <2> SUFFICES ASSUME Dists!Init PROVE DistTypes /\ WeightInv
      OBVIOUS
    <2>1. DistTypes
      BY DEF Dists!Init, DistTypes
    <2>2. line = 1 /\ ~name_set /\ count = 0 /\ state = "reading"
          /\ target.weight = <<>> /\ target.max = 0
      BY DEF Dists!Init
    <2>3. \A b \in 1..Len(file) : line <= b
      BY <2>2
    <2>4. QED
      BY <2>1, <2>2, <2>3 DEF WeightInv, Loaded
  <1>2. QED
    BY <1>1, DistTypesPreserved, WeightsPreserved, WeightInvGives, PartsDists, PTL

-----------------------------------------------------------------------------
(* Sentences *)

(* Numbers that are multiplied.                                             *)
LEMMA Times ==
  \A a, b \in Nat : a * b \in Nat /\ (a + 1) * b = a * b + b
  BY SMT

(* One position less of those of a sequence.                                *)
OneLess(m, A, B) ==
  m \in Nat \ {0} /\ A \in SUBSET (1..m) /\ B = {x \in 1..(m - 1) : x + 1 \in A}

LEMMA PositionsOfTail ==
  ASSUME NEW m, NEW A, NEW B, OneLess(m, A, B)
  PROVE  /\ Cardinality(A) \in Nat /\ Cardinality(B) \in Nat
         /\ Cardinality(A) = IF 1 \in A THEN Cardinality(B) + 1 ELSE Cardinality(B)
  <1> USE DEF OneLess
  <1> DEFINE up == [x \in B |-> x + 1]
  <1>1. IsFiniteSet(A) /\ IsFiniteSet(B)
    <2>1. IsFiniteSet(1..m) /\ IsFiniteSet(1..(m - 1)) /\ B \in SUBSET (1..(m - 1))
      BY FS_Interval
    <2>2. QED
      BY <2>1, FS_Subset
  <1>2. \A y \in A \ {1} : y - 1 \in B /\ up[y - 1] = y
    OBVIOUS
  <1>3. up \in [B -> A \ {1}] /\ \A x, y \in B : up[x] = up[y] => x = y
    OBVIOUS
  <1> HIDE DEF up
  <1>4. up \in Bijection(B, A \ {1})
    <2>1. up \in Injection(B, A \ {1})
      BY <1>3 DEF Injection, IsInjective
    <2>2. up \in Surjection(B, A \ {1})
      BY <1>2, <1>3 DEF Surjection
    <2>3. QED
      BY <2>1, <2>2 DEF Bijection
  <1>5. Cardinality(A \ {1}) = Cardinality(B)
    BY <1>1, <1>4, FS_Bijection DEF ExistsBijection
  <1>6. Cardinality(A) \in Nat /\ Cardinality(B) \in Nat
    BY <1>1, FS_CardinalityType
  <1>7. CASE 1 \in A
    <2>1. A = (A \ {1}) \cup {1} /\ IsFiniteSet(A \ {1})
      BY <1>1, <1>7, FS_RemoveElement
    <2>2. Cardinality(A) = Cardinality(A \ {1}) + 1
      BY <2>1, FS_AddElement
    <2>3. QED
      BY <2>2, <1>5, <1>6, <1>7
  <1>8. CASE 1 \notin A
    <2>1. A \ {1} = A
      BY <1>8
    <2>2. QED
      BY <2>1, <1>5, <1>6, <1>8
  <1>9. QED
    BY <1>7, <1>8

LEMMA CountOfTail ==
  ASSUME NEW form \in Text!Form, form # <<>>, NEW parts
  PROVE  /\ Count(form, parts) \in Nat /\ Count(Tail(form), parts) \in Nat
         /\ Count(form, parts) = IF Head(form).part \in parts
                                 THEN Count(Tail(form), parts) + 1 ELSE Count(Tail(form), parts)
  <1>1. PICK m \in Nat \ {0} : m = Len(form)
    BY DEF Text!Form
  <1>2. /\ DOMAIN form = 1..m /\ DOMAIN Tail(form) = 1..(m - 1) /\ Head(form) = form[1]
        /\ \A x \in 1..(m - 1) : Tail(form)[x] = form[x + 1]
    BY <1>1 DEF Text!Form
  <1> DEFINE A == {x \in DOMAIN form : form[x].part \in parts}
             B == {x \in DOMAIN Tail(form) : Tail(form)[x].part \in parts}
  <1>3. A \in SUBSET (1..m) /\ (1 \in A <=> Head(form).part \in parts)
    BY <1>1, <1>2
  <1>4. B = {x \in 1..(m - 1) : x + 1 \in A}
    <2>1. \A x \in 1..(m - 1) : x + 1 \in 1..m
      BY <1>1
    <2>2. QED
      BY <1>2, <2>1
  <1> HIDE DEF A, B
  <1>5. /\ Cardinality(A) \in Nat /\ Cardinality(B) \in Nat
        /\ Cardinality(A) = IF 1 \in A THEN Cardinality(B) + 1 ELSE Cardinality(B)
    <2>1. OneLess(m, A, B)
      BY <1>3, <1>4 DEF OneLess
    <2>2. QED
      BY ONLY <2>1, PositionsOfTail
  <1>6. QED
    BY <1>3, <1>5 DEF Count, A, B

LEMMA WordsOfTail ==
  ASSUME NEW form \in Text!Form, form # <<>>, NEW word \in Nat
  PROVE  /\ WordsLength(form, word) \in Nat /\ WordsLength(Tail(form), word) \in Nat
         /\ WordsLength(form, word) =
              WordsLength(Tail(form), word) + (word + 1) + (IF Head(form).mark THEN 1 ELSE 0)
  <1>1. PICK m \in Nat : m + 1 = Len(form)
    BY DEF Text!Form
  <1>2. /\ DOMAIN form = 1..(m + 1) /\ DOMAIN Tail(form) = 1..m /\ Head(form) = form[1]
        /\ Len(Tail(form)) = m
        /\ \A x \in 1..m : Tail(form)[x] = form[x + 1]
    BY <1>1 DEF Text!Form
  <1> DEFINE A == {x \in DOMAIN form : form[x].mark}
             B == {x \in DOMAIN Tail(form) : Tail(form)[x].mark}
  <1>3. A \in SUBSET (1..(m + 1)) /\ (1 \in A <=> Head(form).mark)
    BY <1>1, <1>2
  <1>4. B = {x \in 1..((m + 1) - 1) : x + 1 \in A}
    <2>1. (m + 1) - 1 = m /\ \A x \in 1..m : x + 1 \in 1..(m + 1)
      BY <1>1
    <2>2. QED
      BY <1>2, <2>1
  <1> HIDE DEF A, B
  <1>5. /\ Cardinality(A) \in Nat /\ Cardinality(B) \in Nat
        /\ Cardinality(A) = IF 1 \in A THEN Cardinality(B) + 1 ELSE Cardinality(B)
    <2>1. PICK u \in Nat \ {0} : u = m + 1
      OBVIOUS
    <2>2. OneLess(u, A, B)
      BY <2>1, <1>3, <1>4 DEF OneLess
    <2>3. /\ Cardinality(A) \in Nat /\ Cardinality(B) \in Nat
          /\ Cardinality(A) = IF 1 \in A THEN Cardinality(B) + 1 ELSE Cardinality(B)
      BY ONLY <2>2, PositionsOfTail
    <2>4. QED
      BY <2>3
  <1>6. PICK y \in Nat : y = m * (word + 1) /\ (m + 1) * (word + 1) = y + (word + 1)
    BY Times
  <1>7. /\ WordsLength(form, word) = y + (word + 1) + Cardinality(A)
        /\ WordsLength(Tail(form), word) = y + Cardinality(B)
    BY <1>1, <1>2, <1>6 DEF WordsLength, A, B
  <1>8. QED
    BY <1>3, <1>5, <1>6, <1>7

\* What is left of a sentence's form may take so many bytes more.
Room(form, word, words, term) ==
  Count(form, {"P"}) * (word + Text!THE) + Count(form, {"N", "V", "P"}) * words + term

\* What is left of a sentence's form: nothing, or tokens with a terminator at the end.
Rest(form) ==
  /\ form \in Text!Form /\ Unmarked(form)
  /\ \A x \in DOMAIN form : form[x].part = "T" <=> x = Len(form)

TextTypes ==
  /\ at \in {"pool", "sentence", "N", "V", "done", "comment"}
  /\ dest \in Nat /\ res \in Nat /\ wordlen \in Nat
  /\ cp = wordlen /\ wordlen <= TEXT_POOL_SIZE
  /\ at \in {"done", "comment"} => wordlen = TEXT_POOL_SIZE
  /\ at = "comment" => comment[1] + comment[2] <= TEXT_POOL_SIZE

\* While a sentence is made it has no hole, its length is right but for the byte that
\* the terminator gives back, and the rest of it fits.
SentenceInv(word, words, term) ==
  /\ dest <= Text!MAX_SENT_LEN
  /\ at \in {"sentence", "N", "V"} =>
       whole /\ Rest(syntax) /\ res = (IF syntax = <<>> THEN dest + 1 ELSE dest)
  /\ at = "sentence" /\ syntax # <<>> =>
       dest + Room(syntax, word, words, term) <= Text!MAX_SENT_LEN
  /\ at \in {"N", "V"} =>
       /\ syntax # <<>> /\ Head(syntax).part \in {"N", "V", "P"}
       /\ phrase \in Text!Form /\ (at = "V" => Unmarked(phrase))
       /\ dest + WordsLength(phrase, word) + Room(Tail(syntax), word, words, term)
            <= Text!MAX_SENT_LEN

(* The rest of a form, without its next token.                              *)
LEMMA RestOfTail ==
  ASSUME NEW form, Rest(form), form # <<>>
  PROVE  /\ Rest(Tail(form)) /\ ~Head(form).mark
         /\ Head(form).part = "T" => Tail(form) = <<>>
         /\ Head(form).part # "T" => Tail(form) # <<>>
  <1>1. PICK m \in Nat : m + 1 = Len(form)
    BY DEF Rest, Text!Form
  <1>2. /\ DOMAIN form = 1..(m + 1) /\ DOMAIN Tail(form) = 1..m /\ Head(form) = form[1]
        /\ Len(Tail(form)) = m /\ Tail(form) \in Text!Form
        /\ \A x \in 1..m : Tail(form)[x] = form[x + 1]
    BY <1>1 DEF Rest, Text!Form
  <1>3. \A x \in 1..m : x + 1 \in 1..(m + 1) /\ (x = m <=> x + 1 = m + 1)
    BY <1>1
  <1>4. Unmarked(Tail(form)) /\ ~Head(form).mark
    BY <1>1, <1>2, <1>3 DEF Rest, Unmarked
  <1>5. \A x \in DOMAIN Tail(form) : Tail(form)[x].part = "T" <=> x = Len(Tail(form))
    BY <1>1, <1>2, <1>3 DEF Rest
  <1>6. Head(form).part = "T" <=> m = 0
    BY <1>1, <1>2 DEF Rest
  <1>7. Tail(form) = <<>> <=> m = 0
    <2>1. PICK r : r = Tail(form) /\ r \in Text!Form /\ Len(r) = m
      BY <1>2
    <2>2. r = <<>> <=> Len(r) = 0
      <3>1. PICK T : r \in Seq(T)
        BY <2>1 DEF Text!Form
      <3>2. QED
        BY ONLY <3>1, EmptySeq
    <2>3. QED
      BY <2>1, <2>2
  <1>8. QED
    BY <1>2, <1>4, <1>5, <1>6, <1>7 DEF Rest

(* A phrase takes its part of the room, and a preposition.                  *)
LEMMA RoomOfTail ==
  ASSUME NEW form \in Text!Form, form # <<>>, NEW word \in Nat, NEW words \in Nat, NEW term \in Nat
  PROVE  /\ Room(form, word, words, term) \in Nat /\ Room(Tail(form), word, words, term) \in Nat
         /\ Room(form, word, words, term) =
              Room(Tail(form), word, words, term)
                + (IF Head(form).part = "P" THEN word + Text!THE ELSE 0)
                + (IF Head(form).part \in {"N", "V", "P"} THEN words ELSE 0)
  <1>1. PICK a, b \in Nat : /\ a = Count(Tail(form), {"P"})
                            /\ b = Count(form, {"P"})
                            /\ b = IF Head(form).part \in {"P"} THEN a + 1 ELSE a
    BY CountOfTail
  <1>2. PICK c, d \in Nat : /\ c = Count(Tail(form), {"N", "V", "P"})
                            /\ d = Count(form, {"N", "V", "P"})
                            /\ d = IF Head(form).part \in {"N", "V", "P"} THEN c + 1 ELSE c
    BY CountOfTail
  <1>3. PICK u \in Nat : u = word + Text!THE
    BY DEF Text!THE
  <1>4. /\ a * u \in Nat /\ b * u \in Nat /\ c * words \in Nat /\ d * words \in Nat
        /\ (a + 1) * u = a * u + u /\ (c + 1) * words = c * words + words
    BY Times
  <1>5. b * u = a * u + (IF Head(form).part = "P" THEN u ELSE 0)
    BY <1>1, <1>4, SMTT(30)
  <1>6. d * words = c * words + (IF Head(form).part \in {"N", "V", "P"} THEN words ELSE 0)
    BY <1>2, <1>4, SMTT(30)
  <1>7. PICK p, q, r, s \in Nat : p = a * u /\ q = b * u /\ r = c * words /\ s = d * words
    BY <1>4
  <1>8. Room(form, word, words, term) = q + s + term /\ Room(Tail(form), word, words, term) = p + r + term
    BY <1>1, <1>2, <1>3, <1>7 DEF Room
  <1>9. PICK y, z \in Nat :
          /\ y = (IF Head(form).part = "P" THEN word + Text!THE ELSE 0)
          /\ z = (IF Head(form).part \in {"N", "V", "P"} THEN words ELSE 0)
          /\ q = p + y /\ s = r + z
    BY <1>3, <1>5, <1>6, <1>7
  <1>10. q + s + term = (p + r + term) + y + z
    BY ONLY <1>9, term \in Nat, p \in Nat, q \in Nat, r \in Nat, s \in Nat, y \in Nat, z \in Nat
  <1>11. q + s + term \in Nat /\ p + r + term \in Nat
    OBVIOUS
  <1>12. Room(form, word, words, term) = Room(Tail(form), word, words, term) + y + z
    BY ONLY <1>8, <1>10
  <1>13. QED
    BY <1>8, <1>9, <1>11, <1>12

LEMMA TextTypesPreserved ==
  ASSUME TextTypes, [Text!Next]_text
  PROVE  TextTypes'
  <1>1. WordLengths \subseteq Nat \ {0} /\ TermLengths \subseteq Nat \ {0} /\ TEXT_POOL_SIZE \in Nat
    BY PartsAssumption DEF Text!TextAssumption
  <1>2. CASE Text!StartSentence
    BY <1>2 DEF Text!StartSentence, TextTypes
  <1>3. CASE Text!StartPhrase
    <2>1. PICK x \in Nat : dest' = dest + x /\ res' = res + x
      <3>1. PICK y \in WordLengths : LET b == IF Head(syntax).part = "P" THEN y + Text!THE ELSE 0
                                     IN  dest' = dest + b /\ res' = res + b
        BY <1>3 DEF Text!StartPhrase
      <3>2. QED
        BY <3>1, <1>1 DEF Text!THE
    <2>2. at' \in {"N", "V"} /\ UNCHANGED <<wordlen, cp, comment>>
      BY <1>3 DEF Text!StartPhrase
    <2>3. QED
      BY <2>1, <2>2 DEF TextTypes
  <1>4. CASE Text!Word
    <2>1. PICK x \in Nat : dest' = dest + x /\ res' = res + x
      <3>1. PICK y \in WordLengths : LET b == y + (IF Head(phrase).mark THEN 1 ELSE 0) + 1
                                     IN  dest' = dest + b /\ res' = res + b
        BY <1>4 DEF Text!Word
      <3>2. QED
        BY <3>1, <1>1
    <2>2. UNCHANGED <<at, wordlen, cp, comment>>
      BY <1>4 DEF Text!Word
    <2>3. QED
      BY <2>1, <2>2 DEF TextTypes
  <1>5. CASE Text!EndPhrase
    BY <1>5 DEF Text!EndPhrase, TextTypes
  <1>6. CASE Text!Terminate
    BY <1>1, <1>6 DEF Text!Terminate, TextTypes
  <1>7. CASE Text!AddSentence
    BY <1>1, <1>7 DEF Text!AddSentence, TextTypes
  <1>8. CASE Text!EndPool
    BY <1>1, <1>8 DEF Text!EndPool, TextTypes
  <1>9. CASE Text!dbg_text
    <2>1. PICK c \in PoolComments :
            \E y \in 0..(TEXT_POOL_SIZE - c[2]), x \in c[1]..c[2] : comment' = <<y, x>>
      BY <1>9 DEF Text!dbg_text
    <2>2. c[1] \in Nat /\ c[2] \in Nat
      BY <2>1, PartsAssumption DEF Text!TextAssumption
    <2>3. comment'[1] + comment'[2] <= TEXT_POOL_SIZE
      BY <2>1, <2>2, <1>1
    <2>4. at = "done" /\ at' = "comment" /\ UNCHANGED <<dest, res, wordlen, cp>>
      BY <1>9 DEF Text!dbg_text
    <2>5. QED
      BY <2>3, <2>4 DEF TextTypes
  <1>10. CASE UNCHANGED text
    BY <1>10 DEF text, TextTypes
  <1>11. QED
    BY <1>2, <1>3, <1>4, <1>5, <1>6, <1>7, <1>8, <1>9, <1>10 DEF Text!Next

LEMMA SentencePreserved ==
  ASSUME NEW word \in Nat, NEW words \in Nat, NEW term \in Nat, SentencesFit(word, words, term),
         TextTypes, SentenceInv(word, words, term), [Text!Next]_text
  PROVE  SentenceInv(word, words, term)'
  <1>1. /\ WordLengths \subseteq Nat \ {0} /\ TermLengths \subseteq Nat \ {0}
        /\ grammar \subseteq Text!Form /\ np \subseteq Text!Form /\ vp \subseteq Text!Form
    BY PartsAssumption DEF Text!TextAssumption
  <1>2. dest \in Nat /\ res \in Nat /\ Text!MAX_SENT_LEN \in Nat
    BY DEF TextTypes, Text!MAX_SENT_LEN
  <1>3. CASE Text!StartSentence
    <2>1. PICK form \in grammar : syntax' = form
      BY <1>3 DEF Text!StartSentence
    <2>2. Rest(form) /\ form # <<>> /\ Room(form, word, words, term) <= Text!MAX_SENT_LEN
      BY <2>1, <1>1 DEF SentencesFit, Rest, Room
    <2>3. Room(form, word, words, term) \in Nat
      BY <2>1, <2>2, <1>1, RoomOfTail
    <2>4. QED
      BY <1>2, <1>3, <2>1, <2>2, <2>3 DEF Text!StartSentence, SentenceInv
  <1>4. CASE Text!StartPhrase
    <2> DEFINE p == Head(syntax).part
    <2>1. /\ at = "sentence" /\ syntax # <<>> /\ p \in {"N", "V", "P"} /\ UNCHANGED <<syntax, whole>>
          /\ phrase' \in (IF p = "V" THEN vp ELSE np) /\ at' = IF p = "V" THEN "V" ELSE "N"
      BY <1>4 DEF Text!StartPhrase
    <2>2. PICK y \in Nat : /\ y <= (IF p = "P" THEN word + Text!THE ELSE 0)
                           /\ dest' = dest + y /\ res' = res + y
      <3>1. PICK x \in WordLengths : LET b == IF p = "P" THEN x + Text!THE ELSE 0
                                     IN  dest' = dest + b /\ res' = res + b
        BY <1>4 DEF Text!StartPhrase
      <3>2. x \in Nat /\ x <= word
        BY <3>1, <1>1 DEF SentencesFit
      <3>3. QED
        BY <3>1, <3>2 DEF Text!THE
    <2>3. PICK f : f = phrase' /\ f \in Text!Form /\ (at' = "V" => Unmarked(f))
                   /\ WordsLength(f, word) <= words
      BY <2>1, <1>1 DEF SentencesFit
    <2>4. WordsLength(f, word) \in Nat
      <3>1. CASE f = <<>>
        <4>1. Len(f) = 0 /\ DOMAIN f = {}
          BY <3>1
        <4>2. {x \in DOMAIN f : f[x].mark} = {}
          BY <4>1
        <4>3. 0 * (word + 1) = 0
          OBVIOUS
        <4>4. QED
          BY <4>1, <4>2, <4>3, FS_EmptySet DEF WordsLength
      <3>2. CASE f # <<>>
        BY <3>2, <2>3, WordsOfTail
      <3>3. QED
        BY <3>1, <3>2
    <2>5. PICK r, s \in Nat : /\ r = Room(Tail(syntax), word, words, term)
                              /\ s = Room(syntax, word, words, term)
                              /\ s = r + (IF p = "P" THEN word + Text!THE ELSE 0) + words
      <3>1. PICK form : form = syntax /\ form \in Text!Form
        BY <2>1 DEF SentenceInv, Rest
      <3>2. /\ Room(form, word, words, term) \in Nat /\ Room(Tail(form), word, words, term) \in Nat
            /\ Room(form, word, words, term) =
                 Room(Tail(form), word, words, term)
                   + (IF Head(form).part = "P" THEN word + Text!THE ELSE 0)
                   + (IF Head(form).part \in {"N", "V", "P"} THEN words ELSE 0)
        <4>1. form \in Text!Form /\ form # <<>>
          BY <3>1, <2>1
        <4>2. QED
          BY ONLY <4>1, RoomOfTail, word \in Nat, words \in Nat, term \in Nat
      <3>3. QED
        BY <3>1, <3>2, <2>1
    <2>6. dest + s <= Text!MAX_SENT_LEN /\ whole /\ Rest(syntax) /\ res = dest
      BY <2>1, <2>5 DEF SentenceInv
    <2>7. dest + y + WordsLength(f, word) + r <= Text!MAX_SENT_LEN
      <3>1. PICK z \in Nat : z = IF p = "P" THEN word + Text!THE ELSE 0
        BY DEF Text!THE
      <3>2. PICK g \in Nat : g = WordsLength(f, word) /\ g <= words
        BY <2>3, <2>4
      <3>3. dest + (r + z + words) <= Text!MAX_SENT_LEN /\ y <= z
        BY <2>2, <2>5, <2>6, <3>1
      <3>4. QED
        BY ONLY <3>2, <3>3, y \in Nat, r \in Nat, z \in Nat, g \in Nat, words \in Nat, <1>2
    <2>8. dest + y <= Text!MAX_SENT_LEN
      BY <2>4, <2>7, <1>2
    <2> HIDE DEF p
    <2>9. QED
      BY <2>1, <2>2, <2>3, <2>5, <2>6, <2>7, <2>8, <1>2 DEF SentenceInv, p
  <1>5. CASE Text!Word
    <2>1. /\ at \in {"N", "V"} /\ phrase # <<>> /\ UNCHANGED <<at, syntax>> /\ phrase' = Tail(phrase)
          /\ whole' = (whole /\ ~(at = "V" /\ Head(phrase).mark))
      BY <1>5 DEF Text!Word
    <2>2. PICK y \in Nat : /\ y <= word + (IF Head(phrase).mark THEN 1 ELSE 0) + 1
                           /\ dest' = dest + y /\ res' = res + y
      <3>1. PICK x \in WordLengths : LET b == x + (IF Head(phrase).mark THEN 1 ELSE 0) + 1
                                     IN  dest' = dest + b /\ res' = res + b
        BY <1>5 DEF Text!Word
      <3>2. x \in Nat /\ x <= word
        BY <3>1, <1>1 DEF SentencesFit
      <3>3. QED
        BY <3>1, <3>2
    <2>3. /\ phrase \in Text!Form /\ (at = "V" => Unmarked(phrase)) /\ syntax # <<>>
          /\ dest + WordsLength(phrase, word) + Room(Tail(syntax), word, words, term)
               <= Text!MAX_SENT_LEN
          /\ whole /\ Rest(syntax) /\ res = dest /\ Head(syntax).part \in {"N", "V", "P"}
      BY <2>1 DEF SentenceInv
    <2>4. PICK a, b \in Nat : /\ a = WordsLength(phrase, word) /\ b = WordsLength(Tail(phrase), word)
                              /\ a = b + (word + 1) + (IF Head(phrase).mark THEN 1 ELSE 0)
      BY <2>1, <2>3, WordsOfTail
    <2>5. PICK r \in Nat : r = Room(Tail(syntax), word, words, term)
      BY <2>3, RoomOfTail DEF Rest
    <2>6. dest + y + b + r <= Text!MAX_SENT_LEN /\ dest + y <= Text!MAX_SENT_LEN
      <3>1. PICK z \in Nat : z = IF Head(phrase).mark THEN 1 ELSE 0
        OBVIOUS
      <3>2. y <= word + z + 1 /\ a = b + (word + 1) + z /\ dest + a + r <= Text!MAX_SENT_LEN
        BY <3>1, <2>2, <2>3, <2>4, <2>5
      <3>3. QED
        BY ONLY <3>2, <1>2, y \in Nat, z \in Nat, a \in Nat, b \in Nat, r \in Nat, word \in Nat
    <2>7. Tail(phrase) \in Text!Form /\ (at = "V" => Unmarked(Tail(phrase)) /\ ~Head(phrase).mark)
      <3>1. PICK m \in Nat : m + 1 = Len(phrase)
        BY <2>1, <2>3 DEF Text!Form
      <3>2. /\ DOMAIN phrase = 1..(m + 1) /\ DOMAIN Tail(phrase) = 1..m /\ Head(phrase) = phrase[1]
            /\ Tail(phrase) \in Text!Form /\ \A x \in 1..m : Tail(phrase)[x] = phrase[x + 1]
        BY <3>1, <2>1, <2>3 DEF Text!Form
      <3>3. QED
        BY <3>1, <3>2, <2>3 DEF Unmarked
    <2>8. whole' /\ res' = dest'
      BY <2>1, <2>2, <2>3, <2>7
    <2>9. QED
      BY <2>1, <2>2, <2>3, <2>4, <2>5, <2>6, <2>7, <2>8, <1>2 DEF SentenceInv
  <1>6. CASE Text!EndPhrase
    <2>1. /\ at \in {"N", "V"} /\ at' = "sentence" /\ syntax' = Tail(syntax) /\ syntax # <<>>
          /\ whole /\ Rest(syntax) /\ res = dest /\ Head(syntax).part \in {"N", "V", "P"}
          /\ phrase = <<>>
          /\ dest + WordsLength(phrase, word) + Room(Tail(syntax), word, words, term)
               <= Text!MAX_SENT_LEN
      BY <1>6 DEF Text!EndPhrase, SentenceInv
    <2>2. Rest(Tail(syntax)) /\ ~Head(syntax).mark /\ Tail(syntax) # <<>>
      BY <2>1, RestOfTail
    <2>3. UNCHANGED <<dest, res, whole>>
      BY <1>6, <2>2 DEF Text!EndPhrase
    <2>4. WordsLength(phrase, word) = 0
      <3>1. Len(phrase) = 0 /\ DOMAIN phrase = {}
        BY <2>1
      <3>2. {x \in DOMAIN phrase : phrase[x].mark} = {}
        BY <3>1
      <3>3. 0 * (word + 1) = 0
        OBVIOUS
      <3>4. QED
        BY <3>1, <3>2, <3>3, FS_EmptySet DEF WordsLength
    <2>5. Room(Tail(syntax), word, words, term) \in Nat
      BY <2>1, RoomOfTail DEF Rest
    <2>6. dest + Room(Tail(syntax), word, words, term) <= Text!MAX_SENT_LEN
      BY <2>1, <2>4, <2>5, <1>2
    <2>7. QED
      BY <2>1, <2>2, <2>3, <2>6 DEF SentenceInv
  <1>7. CASE Text!Terminate
    <2>1. /\ at = "sentence" /\ syntax # <<>> /\ Head(syntax).part = "T" /\ UNCHANGED <<at, whole>>
          /\ syntax' = Tail(syntax) /\ whole /\ Rest(syntax) /\ res = dest
          /\ dest + Room(syntax, word, words, term) <= Text!MAX_SENT_LEN
      BY <1>7 DEF Text!Terminate, SentenceInv
    <2>2. PICK y \in TermLengths : dest' = dest - 1 + y /\ res' = res + y
      BY <1>7 DEF Text!Terminate
    <2>3. y \in Nat /\ y <= term
      BY <2>2, <1>1 DEF SentencesFit
    <2>4. Rest(Tail(syntax)) /\ Tail(syntax) = <<>>
      BY <2>1, RestOfTail
    <2>5. Room(syntax, word, words, term) >= term
      <3>1. PICK a, b \in Nat : a = Count(syntax, {"P"}) /\ b = Count(syntax, {"N", "V", "P"})
        BY <2>1, CountOfTail DEF Rest
      <3>2. PICK u \in Nat : u = word + Text!THE
        BY DEF Text!THE
      <3>3. a * u \in Nat /\ b * words \in Nat
        BY Times
      <3>4. QED
        BY <3>1, <3>2, <3>3 DEF Room
    <2>6. Room(syntax, word, words, term) \in Nat
      BY <2>1, RoomOfTail DEF Rest
    <2>7. dest' <= Text!MAX_SENT_LEN /\ res' = dest' + 1
      BY <2>1, <2>2, <2>3, <2>5, <2>6, <1>2
    <2>8. QED
      BY <2>1, <2>4, <2>7 DEF SentenceInv
  <1>8. CASE Text!AddSentence \/ Text!EndPool \/ Text!dbg_text
    BY <1>8 DEF Text!AddSentence, Text!EndPool, Text!dbg_text, SentenceInv
  <1>9. CASE UNCHANGED text
    BY <1>9 DEF text, SentenceInv
  <1>10. QED
    BY <1>3, <1>4, <1>5, <1>6, <1>7, <1>8, <1>9 DEF Text!Next

LEMMA PartsText == PartsSpec => Text!Init /\ [][Text!Next]_text
  <1>1. PartsInit => Text!Init
    BY DEF PartsInit
  <1>2. [PartsNext]_<<what, rowsVars, rng, dists, text, queries>> => [Text!Next]_text
    BY DEF PartsNext
  <1>3. QED
    BY <1>1, <1>2, PTL DEF PartsSpec

(* For every grammar whose longest sentence fits the buffer of              *)
(* txt_sentence: the lengths that its three levels of phrases return are    *)
(* those of the text they wrote, the pool is filled to its last byte, and   *)
(* no comment is cut from beyond its end.                                   *)
THEOREM PoolIsFilledHolds ==
  ASSUME NEW word \in Nat, NEW words \in Nat, NEW term \in Nat, SentencesFit(word, words, term)
  PROVE  PartsSpec => []PoolIsFilled
  <1>1. Text!Init => TextTypes /\ SentenceInv(word, words, term)
    BY PartsAssumption
       DEF Text!Init, TextTypes, SentenceInv, Text!MAX_SENT_LEN, Text!TextAssumption
  <1>2. TextTypes /\ [Text!Next]_text => TextTypes'
    BY TextTypesPreserved
  <1>3. TextTypes /\ SentenceInv(word, words, term) /\ [Text!Next]_text
          => SentenceInv(word, words, term)'
    BY SentencePreserved
  <1>4. TextTypes /\ SentenceInv(word, words, term) => PoolIsFilled
    BY DEF TextTypes, SentenceInv, PoolIsFilled, Text!PoolIsFilled
  <1>5. QED
    BY <1>1, <1>2, <1>3, <1>4, PartsText, PTL

-----------------------------------------------------------------------------
(* Two functions agree when each place follows from the one before it.      *)
LEMMA SamePlaces ==
  ASSUME NEW N \in Nat, NEW u, NEW v, u[0] = v[0],
         \A p \in 1..N : u[p - 1] = v[p - 1] => u[p] = v[p]
  PROVE  \A p \in 0..N : u[p] = v[p]
  <1> DEFINE T == {p \in 0..N : u[p] # v[p]}
  <1>1. SUFFICES ASSUME T # {} PROVE FALSE
    OBVIOUS
  <1>2. PICK p \in T : \A q \in T : p <= q
    <2> HIDE DEF T
    <2>1. T \subseteq Nat
      BY DEF T
    <2>2. QED
      BY <1>1, <2>1, LeastNumber
  <1>3. p \in 1..N /\ p - 1 \in 0..N /\ p - 1 \notin T
    BY <1>2
  <1>4. QED
    BY <1>2, <1>3

-----------------------------------------------------------------------------
(* A generator applied many times *)

\* u has s, and g applied once, twice, up to m times to it.
Along(g, s, m, u) == u[0] = s /\ \A p \in 1..m : u[p] = g[u[p - 1]]
Moves(g, s, m, u) == u \in [0..m -> DOMAIN g] /\ Along(g, s, m, u)

\* g applied m times to s.
Iterated(g, s, m) == (CHOOSE u : Moves(g, s, m, u))[m]

(* One can apply a generator as often as one likes.                         *)
LEMMA MovesExist ==
  ASSUME NEW A, NEW g \in [A -> A], NEW s \in A
  PROVE  \A m \in Nat : \E u : Moves(g, s, m, u)
  <1> DEFINE T == {m \in Nat : ~ \E u : Moves(g, s, m, u)}
  <1>1. SUFFICES ASSUME T # {} PROVE FALSE
    OBVIOUS
  <1>2. PICK m \in T : \A q \in T : m <= q
    <2> HIDE DEF T
    <2>1. T \subseteq Nat
      BY DEF T
    <2>2. QED
      BY <1>1, <2>1, LeastNumber
  <1>3. CASE m = 0
    <2>1. Moves(g, s, 0, [p \in 0..0 |-> s])
      BY DEF Moves, Along
    <2>2. QED
      BY <2>1, <1>2, <1>3
  <1>4. CASE m # 0
    <2>1. m \in Nat /\ m - 1 \in Nat /\ m - 1 \notin T
      BY <1>2, <1>4
    <2>2. PICK u : Moves(g, s, m - 1, u)
      BY <2>1
    <2>3. /\ u \in [0..(m - 1) -> A] /\ u[0] = s
          /\ \A p \in 1..(m - 1) : u[p] = g[u[p - 1]]
      BY <2>2 DEF Moves, Along
    <2> DEFINE v == [p \in 0..m |-> IF p < m THEN u[p] ELSE g[u[m - 1]]]
    <2>4. /\ v \in [0..m -> A] /\ v[0] = s /\ v[m] = g[u[m - 1]]
          /\ \A p \in 0..(m - 1) : v[p] = u[p]
      BY <2>3, <2>1, <1>4
    <2> HIDE DEF v
    <2>5. \A p \in 1..m : v[p] = g[v[p - 1]]
      <3> TAKE p \in 1..m
      <3>1. CASE p = m
        BY <3>1, <2>4, <2>1
      <3>2. CASE p # m
        <4>1. p \in 1..(m - 1) /\ p \in 0..(m - 1) /\ p - 1 \in 0..(m - 1)
          BY <3>2, <2>1
        <4>2. QED
          BY <4>1, <2>4, <2>3
      <3>3. QED
        BY <3>1, <3>2
    <2>6. Moves(g, s, m, v)
      BY <2>4, <2>5 DEF Moves, Along
    <2>7. QED
      BY <2>6, <1>2
  <1>5. QED
    BY <1>3, <1>4

(* There is one way to apply it.                                            *)
LEMMA MovesAgree ==
  ASSUME NEW A, NEW g \in [A -> A], NEW s \in A, NEW a \in Nat, NEW b \in Nat, NEW u, NEW v,
         a <= b, Along(g, s, a, u), Along(g, s, b, v)
  PROVE  \A p \in 0..a : u[p] = v[p]
  <1>1. u[0] = v[0] /\ \A p \in 1..a : u[p - 1] = v[p - 1] => u[p] = v[p]
    BY DEF Along
  <1>2. QED
    BY ONLY <1>1, a \in Nat, SamePlaces

(* What applying it none, one and one more time gives.                      *)
LEMMA IteratedStep ==
  ASSUME NEW A, NEW g \in [A -> A], NEW s \in A
  PROVE  /\ Iterated(g, s, 0) = s
         /\ \A m \in Nat : /\ Iterated(g, s, m) \in A
                           /\ Iterated(g, s, m + 1) = g[Iterated(g, s, m)]
  <1> DEFINE U(m) == CHOOSE u : Moves(g, s, m, u)
  <1>1. \A m \in Nat : Moves(g, s, m, U(m))
    BY MovesExist
  <1>2. \A m \in Nat : Iterated(g, s, m) = U(m)[m]
    BY DEF Iterated
  <1> HIDE DEF U
  <1>3. Iterated(g, s, 0) = s
    BY <1>1, <1>2 DEF Moves, Along
  <1>4. ASSUME NEW m \in Nat
        PROVE  Iterated(g, s, m) \in A /\ Iterated(g, s, m + 1) = g[Iterated(g, s, m)]
    <2>1. /\ U(m) \in [0..m -> A] /\ U(m)[0] = s /\ U(m + 1)[0] = s
          /\ \A p \in 1..m : U(m)[p] = g[U(m)[p - 1]]
          /\ \A p \in 1..(m + 1) : U(m + 1)[p] = g[U(m + 1)[p - 1]]
      BY <1>1 DEF Moves, Along
    <2>2. \A p \in 0..m : U(m)[p] = U(m + 1)[p]
      <3>1. /\ Along(g, s, m, U(m)) /\ Along(g, s, m + 1, U(m + 1))
            /\ m + 1 \in Nat /\ m <= m + 1
        BY <1>1 DEF Moves
      <3>2. QED
        BY ONLY <3>1, m \in Nat, g \in [A -> A], s \in A, MovesAgree
    <2>3. m \in 0..m /\ m + 1 \in 1..(m + 1) /\ (m + 1) - 1 = m
      OBVIOUS
    <2>4. QED
      BY <2>1, <2>2, <2>3, <1>2
  <1>5. QED
    BY <1>3, <1>4

LEMMA IteratedNext ==
  ASSUME NEW A, NEW g, NEW s, NEW m, g \in [A -> A], s \in A, m \in Nat
  PROVE  Iterated(g, s, m) \in A /\ Iterated(g, s, m + 1) = g[Iterated(g, s, m)]
  BY IteratedStep

(* Applying it a times and then b times is applying it a + b times.         *)
LEMMA IteratedJoin ==
  ASSUME NEW A, NEW g \in [A -> A], NEW s \in A, NEW a \in Nat
  PROVE  \A b \in Nat : Iterated(g, s, a + b) = Iterated(g, Iterated(g, s, a), b)
  <1> DEFINE r == Iterated(g, s, a)
             T == {b \in Nat : Iterated(g, s, a + b) # Iterated(g, r, b)}
  <1>1. SUFFICES ASSUME T # {} PROVE FALSE
    OBVIOUS
  <1>2. r \in A
    BY IteratedStep
  <1> HIDE DEF r
  <1>3. PICK b \in T : \A q \in T : b <= q
    <2> HIDE DEF T
    <2>1. T \subseteq Nat
      BY DEF T
    <2>2. QED
      BY <1>1, <2>1, LeastNumber
  <1>4. CASE b = 0
    <2>1. a + b = a
      BY <1>4
    <2>2. Iterated(g, r, 0) = r
      BY <1>2, IteratedStep
    <2>3. QED
      BY <2>1, <2>2, <1>3, <1>4 DEF r
  <1>5. CASE b # 0
    <2>1. b - 1 \in Nat /\ b - 1 \notin T /\ (b - 1) + 1 = b /\ a + (b - 1) \in Nat
            /\ (a + (b - 1)) + 1 = a + b
      BY <1>3, <1>5
    <2>2. Iterated(g, s, a + (b - 1)) = Iterated(g, r, b - 1)
      BY <2>1
    <2>3. Iterated(g, s, a + b) = g[Iterated(g, s, a + (b - 1))]
      BY <2>1, IteratedStep
    <2>4. Iterated(g, r, b) = g[Iterated(g, r, b - 1)]
      BY <2>1, <1>2, IteratedStep
    <2>5. QED
      BY <2>2, <2>3, <2>4, <1>3
  <1>6. QED
    BY <1>4, <1>5

(* The generator that applies g twice needs half as many.                   *)
LEMMA IteratedTwice ==
  ASSUME NEW A, NEW g \in [A -> A], NEW f \in [A -> A], \A x \in A : f[x] = g[g[x]],
         NEW s \in A
  PROVE  \A m \in Nat : Iterated(f, s, m) = Iterated(g, s, 2 * m)
  <1> DEFINE T == {m \in Nat : Iterated(f, s, m) # Iterated(g, s, 2 * m)}
  <1>1. SUFFICES ASSUME T # {} PROVE FALSE
    OBVIOUS
  <1>2. PICK m \in T : \A q \in T : m <= q
    <2> HIDE DEF T
    <2>1. T \subseteq Nat
      BY DEF T
    <2>2. QED
      BY <1>1, <2>1, LeastNumber
  <1>3. CASE m = 0
    <2>1. 2 * m = 0
      BY <1>3
    <2>2. Iterated(f, s, 0) = s /\ Iterated(g, s, 0) = s
      BY ONLY f \in [A -> A], g \in [A -> A], s \in A, IteratedStep, SMTT(30)
    <2>3. QED
      BY <2>1, <2>2, <1>2, <1>3
  <1>4. CASE m # 0
    <2> DEFINE p == m - 1
    <2>1. p \in Nat /\ p \notin T /\ p + 1 = m /\ 2 * p \in Nat /\ 2 * p + 1 \in Nat
            /\ (2 * p + 1) + 1 = 2 * m
      BY <1>2, <1>4
    <2>2. Iterated(f, s, p) = Iterated(g, s, 2 * p)
      BY <2>1
    <2> HIDE DEF p
    <2>3. Iterated(f, s, m) = f[Iterated(f, s, p)]
      <3>1. \A q \in Nat : Iterated(f, s, q + 1) = f[Iterated(f, s, q)]
        <4>1. TAKE q \in Nat
        <4>2. QED
          BY IteratedStep
      <3>2. QED
        BY <3>1, <2>1
    <2>4. /\ Iterated(g, s, 2 * p) \in A
          /\ Iterated(g, s, 2 * p + 1) = g[Iterated(g, s, 2 * p)]
          /\ Iterated(g, s, 2 * m) = g[Iterated(g, s, 2 * p + 1)]
      BY <2>1, IteratedStep
    <2>5. QED
      BY <2>2, <2>3, <2>4, <1>2
  <1>5. QED
    BY <1>3, <1>4

-----------------------------------------------------------------------------
(* Remainders and primes *)

(* Every number is a multiple and a remainder.                              *)
LEMMA Division ==
  ASSUME NEW m \in Nat, m > 0, NEW x \in Nat
  PROVE  /\ x % m \in 0..(m - 1)
         /\ \E q \in Nat : x = m * q + (x % m)
  <1>1. x \div m \in Nat /\ x = m * (x \div m) + (x % m) /\ x % m \in 0..(m - 1)
    OBVIOUS
  <1>2. PICK t : t = x \div m
    OBVIOUS
  <1>3. t \in Nat /\ x = m * t + (x % m)
    BY ONLY <1>1, <1>2
  <1>4. QED
    BY <1>1, <1>3, Zenon

(* Taking a multiple away changes no remainder.                             *)
LEMMA ModMultiple ==
  ASSUME NEW m \in Nat, m > 0, NEW x \in Nat, NEW q \in Nat
  PROVE  (x + q * m) % m = x % m
  <1>1. PICK b \in 0..(m - 1) : b = x % m
    BY Division
  <1>2. PICK a \in Nat : x = m * a + b
    BY <1>1, Division
  <1>3. PICK y \in Nat : y = x + q * m
    OBVIOUS
  <1>4. PICK d \in 0..(m - 1) : d = y % m
    BY Division
  <1>5. PICK c \in Nat : y = m * c + d
    BY <1>4, Division
  <1>6. PICK e \in Int : e = a + q - c
    OBVIOUS
  <1>7. m * e = d - b
    <2>1. m * e = m * a + m * q - m * c
      BY ONLY <1>6, m \in Int, a \in Int, q \in Int, c \in Int
    <2>2. q * m = m * q
      BY ONLY m \in Int, q \in Int
    <2>3. PICK r, s, t \in Int : r = m * a /\ s = m * q /\ t = m * c
      OBVIOUS
    <2>4. QED
      BY <2>1, <2>2, <2>3, <1>2, <1>3, <1>5
  <1>8. e = 0
    <2>1. CASE e >= 1
      <3>1. m * e >= m
        BY ONLY <2>1, e \in Int, m \in Nat
      <3>2. QED
        BY ONLY <3>1, <1>7, b \in 0..(m - 1), d \in 0..(m - 1), m \in Nat
    <2>2. CASE e <= -1
      <3>1. m * e <= -m
        BY ONLY <2>2, e \in Int, m \in Nat
      <3>2. QED
        BY ONLY <3>1, <1>7, b \in 0..(m - 1), d \in 0..(m - 1), m \in Nat
    <2>3. QED
      BY <2>1, <2>2
  <1>9. d = b
    BY ONLY <1>7, <1>8, b \in 0..(m - 1), d \in 0..(m - 1), m \in Nat
  <1>10. QED
    BY <1>1, <1>3, <1>4, <1>9

\* An application of a generator with b and c to a.
Linear(a, b, c, m) == (a * b + c) % m

(* A remainder stands for its number in sums and products.                  *)
LEMMA ModLinear ==
  ASSUME NEW m \in Nat, m > 0, NEW a \in Nat, NEW b \in Nat, NEW c \in Nat
  PROVE  Linear(a % m, b, c, m) = Linear(a, b, c, m)
  <1>1. PICK r \in 0..(m - 1) : r = a % m
    BY Division
  <1>2. PICK q \in Nat : a = m * q + r
    BY <1>1, Division
  <1>3. PICK x \in Nat : x = r * b + c
    BY <1>1
  <1>4. PICK p \in Nat : p = q * b
    BY <1>2
  <1>5. a * b + c = x + p * m
    <2>1. a * b = (m * q) * b + r * b
      BY ONLY <1>2, a \in Int, b \in Int, m \in Int, r \in Int, q \in Int
    <2>2. (m * q) * b = p * m
      BY ONLY <1>4, q \in Int, b \in Int, m \in Int
    <2>3. QED
      <3>1. PICK y, z, e \in Int : y = a * b /\ z = r * b /\ e = p * m
        BY <1>1
      <3>2. QED
        BY ONLY <2>1, <2>2, <1>3, <3>1, x \in Int, p \in Int, c \in Int
  <1>6. (x + p * m) % m = x % m
    BY ONLY x \in Nat, p \in Nat, m \in Nat, m > 0, ModMultiple
  <1>7. QED
    BY <1>1, <1>3, <1>5, <1>6 DEF Linear

LEMMA ModTimes ==
  ASSUME NEW m \in Nat, m > 0, NEW a \in Nat, NEW b \in Nat
  PROVE  ((a % m) * b) % m = (a * b) % m
  <1>1. PICK c \in Nat : c = 0
    OBVIOUS
  <1>2. ((a % m) * b + c) % m = (a * b + c) % m
    <2>1. Linear(a % m, b, c, m) = Linear(a, b, c, m)
      BY ModLinear
    <2>2. QED
      BY ONLY <2>1, Zenon DEF Linear
  <1>3. PICK x, y \in Nat : x = (a % m) * b /\ y = a * b
    <2>1. a % m \in Nat
      BY Division
    <2>2. QED
      BY <2>1
  <1>4. x + c = x /\ y + c = y
    BY <1>1
  <1>5. QED
    BY <1>2, <1>3, <1>4

(* A prime divides no product of two smaller numbers.                       *)
LEMMA PrimeTimes ==
  ASSUME NEW m, Rng!Prime(m), NEW b \in 1..(m - 1)
  PROVE  \A a \in 1..(m - 1) : (a * b) % m # 0
  <1> DEFINE T == {a \in 1..(m - 1) : (a * b) % m = 0}
  <1>1. SUFFICES ASSUME T # {} PROVE FALSE
    OBVIOUS
  <1>2. m \in Nat \ {0, 1} /\ \A d \in 2..(m - 1) : m % d # 0
    BY DEF Rng!Prime
  <1>3. PICK a \in T : \A q \in T : a <= q
    <2> HIDE DEF T
    <2>1. T \subseteq Nat
      BY <1>2 DEF T
    <2>2. QED
      BY <1>1, <2>1, LeastNumber
  <1>4. a \in 1..(m - 1) /\ (a * b) % m = 0 /\ b \in Int /\ m \in Nat /\ m > 0
    BY <1>2, <1>3
  <1>5. CASE a = 1
    <2>1. a * b = b /\ b % m = b
      BY <1>4, <1>5
    <2>2. QED
      BY <2>1, <1>4
  <1>6. CASE a # 1
    <2>1. a \in 2..(m - 1)
      BY <1>4, <1>6, <1>2
    <2>2. PICK q \in Int, r \in 0..(a - 1) : m = a * q + r /\ r = m % a
      <3>1. a \in Nat /\ a > 0 /\ m \in Nat
        BY <2>1, <1>2
      <3>2. m % a \in 0..(a - 1) /\ \E q \in Nat : m = a * q + (m % a)
        BY ONLY <3>1, Division
      <3>3. QED
        BY <3>1, <3>2
    <2>3. r # 0 /\ r \in 1..(m - 1) /\ r < a
      <3>1. r # 0
        BY <2>1, <2>2, <1>2
      <3>2. QED
        BY ONLY <3>1, <2>1, <1>4, r \in 0..(a - 1)
    <2>4. PICK x \in Int : x = a * b
      BY <1>4
    <2>5. PICK y \in Int : x = y * m
      <3>1. x \in Nat /\ m > 0
        BY <1>4, <2>4
      <3>2. PICK y \in Nat : x = m * y + (x % m)
        BY ONLY <3>1, <1>4, Division
      <3>3. QED
        BY <3>2, <1>4, <2>4
    <2>6. PICK p \in Int : p = b - q * y
      BY <1>4
    <2>7. r * b = 0 + p * m
      <3>1. r * b = m * b - (a * q) * b
        <4>1. PICK z \in Int : z = a * q
          BY <1>4
        <4>2. r = m - z
          BY <4>1, <2>2, <1>4
        <4>3. (m - z) * b = m * b - z * b
          BY ONLY <1>4, z \in Int
        <4>4. QED
          BY <4>1, <4>2, <4>3
      <3>2. (a * q) * b = q * x
        BY ONLY <2>4, q \in Int, a \in Int, b \in Int, <1>4
      <3>3. q * x = (q * y) * m
        <4>1. q * (y * m) = (q * y) * m
          BY ONLY q \in Int, y \in Int, <1>4
        <4>2. QED
          BY <4>1, <2>5
      <3>4. p * m = b * m - (q * y) * m
        BY ONLY <2>6, q \in Int, y \in Int, <1>4
      <3>5. QED
        <4>1. PICK z \in Int : z = (q * y) * m
          BY <1>4
        <4>2. PICK t \in Int : t = b * m /\ t = m * b
          BY <1>4
        <4>3. QED
          BY <3>1, <3>2, <3>3, <3>4, <4>1, <4>2
    <2>8. (0 + p * m) % m = 0 % m
      <3>1. p >= 0
        <4>1. r * b > 0
          BY ONLY <2>3, <1>4, b \in 1..(m - 1)
        <4>2. p < 0 => p * m <= 0
          BY ONLY p \in Int, <1>4
        <4>3. PICK z \in Int : z = p * m /\ z = r * b
          BY <2>7, <1>4
        <4>4. QED
          BY ONLY <4>1, <4>2, <4>3, p \in Int
      <3>2. p \in Nat
        BY <3>1
      <3>3. QED
        BY ONLY <3>2, <1>4, 0 \in Nat, ModMultiple
    <2>9. r \in T
      BY <2>3, <2>7, <2>8, <1>2
    <2>10. QED
      BY <2>9, <2>3, <1>3
  <1>7. QED
    BY <1>5, <1>6

-----------------------------------------------------------------------------
(* Seeds that are moved ahead *)

\* The 31-bit generator with multiplier b, and the 64-bit generator.
Gen(b) == [s \in 0..(Modulus - 1) |-> (s * b) % Modulus]
Gen64 == [s \in 0..(Width - 1) |-> (s * RNG_A + RNG_C) % Width]

LEMMA Generators ==
  /\ Modulus \in Nat /\ Modulus > 1 /\ Multiplier \in 1..(Modulus - 1) /\ Rng!Prime(Modulus)
  /\ Width \in Nat /\ Width > 0 /\ RNG_A \in Nat /\ RNG_C = 1 /\ MaxSkip \in Nat
  BY PartsAssumption DEF Rng!RngAssumption, Rng!GeneratorsAssumption, Rng!Prime

(* Both map their seeds to seeds.                                           *)
LEMMA GeneratorTypes ==
  /\ \A b \in Nat : Gen(b) \in [0..(Modulus - 1) -> 0..(Modulus - 1)]
  /\ Gen64 \in [0..(Width - 1) -> 0..(Width - 1)]
  <1>1. ASSUME NEW b \in Nat, NEW s \in 0..(Modulus - 1)
        PROVE  (s * b) % Modulus \in 0..(Modulus - 1)
    <2>1. s * b \in Nat
      BY Generators
    <2>2. QED
      BY <2>1, Generators, Division
  <1>2. ASSUME NEW s \in 0..(Width - 1)
        PROVE  (s * RNG_A + RNG_C) % Width \in 0..(Width - 1)
    <2>1. s * RNG_A + RNG_C \in Nat
      BY Generators
    <2>2. QED
      BY <2>1, Generators, Division
  <1>3. QED
    BY <1>1, <1>2 DEF Gen, Gen64

(* The generator with the square of a multiplier applies it twice.          *)
LEMMA GeneratorSquare ==
  ASSUME NEW b \in Nat
  PROVE  \A s \in 0..(Modulus - 1) : Gen((b * b) % Modulus)[s] = Gen(b)[Gen(b)[s]]
  <1> TAKE s \in 0..(Modulus - 1)
  <1>0. Modulus \in Nat /\ Modulus > 0
    BY Generators
  <1>1. PICK x \in Nat : x = s * b
    BY Generators
  <1>2. PICK y \in Nat : y = b * b
    OBVIOUS
  <1>3. Gen(b)[s] = x % Modulus /\ x % Modulus \in 0..(Modulus - 1)
    BY <1>1, Division, Generators DEF Gen
  <1>4. Gen(b)[Gen(b)[s]] = ((x % Modulus) * b) % Modulus
    BY <1>3 DEF Gen
  <1>5. ((x % Modulus) * b) % Modulus = (x * b) % Modulus
    BY ONLY <1>0, x \in Nat, b \in Nat, ModTimes, Zenon
  <1>6. Gen(y % Modulus)[s] = (s * (y % Modulus)) % Modulus
    BY DEF Gen
  <1>7. ((y % Modulus) * s) % Modulus = (y * s) % Modulus
    <2>1. s \in Nat
      BY Generators
    <2>2. QED
      BY ONLY <1>0, <2>1, y \in Nat, ModTimes, Zenon
  <1>8. x * b = y * s
    <2>1. (s * b) * b = (b * b) * s
      BY ONLY Generators, b \in Int, s \in 0..(Modulus - 1)
    <2>2. QED
      BY <2>1, <1>1, <1>2
  <1>9. y % Modulus \in Nat /\ s \in Nat
    BY Division, Generators
  <1>10. PICK d \in Nat : d = y % Modulus
    BY <1>9
  <1>11. d * s = s * d
    BY ONLY d \in Int, <1>9
  <1>12. QED
    BY <1>2, <1>4, <1>5, <1>6, <1>7, <1>8, <1>10, <1>11

(* Seeds other than 0 stay so.                                              *)
LEMMA SeedStays ==
  ASSUME NEW a \in 1..(Modulus - 1), NEW b \in 1..(Modulus - 1)
  PROVE  (a * b) % Modulus \in 1..(Modulus - 1)
  <1>1. (a * b) % Modulus # 0
    BY Generators, PrimeTimes
  <1>2. a * b \in Nat
    BY Generators
  <1>3. (a * b) % Modulus \in 0..(Modulus - 1)
    BY <1>2, Generators, Division
  <1>4. QED
    BY <1>1, <1>3

\* The product b and the sum a stand for m applications of the 64-bit generator.
Stand(b, a, m) == \A s \in 0..(Width - 1) : Iterated(Gen64, s, m) = (s * b + a) % Width

\* No fewer than none.
NotNegative(x) == IF x < 0 THEN 0 ELSE x

RngInv ==
  /\ fn \in {"none", "NthElement", "AdvanceRand64"}
  /\ fn = "NthElement" =>
       /\ seed \in 1..(Modulus - 1) /\ skip \in -1..MaxSkip /\ left \in -1..MaxSkip
       /\ mult \in 1..(Modulus - 1) /\ acc \in 1..(Modulus - 1)
       /\ Iterated(Gen(mult), acc, NotNegative(left))
            = Iterated(Gen(Multiplier), seed, NotNegative(skip))
  /\ fn = "AdvanceRand64" =>
       /\ seed \in 0..(Width - 1) /\ skip \in 0..MaxSkip /\ left \in 0..skip
       /\ mult \in Nat /\ acc \in Nat
       /\ skip # 0 => Stand(mult, acc, Rng!Shifted(skip, left))

(* Each shift by one more bit halves the number.                            *)
LEMMA ShiftedHalves ==
  ASSUME NEW m \in Nat
  PROVE  /\ Rng!Shifted(m, 0) = m
         /\ \A p \in 0..MaxSkip : Rng!Shifted(m, p) \in Nat
         /\ \A p \in 1..MaxSkip : Rng!Shifted(m, p) = Rng!Shifted(m, p - 1) \div 2
  <1>1. PICK g \in [Nat -> Nat] : \A x \in Nat : g[x] = x \div 2
    <2>1. [x \in Nat |-> x \div 2] \in [Nat -> Nat]
      OBVIOUS
    <2>2. QED
      BY <2>1
  <1> DEFINE v == [p \in 0..MaxSkip |-> Iterated(g, m, p)]
  <1>0. /\ Iterated(g, m, 0) = m
        /\ \A p \in Nat : Iterated(g, m, p) \in Nat
                          /\ Iterated(g, m, p + 1) = g[Iterated(g, m, p)]
    <2>1. Iterated(g, m, 0) = m
      BY IteratedStep
    <2>2. PICK A : A = Nat
      OBVIOUS
    <2>3. g \in [A -> A] /\ m \in A
      BY <2>2
    <2>4. ASSUME NEW p \in Nat
          PROVE  Iterated(g, m, p) \in A /\ Iterated(g, m, p + 1) = g[Iterated(g, m, p)]
      BY <2>3, IteratedNext
    <2>5. QED
      BY <2>1, <2>2, <2>4
  <1>3. v[0] = m /\ \A p \in 0..MaxSkip : v[p] \in Nat
    BY <1>0, Generators
  <1>4. \A p \in 1..MaxSkip : v[p] = v[p - 1] \div 2
    <2> TAKE p \in 1..MaxSkip
    <2>1. p - 1 \in Nat /\ p - 1 \in 0..MaxSkip /\ p \in 0..MaxSkip /\ (p - 1) + 1 = p
      BY Generators
    <2>2. Iterated(g, m, (p - 1) + 1) = g[Iterated(g, m, p - 1)] /\ Iterated(g, m, p - 1) \in Nat
      BY <2>1, <1>0
    <2>3. QED
      BY <2>1, <2>2, <1>1
  <1>5. v = [p \in 0..MaxSkip |-> IF p = 0 THEN m ELSE v[p - 1] \div 2]
    <2>1. v = [p \in 0..MaxSkip |-> v[p]]
      OBVIOUS
    <2> HIDE DEF v
    <2>2. \A p \in 0..MaxSkip : v[p] = IF p = 0 THEN m ELSE v[p - 1] \div 2
      BY <1>3, <1>4, Generators
    <2>3. QED
      BY <2>1, <2>2
  <1> HIDE DEF v
  <1>6. PICK u : u = CHOOSE w : w = [p \in 0..MaxSkip |-> IF p = 0 THEN m ELSE w[p - 1] \div 2]
    OBVIOUS
  <1>7. u = [p \in 0..MaxSkip |-> IF p = 0 THEN m ELSE u[p - 1] \div 2]
    BY <1>5, <1>6
  <1>8. \A p : Rng!Shifted(m, p) = u[p]
    BY <1>6 DEF Rng!Shifted
  <1>9. u[0] = m /\ \A p \in 1..MaxSkip : u[p] = u[p - 1] \div 2
    <2>1. \A p \in 0..MaxSkip : u[p] = IF p = 0 THEN m ELSE u[p - 1] \div 2
      BY <1>7
    <2>2. QED
      BY <2>1, Generators
  <1>10. \A p \in 0..MaxSkip : u[p] = v[p]
    <2>1. u[0] = v[0] /\ \A p \in 1..MaxSkip : u[p - 1] = v[p - 1] => u[p] = v[p]
      BY <1>3, <1>4, <1>9
    <2>2. MaxSkip \in Nat
      BY Generators
    <2>3. QED
      BY ONLY <2>1, <2>2, SamePlaces
  <1>11. QED
    BY <1>3, <1>8, <1>9, <1>10, Generators

(* A number has a highest bit.                                              *)
LEMMA HighestBitIsOne ==
  ASSUME NEW m \in 1..MaxSkip
  PROVE  Rng!HighestBit(m) \in 0..m /\ Rng!Shifted(m, Rng!HighestBit(m)) = 1
  <1> DEFINE H(p) == Rng!Shifted(m, p)
             T == {p \in 0..m : H(p) <= 1}
             D == {p \in 0..m : H(p) > m - p}
  <1>1. /\ H(0) = m /\ \A p \in 0..m : H(p) \in Nat
        /\ \A p \in 1..m : H(p) = H(p - 1) \div 2
    <2>1. m \in Nat /\ MaxSkip \in Nat
      BY Generators
    <2>2. /\ H(0) = m /\ \A p \in 0..MaxSkip : H(p) \in Nat
          /\ \A p \in 1..MaxSkip : H(p) = H(p - 1) \div 2
      BY <2>1, ShiftedHalves
    <2>3. QED
      BY ONLY <2>1, <2>2, m \in 1..MaxSkip
  <1> HIDE DEF H
  <1>2. m \in Nat /\ m > 0
    BY Generators
  <1>3. D = {}
    <2>1. SUFFICES ASSUME D # {} PROVE FALSE
      OBVIOUS
    <2>2. PICK p \in D : \A q \in D : p <= q
      <3> HIDE DEF D
      <3>1. D \subseteq Nat
        BY <1>2 DEF D
      <3>2. QED
        BY <2>1, <3>1, LeastNumber
    <2>3. p \in 1..m /\ p - 1 \in 0..m /\ p - 1 \notin D
      BY <2>2, <1>1, <1>2
    <2>4. PICK x, y \in Nat : x = H(p - 1) /\ y = H(p) /\ y = x \div 2
      BY <2>3, <1>1
    <2>5. x <= m - (p - 1) /\ y > m - p
      <3>1. H(p) > m - p /\ ~ (H(p - 1) > m - (p - 1))
        BY <2>2, <2>3
      <3>2. QED
        BY ONLY <3>1, <2>3, <2>4, <1>2, x \in Nat, y \in Nat
    <2>6. QED
      BY ONLY <2>3, <2>4, <2>5, <1>2, x \in Nat, y \in Nat
  <1>4. H(m) <= 0
    BY <1>1, <1>2, <1>3
  <1>5. PICK p \in T : \A q \in T : p <= q
    <2>1. m \in T
      BY <1>4, <1>2, <1>1
    <2> HIDE DEF T
    <2>2. T \subseteq Nat
      BY <1>2 DEF T
    <2>3. QED
      BY <2>1, <2>2, LeastNumber
  <1>6. p \in 0..m /\ H(p) = 1
    <2>1. CASE p = 0
      BY <2>1, <1>1, <1>2, <1>5
    <2>2. CASE p # 0
      <3>1. p \in 1..m /\ p - 1 \in 0..m /\ p - 1 \notin T
        BY <2>2, <1>5, <1>2
      <3>2. PICK x, y \in Nat : x = H(p - 1) /\ y = H(p) /\ y = x \div 2
        BY <3>1, <1>1
      <3>3. x > 1 /\ y <= 1
        <4>1. H(p) <= 1 /\ ~ (H(p - 1) <= 1)
          BY <3>1, <1>5
        <4>2. QED
          BY ONLY <4>1, <3>2, x \in Nat, y \in Nat
      <3>4. y = 1
        BY ONLY <3>2, <3>3, x \in Nat, y \in Nat
      <3>5. QED
        BY <3>1, <3>2, <3>4
    <2>3. QED
      BY <2>1, <2>2
  <1>7. \E b \in 0..m : Rng!Shifted(m, b) = 1
    BY <1>6 DEF H
  <1>8. QED
    BY <1>7 DEF Rng!HighestBit

(* What the properties compare with is the generator, applied one at a time. *)
LEMMA AppliedIsIterated ==
  ASSUME NEW s \in 0..(Modulus - 1), NEW m \in -1..MaxSkip
  PROVE  Rng!Applied(s, m) = Iterated(Gen(Multiplier), s, NotNegative(m))
  <1> DEFINE v == [p \in 0..MaxSkip |-> Iterated(Gen(Multiplier), s, p)]
  <1>1. PICK g : g = Gen(Multiplier)
    OBVIOUS
  <1>2. g \in [0..(Modulus - 1) -> 0..(Modulus - 1)]
    <2>1. Multiplier \in Nat
      BY Generators
    <2>2. QED
      BY <1>1, <2>1, GeneratorTypes
  <1>3. \A x \in 0..(Modulus - 1) : g[x] = Rng!NextRand(x)
    BY <1>1 DEF Gen, Rng!NextRand
  <1>4. v = [p \in 0..MaxSkip |-> Iterated(g, s, p)]
    BY <1>1
  <1> HIDE DEF v
  <1>5. v[0] = s
    <2>1. Iterated(g, s, 0) = s
      BY <1>2, IteratedStep
    <2>2. QED
      BY <2>1, <1>4, Generators
  <1>6. \A p \in 1..MaxSkip : v[p] = Rng!NextRand(v[p - 1])
    <2> TAKE p \in 1..MaxSkip
    <2>1. p - 1 \in Nat /\ p - 1 \in 0..MaxSkip /\ p \in 0..MaxSkip /\ (p - 1) + 1 = p
      BY Generators
    <2>2. /\ Iterated(g, s, (p - 1) + 1) = g[Iterated(g, s, p - 1)]
          /\ Iterated(g, s, p - 1) \in 0..(Modulus - 1)
      <3>1. PICK A, r : A = 0..(Modulus - 1) /\ r = s
        OBVIOUS
      <3>2. g \in [A -> A] /\ r \in A
        BY <3>1, <1>2
      <3>3. PICK q \in Nat : q = p - 1
        BY <2>1
      <3>4. Iterated(g, r, q) \in A /\ Iterated(g, r, q + 1) = g[Iterated(g, r, q)]
        BY ONLY <3>2, q \in Nat, IteratedNext
      <3>5. QED
        BY <3>1, <3>3, <3>4
    <2>3. QED
      BY <2>1, <2>2, <1>3, <1>4
  <1>7. v = [p \in 0..MaxSkip |-> IF p = 0 THEN s ELSE Rng!NextRand(v[p - 1])]
    <2>1. \A p \in 0..MaxSkip : v[p] = IF p = 0 THEN s ELSE Rng!NextRand(v[p - 1])
      BY <1>5, <1>6, Generators
    <2>2. v = [p \in 0..MaxSkip |-> v[p]]
      BY <1>4
    <2>3. QED
      BY <2>1, <2>2
  <1>8. PICK u :
             u = CHOOSE w : w = [p \in 0..MaxSkip |-> IF p = 0 THEN s ELSE Rng!NextRand(w[p - 1])]
    OBVIOUS
  <1>9. u = [p \in 0..MaxSkip |-> IF p = 0 THEN s ELSE Rng!NextRand(u[p - 1])]
    BY <1>7, <1>8
  <1>10. u[0] = v[0] /\ \A p \in 1..MaxSkip : u[p - 1] = v[p - 1] => u[p] = v[p]
    <2>1. \A p \in 0..MaxSkip : u[p] = IF p = 0 THEN s ELSE Rng!NextRand(u[p - 1])
      BY <1>9
    <2>2. QED
      BY <2>1, <1>5, <1>6, Generators
  <1>11. \A p \in 0..MaxSkip : u[p] = v[p]
    BY <1>10, SamePlaces, Generators
  <1>12. Rng!Applied(s, m) = u[IF m < 0 THEN 0 ELSE m]
    BY <1>8 DEF Rng!Applied
  <1>13. PICK q \in 0..MaxSkip : q = IF m < 0 THEN 0 ELSE m
    BY Generators
  <1>14. Rng!Applied(s, m) = Iterated(g, s, q)
    BY <1>4, <1>11, <1>12, <1>13
  <1>15. QED
    BY <1>1, <1>13, <1>14 DEF NotNegative

LEMMA Applied64IsIterated ==
  ASSUME NEW s \in 0..(Width - 1), NEW m \in 0..MaxSkip
  PROVE  Rng!Applied64(s, m) = Iterated(Gen64, s, m)
  <1> DEFINE v == [p \in 0..MaxSkip |-> Iterated(Gen64, s, p)]
  <1>1. PICK g : g = Gen64
    OBVIOUS
  <1>2. g \in [0..(Width - 1) -> 0..(Width - 1)]
    BY <1>1, GeneratorTypes
  <1>3. \A x \in 0..(Width - 1) : g[x] = Rng!NextRand64(x)
    BY <1>1 DEF Gen64, Rng!NextRand64
  <1>4. v = [p \in 0..MaxSkip |-> Iterated(g, s, p)]
    BY <1>1
  <1> HIDE DEF v
  <1>5. v[0] = s
    <2>1. Iterated(g, s, 0) = s
      BY <1>2, IteratedStep
    <2>2. QED
      BY <2>1, <1>4, Generators
  <1>6. \A p \in 1..MaxSkip : v[p] = Rng!NextRand64(v[p - 1])
    <2> TAKE p \in 1..MaxSkip
    <2>1. p - 1 \in Nat /\ p - 1 \in 0..MaxSkip /\ p \in 0..MaxSkip /\ (p - 1) + 1 = p
      BY Generators
    <2>2. /\ Iterated(g, s, (p - 1) + 1) = g[Iterated(g, s, p - 1)]
          /\ Iterated(g, s, p - 1) \in 0..(Width - 1)
      <3>1. PICK A, r : A = 0..(Width - 1) /\ r = s
        OBVIOUS
      <3>2. g \in [A -> A] /\ r \in A
        BY <3>1, <1>2
      <3>3. PICK q \in Nat : q = p - 1
        BY <2>1
      <3>4. Iterated(g, r, q) \in A /\ Iterated(g, r, q + 1) = g[Iterated(g, r, q)]
        BY ONLY <3>2, q \in Nat, IteratedNext
      <3>5. QED
        BY <3>1, <3>3, <3>4
    <2>3. QED
      BY <2>1, <2>2, <1>3, <1>4
  <1>7. v = [p \in 0..MaxSkip |-> IF p = 0 THEN s ELSE Rng!NextRand64(v[p - 1])]
    <2>1. \A p \in 0..MaxSkip : v[p] = IF p = 0 THEN s ELSE Rng!NextRand64(v[p - 1])
      BY <1>5, <1>6, Generators
    <2>2. v = [p \in 0..MaxSkip |-> v[p]]
      BY <1>4
    <2>3. QED
      BY <2>1, <2>2
  <1>8. PICK u :
             u = CHOOSE w : w = [p \in 0..MaxSkip |-> IF p = 0 THEN s ELSE Rng!NextRand64(w[p - 1])]
    OBVIOUS
  <1>9. u = [p \in 0..MaxSkip |-> IF p = 0 THEN s ELSE Rng!NextRand64(u[p - 1])]
    BY <1>7, <1>8
  <1>10. u[0] = v[0] /\ \A p \in 1..MaxSkip : u[p - 1] = v[p - 1] => u[p] = v[p]
    <2>1. \A p \in 0..MaxSkip : u[p] = IF p = 0 THEN s ELSE Rng!NextRand64(u[p - 1])
      BY <1>9
    <2>2. QED
      BY <2>1, <1>5, <1>6, Generators
  <1>11. \A p \in 0..MaxSkip : u[p] = v[p]
    BY <1>10, SamePlaces, Generators
  <1>12. QED
    BY <1>1, <1>4, <1>8, <1>11 DEF Rng!Applied64

(* One more application can be the first of them.                           *)
LEMMA IteratedFirst ==
  ASSUME NEW A, NEW g, NEW s, NEW m, g \in [A -> A], s \in A, m \in Nat
  PROVE  Iterated(g, s, m + 1) = Iterated(g, g[s], m)
  <1>1. Iterated(g, s, 0) = s
    BY IteratedStep
  <1>2. Iterated(g, s, 1) = g[s]
    <2>1. PICK q \in Nat : q = 0
      OBVIOUS
    <2>2. Iterated(g, s, q + 1) = g[Iterated(g, s, q)]
      BY IteratedNext
    <2>3. QED
      BY <1>1, <2>1, <2>2
  <1>3. PICK a \in Nat : a = 1
    OBVIOUS
  <1>4. Iterated(g, s, a + m) = Iterated(g, Iterated(g, s, a), m)
    BY IteratedJoin
  <1>5. a + m = m + 1
    BY <1>3
  <1>6. QED
    BY <1>2, <1>3, <1>4, <1>5

(* A turn of NthElement's loop halves the number of applications and        *)
(* squares the generator.                                                   *)
LEMMA NthTurn ==
  ASSUME NEW b \in 1..(Modulus - 1), NEW a \in 1..(Modulus - 1), NEW m \in Nat,
         NEW c, c = IF m % 2 # 0 THEN (b * a) % Modulus ELSE a
  PROVE  Iterated(Gen((b * b) % Modulus), c, m \div 2) = Iterated(Gen(b), a, m)
  <1>1. PICK A, g, f : A = 0..(Modulus - 1) /\ g = Gen(b) /\ f = Gen((b * b) % Modulus)
    OBVIOUS
  <1>2. b \in Nat /\ (b * b) % Modulus \in Nat
    <2>1. b \in Nat /\ b * b \in Nat
      BY Generators
    <2>2. QED
      BY <2>1, Generators, Division
  <1>3. g \in [A -> A] /\ f \in [A -> A]
    BY <1>1, <1>2, GeneratorTypes
  <1>4. \A x \in A : f[x] = g[g[x]]
    BY <1>1, <1>2, GeneratorSquare
  <1>5. PICK e : e = a
    OBVIOUS
  <1>6. e \in A /\ g[e] = (b * a) % Modulus
    <2>1. a \in 0..(Modulus - 1) /\ a * b = b * a
      BY Generators
    <2>2. QED
      BY <2>1, <1>1, <1>5 DEF Gen
  <1>7. c \in A
    BY <1>3, <1>5, <1>6
  <1>8. PICK q \in Nat : q = m \div 2 /\ m = IF m % 2 # 0 THEN 2 * q + 1 ELSE 2 * q
    <2>1. m \div 2 \in Nat /\ m = 2 * (m \div 2) + (m % 2) /\ m % 2 \in 0..1
      OBVIOUS
    <2>2. QED
      BY <2>1
  <1>9. Iterated(f, c, q) = Iterated(g, c, 2 * q)
    BY ONLY <1>3, <1>4, <1>7, q \in Nat, IteratedTwice
  <1>10. CASE m % 2 # 0
    <2>1. PICK p \in Nat : p = 2 * q
      OBVIOUS
    <2>2. Iterated(g, e, p + 1) = Iterated(g, g[e], p)
      BY <1>3, <1>6, IteratedFirst
    <2>3. QED
      BY <2>1, <2>2, <1>1, <1>5, <1>6, <1>8, <1>9, <1>10
  <1>11. CASE ~ (m % 2 # 0)
    BY <1>1, <1>8, <1>9, <1>11
  <1>12. QED
    BY <1>10, <1>11

LEMMA ModPlus ==
  ASSUME NEW m \in Nat, m > 0, NEW a \in Nat, NEW c \in Nat
  PROVE  ((a % m) + c) % m = (a + c) % m
  <1>1. PICK b \in Nat : b = 1
    OBVIOUS
  <1>2. ((a % m) * b + c) % m = (a * b + c) % m
    <2>1. Linear(a % m, b, c, m) = Linear(a, b, c, m)
      BY ModLinear
    <2>2. QED
      BY ONLY <2>1, Zenon DEF Linear
  <1>3. PICK r \in Nat : r = a % m
    BY Division
  <1>4. r * b = r /\ a * b = a
    BY <1>1
  <1>5. QED
    BY <1>2, <1>3, <1>4

(* A turn of AdvanceRand64's loop: the product and the sum that stand for m *)
(* applications become those for twice as many, and for one more.           *)
LEMMA AdvanceTurn ==
  ASSUME NEW b \in Nat, NEW a \in Nat, NEW m \in Nat, Stand(b, a, m),
         NEW c \in Nat, NEW d \in Nat, c = (b * b) % Width, d = (a * (b + 1)) % Width
  PROVE  Stand(c, d, 2 * m) /\ Stand((c * RNG_A) % Width, (d + c) % Width, 2 * m + 1)
  <1>0. Width \in Nat /\ Width > 0 /\ RNG_A \in Nat
    BY Generators
  <1>1. PICK A, g : A = 0..(Width - 1) /\ g = Gen64
    OBVIOUS
  <1>2. g \in [A -> A]
    BY <1>1, GeneratorTypes
  <1>3. ASSUME NEW s \in 0..(Width - 1)
        PROVE  Iterated(Gen64, s, 2 * m) = (s * c + d) % Width
    <2>0. s \in Nat
      BY <1>0
    <2>1. PICK x \in Nat : x = s * b + a
      BY <2>0
    <2>2. Iterated(Gen64, s, m) = x % Width /\ x % Width \in 0..(Width - 1)
      BY <2>1, <1>0, Division DEF Stand
    <2>3. Iterated(Gen64, x % Width, m) = ((x % Width) * b + a) % Width
      BY <2>2 DEF Stand
    <2>4. ((x % Width) * b + a) % Width = (x * b + a) % Width
      <3>1. Linear(x % Width, b, a, Width) = Linear(x, b, a, Width)
        BY <1>0, ModLinear
      <3>2. QED
        BY <3>1 DEF Linear
    <2>5. Iterated(Gen64, s, 2 * m) = Iterated(Gen64, Iterated(Gen64, s, m), m)
      <3>1. PICK r : r = s
        OBVIOUS
      <3>2. r \in A
        BY <3>1, <1>1
      <3>3. Iterated(g, r, m + m) = Iterated(g, Iterated(g, r, m), m)
        BY ONLY <1>2, <3>2, m \in Nat, IteratedJoin
      <3>4. m + m = 2 * m
        OBVIOUS
      <3>5. QED
        BY <3>1, <3>3, <3>4, <1>1
    <2>6. PICK y, z \in Nat : y = b * b /\ z = a * (b + 1)
      OBVIOUS
    <2>7. ((y % Width) * s + d) % Width = (y * s + d) % Width
      <3>1. Linear(y % Width, s, d, Width) = Linear(y, s, d, Width)
        BY <1>0, <2>0, ModLinear
      <3>2. QED
        BY <3>1 DEF Linear
    <2>8. PICK t \in Nat : t = y * s
      BY <2>0
    <2>9. ((z % Width) + t) % Width = (z + t) % Width
      BY ONLY <1>0, z \in Nat, t \in Nat, ModPlus, Zenon
    <2>10. x * b + a = z + t
      <3>1. (s * b + a) * b = (b * b) * s + a * b
        BY ONLY <2>0, a \in Nat, b \in Nat
      <3>2. a * (b + 1) = a * b + a
        BY ONLY a \in Nat, b \in Nat
      <3>3. PICK p \in Nat : p = a * b
        OBVIOUS
      <3>4. QED
        BY <3>1, <3>2, <3>3, <2>1, <2>6, <2>8
    <2>11. c * s = s * c
      BY ONLY <2>0, c \in Nat
    <2>12. PICK p \in Nat : p = s * c
      BY <2>0
    <2>13. (p + d) % Width = (t + d) % Width
      BY <2>6, <2>7, <2>8, <2>11, <2>12
    <2>14. (d + t) % Width = (z + t) % Width
      BY <2>6, <2>9
    <2>15. d + t = t + d
      OBVIOUS
    <2>16. QED
      BY <2>2, <2>3, <2>4, <2>5, <2>10, <2>12, <2>13, <2>14, <2>15
  <1>4. ASSUME NEW s \in 0..(Width - 1)
        PROVE  Iterated(Gen64, s, 2 * m + 1)
                 = (s * ((c * RNG_A) % Width) + ((d + c) % Width)) % Width
    <2>0. s \in Nat
      BY <1>0
    <2>1. PICK x \in Nat : x = s * RNG_A + 1
      BY <2>0, <1>0
    <2>2. x % Width \in 0..(Width - 1) /\ g[s] = x % Width
      <3>1. g[s] = (s * RNG_A + RNG_C) % Width
        BY <1>1 DEF Gen64
      <3>2. QED
        BY <2>1, <3>1, <1>0, Division, Generators
    <2>3. Iterated(Gen64, x % Width, 2 * m) = ((x % Width) * c + d) % Width
      BY <2>2, <1>3
    <2>4. ((x % Width) * c + d) % Width = (x * c + d) % Width
      <3>1. Linear(x % Width, c, d, Width) = Linear(x, c, d, Width)
        BY <1>0, ModLinear
      <3>2. QED
        BY <3>1 DEF Linear
    <2>5. Iterated(Gen64, s, 2 * m + 1) = Iterated(Gen64, x % Width, 2 * m)
      <3>1. PICK r : r = s
        OBVIOUS
      <3>2. r \in A
        BY <3>1, <1>1
      <3>3. PICK q \in Nat : q = 2 * m
        OBVIOUS
      <3>4. Iterated(g, r, q + 1) = Iterated(g, g[r], q)
        BY ONLY <1>2, <3>2, q \in Nat, IteratedFirst
      <3>5. QED
        BY <3>1, <3>3, <3>4, <1>1, <2>2
    <2>6. PICK y, z \in Nat : y = c * RNG_A /\ z = d + c
      BY <1>0
    <2>7. PICK e \in Nat : e = z % Width
      BY <1>0, Division
    <2>8. ((y % Width) * s + e) % Width = (y * s + e) % Width
      <3>1. Linear(y % Width, s, e, Width) = Linear(y, s, e, Width)
        BY <1>0, <2>0, ModLinear
      <3>2. QED
        BY <3>1 DEF Linear
    <2>9. PICK t \in Nat : t = y * s
      BY <2>0
    <2>10. ((z % Width) + t) % Width = (z + t) % Width
      BY ONLY <1>0, z \in Nat, t \in Nat, ModPlus, Zenon
    <2>11. x * c + d = z + t
      <3>1. (s * RNG_A + 1) * c = (c * RNG_A) * s + c
        BY ONLY <2>0, <1>0, c \in Nat
      <3>2. QED
        BY <3>1, <2>1, <2>6, <2>9
    <2>12. PICK f \in Nat : f = y % Width
      BY <1>0, Division
    <2>13. f * s = s * f
      BY ONLY <2>0, f \in Nat
    <2>14. (s * f + e) % Width = (t + e) % Width
      BY <2>8, <2>9, <2>12, <2>13
    <2>15. e + t = t + e
      OBVIOUS
    <2>16. QED
      BY <2>3, <2>4, <2>5, <2>6, <2>7, <2>10, <2>11, <2>12, <2>14, <2>15
  <1>5. QED
    BY <1>3, <1>4 DEF Stand

(* Calls begin where the invariant holds.                                   *)
LEMMA CallsKeep ==
  ASSUME RngInv, Rng!CallNthElement \/ Rng!CallAdvanceRand64
  PROVE  RngInv'
  <1>1. CASE Rng!CallNthElement
    BY <1>1, Generators DEF Rng!CallNthElement, RngInv
  <1>2. CASE Rng!CallAdvanceRand64
    <2>1. /\ fn' = "AdvanceRand64" /\ seed' \in 0..(Width - 1) /\ skip' \in 0..MaxSkip
          /\ left' = IF skip' = 0 THEN 0 ELSE Rng!HighestBit(skip')
          /\ mult' = RNG_A /\ acc' = RNG_C
      BY <1>2 DEF Rng!CallAdvanceRand64
    <2>2. PICK m \in 0..MaxSkip : m = skip'
      BY <2>1
    <2>3. mult' \in Nat /\ acc' \in Nat /\ m \in Nat
      BY <2>1, Generators
    <2>4. CASE m = 0
      BY <2>1, <2>2, <2>3, <2>4 DEF RngInv
    <2>5. CASE m # 0
      <3>1. Rng!HighestBit(m) \in 0..m /\ Rng!Shifted(m, Rng!HighestBit(m)) = 1
        <4>1. m \in 1..MaxSkip
          BY <2>5, <2>3
        <4>2. QED
          BY <4>1, HighestBitIsOne
      <3>2. \A s \in 0..(Width - 1) : Iterated(Gen64, s, 1) = (s * mult' + acc') % Width
        <4> TAKE s \in 0..(Width - 1)
        <4>1. PICK A, g, r, q : A = 0..(Width - 1) /\ g = Gen64 /\ r = s /\ q = 0
          OBVIOUS
        <4>2. g \in [A -> A] /\ r \in A /\ q \in Nat
          BY <4>1, GeneratorTypes
        <4>3. Iterated(g, r, q + 1) = g[Iterated(g, r, q)]
          BY ONLY <4>2, IteratedNext
        <4>4. Iterated(g, r, 0) = r
          BY ONLY <4>2, IteratedStep
        <4>5. g[r] = (s * RNG_A + RNG_C) % Width
          BY <4>1 DEF Gen64
        <4>6. QED
          BY <4>1, <4>3, <4>4, <4>5, <2>1
      <3>3. Stand(mult', acc', 1)
        BY <3>2 DEF Stand
      <3>4. QED
        BY <2>1, <2>2, <2>3, <2>5, <3>1, <3>3 DEF RngInv
    <2>6. QED
      BY <2>4, <2>5
  <1>3. QED
    BY <1>1, <1>2

LEMMA NthElementKeeps == RngInv /\ Rng!NthElement => RngInv'
  <1> SUFFICES ASSUME RngInv, Rng!NthElement PROVE RngInv'
    OBVIOUS
  <1>1. /\ fn = "NthElement" /\ left > 0 /\ fn' = fn /\ seed' = seed /\ skip' = skip
        /\ acc' = IF left % 2 # 0 THEN (mult * acc) % Modulus ELSE acc
        /\ left' = left \div 2 /\ mult' = (mult * mult) % Modulus
    BY DEF Rng!NthElement
  <1>2. /\ seed \in 1..(Modulus - 1) /\ skip \in -1..MaxSkip /\ left \in -1..MaxSkip
        /\ mult \in 1..(Modulus - 1) /\ acc \in 1..(Modulus - 1)
        /\ Iterated(Gen(mult), acc, NotNegative(left))
             = Iterated(Gen(Multiplier), seed, NotNegative(skip))
    BY <1>1 DEF RngInv
  <1>3. PICK b, a \in 1..(Modulus - 1), m \in Nat : b = mult /\ a = acc /\ m = left
    BY <1>1, <1>2, Generators
  <1>4. PICK c : c = IF m % 2 # 0 THEN (b * a) % Modulus ELSE a
    OBVIOUS
  <1>5. acc' = c /\ mult' = (b * b) % Modulus /\ left' = m \div 2
    BY <1>1, <1>3, <1>4
  <1>6. c \in 1..(Modulus - 1) /\ (b * b) % Modulus \in 1..(Modulus - 1)
    BY <1>4, SeedStays
  <1>7. Iterated(Gen((b * b) % Modulus), c, m \div 2) = Iterated(Gen(b), a, m)
    BY <1>4, NthTurn
  <1>8. m \div 2 \in 0..MaxSkip /\ m > 0
    BY <1>1, <1>2, <1>3, Generators
  <1>9. NotNegative(m) = m /\ NotNegative(m \div 2) = m \div 2
    BY <1>8, Generators DEF NotNegative
  <1>10. Iterated(Gen(mult'), acc', NotNegative(left'))
          = Iterated(Gen(Multiplier), seed', NotNegative(skip'))
    BY <1>1, <1>2, <1>3, <1>5, <1>7, <1>9
  <1>11. left' \in -1..MaxSkip
    BY <1>5, <1>8, Generators
  <1>12. QED
    BY <1>1, <1>2, <1>5, <1>6, <1>10, <1>11 DEF RngInv

LEMMA AdvanceRand64Keeps == RngInv /\ Rng!AdvanceRand64 => RngInv'
  <1> SUFFICES ASSUME RngInv, Rng!AdvanceRand64 PROVE RngInv'
    OBVIOUS
  <1> DEFINE twice == (acc * (mult + 1)) % Width
             square == (mult * mult) % Width
  <1>1. /\ fn = "AdvanceRand64" /\ left > 0 /\ fn' = fn /\ seed' = seed /\ skip' = skip
        /\ left' = left - 1
        /\ IF Rng!Shifted(skip, left') % 2 = 1
           THEN acc' = (twice + square) % Width /\ mult' = (square * RNG_A) % Width
           ELSE acc' = twice /\ mult' = square
    BY DEF Rng!AdvanceRand64
  <1>2. /\ seed \in 0..(Width - 1) /\ skip \in 0..MaxSkip /\ left \in 0..skip
        /\ mult \in Nat /\ acc \in Nat
        /\ skip # 0 => Stand(mult, acc, Rng!Shifted(skip, left))
    BY <1>1 DEF RngInv
  <1>3. PICK b, a \in Nat : b = mult /\ a = acc
    BY <1>2
  <1>4. PICK c, d \in Nat : c = square /\ d = twice
    <2>1. a * (b + 1) \in Nat /\ b * b \in Nat
      OBVIOUS
    <2>2. QED
      BY <2>1, <1>3, Division, Generators
  <1>5. c = (b * b) % Width /\ d = (a * (b + 1)) % Width
    BY <1>3, <1>4
  <1> HIDE DEF twice, square
  <1>6. PICK m, p \in Nat : m = Rng!Shifted(skip, left) /\ p = Rng!Shifted(skip, left - 1)
                             /\ m = p \div 2
    <2>1. skip \in Nat /\ left \in 1..MaxSkip /\ left \in 0..MaxSkip /\ left - 1 \in 0..MaxSkip
      BY <1>1, <1>2, Generators
    <2>2. PICK x \in Nat, y \in 1..MaxSkip : x = skip /\ y = left
      BY <2>1
    <2>3. /\ Rng!Shifted(x, y) = Rng!Shifted(x, y - 1) \div 2
          /\ Rng!Shifted(x, y) \in Nat /\ Rng!Shifted(x, y - 1) \in Nat
      BY <2>1, <2>2, ShiftedHalves
    <2>4. QED
      BY <2>2, <2>3
  <1>7. skip # 0 /\ left' \in 0..skip
    BY <1>1, <1>2, Generators
  <1>8. Stand(b, a, m)
    BY <1>2, <1>3, <1>6, <1>7
  <1>9. Stand(c, d, 2 * m) /\ Stand((c * RNG_A) % Width, (d + c) % Width, 2 * m + 1)
    BY ONLY <1>5, <1>8, a \in Nat, b \in Nat, c \in Nat, d \in Nat, m \in Nat, AdvanceTurn
  <1>10. /\ p % 2 = 1 => p = 2 * m + 1
         /\ p % 2 # 1 => p = 2 * m
    BY <1>6
  <1>11. /\ p % 2 = 1 => acc' = (d + c) % Width /\ mult' = (c * RNG_A) % Width
         /\ p % 2 # 1 => acc' = d /\ mult' = c
    BY <1>1, <1>4, <1>6
  <1>12. acc' \in Nat /\ mult' \in Nat
    <2>1. c * RNG_A \in Nat /\ d + c \in Nat
      BY Generators
    <2>2. (c * RNG_A) % Width \in Nat /\ (d + c) % Width \in Nat
      BY <2>1, Division, Generators
    <2>3. QED
      BY <2>2, <1>11
  <1>13. Stand(mult', acc', Rng!Shifted(skip', left'))
    <2>1. Rng!Shifted(skip', left') = p
      BY <1>1, <1>6
    <2>2. CASE p % 2 = 1
      BY <2>1, <2>2, <1>9, <1>10, <1>11
    <2>3. CASE p % 2 # 1
      BY <2>1, <2>3, <1>9, <1>10, <1>11
    <2>4. QED
      BY <2>2, <2>3
  <1>14. QED
    BY <1>1, <1>2, <1>7, <1>12, <1>13 DEF RngInv

LEMMA RngInvPreserved == RngInv /\ [Rng!Next]_rng => RngInv'
  <1>1. CASE UNCHANGED rng
    BY <1>1 DEF rng, RngInv
  <1>2. CASE Rng!Return
    BY <1>2 DEF Rng!Return, RngInv
  <1>3. QED
    BY <1>1, <1>2, CallsKeep, NthElementKeeps, AdvanceRand64Keeps DEF Rng!Next

(* What a call returns.                                                     *)
LEMMA ReturnIsIterated ==
  ASSUME RngInv, Rng!Return
  PROVE  IF fn = "NthElement"
         THEN /\ result' = Rng!Applied(seed, skip)
              /\ result' \in 1..(Modulus - 1)
              /\ \A low \in 0..1, m \in 1..5 :
                   Rng!UnifInt(low, low + m, result') \in low..(low + m)
         ELSE result' = Rng!Applied64(seed, skip)
  <1>1. /\ fn # "none" /\ left <= 0
        /\ result' = IF fn = "NthElement" THEN acc
                     ELSE IF skip = 0 THEN seed ELSE (seed * mult + acc * RNG_C) % Width
    BY DEF Rng!Return
  <1>2. CASE fn = "NthElement"
    <2>1. /\ seed \in 1..(Modulus - 1) /\ skip \in -1..MaxSkip /\ left \in -1..MaxSkip
          /\ mult \in 1..(Modulus - 1) /\ acc \in 1..(Modulus - 1)
          /\ Iterated(Gen(mult), acc, NotNegative(left))
               = Iterated(Gen(Multiplier), seed, NotNegative(skip))
      BY <1>2 DEF RngInv
    <2>2. result' = acc /\ NotNegative(left) = 0
      BY <1>1, <1>2, <2>1, Generators DEF NotNegative
    <2>3. PICK s \in 0..(Modulus - 1), m \in -1..MaxSkip : s = seed /\ m = skip
      BY <2>1, Generators
    <2>4. Rng!Applied(s, m) = Iterated(Gen(Multiplier), s, NotNegative(m))
      BY AppliedIsIterated
    <2>5. Iterated(Gen(mult), acc, 0) = acc
      <3>1. PICK A, g, r : A = 0..(Modulus - 1) /\ g = Gen(mult) /\ r = acc
        OBVIOUS
      <3>2. mult \in Nat
        BY <2>1, Generators
      <3>3. g \in [A -> A] /\ r \in A
        BY <3>1, <3>2, <2>1, GeneratorTypes
      <3>4. Iterated(g, r, 0) = r
        BY ONLY <3>3, IteratedStep
      <3>5. QED
        BY <3>1, <3>4
    <2>6. ASSUME NEW low \in 0..1, NEW p \in 1..5
          PROVE  Rng!UnifInt(low, low + p, result') \in low..(low + p)
      <3>1. PICK r \in 1..(Modulus - 1) : r = result'
        BY <2>1, <2>2
      <3>2. PICK e \in Nat : e = (r * (p + 1)) \div Modulus
        <4>1. r * (p + 1) \in Nat
          BY Generators
        <4>2. QED
          BY <4>1, Generators
      <3>3. e <= p
        <4>1. r * (p + 1) < Modulus * (p + 1)
          BY Generators
        <4>2. PICK x \in Nat : x = r * (p + 1)
          BY Generators
        <4>3. x = Modulus * e + (x % Modulus) /\ x % Modulus \in 0..(Modulus - 1)
          <5>1. PICK M \in Nat : M = Modulus /\ M > 0
            BY Generators
          <5>2. x = M * (x \div M) + (x % M) /\ x % M \in 0..(M - 1)
            BY ONLY <5>1, x \in Nat, M \in Nat
          <5>3. QED
            BY <5>1, <5>2, <3>2, <4>2
        <4>4. CASE e >= p + 1
          <5>1. Modulus * e >= Modulus * (p + 1)
            BY ONLY <4>4, Generators, e \in Nat, p \in 1..5
          <5>2. QED
            BY ONLY <5>1, <4>1, <4>2, <4>3, Generators, e \in Nat, p \in 1..5
        <4>5. QED
          BY ONLY <4>4, e \in Nat, p \in 1..5
      <3>4. Rng!UnifInt(low, low + p, result') = low + e
        <4>1. (low + p) - low + 1 = p + 1
          OBVIOUS
        <4>2. QED
          BY <4>1, <3>1, <3>2 DEF Rng!UnifInt
      <3>5. QED
        BY <3>3, <3>4
    <2>7. QED
      BY <2>1, <2>2, <2>3, <2>4, <2>5, <2>6, <1>2
  <1>3. CASE fn # "NthElement"
    <2>1. /\ seed \in 0..(Width - 1) /\ skip \in 0..MaxSkip /\ left \in 0..skip
          /\ mult \in Nat /\ acc \in Nat
          /\ skip # 0 => Stand(mult, acc, Rng!Shifted(skip, left))
      BY <1>1, <1>3 DEF RngInv
    <2>2. left = 0 /\ skip \in Nat
      BY <2>1, <1>1, Generators
    <2>3. PICK s \in 0..(Width - 1), m \in 0..MaxSkip : s = seed /\ m = skip
      BY <2>1
    <2>4. Rng!Applied64(s, m) = Iterated(Gen64, s, m)
      BY Applied64IsIterated
    <2>5. CASE skip = 0
      <3>1. PICK A, g, r : A = 0..(Width - 1) /\ g = Gen64 /\ r = s
        OBVIOUS
      <3>2. g \in [A -> A] /\ r \in A
        BY <3>1, GeneratorTypes
      <3>3. Iterated(g, r, 0) = r
        BY ONLY <3>2, IteratedStep
      <3>4. QED
        BY <3>1, <3>3, <2>3, <2>4, <2>5, <1>1, <1>3
    <2>6. CASE skip # 0
      <3>1. Rng!Shifted(skip, 0) = skip
        BY <2>2, ShiftedHalves
      <3>2. Iterated(Gen64, s, m) = (s * mult + acc) % Width
        BY <2>1, <2>2, <2>3, <2>6, <3>1 DEF Stand
      <3>3. acc * RNG_C = acc
        BY <2>1, Generators
      <3>4. QED
        BY <3>2, <3>3, <2>3, <2>4, <2>6, <1>1, <1>3
    <2>7. QED
      BY <2>5, <2>6
  <1>4. QED
    BY <1>2, <1>3

LEMMA PartsRng == PartsSpec => Rng!Init /\ [][Rng!Next]_rng
  <1>1. PartsInit => Rng!Init
    BY DEF PartsInit
  <1>2. [PartsNext]_<<what, rowsVars, rng, dists, text, queries>> => [Rng!Next]_rng
    BY DEF PartsNext
  <1>3. QED
    BY <1>1, <1>2, PTL DEF PartsSpec

(* For every modulus that is prime and any number of skipped draws:         *)
(* NthElement, which halves the number and squares the multiplier, and      *)
(* AdvanceRand64, which does both for the increment too, leave the seed     *)
(* that drawing one by one leaves, and a seed of the 31-bit generator never *)
(* becomes 0.                                                               *)
THEOREM AdvanceIsIterationHolds == PartsSpec => AdvanceIsIteration
  <1>1. Rng!Init => RngInv
    BY DEF Rng!Init, RngInv
  <1>2. RngInv /\ [Rng!Next]_rng => RngInv'
    BY RngInvPreserved
  <1>3. RngInv /\ [Rng!Next]_rng => [Rng!ReturnsIterated]_Rng!rngVars
    BY ReturnIsIterated DEF Rng!ReturnsIterated
  <1>4. QED
    BY <1>1, <1>2, <1>3, PartsRng, PTL DEF AdvanceIsIteration, Rng!AdvanceIsIteration

-----------------------------------------------------------------------------
(* What qgen draws *)

LEMMA QueryGenerator ==
  /\ QueryModulus \in Nat /\ QueryModulus > 1 /\ QueryMultiplier \in Nat
  /\ Commands \subseteq Qgen!Command
  /\ permutation \in Seq([1..22 -> 1..22]) /\ permutation # <<>>
  BY PartsAssumption DEF Qgen!QgenAssumption, Qgen!GeneratorsAssumption, Qgen!Prime,
     Qgen!QUERIES_PER_SET

(* The part of an interval that a seed stands for lies in the interval.     *)
LEMMA Scaled ==
  ASSUME NEW m \in Nat, m > 0, NEW r \in 0..(m - 1), NEW w \in Nat
  PROVE  (r * (w + 1)) \div m \in 0..w
  <1>1. PICK x \in Nat : x = r * (w + 1)
    OBVIOUS
  <1>2. x \div m \in Nat /\ x = m * (x \div m) + (x % m) /\ x % m \in 0..(m - 1)
    OBVIOUS
  <1>3. PICK e \in Nat : e = x \div m
    BY <1>2
  <1>4. x < m * (w + 1)
    BY <1>1
  <1>5. CASE e >= w + 1
    <2>1. m * e >= m * (w + 1)
      BY ONLY <1>5, e \in Nat, w \in Nat, m \in Nat
    <2>2. m * e <= x
      BY <1>2, <1>3
    <2>3. QED
      BY ONLY <1>4, <2>1, <2>2, e \in Nat, w \in Nat, m \in Nat, x \in Nat
  <1>6. QED
    BY <1>1, <1>3, <1>5

LEMMA QueryDraws ==
  ASSUME NEW s \in Int, NEW a \in Nat, NEW b \in Nat, a <= b
  PROVE  /\ Qgen!NextRand(s) \in 0..(QueryModulus - 1)
         /\ Qgen!UnifInt(a, b, Qgen!NextRand(s)) \in a..b
  <1>1. PICK r : r = Qgen!NextRand(s)
    OBVIOUS
  <1>2. r \in 0..(QueryModulus - 1)
    <2>1. PICK M \in Nat : M = QueryModulus /\ M > 0
      BY QueryGenerator
    <2>2. PICK x \in Int : x = s * QueryMultiplier
      BY QueryGenerator
    <2>3. x % M \in 0..(M - 1)
      BY <2>1
    <2>4. QED
      BY <1>1, <2>1, <2>2, <2>3 DEF Qgen!NextRand
  <1>3. PICK w \in Nat : w = b - a
    OBVIOUS
  <1>4. (r * (w + 1)) \div QueryModulus \in 0..w
    <2>1. PICK M \in Nat : M = QueryModulus /\ M > 0
      BY QueryGenerator
    <2>2. r \in 0..(M - 1)
      BY <1>2, <2>1
    <2>3. (r * (w + 1)) \div M \in 0..w
      BY ONLY <2>1, <2>2, w \in Nat, M \in Nat, Scaled
    <2>4. QED
      BY <2>1, <2>3
  <1>5. Qgen!UnifInt(a, b, r) = a + (r * (w + 1)) \div QueryModulus
    BY <1>3 DEF Qgen!UnifInt
  <1>6. QED
    BY <1>1, <1>2, <1>3, <1>4, <1>5

-----------------------------------------------------------------------------
(* The instructions of the queries *)

Kinds == {"number", "other", "second", "month", "march", "material", "kind", "twenties",
          "forties", "nation", "fraction", "permute"}
Instruction == [to : 1..10, low : Nat, high : Nat, as : Kinds]

\* The parameters that an instruction writes.
Written(c) ==
  IF c.as \in {"nation", "fraction"} THEN {1, 2}
  ELSE IF c.as = "permute" THEN c.to..(c.to + 7) ELSE {c.to}

Fine(c) ==
  /\ c \in Instruction /\ c.low <= c.high
  /\ c.as = "march" => c.low = 0 /\ c.high = 30
  /\ c.as = "nation" => c.low = 1 /\ c.high = 25

\* A recipe writes every parameter of its query.
Complete(q) ==
  /\ Qgen!recipe[q] \in Seq(Instruction)
  /\ \A j \in 1..Len(Qgen!recipe[q]) : Fine(Qgen!recipe[q][j])
  /\ \A p \in 1..Qgen!Params[q] : \E j \in 1..Len(Qgen!recipe[q]) : p \in Written(Qgen!recipe[q][j])

LEMMA RecipesComplete == \A q \in 1..22 : Complete(q)
  <1> USE DEF Complete, Fine, Written, Instruction, Kinds, Qgen!recipe, Qgen!Num, Qgen!As,
              Qgen!Member, Qgen!BrandM, Qgen!BrandN, Qgen!Permute, Qgen!Params
  <1>1. Complete(1)
    OBVIOUS
  <1>2. Complete(2)
    OBVIOUS
  <1>3. Complete(3)
    OBVIOUS
  <1>4. Complete(4)
    OBVIOUS
  <1>5. Complete(5)
    OBVIOUS
  <1>6. Complete(6)
    OBVIOUS
  <1>7. Complete(7)
    OBVIOUS
  <1>8. Complete(8)
    OBVIOUS
  <1>9. Complete(9)
    OBVIOUS
  <1>10. Complete(10)
    OBVIOUS
  <1>11. Complete(11)
    OBVIOUS
  <1>12. Complete(12)
    OBVIOUS
  <1>13. Complete(13)
    OBVIOUS
  <1>14. Complete(14)
    OBVIOUS
  <1>15. Complete(15)
    OBVIOUS
  <1>16. Complete(16)
    OBVIOUS
  <1>17. Complete(17)
    OBVIOUS
  <1>18. Complete(18)
    OBVIOUS
  <1>19. Complete(19)
    OBVIOUS
  <1>20. Complete(20)
    OBVIOUS
  <1>21. Complete(21)
    OBVIOUS
  <1>22. Complete(22)
    OBVIOUS
  <1> HIDE DEF Complete
  <1>23. QED
    BY <1>1, <1>2, <1>3, <1>4, <1>5, <1>6, <1>7, <1>8, <1>9, <1>10, <1>11,
       <1>12, <1>13, <1>14, <1>15, <1>16, <1>17, <1>18, <1>19, <1>20, <1>21, <1>22

LEMMA RecipeLengths == \A q \in 1..22 : Len(Qgen!recipe[q]) \in Nat
  <1> TAKE q \in 1..22
  <1>1. Complete(q)
    BY RecipesComplete
  <1>2. QED
    BY <1>1 DEF Complete

LEMMA RecipesOfNote ==
  /\ \A q \in {7, 12} :
       /\ Len(Qgen!recipe[q]) > 1
       /\ Qgen!recipe[q][2].as = "other" /\ Qgen!recipe[q][2].to = 2
       /\ \A j \in 3..Len(Qgen!recipe[q]) : Written(Qgen!recipe[q][j]) \cap {1, 2} = {}
  /\ Len(Qgen!recipe[3]) = 2 /\ Qgen!recipe[3][2].as = "march" /\ Qgen!recipe[3][2].to = 2
  /\ Len(Qgen!recipe[8]) = 2 /\ Qgen!recipe[8][1].as = "nation" /\ 2 \notin Written(Qgen!recipe[8][2])
  /\ Len(Qgen!recipe[16]) = 4 /\ Qgen!recipe[16][4].as = "permute"
  /\ Len(Qgen!recipe[22]) = 1 /\ Qgen!recipe[22][1].as = "permute"
  <1> DEFINE H(q) == /\ Len(Qgen!recipe[q]) > 1
                     /\ Qgen!recipe[q][2].as = "other" /\ Qgen!recipe[q][2].to = 2
                     /\ \A j \in 3..Len(Qgen!recipe[q]) : Written(Qgen!recipe[q][j]) \cap {1, 2} = {}
  <1>1. H(7) /\ H(12)
    <2>1. H(7)
      BY DEF Written, Qgen!recipe, Qgen!Num, Qgen!As, Qgen!Member, Qgen!BrandM, Qgen!BrandN, Qgen!Permute
    <2>2. Qgen!recipe[12][2].as = "other" /\ Qgen!recipe[12][2].to = 2 /\ Len(Qgen!recipe[12]) = 3
            /\ Len(Qgen!recipe[12]) > 1 /\ Written(Qgen!recipe[12][3]) = {3}
      BY DEF Written, Qgen!recipe, Qgen!Num, Qgen!As, Qgen!Member, Qgen!BrandM, Qgen!BrandN, Qgen!Permute
    <2>3. ASSUME NEW j \in 3..Len(Qgen!recipe[12])
          PROVE  Written(Qgen!recipe[12][j]) \cap {1, 2} = {}
      <3>1. j = 3
        BY <2>2
      <3>2. QED
        BY <3>1, <2>2
    <2>4. QED
      BY <2>1, <2>2, <2>3
  <1>2. /\ Len(Qgen!recipe[3]) = 2 /\ Qgen!recipe[3][2].as = "march"
        /\ Qgen!recipe[3][2].to = 2
    BY DEF Written, Qgen!recipe, Qgen!Num, Qgen!As, Qgen!Member, Qgen!BrandM, Qgen!BrandN, Qgen!Permute
  <1>3. /\ Len(Qgen!recipe[8]) = 2 /\ Qgen!recipe[8][1].as = "nation"
        /\ 2 \notin Written(Qgen!recipe[8][2])
    BY DEF Written, Qgen!recipe, Qgen!Num, Qgen!As, Qgen!Member, Qgen!BrandM, Qgen!BrandN, Qgen!Permute
  <1>4. /\ Len(Qgen!recipe[16]) = 4 /\ Qgen!recipe[16][4].as = "permute"
        /\ Len(Qgen!recipe[22]) = 1 /\ Qgen!recipe[22][1].as = "permute"
    BY DEF Written, Qgen!recipe, Qgen!Num, Qgen!As, Qgen!Member, Qgen!BrandM, Qgen!BrandN, Qgen!Permute
  <1>5. QED
    BY <1>1, <1>2, <1>3, <1>4

\* Only the queries 16 and 22 permute, at the end.
Permutes(q, j) ==
  Qgen!recipe[q][j].as = "permute" =>
    \/ q = 16 /\ j = 4 /\ Qgen!recipe[q][j].to = 3
    \/ q = 22 /\ j = 1 /\ Qgen!recipe[q][j].to = 1

LEMMA PermutesLast == \A q \in 1..22 : \A j \in 1..Len(Qgen!recipe[q]) : Permutes(q, j)
  <1> DEFINE G(q) == \A j \in 1..Len(Qgen!recipe[q]) : Permutes(q, j)
  <1> USE DEF Permutes, Qgen!recipe, Qgen!Num, Qgen!As, Qgen!Member, Qgen!BrandM, Qgen!BrandN,
              Qgen!Permute
  <1>1. G(1)
    OBVIOUS
  <1>2. G(2)
    OBVIOUS
  <1>3. G(3)
    OBVIOUS
  <1>4. G(4)
    OBVIOUS
  <1>5. G(5)
    OBVIOUS
  <1>6. G(6)
    OBVIOUS
  <1>7. G(7)
    OBVIOUS
  <1>8. G(8)
    OBVIOUS
  <1>9. G(9)
    OBVIOUS
  <1>10. G(10)
    OBVIOUS
  <1>11. G(11)
    OBVIOUS
  <1>12. G(12)
    OBVIOUS
  <1>13. G(13)
    OBVIOUS
  <1>14. G(14)
    OBVIOUS
  <1>15. G(15)
    OBVIOUS
  <1>16. G(16)
    OBVIOUS
  <1>17. G(17)
    OBVIOUS
  <1>18. G(18)
    OBVIOUS
  <1>19. G(19)
    OBVIOUS
  <1>20. G(20)
    OBVIOUS
  <1>21. G(21)
    OBVIOUS
  <1>22. G(22)
    OBVIOUS
  <1> HIDE DEF G, Permutes
  <1>23. \A q \in 1..22 : G(q)
    BY <1>1, <1>2, <1>3, <1>4, <1>5, <1>6, <1>7, <1>8, <1>9, <1>10, <1>11,
       <1>12, <1>13, <1>14, <1>15, <1>16, <1>17, <1>18, <1>19, <1>20, <1>21, <1>22
  <1>24. QED
    BY <1>23 DEF G

(* The days from 1155 on are those of March 1995.                           *)
MarchDay(v) == Qgen!mk_time(v + 1155 + 1) = [year |-> 95, month |-> 3, day |-> v + 1]

LEMMA SameDates == ASSUME NEW x PROVE Qgen!mk_time(x) = mk_time(x)
  <1>1. Qgen!STARTDATE = STARTDATE /\ Qgen!Years = Years
    BY DEF Qgen!STARTDATE, STARTDATE, Qgen!Years, Years
  <1>2. \A y : Qgen!LEAP(y) = LEAP(y)
    BY DEF Qgen!LEAP, LEAP
  <1>3. \A d : Qgen!julian(d) = julian(d)
    <2> TAKE d
    <2> QED
      BY DEF Qgen!julian, julian, Qgen!Years, Years, Qgen!STARTDATE, STARTDATE, Qgen!LEAP, LEAP
  <1>4. \A m : Qgen!dcnt(m) = dcnt(m)
    BY DEF Qgen!dcnt, dcnt, Qgen!Days, Days
  <1>5. \A y, d : Qgen!MonthOf(y, d) = MonthOf(y, d)
    <2> TAKE y, d
    <2> QED
      BY DEF Qgen!MonthOf, MonthOf, Qgen!dcnt, dcnt, Qgen!Days, Days, Qgen!LEAP_ADJ, LEAP_ADJ,
             Qgen!LEAP, LEAP
  <1>6. PICK j : j = julian(x + STARTDATE - 1)
    OBVIOUS
  <1>7. mk_time(x) = FromJulian(j)
    <2>1. mk_time(x) = FromJulian(julian(x + STARTDATE - 1))
      BY DEF mk_time, FromJulian, DateFrom
    <2>2. QED
      BY ONLY <2>1, <1>6
  <1>8. Qgen!mk_time(x) = FromJulian(j)
    BY <1>1, <1>2, <1>3, <1>4, <1>5, <1>6 DEF Qgen!mk_time, FromJulian, DateFrom
  <1>9. QED
    BY <1>7, <1>8

LEMMA MarchDays == \A v \in 0..30 : MarchDay(v)
  <1> SUFFICES ASSUME NEW v \in 0..30 PROVE MarchDay(v)
    OBVIOUS
  <1>1. MonthEnd(95, 3 - 1) = 59 /\ MonthEnd(95, 3) = 90 /\ Before(95) = 1096
    BY DEF MonthEnd, dcnt, Days, LEAP_ADJ, LEAP, Before
  <1>2. InMonth(95, 3, v + 59)
    BY <1>1 DEF InMonth
  <1>3. v + 1155 + 1 = Before(95) + (v + 59) + 1 /\ v + 1 = (v + 59) + 1 - MonthEnd(95, 3 - 1)
    BY <1>1
  <1>4. IsDate(v + 1155 + 1, 95, 3, v + 1)
    BY <1>2, <1>3, DateIs, v + 59 \in Nat, 95 \in 92..99, 3 \in 1..12
  <1>5. QED
    BY <1>4, SameDates DEF IsDate, MarchDay

\* The sums of the nations' weights.
RegionOf == <<0, 1, 1, 1, 4, 0, 3, 3, 2, 2, 4, 4, 2, 4, 0, 0, 0, 1, 2, 3, 4, 2, 3, 3, 1>>

(* Each nation's sum is the number of one of the five regions.              *)
LEMMA RegionsAreFive == \A m \in 1..25 : Qgen!Region[m] \in 0..4
  <1>1. PICK v : v = [p \in 0..25 |-> IF p = 0 THEN 0 ELSE RegionOf[p]]
    OBVIOUS
  <1>2. \A p \in 1..25 : RegionOf[p] \in 0..4
    BY DEF RegionOf
  <1>3. v[0] = 0 /\ \A p \in 1..25 : v[p] = RegionOf[p]
    BY <1>1
  <1>4. \A p \in 1..25 : v[p] = v[p - 1] + Qgen!NationWeights[p]
    <2>1. v[1] = v[0] + Qgen!NationWeights[1]
      BY <1>3 DEF RegionOf, Qgen!NationWeights
    <2>2. ASSUME NEW p \in 2..25 PROVE RegionOf[p] = RegionOf[p - 1] + Qgen!NationWeights[p]
      BY DEF RegionOf, Qgen!NationWeights
    <2>3. QED
      BY <2>1, <2>2, <1>3
  <1>5. v = [p \in 0..25 |-> IF p = 0 THEN 0 ELSE v[p - 1] + Qgen!NationWeights[p]]
    <2>1. v = [p \in 0..25 |-> v[p]]
      BY <1>1
    <2>2. \A p \in 0..25 : v[p] = IF p = 0 THEN 0 ELSE v[p - 1] + Qgen!NationWeights[p]
      BY <1>3, <1>4
    <2>3. QED
      BY <2>1, <2>2
  <1>6. PICK u :
          u = CHOOSE w : w = [p \in 0..25 |-> IF p = 0 THEN 0 ELSE w[p - 1] + Qgen!NationWeights[p]]
    OBVIOUS
  <1>7. u = [p \in 0..25 |-> IF p = 0 THEN 0 ELSE u[p - 1] + Qgen!NationWeights[p]]
    BY <1>5, <1>6
  <1>8. Qgen!Region = u
    BY <1>6 DEF Qgen!Region
  <1>9. u[0] = v[0] /\ \A p \in 1..25 : u[p - 1] = v[p - 1] => u[p] = v[p]
    <2>1. \A p \in 0..25 : u[p] = IF p = 0 THEN 0 ELSE u[p - 1] + Qgen!NationWeights[p]
      BY <1>7
    <2>2. QED
      BY <2>1, <1>3, <1>4
  <1>10. \A p \in 0..25 : u[p] = v[p]
    BY <1>9, SamePlaces
  <1>11. QED
    BY <1>2, <1>3, <1>8, <1>10

-----------------------------------------------------------------------------
(* The parameters of a query *)

\* What query 3 has for its day, and query 8 for its region.
InMarch(d) == d[1] = 95 /\ d[2] = 3 /\ d[3] \in 1..31
OfRegion(r) == r[1] \in 0..4

(* What a draw leaves in the parameters.                                    *)
Writes(e, c, v, z) ==
  /\ z \in [1..10 -> Seq(Int)]
  /\ \A p \in Written(c) : z[p] # <<>>
  /\ \A p \in (1..10) \ Written(c) : z[p] = e[p]
  /\ c.as = "other" => z[c.to] = <<v>>
  /\ c.as = "march" => InMarch(z[c.to])
  /\ c.as = "nation" => OfRegion(z[2])

LEMMA DrawnWrites ==
  ASSUME NEW e, e \in [1..10 -> Seq(Int)], NEW c, Fine(c), c.as # "permute",
         NEW v, v \in c.low..c.high
  PROVE  Writes(e, c, v, Qgen!Drawn(e, c, v))
  <1>1. /\ c.to \in 1..10 /\ c.low \in Nat /\ c.high \in Nat /\ c.as \in Kinds
        /\ c.as = "march" => c.low = 0 /\ c.high = 30
        /\ c.as = "nation" => c.low = 1 /\ c.high = 25
    BY DEF Fine, Instruction
  <1>2. PICK z : z = Qgen!Drawn(e, c, v)
    OBVIOUS
  <1> SUFFICES Writes(e, c, v, z)
    BY <1>2
  <1>3. v \in Int
    BY <1>1
  <1> DEFINE One(x) == x \in Seq(Int) /\ x # <<>> /\ z = Qgen!Put(e, c.to, x)
  <1>4. ASSUME NEW x, One(x), c.as \notin {"nation", "fraction", "permute"}
        PROVE  /\ z \in [1..10 -> Seq(Int)]
               /\ \A p \in Written(c) : z[p] # <<>>
               /\ \A p \in (1..10) \ Written(c) : z[p] = e[p]
               /\ z[c.to] = x
    BY <1>1, <1>4 DEF Written, Qgen!Put
  <1>5. CASE c.as \in {"number", "other"}
    <2>1. z = Qgen!Put(e, c.to, <<v>>)
      <3>1. CASE c.as = "number"
        BY <1>2, <3>1 DEF Qgen!Drawn
      <3>2. CASE c.as = "other"
        BY <1>2, <3>2 DEF Qgen!Drawn
      <3>3. QED
        BY <3>1, <3>2, <1>5
    <2>2. <<v>> \in Seq(Int) /\ <<v>> # <<>>
      BY <1>1, <1>3
    <2>3. QED
      BY <2>1, <2>2, <1>2, <1>4, <1>5 DEF Writes
  <1>6. CASE c.as = "second"
    <2>1. z = Qgen!Put(e, c.to, Append(e[c.to], v))
      BY <1>2, <1>6 DEF Qgen!Drawn
    <2>2. Append(e[c.to], v) \in Seq(Int) /\ Append(e[c.to], v) # <<>>
      <3>1. PICK s \in Seq(Int), d \in Int : s = e[c.to] /\ d = v
        BY <1>1, <1>3
      <3>2. Append(s, d) \in Seq(Int)
        OBVIOUS
      <3>4. Len(Append(s, d)) = Len(s) + 1 /\ Len(s) \in Nat
        OBVIOUS
      <3>5. Append(s, d) # <<>>
        <4>1. PICK x : x = Append(s, d)
          OBVIOUS
        <4>2. Len(x) # 0
          BY <3>4, <4>1
        <4>3. x # <<>>
          BY ONLY <4>2
        <4>4. QED
          BY <4>1, <4>3
      <3>3. QED
        BY <3>1, <3>2, <3>5
    <2>3. QED
      BY <2>1, <2>2, <1>2, <1>4, <1>6 DEF Writes
  <1>7. CASE c.as = "month"
    <2>1. z = Qgen!Put(e, c.to, <<93 + v \div 12, (v % 12) + 1>>)
      BY <1>2, <1>7 DEF Qgen!Drawn
    <2>2. <<93 + v \div 12, (v % 12) + 1>> \in Seq(Int) /\ <<93 + v \div 12, (v % 12) + 1>> # <<>>
      BY <1>1, <1>3
    <2>3. QED
      BY <2>1, <2>2, <1>2, <1>4, <1>7 DEF Writes
  <1>8. CASE c.as = "material"
    <2>1. z = Qgen!Put(e, c.to, <<(v - 1) % 5>>)
      BY <1>2, <1>8 DEF Qgen!Drawn
    <2>2. <<(v - 1) % 5>> \in Seq(Int) /\ <<(v - 1) % 5>> # <<>>
      BY <1>1, <1>3
    <2>3. QED
      BY <2>1, <2>2, <1>2, <1>4, <1>8 DEF Writes
  <1>9. CASE c.as = "kind"
    <2>1. z = Qgen!Put(e, c.to, <<(v - 1) \div 5>>)
      BY <1>2, <1>9 DEF Qgen!Drawn
    <2>2. <<(v - 1) \div 5>> \in Seq(Int) /\ <<(v - 1) \div 5>> # <<>>
      BY <1>1, <1>3
    <2>3. QED
      BY <2>1, <2>2, <1>2, <1>4, <1>9 DEF Writes
  <1>10. CASE c.as = "twenties"
    <2>1. z = Qgen!Put(e, c.to, <<(v - 1) \div 20>>)
      BY <1>2, <1>10 DEF Qgen!Drawn
    <2>2. <<(v - 1) \div 20>> \in Seq(Int) /\ <<(v - 1) \div 20>> # <<>>
      BY <1>1, <1>3
    <2>3. QED
      BY <2>1, <2>2, <1>2, <1>4, <1>10 DEF Writes
  <1>11. CASE c.as = "forties"
    <2>1. z = Qgen!Put(e, c.to, <<(v - 1) \div 40>>)
      BY <1>2, <1>11 DEF Qgen!Drawn
    <2>2. <<(v - 1) \div 40>> \in Seq(Int) /\ <<(v - 1) \div 40>> # <<>>
      BY <1>1, <1>3
    <2>3. QED
      BY <2>1, <2>2, <1>2, <1>4, <1>11 DEF Writes
  <1>12. CASE c.as = "march"
    <2>1. v \in 0..30
      BY <1>1, <1>12
    <2>2. PICK d : d = Qgen!mk_time(v + 1155 + 1)
      OBVIOUS
    <2>3. d = [year |-> 95, month |-> 3, day |-> v + 1]
      <3>1. MarchDay(v)
        BY <2>1, MarchDays
      <3>2. QED
        BY ONLY <2>2, <3>1, ZenonT(60) DEF MarchDay
    <2>4. z = Qgen!Put(e, c.to, <<d.year, d.month, d.day>>)
      BY <1>2, <1>12, <2>2 DEF Qgen!Drawn
    <2>5. PICK x : x = <<95, 3, v + 1>>
      OBVIOUS
    <2>6. x \in Seq(Int) /\ x # <<>> /\ InMarch(x)
      BY <2>1, <2>5 DEF InMarch
    <2>7. z = Qgen!Put(e, c.to, x)
      BY <2>3, <2>4, <2>5
    <2>8. /\ z \in [1..10 -> Seq(Int)]
          /\ \A p \in Written(c) : z[p] # <<>>
          /\ \A p \in (1..10) \ Written(c) : z[p] = e[p]
          /\ z[c.to] = x
      BY <2>6, <2>7, <1>4, <1>12
    <2>9. InMarch(z[c.to])
      BY <2>6, <2>8
    <2>10. QED
      BY <2>8, <2>9, <1>12 DEF Writes
  <1>13. CASE c.as \in {"nation", "fraction"}
    <2>1. PICK x : x = IF c.as = "nation" THEN Qgen!Region[v] ELSE 1
      OBVIOUS
    <2>9. x \in Int /\ (c.as = "nation" => x \in 0..4)
      <3>1. CASE c.as = "nation"
        <4>1. v \in 1..25
          BY <3>1, <1>1
        <4>2. Qgen!Region[v] \in 0..4
          BY <4>1, RegionsAreFive
        <4>3. x = Qgen!Region[v]
          BY <3>1, <2>1
        <4>4. QED
          BY ONLY <4>2, <4>3
      <3>2. CASE c.as # "nation"
        BY <3>2, <2>1
      <3>3. QED
        BY <3>1, <3>2
    <2>10. z = [Qgen!Put(e, 1, <<v>>) EXCEPT ![2] = <<x>>]
      <3>1. CASE c.as = "nation"
        BY <3>1, <2>1, <1>2 DEF Qgen!Drawn
      <3>2. CASE c.as = "fraction"
        BY <3>2, <2>1, <1>2 DEF Qgen!Drawn
      <3>3. QED
        BY <3>1, <3>2, <1>13
    <2>2. PICK s, r : s = <<v>> /\ r = <<x>>
      OBVIOUS
    <2>3. s \in Seq(Int) /\ r \in Seq(Int) /\ s # <<>> /\ r # <<>> /\ r[1] = x
      BY <2>9, <2>2, <1>3
    <2>4. z = [[e EXCEPT ![1] = s] EXCEPT ![2] = r]
      BY <2>10, <2>2 DEF Qgen!Put
    <2>5. z \in [1..10 -> Seq(Int)] /\ z[1] = s /\ z[2] = r
            /\ \A p \in (1..10) \ {1, 2} : z[p] = e[p]
      <3>1. PICK y : y = [e EXCEPT ![1] = s]
        OBVIOUS
      <3>2. PICK T : T = Seq(Int)
        OBVIOUS
      <3>3. y \in [1..10 -> T] /\ y[1] = s /\ \A p \in (1..10) \ {1} : y[p] = e[p]
        <4>1. e \in [1..10 -> T] /\ s \in T
          BY <2>3, <3>2
        <4>2. QED
          BY ONLY <4>1, <3>1
      <3>4. z = [y EXCEPT ![2] = r]
        BY <3>1, <2>4
      <3>5. z \in [1..10 -> T] /\ z[2] = r /\ \A p \in (1..10) \ {2} : z[p] = y[p]
        <4>1. r \in T
          BY <2>3, <3>2
        <4>2. QED
          BY ONLY <4>1, <3>3, <3>4
      <3>6. QED
        BY <3>2, <3>3, <3>5
    <2>6. Written(c) = {1, 2}
      BY <1>13 DEF Written
    <2>7. c.as = "nation" => OfRegion(z[2])
      BY <2>9, <2>3, <2>5 DEF OfRegion
    <2>8. QED
      BY <2>3, <2>5, <2>6, <2>7, <1>13 DEF Writes
  <1>14. QED
    BY <1>1, <1>5, <1>6, <1>7, <1>8, <1>9, <1>10, <1>11, <1>12, <1>13 DEF Kinds

-----------------------------------------------------------------------------
(* The invariant of qgen *)

OneToOne(f) == \A p, q \in DOMAIN f : p # q => f[p] # f[q]
Different(m, r) == \A p, q \in m..r : p # q => param[p] # param[q]

\* The sizes and the codes stay permutations, whatever has been drawn.
QueryTypes ==
  /\ doing \in {"shell", "main", "varsub", "permute", "template"}
  /\ todo \in Seq(1..22) /\ qnum \in 0..22 /\ step \in Nat \ {0} /\ turn \in Nat
  /\ doing \in {"varsub", "permute", "template"} => qnum \in 1..22
  /\ Seed \in [0..22 -> Int]
  /\ param \in [1..10 -> Seq(Int)]
  /\ sizes \in [1..50 -> 1..50] /\ OneToOne(sizes)
  /\ ccode \in [1..25 -> 0..24] /\ OneToOne(ccode)

Permuting ==
  doing = "permute" =>
    /\ "DFLT" \notin command.flags /\ turn > 0
    /\ step <= Len(Qgen!recipe[qnum]) /\ Qgen!recipe[qnum][step].as = "permute"

\* What the instructions before this one have written.
Past ==
  /\ \A j \in 1..Len(Qgen!recipe[qnum]) : j < step =>
       \A p \in Written(Qgen!recipe[qnum][j]) : param[p] # <<>>
  /\ qnum \in {7, 12} /\ step > 2 => param[1] # param[2]
  /\ qnum = 3 /\ step > 2 => InMarch(param[2])
  /\ qnum = 8 /\ step > 1 => OfRegion(param[2])
  /\ qnum = 16 /\ step > 4 => Different(3, 10)
  /\ qnum = 22 /\ step > 1 => Different(1, 7)

Filled == doing \in {"varsub", "permute"} /\ "DFLT" \notin command.flags => Past

QueryInv == QueryTypes /\ Permuting /\ Filled /\ Qgen!ParametersAreValid

(* The codes and sizes that a process begins with.                          *)
LEMMA FirstCodes ==
  /\ [p \in 1..25 |-> p - 1] \in [1..25 -> 0..24] /\ OneToOne([p \in 1..25 |-> p - 1])
  /\ [p \in 1..50 |-> p] \in [1..50 -> 1..50] /\ OneToOne([p \in 1..50 |-> p])
  <1>1. [p \in 1..25 |-> p - 1] \in [1..25 -> 0..24]
    OBVIOUS
  <1>2. OneToOne([p \in 1..25 |-> p - 1])
    <2>1. PICK f : f = [p \in 1..25 |-> p - 1]
      OBVIOUS
    <2>2. DOMAIN f = 1..25 /\ \A p \in 1..25 : f[p] = p - 1
      BY <2>1
    <2>3. OneToOne(f)
      BY <2>2 DEF OneToOne
    <2>4. QED
      BY <2>1, <2>3
  <1>3. [p \in 1..50 |-> p] \in [1..50 -> 1..50] /\ OneToOne([p \in 1..50 |-> p])
    BY DEF OneToOne
  <1>4. QED
    BY <1>1, <1>2, <1>3

LEMMA QueryInit == Qgen!Init => QueryInv
  <1> SUFFICES ASSUME Qgen!Init PROVE QueryInv
    OBVIOUS
  <1>1. /\ doing = "shell" /\ todo = <<>> /\ Seed = [p \in 0..22 |-> 0]
        /\ qnum = 0 /\ step = 1 /\ turn = 0
        /\ param = [p \in 1..10 |-> <<>>] /\ sizes = [p \in 1..50 |-> p]
        /\ ccode = [p \in 1..25 |-> p - 1]
    BY DEF Qgen!Init, Qgen!QUERIES_PER_SET, Qgen!NoParam, Qgen!MAX_PARAM, Qgen!AllSizes, Qgen!AllCodes
  <1>2. QueryTypes
    <2>1. sizes \in [1..50 -> 1..50] /\ OneToOne(sizes)
      BY <1>1, FirstCodes
    <2>2. ccode \in [1..25 -> 0..24] /\ OneToOne(ccode)
      BY <1>1, FirstCodes
    <2>3. QED
      BY <1>1, <2>1, <2>2 DEF QueryTypes
  <1>3. QED
    BY <1>1, <1>2 DEF QueryInv, Permuting, Filled, Qgen!ParametersAreValid

(* The seeds that a command line sets are numbers.                          *)
LEMMA SeedsAreNumbers ==
  ASSUME NEW c \in Qgen!Command
  PROVE  Qgen!Seeded(c.rndm, c.flags) \in [0..22 -> Int]
  <1>1. PICK r : r = IF c.rndm < 0 THEN c.rndm + QueryModulus ELSE c.rndm
    OBVIOUS
  <1>2. r \in Int
    BY <1>1, QueryGenerator DEF Qgen!Command
  <1>3. PICK g : g = [x \in Int |-> Qgen!NextRand(x)]
    OBVIOUS
  <1>4. \A x \in Int : Qgen!NextRand(x) \in Int
    BY QueryDraws
  <1>5. g \in [Int -> Int] /\ \A x \in Int : g[x] = Qgen!NextRand(x)
    BY <1>3, <1>4
  <1>6. PICK u : Moves(g, r, 22, u)
    <2>1. \A m \in Nat : \E u : Moves(g, r, m, u)
      BY ONLY <1>2, <1>5, MovesExist
    <2>2. QED
      BY <2>1
  <1>7. u \in [0..22 -> Int] /\ u[0] = r /\ \A p \in 1..22 : u[p] = Qgen!NextRand(u[p - 1])
    BY <1>5, <1>6 DEF Moves, Along
  <1>8. u = [p \in 0..22 |-> IF p = 0 THEN r ELSE Qgen!NextRand(u[p - 1])]
    <2>1. u = [p \in 0..22 |-> u[p]]
      BY <1>7
    <2>2. \A p \in 0..22 : u[p] = IF p = 0 THEN r ELSE Qgen!NextRand(u[p - 1])
      BY <1>7
    <2>3. QED
      BY <2>1, <2>2
  <1>9. PICK v :
          v = CHOOSE w : w = [p \in 0..22 |-> IF p = 0 THEN r ELSE Qgen!NextRand(w[p - 1])]
    OBVIOUS
  <1>10. v = [p \in 0..22 |-> IF p = 0 THEN r ELSE Qgen!NextRand(v[p - 1])]
    BY <1>8, <1>9
  <1>11. \A p \in 0..22 : u[p] = v[p]
    <2>1. \A p \in 0..22 : v[p] = IF p = 0 THEN r ELSE Qgen!NextRand(v[p - 1])
      BY <1>10
    <2>2. u[0] = v[0] /\ \A p \in 1..22 : u[p - 1] = v[p - 1] => u[p] = v[p]
      BY <2>1, <1>7
    <2>3. QED
      BY <2>2, SamePlaces
  <1>12. Qgen!Seeded(c.rndm, c.flags) = [p \in 0..22 |-> IF "DFLT" \in c.flags THEN 0
                                           ELSE IF p = 0 THEN v[22] ELSE v[p]]
    BY <1>1, <1>9 DEF Qgen!Seeded, Qgen!QUERIES_PER_SET
  <1>13. \A p \in 0..22 : v[p] \in Int
    BY <1>7, <1>11
  <1>14. QED
    BY <1>12, <1>13

(* The queries of a command line, in its order or the stream's, are queries. *)
LEMMA QueriesAreQueries ==
  ASSUME NEW c \in Qgen!Command
  PROVE  Qgen!Queries(c) \in Seq(1..22)
  <1>1. PICK s : s = IF c.names = <<>> THEN [p \in 1..22 |-> p] ELSE c.names
    OBVIOUS
  <1>2. s \in Seq(1..22)
    <2>1. [p \in 1..22 |-> p] \in Seq(1..22)
      OBVIOUS
    <2>2. c.names \in Seq(1..22)
      BY DEF Qgen!Command, Qgen!QUERIES_PER_SET
    <2>3. QED
      BY <1>1, <2>1, <2>2
  <1>3. PICK N \in Nat : s \in [1..N -> 1..22] /\ DOMAIN s = 1..N
    BY ONLY <1>2, LenProperties
  <1>4. ASSUME NEW q \in 1..22, c.snum >= 0
        PROVE  Qgen!SEQUENCE(c.snum, q) \in 1..22
    <2>1. PICK x, M : x = c.snum /\ M = Len(permutation)
      OBVIOUS
    <2>2. x \in Nat /\ M \in Nat /\ M > 0
      BY <2>1, <1>4, QueryGenerator DEF Qgen!Command
    <2>3. (x % M) + 1 \in 1..M
      BY <2>2
    <2>4. permutation[(x % M) + 1] \in [1..22 -> 1..22]
      <3>1. PICK T, u : T = [1..22 -> 1..22] /\ u = permutation /\ u \in Seq(T) /\ M = Len(u)
        BY <2>1, QueryGenerator
      <3>2. u[(x % M) + 1] \in T
        BY ONLY <2>3, <3>1
      <3>3. QED
        BY <3>1, <3>2
    <2>5. QED
      BY <2>1, <2>4 DEF Qgen!SEQUENCE, Qgen!MAX_PERMUTE
  <1>5. Qgen!Queries(c) = [p \in 1..N |-> IF c.snum >= 0 THEN Qgen!SEQUENCE(c.snum, s[p]) ELSE s[p]]
    BY <1>1, <1>3 DEF Qgen!Queries, Qgen!QUERIES_PER_SET
  <1>6. \A p \in 1..N : (IF c.snum >= 0 THEN Qgen!SEQUENCE(c.snum, s[p]) ELSE s[p]) \in 1..22
    BY <1>3, <1>4
  <1>7. Qgen!Queries(c) \in [1..N -> 1..22]
    BY <1>5, <1>6
  <1>8. QED
    BY <1>7

LEMMA ExecKeeps ==
  ASSUME QueryInv, NEW c \in Commands, Qgen!Exec(c)
  PROVE  QueryInv'
  <1>1. /\ doing' = "main" /\ todo' = Qgen!Queries(c) /\ Seed' = Qgen!Seeded(c.rndm, c.flags)
        /\ param' = [p \in 1..10 |-> <<>>] /\ sizes' = [p \in 1..50 |-> p]
        /\ ccode' = [p \in 1..25 |-> p - 1] /\ UNCHANGED <<qnum, step, turn>>
    BY DEF Qgen!Exec, Qgen!NoParam, Qgen!MAX_PARAM, Qgen!AllSizes, Qgen!AllCodes
  <1>2. c \in Qgen!Command
    BY QueryGenerator
  <1>3. todo' \in Seq(1..22) /\ Seed' \in [0..22 -> Int]
    BY <1>1, <1>2, SeedsAreNumbers, QueriesAreQueries
  <1>4. sizes' \in [1..50 -> 1..50] /\ OneToOne(sizes')
    BY <1>1, FirstCodes
  <1>5. ccode' \in [1..25 -> 0..24] /\ OneToOne(ccode')
    BY <1>1, FirstCodes
  <1>6. QueryTypes'
    <2>1. param' \in [1..10 -> Seq(Int)]
      BY <1>1
    <2>2. qnum' \in 0..22 /\ step' \in Nat \ {0} /\ turn' \in Nat
      BY <1>1 DEF QueryInv, QueryTypes
    <2>3. QED
      BY <1>1, <1>3, <1>4, <1>5, <2>1, <2>2 DEF QueryTypes
  <1>7. QED
    BY <1>1, <1>6 DEF QueryInv, Permuting, Filled, Qgen!ParametersAreValid

LEMMA QsubKeeps == ASSUME QueryInv, Qgen!qsub PROVE QueryInv'
  <1>1. /\ todo # <<>> /\ qnum' = Head(todo) /\ todo' = Tail(todo) /\ doing' = "varsub"
        /\ step' = 1 /\ UNCHANGED <<command, Seed, turn, param, sizes, ccode>>
    BY DEF Qgen!qsub
  <1>2. qnum' \in 1..22 /\ todo' \in Seq(1..22)
    <2>1. todo \in Seq(1..22)
      BY DEF QueryInv, QueryTypes
    <2>2. QED
      BY <1>1, <2>1, SMTT(30)
  <1>3. QueryTypes'
    <2>1. /\ Seed' \in [0..22 -> Int] /\ param' \in [1..10 -> Seq(Int)] /\ turn' \in Nat
          /\ sizes' \in [1..50 -> 1..50] /\ ccode' \in [1..25 -> 0..24]
      BY <1>1 DEF QueryInv, QueryTypes
    <2>2. OneToOne(sizes') /\ OneToOne(ccode')
      BY <1>1 DEF QueryInv, QueryTypes
    <2>3. qnum' \in 0..22 /\ step' \in Nat \ {0}
      BY <1>1, <1>2
    <2>4. doing' \in {"shell", "main", "varsub", "permute", "template"}
      BY <1>1
    <2>5. QED
      BY <1>2, <2>1, <2>2, <2>3, <2>4 DEF QueryTypes
  <1>4. Past'
    <2>1. step' = 1
      BY <1>1
    <2>2. Len(Qgen!recipe[qnum']) \in Nat
      BY <1>2, RecipeLengths
    <2>3. QED
      BY <2>1, <2>2 DEF Past
  <1>5. QED
    BY <1>1, <1>3, <1>4 DEF QueryInv, Permuting, Filled, Qgen!ParametersAreValid

(* No instruction writes anything but the ten parameters.                   *)
LEMMA WrittenAreParameters ==
  ASSUME NEW q \in 1..22, NEW j \in 1..Len(Qgen!recipe[q])
  PROVE  Fine(Qgen!recipe[q][j]) /\ Written(Qgen!recipe[q][j]) \subseteq 1..10
  <1>1. PICK c : c = Qgen!recipe[q][j]
    OBVIOUS
  <1>2. Fine(c)
    BY <1>1, RecipesComplete DEF Complete
  <1>3. c.to \in 1..10 /\ (c.as = "permute" => c.to \in {1, 3})
    <2>1. Permutes(q, j)
      BY PermutesLast
    <2>2. QED
      BY <2>1, <1>1, <1>2 DEF Permutes, Fine, Instruction
  <1>4. Written(c) \subseteq 1..10
    BY <1>3 DEF Written
  <1>5. QED
    BY <1>1, <1>2, <1>4

LEMMA DrawKeeps == ASSUME QueryInv, Qgen!Draw PROVE QueryInv'
  <1>1. /\ doing = "varsub" /\ "DFLT" \notin command.flags /\ qnum \in 1..22
        /\ step \in 1..Len(Qgen!recipe[qnum])
    <2>1. doing = "varsub" /\ step <= Len(Qgen!Recipe) /\ step \in Nat \ {0} /\ qnum \in 1..22
      BY DEF QueryInv, QueryTypes, Qgen!Draw
    <2>2. CASE "DFLT" \in command.flags
      <3>1. Len(Qgen!Recipe) = 0
        BY <2>2 DEF Qgen!Recipe
      <3>2. QED
        BY <2>1, <3>1
    <2>3. CASE "DFLT" \notin command.flags
      <3>1. Qgen!Recipe = Qgen!recipe[qnum]
        BY <2>3 DEF Qgen!Recipe
      <3>2. Len(Qgen!recipe[qnum]) \in Nat
        BY <2>1, RecipeLengths
      <3>3. QED
        BY <2>1, <2>3, <3>1, <3>2
    <2>4. QED
      BY <2>2, <2>3
  <1>2. PICK c, y, v : /\ c = Qgen!recipe[qnum][step] /\ y = Qgen!NextRand(Seed[qnum])
                       /\ v = Qgen!UnifInt(c.low, c.high, y)
    OBVIOUS
  <1>3. /\ c.as # "permute" /\ Seed' = [Seed EXCEPT ![qnum] = y]
        /\ param' = Qgen!Drawn(param, c, v)
        /\ step' = IF Qgen!Repeats(param, c, v) THEN step ELSE step + 1
        /\ UNCHANGED <<doing, command, todo, qnum, turn, sizes, ccode>>
    <2>1. Qgen!Recipe = Qgen!recipe[qnum]
      BY <1>1 DEF Qgen!Recipe
    <2>2. QED
      BY <1>2, <2>1 DEF Qgen!Draw
  <1>4. Fine(c) /\ Written(c) \subseteq 1..10
    BY <1>1, <1>2, WrittenAreParameters
  <1>5. y \in Int /\ v \in c.low..c.high
    <2>1. PICK a \in Nat, b \in Nat, s \in Int : a = c.low /\ b = c.high /\ s = Seed[qnum] /\ a <= b
      BY <1>1, <1>4 DEF Fine, Instruction, QueryInv, QueryTypes
    <2>2. Qgen!NextRand(s) \in 0..(QueryModulus - 1) /\ Qgen!UnifInt(a, b, Qgen!NextRand(s)) \in a..b
      BY ONLY QueryDraws, a \in Nat, b \in Nat, s \in Int, <2>1
    <2>3. QED
      BY <2>1, <2>2, <1>2, QueryGenerator
  <1>6. /\ param' \in [1..10 -> Seq(Int)]
        /\ \A p \in Written(c) : param'[p] # <<>>
        /\ \A p \in (1..10) \ Written(c) : param'[p] = param[p]
        /\ c.as = "other" => param'[c.to] = <<v>>
        /\ c.as = "march" => InMarch(param'[c.to])
        /\ c.as = "nation" => OfRegion(param'[2])
    <2>1. param \in [1..10 -> Seq(Int)]
      BY DEF QueryInv, QueryTypes
    <2>2. PICK e : e = param
      OBVIOUS
    <2>3. e \in [1..10 -> Seq(Int)] /\ param' = Qgen!Drawn(e, c, v)
      BY <2>1, <2>2, <1>3
    <2>4. Fine(c) /\ c.as # "permute" /\ v \in c.low..c.high
      BY <1>3, <1>4, <1>5
    <2>5. Writes(e, c, v, Qgen!Drawn(e, c, v))
      BY ONLY <2>3, <2>4, DrawnWrites
    <2>6. QED
      BY ONLY <2>2, <2>3, <2>5 DEF Writes
  <1>7. step \in Nat \ {0} /\ step' \in {step, step + 1}
    BY <1>3 DEF QueryInv, QueryTypes
  <1>8. QueryTypes'
    <2>1. /\ todo' \in Seq(1..22) /\ turn' \in Nat /\ doing' = "varsub" /\ qnum' \in 1..22
          /\ sizes' \in [1..50 -> 1..50] /\ ccode' \in [1..25 -> 0..24]
          /\ OneToOne(sizes') /\ OneToOne(ccode')
      BY <1>1, <1>3 DEF QueryInv, QueryTypes
    <2>2. Seed' \in [0..22 -> Int]
      BY <1>3, <1>5 DEF QueryInv, QueryTypes
    <2>3. qnum' \in 0..22 /\ step' \in Nat \ {0}
      <3>1. PICK s, e \in Nat : s = step /\ s \in Nat \ {0} /\ e = s + 1
        BY <1>7
      <3>2. s \in Nat \ {0} /\ e \in Nat \ {0} /\ (step' = s \/ step' = e)
        BY <1>7, <3>1
      <3>3. step' \in Nat \ {0}
        BY ONLY <3>2
      <3>4. QED
        BY <2>1, <3>3
    <2>4. doing' \in {"shell", "main", "varsub", "permute", "template"}
      BY <2>1
    <2>5. QED
      BY <2>1, <2>2, <2>3, <2>4, <1>6 DEF QueryTypes
  <1>9. Past
    BY <1>1 DEF QueryInv, Filled
  <1>10. Past'
    <2>1. ASSUME NEW j \in 1..Len(Qgen!recipe[qnum]), j < step', NEW p \in Written(Qgen!recipe[qnum][j])
          PROVE  param'[p] # <<>>
      <3>1. CASE j < step
        <4>1. param[p] # <<>> /\ p \in 1..10
          BY <3>1, <2>1, <1>1, <1>9, WrittenAreParameters DEF Past
        <4>2. QED
          BY <4>1, <1>6
      <3>2. CASE j = step
        BY <3>2, <2>1, <1>2, <1>6
      <3>3. QED
        BY <3>1, <3>2, <2>1, <1>7
    <2>2. ASSUME qnum \in {7, 12}, step' > 2
          PROVE  param'[1] # param'[2]
      <3>1. CASE step > 2
        <4>1. step \in 3..Len(Qgen!recipe[qnum])
          BY <3>1, <1>1
        <4>2. Written(c) \cap {1, 2} = {}
          BY <4>1, <1>2, <2>2, RecipesOfNote
        <4>5. 1 \in (1..10) \ Written(c) /\ 2 \in (1..10) \ Written(c)
          BY <4>2
        <4>3. param'[1] = param[1] /\ param'[2] = param[2]
          BY <4>5, <1>6
        <4>4. QED
          BY <4>3, <3>1, <2>2, <1>9 DEF Past
      <3>2. CASE step <= 2
        <4>1. step = 2 /\ step' = step + 1
          BY <3>2, <2>2, <1>7
        <4>2. c.as = "other" /\ c.to = 2
          BY <4>1, <1>2, <2>2, RecipesOfNote
        <4>3. param[1] # <<v>>
          <5>1. ~Qgen!Repeats(param, c, v)
            BY <4>1, <1>3
          <5>2. c.to - 1 = 1
            BY <4>2
          <5>3. QED
            BY <5>1, <5>2, <4>2 DEF Qgen!Repeats
        <4>4. Written(c) = {2}
          BY <4>2 DEF Written
        <4>7. 1 \in (1..10) \ Written(c)
          BY <4>4
        <4>5. param'[1] = param[1] /\ param'[2] = <<v>>
          BY <4>2, <4>7, <1>6
        <4>6. QED
          BY <4>3, <4>5
      <3>3. QED
        BY <3>1, <3>2, <1>7
    <2>3. ASSUME qnum = 3, step' > 2
          PROVE  InMarch(param'[2])
      <3>1. step = 2
        BY <2>3, <1>1, <1>7, RecipesOfNote
      <3>2. QED
        BY <3>1, <2>3, <1>2, <1>6, RecipesOfNote
    <2>4. ASSUME qnum = 8, step' > 1
          PROVE  OfRegion(param'[2])
      <3>1. CASE step = 1
        BY <3>1, <2>4, <1>2, <1>6, RecipesOfNote
      <3>2. CASE step # 1
        <4>1. step = 2
          BY <3>2, <2>4, <1>1, <1>7, RecipesOfNote
        <4>2. 2 \notin Written(c)
          BY <4>1, <2>4, <1>2, RecipesOfNote
        <4>5. 2 \in (1..10) \ Written(c)
          BY ONLY <4>2
        <4>3. param'[2] = param[2]
          BY ONLY <4>5, <1>6
        <4>4. QED
          BY <4>1, <4>3, <2>4, <1>9 DEF Past
      <3>3. QED
        BY <3>1, <3>2
    <2>5. ~(qnum = 16 /\ step' > 4)
      <3> SUFFICES ASSUME qnum = 16, step' > 4 PROVE FALSE
        OBVIOUS
      <3>1. step = 4
        BY <1>1, <1>7, RecipesOfNote
      <3>2. QED
        BY <3>1, <1>2, <1>3, RecipesOfNote
    <2>6. ~(qnum = 22 /\ step' > 1)
      BY <1>1, <1>2, <1>3, <1>7, RecipesOfNote
    <2>7. qnum' = qnum
      BY <1>3
    <2>8. QED
      BY <2>1, <2>2, <2>3, <2>4, <2>5, <2>6, <2>7 DEF Past
  <1>11. QED
    BY <1>1, <1>3, <1>8, <1>10 DEF QueryInv, Permuting, Filled, Qgen!ParametersAreValid

LEMMA StartPermuteKeeps == ASSUME QueryInv, Qgen!StartPermute PROVE QueryInv'
  <1>1. /\ doing = "varsub" /\ step <= Len(Qgen!Recipe) /\ Qgen!Recipe[step].as = "permute"
        /\ doing' = "permute" /\ turn' = 1
        /\ UNCHANGED <<command, todo, Seed, qnum, step, param, sizes, ccode>>
    BY DEF Qgen!StartPermute
  <1>2. qnum \in 1..22 /\ step \in Nat \ {0}
    BY <1>1 DEF QueryInv, QueryTypes
  <1>3. "DFLT" \notin command.flags /\ Qgen!Recipe = Qgen!recipe[qnum]
    <2>1. CASE "DFLT" \in command.flags
      <3>1. Len(Qgen!Recipe) = 0
        BY <2>1 DEF Qgen!Recipe
      <3>2. QED
        BY <1>1, <1>2, <3>1
    <2>2. QED
      BY <2>1 DEF Qgen!Recipe
  <1>4. QueryTypes'
    <2>1. /\ todo' \in Seq(1..22) /\ qnum' \in 1..22 /\ qnum' \in 0..22 /\ step' \in Nat \ {0}
          /\ Seed' \in [0..22 -> Int] /\ param' \in [1..10 -> Seq(Int)]
          /\ sizes' \in [1..50 -> 1..50] /\ ccode' \in [1..25 -> 0..24]
          /\ OneToOne(sizes') /\ OneToOne(ccode')
      BY <1>1, <1>2 DEF QueryInv, QueryTypes
    <2>2. doing' \in {"shell", "main", "varsub", "permute", "template"} /\ turn' \in Nat
      BY <1>1
    <2>3. QED
      BY <2>1, <2>2 DEF QueryTypes
  <1>5. Past
    BY <1>1, <1>3 DEF QueryInv, Filled
  <1>6. Past'
    BY <1>1, <1>5 DEF Past, Different
  <1>7. Permuting'
    BY <1>1, <1>3 DEF Permuting
  <1>8. QED
    BY <1>1, <1>4, <1>6, <1>7 DEF QueryInv, Filled, Qgen!ParametersAreValid

(* An exchange of two places keeps the numbers different.                   *)
Swap(f, g, a, b) == g = [f EXCEPT ![a] = f[b], ![b] = f[a]]

LEMMA SwapKeeps ==
  ASSUME NEW f, NEW N, NEW T, NEW a, NEW b, NEW g, N \in Nat, f \in [1..N -> T], OneToOne(f),
         a \in 1..N, b \in 1..N, Swap(f, g, a, b)
  PROVE  g \in [1..N -> T] /\ OneToOne(g)
  <1>1. /\ g \in [1..N -> T] /\ g[b] = f[a] /\ (a # b => g[a] = f[b])
        /\ \A p \in (1..N) \ {a, b} : g[p] = f[p]
    BY DEF Swap
  <1>2. g[a] = f[b]
    BY <1>1
  <1>3. ASSUME NEW p \in 1..N, NEW q \in 1..N, p # q
        PROVE  g[p] # g[q]
    <2>1. \A x, y \in 1..N : x # y => f[x] # f[y]
      BY DEF OneToOne
    <2>2. QED
      BY <1>1, <1>2, <1>3, <2>1
  <1>4. QED
    BY <1>1, <1>3 DEF OneToOne

LEMMA PermuteKeeps == ASSUME QueryInv, Qgen!permute PROVE QueryInv'
  <1>1. PICK N, T : N = (IF qnum = 16 THEN 50 ELSE 25) /\ T = IF qnum = 16 THEN 1..50 ELSE 0..24
    OBVIOUS
  <1>2. PICK f : f = Qgen!permuted
    OBVIOUS
  <1>3. N \in Nat /\ f \in [1..N -> T] /\ OneToOne(f) /\ Len(f) = N
    <2>1. CASE qnum = 16
      <3>1. f = sizes /\ N = 50 /\ T = 1..50
        BY <2>1, <1>1, <1>2 DEF Qgen!permuted
      <3>2. f \in [1..50 -> 1..50] /\ OneToOne(f)
        BY <3>1 DEF QueryInv, QueryTypes
      <3>3. Len(f) = 50
        BY <3>2
      <3>4. QED
        BY <3>1, <3>2, <3>3
    <2>2. CASE qnum # 16
      <3>1. f = ccode /\ N = 25 /\ T = 0..24
        BY <2>2, <1>1, <1>2 DEF Qgen!permuted
      <3>2. f \in [1..25 -> 0..24] /\ OneToOne(f)
        BY <3>1 DEF QueryInv, QueryTypes
      <3>3. Len(f) = 25
        BY <3>2
      <3>4. QED
        BY <3>1, <3>2, <3>3
    <2>3. QED
      BY <2>1, <2>2
  <1>4. /\ doing = "permute" /\ turn <= N /\ qnum \in 1..22
        /\ UNCHANGED <<doing, command, todo, qnum, step, param>>
        /\ turn' = turn + 1
    BY <1>2, <1>3 DEF Qgen!permute, QueryInv, QueryTypes
  <1>5. turn \in 1..N
    <2>1. turn \in Nat /\ turn > 0
      BY <1>4 DEF QueryInv, QueryTypes, Permuting
    <2>2. QED
      BY <2>1, <1>3, <1>4
  <1>6. PICK y, source, g : /\ y = Qgen!NextRand(Seed[qnum]) /\ source = Qgen!UnifInt(turn, N, y)
                            /\ g = [f EXCEPT ![source] = f[turn], ![turn] = f[source]]
    OBVIOUS
  <1>7. /\ Seed' = [Seed EXCEPT ![qnum] = y]
        /\ qnum = 16 => sizes' = g /\ ccode' = ccode
        /\ qnum # 16 => ccode' = g /\ sizes' = sizes
    BY <1>2, <1>3, <1>6 DEF Qgen!permute
  <1>8. y \in Int /\ source \in 1..N
    <2>1. PICK a \in Nat, b \in Nat, s \in Int : a = turn /\ b = N /\ s = Seed[qnum] /\ a <= b
      BY <1>3, <1>4, <1>5 DEF QueryInv, QueryTypes
    <2>2. Qgen!NextRand(s) \in 0..(QueryModulus - 1) /\ Qgen!UnifInt(a, b, Qgen!NextRand(s)) \in a..b
      BY ONLY QueryDraws, a \in Nat, b \in Nat, s \in Int, <2>1
    <2>3. QED
      BY <2>1, <2>2, <1>3, <1>5, <1>6, QueryGenerator
  <1>9. g \in [1..N -> T] /\ OneToOne(g)
    <2>1. Swap(f, g, source, turn)
      BY <1>6 DEF Swap
    <2>2. QED
      BY ONLY <1>3, <1>5, <1>8, <2>1, SwapKeeps
  <1>10. /\ sizes' \in [1..50 -> 1..50] /\ OneToOne(sizes')
         /\ ccode' \in [1..25 -> 0..24] /\ OneToOne(ccode')
    <2>1. /\ sizes \in [1..50 -> 1..50] /\ OneToOne(sizes)
          /\ ccode \in [1..25 -> 0..24] /\ OneToOne(ccode)
      BY DEF QueryInv, QueryTypes
    <2>2. CASE qnum = 16
      BY <2>1, <2>2, <1>1, <1>7, <1>9
    <2>3. CASE qnum # 16
      BY <2>1, <2>3, <1>1, <1>7, <1>9
    <2>4. QED
      BY <2>2, <2>3
  <1>11. QueryTypes'
    <2>1. /\ todo' \in Seq(1..22) /\ qnum' \in 1..22 /\ qnum' \in 0..22 /\ step' \in Nat \ {0}
          /\ param' \in [1..10 -> Seq(Int)]
      BY <1>4 DEF QueryInv, QueryTypes
    <2>2. Seed' \in [0..22 -> Int]
      BY <1>7, <1>8 DEF QueryInv, QueryTypes
    <2>3. doing' \in {"shell", "main", "varsub", "permute", "template"}
      BY <1>4
    <2>4. turn' \in Nat
      BY <1>3, <1>4, <1>5
    <2>5. QED
      BY <2>1, <2>2, <2>3, <2>4, <1>10 DEF QueryTypes
  <1>12. Permuting'
    BY <1>3, <1>4, <1>5 DEF QueryInv, Permuting
  <1>13. Filled'
    BY <1>4 DEF QueryInv, Filled, Past, Different
  <1>14. QED
    BY <1>4, <1>11, <1>12, <1>13 DEF QueryInv, Qgen!ParametersAreValid

(* The first eight of what has been permuted are the parameters.             *)
LEMMA EndPermuteKeeps == ASSUME QueryInv, Qgen!EndPermute PROVE QueryInv'
  <1>1. PICK c, q : c = Qgen!recipe[qnum][step] /\ q = qnum
    OBVIOUS
  <1>2. /\ doing = "permute" /\ "DFLT" \notin command.flags /\ q \in 1..22
        /\ step \in 1..Len(Qgen!recipe[q]) /\ c.as = "permute" /\ step \in Nat \ {0}
    <2>1. /\ doing = "permute" /\ "DFLT" \notin command.flags /\ q \in 1..22
          /\ step <= Len(Qgen!recipe[q]) /\ c.as = "permute" /\ step \in Nat \ {0}
      BY <1>1 DEF Qgen!EndPermute, QueryInv, Permuting, QueryTypes
    <2>2. Len(Qgen!recipe[q]) \in Nat
      BY <2>1, RecipeLengths
    <2>3. QED
      BY <2>1, <2>2
  <1>3. \/ q = 16 /\ step = 4 /\ c.to = 3
        \/ q = 22 /\ step = 1 /\ c.to = 1
    <2>1. Permutes(q, step)
      BY <1>2, PermutesLast
    <2>2. Qgen!recipe[q][step] = c
      BY <1>1
    <2>3. QED
      BY <2>1, <2>2, <1>2 DEF Permutes
  <1>4. PICK f, a, b : f = Qgen!permuted /\ a = c.to /\ b = IF q = 22 THEN 10 ELSE 0
    OBVIOUS
  <1>5. a \in {1, 3} /\ b \in Nat
    BY <1>3, <1>4
  <1>6. (\A p \in 1..8 : f[p] \in Int) /\ \A p, r \in 1..8 : p # r => f[p] # f[r]
    <2>1. CASE q = 16
      <3>1. f = sizes
        BY <2>1, <1>1, <1>4 DEF Qgen!permuted
      <3>2. f \in [1..50 -> 1..50] /\ \A p, r \in 1..50 : p # r => f[p] # f[r]
        BY <3>1 DEF QueryInv, QueryTypes, OneToOne
      <3>3. \A p \in 1..8 : p \in 1..25 /\ p \in 1..50
        OBVIOUS
      <3>6. \A p \in 1..50 : f[p] \in 1..50
        BY <3>2
      <3>4. \A p \in 1..8 : f[p] \in Int
        BY ONLY <3>6, <3>3
      <3>5. QED
        BY ONLY <3>2, <3>3, <3>4
    <2>2. CASE q = 22
      <3>1. f = ccode
        BY <2>2, <1>1, <1>4 DEF Qgen!permuted
      <3>2. f \in [1..25 -> 0..24] /\ \A p, r \in 1..25 : p # r => f[p] # f[r]
        BY <3>1 DEF QueryInv, QueryTypes, OneToOne
      <3>3. \A p \in 1..8 : p \in 1..25 /\ p \in 1..50
        OBVIOUS
      <3>6. \A p \in 1..25 : f[p] \in 0..24
        BY <3>2
      <3>4. \A p \in 1..8 : f[p] \in Int
        BY ONLY <3>6, <3>3
      <3>5. QED
        BY ONLY <3>2, <3>3, <3>4
    <2>3. QED
      BY <2>1, <2>2, <1>3
  <1>7. /\ param' = [p \in DOMAIN param |-> IF p - a \in 0..7 THEN <<f[p - a + 1] + b>> ELSE param[p]]
        /\ doing' = "varsub" /\ step' = step + 1
        /\ UNCHANGED <<command, todo, Seed, qnum, turn, sizes, ccode>>
    <2>1. Qgen!Recipe = Qgen!recipe[q]
      BY <1>1, <1>2 DEF Qgen!Recipe
    <2>2. QED
      BY <2>1, <1>1, <1>4 DEF Qgen!EndPermute
  <1>8. PICK h : h = [p \in 1..8 |-> <<f[p] + b>>]
    OBVIOUS
  <1>9. /\ \A p \in 1..8 : h[p] \in Seq(Int) /\ h[p] # <<>>
        /\ \A p, r \in 1..8 : p # r => h[p] # h[r]
    <2>1. ASSUME NEW p \in 1..8
          PROVE  h[p] = <<f[p] + b>> /\ h[p] \in Seq(Int) /\ h[p] # <<>> /\ h[p][1] = f[p] + b
      <3>1. h[p] = <<f[p] + b>>
        BY <1>8
      <3>2. PICK d \in Int : d = f[p] + b
        BY <1>5, <1>6
      <3>3. <<d>> \in Seq(Int) /\ <<d>> # <<>> /\ <<d>>[1] = d
        OBVIOUS
      <3>4. QED
        BY <3>1, <3>2, <3>3
    <2>2. ASSUME NEW p \in 1..8, NEW r \in 1..8, p # r
          PROVE  h[p] # h[r]
      <3>1. f[p] + b # f[r] + b
        BY <2>2, <1>5, <1>6
      <3>2. QED
        BY <2>1, <3>1
    <2>3. QED
      BY <2>1, <2>2
  <1>10. /\ DOMAIN param' = 1..10
         /\ \A p \in 1..10 : p \in a..(a + 7) => param'[p] = h[p - a + 1]
         /\ \A p \in 1..10 : p \notin a..(a + 7) => param'[p] = param[p]
         /\ \A p \in 1..10 : param[p] \in Seq(Int)
         /\ param' = [p \in 1..10 |-> param'[p]]
    <2>1. param \in [1..10 -> Seq(Int)]
      BY DEF QueryInv, QueryTypes
    <2>2. PICK y : y = param'
      OBVIOUS
    <2>3. y = [p \in 1..10 |-> IF p - a \in 0..7 THEN <<f[p - a + 1] + b>> ELSE param[p]]
      BY <2>1, <2>2, <1>7
    <2>4. ASSUME NEW p \in 1..10, p \in a..(a + 7)
          PROVE  y[p] = h[p - a + 1]
      <3>1. p - a \in 0..7 /\ p - a + 1 \in 1..8
        BY <2>4, <1>5
      <3>2. h[p - a + 1] = <<f[p - a + 1] + b>>
        BY <3>1, <1>8
      <3>3. QED
        BY <2>3, <3>1, <3>2
    <2>5. ASSUME NEW p \in 1..10, p \notin a..(a + 7)
          PROVE  y[p] = param[p]
      <3>1. p - a \notin 0..7
        BY <2>5, <1>5
      <3>2. QED
        BY <2>3, <3>1
    <2>6. DOMAIN y = 1..10 /\ y = [p \in 1..10 |-> y[p]]
      BY <2>3
    <2>7. QED
      BY <2>1, <2>2, <2>4, <2>5, <2>6
  <1>11. \A p \in a..(a + 7) : p - a + 1 \in 1..8 /\ p \in 1..10
    BY <1>5
  <1>12. param' \in [1..10 -> Seq(Int)]
    <2>1. \A p \in 1..10 : param'[p] \in Seq(Int)
      BY <1>9, <1>10, <1>11
    <2>2. QED
      BY <1>10, <2>1
  <1>13. Written(c) = a..(a + 7)
    BY <1>2, <1>4 DEF Written
  <1>14. Past
    BY <1>2 DEF QueryInv, Filled
  <1>15. Past'
    <2>1. ASSUME NEW j \in 1..Len(Qgen!recipe[q]), j < step + 1, NEW p \in Written(Qgen!recipe[q][j])
          PROVE  param'[p] # <<>>
      <3>1. p \in 1..10
        BY <2>1, <1>2, WrittenAreParameters
      <3>2. CASE p \in a..(a + 7)
        BY <3>1, <3>2, <1>9, <1>10, <1>11
      <3>3. CASE p \notin a..(a + 7)
        <4>1. j < step
          <5>1. Qgen!recipe[q][step] = c
            BY <1>1
          <5>2. j # step
            BY <5>1, <3>3, <2>1, <1>13
          <5>3. QED
            BY <5>2, <2>1, <1>2
        <4>2. param[p] # <<>>
          BY <4>1, <2>1, <1>1, <1>14 DEF Past
        <4>3. QED
          BY <3>1, <3>3, <4>2, <1>10
      <3>4. QED
        BY <3>2, <3>3
    <2>2. ASSUME NEW p \in a..(a + 7), NEW r \in a..(a + 7), p # r
          PROVE  param'[p] # param'[r]
      <3>1. PICK x \in 1..8, y \in 1..8 : x = p - a + 1 /\ y = r - a + 1
        BY <1>11
      <3>2. x # y
        BY <3>1, <2>2, <1>5
      <3>3. param'[p] = h[x] /\ param'[r] = h[y]
        BY <3>1, <1>10, <1>11
      <3>4. QED
        BY <3>2, <3>3, <1>9
    <2>3. q = 16 => Different(3, 10)'
      BY <2>2, <1>3, <1>4 DEF Different
    <2>4. q = 22 => Different(1, 7)'
      <3>1. ASSUME q = 22, NEW p \in 1..7, NEW r \in 1..7, p # r
            PROVE  param'[p] # param'[r]
        <4>1. p \in a..(a + 7) /\ r \in a..(a + 7)
          BY <3>1, <1>3, <1>4
        <4>2. QED
          BY <3>1, <4>1, <2>2
      <3>2. QED
        BY <3>1 DEF Different
    <2>5. q \notin {3, 7, 8, 12} /\ qnum' = q /\ step' = step + 1
      BY <1>1, <1>3, <1>7
    <2>6. QED
      BY <2>1, <2>3, <2>4, <2>5 DEF Past
  <1>16. QueryTypes'
    <2>1. /\ todo' \in Seq(1..22) /\ qnum' \in 1..22 /\ qnum' \in 0..22 /\ turn' \in Nat
          /\ sizes' \in [1..50 -> 1..50] /\ ccode' \in [1..25 -> 0..24]
          /\ OneToOne(sizes') /\ OneToOne(ccode') /\ Seed' \in [0..22 -> Int]
      BY <1>1, <1>2, <1>7 DEF QueryInv, QueryTypes
    <2>2. doing' \in {"shell", "main", "varsub", "permute", "template"} /\ step' \in Nat \ {0}
      BY <1>3, <1>7
    <2>3. QED
      BY <2>1, <2>2, <1>12 DEF QueryTypes
  <1>17. QED
    BY <1>7, <1>15, <1>16 DEF QueryInv, Permuting, Filled, Qgen!ParametersAreValid

LEMMA ParamsOfQueries ==
  /\ \A q \in 1..22 : Qgen!Params[q] \in 1..10
  /\ Qgen!Params[3] = 2 /\ Qgen!Params[7] = 2 /\ Qgen!Params[8] = 3 /\ Qgen!Params[12] = 3
  /\ Qgen!Params[16] = 10 /\ Qgen!Params[22] = 7
  <1>1. PICK s : s = Qgen!Params
    OBVIOUS
  <1>2. s = <<1, 3, 2, 1, 2, 3, 2, 3, 1, 1, 2, 3, 2, 1, 1, 10, 2, 1, 6, 3, 1, 7>>
    BY <1>1 DEF Qgen!Params
  <1>3. \A q \in 1..22 : s[q] \in 1..10
    BY <1>2
  <1>4. s[3] = 2 /\ s[7] = 2 /\ s[8] = 3 /\ s[12] = 3 /\ s[16] = 10 /\ s[22] = 7
    BY <1>2
  <1>5. QED
    BY <1>1, <1>3, <1>4

\* The numbers of parameters before which none is empty.
Fulls(s) == {d \in 0..10 : \A p \in 1..d : s[p] # <<>>}

(* The most parameters before which none is empty are those of the query.    *)
LEMMA FullsUpTo ==
  ASSUME NEW s, NEW m, m \in 1..10, \A p \in 1..m : s[p] # <<>>, m = 10 \/ s[m + 1] = <<>>,
         NEW D, D = Fulls(s)
  PROVE  m \in D /\ \A d \in D : d \in 0..10 /\ d <= m
  <1>1. m \in D
    BY DEF Fulls
  <1>2. \A d \in D : d \in 0..10 /\ d <= m
    <2> TAKE d \in D
    <2>1. d \in 0..10 /\ \A p \in 1..d : s[p] # <<>>
      BY DEF Fulls
    <2>2. CASE d > m
      <3>1. m # 10 /\ m + 1 \in 1..d
        BY ONLY <2>1, <2>2, m \in 1..10
      <3>2. QED
        BY <2>1, <3>1
    <2>3. QED
      BY <2>1, <2>2
  <1>3. QED
    BY <1>1, <1>2

\* What the log has then.
LogOf(s, D) == SubSeq(s, 1, CHOOSE d \in D : \A e \in D : e <= d)
LogOfFirst(s, D, m) == LogOf(s, D) = [p \in 1..m |-> s[p]]

(* Those are the parameters that are logged.                                *)
LEMMA LoggedThose ==
  ASSUME NEW s, s \in [1..10 -> Seq(Int)], NEW m, m \in 1..10, \A p \in 1..m : s[p] # <<>>,
         m = 10 \/ s[m + 1] = <<>>,
         NEW D, D = Fulls(s)
  PROVE  LogOfFirst(s, D, m)
  <1>1. PICK x : x = CHOOSE d \in D : \A e \in D : e <= d
    OBVIOUS
  <1>2. m \in D /\ \A d \in D : d \in 0..10 /\ d <= m
    BY FullsUpTo
  <1>3. x = m
    <2>1. x \in D /\ \A e \in D : e <= x
      BY ONLY <1>1, <1>2
    <2>2. QED
      BY <1>2, <2>1
  <1>4. PICK T, u : T = Seq(Int) /\ u = SubSeq(s, 1, m)
    OBVIOUS
  <1>5. u \in Seq(T) /\ Len(u) = m /\ \A p \in 1..m : u[p] = s[p]
    <2>1. \A p \in 1..m : s[p] \in T
      <3>1. s \in [1..10 -> T]
        BY ONLY <1>4, s \in [1..10 -> Seq(Int)]
      <3>2. \A p \in 1..m : p \in 1..10
        BY ONLY m \in 1..10
      <3>3. QED
        BY ONLY <3>1, <3>2
    <2>2. 1 \in Int /\ m \in Int
      OBVIOUS
    <2>3. SubSeq(s, 1, m) \in Seq(T)
      BY ONLY <2>1, <2>2, SubSeqProperties
    <2>4. Len(SubSeq(s, 1, m)) = IF 1 <= m THEN m - 1 + 1 ELSE 0
      BY ONLY <2>1, <2>2, SubSeqProperties
    <2>5. \A p \in 1..(m - 1 + 1) : SubSeq(s, 1, m)[p] = s[1 + p - 1]
      BY ONLY <2>1, <2>2, SubSeqProperties
    <2>6. QED
      BY ONLY <2>3, <2>4, <2>5, <1>4, m \in 1..10
  <1>6. u = [p \in 1..m |-> u[p]]
    BY ONLY <1>5, LenProperties
  <1>7. u = [p \in 1..m |-> s[p]]
    BY ONLY <1>5, <1>6
  <1>8. QED
    BY ONLY <1>1, <1>3, <1>4, <1>7 DEF LogOf, LogOfFirst

(* What varsub ends a query's parameters with.                              *)
LEMMA EndedParameters ==
  ASSUME QueryTypes, qnum \in 1..22, NEW z, z = Qgen!Ended, NEW r, r = Qgen!Params[qnum]
  PROVE  /\ r \in 1..10 /\ z \in [1..10 -> Seq(Int)]
         /\ \A p \in 1..10 : p # r + 1 => z[p] = param[p]
         /\ "DFLT" \notin command.flags => (r = 10 \/ z[r + 1] = <<>>)
  <1>1. r \in 1..10 /\ param \in [1..10 -> Seq(Int)]
    BY ParamsOfQueries DEF QueryTypes
  <1>2. CASE "DFLT" \in command.flags \/ r = 10
    <2>1. z = param
      BY <1>2 DEF Qgen!Ended, Qgen!MAX_PARAM
    <2>2. QED
      BY <1>2, <2>1, <1>1
  <1>3. CASE ~("DFLT" \in command.flags \/ r = 10)
    <2>1. z = Qgen!Put(param, r + 1, <<>>)
      BY <1>3 DEF Qgen!Ended, Qgen!MAX_PARAM
    <2>8. r # 10
      BY <1>3
    <2>2. PICK x \in 1..10 : x = r + 1
      BY ONLY <2>8, <1>1
    <2>3. z = [param EXCEPT ![x] = <<>>]
      BY <2>1, <2>2 DEF Qgen!Put
    <2>4. <<>> \in Seq(Int)
      OBVIOUS
    <2>5. PICK T, e : T = Seq(Int) /\ e = <<>> /\ e \in T
      BY <2>4
    <2>6. z \in [1..10 -> T] /\ z[x] = e /\ \A p \in 1..10 : p # x => z[p] = param[p]
      BY <2>3, <2>5, <1>1
    <2>7. QED
      BY <2>2, <2>5, <2>6, <1>1
  <1>4. QED
    BY <1>2, <1>3

LEMMA EndVarsubKeeps == ASSUME QueryInv, Qgen!EndVarsub PROVE QueryInv'
  <1>1. PICK q, z, r : q = qnum /\ z = Qgen!Ended /\ r = Qgen!Params[q]
    OBVIOUS
  <1>2. /\ doing = "varsub" /\ q \in 1..22 /\ step \in Nat \ {0} /\ step > Len(Qgen!Recipe)
        /\ param \in [1..10 -> Seq(Int)] /\ r \in 1..10
    BY <1>1, ParamsOfQueries DEF Qgen!EndVarsub, QueryInv, QueryTypes
  <1>3. /\ param' = z /\ logged' = Qgen!Logged /\ doing' = "template" /\ qnum' = q
        /\ UNCHANGED <<command, todo, Seed, step, turn, sizes, ccode>>
    BY <1>1 DEF Qgen!EndVarsub
  <1>4. /\ z \in [1..10 -> Seq(Int)] /\ \A p \in 1..10 : p # r + 1 => z[p] = param[p]
        /\ "DFLT" \notin command.flags => (r = 10 \/ z[r + 1] = <<>>)
    <2>1. QueryTypes /\ qnum \in 1..22 /\ r = Qgen!Params[qnum]
      BY <1>1, <1>2 DEF QueryInv
    <2>2. QED
      BY ONLY <2>1, <1>1, EndedParameters
  <1>5. QueryTypes'
    <2>1. /\ todo' \in Seq(1..22) /\ qnum' \in 1..22 /\ qnum' \in 0..22 /\ turn' \in Nat
          /\ sizes' \in [1..50 -> 1..50] /\ ccode' \in [1..25 -> 0..24] /\ step' \in Nat \ {0}
          /\ OneToOne(sizes') /\ OneToOne(ccode') /\ Seed' \in [0..22 -> Int]
      BY <1>1, <1>2, <1>3 DEF QueryInv, QueryTypes
    <2>2. doing' \in {"shell", "main", "varsub", "permute", "template"}
      BY <1>3
    <2>3. param' \in [1..10 -> Seq(Int)]
      BY <1>3, <1>4
    <2>4. QED
      BY <2>1, <2>2, <2>3 DEF QueryTypes
  <1>6. ASSUME "DFLT" \notin command.flags
        PROVE  Qgen!ParametersAreValid'
    <2>1. Past /\ step > Len(Qgen!recipe[q]) /\ Len(Qgen!recipe[q]) \in Nat
      BY <1>1, <1>2, <1>6, RecipeLengths DEF QueryInv, Filled, Qgen!Recipe
    <2>2. \A p \in 1..r : param[p] # <<>>
      <3> TAKE p \in 1..r
      <3>1. Complete(q)
        BY <1>2, RecipesComplete
      <3>2. PICK j \in 1..Len(Qgen!recipe[q]) : p \in Written(Qgen!recipe[q][j])
        BY <3>1, <1>1 DEF Complete
      <3>3. j < step
        <4>1. PICK N \in Nat, s \in Nat : N = Len(Qgen!recipe[q]) /\ s = step /\ s > N
          BY <2>1, <1>2
        <4>2. j \in 1..N
          BY <4>1
        <4>3. QED
          BY <4>1, <4>2
      <3>4. QED
        BY <3>2, <3>3, <2>1, <1>1 DEF Past
    <2>3. \A p \in 1..r : z[p] = param[p] /\ z[p] # <<>>
      <3> TAKE p \in 1..r
      <3>1. r \in 1..10
        BY <1>2
      <3>2. p \in 1..10 /\ p # r + 1
        BY ONLY <3>1, p \in 1..r
      <3>3. QED
        BY <3>2, <2>2, <1>4
    <2>4. "LOG" \in command.flags => Len(logged') = r
      <3> SUFFICES ASSUME "LOG" \in command.flags PROVE Len(logged') = r
        OBVIOUS
      <3>1. PICK D : D = Fulls(z)
        OBVIOUS
      <3>2. logged' = LogOf(z, D)
        BY <3>1, <1>1, <1>3, <1>6 DEF Qgen!Logged, Qgen!MAX_PARAM, Fulls, LogOf
      <3>3. /\ z \in [1..10 -> Seq(Int)] /\ r \in 1..10 /\ \A p \in 1..r : z[p] # <<>>
            /\ r = 10 \/ z[r + 1] = <<>>
        BY <2>3, <1>2, <1>4, <1>6
      <3>4. LogOfFirst(z, D, r)
        BY ONLY <3>1, <3>3, LoggedThose
      <3>5. Len([p \in 1..r |-> z[p]]) = r
        BY ONLY <3>3
      <3>6. QED
        BY <3>2, <3>4, <3>5 DEF LogOfFirst
    <2>5. q \in {7, 12} => \A p, y \in 1..2 : p # y => z[p] # z[y]
      <3> SUFFICES ASSUME q \in {7, 12} PROVE z[1] # z[2]
        BY DEF Past
      <3>1. r >= 2
        BY <1>1, ParamsOfQueries
      <3>2. step > 2
        <4>1. PICK N, x \in Nat : N = Len(Qgen!recipe[q]) /\ N > 1 /\ x = step /\ x > N
          BY <2>1, <1>2, RecipesOfNote
        <4>2. x > 2
          BY ONLY <4>1, N \in Nat, x \in Nat
        <4>3. QED
          BY <4>1, <4>2
      <3>3. param[1] # param[2]
        BY <3>2, <2>1, <1>1 DEF Past
      <3>4. 1 \in 1..r /\ 2 \in 1..r
        BY <3>1, <1>2
      <3>5. QED
        BY <3>3, <3>4, <2>3
    <2>6. q = 3 => InMarch(z[2])
      <3> SUFFICES ASSUME q = 3 PROVE InMarch(z[2])
        OBVIOUS
      <3>1. r = 2 /\ step > 2
        BY <2>1, <1>1, ParamsOfQueries, RecipesOfNote
      <3>2. InMarch(param[2])
        BY <3>1, <2>1, <1>1 DEF Past
      <3>3. z[2] = param[2]
        BY <3>1, <2>3
      <3>4. QED
        BY <3>2, <3>3
    <2>7. q = 8 => OfRegion(z[2])
      <3> SUFFICES ASSUME q = 8 PROVE OfRegion(z[2])
        OBVIOUS
      <3>1. r = 3 /\ step > 1
        BY <2>1, <1>1, <1>2, ParamsOfQueries, RecipesOfNote
      <3>2. OfRegion(param[2])
        BY <3>1, <2>1, <1>1 DEF Past
      <3>3. z[2] = param[2]
        BY <3>1, <2>3
      <3>4. QED
        BY <3>2, <3>3
    <2>8. q = 16 => \A p, y \in 3..10 : p # y => z[p] # z[y]
      <3> SUFFICES ASSUME q = 16 PROVE \A p, y \in 3..10 : p # y => z[p] # z[y]
        OBVIOUS
      <3>1. Different(3, 10) /\ r = 10
        BY <2>1, <1>1, ParamsOfQueries, RecipesOfNote DEF Past
      <3>2. QED
        BY <3>1, <2>3 DEF Different
    <2>9. q = 22 => \A p, y \in 1..7 : p # y => z[p] # z[y]
      <3> SUFFICES ASSUME q = 22 PROVE \A p, y \in 1..7 : p # y => z[p] # z[y]
        OBVIOUS
      <3>1. Different(1, 7) /\ r = 7
        BY <2>1, <1>1, ParamsOfQueries, RecipesOfNote DEF Past
      <3>2. QED
        BY <3>1, <2>3 DEF Different
    <2>10. command' = command /\ Qgen!Params[qnum'] = r /\ param' = z /\ qnum' = q
      BY <1>1, <1>3
    <2>11. QED
      BY <2>3, <2>4, <2>5, <2>6, <2>7, <2>8, <2>9, <2>10
         DEF Qgen!ParametersAreValid, InMarch, OfRegion
  <1>7. Qgen!ParametersAreValid'
    BY <1>3, <1>6 DEF Qgen!ParametersAreValid
  <1>8. QED
    BY <1>3, <1>5, <1>7 DEF QueryInv, Permuting, Filled

LEMMA TemplateKeeps ==
  ASSUME QueryInv, Qgen!Line \/ Qgen!EndQsub \/ Qgen!Return \/ UNCHANGED Qgen!qgenVars
  PROVE  QueryInv'
  <1>1. UNCHANGED <<command, todo, Seed, qnum, step, turn, param, sizes, ccode, logged>>
    BY DEF Qgen!Line, Qgen!EndQsub, Qgen!Return, Qgen!qgenVars
  <1>2. doing' \in {"main", "shell"} \/ doing' = doing
    BY DEF Qgen!Line, Qgen!EndQsub, Qgen!Return, Qgen!qgenVars
  <1>3. QueryTypes'
    <2>1. /\ todo' \in Seq(1..22) /\ qnum' \in 0..22 /\ turn' \in Nat
          /\ sizes' \in [1..50 -> 1..50] /\ ccode' \in [1..25 -> 0..24] /\ step' \in Nat \ {0}
          /\ OneToOne(sizes') /\ OneToOne(ccode') /\ Seed' \in [0..22 -> Int]
          /\ param' \in [1..10 -> Seq(Int)]
      BY <1>1 DEF QueryInv, QueryTypes
    <2>2. /\ doing' \in {"shell", "main", "varsub", "permute", "template"}
          /\ doing' \in {"varsub", "permute", "template"} => qnum' \in 1..22
      <3>1. CASE doing' = doing
        BY <3>1, <1>1 DEF QueryInv, QueryTypes
      <3>2. CASE doing' = "main"
        BY <3>2
      <3>3. CASE doing' = "shell"
        BY <3>3
      <3>4. QED
        BY <3>1, <3>2, <3>3, <1>2
    <2>3. QED
      BY <2>1, <2>2 DEF QueryTypes
  <1>4. (Permuting /\ Filled /\ Qgen!ParametersAreValid)'
    <2>1. Permuting /\ Filled /\ Qgen!ParametersAreValid
      BY DEF QueryInv
    <2>2. CASE doing' = doing
      BY <2>1, <2>2, <1>1 DEF Permuting, Filled, Past, Different, Qgen!ParametersAreValid
    <2>3. CASE doing' = "main"
      BY <2>3 DEF Permuting, Filled, Qgen!ParametersAreValid
    <2>4. CASE doing' = "shell"
      BY <2>4 DEF Permuting, Filled, Qgen!ParametersAreValid
    <2>5. QED
      BY <2>2, <2>3, <2>4, <1>2
  <1>5. QED
    BY <1>3, <1>4 DEF QueryInv

LEMMA QueryInvPreserved == QueryInv /\ [Qgen!Next]_queries => QueryInv'
  <1> SUFFICES ASSUME QueryInv, [Qgen!Next]_queries PROVE QueryInv'
    OBVIOUS
  <1>1. CASE \E c \in Commands : Qgen!Exec(c)
    BY <1>1, ExecKeeps
  <1>2. CASE Qgen!qsub
    BY <1>2, QsubKeeps
  <1>3. CASE Qgen!Draw
    BY <1>3, DrawKeeps
  <1>4. CASE Qgen!StartPermute
    BY <1>4, StartPermuteKeeps
  <1>5. CASE Qgen!permute
    BY <1>5, PermuteKeeps
  <1>6. CASE Qgen!EndPermute
    BY <1>6, EndPermuteKeeps
  <1>7. CASE Qgen!EndVarsub
    BY <1>7, EndVarsubKeeps
  <1>8. CASE Qgen!Line \/ Qgen!EndQsub \/ Qgen!Return
    BY <1>8, TemplateKeeps
  <1>9. CASE UNCHANGED queries
    BY <1>9, TemplateKeeps DEF queries, Qgen!qgenVars
  <1>10. QED
    BY <1>1, <1>2, <1>3, <1>4, <1>5, <1>6, <1>7, <1>8, <1>9 DEF Qgen!Next

(* qgen is at rest in the behaviours of the other parts.                     *)
LEMMA PartsQgen == PartsSpec => Qgen!Init /\ [][Qgen!Next]_queries
  <1>1. PartsInit => Qgen!Init
    BY DEF PartsInit
  <1>2. [PartsNext]_<<what, rowsVars, rng, dists, text, queries>> => [Qgen!Next]_queries
    BY DEF PartsNext
  <1>3. QED
    BY <1>1, <1>2, PTL DEF PartsSpec

(* For all command lines, seeds and orders of the queries: when qgen prints *)
(* a query, each tag of its template has a parameter, the second nation or  *)
(* ship mode is not the first, the permuted sizes and codes differ, query 3 *)
(* has a day of March 1995 and query 8 a region; and the log has all of     *)
(* them.                                                                    *)
THEOREM ParametersAreValidHolds == PartsSpec => []ParametersAreValid
  <1>1. Qgen!Init => QueryInv
    BY QueryInit
  <1>2. QueryInv /\ [Qgen!Next]_queries => QueryInv'
    BY QueryInvPreserved
  <1>3. QueryInv => ParametersAreValid
    BY DEF QueryInv, ParametersAreValid
  <1>4. QED
    BY <1>1, <1>2, <1>3, PartsQgen, PTL

-----------------------------------------------------------------------------
(* What a query depends on *)

\* The seed, the parameters that the query's instructions before this one have written,
\* what it permutes, and what it has printed: all of the state that it goes on from.
View(d, s, j, t, e, a, m, b, w, g) ==
  [doing |-> d, seed |-> s, step |-> j, turn |-> t, param |-> e, permuted |-> a,
   lineno |-> m, in_comment |-> b, text |-> w, logged |-> g]

RecipeOf(q, r) == IF "DFLT" \in r THEN <<>> ELSE Qgen!recipe[q]

WrittenTo(q, j) ==
  {p \in 1..10 : \E h \in 1..Len(Qgen!recipe[q]) : h < j /\ p \in Written(Qgen!recipe[q][h])}

Shown(q, j, e) == [p \in 1..10 |-> IF p \in WrittenTo(q, j) THEN e[p] ELSE <<>>]

\* What the tags of the query stand for, with the options r.
ValuesOf(q, r, e) ==
  [p \in 1..Qgen!Params[q] |-> IF "DFLT" \in r THEN <<q, p>> ELSE e[p]]

AskedOf(q, r, e) == [qnum |-> q, flags |-> r, values |-> e]

\* The parameters that the first eight of a are put to, from the parameter h on.
FirstEight(q, a, h, e) ==
  [p \in 1..10 |-> IF p - h \in 0..7 THEN <<a[p - h + 1] + (IF q = 22 THEN 10 ELSE 0)>> ELSE e[p]]

PermutedOf(q, a, b) == IF q = 16 THEN a ELSE IF q = 22 THEN b ELSE <<>>

Start(q, s) ==
  View("varsub", s, 1, 0, [p \in 1..10 |-> <<>>], PermutedOf(q, Qgen!AllSizes, Qgen!AllCodes),
       0, FALSE, <<>>, <<>>)

\* How the query goes on, instruction by instruction, turn by turn and line by line.
AfterDraw(q, v) ==
  LET c == Qgen!recipe[q][v.step]
      y == Qgen!NextRand(v.seed)
      x == Qgen!UnifInt(c.low, c.high, y)
      j == IF Qgen!Repeats(v.param, c, x) THEN v.step ELSE v.step + 1
  IN  View("varsub", y, j, v.turn, Shown(q, j, Qgen!Drawn(v.param, c, x)), v.permuted,
           v.lineno, v.in_comment, v.text, v.logged)

AfterStart(v) ==
  View("permute", v.seed, v.step, 1, v.param, v.permuted, v.lineno, v.in_comment, v.text, v.logged)

AfterTurn(v) ==
  LET y == Qgen!NextRand(v.seed)
      x == Qgen!UnifInt(v.turn, Len(v.permuted), y)
  IN  View("permute", y, v.step, v.turn + 1, v.param,
           [v.permuted EXCEPT ![x] = v.permuted[v.turn], ![v.turn] = v.permuted[x]],
           v.lineno, v.in_comment, v.text, v.logged)

AfterTurns(q, v) ==
  View("varsub", v.seed, v.step + 1, 0,
       Shown(q, v.step + 1, FirstEight(q, v.permuted, Qgen!recipe[q][v.step].to, v.param)),
       v.permuted, v.lineno, v.in_comment, v.text, v.logged)

AfterVarsub(q, r, v) ==
  LET e == ValuesOf(q, r, v.param)
  IN  View("template", v.seed, v.step, v.turn, e, v.permuted, 1, v.in_comment,
           IF "DFLT_NUM" \in r THEN Qgen!RowCount(AskedOf(q, r, e)) ELSE <<>>,
           IF "LOG" \in r THEN e ELSE <<>>)

StrippedOf(q, r, m, b) ==
  IF "COMMENT" \in r THEN [line |-> Qgen!Template(q)[m], in_comment |-> b]
  ELSE Qgen!strip_comments(Qgen!Template(q)[m], b)

AfterLine(q, r, v) ==
  LET s == StrippedOf(q, r, v.lineno, v.in_comment)
  IN  View("template", v.seed, v.step, v.turn, v.param, v.permuted, v.lineno + 1, s.in_comment,
           v.text \o Qgen!Translate(s.line, AskedOf(q, r, v.param)), v.logged)

Over(q, v) == v.doing = "template" /\ v.lineno > Len(Qgen!Template(q))

After(q, r, v) ==
  IF v.doing = "varsub"
  THEN IF v.step <= Len(RecipeOf(q, r))
       THEN IF RecipeOf(q, r)[v.step].as = "permute" THEN AfterStart(v) ELSE AfterDraw(q, v)
       ELSE AfterVarsub(q, r, v)
  ELSE IF v.doing = "permute"
  THEN IF v.turn <= Len(v.permuted) THEN AfterTurn(v) ELSE AfterTurns(q, v)
  ELSE IF Over(q, v) THEN v ELSE AfterLine(q, r, v)

\* u are m steps of the query q with the options r and the seed s.
Course(q, r, s, m, u) == u[0] = Start(q, s) /\ \A p \in 1..m : u[p] = After(q, r, u[p - 1])
Reached(q, r, s, v) == \E m \in Nat : \E u : Course(q, r, s, m, u) /\ u[m] = v

(* A query goes on in one way only, and ends in one way only.               *)
LEMMA OneCourse ==
  ASSUME NEW q, NEW r, NEW s, NEW a \in Nat, NEW b \in Nat, a <= b,
         NEW u, NEW w, Course(q, r, s, a, u), Course(q, r, s, b, w), Over(q, u[a])
  PROVE  u[a] = w[b]
  <1> DEFINE z == [p \in 0..b |-> IF p <= a THEN u[p] ELSE u[a]]
  <1>1. z[0] = w[0]
    BY DEF Course
  <1>2. After(q, r, u[a]) = u[a]
    BY DEF After, Over
  <1>3. ASSUME NEW p \in 1..b PROVE z[p] = After(q, r, z[p - 1])
    <2>1. p - 1 \in 0..b /\ p \in 0..b
      OBVIOUS
    <2>2. CASE p <= a
      <3>1. p \in 1..a
        BY <2>2
      <3>2. z[p] = u[p] /\ z[p - 1] = u[p - 1]
        BY <2>1, <2>2
      <3>3. QED
        BY <3>1, <3>2 DEF Course
    <2>3. CASE p > a
      <3>1. z[p] = u[a] /\ z[p - 1] = u[a]
        <4>1. p - 1 = a \/ ~(p - 1 <= a)
          BY <2>3
        <4>2. z[p - 1] = u[a]
          BY <2>1, <4>1
        <4>3. QED
          BY <2>1, <2>3, <4>2
      <3>2. QED
        BY <3>1, <1>2
    <2>4. QED
      BY <2>2, <2>3
  <1>4. z[b] = u[a]
    OBVIOUS
  <1>5. PICK y : y = z
    OBVIOUS
  <1> HIDE DEF z
  <1>6. y[0] = w[0] /\ \A p \in 1..b : y[p - 1] = w[p - 1] => y[p] = w[p]
    BY <1>1, <1>3, <1>5 DEF Course
  <1>7. \A p \in 0..b : y[p] = w[p]
    BY ONLY <1>6, b \in Nat, SamePlaces
  <1>8. QED
    BY <1>4, <1>5, <1>7

LEMMA OneEnd ==
  ASSUME NEW q, NEW r, NEW s, NEW v, NEW w, Reached(q, r, s, v), Reached(q, r, s, w),
         Over(q, v), Over(q, w)
  PROVE  v = w
  <1>1. PICK a \in Nat : \E u : Course(q, r, s, a, u) /\ u[a] = v
    BY DEF Reached
  <1>2. PICK u : Course(q, r, s, a, u) /\ u[a] = v
    BY <1>1
  <1>3. PICK b \in Nat : \E z : Course(q, r, s, b, z) /\ z[b] = w
    BY DEF Reached
  <1>4. PICK z : Course(q, r, s, b, z) /\ z[b] = w
    BY <1>3
  <1>5. CASE a <= b
    BY ONLY <1>2, <1>4, <1>5, a \in Nat, b \in Nat, Over(q, v), OneCourse
  <1>6. CASE b <= a
    BY ONLY <1>2, <1>4, <1>6, a \in Nat, b \in Nat, Over(q, w), OneCourse
  <1>7. QED
    BY <1>5, <1>6

(* The next step of a query.                                                *)
LEMMA ReachedNext ==
  ASSUME NEW q, NEW r, NEW s, NEW v, NEW w, Reached(q, r, s, v), w = After(q, r, v)
  PROVE  Reached(q, r, s, w)
  <1>1. PICK m \in Nat : \E u : Course(q, r, s, m, u) /\ u[m] = v
    BY DEF Reached
  <1>2. PICK u : Course(q, r, s, m, u) /\ u[m] = v
    BY <1>1
  <1> DEFINE z == [p \in 0..(m + 1) |-> IF p <= m THEN u[p] ELSE w]
  <1>3. z[0] = Start(q, s)
    BY <1>2 DEF Course
  <1>4. ASSUME NEW p \in 1..(m + 1) PROVE z[p] = After(q, r, z[p - 1])
    <2>1. p - 1 \in 0..(m + 1) /\ p \in 0..(m + 1) /\ p - 1 <= m
      OBVIOUS
    <2>2. CASE p <= m
      <3>1. p \in 1..m
        BY <2>2
      <3>2. z[p] = u[p] /\ z[p - 1] = u[p - 1]
        BY <2>1, <2>2
      <3>3. QED
        BY <3>1, <3>2, <1>2 DEF Course
    <2>3. CASE p > m
      <3>1. p - 1 = m
        BY <2>1, <2>3
      <3>2. z[p] = w /\ z[p - 1] = v
        BY <2>1, <2>3, <3>1, <1>2
      <3>3. QED
        BY <3>2
    <2>4. QED
      BY <2>2, <2>3
  <1>5. z[m + 1] = w /\ m + 1 \in Nat
    OBVIOUS
  <1>6. PICK y : y = z
    OBVIOUS
  <1> HIDE DEF z
  <1>7. Course(q, r, s, m + 1, y) /\ y[m + 1] = w
    BY <1>3, <1>4, <1>5, <1>6 DEF Course
  <1>8. QED
    BY <1>5, <1>7 DEF Reached

LEMMA ReachedStart == ASSUME NEW q, NEW r, NEW s PROVE Reached(q, r, s, Start(q, s))
  <1>1. PICK u : u = [p \in 0..0 |-> Start(q, s)]
    OBVIOUS
  <1>2. Course(q, r, s, 0, u) /\ u[0] = Start(q, s)
    BY <1>1 DEF Course
  <1>3. QED
    BY <1>2 DEF Reached

-----------------------------------------------------------------------------
(* What an instruction takes from the ones before it *)

\* The second half of a brand, and another nation or ship mode, come right after the first.
Follows(q, j) ==
  LET c == Qgen!recipe[q][j]
  IN  /\ c.as = "second" => j > 1 /\ c.to \in Written(Qgen!recipe[q][j - 1])
      /\ c.as = "other" => j > 1 /\ c.to - 1 \in Written(Qgen!recipe[q][j - 1])

LEMMA SecondsFollow == \A q \in 1..22 : \A j \in 1..Len(Qgen!recipe[q]) : Follows(q, j)
  <1> DEFINE G(q) == \A j \in 1..Len(Qgen!recipe[q]) : Follows(q, j)
  <1> USE DEF Follows, Written, Qgen!recipe, Qgen!Num, Qgen!As, Qgen!Member, Qgen!BrandM,
              Qgen!BrandN, Qgen!Permute
  <1>1. G(1)
    OBVIOUS
  <1>2. G(2)
    OBVIOUS
  <1>3. G(3)
    OBVIOUS
  <1>4. G(4)
    OBVIOUS
  <1>5. G(5)
    OBVIOUS
  <1>6. G(6)
    OBVIOUS
  <1>7. G(7)
    OBVIOUS
  <1>8. G(8)
    OBVIOUS
  <1>9. G(9)
    OBVIOUS
  <1>10. G(10)
    OBVIOUS
  <1>11. G(11)
    OBVIOUS
  <1>12. G(12)
    OBVIOUS
  <1>13. G(13)
    OBVIOUS
  <1>14. G(14)
    OBVIOUS
  <1>15. G(15)
    OBVIOUS
  <1>16. G(16)
    OBVIOUS
  <1>17. G(17)
    OBVIOUS
  <1>18. G(18)
    OBVIOUS
  <1>19. G(19)
    OBVIOUS
  <1>20. G(20)
    OBVIOUS
  <1>21. G(21)
    OBVIOUS
  <1>22. G(22)
    OBVIOUS
  <1> HIDE DEF G, Follows
  <1>23. \A q \in 1..22 : G(q)
    BY <1>1, <1>2, <1>3, <1>4, <1>5, <1>6, <1>7, <1>8, <1>9, <1>10, <1>11,
       <1>12, <1>13, <1>14, <1>15, <1>16, <1>17, <1>18, <1>19, <1>20, <1>21, <1>22
  <1>24. QED
    BY <1>23 DEF G

\* What an instruction has written, in two settings of the parameters.
Alike(c, y, z) == \A p \in Written(c) : y[p] = z[p]

(* An instruction writes the same whatever was there before, but for the    *)
(* second half of a brand.                                                  *)
LEMMA DrawnAlike ==
  ASSUME NEW e, NEW f, e \in [1..10 -> Seq(Int)], f \in [1..10 -> Seq(Int)], NEW c, Fine(c),
         c.as # "permute", NEW x, c.as = "second" => e[c.to] = f[c.to]
  PROVE  Alike(c, Qgen!Drawn(e, c, x), Qgen!Drawn(f, c, x))
  <1>1. c.to \in 1..10 /\ c.as \in Kinds
    BY DEF Fine, Instruction
  <1>2. DOMAIN e = 1..10 /\ DOMAIN f = 1..10
    OBVIOUS
  <1>3. PICK y, z : y = Qgen!Drawn(e, c, x) /\ z = Qgen!Drawn(f, c, x)
    OBVIOUS
  <1> SUFFICES \A p \in Written(c) : y[p] = z[p]
    BY <1>3 DEF Alike
  <1>4. ASSUME NEW w, y = Qgen!Put(e, c.to, w), z = Qgen!Put(f, c.to, w),
               c.as \notin {"nation", "fraction", "permute"}
        PROVE  \A p \in Written(c) : y[p] = z[p]
    BY ONLY <1>1, <1>2, <1>4 DEF Written, Qgen!Put
  <1>5. CASE c.as \in {"number", "other"}
    <2>1. y = Qgen!Put(e, c.to, <<x>>) /\ z = Qgen!Put(f, c.to, <<x>>)
      <3>1. CASE c.as = "number"
        BY <1>3, <3>1 DEF Qgen!Drawn
      <3>2. CASE c.as = "other"
        BY <1>3, <3>2 DEF Qgen!Drawn
      <3>3. QED
        BY <3>1, <3>2, <1>5
    <2>2. QED
      BY <2>1, <1>4, <1>5
  <1>6. CASE c.as = "second"
    <2>1. y = Qgen!Put(e, c.to, Append(e[c.to], x))
      BY <1>3, <1>6 DEF Qgen!Drawn
    <2>2. z = Qgen!Put(f, c.to, Append(f[c.to], x))
      BY <1>3, <1>6 DEF Qgen!Drawn
    <2>3. Append(f[c.to], x) = Append(e[c.to], x)
      BY <1>6
    <2>4. PICK w : w = Append(e[c.to], x)
      OBVIOUS
    <2>5. y = Qgen!Put(e, c.to, w) /\ z = Qgen!Put(f, c.to, w)
      BY ONLY <2>1, <2>2, <2>3, <2>4
    <2>6. QED
      BY <2>5, <1>4, <1>6
  <1>7. CASE c.as = "month"
    <2>1. PICK w : w = <<93 + x \div 12, (x % 12) + 1>>
      OBVIOUS
    <2>2. y = Qgen!Put(e, c.to, w) /\ z = Qgen!Put(f, c.to, w)
      BY <2>1, <1>3, <1>7 DEF Qgen!Drawn
    <2>3. QED
      BY <2>2, <1>4, <1>7
  <1>8. CASE c.as = "material"
    <2>1. PICK w : w = <<(x - 1) % 5>>
      OBVIOUS
    <2>2. y = Qgen!Put(e, c.to, w) /\ z = Qgen!Put(f, c.to, w)
      BY <2>1, <1>3, <1>8 DEF Qgen!Drawn
    <2>3. QED
      BY <2>2, <1>4, <1>8
  <1>9. CASE c.as = "kind"
    <2>1. PICK w : w = <<(x - 1) \div 5>>
      OBVIOUS
    <2>2. y = Qgen!Put(e, c.to, w) /\ z = Qgen!Put(f, c.to, w)
      BY <2>1, <1>3, <1>9 DEF Qgen!Drawn
    <2>3. QED
      BY <2>2, <1>4, <1>9
  <1>10. CASE c.as = "twenties"
    <2>1. PICK w : w = <<(x - 1) \div 20>>
      OBVIOUS
    <2>2. y = Qgen!Put(e, c.to, w) /\ z = Qgen!Put(f, c.to, w)
      BY <2>1, <1>3, <1>10 DEF Qgen!Drawn
    <2>3. QED
      BY <2>2, <1>4, <1>10
  <1>11. CASE c.as = "forties"
    <2>1. PICK w : w = <<(x - 1) \div 40>>
      OBVIOUS
    <2>2. y = Qgen!Put(e, c.to, w) /\ z = Qgen!Put(f, c.to, w)
      BY <2>1, <1>3, <1>11 DEF Qgen!Drawn
    <2>3. QED
      BY <2>2, <1>4, <1>11
  <1>12. CASE c.as = "march"
    <2>1. PICK d : d = Qgen!mk_time(x + 1155 + 1)
      OBVIOUS
    <2>2. PICK w : w = <<d.year, d.month, d.day>>
      OBVIOUS
    <2>3. y = Qgen!Put(e, c.to, w) /\ z = Qgen!Put(f, c.to, w)
      BY <2>1, <2>2, <1>3, <1>12 DEF Qgen!Drawn
    <2>4. QED
      BY <2>3, <1>4, <1>12
  <1>13. CASE c.as \in {"nation", "fraction"}
    <2>1. PICK w : w = IF c.as = "nation" THEN <<Qgen!Region[x]>> ELSE <<1>>
      OBVIOUS
    <2>2. PICK h : h = <<x>>
      OBVIOUS
    <2>3. y = [[e EXCEPT ![1] = h] EXCEPT ![2] = w] /\ z = [[f EXCEPT ![1] = h] EXCEPT ![2] = w]
      <3>1. CASE c.as = "nation"
        BY <3>1, <2>1, <2>2, <1>3 DEF Qgen!Drawn, Qgen!Put
      <3>2. CASE c.as = "fraction"
        BY <3>2, <2>1, <2>2, <1>3 DEF Qgen!Drawn, Qgen!Put
      <3>3. QED
        BY <3>1, <3>2, <1>13
    <2>4. y[1] = z[1] /\ y[2] = z[2]
      BY ONLY <2>3, <1>2
    <2>5. Written(c) = {1, 2}
      BY <1>13 DEF Written
    <2>6. QED
      BY <2>4, <2>5
  <1>14. QED
    BY <1>1, <1>5, <1>6, <1>7, <1>8, <1>9, <1>10, <1>11, <1>12, <1>13 DEF Kinds

\* It is the same to draw from all parameters and from those that the query has written.
SameDraw(q, j, e, f, c, x) ==
  /\ Qgen!Repeats(f, c, x) <=> Qgen!Repeats(e, c, x)
  /\ \A h \in {j, j + 1} : Shown(q, h, Qgen!Drawn(f, c, x)) = Shown(q, h, Qgen!Drawn(e, c, x))

(* What is drawn, and whether it is drawn again, depends on what the query  *)
(* itself has written.                                                      *)
LEMMA ShownDraw ==
  ASSUME NEW q \in 1..22, NEW j \in 1..Len(Qgen!recipe[q]), NEW c, c = Qgen!recipe[q][j],
         c.as # "permute", NEW e, e \in [1..10 -> Seq(Int)], NEW x, x \in c.low..c.high,
         NEW f, f = Shown(q, j, e)
  PROVE  SameDraw(q, j, e, f, c, x)
  <1>1. Fine(c) /\ Written(c) \subseteq 1..10
    BY WrittenAreParameters
  <1>2. Len(Qgen!recipe[q]) \in Nat
    BY RecipeLengths
  <1>3. f \in [1..10 -> Seq(Int)] /\ \A p \in WrittenTo(q, j) : f[p] = e[p]
    <2>1. <<>> \in Seq(Int)
      OBVIOUS
    <2>2. PICK T, o : T = Seq(Int) /\ o = <<>> /\ o \in T
      BY <2>1
    <2>3. e \in [1..10 -> T] /\ f = [p \in 1..10 |-> IF p \in WrittenTo(q, j) THEN e[p] ELSE o]
      BY <2>2 DEF Shown
    <2>4. f \in [1..10 -> T]
      BY ONLY <2>2, <2>3
    <2>5. WrittenTo(q, j) \subseteq 1..10
      BY DEF WrittenTo
    <2>6. QED
      BY <2>2, <2>3, <2>4, <2>5
  <1>4. ASSUME j > 1, NEW p \in Written(Qgen!recipe[q][j - 1]) PROVE p \in WrittenTo(q, j)
    <2>1. j - 1 \in 1..Len(Qgen!recipe[q]) /\ j - 1 < j
      <3>1. PICK N : N \in Nat /\ N = Len(Qgen!recipe[q])
        BY <1>2
      <3>2. j \in 1..N
        BY ONLY <3>1, j \in 1..Len(Qgen!recipe[q])
      <3>3. j - 1 \in 1..N /\ j - 1 < j
        BY ONLY <3>1, <3>2, <1>4
      <3>4. QED
        BY ONLY <3>1, <3>3
    <2>2. Written(Qgen!recipe[q][j - 1]) \subseteq 1..10
      BY <2>1, WrittenAreParameters
    <2>3. QED
      BY <2>1, <2>2, <1>4 DEF WrittenTo
  <1>5. /\ c.as = "second" => c.to \in WrittenTo(q, j)
        /\ c.as = "other" => c.to - 1 \in WrittenTo(q, j)
    <2>1. Follows(q, j)
      BY SecondsFollow
    <2>2. QED
      BY <2>1, <1>4 DEF Follows
  <1>6. Qgen!Repeats(f, c, x) <=> Qgen!Repeats(e, c, x)
    BY <1>3, <1>5 DEF Qgen!Repeats
  <1>7. PICK y, z : y = Qgen!Drawn(f, c, x) /\ z = Qgen!Drawn(e, c, x)
    OBVIOUS
  <1>8. \A p \in Written(c) : y[p] = z[p]
    <2>1. c.as = "second" => f[c.to] = e[c.to]
      BY <1>3, <1>5
    <2>2. Alike(c, Qgen!Drawn(f, c, x), Qgen!Drawn(e, c, x))
      BY ONLY <2>1, <1>1, <1>3, e \in [1..10 -> Seq(Int)], c.as # "permute", DrawnAlike
    <2>3. QED
      BY <1>7, <2>2 DEF Alike
  <1>9. \A p \in (1..10) \ Written(c) : y[p] = f[p] /\ z[p] = e[p]
    <2>1. Writes(f, c, x, Qgen!Drawn(f, c, x)) /\ Writes(e, c, x, Qgen!Drawn(e, c, x))
      BY ONLY <1>1, <1>3, e \in [1..10 -> Seq(Int)], c.as # "permute", x \in c.low..c.high,
         DrawnWrites
    <2>2. QED
      BY ONLY <1>7, <2>1 DEF Writes
  <1>10. ASSUME NEW h \in {j, j + 1} PROVE Shown(q, h, y) = Shown(q, h, z)
    <2>1. ASSUME NEW p \in WrittenTo(q, h) PROVE y[p] = z[p]
      <3>1. PICK g \in 1..Len(Qgen!recipe[q]) : g < h /\ p \in Written(Qgen!recipe[q][g])
        BY DEF WrittenTo
      <3>5. p \in 1..10
        BY DEF WrittenTo
      <3>2. CASE p \in Written(c)
        BY <3>2, <1>8
      <3>3. CASE p \notin Written(c)
        <4>1. g # j
          BY <3>1, <3>3
        <4>2. g < j
          BY ONLY <3>1, <4>1, <1>2, h \in {j, j + 1}, j \in 1..Len(Qgen!recipe[q])
        <4>3. p \in WrittenTo(q, j)
          BY <3>1, <3>5, <4>2 DEF WrittenTo
        <4>4. QED
          BY <3>3, <3>5, <4>3, <1>3, <1>9
      <3>4. QED
        BY <3>2, <3>3
    <2>2. QED
      BY <2>1 DEF Shown
  <1>11. QED
    BY <1>6, <1>7, <1>10 DEF SameDraw

-----------------------------------------------------------------------------
(* The query at work *)

Now ==
  View(doing, Seed[qnum], step, IF doing = "permute" THEN turn ELSE 0,
       IF doing = "template" THEN ValuesOf(qnum, command.flags, param)
                             ELSE Shown(qnum, step, param),
       PermutedOf(qnum, sizes, ccode), IF doing = "template" THEN lineno ELSE 0, in_comment,
       IF doing = "template" THEN printed ELSE <<>>, IF doing = "template" THEN logged ELSE <<>>)

GoesOn == Now' = After(qnum, command.flags, Now)

LEMMA ViewOfNow ==
  /\ Now.doing = doing /\ Now.seed = Seed[qnum] /\ Now.step = step
  /\ Now.turn = (IF doing = "permute" THEN turn ELSE 0)
  /\ Now.param = (IF doing = "template" THEN ValuesOf(qnum, command.flags, param)
                                        ELSE Shown(qnum, step, param))
  /\ Now.permuted = PermutedOf(qnum, sizes, ccode)
  /\ Now.lineno = (IF doing = "template" THEN lineno ELSE 0) /\ Now.in_comment = in_comment
  /\ Now.text = (IF doing = "template" THEN printed ELSE <<>>)
  /\ Now.logged = (IF doing = "template" THEN logged ELSE <<>>)
  BY DEF Now, View

\* The instruction that varsub is at.
Instructed ==
  /\ "DFLT" \notin command.flags /\ qnum \in 1..22 /\ step \in 1..Len(Qgen!recipe[qnum])
  /\ Qgen!Recipe = Qgen!recipe[qnum] /\ RecipeOf(qnum, command.flags) = Qgen!recipe[qnum]

LEMMA AtInstruction ==
  ASSUME QueryInv, doing = "varsub", step <= Len(Qgen!Recipe) PROVE Instructed
  <1>1. step \in Nat \ {0} /\ qnum \in 1..22
    BY DEF QueryInv, QueryTypes
  <1>2. "DFLT" \notin command.flags
    <2> SUFFICES ASSUME "DFLT" \in command.flags PROVE FALSE
      OBVIOUS
    <2>1. Len(Qgen!Recipe) = 0
      BY DEF Qgen!Recipe
    <2>2. QED
      BY <1>1, <2>1
  <1>3. Qgen!Recipe = Qgen!recipe[qnum] /\ RecipeOf(qnum, command.flags) = Qgen!recipe[qnum]
    BY <1>2 DEF Qgen!Recipe, RecipeOf
  <1>4. Len(Qgen!recipe[qnum]) \in Nat
    BY <1>1, RecipeLengths
  <1>5. QED
    BY <1>1, <1>2, <1>3, <1>4 DEF Instructed

LEMMA DrawGoesOn == ASSUME QueryInv, Qgen!Draw PROVE GoesOn
  <1>1. doing = "varsub" /\ Instructed
    <2>1. doing = "varsub" /\ step <= Len(Qgen!Recipe)
      BY DEF Qgen!Draw
    <2>2. QED
      BY <2>1, AtInstruction
  <1>2. PICK q, r, f : q = qnum /\ r = command.flags /\ f = Shown(q, step, param)
    OBVIOUS
  <1>3. PICK c, y, x : /\ c = Qgen!recipe[q][step] /\ y = Qgen!NextRand(Seed[q])
                       /\ x = Qgen!UnifInt(c.low, c.high, y)
    OBVIOUS
  <1>4. /\ c.as # "permute" /\ Seed' = [Seed EXCEPT ![q] = y]
        /\ param' = Qgen!Drawn(param, c, x)
        /\ step' = IF Qgen!Repeats(param, c, x) THEN step ELSE step + 1
        /\ UNCHANGED <<doing, command, qnum, turn, sizes, ccode, in_comment>>
    <2>1. Qgen!Recipe = Qgen!recipe[q]
      BY <1>1, <1>2 DEF Instructed
    <2>2. QED
      BY <2>1, <1>2, <1>3 DEF Qgen!Draw
  <1>5. /\ Seed \in [0..22 -> Int] /\ param \in [1..10 -> Seq(Int)] /\ q \in 1..22
        /\ step \in 1..Len(Qgen!recipe[q])
    BY <1>1, <1>2 DEF QueryInv, QueryTypes, Instructed
  <1>6. x \in c.low..c.high
    <2>1. Fine(c)
      BY <1>3, <1>5, WrittenAreParameters
    <2>5. Seed[q] \in Int /\ c.low \in Nat /\ c.high \in Nat /\ c.low <= c.high
      <3>1. q \in 0..22
        BY <1>5
      <3>2. QED
        BY <3>1, <1>5, <2>1 DEF Fine, Instruction
    <2>2. PICK a \in Nat, b \in Nat, s \in Int : a = c.low /\ b = c.high /\ s = Seed[q] /\ a <= b
      BY <2>5
    <2>3. Qgen!UnifInt(a, b, Qgen!NextRand(s)) \in a..b
      BY ONLY QueryDraws, a \in Nat, b \in Nat, s \in Int, <2>2
    <2>4. QED
      BY <1>3, <2>2, <2>3
  <1>7. /\ Qgen!Repeats(f, c, x) <=> Qgen!Repeats(param, c, x)
        /\ \A h \in {step, step + 1} : Shown(q, h, Qgen!Drawn(f, c, x)) = Shown(q, h, param')
    <2>1. PICK e, j : e = param /\ j = step
      OBVIOUS
    <2>2. SameDraw(q, j, e, f, c, x)
      BY ONLY <1>2, <1>3, <1>4, <1>5, <1>6, <2>1, ShownDraw
    <2>3. QED
      BY <1>4, <2>1, <2>2 DEF SameDraw
  <1>8. Seed'[q] = y
    BY <1>4, <1>5
  <1>9. Now' = View("varsub", y, step', 0, Shown(q, step', param'), PermutedOf(q, sizes, ccode), 0,
                    in_comment, <<>>, <<>>)
    BY <1>1, <1>2, <1>4, <1>8 DEF Now
  <1>10. After(q, r, Now) = AfterDraw(q, Now)
    <2>1. Now.doing = "varsub" /\ Now.step = step
      BY <1>1, ViewOfNow
    <2>2. RecipeOf(q, r) = Qgen!recipe[q] /\ step <= Len(Qgen!recipe[q])
      BY <1>1, <1>2, <1>5 DEF Instructed
    <2>3. QED
      BY <2>1, <2>2, <1>3, <1>4 DEF After
  <1>11. AfterDraw(q, Now) = View("varsub", y, step', 0, Shown(q, step', Qgen!Drawn(f, c, x)),
                                  PermutedOf(q, sizes, ccode), 0, in_comment, <<>>, <<>>)
    <2>1. /\ Now.seed = Seed[q] /\ Now.step = step /\ Now.turn = 0 /\ Now.param = f
          /\ Now.permuted = PermutedOf(q, sizes, ccode) /\ Now.lineno = 0
          /\ Now.in_comment = in_comment /\ Now.text = <<>> /\ Now.logged = <<>>
      BY <1>1, <1>2, ViewOfNow
    <2>2. PICK v : v = Now
      OBVIOUS
    <2>3. step' = IF Qgen!Repeats(f, c, x) THEN step ELSE step + 1
      BY <1>4, <1>7
    <2>4. QED
      BY <2>1, <2>2, <2>3, <1>3 DEF AfterDraw
  <1>12. Shown(q, step', Qgen!Drawn(f, c, x)) = Shown(q, step', param')
    BY <1>4, <1>7
  <1>13. QED
    BY <1>2, <1>9, <1>10, <1>11, <1>12 DEF GoesOn

LEMMA StartPermuteGoesOn == ASSUME QueryInv, Qgen!StartPermute PROVE GoesOn
  <1>1. /\ doing = "varsub" /\ step <= Len(Qgen!Recipe) /\ Qgen!Recipe[step].as = "permute"
        /\ doing' = "permute" /\ turn' = 1
        /\ UNCHANGED <<command, Seed, qnum, step, param, sizes, ccode, in_comment>>
    BY DEF Qgen!StartPermute
  <1>2. Instructed
    BY <1>1, AtInstruction
  <1>3. PICK q, r : q = qnum /\ r = command.flags
    OBVIOUS
  <1>4. Now' = View("permute", Seed[q], step, 1, Shown(q, step, param),
                    PermutedOf(q, sizes, ccode), 0, in_comment, <<>>, <<>>)
    BY <1>1, <1>3 DEF Now
  <1>5. /\ Now.doing = "varsub" /\ Now.seed = Seed[q] /\ Now.step = step
        /\ Now.param = Shown(q, step, param)
        /\ Now.permuted = PermutedOf(q, sizes, ccode) /\ Now.lineno = 0
        /\ Now.in_comment = in_comment /\ Now.text = <<>> /\ Now.logged = <<>>
    BY <1>1, <1>3, ViewOfNow
  <1>6. After(q, r, Now) = AfterStart(Now)
    BY <1>1, <1>2, <1>3, <1>5 DEF After, Instructed
  <1>7. QED
    BY <1>3, <1>4, <1>5, <1>6 DEF AfterStart, GoesOn

\* What is permuted, for the query that permutes it.
InPermute ==
  /\ "DFLT" \notin command.flags /\ qnum \in {16, 22} /\ step \in 1..Len(Qgen!recipe[qnum])
  /\ Qgen!recipe[qnum][step].as = "permute" /\ Qgen!Recipe = Qgen!recipe[qnum]
  /\ Qgen!permuted = PermutedOf(qnum, sizes, ccode)
  /\ turn \in Nat /\ Len(Qgen!permuted) \in Nat

LEMMA AtPermute == ASSUME QueryInv, doing = "permute" PROVE InPermute
  <1>1. /\ "DFLT" \notin command.flags /\ qnum \in 1..22 /\ turn \in Nat
        /\ step <= Len(Qgen!recipe[qnum]) /\ Qgen!recipe[qnum][step].as = "permute"
        /\ step \in Nat \ {0} /\ sizes \in [1..50 -> 1..50] /\ ccode \in [1..25 -> 0..24]
    BY DEF QueryInv, QueryTypes, Permuting
  <1>2. Len(Qgen!recipe[qnum]) \in Nat
    BY <1>1, RecipeLengths
  <1>3. step \in 1..Len(Qgen!recipe[qnum])
    BY <1>1, <1>2
  <1>4. qnum \in {16, 22}
    <2>1. Permutes(qnum, step)
      BY <1>1, <1>3, PermutesLast
    <2>2. QED
      BY <2>1, <1>1 DEF Permutes
  <1>5. Qgen!Recipe = Qgen!recipe[qnum]
    BY <1>1 DEF Qgen!Recipe
  <1>6. Qgen!permuted = PermutedOf(qnum, sizes, ccode)
    BY <1>4 DEF Qgen!permuted, PermutedOf
  <1>7. Len(Qgen!permuted) \in Nat
    <2>1. Len(sizes) = 50 /\ Len(ccode) = 25
      BY <1>1
    <2>2. QED
      BY <2>1 DEF Qgen!permuted
  <1>8. QED
    BY <1>1, <1>3, <1>4, <1>5, <1>6, <1>7 DEF InPermute

LEMMA PermuteGoesOn == ASSUME QueryInv, Qgen!permute PROVE GoesOn
  <1>1. /\ doing = "permute" /\ turn <= Len(Qgen!permuted) /\ turn' = turn + 1
        /\ UNCHANGED <<doing, command, qnum, step, param, in_comment>>
    BY DEF Qgen!permute
  <1>2. InPermute
    BY <1>1, AtPermute
  <1>3. PICK q, r, a : q = qnum /\ r = command.flags /\ a = Qgen!permuted
    OBVIOUS
  <1>4. PICK y, x, g : /\ y = Qgen!NextRand(Seed[q]) /\ x = Qgen!UnifInt(turn, Len(a), y)
                       /\ g = [a EXCEPT ![x] = a[turn], ![turn] = a[x]]
    OBVIOUS
  <1>5. /\ Seed' = [Seed EXCEPT ![q] = y]
        /\ q = 16 => sizes' = g /\ ccode' = ccode
        /\ q # 16 => ccode' = g /\ sizes' = sizes
    BY <1>3, <1>4 DEF Qgen!permute
  <1>6. Seed'[q] = y
    BY <1>2, <1>3, <1>5 DEF QueryInv, QueryTypes, InPermute
  <1>7. PermutedOf(q, sizes', ccode') = g
    BY <1>2, <1>3, <1>5 DEF PermutedOf, InPermute
  <1>8. Now' = View("permute", y, step, turn + 1, Shown(q, step, param), g, 0, in_comment,
                    <<>>, <<>>)
    BY <1>1, <1>3, <1>6, <1>7 DEF Now
  <1>9. /\ Now.doing = "permute" /\ Now.seed = Seed[q] /\ Now.step = step /\ Now.turn = turn
        /\ Now.param = Shown(q, step, param)
        /\ Now.permuted = a /\ Now.lineno = 0
        /\ Now.in_comment = in_comment /\ Now.text = <<>> /\ Now.logged = <<>>
    BY <1>1, <1>2, <1>3, ViewOfNow DEF InPermute
  <1>10. After(q, r, Now) = AfterTurn(Now)
    BY <1>1, <1>3, <1>9 DEF After
  <1>11. AfterTurn(Now) = View("permute", y, step, turn + 1, Shown(q, step, param), g, 0,
                               in_comment, <<>>, <<>>)
    <2>1. PICK v : v = Now
      OBVIOUS
    <2>2. QED
      BY <2>1, <1>4, <1>9 DEF AfterTurn
  <1>12. QED
    BY <1>3, <1>8, <1>10, <1>11 DEF GoesOn

LEMMA EndPermuteGoesOn == ASSUME QueryInv, Qgen!EndPermute PROVE GoesOn
  <1>1. /\ doing = "permute" /\ turn > Len(Qgen!permuted) /\ doing' = "varsub" /\ step' = step + 1
        /\ UNCHANGED <<command, Seed, qnum, turn, sizes, ccode, in_comment>>
    BY DEF Qgen!EndPermute
  <1>2. InPermute
    BY <1>1, AtPermute
  <1>3. PICK q, r, a, c, h : /\ q = qnum /\ r = command.flags /\ a = Qgen!permuted
                             /\ c = Qgen!recipe[q][step] /\ h = c.to
    OBVIOUS
  <1>4. /\ q \in 1..22 /\ step \in 1..Len(Qgen!recipe[q]) /\ c.as = "permute"
        /\ Len(Qgen!recipe[q]) \in Nat
    <2>1. q \in 1..22 /\ step \in 1..Len(Qgen!recipe[q]) /\ c.as = "permute"
      BY <1>2, <1>3 DEF InPermute
    <2>2. QED
      BY <2>1, RecipeLengths
  <1>5. param' = FirstEight(q, a, h, param)
    <2>1. DOMAIN param = 1..10
      BY DEF QueryInv, QueryTypes
    <2>2. Qgen!Recipe[step].to = h
      BY <1>2, <1>3 DEF InPermute
    <2>3. QED
      BY <2>1, <2>2, <1>3 DEF Qgen!EndPermute, FirstEight
  <1>6. PICK f : f = Shown(q, step, param)
    OBVIOUS
  <1>7. Shown(q, step + 1, FirstEight(q, a, h, f)) = Shown(q, step + 1, param')
    <2>1. PICK y, z : y = FirstEight(q, a, h, f) /\ z = FirstEight(q, a, h, param)
      OBVIOUS
    <2>2. ASSUME NEW p \in WrittenTo(q, step + 1) PROVE y[p] = z[p]
      <3>1. PICK g \in 1..Len(Qgen!recipe[q]) :
              g < step + 1 /\ p \in Written(Qgen!recipe[q][g]) /\ p \in 1..10
        BY DEF WrittenTo
      <3>2. CASE p - h \in 0..7
        BY <3>1, <3>2, <2>1 DEF FirstEight
      <3>3. CASE p - h \notin 0..7
        <4>1. h \in 1..10
          BY <1>3, <1>4, WrittenAreParameters DEF Fine, Instruction
        <4>2. p \notin Written(c)
          <5>1. Written(c) = h..(h + 7)
            BY <1>3, <1>4 DEF Written
          <5>2. p \notin h..(h + 7)
            <6>1. p \in Int
              BY <3>1
            <6>2. QED
              BY ONLY <4>1, <6>1, <3>3
          <5>3. QED
            BY <5>1, <5>2
        <4>3. g # step
          BY <4>2, <3>1, <1>3
        <4>4. g < step
          BY ONLY <4>3, <3>1, <1>4
        <4>5. p \in WrittenTo(q, step)
          BY <4>4, <3>1 DEF WrittenTo
        <4>6. f[p] = param[p]
          BY <4>5, <3>1, <1>6 DEF Shown
        <4>7. y[p] = f[p] /\ z[p] = param[p]
          BY <3>1, <3>3, <2>1 DEF FirstEight
        <4>8. QED
          BY <4>6, <4>7
      <3>4. QED
        BY <3>2, <3>3
    <2>3. Shown(q, step + 1, y) = Shown(q, step + 1, z)
      BY <2>2 DEF Shown
    <2>4. QED
      BY <2>1, <2>3, <1>5
  <1>8. Now' = View("varsub", Seed[q], step + 1, 0, Shown(q, step + 1, param'), a, 0, in_comment,
                    <<>>, <<>>)
    BY <1>1, <1>2, <1>3 DEF Now, InPermute
  <1>9. /\ Now.doing = "permute" /\ Now.seed = Seed[q] /\ Now.step = step /\ Now.turn = turn
        /\ Now.param = f /\ Now.permuted = a /\ Now.lineno = 0
        /\ Now.in_comment = in_comment /\ Now.text = <<>> /\ Now.logged = <<>>
    BY <1>1, <1>2, <1>3, <1>6, ViewOfNow DEF InPermute
  <1>10. After(q, r, Now) = AfterTurns(q, Now)
    <2>1. ~(turn <= Len(a))
      BY <1>1, <1>2, <1>3 DEF InPermute
    <2>2. QED
      BY <2>1, <1>9 DEF After
  <1>11. AfterTurns(q, Now) = View("varsub", Seed[q], step + 1, 0,
                                   Shown(q, step + 1, FirstEight(q, a, h, f)), a, 0,
                                   in_comment, <<>>, <<>>)
    <2>1. PICK v : v = Now
      OBVIOUS
    <2>2. QED
      BY <2>1, <1>3, <1>9 DEF AfterTurns
  <1>12. QED
    BY <1>3, <1>7, <1>8, <1>10, <1>11 DEF GoesOn

(* A recipe that has been gone through has written all parameters.          *)
LEMMA WrittenAtEnd ==
  ASSUME NEW q \in 1..22, NEW j \in Nat, j > Len(Qgen!recipe[q])
  PROVE  \A p \in 1..Qgen!Params[q] : p \in WrittenTo(q, j)
  <1> TAKE p \in 1..Qgen!Params[q]
  <1>1. Complete(q)
    BY RecipesComplete
  <1>2. PICK g \in 1..Len(Qgen!recipe[q]) : p \in Written(Qgen!recipe[q][g])
    BY <1>1 DEF Complete
  <1>3. g < j
    <2>1. Len(Qgen!recipe[q]) \in Nat
      BY RecipeLengths
    <2>2. QED
      BY <2>1
  <1>4. p \in 1..10
    BY <1>2, WrittenAreParameters
  <1>5. QED
    BY <1>2, <1>3, <1>4 DEF WrittenTo

LEMMA AskedNow == Qgen!Asked = AskedOf(qnum, command.flags, ValuesOf(qnum, command.flags, param))
  BY DEF Qgen!Asked, Qgen!Default, AskedOf, ValuesOf

LEMMA EndVarsubGoesOn == ASSUME QueryInv, Qgen!EndVarsub PROVE GoesOn
  <1>1. PICK q, r, z, m, e : /\ q = qnum /\ r = command.flags /\ z = Qgen!Ended
                             /\ m = Qgen!Params[q] /\ e = ValuesOf(q, r, Shown(q, step, param))
    OBVIOUS
  <1>2. /\ doing = "varsub" /\ q \in 1..22 /\ step \in Nat /\ step > Len(Qgen!Recipe)
        /\ param \in [1..10 -> Seq(Int)] /\ m \in 1..10
    BY <1>1, ParamsOfQueries DEF Qgen!EndVarsub, QueryInv, QueryTypes
  <1>3. /\ param' = z /\ logged' = Qgen!Logged /\ doing' = "template" /\ lineno' = 1
        /\ printed' = IF "DFLT_NUM" \in r THEN Qgen!RowCount(Qgen!Asked) ELSE <<>>
        /\ UNCHANGED <<command, Seed, qnum, step, turn, sizes, ccode, in_comment>>
    BY <1>1 DEF Qgen!EndVarsub
  <1>4. \A p \in 1..m : "DFLT" \notin r => /\ Shown(q, step, param)[p] = param[p]
                                          /\ z[p] = param[p] /\ param[p] # <<>>
    <2> SUFFICES ASSUME "DFLT" \notin r, NEW p \in 1..m
                 PROVE  /\ Shown(q, step, param)[p] = param[p]
                        /\ z[p] = param[p] /\ param[p] # <<>>
      OBVIOUS
    <2>1. p \in 1..10 /\ p # m + 1
      <3>1. m \in 1..10
        BY <1>2
      <3>2. QED
        BY ONLY <3>1, p \in 1..m
    <2>2. step > Len(Qgen!recipe[q]) /\ Past
      BY <1>1, <1>2 DEF Qgen!Recipe, QueryInv, Filled
    <2>3. p \in WrittenTo(q, step)
      BY <2>2, <1>1, <1>2, WrittenAtEnd
    <2>4. Shown(q, step, param)[p] = param[p]
      BY <2>1, <2>3 DEF Shown
    <2>5. z[p] = param[p]
      BY <2>1, <1>1, <1>2 DEF Qgen!Ended, Qgen!Put
    <2>6. param[p] # <<>>
      BY <2>2, <2>3, <1>1 DEF WrittenTo, Past
    <2>7. QED
      BY <2>4, <2>5, <2>6
  <1>5. ValuesOf(q, r, z) = e /\ ValuesOf(q, r, param) = e
    BY <1>1, <1>4 DEF ValuesOf
  <1>6. Qgen!Asked = AskedOf(q, r, e)
    BY <1>1, <1>5, AskedNow
  <1>7. logged' = IF "LOG" \in r THEN e ELSE <<>>
    <2>1. CASE "LOG" \notin r
      BY <2>1, <1>1, <1>3 DEF Qgen!Logged
    <2>2. CASE "LOG" \in r /\ "DFLT" \in r
      <3>1. e = [p \in 1..m |-> <<q, p>>]
        BY <2>2, <1>1 DEF ValuesOf
      <3>2. QED
        BY <3>1, <2>2, <1>1, <1>3 DEF Qgen!Logged, Qgen!Default
    <2>3. CASE "LOG" \in r /\ "DFLT" \notin r
      <3>1. PICK D : D = Fulls(z)
        OBVIOUS
      <3>2. logged' = LogOf(z, D)
        BY <3>1, <2>3, <1>1, <1>3 DEF Qgen!Logged, Qgen!MAX_PARAM, Fulls, LogOf
      <3>3. /\ z \in [1..10 -> Seq(Int)] /\ m \in 1..10 /\ \A p \in 1..m : z[p] # <<>>
            /\ m = 10 \/ z[m + 1] = <<>>
        <4>1. z \in [1..10 -> Seq(Int)] /\ (m = 10 \/ z[m + 1] = <<>>)
          BY <2>3, <1>1, <1>2, EndedParameters DEF QueryInv
        <4>2. \A p \in 1..m : z[p] # <<>>
          BY <2>3, <1>4
        <4>3. QED
          BY <4>1, <4>2, <1>2
      <3>4. LogOfFirst(z, D, m)
        BY ONLY <3>1, <3>3, LoggedThose
      <3>5. e = [p \in 1..m |-> z[p]]
        BY <2>3, <1>1, <1>5 DEF ValuesOf
      <3>6. QED
        BY <2>3, <3>2, <3>4, <3>5 DEF LogOfFirst
    <2>4. QED
      BY <2>1, <2>2, <2>3
  <1>8. Now' = View("template", Seed[q], step, 0, e, PermutedOf(q, sizes, ccode), 1, in_comment,
                    IF "DFLT_NUM" \in r THEN Qgen!RowCount(AskedOf(q, r, e)) ELSE <<>>,
                    IF "LOG" \in r THEN e ELSE <<>>)
    <2>1. ValuesOf(qnum', command'.flags, param') = e
      BY <1>1, <1>3, <1>5
    <2>2. printed' = IF "DFLT_NUM" \in r THEN Qgen!RowCount(AskedOf(q, r, e)) ELSE <<>>
      BY <1>3, <1>6
    <2>3. QED
      BY <2>1, <2>2, <1>1, <1>3, <1>7 DEF Now
  <1>9. /\ Now.doing = "varsub" /\ Now.seed = Seed[q] /\ Now.step = step /\ Now.turn = 0
        /\ Now.param = Shown(q, step, param) /\ Now.permuted = PermutedOf(q, sizes, ccode)
        /\ Now.in_comment = in_comment
    BY <1>1, <1>2, ViewOfNow
  <1>10. After(q, r, Now) = AfterVarsub(q, r, Now)
    <2>1. RecipeOf(q, r) = Qgen!Recipe /\ Len(Qgen!Recipe) \in Nat
      <3>1. Len(Qgen!recipe[q]) \in Nat /\ Len(<<>>) = 0
        BY <1>2, RecipeLengths
      <3>2. QED
        BY <3>1, <1>1 DEF RecipeOf, Qgen!Recipe
    <2>2. ~(step <= Len(RecipeOf(q, r)))
      BY <2>1, <1>2
    <2>3. QED
      BY <2>2, <1>9 DEF After
  <1>11. AfterVarsub(q, r, Now) =
           View("template", Seed[q], step, 0, e, PermutedOf(q, sizes, ccode), 1, in_comment,
                IF "DFLT_NUM" \in r THEN Qgen!RowCount(AskedOf(q, r, e)) ELSE <<>>,
                IF "LOG" \in r THEN e ELSE <<>>)
    <2>1. PICK v : v = Now
      OBVIOUS
    <2>2. QED
      BY <2>1, <1>1, <1>9 DEF AfterVarsub
  <1>12. QED
    BY <1>1, <1>8, <1>10, <1>11 DEF GoesOn

-----------------------------------------------------------------------------
(* Comments *)

Unopened(w) == \A p \in 1..Len(w) : w[p] # Qgen!Open
Unended(w) == \A p \in 1..Len(w) : w[p] # Qgen!Close

\* A line from a place on, when at most one end of a comment in braces is on it.
StripFrom(w, x) ==
  LET rest == SubSeq(w, x, Len(w))
      dash == Qgen!Find(rest, {"-", "--"})
  IN  IF dash > 0 /\ rest[dash] = "--"
      THEN [line |-> SubSeq(rest, 1, dash - 1), in_comment |-> FALSE]
      ELSE IF Qgen!Find(rest, {Qgen!Open}) = 0 THEN [line |-> rest, in_comment |-> FALSE]
      ELSE [line |-> <<>>, in_comment |-> TRUE]

LEMMA NotFound ==
  ASSUME NEW S, NEW w \in Seq(S), NEW t, \A p \in 1..Len(w) : w[p] # t, NEW x \in 1..(Len(w) + 1)
  PROVE  Qgen!Find(SubSeq(w, x, Len(w)), {t}) = 0
  <1>1. PICK N \in Nat : N = Len(w)
    BY LenProperties
  <1>2. \A p \in x..N : w[p] \in S
    <2>1. w \in [1..N -> S]
      BY <1>1, LenProperties
    <2>2. QED
      BY <2>1, <1>1
  <1>3. PICK u : u = SubSeq(w, x, N)
    OBVIOUS
  <1>4. x \in Int /\ N \in Int
    BY <1>1
  <1>5. u \in Seq(S)
    BY ONLY <1>2, <1>3, <1>4, SubSeqProperties
  <1>6. Len(u) = IF x <= N THEN N - x + 1 ELSE 0
    BY ONLY <1>2, <1>3, <1>4, SubSeqProperties
  <1>7. \A p \in 1..(N - x + 1) : u[p] = w[x + p - 1]
    BY ONLY <1>2, <1>3, <1>4, SubSeqProperties
  <1>8. ASSUME NEW p \in DOMAIN u PROVE u[p] # t
    <2>1. p \in 1..(N - x + 1)
      <3>1. DOMAIN u = 1..Len(u)
        BY <1>5, LenProperties
      <3>2. QED
        BY <3>1, <1>1, <1>6
    <2>2. x + p - 1 \in 1..Len(w)
      BY <2>1, <1>1
    <2>3. QED
      BY <2>1, <2>2, <1>7
  <1>9. QED
    BY <1>1, <1>3, <1>8 DEF Qgen!Find

(* The result of strip_comments for such a line.                            *)
LEMMA StripOnce ==
  ASSUME NEW S, NEW w \in Seq(S), Unopened(w) \/ Unended(w), NEW b \in BOOLEAN
  PROVE  Qgen!strip_comments(w, b) =
           IF ~b THEN StripFrom(w, 1)
           ELSE IF Qgen!Find(w, {Qgen!Close}) = 0 THEN [line |-> <<>>, in_comment |-> TRUE]
           ELSE IF Qgen!Find(w, {Qgen!Close}) \in 1..Len(w)
           THEN StripFrom(w, Qgen!Find(w, {Qgen!Close}) + 1)
           ELSE Qgen!strip_comments(w, b)
  <1> DEFINE P == 1..(Len(w) + 1)
             Body(g, x) ==
               LET rest == SubSeq(w, x, Len(w))
                   dash == Qgen!Find(rest, {"-", "--"})
                   to   == Qgen!Find(rest, {Qgen!Close})
               IN  IF dash > 0 /\ rest[dash] = "--"
                   THEN [line |-> SubSeq(rest, 1, dash - 1), in_comment |-> FALSE]
                   ELSE IF Qgen!Find(rest, {Qgen!Open}) = 0
                   THEN [line |-> rest, in_comment |-> FALSE]
                   ELSE IF to = 0 THEN [line |-> <<>>, in_comment |-> TRUE]
                   ELSE g[x + to]
  <1>1. ASSUME NEW g, NEW x \in P PROVE Body(g, x) = StripFrom(w, x)
    <2>1. \/ Qgen!Find(SubSeq(w, x, Len(w)), {Qgen!Open}) = 0
          \/ Qgen!Find(SubSeq(w, x, Len(w)), {Qgen!Close}) = 0
      <3>1. CASE Unopened(w)
        BY <3>1, NotFound DEF Unopened
      <3>2. CASE Unended(w)
        BY <3>2, NotFound DEF Unended
      <3>3. QED
        BY <3>1, <3>2
    <2>2. QED
      BY <2>1 DEF StripFrom
  <1>2. PICK h : h = [x \in P |-> StripFrom(w, x)]
    OBVIOUS
  <1>3. h = [x \in P |-> Body(h, x)]
    BY <1>1, <1>2
  <1>4. PICK f : f = CHOOSE g : g = [x \in P |-> Body(g, x)]
    OBVIOUS
  <1>5. f = [x \in P |-> Body(f, x)]
    BY <1>3, <1>4
  <1>6. \A x \in P : f[x] = StripFrom(w, x)
    BY <1>1, <1>5
  <1>7. Qgen!Stripped(w) = f
    BY <1>4 DEF Qgen!Stripped
  <1>8. Len(w) \in Nat
    BY LenProperties
  <1> HIDE DEF Body
  <1>9. 1 \in P /\ \A p \in 1..Len(w) : p + 1 \in P
    BY <1>8
  <1>10. QED
    BY <1>6, <1>7, <1>9 DEF Qgen!strip_comments

(* A comment goes on only after a line that has its beginning.              *)
LEMMA Uncommented ==
  ASSUME NEW S, NEW w \in Seq(S), Unopened(w), NEW b \in BOOLEAN,
         b => Qgen!Find(w, {Qgen!Close}) \in 1..Len(w)
  PROVE  Qgen!strip_comments(w, b).in_comment = FALSE
  <1>1. ASSUME NEW x \in 1..(Len(w) + 1) PROVE StripFrom(w, x).in_comment = FALSE
    <2>1. Qgen!Find(SubSeq(w, x, Len(w)), {Qgen!Open}) = 0
      BY NotFound DEF Unopened
    <2>2. QED
      BY <2>1 DEF StripFrom
  <1>2. Len(w) \in Nat
    BY LenProperties
  <1>3. CASE ~b
    <2>1. Qgen!strip_comments(w, b) = StripFrom(w, 1)
      BY <1>3, StripOnce
    <2>2. 1 \in 1..(Len(w) + 1)
      BY ONLY <1>2
    <2>3. QED
      BY <2>1, <2>2, <1>1
  <1>4. CASE b
    <2>1. PICK p \in 1..Len(w) : p = Qgen!Find(w, {Qgen!Close})
      BY <1>4
    <2>2. p # 0 /\ p + 1 \in 1..(Len(w) + 1)
      BY ONLY <1>2, p \in 1..Len(w)
    <2>3. Qgen!strip_comments(w, b) = StripFrom(w, p + 1)
      BY <2>1, <2>2, <1>4, StripOnce
    <2>4. QED
      BY <2>2, <2>3, <1>1
  <1>5. QED
    BY <1>3, <1>4

LEMMA Commented ==
  ASSUME NEW S, NEW w \in Seq(S), Unended(w)
  PROVE  Qgen!strip_comments(w, FALSE).in_comment \in BOOLEAN
  <1>1. Qgen!strip_comments(w, FALSE) = StripFrom(w, 1)
    BY StripOnce
  <1>2. PICK v : v = StripFrom(w, 1)
    OBVIOUS
  <1>3. v.in_comment = FALSE \/ v.in_comment = TRUE
    BY <1>2 DEF StripFrom
  <1>4. QED
    BY <1>1, <1>2, <1>3

\* What the lines of a template have, the beginning and the end of a comment aside.
Words == {"comment", "--", ":x", ":n", "select", "-", "from", ":1", ":2", ":3", ":4", ":5",
          ":6", ":7", ":8", ":9", ":10"}
Tokens == Words \cup {Qgen!Open, Qgen!Close}

LEMMA OpenAndClose == Qgen!Open \notin Words \cup {Qgen!Close}
  BY Zenon DEF Qgen!Open, Qgen!Close, Words

\* Only the first line of a template of an even number begins a comment in braces, and the
\* second line ends it.
Lined(q) ==
  /\ Len(Qgen!Template(q)) \in Nat /\ Len(Qgen!Template(q)) >= 2
  /\ \A m \in 1..Len(Qgen!Template(q)) :
       IF q % 2 = 0 /\ m = 1 THEN Qgen!Template(q)[m] = <<Qgen!Open, "comment">>
       ELSE IF q % 2 = 0 /\ m = 2 THEN Qgen!Template(q)[m] = <<"comment", Qgen!Close>>
       ELSE Qgen!Template(q)[m] \in Seq(Words)

LEMMA TemplatesLined == \A q \in 1..22 : Lined(q)
  <1> TAKE q \in 1..22
  <1>1. PICK A, B, C, D, E, F :
          /\ A = <<Qgen!Open, "comment">> /\ B = <<"comment", Qgen!Close>>
          /\ C = <<"--", "comment">>
          /\ D = <<":x">> /\ F = <<":n">>
          /\ E = <<"select", "-">> \o SubSeq(Qgen!Tag, 1, Qgen!Params[q]) \o <<"from">>
    OBVIOUS
  <1>2. C \in Seq(Words) /\ D \in Seq(Words) /\ F \in Seq(Words)
    <2>1. "--" \in Words /\ "comment" \in Words /\ ":x" \in Words /\ ":n" \in Words
      BY DEF Words
    <2>2. QED
      BY <2>1, <1>1
  <1>3. E \in Seq(Words)
    <2>1. PICK m \in 1..10 : m = Qgen!Params[q]
      BY ParamsOfQueries
    <2>2. PICK T : T = Qgen!Tag
      OBVIOUS
    <2>3. \A p \in 1..m : T[p] \in Words
      <3>1. \A p \in 1..10 : T[p] \in Words
        BY <2>2 DEF Qgen!Tag, Words
      <3>2. \A p \in 1..m : p \in 1..10
        BY ONLY m \in 1..10
      <3>3. QED
        BY <3>1, <3>2
    <2>4. 1 \in Int /\ m \in Int
      OBVIOUS
    <2>5. SubSeq(T, 1, m) \in Seq(Words)
      BY ONLY <2>3, <2>4, SubSeqProperties
    <2>6. PICK u, x, y, W :
            u = SubSeq(T, 1, m) /\ W = Words /\ x = <<"select", "-">> /\ y = <<"from">>
      OBVIOUS
    <2>7. x \in Seq(W) /\ y \in Seq(W) /\ u \in Seq(W)
      <3>1. "select" \in W /\ "-" \in W /\ "from" \in W
        BY <2>6 DEF Words
      <3>2. QED
        BY <3>1, <2>5, <2>6
    <2>8. x \o u \o y \in Seq(W)
      BY ONLY <2>7
    <2>9. QED
      BY <2>1, <2>2, <2>6, <2>8, <1>1
  <1>4. Qgen!Template(q) = (IF q % 2 = 0 THEN <<A, B>> ELSE <<C>>) \o <<D, E, F>>
    BY <1>1 DEF Qgen!Template
  <1>5. PICK t, r : t = Qgen!Template(q) /\ r = (q % 2)
    OBVIOUS
  <1>6. Len(t) \in Nat /\ Len(t) >= 2 /\ \A m \in 1..Len(t) :
          IF r = 0 /\ m = 1 THEN t[m] = A ELSE IF r = 0 /\ m = 2 THEN t[m] = B
          ELSE t[m] \in {C, D, E, F}
    <2>1. CASE r = 0
      <3>1. t = <<A, B>> \o <<D, E, F>>
        BY <2>1, <1>4, <1>5
      <3>2. Len(t) = 5 /\ t[1] = A /\ t[2] = B /\ t[3] = D /\ t[4] = E /\ t[5] = F
        BY ONLY <3>1
      <3>3. QED
        BY ONLY <3>2, <2>1
    <2>2. CASE r # 0
      <3>1. t = <<C>> \o <<D, E, F>>
        BY <2>2, <1>4, <1>5
      <3>2. Len(t) = 4 /\ t[1] = C /\ t[2] = D /\ t[3] = E /\ t[4] = F
        BY ONLY <3>1
      <3>3. QED
        BY ONLY <3>2, <2>2
    <2>3. QED
      BY <2>1, <2>2
  <1>7. \A m \in 1..Len(t) :
          IF r = 0 /\ m = 1 THEN t[m] = A ELSE IF r = 0 /\ m = 2 THEN t[m] = B
          ELSE t[m] \in Seq(Words)
    BY ONLY <1>2, <1>3, <1>6
  <1>8. QED
    BY ONLY <1>1, <1>5, <1>6, <1>7 DEF Lined

LEMMA LinesOfNote ==
  /\ \A w \in Seq(Words) : w \in Seq(Tokens) /\ Unopened(w)
  /\ <<Qgen!Open, "comment">> \in Seq(Tokens) /\ Unended(<<Qgen!Open, "comment">>)
  /\ <<"comment", Qgen!Close>> \in Seq(Tokens) /\ Unopened(<<"comment", Qgen!Close>>)
  /\ Qgen!Find(<<"comment", Qgen!Close>>, {Qgen!Close}) \in 1..Len(<<"comment", Qgen!Close>>)
  <1>1. PICK o, e, c : o = Qgen!Open /\ e = Qgen!Close /\ c = "comment"
    OBVIOUS
  <1>2. o \notin Words /\ o # e /\ c # e /\ c \in Words /\ {o, e, c} \subseteq Tokens
    <2>1. c # e
      BY Zenon, <1>1 DEF Qgen!Close
    <2>2. c \in Words
      BY <1>1 DEF Words
    <2>3. QED
      BY <2>1, <2>2, <1>1, OpenAndClose DEF Tokens
  <1>3. ASSUME NEW w \in Seq(Words) PROVE w \in Seq(Tokens) /\ Unopened(w)
    <2>1. PICK N \in Nat : N = Len(w) /\ w \in [1..N -> Words]
      BY LenProperties
    <2>2. \A p \in 1..N : w[p] \in Tokens /\ w[p] # o
      BY <2>1, <1>2 DEF Tokens
    <2>3. w \in [1..N -> Tokens]
      BY <2>1, <2>2
    <2>4. w \in Seq(Tokens)
      BY <2>3
    <2>5. QED
      BY <2>1, <2>2, <2>4, <1>1 DEF Unopened
  <1>4. <<o, c>> \in Seq(Tokens) /\ Unended(<<o, c>>)
    BY <1>1, <1>2 DEF Unended
  <1>5. PICK w : w = <<c, e>>
    OBVIOUS
  <1>6. w \in Seq(Tokens) /\ Unopened(w) /\ Len(w) = 2 /\ w[1] # e /\ w[2] = e
    <2>1. w \in Seq(Tokens) /\ Len(w) = 2 /\ w[1] = c /\ w[2] = e
      BY <1>2, <1>5
    <2>2. \A p \in 1..2 : w[p] # o
      BY <2>1, <1>2
    <2>3. QED
      BY <2>1, <2>2, <1>1, <1>2 DEF Unopened
  <1>7. Qgen!Find(w, {e}) = 2
    <2>1. PICK S : S = {p \in DOMAIN w : w[p] \in {e}}
      OBVIOUS
    <2>2. DOMAIN w = 1..2
      BY <1>5
    <2>3. S = {2}
      BY <2>1, <2>2, <1>6
    <2>4. Qgen!Find(w, {e}) = CHOOSE p \in S : \A x \in S : p <= x
      BY <2>1, <2>3 DEF Qgen!Find
    <2>5. (CHOOSE p \in S : \A x \in S : p <= x) = 2
      BY <2>3
    <2>6. QED
      BY <2>4, <2>5
  <1>8. QED
    BY <1>1, <1>3, <1>4, <1>5, <1>6, <1>7

\* Outside the templates, and but for the second line of the even ones, there is no comment.
CommentInv ==
  /\ in_comment \in BOOLEAN /\ lineno \in Nat
  /\ doing = "template" => lineno > 0
  /\ in_comment = TRUE => /\ doing = "template" /\ lineno = 2 /\ qnum % 2 = 0
                          /\ "COMMENT" \notin command.flags

LEMMA CommentInit == Qgen!Init => CommentInv
  <1> SUFFICES ASSUME Qgen!Init PROVE CommentInv
    OBVIOUS
  <1>1. doing = "shell" /\ lineno = 0 /\ in_comment = FALSE
    BY DEF Qgen!Init
  <1>2. QED
    BY <1>1 DEF CommentInv

\* A line of a template.
InTemplate ==
  /\ qnum \in 1..22 /\ Lined(qnum) /\ lineno \in 1..Len(Qgen!Template(qnum))
  /\ ~(lineno > Len(Qgen!Template(qnum)))

LEMMA AtLine ==
  ASSUME QueryInv, CommentInv, doing = "template", lineno <= Len(Qgen!Template(qnum))
  PROVE  InTemplate
  <1>1. qnum \in 1..22 /\ lineno \in Nat /\ lineno > 0
    BY DEF QueryInv, QueryTypes, CommentInv
  <1>2. Lined(qnum)
    BY <1>1, TemplatesLined
  <1>3. PICK N \in Nat : N = Len(Qgen!Template(qnum))
    BY <1>2 DEF Lined
  <1>4. lineno \in 1..N /\ ~(lineno > N)
    BY <1>1, <1>3
  <1>5. QED
    BY <1>1, <1>2, <1>3, <1>4 DEF InTemplate

LEMMA LineKeepsComment == ASSUME QueryInv, CommentInv, Qgen!Line PROVE CommentInv'
  <1>1. PICK w, b, v : /\ w = Qgen!Template(qnum)[lineno] /\ b = in_comment
                       /\ v = Qgen!strip_comments(w, b).in_comment
    OBVIOUS
  <1>2. /\ doing = "template" /\ lineno <= Len(Qgen!Template(qnum)) /\ lineno' = lineno + 1
        /\ in_comment' = IF "COMMENT" \in command.flags THEN b ELSE v
        /\ UNCHANGED <<doing, command, qnum>>
    BY <1>1 DEF Qgen!Line
  <1>3. InTemplate
    BY <1>2, AtLine
  <1>4. /\ b \in BOOLEAN /\ lineno \in Nat /\ lineno > 0
        /\ b = TRUE => lineno = 2 /\ qnum % 2 = 0 /\ "COMMENT" \notin command.flags
    BY <1>1, <1>2 DEF CommentInv
  <1>5. PICK r : r = (qnum % 2)
    OBVIOUS
  <1>6. IF r = 0 /\ lineno = 1 THEN w = <<Qgen!Open, "comment">>
        ELSE IF r = 0 /\ lineno = 2 THEN w = <<"comment", Qgen!Close>>
        ELSE w \in Seq(Words)
    BY <1>1, <1>3, <1>5 DEF InTemplate, Lined
  <1>7. CASE r = 0 /\ lineno = 1
    <2>1. b = FALSE
      BY <1>4, <1>7
    <2>2. v \in BOOLEAN
      BY <1>1, <1>6, <1>7, <2>1, LinesOfNote, Commented
    <2>3. lineno' = 2 /\ qnum' % 2 = 0 /\ doing' = "template" /\ command' = command
      BY <1>2, <1>5, <1>7
    <2>4. CASE "COMMENT" \in command.flags
      <3>1. in_comment' = FALSE
        BY <2>1, <2>4, <1>2
      <3>2. lineno' \in Nat /\ lineno' > 0
        BY <2>3
      <3>3. QED
        BY ONLY <3>1, <3>2 DEF CommentInv
    <2>5. CASE "COMMENT" \notin command.flags
      <3>1. in_comment' \in BOOLEAN
        BY <2>2, <2>5, <1>2
      <3>2. QED
        BY <2>3, <2>5, <3>1 DEF CommentInv
    <2>6. QED
      BY <2>4, <2>5
  <1>8. CASE r = 0 /\ lineno = 2
    <2>1. v = FALSE
      <3>1. w = <<"comment", Qgen!Close>>
        BY <1>6, <1>8
      <3>2. w \in Seq(Tokens) /\ Unopened(w) /\ Qgen!Find(w, {Qgen!Close}) \in 1..Len(w)
        BY <3>1, LinesOfNote
      <3>3. Qgen!strip_comments(w, b).in_comment = FALSE
        BY ONLY <3>2, <1>4, Uncommented
      <3>4. QED
        BY <3>3, <1>1
    <2>2. "COMMENT" \in command.flags => b = FALSE
      BY <1>4
    <2>3. in_comment' = FALSE /\ lineno' \in Nat /\ lineno' > 0
      BY <2>1, <2>2, <1>2, <1>4
    <2>4. QED
      BY <2>3 DEF CommentInv
  <1>9. CASE ~(r = 0 /\ lineno \in {1, 2})
    <2>1. b = FALSE
      BY <1>4, <1>5, <1>9
    <2>2. w \in Seq(Words)
      BY <1>6, <1>9
    <2>3. v = FALSE
      BY <1>1, <2>1, <2>2, LinesOfNote, Uncommented
    <2>4. in_comment' = FALSE /\ lineno' \in Nat /\ lineno' > 0
      BY <2>1, <2>3, <1>2, <1>4
    <2>5. QED
      BY <2>4 DEF CommentInv
  <1>10. QED
    BY <1>7, <1>8, <1>9

(* A template that has been gone through leaves no comment.                 *)
LEMMA NoCommentLeft ==
  ASSUME QueryInv, CommentInv, Qgen!EndQsub PROVE in_comment = FALSE
  <1>1. doing = "template" /\ lineno > Len(Qgen!Template(qnum)) /\ qnum \in 1..22
    BY DEF Qgen!EndQsub, QueryInv, QueryTypes
  <1>2. Len(Qgen!Template(qnum)) \in Nat /\ Len(Qgen!Template(qnum)) >= 2
    BY <1>1, TemplatesLined DEF Lined
  <1>3. lineno # 2
    BY <1>1, <1>2 DEF CommentInv
  <1>4. QED
    BY <1>3 DEF CommentInv

LEMMA CommentKept == QueryInv /\ CommentInv /\ [Qgen!Next]_queries => CommentInv'
  <1> SUFFICES ASSUME QueryInv, CommentInv, [Qgen!Next]_queries PROVE CommentInv'
    OBVIOUS
  <1>1. CASE \E c \in Commands : Qgen!Exec(c)
    BY <1>1 DEF Qgen!Exec, CommentInv
  <1>2. CASE Qgen!qsub \/ Qgen!Return
    BY <1>2 DEF Qgen!qsub, Qgen!Return, CommentInv
  <1>3. CASE Qgen!Draw \/ Qgen!StartPermute \/ Qgen!permute \/ Qgen!EndPermute
    BY <1>3 DEF Qgen!Draw, Qgen!StartPermute, Qgen!permute, Qgen!EndPermute, CommentInv
  <1>4. CASE Qgen!EndVarsub
    BY <1>4 DEF Qgen!EndVarsub, CommentInv
  <1>5. CASE Qgen!Line
    BY <1>5, LineKeepsComment
  <1>6. CASE Qgen!EndQsub
    <2>1. in_comment' = FALSE /\ lineno' = lineno /\ doing' = "main"
      BY <1>6, NoCommentLeft DEF Qgen!EndQsub
    <2>2. QED
      BY <2>1 DEF CommentInv
  <1>7. CASE UNCHANGED queries
    BY <1>7 DEF queries, CommentInv
  <1>8. QED
    BY <1>1, <1>2, <1>3, <1>4, <1>5, <1>6, <1>7 DEF Qgen!Next

LEMMA LineGoesOn == ASSUME QueryInv, CommentInv, Qgen!Line PROVE GoesOn
  <1>1. PICK q, r, w, e, s :
          /\ q = qnum /\ r = command.flags /\ w = Qgen!Template(qnum)[lineno]
          /\ e = ValuesOf(q, r, param) /\ s = StrippedOf(q, r, lineno, in_comment)
    OBVIOUS
  <1>2. /\ doing = "template" /\ lineno <= Len(Qgen!Template(q)) /\ lineno' = lineno + 1
        /\ printed' = printed \o Qgen!Translate(s.line, Qgen!Asked) /\ in_comment' = s.in_comment
        /\ UNCHANGED <<doing, command, Seed, qnum, step, turn, param, sizes, ccode, logged>>
    BY <1>1 DEF Qgen!Line, StrippedOf
  <1>3. ~(lineno > Len(Qgen!Template(q)))
    BY <1>1, <1>2, AtLine DEF InTemplate
  <1>4. Qgen!Asked = AskedOf(q, r, e)
    BY <1>1, AskedNow
  <1>5. Now' = View("template", Seed[q], step, 0, e, PermutedOf(q, sizes, ccode), lineno + 1,
                    s.in_comment, printed \o Qgen!Translate(s.line, AskedOf(q, r, e)), logged)
    BY <1>1, <1>2, <1>4 DEF Now
  <1>6. /\ Now.doing = "template" /\ Now.seed = Seed[q] /\ Now.step = step /\ Now.turn = 0
        /\ Now.param = e /\ Now.permuted = PermutedOf(q, sizes, ccode) /\ Now.lineno = lineno
        /\ Now.in_comment = in_comment /\ Now.text = printed /\ Now.logged = logged
    BY <1>1, <1>2, ViewOfNow
  <1>7. After(q, r, Now) = AfterLine(q, r, Now)
    BY <1>3, <1>6 DEF After, Over
  <1>8. AfterLine(q, r, Now) =
          View("template", Seed[q], step, 0, e, PermutedOf(q, sizes, ccode), lineno + 1,
               s.in_comment, printed \o Qgen!Translate(s.line, AskedOf(q, r, e)), logged)
    <2>1. PICK v : v = Now
      OBVIOUS
    <2>2. QED
      BY <2>1, <1>1, <1>6 DEF AfterLine
  <1>9. QED
    BY <1>1, <1>5, <1>7, <1>8 DEF GoesOn

-----------------------------------------------------------------------------
(* One seed, one text *)

\* Nothing has been drawn for query q yet.
Fresh(q) ==
  /\ Seed[q] = Qgen!Seeded(command.rndm, command.flags)[q]
  /\ q = 16 => sizes = Qgen!AllSizes
  /\ q = 22 => ccode = Qgen!AllCodes

Busy == doing \in {"varsub", "permute", "template"}

SeedInv ==
  doing # "shell" =>
    /\ OneToOne(todo)
    /\ \A j \in 1..Len(todo) : Fresh(todo[j]) /\ (Busy => todo[j] # qnum)

\* The query at work has the state that its seed alone leads to.
CourseInv ==
  Busy => Reached(qnum, command.flags, Qgen!Seeded(command.rndm, command.flags)[qnum], Now)

PrintedSo(a, v) ==
  /\ Reached(a.qnum, a.flags, Qgen!Seeded(a.rndm, a.flags)[a.qnum], v) /\ Over(a.qnum, v)
  /\ a = [rndm |-> a.rndm, flags |-> a.flags, qnum |-> a.qnum, text |-> v.text, logged |-> v.logged]

TextsInv == \A a \in texts : \E v : PrintedSo(a, v)

TextInv == QueryInv /\ CommentInv /\ SeedInv /\ CourseInv /\ TextsInv

LEMMA TextsAlike == TextsInv => Qgen!ParametersFromSeed
  <1> SUFFICES ASSUME TextsInv, NEW a \in texts, NEW b \in texts,
                      a.rndm = b.rndm, a.flags = b.flags, a.qnum = b.qnum
               PROVE  a = b
    BY DEF Qgen!ParametersFromSeed
  <1>1. PICK v : PrintedSo(a, v)
    BY DEF TextsInv
  <1>2. PICK w : PrintedSo(b, w)
    BY DEF TextsInv
  <1>3. PICK q, r, s : q = a.qnum /\ r = a.flags /\ s = Qgen!Seeded(a.rndm, a.flags)[a.qnum]
    OBVIOUS
  <1>4. Reached(q, r, s, v) /\ Over(q, v)
    BY <1>1, <1>3 DEF PrintedSo
  <1>5. Reached(q, r, s, w) /\ Over(q, w)
    BY <1>2, <1>3 DEF PrintedSo
  <1>6. v = w
    BY ONLY <1>4, <1>5, OneEnd
  <1>7. QED
    BY <1>1, <1>2, <1>6 DEF PrintedSo

LEMMA TextInit == Qgen!Init => TextInv
  <1> SUFFICES ASSUME Qgen!Init PROVE TextInv
    OBVIOUS
  <1>1. doing = "shell" /\ texts = {}
    BY DEF Qgen!Init
  <1>2. QueryInv /\ CommentInv
    BY QueryInit, CommentInit
  <1>3. QED
    BY <1>1, <1>2 DEF TextInv, SeedInv, CourseInv, Busy, TextsInv

\* What is drawn or permuted is the query's own.
OwnOnly ==
  /\ \A q \in 1..22 : q # qnum => Seed'[q] = Seed[q]
  /\ qnum # 16 => sizes' = sizes
  /\ qnum # 22 => ccode' = ccode
  /\ UNCHANGED <<command, todo, qnum, texts>>
  /\ Busy /\ Busy'

LEMMA DrawOwn == ASSUME QueryInv, Qgen!Draw PROVE OwnOnly
  <1>1. Seed \in [0..22 -> Int] /\ doing = "varsub"
    BY DEF Qgen!Draw, QueryInv, QueryTypes
  <1>2. PICK y : Seed' = [Seed EXCEPT ![qnum] = y]
    BY DEF Qgen!Draw
  <1>3. \A q \in 1..22 : q # qnum => Seed'[q] = Seed[q]
    <2> TAKE q \in 1..22
    <2>1. q \in 0..22
      OBVIOUS
    <2>2. QED
      BY <2>1, <1>1, <1>2
  <1>4. UNCHANGED <<doing, command, todo, qnum, sizes, ccode, texts>>
    BY DEF Qgen!Draw
  <1>5. QED
    BY <1>1, <1>3, <1>4 DEF OwnOnly, Busy

LEMMA PermuteOwn == ASSUME QueryInv, Qgen!permute PROVE OwnOnly
  <1>1. Seed \in [0..22 -> Int] /\ doing = "permute"
    BY DEF Qgen!permute, QueryInv, QueryTypes
  <1>2. PICK y : Seed' = [Seed EXCEPT ![qnum] = y]
    BY DEF Qgen!permute
  <1>3. \A q \in 1..22 : q # qnum => Seed'[q] = Seed[q]
    <2> TAKE q \in 1..22
    <2>1. q \in 0..22
      OBVIOUS
    <2>2. QED
      BY <2>1, <1>1, <1>2
  <1>4. /\ UNCHANGED <<doing, command, todo, qnum, texts>>
        /\ qnum = 16 => ccode' = ccode
        /\ qnum # 16 => sizes' = sizes
    BY DEF Qgen!permute
  <1>5. qnum \in {16, 22}
    BY <1>1, AtPermute DEF InPermute
  <1>6. QED
    BY <1>1, <1>3, <1>4, <1>5 DEF OwnOnly, Busy

LEMMA OthersOwn ==
  ASSUME QueryInv, Qgen!StartPermute \/ Qgen!EndPermute \/ Qgen!EndVarsub \/ Qgen!Line
  PROVE  OwnOnly
  <1>1. UNCHANGED <<command, todo, qnum, Seed, sizes, ccode, texts>>
    BY DEF Qgen!StartPermute, Qgen!EndPermute, Qgen!EndVarsub, Qgen!Line
  <1>2. Busy /\ Busy'
    BY DEF Qgen!StartPermute, Qgen!EndPermute, Qgen!EndVarsub, Qgen!Line, Busy
  <1>3. QED
    BY <1>1, <1>2 DEF OwnOnly

(* A query that goes on stays on its course, and leaves the others fresh.   *)
LEMMA GoesOnKeeps ==
  ASSUME TextInv, OwnOnly, GoesOn
  PROVE  SeedInv' /\ CourseInv' /\ TextsInv'
  <1>1. CourseInv'
    <2>1. PICK q, r, s : /\ q = qnum /\ r = command.flags
                         /\ s = Qgen!Seeded(command.rndm, command.flags)[qnum]
      OBVIOUS
    <2>2. Reached(q, r, s, Now)
      BY <2>1 DEF TextInv, CourseInv, OwnOnly
    <2>3. Now' = After(q, r, Now)
      BY <2>1 DEF GoesOn
    <2>4. PICK v, w : v = Now /\ w = Now'
      OBVIOUS
    <2>5. Reached(q, r, s, w)
      BY ONLY <2>2, <2>3, <2>4, ReachedNext
    <2>6. /\ q = qnum' /\ r = command'.flags
          /\ s = Qgen!Seeded(command'.rndm, command'.flags)[qnum']
      BY <2>1 DEF OwnOnly
    <2>7. QED
      BY <2>4, <2>5, <2>6 DEF CourseInv
  <1>2. SeedInv'
    <2>1. doing # "shell" /\ Busy
      BY DEF OwnOnly, Busy
    <2>2. OneToOne(todo) /\ \A j \in 1..Len(todo) : Fresh(todo[j]) /\ todo[j] # qnum
      BY <2>1 DEF TextInv, SeedInv
    <2>3. todo \in Seq(1..22)
      BY DEF TextInv, QueryInv, QueryTypes
    <2>4. ASSUME NEW j \in 1..Len(todo) PROVE Fresh(todo[j])' /\ todo[j] # qnum
      <3>1. PICK q : q = todo[j]
        OBVIOUS
      <3>2. q \in 1..22 /\ q # qnum /\ Fresh(q)
        BY <3>1, <2>2, <2>3
      <3>3. Fresh(q)'
        <4>1. Seed'[q] = Qgen!Seeded(command'.rndm, command'.flags)[q]
          BY <3>2 DEF Fresh, OwnOnly
        <4>2. q = 16 => sizes' = Qgen!AllSizes
          BY <3>2 DEF Fresh, OwnOnly
        <4>3. q = 22 => ccode' = Qgen!AllCodes
          BY <3>2 DEF Fresh, OwnOnly
        <4>4. QED
          BY <4>1, <4>2, <4>3 DEF Fresh
      <3>4. QED
        BY <3>1, <3>2, <3>3 DEF OwnOnly, Fresh
    <2>5. QED
      BY <2>2, <2>4 DEF SeedInv, OwnOnly
  <1>3. TextsInv'
    BY DEF TextInv, TextsInv, OwnOnly
  <1>4. QED
    BY <1>1, <1>2, <1>3

LEMMA ExecFresh ==
  ASSUME EachOnce, TextInv, NEW c \in Commands, Qgen!Exec(c)
  PROVE  SeedInv' /\ CourseInv' /\ TextsInv'
  <1>1. /\ doing' = "main" /\ command' = c /\ todo' = Qgen!Queries(c)
        /\ Seed' = Qgen!Seeded(c.rndm, c.flags) /\ sizes' = Qgen!AllSizes
        /\ ccode' = Qgen!AllCodes /\ texts' = texts
    BY DEF Qgen!Exec
  <1>2. OneToOne(todo')
    BY <1>1 DEF EachOnce, OneToOne
  <1>3. ASSUME NEW j \in 1..Len(todo') PROVE Fresh(todo[j])'
    BY <1>1 DEF Fresh
  <1>4. ~Busy'
    BY <1>1 DEF Busy
  <1>5. QED
    BY <1>1, <1>2, <1>3, <1>4 DEF SeedInv, CourseInv, TextInv, TextsInv

LEMMA QsubStarts ==
  ASSUME TextInv, Qgen!qsub
  PROVE  SeedInv' /\ CourseInv' /\ TextsInv'
  <1>1. /\ doing = "main" /\ todo # <<>> /\ qnum' = Head(todo) /\ todo' = Tail(todo)
        /\ doing' = "varsub" /\ step' = 1
        /\ UNCHANGED <<command, Seed, param, sizes, ccode, in_comment, texts>>
    BY DEF Qgen!qsub
  <1>2. /\ OneToOne(todo) /\ \A j \in 1..Len(todo) : Fresh(todo[j])
        /\ in_comment = FALSE /\ todo \in Seq(1..22)
    <2>1. QueryInv /\ CommentInv /\ SeedInv
      BY DEF TextInv
    <2>2. todo \in Seq(1..22)
      BY <2>1 DEF QueryInv, QueryTypes
    <2>3. in_comment = FALSE
      BY <2>1, <1>1 DEF CommentInv
    <2>4. OneToOne(todo) /\ \A j \in 1..Len(todo) : Fresh(todo[j])
      BY <2>1, <1>1 DEF SeedInv
    <2>5. QED
      BY <2>2, <2>3, <2>4
  <1>3. PICK q, N : q = qnum' /\ N = Len(todo)
    OBVIOUS
  <1>4. /\ N \in Nat /\ N > 0 /\ DOMAIN todo = 1..N /\ q = todo[1] /\ q \in 1..22
        /\ Len(todo') = N - 1 /\ \A j \in 1..(N - 1) : todo'[j] = todo[j + 1]
    <2>1. N \in Nat /\ DOMAIN todo = 1..N
      BY <1>2, <1>3, LenProperties
    <2>2. N # 0
      BY <1>1, <1>2, <1>3, EmptySeq
    <2>3. q = todo[1]
      BY <1>1, <1>2, <1>3
    <2>4. 1 \in 1..N
      BY <2>1, <2>2
    <2>5. q \in 1..22
      BY <2>3, <2>4, <1>2, <1>3, ElementOfSeq
    <2>6. Len(todo') = N - 1 /\ \A j \in 1..(N - 1) : todo'[j] = todo[j + 1]
      BY <1>1, <1>2, <1>3, HeadTailProperties
    <2>7. QED
      BY <2>1, <2>2, <2>3, <2>5, <2>6
  <1>5. Fresh(q) /\ \A j \in 1..(N - 1) : Fresh(todo'[j]) /\ todo'[j] # q
    <2>1. 1 \in 1..N
      BY <1>4
    <2>2. Fresh(q)
      BY <2>1, <1>2, <1>3, <1>4
    <2>3. ASSUME NEW j \in 1..(N - 1) PROVE Fresh(todo[j + 1]) /\ todo[j + 1] # todo[1]
      <3>1. j + 1 \in 1..N /\ j + 1 # 1
        BY <1>4
      <3>2. QED
        BY <2>1, <3>1, <1>2, <1>3, <1>4 DEF OneToOne
    <2>4. QED
      BY <2>2, <2>3, <1>4
  <1>6. SeedInv'
    <2>1. OneToOne(todo')
      <3>1. DOMAIN todo' = 1..(N - 1)
        BY <1>1, <1>2, <1>4, LenProperties, HeadTailProperties
      <3>2. ASSUME NEW x \in 1..(N - 1), NEW y \in 1..(N - 1), x # y PROVE todo'[x] # todo'[y]
        <4>1. x + 1 \in 1..N /\ y + 1 \in 1..N /\ x + 1 # y + 1
          BY <3>2, <1>4
        <4>2. QED
          BY <4>1, <1>2, <1>4 DEF OneToOne
      <3>3. QED
        BY <3>1, <3>2 DEF OneToOne
    <2>2. ASSUME NEW j \in 1..Len(todo') PROVE Fresh(todo[j])' /\ todo'[j] # qnum'
      <3>1. PICK p : p = todo'[j]
        OBVIOUS
      <3>2. Fresh(p) /\ p # q
        BY <3>1, <1>4, <1>5
      <3>3. QED
        BY <3>1, <3>2, <1>1, <1>3 DEF Fresh
    <2>3. QED
      BY <2>1, <2>2 DEF SeedInv
  <1>7. CourseInv'
    <2>1. PICK r, s, e : r = command.flags /\ s = Seed[q] /\ e = param
      OBVIOUS
    <2>2. s = Qgen!Seeded(command.rndm, r)[q]
      BY <2>1, <1>5 DEF Fresh
    <2>3. Shown(q, 1, e) = [p \in 1..10 |-> <<>>]
      <3>1. WrittenTo(q, 1) = {}
        <4>1. Len(Qgen!recipe[q]) \in Nat
          BY <1>4, RecipeLengths
        <4>2. \A h \in 1..Len(Qgen!recipe[q]) : ~(h < 1)
          BY <4>1
        <4>3. QED
          BY <4>2 DEF WrittenTo
      <3>2. QED
        BY <3>1 DEF Shown
    <2>4. PermutedOf(q, sizes, ccode) = PermutedOf(q, Qgen!AllSizes, Qgen!AllCodes)
      BY <1>5 DEF PermutedOf, Fresh
    <2>5. Now' = View("varsub", s, 1, 0, Shown(q, 1, e), PermutedOf(q, sizes, ccode), 0, FALSE,
                      <<>>, <<>>)
      BY <2>1, <1>1, <1>2, <1>3 DEF Now
    <2>6. Now' = Start(q, s)
      BY <2>3, <2>4, <2>5 DEF Start
    <2>7. Reached(q, r, s, Start(q, s))
      BY ReachedStart
    <2>8. r = command'.flags /\ q = qnum' /\ s = Qgen!Seeded(command'.rndm, command'.flags)[q]
      BY <2>1, <2>2, <1>1, <1>3
    <2>9. QED
      BY <2>6, <2>7, <2>8 DEF CourseInv
  <1>8. TextsInv'
    BY <1>1 DEF TextInv, TextsInv
  <1>9. QED
    BY <1>6, <1>7, <1>8

LEMMA EndQsubPrints ==
  ASSUME TextInv, Qgen!EndQsub
  PROVE  SeedInv' /\ CourseInv' /\ TextsInv'
  <1>1. PICK a : a = [rndm |-> command.rndm, flags |-> command.flags, qnum |-> qnum,
                      text |-> printed, logged |-> logged]
    OBVIOUS
  <1>2. /\ doing = "template" /\ lineno > Len(Qgen!Template(qnum)) /\ texts' = texts \cup {a}
        /\ doing' = "main" /\ UNCHANGED <<command, todo, Seed, sizes, ccode>>
    BY <1>1 DEF Qgen!EndQsub
  <1>3. PICK v : v = Now
    OBVIOUS
  <1>4. v.doing = "template" /\ v.lineno = lineno /\ v.text = printed /\ v.logged = logged
    BY <1>2, <1>3, ViewOfNow
  <1>5. PrintedSo(a, v)
    <2>1. Reached(qnum, command.flags, Qgen!Seeded(command.rndm, command.flags)[qnum], v)
      BY <1>2, <1>3 DEF TextInv, CourseInv, Busy
    <2>2. a.rndm = command.rndm /\ a.flags = command.flags /\ a.qnum = qnum
      BY <1>1
    <2>3. Over(a.qnum, v)
      BY <2>2, <1>2, <1>4 DEF Over
    <2>4. a = [rndm |-> a.rndm, flags |-> a.flags, qnum |-> a.qnum, text |-> v.text,
               logged |-> v.logged]
      BY <2>2, <1>1, <1>4
    <2>5. QED
      BY <2>1, <2>2, <2>3, <2>4 DEF PrintedSo
  <1>6. TextsInv'
    BY <1>2, <1>5 DEF TextInv, TextsInv
  <1>7. SeedInv'
    <2>1. OneToOne(todo) /\ \A j \in 1..Len(todo) : Fresh(todo[j])
      BY <1>2 DEF TextInv, SeedInv
    <2>2. \A j \in 1..Len(todo') : Fresh(todo[j])'
      BY <2>1, <1>2 DEF Fresh
    <2>3. QED
      BY <2>1, <2>2, <1>2 DEF SeedInv, Busy
  <1>8. QED
    BY <1>2, <1>6, <1>7 DEF CourseInv, Busy

LEMMA TextInvPreserved ==
  ASSUME EachOnce, TextInv, [Qgen!Next]_queries
  PROVE  TextInv'
  <1>1. QueryInv' /\ CommentInv' /\ QueryInv /\ CommentInv
    BY QueryInvPreserved, CommentKept DEF TextInv
  <1> SUFFICES SeedInv' /\ CourseInv' /\ TextsInv'
    BY <1>1 DEF TextInv
  <1>2. CASE \E c \in Commands : Qgen!Exec(c)
    BY <1>2, ExecFresh
  <1>3. CASE Qgen!qsub
    BY <1>3, QsubStarts
  <1>4. CASE Qgen!Draw
    BY <1>1, <1>4, DrawOwn, DrawGoesOn, GoesOnKeeps
  <1>5. CASE Qgen!StartPermute
    BY <1>1, <1>5, OthersOwn, StartPermuteGoesOn, GoesOnKeeps
  <1>6. CASE Qgen!permute
    BY <1>1, <1>6, PermuteOwn, PermuteGoesOn, GoesOnKeeps
  <1>7. CASE Qgen!EndPermute
    BY <1>1, <1>7, OthersOwn, EndPermuteGoesOn, GoesOnKeeps
  <1>8. CASE Qgen!EndVarsub
    BY <1>1, <1>8, OthersOwn, EndVarsubGoesOn, GoesOnKeeps
  <1>9. CASE Qgen!Line
    BY <1>1, <1>9, OthersOwn, LineGoesOn, GoesOnKeeps
  <1>10. CASE Qgen!EndQsub
    BY <1>10, EndQsubPrints
  <1>11. CASE Qgen!Return
    <2>1. doing' = "shell" /\ texts' = texts
      BY <1>11 DEF Qgen!Return
    <2>2. QED
      BY <2>1 DEF TextInv, SeedInv, CourseInv, Busy, TextsInv
  <1>12. CASE UNCHANGED queries
    <2>1. UNCHANGED <<doing, command, todo, Seed, qnum, step, turn, param, sizes, ccode, logged,
                      lineno, in_comment, printed, texts>>
      BY <1>12 DEF queries
    <2>2. SeedInv' /\ TextsInv'
      BY <2>1 DEF TextInv, SeedInv, Busy, Fresh, TextsInv
    <2>3. Now' = Now
      BY <2>1 DEF Now
    <2>4. CourseInv'
      BY <2>1, <2>3 DEF TextInv, CourseInv, Busy
    <2>5. QED
      BY <2>2, <2>4
  <1>13. QED
    BY <1>2, <1>3, <1>4, <1>5, <1>6, <1>7, <1>8, <1>9, <1>10, <1>11, <1>12 DEF Qgen!Next

(* When no command line has a query twice, a query is printed and logged    *)
(* alike by all processes with the same seed and options, in whatever order *)
(* and among whatever queries: varsub and permute take nothing from another *)
(* query but what they write over.                                          *)
THEOREM ParametersFromSeedHolds == ASSUME EachOnce PROVE PartsSpec => []ParametersFromSeed
  <1>1. Qgen!Init => TextInv
    BY TextInit
  <1>2. TextInv /\ [Qgen!Next]_queries => TextInv'
    BY TextInvPreserved
  <1>3. TextInv => ParametersFromSeed
    BY TextsAlike DEF TextInv, ParametersFromSeed
  <1>4. QED
    BY <1>1, <1>2, <1>3, PartsQgen, PTL
=============================================================================
