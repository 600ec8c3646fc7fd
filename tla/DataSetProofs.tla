---------------------------- MODULE DataSetProofs -----------------------------
(***************************************************************************)
(* Proofs about what dbgen's files hold in the end, for any number of rows, *)
(* chunks, refresh sets and segments: the sets fit the data set and each    *)
(* other, every row is there exactly once, and the segments of a set go     *)
(* together. They build on the inductive invariant of DbgenProofs.          *)
(***************************************************************************)
EXTENDS DbgenProofs, FiniteSetTheorems

(* The row that is made for a refresh set is one of that set.               *)
RangeInv ==
  /\ pc \in {"row", "stop", "drange"} /\ opt.updates > 0 =>
       row > upd_num * UpdateRows /\ row + count = (upd_num + 1) * UpdateRows + 1
  /\ pc = "drange" => mode = upd_num + 1 /\ fp["DELETE"].file.set = mode

(* A file of orders or of deleted keys has its set's rows and their keys.   *)
Fits(f, r) ==
  /\ r.index \in Nat
  /\ f.of = "ORDER" => r.key = Key("ORDER", r.index, f.set)
  /\ f.of = "DELETE" => r.key = MK_SPARSE(r.index, f.set \div SetsPerSeq)
  /\ f.of \in {"ORDER", "DELETE"} /\ f.set > 0 => r.index \in Expected(f.of, f.set)

KeysInv ==
  \A f \in DOMAIN files : f.set \in Nat /\ \A n \in DOMAIN files[f] : Fits(f, files[f][n])

RInv == IInv /\ RangeInv /\ KeysInv

-----------------------------------------------------------------------------
(* Keys *)

LEMMA Eights == \A i \in Nat : \E q \in Nat, r \in 0..7 :
                  i = (8 * q) + r /\ q = i \div 8 /\ r = i % 8
  BY SMT

(* The two bits of the generation can be read off a key, and so can its row. *)
LEMMA SparseKeysDiffer ==
  ASSUME NEW i \in Nat, NEW j \in Nat, NEW a \in 0..3, NEW b \in 0..3,
         mk_sparse(i, a) = mk_sparse(j, b)
  PROVE  i = j /\ a = b
  <1>1. PICK q \in Nat, r \in 0..7 : i = (8 * q) + r /\ q = i \div 8 /\ r = i % 8
    BY Eights
  <1>2. PICK p \in Nat, s \in 0..7 : j = (8 * p) + s /\ p = j \div 8 /\ s = j % 8
    BY Eights
  <1>3. ((q * 4) + a) * 8 + r = ((p * 4) + b) * 8 + s
    BY <1>1, <1>2 DEF mk_sparse
  <1>4. q = p /\ a = b /\ r = s
    BY <1>3
  <1>5. QED
    BY <1>1, <1>2, <1>4

(* In the first generation the macro is the function.                       *)
LEMMA MacroIsFunction == \A i \in Nat : MK_SPARSE(i, 0) = mk_sparse(i, 0)
  BY DEF MK_SPARSE, mk_sparse

LEMMA SetsPerSeqIsNatural == SetsPerSeq \in Nat \ {0} /\ SetsPerSeq * UPD_PCT <= Unit
  <1>1. \A a \in Nat \ {0}, b \in Nat \ {0} :
          b < a => a \div b \in Nat \ {0} /\ (a \div b) * b <= a
    <2> SUFFICES ASSUME NEW a \in Nat \ {0}, NEW b \in Nat \ {0}, b < a
                 PROVE  a \div b \in Nat \ {0} /\ (a \div b) * b <= a
      OBVIOUS
    <2>1. PICK c \in Nat : c = a \div b /\ a = (b * c) + (a % b) /\ a % b \in 0..(b - 1)
      <3>1. a \div b \in Nat /\ a = (b * (a \div b)) + (a % b) /\ a % b \in 0..(b - 1)
        BY SMT
      <3>2. QED
        BY <3>1
    <2>2. c # 0
      BY <2>1
    <2>3. c * b <= a
      BY <2>1
    <2>4. QED
      BY <2>1, <2>2, <2>3
  <1>2. QED
    BY <1>1, DbgenAssumption DEF SetsPerSeq

(* The sets of the first generation are made of numbers of the data set.    *)
LEMMA SetsFit ==
  ASSUME NEW k \in Nat, k < SetsPerSeq
  PROVE  k * UpdateRows <= Rows("ORDER")
  <1>1. base("ORDER_LINE") = base("ORDER") /\ Rows("ORDER") = base("ORDER") * scale
    BY DEF base, BaseAtOne, Rows, Whole
  <1>2. base("ORDER") \in Nat /\ scale \in Nat
    <2>1. BaseAtOne("ORDER") \in Nat
      BY DbgenAssumption DEF BaseAtOne
    <2>2. \A m \in Nat, b \in Nat : (m * b) \div 1000 \in Nat /\ m \div 1000 \in Nat
      OBVIOUS
    <2>3. QED
      BY <2>1, <2>2, DbgenAssumption DEF base, scale
  <1>3. PICK b \in Nat : b = base("ORDER")
    BY <1>2
  <1>4. PICK q \in Nat : q = b \div Unit /\ q * Unit <= b
    <2>1. b \div Unit \in Nat /\ b = (Unit * (b \div Unit)) + (b % Unit) /\ b % Unit \in Nat
      BY DbgenAssumption, SMT
    <2>2. QED
      BY <2>1, DbgenAssumption
  <1>5. UpdateRows = (q * scale) * UPD_PCT
    BY <1>1, <1>3, <1>4 DEF UpdateRows
  <1>6. PICK u \in Nat : u = Unit /\ k * UPD_PCT <= u
    <2>1. SetsPerSeq \in Nat /\ SetsPerSeq * UPD_PCT <= Unit /\ UPD_PCT \in Nat /\ Unit \in Nat
      BY SetsPerSeqIsNatural, DbgenAssumption
    <2>2. k * UPD_PCT <= SetsPerSeq * UPD_PCT
      BY <2>1
    <2>3. k * UPD_PCT \in Nat /\ SetsPerSeq * UPD_PCT \in Nat
      BY <2>1
    <2>4. QED
      BY <2>1, <2>2, <2>3
  <1>7. PICK w \in Nat : w = UPD_PCT
    BY DbgenAssumption
  <1>8. PICK g \in Nat : g = scale
    BY <1>2
  <1>9. PICK x \in Nat : x = q * g
    BY <1>8
  <1>10. k * (x * w) = x * (k * w)
    OBVIOUS
  <1>11. x * (k * w) <= x * u
    <2>1. PICK y \in Nat : y = k * w
      OBVIOUS
    <2>2. y <= u
      BY <1>6, <1>7, <2>1
    <2>3. x * y <= x * u
      BY <2>2
    <2>4. QED
      BY <2>1, <2>3
  <1>12. x * u = (q * u) * g
    BY <1>8, <1>9
  <1>13. (q * u) * g <= b * g
    <2>1. PICK z \in Nat : z = q * u
      OBVIOUS
    <2>2. z <= b
      BY <1>4, <1>6, <2>1
    <2>3. z * g <= b * g
      BY <2>2
    <2>4. QED
      BY <2>1, <2>3
  <1>14. k * UpdateRows = k * (x * w)
    BY <1>5, <1>7, <1>8, <1>9
  <1>15. /\ k * (x * w) \in Nat /\ x * (k * w) \in Nat /\ x * u \in Nat
         /\ (q * u) * g \in Nat /\ b * g \in Nat
    OBVIOUS
  <1>16. Rows("ORDER") = b * g
    BY <1>1, <1>3, <1>8
  <1>17. k * UpdateRows \in Nat
    BY <1>14, <1>15
  <1>18. QED
    BY <1>10, <1>11, <1>12, <1>13, <1>14, <1>15, <1>16

(* Different sets are made of different rows.                               *)
LEMMA SetsApart ==
  ASSUME NEW j \in Nat, NEW k \in Nat, j > 0, k > 0, j # k, NEW i \in Nat,
         i \in Expected("ORDER", j), i \in Expected("ORDER", k)
  PROVE  FALSE
  <1>1. PICK u \in Nat : u = UpdateRows
    BY ConstantsAreNatural
  <1>2. /\ i > (j - 1) * u /\ i <= j * u /\ i > (k - 1) * u /\ i <= k * u
    <2>1. (j - 1) * u \in Nat /\ (k - 1) * u \in Nat /\ j * u \in Nat /\ k * u \in Nat
      OBVIOUS
    <2>2. i \in (((j - 1) * u) + 1)..(j * u) /\ i \in (((k - 1) * u) + 1)..(k * u)
      BY <1>1 DEF Expected
    <2>3. QED
      BY <2>1, <2>2
  <1>3. \A a \in Nat, b \in Nat : a > 0 /\ a < b => ~(i <= a * u /\ i > (b - 1) * u)
    <2> SUFFICES ASSUME NEW a \in Nat, NEW b \in Nat, a > 0, a < b,
                        i <= a * u, i > (b - 1) * u
                 PROVE  FALSE
      OBVIOUS
    <2>1. PICK c \in Nat : b - 1 = a + c
      <3>1. (b - 1) - a \in Nat
        OBVIOUS
      <3>2. QED
        BY <3>1
    <2>2. (b - 1) * u = (a * u) + (c * u) /\ c * u \in Nat /\ a * u \in Nat
      BY <2>1
    <2>3. QED
      BY <2>2
  <1>4. QED
    BY <1>2, <1>3

-----------------------------------------------------------------------------
(* Files *)

(* A row of set k is below the first row that the process has yet to make.  *)
LEMMA RowIsExpected ==
  ASSUME RangeInv, CountInv, pc \in {"row", "drange"}, opt.updates > 0, count > 0,
         NEW h \in {"ORDER", "DELETE"}
  PROVE  row \in Expected(h, upd_num + 1)
  <1>1. /\ row \in Nat /\ count \in Nat /\ upd_num \in Nat /\ UpdateRows \in Nat
        /\ row > upd_num * UpdateRows /\ row + count = (upd_num + 1) * UpdateRows + 1
    BY ConstantsAreNatural DEF RangeInv, CountInv
  <1>2. PICK x \in Nat, y \in Nat : x = upd_num * UpdateRows /\ y = (upd_num + 1) * UpdateRows
    BY <1>1
  <1>3. row \in (x + 1)..y
    BY <1>1, <1>2
  <1>4. (upd_num + 1) - 1 = upd_num /\ upd_num + 1 # 0
    BY <1>1
  <1>5. QED
    BY <1>2, <1>3, <1>4 DEF Expected

LEMMA PrintedKeys ==
  ASSUME IInv, RangeInv, KeysInv, opt \in Command, pc = "row", count > 0, tab \in Table,
         NEW hs \in SUBSET Handles(tab),
         NEW m \in Nat, m % Unit = mode % Unit, opt.updates = 0 => m = 0,
         files' = Printed(hs, m)
  PROVE  KeysInv'
  <1>1. FilesInv /\ FpInv /\ UpdateInv /\ TableInv /\ CountInv
    BY DEF IInv
  <1>2. \A f \in DOMAIN files' :
          /\ f \in DOMAIN files \/ f.set = mode % Unit
          /\ \A n \in DOMAIN files'[f] :
               \/ f \in DOMAIN files /\ n \in DOMAIN files[f] /\ files'[f][n] = files[f][n]
               \/ /\ f.of \in hs /\ files'[f][n] = RowOf(f.of)
                  /\ f.set = mode % Unit /\ (f.set > 0 <=> opt.updates > 0)
    BY <1>1, PrintedRows
  <1>3. mode % Unit \in Nat
    <2>1. m % Unit \in Nat
      BY DbgenAssumption
    <2>2. QED
      BY <2>1
  <1>4. ASSUME NEW f \in DOMAIN files', f.of \in hs,
               f.set = mode % Unit, f.set > 0 <=> opt.updates > 0
        PROVE  Fits(f, RowOf(f.of))
    <2>1. PICK h \in Handle \ {"DELETE"} : h = f.of
      BY <1>4, HandlesPrint
    <2>2. RowOf(h).index = row /\ RowOf(h).key = Key(h, row, mode % Unit) /\ row \in Nat
      BY <1>1 DEF RowOf, CountInv
    <2>3. f.set > 0 => mode % Unit = upd_num + 1
      BY <1>1, <1>4 DEF UpdateInv
    <2>4. f.of = "ORDER" /\ f.set > 0 => row \in Expected(f.of, f.set)
      BY <1>1, <1>4, <2>3, RowIsExpected
    <2>5. QED
      BY <1>4, <2>1, <2>2, <2>4 DEF Fits
  <1>5. \A f \in DOMAIN files' : f.set \in Nat
    BY <1>2, <1>3 DEF KeysInv
  <1>6. \A f \in DOMAIN files' : \A n \in DOMAIN files'[f] : Fits(f, files'[f][n])
    BY <1>2, <1>4 DEF KeysInv
  <1>7. QED
    BY <1>5, <1>6 DEF KeysInv

(* Files that hold no more than before.                                     *)
LEMMA FewerKeys ==
  ASSUME KeysInv, DOMAIN files' = DOMAIN files,
         \A f \in DOMAIN files : \A n \in DOMAIN files'[f] :
           n \in DOMAIN files[f] /\ files'[f][n] = files[f][n]
  PROVE  KeysInv'
  BY DEF KeysInv

LEMMA SameKeys ==
  ASSUME KeysInv, files' = files
  PROVE  KeysInv'
  BY DEF KeysInv

(* A file of deleted keys is opened, or gets one key more.                  *)
LEMMA DeletedKeys ==
  ASSUME KeysInv, NEW f, f.of = "DELETE", f.set \in Nat, NEW q,
         \A n \in DOMAIN q : Fits(f, q[n]),
         files' = [g \in DOMAIN files \cup {f} |-> IF g = f THEN q ELSE files[g]]
  PROVE  KeysInv'
  <1>1. \A g \in DOMAIN files' : (g = f /\ files'[g] = q) \/ (g \in DOMAIN files /\ files'[g] = files[g])
    OBVIOUS
  <1>2. QED
    BY <1>1 DEF KeysInv

-----------------------------------------------------------------------------
(* The steps of a process *)

LEMMA NoProcess ==
  ASSUME KeysInv', pc' \notin {"row", "stop", "drange"}
  PROVE  RangeInv' /\ KeysInv'
  BY DEF RangeInv

LEMMA NothingMoves ==
  ASSUME RangeInv, KeysInv, UNCHANGED <<files, memory>>
  PROVE  RangeInv' /\ KeysInv'
  BY SameKeys DEF RangeInv, memory

LEMMA BeginTableFits ==
  ASSUME IInv, RangeInv, KeysInv, BeginTable
  PROVE  RangeInv' /\ KeysInv'
  <1>1. pc = "main" /\ pc' = "row" /\ opt' = opt /\ files' = files
    BY DEF BeginTable
  <1>2. opt.updates = 0
    BY <1>1 DEF IInv, TableInv
  <1>3. QED
    BY <1>1, <1>2, SameKeys DEF RangeInv

LEMMA BeginUpdateFits ==
  ASSUME IInv, RangeInv, KeysInv, BeginUpdate
  PROVE  RangeInv' /\ KeysInv'
  <1>1. /\ row' = upd_num * UpdateRows + 1 /\ count' = UpdateRows /\ pc' = "row"
        /\ upd_num' = upd_num /\ files' = files
    BY DEF BeginUpdate
  <1>2. upd_num \in Nat /\ UpdateRows \in Nat
    BY ConstantsAreNatural DEF IInv, CountInv
  <1>3. PICK x \in Nat : x = upd_num * UpdateRows
    BY <1>2
  <1>4. (upd_num + 1) * UpdateRows = x + UpdateRows
    BY <1>2, <1>3
  <1>5. row' > upd_num' * UpdateRows /\ row' + count' = (upd_num' + 1) * UpdateRows + 1
    BY <1>1, <1>2, <1>3, <1>4
  <1>6. QED
    BY <1>1, <1>5, SameKeys DEF RangeInv

LEMMA MakeRowFits ==
  ASSUME IInv, RangeInv, KeysInv, Ordinary, MakeRow
  PROVE  RangeInv' /\ KeysInv'
  <1>1. /\ pc = "row" /\ count > 0 /\ pc' = "stop"
        /\ UNCHANGED <<opt, row, count, upd_num>>
        /\ Output(Handles(tab), NextSegment.mode)
    BY DEF MakeRow
  <1>2. tab \in Table /\ opt \in Command
    BY <1>1, TabIsTable, CommandKnown
  <1>3. PICK m \in Nat : m = NextSegment.mode /\ m % Unit = mode % Unit /\ (opt.updates = 0 => m = 0)
    BY <1>1, NextSegmentSameSet
  <1>4. files' = Printed(Handles(tab), m) /\ Handles(tab) \in SUBSET Handles(tab)
    BY <1>1, <1>3 DEF Output
  <1>5. KeysInv'
    BY <1>1, <1>2, <1>3, <1>4, PrintedKeys
  <1>6. RangeInv'
    BY <1>1 DEF RangeInv
  <1>7. QED
    BY <1>5, <1>6

LEMMA DeclineFits ==
  ASSUME IInv, RangeInv, KeysInv, Ordinary, Decline
  PROVE  RangeInv' /\ KeysInv'
  <1>1. pc = "row" /\ count > 0 /\ pc' = "shell"
    BY DEF Decline, Gone, Fresh
  <1>2. PICK k \in DOMAIN Loader(tab) :
          /\ Asks(Loader(tab)[k], mode)
          /\ files' = Printed({Loader(tab)[j] : j \in 1..(k - 1)}, mode)
    BY DEF Decline
  <1>3. tab \in Table /\ opt \in Command
    BY <1>1, TabIsTable, CommandKnown
  <1>4. {Loader(tab)[j] : j \in 1..(k - 1)} \in SUBSET Handles(tab)
    BY <1>2 DEF Handles, Loader
  <1>5. opt.updates = 0 /\ mode = 0
    BY <1>1, <1>2 DEF Asks, IInv, TableInv
  <1>6. KeysInv'
    BY <1>1, <1>2, <1>3, <1>4, <1>5, PrintedKeys
  <1>7. QED
    BY <1>1, <1>6, NoProcess

LEMMA RowStopFits ==
  ASSUME IInv, RangeInv, KeysInv, RowStop
  PROVE  RangeInv' /\ KeysInv'
  <1>1. /\ pc = "stop" /\ pc' = "row" /\ row' = row + 1 /\ count' = count - 1
        /\ UNCHANGED <<files, opt, upd_num>>
    BY DEF RowStop
  <1>2. row \in Nat /\ count \in Nat /\ upd_num \in Nat /\ UpdateRows \in Nat
    BY ConstantsAreNatural DEF IInv, CountInv
  <1>3. PICK x \in Nat : x = upd_num * UpdateRows
    BY <1>2
  <1>4. opt.updates > 0 => row > x /\ row + count = (upd_num + 1) * UpdateRows + 1
    BY <1>1, <1>3 DEF RangeInv
  <1>5. row' + count' = row + count /\ (row > x => row' > x)
    BY <1>1, <1>2
  <1>6. QED
    BY <1>1, <1>3, <1>4, <1>5, SameKeys DEF RangeInv

LEMMA EndTableFits ==
  ASSUME IInv, RangeInv, KeysInv, Ordinary, EndTable
  PROVE  RangeInv' /\ KeysInv'
  <1>1. pc = "row" /\ UNCHANGED <<opt, upd_num>> /\ opt.updates \in Nat
    BY CommandKnown DEF EndTable
  <1>2. CASE opt.updates = 0
    <2>1. pc' = "main" /\ files' = files
      BY <1>2 DEF EndTable
    <2>2. QED
      BY <2>1, SameKeys, NoProcess
  <1>3. CASE opt.updates > 0
    <2>1. PICK f : f = print_prep("DELETE", upd_num + 1)
      OBVIOUS
    <2>2. /\ pc' = "drange" /\ row' = upd_num * UpdateRows + 1 /\ count' = UpdateRows
          /\ mode' = upd_num + 1
          /\ files' = [g \in DOMAIN files \cup {f} |-> IF g = f THEN <<>> ELSE files[g]]
          /\ fp' = [fp EXCEPT !["DELETE"] = [file |-> f, mode |-> upd_num + 1]]
      BY <1>1, <1>3, <2>1 DEF EndTable
    <2>3. upd_num \in Nat /\ upd_num < opt.updates /\ opt.updates < Unit /\ UpdateRows \in Nat
      BY <1>1, <1>3, CommandKnown, ConstantsAreNatural DEF IInv, UpdateInv, CountInv
    <2>4. f.of = "DELETE" /\ f.set = upd_num + 1
      <3>1. (upd_num + 1) % Unit = upd_num + 1
        <4>1. upd_num + 1 \in Nat /\ upd_num + 1 < Unit /\ Unit \in Nat
          BY <1>1, <2>3, DbgenAssumption
        <4>2. \A a \in Nat, b \in Nat : a < b => a % b = a
          OBVIOUS
        <4>3. QED
          BY <4>1, <4>2
      <3>2. QED
        BY <2>1, <3>1 DEF print_prep
    <2>5. fp'["DELETE"].file.set = upd_num + 1
      <3>1. fp = [h \in Handle |-> fp[h]]
        BY DEF IInv, FpInv
      <3>2. fp'["DELETE"].file = f
        BY <2>2, <3>1 DEF Handle
      <3>3. QED
        BY <2>4, <3>2
    <2>6. RangeInv'
      <3>1. PICK x \in Nat : x = upd_num * UpdateRows
        BY <2>3
      <3>2. (upd_num + 1) * UpdateRows = x + UpdateRows
        BY <2>3, <3>1
      <3>3. row' > upd_num' * UpdateRows /\ row' + count' = (upd_num' + 1) * UpdateRows + 1
        BY <1>1, <2>2, <2>3, <3>1, <3>2
      <3>4. QED
        BY <1>1, <2>2, <2>5, <3>3 DEF RangeInv
    <2>7. KeysInv'
      <3>1. \A n \in DOMAIN <<>> : Fits(f, <<>>[n])
        BY EmptyIsSequence
      <3>2. f.set \in Nat
        BY <2>3, <2>4
      <3>3. QED
        BY <2>2, <2>4, <3>1, <3>2, DeletedKeys
    <2>8. QED
      BY <2>6, <2>7
  <1>4. QED
    BY <1>1, <1>2, <1>3

LEMMA DeleteKeyFits ==
  ASSUME IInv, RangeInv, KeysInv, Ordinary, DeleteKey
  PROVE  RangeInv' /\ KeysInv'
  <1>1. /\ pc = "drange" /\ count > 0 /\ row' = row + 1 /\ count' = count - 1
        /\ UNCHANGED <<pc, opt, upd_num, mode>>
    BY DEF DeleteKey
  <1>2. /\ row \in Nat /\ count \in Nat /\ upd_num \in Nat /\ UpdateRows \in Nat
        /\ opt.updates > 0 /\ mode \in Nat /\ mode % Unit = mode
        /\ mode = upd_num + 1 /\ fp["DELETE"].file.set = mode
    BY <1>1, ConstantsAreNatural DEF IInv, CountInv, UpdateInv, RangeInv
  <1>3. PICK f, q :
          /\ \/ f = print_prep("DELETE", mode) /\ q = <<>>
             \/ f = fp["DELETE"].file /\ q = files[f]
          /\ files' = [g \in DOMAIN files \cup {f} |->
                         IF g = f THEN Append(q, DeletedKey) ELSE files[g]]
          /\ fp' = [fp EXCEPT !["DELETE"].file = f]
    BY DeleteKeyFiles
  <1>4. /\ fp = [h \in Handle |-> fp[h]] /\ fp["DELETE"].file.of = "DELETE"
        /\ fp["DELETE"].file \in DOMAIN files
        /\ fp["DELETE"] = [file |-> fp["DELETE"].file, mode |-> fp["DELETE"].mode]
    BY <1>1 DEF IInv, FpInv, Handle
  <1>5. f.of = "DELETE" /\ f.set = mode /\ IsSequence(q) /\ \A n \in DOMAIN q : Fits(f, q[n])
    <2>1. CASE f = print_prep("DELETE", mode) /\ q = <<>>
      BY <1>2, <2>1, EmptyIsSequence DEF print_prep
    <2>2. CASE f = fp["DELETE"].file /\ q = files[f]
      BY <1>2, <1>4, <2>2 DEF KeysInv, IInv, FilesInv
    <2>3. QED
      BY <1>3, <2>1, <2>2
  <1>6. Fits(f, DeletedKey)
    <2>1. /\ DeletedKey.index = row
          /\ DeletedKey.key = MK_SPARSE(row, mode \div SetsPerSeq)
      BY DEF DeletedKey
    <2>2. row \in Expected("DELETE", mode)
      BY <1>1, <1>2, RowIsExpected DEF IInv
    <2>3. QED
      BY <1>2, <1>5, <2>1, <2>2 DEF Fits
  <1>7. KeysInv'
    <2>1. PICK k : k = DeletedKey
      OBVIOUS
    <2>2. \A n \in DOMAIN Append(q, k) : Fits(f, Append(q, k)[n])
      <3>1. /\ DOMAIN Append(q, k) = 1..(Len(q) + 1) /\ DOMAIN q = 1..Len(q) /\ Len(q) \in Nat
            /\ \A n \in 1..Len(q) : Append(q, k)[n] = q[n]
            /\ Append(q, k)[Len(q) + 1] = k
        BY <1>5, AppendIsSequence
      <3>2. \A n \in 1..(Len(q) + 1) : n \in 1..Len(q) \/ n = Len(q) + 1
        BY <3>1
      <3>3. QED
        BY <1>5, <1>6, <2>1, <3>1, <3>2
    <2>3. PICK p : p = Append(q, k)
      OBVIOUS
    <2>4. QED
      BY <1>2, <1>3, <1>5, <2>1, <2>2, <2>3, DeletedKeys
  <1>8. RangeInv'
    <2>1. fp'["DELETE"].file = f
      BY <1>3, <1>4 DEF Handle
    <2>2. PICK x \in Nat : x = upd_num * UpdateRows
      BY <1>2
    <2>3. row > x /\ row + count = (upd_num + 1) * UpdateRows + 1
      BY <1>1, <1>2, <2>2 DEF RangeInv
    <2>4. row' > x /\ row' + count' = row + count
      BY <1>1, <1>2, <2>3
    <2>5. QED
      BY <1>1, <1>2, <1>5, <2>1, <2>2, <2>3, <2>4 DEF RangeInv
  <1>9. QED
    BY <1>7, <1>8

LEMMA CrashFits ==
  ASSUME IInv, KeysInv, Crash
  PROVE  RangeInv' /\ KeysInv'
  <1>1. pc' = "shell"
    BY DEF Crash, Gone, Fresh
  <1>2. PICK n \in Nat :
          files' = [f \in DOMAIN files |->
                      IF (\E h \in Handle : fp[h].file = f) /\ Len(files[f]) > n
                      THEN SubSeq(files[f], 1, n) ELSE files[f]]
    BY DEF Crash
  <1>3. ASSUME NEW f \in DOMAIN files
        PROVE  \A k \in DOMAIN files'[f] : k \in DOMAIN files[f] /\ files'[f][k] = files[f][k]
    <2>1. IsSequence(files[f])
      BY DEF IInv, FilesInv
    <2>2. CASE files'[f] = files[f]
      BY <2>2
    <2>3. CASE files'[f] = SubSeq(files[f], 1, n) /\ Len(files[f]) > n
      BY <2>1, <2>3, PrefixIsSequence
    <2>4. QED
      BY <1>2, <2>2, <2>3
  <1>4. DOMAIN files' = DOMAIN files
    BY <1>2
  <1>5. QED
    BY <1>1, <1>3, <1>4, FewerKeys, NoProcess

LEMMA StepFits ==
  ASSUME IInv, RangeInv, KeysInv, Ordinary, [Next]_vars
  PROVE  RangeInv' /\ KeysInv'
  <1>1. ASSUME NEW o \in todo, Reject(o) PROVE RangeInv' /\ KeysInv'
    <2>1. UNCHANGED <<files, memory>>
      BY <1>1 DEF Reject
    <2>2. QED
      BY <2>1, NothingMoves
  <1>2. ASSUME NEW o \in todo, Exec(o) PROVE RangeInv' /\ KeysInv'
    <2>1. pc' \in {"main", "update"} /\ files' = files
      BY <1>2 DEF Exec, Fresh
    <2>2. QED
      BY <2>1, SameKeys, NoProcess
  <1>3. CASE BeginTable
    BY <1>3, BeginTableFits
  <1>4. CASE BeginUpdate
    BY <1>4, BeginUpdateFits
  <1>5. CASE MakeRow
    BY <1>5, MakeRowFits
  <1>6. CASE Decline
    BY <1>6, DeclineFits
  <1>7. CASE RowStop
    BY <1>7, RowStopFits
  <1>8. CASE EndTable
    BY <1>8, EndTableFits
  <1>9. CASE DeleteKey
    BY <1>9, DeleteKeyFits
  <1>10. CASE EndUpdate
    <2>1. pc' = "update" /\ files' = files
      BY <1>10 DEF EndUpdate
    <2>2. QED
      BY <2>1, SameKeys, NoProcess
  <1>11. CASE Return
    <2>1. pc' = "shell" /\ files' = files
      BY <1>11 DEF Return, Gone, Fresh
    <2>2. QED
      BY <2>1, SameKeys, NoProcess
  <1>12. CASE Crash
    BY <1>12, CrashFits
  <1>13. CASE UNCHANGED vars
    BY <1>13, NothingMoves DEF vars
  <1>14. QED
    BY <1>1, <1>2, <1>3, <1>4, <1>5, <1>6, <1>7, <1>8, <1>9, <1>10, <1>11, <1>12, <1>13
       DEF Next, Process

-----------------------------------------------------------------------------
(* The refresh sets *)

LEMMA KeysOfSet ==
  ASSUME IInv, KeysInv, NEW h \in {"ORDER", "DELETE"}, NEW k \in Nat, k > 0, k < SetsPerSeq,
         NEW key \in Keys(h, k)
  PROVE  \E i \in Nat : /\ i \in Expected("ORDER", k)
                        /\ key = mk_sparse(i, IF h = "ORDER" THEN 1 ELSE 0)
  <1>0. PICK f \in DOMAIN files : /\ f.of = h /\ f.set = k
                                  /\ \E n \in DOMAIN files[f] : key = files[f][n].key
    <2>1. PICK fn \in Places(h, k) : key = files[fn[1]][fn[2]].key
      BY DEF Keys
    <2>2. fn[1] \in FilesOf(h, k) /\ fn[2] \in DOMAIN files[fn[1]]
      BY <2>1 DEF Places
    <2>3. QED
      BY <2>1, <2>2 DEF FilesOf
  <1>1. PICK n \in DOMAIN files[f] : key = files[f][n].key
    BY <1>0
  <1>2. Fits(f, files[f][n])
    BY DEF KeysInv
  <1>3. PICK i \in Nat : i = files[f][n].index /\ i \in Expected("ORDER", k)
    <2>1. files[f][n].index \in Nat /\ files[f][n].index \in Expected(h, k)
      BY <1>0, <1>2 DEF Fits
    <2>2. Expected(h, k) = Expected("ORDER", k)
      BY DEF Expected
    <2>3. QED
      BY <2>1, <2>2
  <1>4. k \div SetsPerSeq = 0
    <2>1. \A a \in Nat, b \in Nat \ {0} : a < b => a \div b = 0
      BY SMT
    <2>2. QED
      BY <2>1, SetsPerSeqIsNatural
  <1>5. CASE h = "ORDER"
    <2>1. key = mk_sparse(i, 1 + 0)
      BY <1>0, <1>1, <1>2, <1>3, <1>4, <1>5 DEF Fits, Key
    <2>2. QED
      BY <1>3, <1>5, <2>1
  <1>6. CASE h = "DELETE"
    <2>1. key = MK_SPARSE(i, 0)
      BY <1>0, <1>1, <1>2, <1>3, <1>4, <1>6 DEF Fits
    <2>2. QED
      BY <1>3, <1>6, <2>1, MacroIsFunction
  <1>7. QED
    BY <1>5, <1>6

LEMMA LoadedKeys ==
  /\ Loaded = {mk_sparse(i, 0) : i \in 1..Rows("ORDER")}
  /\ Rows("ORDER") \in Nat
  BY ConstantsAreNatural DEF Loaded, Key, Table

LEMMA SetsApply ==
  ASSUME IInv, KeysInv
  PROVE  RefreshSetsApply
  <1>1. Sets \subseteq Nat \ {0}
    BY DEF Sets, KeysInv
  <1> SUFFICES ASSUME NEW k \in Sets, k < SetsPerSeq
               PROVE  /\ Keys("ORDER", k) \cap Loaded = {}
                      /\ Keys("DELETE", k) \subseteq Loaded
                      /\ \A j \in Sets \ {k} : j < SetsPerSeq =>
                           /\ Keys("ORDER", k) \cap Keys("ORDER", j) = {}
                           /\ Keys("DELETE", k) \cap Keys("DELETE", j) = {}
    BY DEF RefreshSetsApply
  <1>2. k \in Nat /\ k > 0
    BY <1>1
  <1>3. Keys("ORDER", k) \cap Loaded = {}
    <2> SUFFICES ASSUME NEW key \in Keys("ORDER", k), key \in Loaded PROVE FALSE
      OBVIOUS
    <2>1. PICK i \in Nat : key = mk_sparse(i, 1)
      BY <1>2, KeysOfSet
    <2>2. PICK j \in 1..Rows("ORDER") : key = mk_sparse(j, 0)
      BY LoadedKeys
    <2>3. j \in Nat
      BY LoadedKeys
    <2>4. QED
      BY <2>1, <2>2, <2>3, SparseKeysDiffer
  <1>4. Keys("DELETE", k) \subseteq Loaded
    <2> SUFFICES ASSUME NEW key \in Keys("DELETE", k) PROVE key \in Loaded
      OBVIOUS
    <2>1. PICK i \in Nat : i \in Expected("ORDER", k) /\ key = mk_sparse(i, 0)
      BY <1>2, KeysOfSet
    <2>2. i \in 1..Rows("ORDER")
      <3>1. PICK u \in Nat : u = UpdateRows
        BY ConstantsAreNatural
      <3>2. PICK x \in Nat, y \in Nat : x = (k - 1) * u /\ y = k * u
        BY <1>2
      <3>3. i \in (x + 1)..y
        BY <1>2, <2>1, <3>1, <3>2 DEF Expected
      <3>4. y <= Rows("ORDER")
        BY <1>2, <3>1, <3>2, SetsFit
      <3>5. QED
        BY <3>3, <3>4, LoadedKeys
    <2>3. QED
      BY <2>1, <2>2, LoadedKeys
  <1>5. ASSUME NEW j \in Sets \ {k}, j < SetsPerSeq, NEW h \in {"ORDER", "DELETE"}
        PROVE  Keys(h, k) \cap Keys(h, j) = {}
    <2> SUFFICES ASSUME NEW key \in Keys(h, k), key \in Keys(h, j) PROVE FALSE
      OBVIOUS
    <2>1. j \in Nat /\ j > 0 /\ j # k
      BY <1>1
    <2>2. PICK s \in 0..3 : s = IF h = "ORDER" THEN 1 ELSE 0
      OBVIOUS
    <2>3. PICK a \in Nat : a \in Expected("ORDER", k) /\ key = mk_sparse(a, s)
      BY <1>2, <2>2, KeysOfSet
    <2>4. PICK b \in Nat : b \in Expected("ORDER", j) /\ key = mk_sparse(b, s)
      BY <1>5, <2>1, <2>2, KeysOfSet
    <2>5. a = b
      BY <2>3, <2>4, SparseKeysDiffer
    <2>6. QED
      BY <1>2, <2>1, <2>3, <2>4, <2>5, SetsApart
  <1>6. QED
    BY <1>3, <1>4, <1>5

(* Whatever the numbers of orders, sets and segments, and after any number  *)
(* of crashes: the orders a refresh set inserts are neither in the data set *)
(* nor in another set, and those it deletes are in the data set and deleted *)
(* by no other, up to the set Unit / UPD_PCT at which keys change their     *)
(* generation.                                                              *)
THEOREM RefreshSetsApplyHolds == ASSUME Ordinary PROVE Spec => []RefreshSetsApply
  <1>1. Init => RInv
    <2>1. Init => RangeInv /\ KeysInv
      BY DEF Init, RangeInv, KeysInv
    <2>2. QED
      BY <2>1, InitEstablishes DEF RInv
  <1>2. RInv /\ [Next]_vars => RInv'
    BY Ordinary, StepKeeps, StepFits DEF RInv
  <1>3. RInv => RefreshSetsApply
    BY SetsApply DEF RInv
  <1>4. QED
    BY <1>1, <1>2, <1>3, PTL DEF Spec
-----------------------------------------------------------------------------
(* Completeness: the files of a data set hold each row once.                *)
(*                                                                          *)
(* What a command makes of the rows of a handle h: all of them, or the ones *)
(* of its step; in a refresh set, one file or one for each segment.         *)

Split(o, h) == o.children > 1 /\ ~Whole(h)
Least(a, b) == IF a <= b THEN a ELSE b

\* partial, for a command that need not be the running one.
Piece(o, h) ==
  IF Split(o, h)
  THEN LET n == IF o.step = 0 THEN 0 ELSE Rows(h) \div o.children
       IN  [first |-> n * (o.step - 1) + 1,
            count |-> IF o.step = o.children THEN n + (Rows(h) % o.children) ELSE n]
  ELSE [first |-> 1, count |-> Rows(h)]

\* How many rows of a refresh set are in its first j segments.
Segs(o, h) == IF h = "DELETE" THEN o.delete_segments ELSE o.insert_segments
Each(o) == UpdateRows \div o.insert_segments
Residual(o) == UpdateRows - Each(o) * o.insert_segments
Share(o) == UpdateRows \div o.delete_segments + 1
SegStart(o, h, j) == IF h = "DELETE" THEN Least(j * Share(o), UpdateRows)
                     ELSE j * Each(o) + Least(j, Residual(o))

\* How many rows of a table are in its first s chunks.
ChunkStart(o, h, s) ==
  IF s = o.children THEN Rows(h) ELSE s * (Rows(h) \div o.children)

\* The files that a command makes, and where the rows of each begin.
Name(o, h, k, j) == [of |-> h, step |-> IF Split(o, h) THEN o.step ELSE 0, set |-> k, seg |-> j]
Makes(o, f) ==
  /\ f.of \in HandlesOf(o) /\ f.set \in SetsOf(o)
  /\ f.seg \in (IF Segs(o, f.of) = 0 THEN {0} ELSE 1..Segs(o, f.of))
  /\ f = Name(o, f.of, f.set, f.seg)

Base(o, h, k) == IF o.updates > 0 THEN (k - 1) * UpdateRows ELSE Piece(o, h).first - 1
Total(o, h) == IF o.updates > 0 THEN UpdateRows ELSE Piece(o, h).count
First(o, f) == Base(o, f.of, f.set) + (IF f.seg = 0 THEN 0 ELSE SegStart(o, f.of, f.seg - 1))
Size(o, f) == IF f.seg = 0 THEN Total(o, f.of)
              ELSE SegStart(o, f.of, f.seg) - SegStart(o, f.of, f.seg - 1)

(* The first refresh set of a process is the one that -S names.            *)
StartInv == pc # "shell" /\ opt.updates > 0 /\ opt.step > 0 => upd_num >= opt.step - 1

(* What is in the files: rows of some command of the plan, from its first   *)
(* one on.                                                                  *)
Maker(o, f) == o \in plan /\ Valid(o) /\ Makes(o, f)
Holds(o, f) ==
  /\ Len(files[f]) <= Size(o, f)
  /\ \A n \in DOMAIN files[f] : files[f][n].index = First(o, f) + n
Complete(o, f) == Size(o, f) = 0 \/ (f \in DOMAIN files /\ Len(files[f]) = Size(o, f))

ContentInv ==
  \A f \in DOMAIN files : (\E o : Maker(o, f)) /\ \A o : Maker(o, f) => Holds(o, f)

(* The files of a command that has ended are complete, unless a command     *)
(* that has yet to end makes them again.                                    *)
EndedInv ==
  /\ ended \subseteq plan /\ ended \cap todo = {} /\ (pc # "shell" => opt \notin ended \cup todo)
  /\ \A o \in ended : Valid(o)
  /\ \A o \in ended : \A f : Makes(o, f) =>
       Complete(o, f) \/ \E q : Maker(q, f) /\ q \notin ended

(* The files that the running process has left behind are complete.         *)
SetNow == IF opt.updates > 0 THEN upd_num + 1 ELSE 0
Past(f) ==
  IF opt.updates = 0
  THEN f.of \notin UNION {Handles(t) : t \in left} /\ (pc = "main" \/ f.of \notin Handles(tab))
  ELSE f.set <= upd_num \/ (pc = "drange" /\ f.set = upd_num + 1 /\ f.of # "DELETE")
PastInv ==
  pc # "shell" => \A f : Makes(opt, f) /\ Past(f) => Complete(opt, f)

OpenInv ==
  pc # "shell" =>
    /\ \A h \in Handle : fp[h] = Closed \/ (fp[h].file.of = h /\ Makes(opt, fp[h].file))
    /\ opt.updates = 0 => \A t \in left : \A h \in Handles(t) : fp[h] = Closed
    /\ opt.updates > 0 => \A h \in Handle :
         fp[h] = Closed \/ fp[h].file.set <= (IF pc = "update" THEN upd_num ELSE upd_num + 1)

(* The files that it prints to hold the rows it has made.                   *)
Made(h) == (IF pc = "stop" THEN row ELSE row - 1) - Base(opt, h, SetNow)
Unopened(h) ==
  /\ IF opt.updates = 0 THEN fp[h] = Closed
     ELSE mode = upd_num + 1 /\ (fp[h] = Closed \/ fp[h].file.set <= upd_num)
  /\ opt.insert_segments = 0 \/ segment[Counter(h)] = 0
  /\ rows_this_segment = -1
Filled(h, made) ==
  LET n == opt.insert_segments
      j == IF n = 0 THEN 0 ELSE segment[Counter(h)]
      f == Name(opt, h, SetNow, j)
  IN  /\ fp[h] = [file |-> f, mode |-> mode] /\ f \in DOMAIN files
      /\ n = 0 => mode = SetNow /\ Len(files[f]) = made
      /\ n > 0 => /\ j \in 1..n /\ mode = upd_num + 1 + (j - 1) * Unit
                  /\ made <= SegStart(opt, h, j)
                  /\ Len(files[f]) = rows_this_segment + 1
                  /\ made = SegStart(opt, h, j - 1) + rows_this_segment + 1
                  /\ \A i \in 1..(j - 1) : Complete(opt, Name(opt, h, SetNow, i))
RowInv ==
  pc \in {"row", "stop"} =>
    \A h \in Handles(tab) :
      /\ Made(h) \in Nat
      /\ row + count = Base(opt, h, SetNow) + Total(opt, h) + 1
      /\ IF Made(h) = 0 THEN Unopened(h) ELSE Filled(h, Made(h))

(* The same of the keys that it deletes.                                    *)
DeletesMade == row - 1 - upd_num * UpdateRows
DeleteInv ==
  /\ deletes.per \in Nat /\ deletes.this \in Nat /\ segment["delete"] \in Nat
  /\ pc \in {"row", "stop"} /\ opt.updates > 0 => segment["delete"] = 0
  /\ pc # "shell" /\ opt.delete_segments > 0 =>
       deletes.per \in {0, Share(opt)}
  /\ pc = "drange" =>
       LET n == opt.delete_segments
           j == IF n = 0 THEN 0 ELSE segment["delete"]
           f == Name(opt, "DELETE", upd_num + 1, j)
           share == Share(opt)
       IN /\ fp["DELETE"].file = f /\ f \in DOMAIN files
          /\ n = 0 => Len(files[f]) = DeletesMade
          /\ n > 0 => /\ j \in 1..n /\ Len(files[f]) = deletes.this
                      /\ deletes.per = share \/ (deletes.per = 0 /\ DeletesMade = 0)
                      /\ DeletesMade = (j - 1) * share + deletes.this /\ deletes.this <= share
                      /\ \A i \in 1..(j - 1) : Complete(opt, Name(opt, "DELETE", upd_num + 1, i))

SegmentTypes ==
  /\ segment = [c \in {"insert_orders", "insert_lineitem", "delete"} |-> segment[c]]
  /\ deletes = [per |-> deletes.per, this |-> deletes.this]
  /\ rows_this_segment \in Int

FillInv ==
  /\ StartInv /\ ContentInv /\ EndedInv /\ PastInv /\ OpenInv /\ RowInv /\ DeleteInv
  /\ SegmentTypes

OnceInv == RInv /\ FillInv

\* The plans that the theorems are about.
OneDataSet == \A p \in Plans : MakesOneDataSet(p)

LEMMA LeastNumber ==
  ASSUME NEW T, T \subseteq Nat, T # {}
  PROVE  \E x \in T : \A y \in T : x <= y
  <1>1. PICK x \in T : \A y \in T : ~ (<<y, x>> \in OpToRel(<, Nat))
    BY NatLessThanWellFounded, WFMin
  <1>2. \A y \in T : ~ (y < x)
    BY <1>1, <<x, x>>[1] = x DEF OpToRel
  <1>3. QED
    BY <1>2

-----------------------------------------------------------------------------
(* Dividing rows *)

(* The segments of a refresh set begin at its first row and end at its last.*)
LEMMA SegStarts ==
  ASSUME NEW o \in Command, NEW h, Segs(o, h) > 0
  PROVE  /\ Segs(o, h) \in Nat
         /\ SegStart(o, h, 0) = 0 /\ SegStart(o, h, Segs(o, h)) = UpdateRows
         /\ \A i \in 0..Segs(o, h) : SegStart(o, h, i) \in Nat
         /\ \A i, j \in 0..Segs(o, h) : i <= j => SegStart(o, h, i) <= SegStart(o, h, j)
  <1>1. Segs(o, h) \in Nat
    BY DEF Segs, Command
  <1>2. PICK n \in Nat, u \in Nat : n = Segs(o, h) /\ u = UpdateRows /\ n # 0
    BY <1>1, ConstantsAreNatural
  <1>3. PICK q, r \in Nat : q = u \div n /\ u = n * q + r /\ r < n
    <2>1. u \div n \in Nat /\ u = n * (u \div n) + (u % n) /\ u % n \in 0..(n - 1)
      BY <1>2, Divides
    <2>2. u % n \in Nat /\ u % n < n
      BY <2>1, <1>2
    <2>3. QED
      BY <2>1, <2>2
  <1>4. CASE h = "DELETE"
    <2>1. \A j : SegStart(o, h, j) = Least(j * (q + 1), u)
      BY <1>2, <1>3, <1>4 DEF SegStart, Segs, Share
    <2>2. PICK p \in Nat : p = q + 1
      BY <1>3
    <2>3. n * p >= u
      BY <1>3, <2>2
    <2>4. \A j \in Nat : j * p \in Nat
      BY Products
    <2>5. \A i, j \in Nat : i <= j => i * p <= j * p
      BY Products
    <2>6. 0 * p = 0 /\ n \in Nat /\ u \in Nat
      OBVIOUS
    <2>7. \A j : SegStart(o, h, j) = IF j * p <= u THEN j * p ELSE u
      BY <2>1, <2>2 DEF Least
    <2>8. SegStart(o, h, 0) = 0
      BY ONLY <2>6, <2>7
    <2>9. SegStart(o, h, n) = u
      BY <2>3, <2>4, <2>7
    <2>10. \A i \in 0..n : SegStart(o, h, i) \in Nat
      BY <2>4, <2>7
    <2>11. \A i, j \in 0..n : i <= j => SegStart(o, h, i) <= SegStart(o, h, j)
      <3> SUFFICES ASSUME NEW i \in 0..n, NEW j \in 0..n, i <= j
                   PROVE  SegStart(o, h, i) <= SegStart(o, h, j)
        OBVIOUS
      <3>1. PICK x \in Nat, y \in Nat : x = i * p /\ y = j * p /\ x <= y
        BY <2>4, <2>5
      <3>2. QED
        BY <2>7, <3>1
    <2>12. QED
      BY <1>2, <2>8, <2>9, <2>10, <2>11
  <1>5. CASE h # "DELETE"
    <2>1. u - (q * n) = r
      BY <1>3
    <2>2. \A j : SegStart(o, h, j) = j * q + (IF j <= r THEN j ELSE r)
      BY <1>2, <1>3, <1>5, <2>1 DEF SegStart, Segs, Least, Each, Residual
    <2>3. \A j \in Nat : j * q \in Nat
      BY Products
    <2>4. \A i, j \in Nat : i <= j => i * q <= j * q
      BY Products
    <2>5. 0 * q = 0 /\ 0 <= r
      OBVIOUS
    <2>6. SegStart(o, h, 0) = 0
      BY <2>2, <2>5
    <2>7. SegStart(o, h, n) = u
      <3>1. SegStart(o, h, n) = n * q + (IF n <= r THEN n ELSE r)
        BY <2>2
      <3>2. ~(n <= r)
        BY <1>3
      <3>3. QED
        BY <1>3, <3>1, <3>2
    <2>8. \A i \in 0..n : SegStart(o, h, i) \in Nat
      BY <2>2, <2>3
    <2>9. \A i, j \in 0..n : i <= j => SegStart(o, h, i) <= SegStart(o, h, j)
      <3> SUFFICES ASSUME NEW i \in 0..n, NEW j \in 0..n, i <= j
                   PROVE  SegStart(o, h, i) <= SegStart(o, h, j)
        OBVIOUS
      <3>1. PICK x \in Nat, y \in Nat : x = i * q /\ y = j * q /\ x <= y
        BY <2>3, <2>4
      <3>2. QED
        BY <2>2, <3>1
    <2>10. QED
      BY <1>2, <2>6, <2>7, <2>8, <2>9
  <1>6. QED
    BY <1>4, <1>5

(* So do the chunks of a table.                                             *)
LEMMA ChunkStarts ==
  ASSUME NEW o \in Command, NEW h \in Table
  PROVE  /\ o.children \in Nat \ {0}
         /\ ChunkStart(o, h, 0) = 0 /\ ChunkStart(o, h, o.children) = Rows(h)
         /\ \A s \in 0..o.children : ChunkStart(o, h, s) \in Nat
         /\ \A s, t \in 0..o.children : s <= t => ChunkStart(o, h, s) <= ChunkStart(o, h, t)
  <1>1. PICK n \in Nat, u \in Nat : n = o.children /\ u = Rows(h) /\ n # 0
    BY ConstantsAreNatural DEF Command
  <1>2. PICK q, r \in Nat : q = u \div n /\ u = n * q + r /\ r < n
    <2>1. u \div n \in Nat /\ u = n * (u \div n) + (u % n) /\ u % n \in 0..(n - 1)
      BY <1>1, Divides
    <2>2. u % n \in Nat /\ u % n < n
      BY <2>1, <1>1
    <2>3. QED
      BY <2>1, <2>2
  <1>3. \A s : ChunkStart(o, h, s) = IF s = n THEN u ELSE s * q
    BY <1>1, <1>2 DEF ChunkStart
  <1>4. \A s \in Nat : s * q \in Nat
    BY Products
  <1>5. \A s, t \in Nat : s <= t => s * q <= t * q
    BY Products
  <1>6. 0 * q = 0
    OBVIOUS
  <1>7. \A s \in 0..n : s * q <= u
    <2> SUFFICES ASSUME NEW s \in 0..n PROVE s * q <= u
      OBVIOUS
    <2>1. PICK x \in Nat, y \in Nat : x = s * q /\ y = n * q /\ x <= y
      BY <1>4, <1>5
    <2>2. QED
      BY <1>2, <2>1
  <1>8. ChunkStart(o, h, 0) = 0 /\ ChunkStart(o, h, n) = u
    BY <1>1, <1>3, <1>6
  <1>9. \A s \in 0..n : ChunkStart(o, h, s) \in Nat
    BY <1>3, <1>4
  <1>10. \A s, t \in 0..n : s <= t => ChunkStart(o, h, s) <= ChunkStart(o, h, t)
    <2> SUFFICES ASSUME NEW s \in 0..n, NEW t \in 0..n, s <= t
                 PROVE  ChunkStart(o, h, s) <= ChunkStart(o, h, t)
      OBVIOUS
    <2>1. PICK x \in Nat, y \in Nat : x = s * q /\ y = t * q /\ x <= y /\ x <= u /\ y <= u
      BY <1>4, <1>5, <1>7
    <2>2. QED
      BY <1>3, <2>1
  <1>11. QED
    BY <1>1, <1>8, <1>9, <1>10

(* A chunk is made of the rows between two starts.                          *)
LEMMA PieceIsChunk ==
  ASSUME NEW o \in Command, NEW h \in Table, Split(o, h), o.step \in 1..o.children
  PROVE  /\ Piece(o, h).first = ChunkStart(o, h, o.step - 1) + 1
         /\ Piece(o, h).count = ChunkStart(o, h, o.step) - ChunkStart(o, h, o.step - 1)
  <1>1. PICK n \in Nat, u \in Nat : n = o.children /\ u = Rows(h) /\ n # 0
    BY ConstantsAreNatural DEF Command
  <1>2. PICK q, r \in Nat : q = u \div n /\ u = n * q + r /\ r = u % n /\ r < n
    <2>1. u \div n \in Nat /\ u = n * (u \div n) + (u % n) /\ u % n \in 0..(n - 1)
      BY <1>1, Divides
    <2>2. u % n \in Nat /\ u % n < n
      BY <2>1, <1>1
    <2>3. QED
      BY <2>1, <2>2
  <1>3. PICK s \in Nat : o.step = s + 1 /\ s < n
    <2>1. o.step - 1 \in Nat /\ o.step = (o.step - 1) + 1 /\ o.step - 1 < n
      BY <1>1
    <2>2. QED
      BY <2>1
  <1>4. /\ Piece(o, h).first = q * s + 1
        /\ Piece(o, h).count = IF s + 1 = n THEN q + r ELSE q
    <2>1. o.step # 0 /\ o.step - 1 = s
      BY <1>3
    <2>2. QED
      BY <1>1, <1>2, <1>3, <2>1 DEF Piece
  <1>5. ChunkStart(o, h, o.step - 1) = s * q
    BY <1>1, <1>2, <1>3 DEF ChunkStart
  <1>6. ChunkStart(o, h, o.step) = IF s + 1 = n THEN u ELSE (s + 1) * q
    BY <1>1, <1>2, <1>3 DEF ChunkStart
  <1>7. (s + 1) * q = s * q + q /\ q * s = s * q /\ s * q \in Nat
    BY Products
  <1>8. s + 1 = n => u = (s * q + q) + r
    BY <1>2, <1>7
  <1>9. QED
    BY <1>4, <1>5, <1>6, <1>7, <1>8

(* A number below the end of consecutive parts is in exactly one of them.   *)
LEMMA OnePart ==
  ASSUME NEW n \in Nat \ {0}, NEW C \in [0..n -> Nat], C[0] = 0,
         \A i, j \in 0..n : i <= j => C[i] <= C[j], NEW x \in 1..C[n]
  PROVE  /\ \E j \in 1..n : C[j - 1] < x /\ x <= C[j]
         /\ \A i, j \in 1..n : C[i - 1] < x /\ x <= C[i] /\ C[j - 1] < x /\ x <= C[j] => i = j
  <1>1. \E j \in 1..n : C[j - 1] < x /\ x <= C[j]
    <2> DEFINE Far == {j \in 0..n : x <= C[j]}
    <2>1. Far \subseteq Nat /\ n \in Far
      OBVIOUS
    <2>2. PICK j \in Far : \A y \in Far : j <= y
      <3> HIDE DEF Far
      <3>1. QED
        BY <2>1, LeastNumber
    <2>3. j \in 0..n /\ x <= C[j] /\ j # 0
      BY <2>2
    <2>4. j - 1 \in 0..n /\ ~(j <= j - 1) /\ C[j - 1] \in Nat
      BY <2>3
    <2>5. j - 1 \notin Far
      <3> HIDE DEF Far
      <3>1. QED
        BY <2>2, <2>4
    <2>6. ~(x <= C[j - 1])
      BY <2>4, <2>5
    <2>7. QED
      BY <2>3, <2>4, <2>6
  <1>2. ASSUME NEW i \in 1..n, NEW j \in 1..n, i < j, C[j - 1] < x, x <= C[i] PROVE FALSE
    <2>1. i \in 0..n /\ j - 1 \in 0..n /\ i <= j - 1
      BY <1>2
    <2>2. C[i] <= C[j - 1] /\ C[i] \in Nat /\ C[j - 1] \in Nat
      BY <2>1
    <2>3. QED
      BY <1>2, <2>2
  <1>3. ASSUME NEW i \in 1..n, NEW j \in 1..n, C[i - 1] < x, x <= C[i], C[j - 1] < x, x <= C[j]
        PROVE  i = j
    <2>1. ~(i < j) /\ ~(j < i)
      BY <1>2, <1>3
    <2>2. QED
      BY <2>1
  <1>4. QED
    BY <1>1, <1>3

-----------------------------------------------------------------------------
(* The files of a command *)

LEMMA HandlesAreTables ==
  /\ Handle \ {"DELETE"} \subseteq Table
  /\ \A h \in Handle : Whole(h) => h \in {"NATION", "REGION"}
  BY DEF Handle, Table, Whole

(* The files of a table come in one piece or in chunks, those of a refresh  *)
(* set in one piece or in segments.                                         *)
LEMMA FileOfTable ==
  ASSUME NEW o \in Command, Valid(o), o.updates = 0, NEW f, Makes(o, f)
  PROVE  /\ f.of \in Handle \ {"DELETE"} /\ f.of \in Table
         /\ \E t \in TablesOf(o.T) : f.of \in Handles(t)
         /\ f.set = 0 /\ f.seg = 0 /\ f = Name(o, f.of, 0, 0)
         /\ o.insert_segments = 0 /\ o.delete_segments = 0
  <1>1. o.insert_segments = 0 /\ o.delete_segments = 0
    BY DEF Valid
  <1>2. PICK t \in TablesOf(o.T) : f.of \in Handles(t)
    BY DEF Makes, HandlesOf
  <1>3. t \in Table
    BY TablesAreTables DEF Command
  <1>4. f.of \in Handle \ {"DELETE"}
    BY <1>2, <1>3, HandlesPrint
  <1>5. Segs(o, f.of) = 0
    BY <1>1 DEF Segs
  <1>6. f.set = 0 /\ f.seg = 0 /\ f = Name(o, f.of, f.set, f.seg)
    BY <1>5 DEF Makes, SetsOf
  <1>7. QED
    BY <1>1, <1>2, <1>4, <1>6, HandlesAreTables

LEMMA FileOfSet ==
  ASSUME NEW o \in Command, Valid(o), o.updates > 0, NEW f, Makes(o, f)
  PROVE  /\ f.of \in {"ORDER", "LINE", "DELETE"} /\ o.children = 1
         /\ f.set \in Nat \ {0} /\ f.set \in SetsOf(o)
         /\ f.seg \in (IF Segs(o, f.of) = 0 THEN {0} ELSE 1..Segs(o, f.of))
         /\ Segs(o, f.of) \in Nat
         /\ f = [of |-> f.of, step |-> 0, set |-> f.set, seg |-> f.seg]
  <1>1. o.updates # 0 /\ o.updates \in Nat /\ o.step \in Int
    BY DEF Command
  <1>2. o.children = 1
    BY <1>1 DEF Valid
  <1>3. f.of \in {"ORDER", "LINE", "DELETE"}
    BY <1>1 DEF Makes, HandlesOf
  <1>4. f.set \in SetsOf(o)
    BY DEF Makes
  <1>5. f.set \in Nat \ {0}
    <2>1. f.set \in (IF o.step > 0 THEN o.step ELSE 1)..o.updates
      BY <1>1, <1>4 DEF SetsOf
    <2>2. QED
      BY <1>1, <2>1
  <1>6. f = [of |-> f.of, step |-> 0, set |-> f.set, seg |-> f.seg]
    <2>1. ~Split(o, f.of)
      BY <1>2 DEF Split
    <2>2. QED
      BY <2>1 DEF Makes, Name
  <1>7. Segs(o, f.of) \in Nat
    BY DEF Segs, Command
  <1>8. QED
    BY <1>2, <1>3, <1>4, <1>5, <1>6, <1>7 DEF Makes

LEMMA PieceIsNatural ==
  ASSUME NEW o \in Command, Valid(o), NEW h \in Table
  PROVE  Piece(o, h).first \in Nat \ {0} /\ Piece(o, h).count \in Nat
  <1>1. Rows(h) \in Nat /\ o.children \in Nat \ {0}
    BY ConstantsAreNatural DEF Command
  <1>2. CASE ~Split(o, h)
    BY <1>1, <1>2 DEF Piece
  <1>3. CASE Split(o, h)
    <2>1. o.step \in Nat
      <3>1. o.children # 1
        BY <1>1, <1>3 DEF Split
      <3>2. o.step # -1 /\ o.step \in Nat \cup {-1}
        BY <3>1 DEF Valid, Command
      <3>3. QED
        BY <3>2
    <2>2. PICK q \in Nat, r \in Nat : q = Rows(h) \div o.children /\ r = Rows(h) % o.children
      <3>1. Rows(h) \div o.children \in Nat /\ Rows(h) % o.children \in 0..(o.children - 1)
        BY <1>1, Divides
      <3>2. QED
        BY <1>1, <3>1
    <2>3. CASE o.step = 0
      <3>1. 0 * (0 - 1) + 1 = 1 /\ 0 # o.children
        BY <1>1
      <3>2. QED
        BY <1>3, <2>3, <3>1 DEF Piece
    <2>4. CASE o.step # 0
      <3>1. PICK s \in Nat : s = o.step - 1
        BY <2>1, <2>4
      <3>2. q * s \in Nat
        BY Products
      <3>3. /\ Piece(o, h).first = q * s + 1
            /\ Piece(o, h).count = IF o.step = o.children THEN q + r ELSE q
        BY <1>3, <2>2, <2>4, <3>1 DEF Piece
      <3>4. QED
        BY <3>2, <3>3
    <2>5. QED
      BY <2>3, <2>4
  <1>4. QED
    BY <1>2, <1>3

(* Where the rows of a file begin, and how many it is to hold.              *)
LEMMA SizesAreNatural ==
  ASSUME NEW o \in Command, Valid(o), NEW f, Makes(o, f)
  PROVE  First(o, f) \in Nat /\ Size(o, f) \in Nat
  <1>1. o.updates \in Nat
    BY DEF Command
  <1>2. CASE o.updates = 0
    <2>1. f.of \in Table /\ f.seg = 0
      BY <1>2, FileOfTable
    <2>2. Piece(o, f.of).first \in Nat \ {0} /\ Piece(o, f.of).count \in Nat
      BY <2>1, PieceIsNatural
    <2>3. First(o, f) = (Piece(o, f.of).first - 1) + 0 /\ Size(o, f) = Piece(o, f.of).count
      BY <1>2, <2>1 DEF First, Size, Base, Total
    <2>4. QED
      BY <2>2, <2>3
  <1>3. CASE o.updates > 0
    <2>1. f.set \in Nat \ {0} /\ Segs(o, f.of) \in Nat
          /\ f.seg \in (IF Segs(o, f.of) = 0 THEN {0} ELSE 1..Segs(o, f.of))
      BY <1>3, FileOfSet
    <2>2. PICK u \in Nat, k \in Nat : u = UpdateRows /\ k = f.set - 1
      <3>1. f.set - 1 \in Nat /\ UpdateRows \in Nat
        BY <2>1, ConstantsAreNatural
      <3>2. QED
        BY <3>1
    <2>3. PICK b \in Nat : b = k * u
      BY Products
    <2>4. Base(o, f.of, f.set) = b /\ Total(o, f.of) = u
      BY <1>3, <2>2, <2>3 DEF Base, Total
    <2>5. CASE f.seg = 0
      <3>1. First(o, f) = b + 0 /\ Size(o, f) = u
        BY <2>4, <2>5 DEF First, Size
      <3>2. QED
        BY <3>1
    <2>6. CASE f.seg # 0
      <3>1. PICK n \in Nat : n = Segs(o, f.of)
        BY <2>1
      <3>2. n > 0 /\ f.seg \in 1..n
        BY <2>1, <2>6, <3>1
      <3>3. f.seg - 1 \in 0..n /\ f.seg \in 0..n /\ f.seg - 1 <= f.seg
        BY <3>2
      <3>4. PICK x \in Nat, y \in Nat :
              x = SegStart(o, f.of, f.seg - 1) /\ y = SegStart(o, f.of, f.seg) /\ x <= y
        BY <3>1, <3>2, <3>3, SegStarts
      <3>5. First(o, f) = b + x /\ Size(o, f) = y - x
        BY <2>4, <2>6, <3>4 DEF First, Size
      <3>6. QED
        BY <3>4, <3>5
    <2>7. QED
      BY <2>5, <2>6
  <1>4. QED
    BY <1>1, <1>2, <1>3

(* Two commands of a plan that make the same file make it of the same rows. *)
LEMMA MakersAgree ==
  ASSUME OneDataSet, NEW p \in Plans, NEW o \in p, NEW q \in p, Valid(o), Valid(q),
         NEW f, Makes(o, f), Makes(q, f)
  PROVE  First(o, f) = First(q, f) /\ Size(o, f) = Size(q, f)
  <1>0. o \in Command /\ q \in Command /\ o.updates \in Nat /\ q.updates \in Nat
    BY PlansAssumption DEF Command
  <1>1. CASE o.updates = 0 /\ q.updates = 0
    <2>1. PICK h : h = f.of
      OBVIOUS
    <2>2. /\ f.seg = 0 /\ f = Name(o, h, 0, 0) /\ f = Name(q, h, 0, 0)
          /\ h \in HandlesOf(o) /\ h \in HandlesOf(q)
      BY <1>0, <1>1, <2>1, FileOfTable DEF Makes
    <2>3. ~Whole(h) => o.children = q.children
      BY <1>1, <2>2 DEF OneDataSet, MakesOneDataSet
    <2>4. Split(o, h) <=> Split(q, h)
      BY <2>3 DEF Split
    <2>5. Split(o, h) => o.step = q.step /\ o.children = q.children
      <3>1. SUFFICES ASSUME Split(o, h) PROVE o.step = q.step /\ o.children = q.children
        OBVIOUS
      <3>2. Name(o, h, 0, 0).step = o.step /\ Name(q, h, 0, 0).step = q.step
        BY <2>4, <3>1 DEF Name
      <3>3. QED
        BY <2>2, <2>3, <3>1, <3>2 DEF Split
    <2>6. Piece(o, h) = Piece(q, h)
      BY <2>4, <2>5 DEF Piece
    <2>7. Base(o, h, f.set) = Base(q, h, f.set) /\ Total(o, h) = Total(q, h)
      BY <1>1, <2>6 DEF Base, Total
    <2>8. QED
      BY <2>1, <2>2, <2>7 DEF First, Size
  <1>2. CASE o.updates > 0 /\ q.updates > 0
    <2>1. f.set \in SetsOf(o) \cap SetsOf(q)
      BY DEF Makes
    <2>2. o.insert_segments = q.insert_segments /\ o.delete_segments = q.delete_segments
      BY <1>2, <2>1 DEF OneDataSet, MakesOneDataSet
    <2>3. \A j : SegStart(o, f.of, j) = SegStart(q, f.of, j)
      BY <2>2 DEF SegStart, Each, Residual, Share
    <2>4. Base(o, f.of, f.set) = Base(q, f.of, f.set) /\ Total(o, f.of) = Total(q, f.of)
      BY <1>2 DEF Base, Total
    <2>5. QED
      BY <2>3, <2>4 DEF First, Size
  <1>3. CASE o.updates = 0 /\ q.updates > 0
    BY <1>0, <1>3, FileOfTable, FileOfSet
  <1>4. CASE o.updates > 0 /\ q.updates = 0
    BY <1>0, <1>4, FileOfTable, FileOfSet
  <1>5. QED
    BY <1>0, <1>1, <1>2, <1>3, <1>4

(* Rows are added to, or lost from, files of the running command only: then *)
(* the files still hold what their commands make of them.                   *)
LEMMA OnlyItsFiles ==
  ASSUME OneDataSet, plan \in Plans, ContentInv, NEW o \in plan, Valid(o), plan' = plan,
         \A f \in DOMAIN files' :
           \/ f \in DOMAIN files /\ files'[f] = files[f]
           \/ /\ Makes(o, f) /\ Len(files'[f]) <= Size(o, f)
              /\ \A n \in DOMAIN files'[f] : files'[f][n].index = First(o, f) + n
  PROVE  ContentInv'
  <1> SUFFICES ASSUME NEW f \in DOMAIN files'
               PROVE  (\E r : Maker(r, f)') /\ (\A r : Maker(r, f)' => Holds(r, f)')
    BY DEF ContentInv
  <1>1. \A r : Maker(r, f)' <=> Maker(r, f)
    BY DEF Maker
  <1>2. CASE f \in DOMAIN files /\ files'[f] = files[f]
    <2>1. (\E r : Maker(r, f)) /\ \A r : Maker(r, f) => Holds(r, f)
      BY <1>2 DEF ContentInv
    <2>2. \A r : Holds(r, f)' <=> Holds(r, f)
      BY <1>2 DEF Holds
    <2>3. QED
      BY <1>1, <2>1, <2>2
  <1>3. CASE /\ Makes(o, f) /\ Len(files'[f]) <= Size(o, f)
             /\ \A n \in DOMAIN files'[f] : files'[f][n].index = First(o, f) + n
    <2>1. Maker(o, f)
      BY <1>3 DEF Maker
    <2>2. ASSUME NEW r, Maker(r, f) PROVE Holds(r, f)'
      <3>1. First(r, f) = First(o, f) /\ Size(r, f) = Size(o, f)
        BY <1>3, <2>2, MakersAgree DEF Maker
      <3>2. QED
        BY <1>3, <3>1 DEF Holds
    <2>3. QED
      BY <1>1, <2>1, <2>2
  <1>4. QED
    BY <1>2, <1>3

(* The command that is running has not ended, so what it does to its files  *)
(* does not matter to the ones that have.                                   *)
LEMMA EndedKeep ==
  ASSUME EndedInv, NEW o \in plan, Valid(o), o \notin ended, plan' = plan, ended' = ended,
         \A f : Makes(o, f) \/ (f \in DOMAIN files => f \in DOMAIN files' /\ files'[f] = files[f])
  PROVE  /\ ended' \subseteq plan' /\ \A q \in ended' : Valid(q)
         /\ \A q \in ended' : \A f : Makes(q, f) =>
              Complete(q, f)' \/ \E r : Maker(r, f)' /\ r \notin ended'
  <1>1. ended' \subseteq plan' /\ \A q \in ended' : Valid(q)
    BY DEF EndedInv
  <1> SUFFICES ASSUME NEW q \in ended', NEW f, Makes(q, f)
               PROVE  Complete(q, f)' \/ \E r : Maker(r, f)' /\ r \notin ended'
    BY <1>1
  <1>2. \A r : Maker(r, f)' <=> Maker(r, f)
    BY DEF Maker
  <1>3. Complete(q, f) \/ \E r : Maker(r, f) /\ r \notin ended
    BY DEF EndedInv
  <1>4. CASE \E r : Maker(r, f) /\ r \notin ended
    BY <1>2, <1>4
  <1>5. CASE Makes(o, f)
    BY <1>2, <1>5 DEF Maker
  <1>6. CASE Complete(q, f) /\ ~Makes(o, f)
    BY <1>6 DEF Complete
  <1>7. QED
    BY <1>3, <1>4, <1>5, <1>6

LEMMA SameFiles ==
  ASSUME ContentInv, UNCHANGED <<plan, files>>
  PROVE  ContentInv'
  BY DEF ContentInv, Maker, Holds

-----------------------------------------------------------------------------
(* Segments *)

LEMMA Quotients ==
  ASSUME NEW m \in Nat \ {0}, NEW a \in Nat, a < m, NEW c \in Nat
  PROVE  (a + c * m) \div m = c
  <1>1. PICK x \in Nat : x = c * m
    BY Products
  <1>2. PICK q \in Nat, r \in Nat : q = (a + x) \div m /\ a + x = m * q + r /\ r < m
    <2>1. a + x \in Nat
      OBVIOUS
    <2>2. /\ (a + x) \div m \in Nat /\ a + x = m * ((a + x) \div m) + ((a + x) % m)
          /\ (a + x) % m \in 0..(m - 1)
      BY <2>1, Divides
    <2>3. QED
      BY <2>2
  <1>3. PICK e \in Int : e = c - q
    OBVIOUS
  <1>4. m * e = r - a
    BY <1>1, <1>2, <1>3
  <1>5. m * e < m /\ m * e > -m
    BY <1>2, <1>4
  <1>6. e = 0
    BY <1>5
  <1>7. QED
    BY <1>1, <1>2, <1>3, <1>6

(* The first segments of the inserts take one row more than the others.     *)
LEMMA InsertShares ==
  ASSUME NEW o \in Command, NEW h \in {"ORDER", "LINE"}, o.insert_segments > 0
  PROVE  /\ Each(o) \in Nat /\ Residual(o) \in Nat /\ Residual(o) < o.insert_segments
         /\ \A j \in Nat : SegStart(o, h, j) \in Nat
         /\ \A j \in Nat : SegStart(o, h, j + 1) =
                             SegStart(o, h, j) + (IF j < Residual(o) THEN Each(o) + 1 ELSE Each(o))
         /\ \A j \in 0..o.insert_segments : SegStart(o, h, j) < UpdateRows =>
              j < o.insert_segments /\ (Each(o) > 0 \/ j < Residual(o))
  <1>1. PICK n \in Nat \ {0}, u \in Nat : n = o.insert_segments /\ u = UpdateRows
    BY ConstantsAreNatural DEF Command
  <1>2. PICK q \in Nat, r \in Nat : q = u \div n /\ u = n * q + r /\ r < n
    <2>1. u \div n \in Nat /\ u = n * (u \div n) + (u % n) /\ u % n \in 0..(n - 1)
      BY Divides
    <2>2. QED
      BY <2>1
  <1>3. Each(o) = q /\ Residual(o) = r
    <2>1. u - q * n = r
      BY <1>2
    <2>2. QED
      BY <1>1, <1>2, <2>1 DEF Each, Residual
  <1>4. \A j : SegStart(o, h, j) = j * q + (IF j <= r THEN j ELSE r)
    BY <1>3 DEF SegStart, Least
  <1>5. \A j \in Nat : j * q \in Nat /\ (j + 1) * q = j * q + q
    BY Products
  <1>6. ASSUME NEW j \in Nat
        PROVE  /\ SegStart(o, h, j) \in Nat
               /\ SegStart(o, h, j + 1) = SegStart(o, h, j) + (IF j < r THEN q + 1 ELSE q)
    <2>1. PICK x \in Nat : x = j * q /\ (j + 1) * q = x + q
      BY <1>5
    <2>2. SegStart(o, h, j) = x + (IF j <= r THEN j ELSE r)
      BY <1>4, <2>1
    <2>3. SegStart(o, h, j + 1) = (x + q) + (IF j + 1 <= r THEN j + 1 ELSE r)
      BY <1>4, <2>1
    <2>4. QED
      BY <2>2, <2>3
  <1>7. ASSUME NEW j \in 0..n, SegStart(o, h, j) < u
        PROVE  j < n /\ (q > 0 \/ j < r)
    <2>1. SegStart(o, h, j) = j * q + (IF j <= r THEN j ELSE r)
      BY <1>4
    <2>2. CASE j = n
      <3>1. ~(n <= r) /\ n * q \in Nat
        BY <1>2, Products
      <3>2. SegStart(o, h, n) = n * q + r
        BY <1>4, <3>1
      <3>3. QED
        BY <1>2, <1>7, <2>2, <3>1, <3>2
    <2>3. CASE q = 0
      <3>1. u = r /\ j * q = 0
        BY <1>2, <2>3
      <3>2. QED
        BY <1>2, <1>7, <2>1, <3>1
    <2>4. QED
      BY <2>2, <2>3
  <1>8. QED
    BY <1>1, <1>2, <1>3, <1>6, <1>7

(* The segments of the deletes have an equal share, the last what is left.  *)
LEMMA DeleteShares ==
  ASSUME NEW o \in Command, o.delete_segments > 0
  PROVE  /\ Share(o) \in Nat \ {0} /\ o.delete_segments * Share(o) >= UpdateRows
         /\ \A j \in Nat : /\ j * Share(o) \in Nat /\ (j + 1) * Share(o) = j * Share(o) + Share(o)
                           /\ SegStart(o, "DELETE", j) =
                                IF j * Share(o) <= UpdateRows THEN j * Share(o) ELSE UpdateRows
  <1>1. PICK n \in Nat \ {0}, u \in Nat : n = o.delete_segments /\ u = UpdateRows
    BY ConstantsAreNatural DEF Command
  <1>2. PICK q \in Nat, r \in Nat : q = u \div n /\ u = n * q + r /\ r < n
    <2>1. u \div n \in Nat /\ u = n * (u \div n) + (u % n) /\ u % n \in 0..(n - 1)
      BY Divides
    <2>2. QED
      BY <2>1
  <1>3. PICK p \in Nat : p = q + 1 /\ p = Share(o)
    BY <1>1, <1>2 DEF Share
  <1>4. n * p >= u
    BY <1>2, <1>3
  <1>5. \A j \in Nat : j * p \in Nat /\ (j + 1) * p = j * p + p
    BY Products
  <1>6. \A j : SegStart(o, "DELETE", j) = IF j * p <= u THEN j * p ELSE u
    BY <1>1, <1>3 DEF SegStart, Least
  <1>7. p # 0
    BY <1>3
  <1>8. QED
    BY <1>1, <1>2, <1>3, <1>4, <1>5, <1>6, <1>7

-----------------------------------------------------------------------------
(* The file that a row is printed to *)

(* What gen_tbl knows when it makes a row.                                  *)
LEMMA AtRow ==
  ASSUME OnceInv, Ordinary, pc \in {"row", "stop"}, NEW h \in Handles(tab)
  PROVE  /\ opt \in Command /\ Valid(opt) /\ tab \in Table /\ h \in Handle \ {"DELETE"} /\ h \in Table
         /\ opt.updates \in Nat /\ opt.insert_segments \in Nat /\ Unit \in Nat \ {0}
         /\ row \in Nat /\ count \in Nat /\ upd_num \in Nat /\ mode \in Nat
         /\ opt.updates = 0 => opt.insert_segments = 0 /\ SetNow = 0 /\ mode = 0
                                 /\ tab \in TablesOf(opt.T) /\ h \in HandlesOf(opt)
         /\ opt.updates > 0 => /\ tab = "ORDER_LINE" /\ h \in {"ORDER", "LINE"} /\ opt.children = 1
                               /\ SetNow = upd_num + 1 /\ mode % Unit = upd_num + 1
                               /\ upd_num < opt.updates /\ upd_num + 1 < Unit
                               /\ UpdateRows = Total(opt, h)
  <1>1. /\ opt \in Command /\ Valid(opt) /\ opt.updates \in Nat /\ opt.updates < Unit
        /\ opt.T \in Letter
    BY CommandKnown DEF OnceInv, RInv
  <1>2. tab \in Table
    BY TabIsTable DEF OnceInv, RInv
  <1>3. h \in Handle \ {"DELETE"} /\ h \in Table
    BY <1>2, HandlesPrint, HandlesAreTables
  <1>4. row \in Nat /\ count \in Nat /\ upd_num \in Nat
    BY DEF OnceInv, RInv, IInv, CountInv
  <1>5. opt.insert_segments \in Nat /\ opt.children \in Nat \ {0} /\ Unit \in Nat \ {0}
    BY <1>1, DbgenAssumption DEF Command
  <1>6. CASE opt.updates = 0
    <2>1. opt.insert_segments = 0
      BY <1>1, <1>6 DEF Valid
    <2>2. tab \in TablesOf(opt.T) /\ mode = 0
      BY <1>6 DEF OnceInv, RInv, IInv, TableInv
    <2>3. h \in HandlesOf(opt)
      BY <1>6, <2>2 DEF HandlesOf
    <2>4. QED
      BY <1>1, <1>2, <1>3, <1>4, <1>5, <1>6, <2>1, <2>2, <2>3 DEF SetNow
  <1>7. CASE opt.updates > 0
    <2>1. /\ tab = "ORDER_LINE" /\ mode \in Nat /\ mode % Unit = upd_num + 1
          /\ upd_num < opt.updates
      BY <1>7 DEF OnceInv, RInv, IInv, UpdateInv
    <2>2. h \in {"ORDER", "LINE"}
      BY <2>1 DEF Handles, Loader
    <2>3. opt.children = 1
      BY <1>1, <1>5, <1>7 DEF Valid
    <2>4. SetNow = upd_num + 1 /\ UpdateRows = Total(opt, h)
      BY <1>7 DEF SetNow, Total
    <2>5. upd_num + 1 < Unit
      BY <1>1, <1>4, <1>5, <2>1
    <2>6. QED
      BY <1>1, <1>2, <1>3, <1>4, <1>5, <1>7, <2>1, <2>2, <2>3, <2>4, <2>5
  <1>8. QED
    BY <1>1, <1>6, <1>7

(* How many rows have been made and are to be made.                         *)
LEMMA AtCount ==
  ASSUME OnceInv, Ordinary, pc \in {"row", "stop"}, NEW h \in Handles(tab)
  PROVE  /\ Made(h) \in Nat /\ Total(opt, h) \in Nat /\ Base(opt, h, SetNow) \in Nat
         /\ row + count = Base(opt, h, SetNow) + Total(opt, h) + 1
         /\ pc = "row" => row = Base(opt, h, SetNow) + Made(h) + 1 /\ Made(h) + count = Total(opt, h)
         /\ pc = "stop" => row = Base(opt, h, SetNow) + Made(h)
         /\ IF Made(h) = 0 THEN Unopened(h) ELSE Filled(h, Made(h))
  <1>1. /\ Made(h) \in Nat
        /\ row + count = Base(opt, h, SetNow) + Total(opt, h) + 1
        /\ IF Made(h) = 0 THEN Unopened(h) ELSE Filled(h, Made(h))
    BY DEF OnceInv, FillInv, RowInv
  <1>2. row \in Nat /\ count \in Nat
    BY AtRow
  <1>3. Total(opt, h) \in Nat /\ Base(opt, h, SetNow) \in Nat
    <2>1. CASE opt.updates > 0
      <3>1. SetNow - 1 = upd_num /\ upd_num \in Nat /\ UpdateRows \in Nat
        BY <2>1, AtRow, ConstantsAreNatural
      <3>2. QED
        BY <2>1, <3>1, Products DEF Total, Base
    <2>2. CASE ~(opt.updates > 0)
      <3>1. Piece(opt, h).first \in Nat \ {0} /\ Piece(opt, h).count \in Nat
        BY AtRow, PieceIsNatural
      <3>2. QED
        BY <2>2, <3>1 DEF Total, Base
    <2>3. QED
      BY <2>1, <2>2
  <1>4. /\ pc = "row" => Made(h) = (row - 1) - Base(opt, h, SetNow)
        /\ pc = "stop" => Made(h) = row - Base(opt, h, SetNow)
    BY DEF Made
  <1>5. QED
    BY <1>1, <1>2, <1>3, <1>4

(* What a row of handle h is added to when gen_tbl goes on with m.          *)
Begins(h, m, j, q) ==
  /\ File(h, m) = Name(opt, h, SetNow, j) /\ (Opens(h, m) \/ File(h, m) \in DOMAIN files)
  /\ q = IF Opens(h, m) THEN <<>> ELSE files[File(h, m)]
  /\ opt.insert_segments = 0 => j = 0 /\ m = SetNow /\ Len(q) = Made(h)
  /\ opt.insert_segments > 0 =>
       /\ j \in 1..opt.insert_segments
       /\ j = segment[Counter(h)] + (IF Opens(h, m) THEN 1 ELSE 0)
       /\ m = upd_num + 1 + (j - 1) * Unit
       /\ Made(h) + 1 <= SegStart(opt, h, j)
       /\ Len(q) = NextSegment.rows
       /\ Made(h) = SegStart(opt, h, j - 1) + Len(q)
       /\ \A i \in 1..(j - 1) : Complete(opt, Name(opt, h, SetNow, i))

LEMMA FileNamed ==
  ASSUME OnceInv, Ordinary, pc = "row", NEW h \in Handles(tab),
         NEW m, m % Unit = mode % Unit
  PROVE  print_prep(h, m) =
           Name(opt, h, SetNow, IF opt.insert_segments = 0 THEN 0 ELSE segment[Counter(h)] + 1)
  <1>1. m % Unit = SetNow
    <2>1. CASE opt.updates = 0
      <3>1. mode = 0 /\ SetNow = 0 /\ 0 % Unit = 0
        BY <2>1, AtRow
      <3>2. QED
        BY <3>1
    <2>2. CASE opt.updates > 0
      BY <2>2, AtRow
    <2>3. QED
      BY <2>1, <2>2, AtRow
  <1>2. Segmented(h) <=> opt.insert_segments # 0
    BY AtRow DEF Segmented
  <1>3. QED
    BY <1>1, <1>2 DEF print_prep, Name, Split

(* The first row of a table, or of a refresh set, opens a file.             *)
LEMMA FirstOpens ==
  ASSUME OnceInv, Ordinary, pc = "row", NEW h \in Handles(tab), Made(h) = 0,
         NEW m, m = mode
  PROVE  Opens(h, m)
  <1>1. Unopened(h)
    BY AtCount
  <1>2. CASE opt.updates = 0
    BY <1>1, <1>2 DEF Unopened, Opens
  <1>3. CASE opt.updates > 0
    <2>1. fp[h] = Closed \/ fp[h].file.set <= upd_num
      BY <1>1, <1>3, AtRow DEF Unopened
    <2>2. fp[h] = Closed \/ fp[h].file.set = fp[h].mode % Unit
      BY AtRow DEF OnceInv, RInv, IInv, FpInv
    <2>3. mode % Unit = upd_num + 1 /\ h \in {"ORDER", "LINE"} /\ upd_num \in Nat
      BY <1>3, AtRow
    <2>4. fp[h] = Closed \/ fp[h].mode # mode
      BY <2>1, <2>2, <2>3
    <2>5. QED
      BY <2>3, <2>4 DEF Opens
  <1>4. QED
    BY <1>2, <1>3, AtRow

LEMMA OthersAppend ==
  ASSUME OnceInv, Ordinary, pc = "row", NEW h \in Handles(tab), Made(h) # 0
  PROVE  /\ ~Opens(h, mode) /\ fp[h] # Closed
         /\ opt.insert_segments > 0 => \A m : m # mode => Opens(h, m)
         /\ File(h, mode) = Name(opt, h, SetNow, IF opt.insert_segments = 0 THEN 0 ELSE segment[Counter(h)])
         /\ File(h, mode) \in DOMAIN files
  <1>1. PICK f : f = Name(opt, h, SetNow, IF opt.insert_segments = 0 THEN 0 ELSE segment[Counter(h)])
    OBVIOUS
  <1>2. fp[h] = [file |-> f, mode |-> mode] /\ f \in DOMAIN files
    BY <1>1, AtCount DEF Filled
  <1>3. f.of = h /\ h # "none"
    BY <1>1, AtRow DEF Name, Handle
  <1>4. fp[h] # Closed
    BY <1>2, <1>3 DEF Closed
  <1>5. ~Opens(h, mode)
    BY <1>2, <1>4 DEF Opens
  <1>6. opt.insert_segments > 0 => h \in {"ORDER", "LINE"}
    BY AtRow
  <1>7. QED
    BY <1>1, <1>2, <1>4, <1>5, <1>6 DEF Opens, File

LEMMA NextInPiece ==
  ASSUME OnceInv, Ordinary, pc = "row", NEW h \in Handles(tab), opt.insert_segments = 0
  PROVE  \E q : Begins(h, NextSegment.mode, 0, q)
  <1>1. PICK m : m = NextSegment.mode /\ m = mode
    BY DEF NextSegment
  <1>2. PICK q : q = IF Opens(h, m) THEN <<>> ELSE files[File(h, m)]
    OBVIOUS
  <1>3. CASE Made(h) = 0
    <2>1. Opens(h, m)
      BY <1>1, <1>3, FirstOpens
    <2>2. File(h, m) = Name(opt, h, SetNow, 0)
      BY <1>1, <2>1, FileNamed DEF File
    <2>3. m = SetNow
      <3>1. Unopened(h)
        BY <1>3, AtCount
      <3>2. QED
        BY <1>1, <3>1, AtRow DEF Unopened
    <2>4. Len(q) = Made(h)
      BY <1>2, <1>3, <2>1
    <2>5. QED
      BY <1>1, <1>2, <2>1, <2>2, <2>3, <2>4 DEF Begins
  <1>4. CASE Made(h) # 0
    <2>1. /\ ~Opens(h, m) /\ File(h, m) = Name(opt, h, SetNow, 0) /\ File(h, m) \in DOMAIN files
      BY <1>1, <1>4, OthersAppend
    <2>2. m = SetNow /\ Len(files[Name(opt, h, SetNow, 0)]) = Made(h)
      BY <1>1, <1>4, AtCount DEF Filled
    <2>3. QED
      BY <1>1, <1>2, <2>1, <2>2 DEF Begins
  <1>5. QED
    BY <1>3, <1>4

(* The segment of the next row: the first one, the one of the row before,   *)
(* or, when that has its share, the next one.                               *)
LEMMA NextInSegment ==
  ASSUME OnceInv, Ordinary, pc = "row", count > 0, NEW h \in Handles(tab), opt.insert_segments > 0
  PROVE  \E j, q : Begins(h, NextSegment.mode, j, q)
  <1>0. /\ opt.updates > 0 /\ opt \in Command /\ h \in {"ORDER", "LINE"} /\ upd_num \in Nat
        /\ mode \in Nat /\ mode % Unit = upd_num + 1 /\ upd_num + 1 < Unit /\ Unit \in Nat \ {0}
        /\ UpdateRows = Total(opt, h)
    BY AtRow
  <1>1. PICK n \in Nat \ {0}, u \in Nat : n = opt.insert_segments /\ u = UpdateRows
    BY <1>0, ConstantsAreNatural DEF Command
  <1>2. mode # 0
    <2>1. 0 % Unit = 0
      BY <1>0
    <2>2. QED
      BY <1>0, <2>1
  <1>3. PICK each, residual : each = Each(opt) /\ residual = Residual(opt)
    OBVIOUS
  <1>4. PICK S : S = [j \in Nat |-> SegStart(opt, h, j)]
    OBVIOUS
  <1>5. /\ each \in Nat /\ residual \in Nat /\ residual < n
        /\ \A j \in Nat : S[j] \in Nat /\ S[j + 1] = S[j] + (IF j < residual THEN each + 1 ELSE each)
        /\ \A j \in 0..n : S[j] < u => j < n /\ (each > 0 \/ j < residual)
    <2>1. \A j \in Nat : S[j] = SegStart(opt, h, j) /\ S[j + 1] = SegStart(opt, h, j + 1)
      BY <1>4
    <2>2. \A j \in 0..n : S[j] = SegStart(opt, h, j)
      BY <1>1, <1>4
    <2>3. /\ Each(opt) \in Nat /\ Residual(opt) \in Nat /\ Residual(opt) < opt.insert_segments
          /\ \A j \in Nat : SegStart(opt, h, j) \in Nat
          /\ \A j \in Nat : SegStart(opt, h, j + 1) =
               SegStart(opt, h, j) + (IF j < Residual(opt) THEN Each(opt) + 1 ELSE Each(opt))
          /\ \A j \in 0..opt.insert_segments : SegStart(opt, h, j) < UpdateRows =>
               j < opt.insert_segments /\ (Each(opt) > 0 \/ j < Residual(opt))
      <3>1. opt \in Command /\ h \in {"ORDER", "LINE"} /\ opt.insert_segments > 0
        BY <1>0
      <3>2. QED
        BY ONLY <3>1, InsertShares
    <2>4. QED
      BY ONLY <1>1, <1>3, <2>1, <2>2, <2>3
  <1>6. PICK made \in Nat : made = Made(h) /\ made < u
    <2>1. Made(h) \in Nat /\ Made(h) + count = Total(opt, h) /\ count \in Nat
      BY AtCount, AtRow
    <2>2. QED
      BY <1>0, <1>1, <2>1
  <1>7. PICK c, rts : c = mode \div Unit /\ rts = rows_this_segment
    OBVIOUS
  <1>8. PICK share : share = IF c < residual THEN each + 1 ELSE each
    OBVIOUS
  <1>9. NextSegment = IF rts + 1 >= share THEN [rows |-> 0, mode |-> mode + Unit]
                      ELSE [rows |-> rts + 1, mode |-> mode]
    BY <1>0, <1>1, <1>2, <1>3, <1>7, <1>8 DEF NextSegment, Each, Residual
  <1>10. CASE made = 0
    <2>1. Unopened(h)
      BY <1>6, <1>10, AtCount
    <2>2. mode = upd_num + 1 /\ segment[Counter(h)] = 0 /\ rts = -1
      BY <1>0, <1>1, <1>7, <2>1 DEF Unopened
    <2>3. c = 0
      <3>1. (mode + 0 * Unit) \div Unit = 0 /\ 0 * Unit = 0 /\ mode + 0 = mode
        BY <1>0, <2>2, Quotients
      <3>2. QED
        BY <1>7, <3>1
    <2>4. S[0] = 0 /\ S[0 + 1] = S[0] + share
      <3>1. S[0] = 0
        BY <1>0, <1>1, <1>4, SegStarts DEF Segs
      <3>2. QED
        BY <1>5, <1>8, <2>3, <3>1
    <2>5. share > 0 /\ share \in Nat
      BY <1>1, <1>5, <1>6, <1>8, <1>10, <2>3, <2>4
    <2>6. ~(rts + 1 >= share)
      BY <2>2, <2>5
    <2>7. NextSegment.mode = mode /\ NextSegment.rows = 0
      BY <1>9, <2>2, <2>6
    <2>8. Opens(h, mode)
      BY <1>6, <1>10, FirstOpens
    <2>9. File(h, mode) = Name(opt, h, SetNow, 1)
      BY <1>1, <2>2, <2>8, FileNamed DEF File
    <2>10. 0 + 1 <= SegStart(opt, h, 1) /\ SegStart(opt, h, 1 - 1) = 0
      <3>1. S[1] = SegStart(opt, h, 1) /\ S[0] = SegStart(opt, h, 0) /\ 0 + 1 = 1 /\ 1 - 1 = 0
        BY <1>4
      <3>2. QED
        BY <2>4, <2>5, <3>1
    <2>11. Len(<<>>) = 0 /\ 1 \in 1..n /\ mode = upd_num + 1 + (1 - 1) * Unit /\ 1..(1 - 1) = {}
      BY <1>0, <1>1, <2>2
    <2>12. Begins(h, mode, 1, <<>>)
      BY <1>1, <1>6, <1>10, <2>2, <2>7, <2>8, <2>9, <2>10, <2>11 DEF Begins
    <2>13. QED
      BY <2>7, <2>12
  <1>11. CASE made # 0
    <2>1. Filled(h, made)
      BY <1>6, <1>11, AtCount
    <2>2. PICK j : j = segment[Counter(h)]
      OBVIOUS
    <2>3. PICK f : f = Name(opt, h, SetNow, j)
      OBVIOUS
    <2>4. /\ j \in 1..n /\ mode = upd_num + 1 + (j - 1) * Unit
          /\ made <= SegStart(opt, h, j) /\ f \in DOMAIN files
          /\ Len(files[f]) = rts + 1 /\ made = (SegStart(opt, h, j - 1) + rts) + 1
          /\ \A i \in 1..(j - 1) : Complete(opt, Name(opt, h, SetNow, i))
      BY <1>1, <1>7, <2>1, <2>2, <2>3 DEF Filled
    <2>5. /\ ~Opens(h, mode) /\ \A m : m # mode => Opens(h, m)
          /\ File(h, mode) = f
      BY <1>1, <1>6, <1>11, <2>2, <2>3, OthersAppend
    <2>6. PICK b \in Nat : b = j - 1 /\ j = b + 1
      <3>1. j - 1 \in Nat /\ j = (j - 1) + 1
        BY <2>4
      <3>2. QED
        BY <3>1
    <2>7. PICK x \in Nat, y \in Nat : x = S[b] /\ y = S[j] /\ SegStart(opt, h, j - 1) = x /\ SegStart(opt, h, j) = y
      <3>1. b \in Nat /\ j \in Nat
        BY <2>6
      <3>2. S[b] = SegStart(opt, h, b) /\ S[j] = SegStart(opt, h, j)
        BY <1>4, <3>1
      <3>3. QED
        BY <1>5, <2>6, <3>1, <3>2
    <2>8. c = b
      <3>1. ((upd_num + 1) + b * Unit) \div Unit = b
        BY <1>0, Quotients
      <3>2. mode = (upd_num + 1) + b * Unit
        BY <2>4, <2>6
      <3>3. QED
        BY <1>7, <3>1, <3>2
    <2>9. y = x + share
      BY <1>5, <1>8, <2>6, <2>7, <2>8
    <2>10. rts \in Int /\ share \in Nat
      BY <1>5, <1>7, <1>8 DEF OnceInv, FillInv, SegmentTypes
    <2>11. made = x + (rts + 1) /\ rts + 1 <= share
      <3>1. made <= y /\ made = (x + rts) + 1
        BY <2>4, <2>7
      <3>2. QED
        BY <2>9, <2>10, <3>1
    <2>12. CASE rts + 1 >= share
      <3>1. NextSegment.mode = mode + Unit /\ NextSegment.rows = 0
        BY <1>9, <2>12
      <3>2. PICK m : m = mode + Unit /\ m # mode
        BY <1>0
      <3>3. Opens(h, m)
        BY <2>5, <3>2
      <3>4. m % Unit = mode % Unit
        BY <1>0, <3>2, NextRemainder
      <3>5. File(h, m) = Name(opt, h, SetNow, j + 1)
        BY <1>1, <2>2, <3>3, <3>4, FileNamed DEF File
      <3>6. made = y /\ rts + 1 = share
        BY <2>9, <2>10, <2>11, <2>12
      <3>7. j < n /\ (each > 0 \/ j < residual)
        <4>1. j \in 0..n /\ S[j] < u
          BY <1>6, <2>4, <2>7, <3>6
        <4>2. QED
          BY <1>5, <4>1
      <3>8. made + 1 <= SegStart(opt, h, j + 1)
        <4>1. S[j + 1] = y + (IF j < residual THEN each + 1 ELSE each)
          BY <1>5, <2>6, <2>7
        <4>2. S[j + 1] = SegStart(opt, h, j + 1)
          BY <1>4, <2>6
        <4>3. QED
          BY <1>5, <3>6, <3>7, <4>1, <4>2
      <3>9. Complete(opt, f)
        <4>1. f.of = h /\ f.seg = j /\ j # 0
          BY <2>3, <2>6 DEF Name
        <4>2. Size(opt, f) = y - x
          BY <2>7, <4>1 DEF Size
        <4>3. QED
          BY <2>4, <2>9, <2>10, <3>6, <4>2 DEF Complete
      <3>10. \A i \in 1..((j + 1) - 1) : Complete(opt, Name(opt, h, SetNow, i))
        <4>1. \A i \in 1..((j + 1) - 1) : i = j \/ i \in 1..(j - 1)
          BY <2>4
        <4>2. QED
          BY <2>3, <2>4, <3>9, <4>1
      <3>11. j + 1 \in 1..n /\ m = (upd_num + 1) + ((j + 1) - 1) * Unit
        <4>1. (b + 1) * Unit = b * Unit + Unit /\ b * Unit \in Nat
          BY <1>0, Products
        <4>2. mode = (upd_num + 1) + b * Unit
          BY <2>4, <2>6
        <4>3. m = (upd_num + 1) + (b + 1) * Unit
          BY <1>0, <3>2, <4>1, <4>2
        <4>4. (j + 1) - 1 = b + 1 /\ j + 1 \in 1..n
          BY <2>4, <2>6, <3>7
        <4>5. QED
          BY <4>3, <4>4
      <3>12. SegStart(opt, h, (j + 1) - 1) = y /\ Len(<<>>) = 0 /\ y = y + 0
        <4>1. (j + 1) - 1 = j
          BY <2>6
        <4>2. QED
          BY <2>7, <4>1
      <3>13. Begins(h, m, j + 1, <<>>)
        <4>1. made = SegStart(opt, h, (j + 1) - 1) + Len(<<>>) /\ Len(<<>>) = NextSegment.rows
          BY <3>1, <3>6, <3>12
        <4>2. QED
          BY ONLY <1>1, <1>6, <2>2, <3>3, <3>5, <3>8, <3>10, <3>11, <4>1 DEF Begins
      <3>14. QED
        BY <3>1, <3>2, <3>13
    <2>13. CASE ~(rts + 1 >= share)
      <3>1. NextSegment.mode = mode /\ NextSegment.rows = rts + 1
        BY <1>9, <2>13
      <3>2. made + 1 <= SegStart(opt, h, j)
        BY <2>7, <2>9, <2>10, <2>11, <2>13
      <3>3. made = SegStart(opt, h, j - 1) + Len(files[f])
        BY <2>4, <2>7, <2>11
      <3>4. Begins(h, mode, j, files[f])
        <4>1. j = segment[Counter(h)] + 0
          BY <2>2, <2>4
        <4>2. QED
          BY ONLY <1>1, <1>6, <2>3, <2>4, <2>5, <3>1, <3>2, <3>3, <4>1 DEF Begins
      <3>5. QED
        BY <3>1, <3>4
    <2>14. QED
      BY <2>12, <2>13
  <1>12. QED
    BY <1>10, <1>11

(* That file is one of the command's, has room for the row, and the row is  *)
(* the next one of it.                                                      *)
LEMMA RowFitsFile ==
  ASSUME OnceInv, Ordinary, pc = "row", count > 0, NEW h \in Handles(tab),
         NEW m, NEW j, NEW q, Begins(h, m, j, q), NEW f, f = Name(opt, h, SetNow, j)
  PROVE  /\ Makes(opt, f) /\ IsSequence(q) /\ Len(q) \in Nat
         /\ Len(q) + 1 <= Size(opt, f) /\ row = First(opt, f) + (Len(q) + 1)
         /\ \A n \in DOMAIN q : q[n].index = First(opt, f) + n
  <1>0. opt \in Command /\ Valid(opt) /\ h # "DELETE" /\ opt.insert_segments \in Nat
    BY AtRow
  <1>1. f.of = h /\ f.set = SetNow /\ f.seg = j
    BY DEF Name
  <1>2. Makes(opt, f)
    <2>1. h \in HandlesOf(opt) /\ SetNow \in SetsOf(opt)
      <3>1. CASE opt.updates = 0
        BY <3>1, AtRow DEF SetsOf
      <3>2. CASE opt.updates > 0
        <4>1. h \in HandlesOf(opt)
          BY <3>2, AtRow DEF HandlesOf
        <4>2. SetNow = upd_num + 1 /\ upd_num < opt.updates /\ upd_num \in Nat /\ opt.updates \in Nat
          BY <3>2, AtRow
        <4>3. opt.step > 0 => upd_num >= opt.step - 1
          BY <3>2 DEF OnceInv, FillInv, StartInv
        <4>4. opt.step \in Int
          BY <1>0 DEF Command
        <4>5. QED
          BY <3>2, <4>1, <4>2, <4>3, <4>4 DEF SetsOf
      <3>3. QED
        BY <3>1, <3>2, AtRow
    <2>2. Segs(opt, f.of) = opt.insert_segments
      BY <1>0, <1>1 DEF Segs
    <2>3. j \in (IF opt.insert_segments = 0 THEN {0} ELSE 1..opt.insert_segments)
      BY <1>0 DEF Begins
    <2>4. QED
      BY <1>1, <2>1, <2>2, <2>3 DEF Makes
  <1>3. IsSequence(q) /\ Len(q) \in Nat
    <2>1. CASE q = <<>>
      BY <2>1, EmptyIsSequence
    <2>2. CASE q = files[File(h, m)] /\ File(h, m) \in DOMAIN files
      BY <2>2, AppendIsSequence DEF OnceInv, RInv, IInv, FilesInv
    <2>3. QED
      BY <2>1, <2>2 DEF Begins
  <1>4. \A n \in DOMAIN q : q[n].index = First(opt, f) + n
    <2>1. CASE q = <<>>
      BY <2>1, EmptyIsSequence
    <2>2. CASE q = files[f] /\ f \in DOMAIN files
      <3>1. Maker(opt, f)
        <4>1. pc # "shell"
          OBVIOUS
        <4>2. QED
          BY <1>0, <1>2, <4>1 DEF Maker, OnceInv, RInv, IInv, CommandInv
      <3>2. Holds(opt, f)
        BY <2>2, <3>1 DEF OnceInv, FillInv, ContentInv
      <3>3. QED
        BY <2>2, <3>2 DEF Holds
    <2>3. QED
      BY <2>1, <2>2 DEF Begins
  <1>5. /\ Made(h) \in Nat /\ Made(h) + 1 <= Total(opt, h) /\ Total(opt, h) \in Nat
        /\ Base(opt, h, SetNow) \in Nat
        /\ row = Base(opt, h, SetNow) + Made(h) + 1
    <2>1. count \in Nat
      BY AtRow
    <2>2. QED
      BY <2>1, AtCount
  <1>6. CASE opt.insert_segments = 0
    <2>1. j = 0 /\ Len(q) = Made(h)
      BY <1>6 DEF Begins
    <2>2. First(opt, f) = Base(opt, h, SetNow) + 0 /\ Size(opt, f) = Total(opt, h)
      BY <1>1, <2>1 DEF First, Size
    <2>3. QED
      BY <1>2, <1>3, <1>4, <1>5, <2>1, <2>2
  <1>7. CASE opt.insert_segments > 0
    <2>1. PICK n \in Nat : n = opt.insert_segments /\ n > 0 /\ n = Segs(opt, h)
      BY <1>0, <1>7 DEF Segs
    <2>2. /\ j \in 1..n /\ Made(h) + 1 <= SegStart(opt, h, j)
          /\ Made(h) = SegStart(opt, h, j - 1) + Len(q)
      BY <2>1 DEF Begins
    <2>3. j \in 0..n /\ j - 1 \in 0..n /\ j # 0
      BY <2>2
    <2>4. PICK x \in Nat, y \in Nat : x = SegStart(opt, h, j - 1) /\ y = SegStart(opt, h, j)
      BY <1>0, <2>1, <2>3, SegStarts
    <2>5. First(opt, f) = Base(opt, h, SetNow) + x /\ Size(opt, f) = y - x
      BY <1>1, <2>3, <2>4 DEF First, Size
    <2>6. PICK b \in Nat, made \in Nat, l \in Nat :
            b = Base(opt, h, SetNow) /\ made = Made(h) /\ l = Len(q)
      BY <1>3, <1>5
    <2>7. row = b + made + 1 /\ made = x + l /\ made + 1 <= y
      BY <1>5, <2>2, <2>4, <2>6
    <2>8. l + 1 <= y - x /\ row = (b + x) + (l + 1)
      BY <2>7
    <2>9. QED
      BY <1>2, <1>3, <1>4, <2>4, <2>5, <2>6, <2>8
  <1>8. QED
    BY <1>0, <1>6, <1>7

-----------------------------------------------------------------------------
(* The steps of a process *)

(* When no process runs, only what has ended and what is in the files count.*)
LEMMA AfterExit ==
  ASSUME Gone, ContentInv', EndedInv'
  PROVE  FillInv'
  <1>1. /\ pc' = "shell" /\ rows_this_segment' = -1
        /\ segment' = [insert_orders |-> 0, insert_lineitem |-> 0, delete |-> 0]
        /\ deletes' = [per |-> 0, this |-> 0]
    BY DEF Gone, Fresh
  <1>2. StartInv' /\ PastInv' /\ OpenInv' /\ RowInv'
    BY <1>1 DEF StartInv, PastInv, OpenInv, RowInv
  <1>3. DeleteInv'
    BY <1>1 DEF DeleteInv
  <1>4. SegmentTypes'
    BY <1>1 DEF SegmentTypes
  <1>5. QED
    BY <1>2, <1>3, <1>4 DEF FillInv

LEMMA SameEnded ==
  ASSUME EndedInv, UNCHANGED <<plan, files, ended>>
  PROVE  /\ ended' \subseteq plan' /\ \A o \in ended' : Valid(o)
         /\ \A o \in ended' : \A f : Makes(o, f) =>
              Complete(o, f)' \/ \E q : Maker(q, f)' /\ q \notin ended'
  <1>1. \A o, f : Complete(o, f)' <=> Complete(o, f)
    BY DEF Complete
  <1>2. \A o, f : Maker(o, f)' <=> Maker(o, f)
    BY DEF Maker
  <1>3. QED
    BY <1>1, <1>2 DEF EndedInv

(* What a process has in its files, while it does not touch them.           *)
LEMMA SameFilled ==
  ASSUME NEW h, NEW x, Filled(h, x),
         UNCHANGED <<files, opt, upd_num, mode, rows_this_segment, fp, segment>>
  PROVE  Filled(h, x)'
  BY DEF Filled, SetNow, Complete

LEMMA SameUnopened ==
  ASSUME NEW h, Unopened(h),
         UNCHANGED <<opt, upd_num, mode, rows_this_segment, fp, segment>>
  PROVE  Unopened(h)'
  BY DEF Unopened

LEMMA SameDeletes ==
  ASSUME DeleteInv, pc # "shell", pc' # "shell", pc' # "drange",
         pc' \in {"row", "stop"} => pc \in {"row", "stop"} \/ opt.updates = 0,
         UNCHANGED <<opt, segment, deletes>>
  PROVE  DeleteInv'
  BY DEF DeleteInv

LEMMA RejectFills ==
  ASSUME OnceInv, NEW o, Reject(o)
  PROVE  FillInv'
  <1>1. pc = "shell" /\ pc' = "shell" /\ todo' \subseteq todo /\ UNCHANGED <<plan, files, ended>>
        /\ UNCHANGED <<rows_this_segment, segment, deletes>>
    BY DEF Reject, memory
  <1>2. StartInv' /\ PastInv' /\ OpenInv' /\ RowInv'
    BY <1>1 DEF StartInv, PastInv, OpenInv, RowInv
  <1>3. ContentInv'
    BY <1>1, SameFiles DEF OnceInv, FillInv
  <1>4. EndedInv'
    <2>1. ended' \cap todo' = {}
      BY <1>1 DEF OnceInv, FillInv, EndedInv
    <2>2. QED
      BY <1>1, <2>1, SameEnded DEF OnceInv, FillInv, EndedInv
  <1>5. DeleteInv' /\ SegmentTypes'
    BY <1>1 DEF OnceInv, FillInv, DeleteInv, SegmentTypes
  <1>6. QED
    BY <1>2, <1>3, <1>4, <1>5 DEF FillInv

LEMMA ExecFills ==
  ASSUME OnceInv, Ordinary, NEW o, Exec(o)
  PROVE  FillInv'
  <1>1. /\ o \in todo /\ Valid(o) /\ todo' = todo \ {o} /\ opt' = o
        /\ pc' = IF o.updates > 0 THEN "update" ELSE "main"
        /\ upd_num' = IF o.updates > 0 /\ o.step > 0 THEN o.step - 1 ELSE 0
        /\ UNCHANGED <<plan, files, ended>>
        /\ rows_this_segment' = -1
        /\ segment' = [insert_orders |-> 0, insert_lineitem |-> 0, delete |-> 0]
        /\ deletes' = [per |-> 0, this |-> 0]
        /\ fp' = [h \in Handle |-> Closed]
    BY DEF Exec, Fresh
  <1>2. o \in Command /\ o.updates \in Nat /\ o.step \in Int
    <2>1. o \in plan /\ plan \in Plans
      BY <1>1 DEF OnceInv, RInv, IInv, CommandInv
    <2>2. o \in Command
      BY <2>1, PlansAssumption
    <2>3. QED
      BY <2>2 DEF Command
  <1>3. StartInv'
    BY <1>1, <1>2 DEF StartInv
  <1>4. ContentInv'
    BY <1>1, SameFiles DEF OnceInv, FillInv
  <1>5. EndedInv'
    <2>1. ended' \cap todo' = {} /\ opt' \notin ended' \cup todo'
      BY <1>1 DEF OnceInv, FillInv, EndedInv
    <2>2. QED
      BY <1>1, <2>1, SameEnded DEF OnceInv, FillInv, EndedInv
  <1>6. PastInv'
    <2> SUFFICES ASSUME NEW f, Makes(o, f), Past(f)' PROVE FALSE
      BY <1>1 DEF PastInv
    <2>1. CASE o.updates = 0
      <3>1. left' = TablesOf(o.T)
        BY <1>1, <2>1 DEF Exec, Fresh
      <3>2. f.of \notin UNION {Handles(t) : t \in TablesOf(o.T)}
        BY <1>1, <2>1, <3>1 DEF Past
      <3>3. QED
        BY <1>1, <1>2, <2>1, <3>2, FileOfTable
    <2>2. CASE o.updates > 0
      <3>1. f.set <= upd_num'
        BY <1>1, <2>2 DEF Past
      <3>2. f.set \in SetsOf(o)
        BY <1>1, <1>2, <2>2, FileOfSet
      <3>3. QED
        BY <1>1, <1>2, <2>2, <3>1, <3>2 DEF SetsOf
    <2>3. QED
      BY <1>2, <2>1, <2>2
  <1>7. OpenInv'
    <2>1. \A h \in Handle : fp'[h] = Closed
      BY <1>1
    <2>2. \A t \in left' : \A h \in Handles(t) : o.updates = 0 => fp'[h] = Closed
      <3> SUFFICES ASSUME NEW t \in left', NEW h \in Handles(t), o.updates = 0
                   PROVE  fp'[h] = Closed
        OBVIOUS
      <3>1. left' = TablesOf(o.T)
        BY <1>1 DEF Exec, Fresh
      <3>2. h \in Handle
        BY <1>2, <3>1, TablesAreTables, HandlesPrint DEF Command
      <3>3. QED
        BY <2>1, <3>2
    <2>3. QED
      BY <1>1, <2>1, <2>2 DEF OpenInv
  <1>8. RowInv'
    BY <1>1 DEF RowInv
  <1>9. DeleteInv'
    BY <1>1 DEF DeleteInv
  <1>10. SegmentTypes'
    BY <1>1 DEF SegmentTypes
  <1>11. QED
    BY <1>3, <1>4, <1>5, <1>6, <1>7, <1>8, <1>9, <1>10 DEF FillInv

(* The tables that one loop prints have the same rows.                      *)
LEMMA LoopPrints ==
  ASSUME NEW t \in Table, NEW h \in Handles(t)
  PROVE  Rows(h) = Rows(t) /\ (Whole(h) <=> Whole(t))
  <1>1. CASE t = "ORDER_LINE"
    <2>1. h \in {"ORDER", "LINE"}
      BY <1>1 DEF Handles, Loader
    <2>2. QED
      BY <1>1, <2>1 DEF Rows, base, BaseAtOne, Whole
  <1>2. CASE t = "PART_PSUPP"
    <2>1. h \in {"PART", "PSUPP"}
      BY <1>2 DEF Handles, Loader
    <2>2. QED
      BY <1>2, <2>1 DEF Rows, base, BaseAtOne, Whole
  <1>3. CASE t # "ORDER_LINE" /\ t # "PART_PSUPP"
    BY <1>3 DEF Handles, Loader
  <1>4. QED
    BY <1>1, <1>2, <1>3

LEMMA BeginTableFills ==
  ASSUME OnceInv, Ordinary, BeginTable
  PROVE  FillInv'
  <1>1. PICK t : t = tab' /\ t \in left /\ left' = left \ {t}
    BY DEF BeginTable
  <1>2. /\ pc = "main" /\ pc' = "row" /\ mode' = 0 /\ rows_this_segment' = -1
        /\ UNCHANGED <<plan, todo, ended, files, opt, upd_num, fp, segment, deletes>>
    BY DEF BeginTable
  <1>3. /\ opt.updates = 0 /\ opt \in Command /\ Valid(opt) /\ t \in Table
        /\ opt.insert_segments = 0
    <2>1. opt.updates = 0 /\ left \subseteq TablesOf(opt.T)
      BY <1>2 DEF OnceInv, RInv, IInv, TableInv
    <2>2. opt \in Command /\ Valid(opt) /\ opt.T \in Letter
      BY <1>2, CommandKnown DEF OnceInv, RInv
    <2>3. QED
      BY <1>1, <2>1, <2>2, TablesAreTables DEF Valid
  <1>4. \A h \in Handles(t) : row' = Piece(opt, h).first /\ count' = Piece(opt, h).count
    <2> SUFFICES ASSUME NEW h \in Handles(t)
                 PROVE  row' = Piece(opt, h).first /\ count' = Piece(opt, h).count
      OBVIOUS
    <2>1. Rows(h) = Rows(t) /\ (Whole(h) <=> Whole(t))
      BY <1>3, LoopPrints
    <2>2. CASE opt.children > 1 /\ ~Whole(t)
      <3>1. row' = partial(t).first /\ count' = partial(t).count
        BY <1>1, <2>2 DEF BeginTable
      <3>2. QED
        BY <2>1, <2>2, <3>1 DEF partial, Piece, Split
    <2>3. CASE ~(opt.children > 1 /\ ~Whole(t))
      <3>1. row' = 1 /\ count' = Rows(t)
        BY <1>1, <2>3 DEF BeginTable
      <3>2. QED
        BY <2>1, <2>3, <3>1 DEF Piece, Split
    <2>4. QED
      BY <2>2, <2>3
  <1>5. StartInv'
    BY <1>2, <1>3 DEF StartInv
  <1>6. ContentInv'
    BY <1>2, SameFiles DEF OnceInv, FillInv
  <1>7. EndedInv'
    <2>1. ended' \cap todo' = {} /\ opt' \notin ended' \cup todo'
      BY <1>2 DEF OnceInv, FillInv, EndedInv
    <2>2. QED
      BY <1>2, <2>1, SameEnded DEF OnceInv, FillInv, EndedInv
  <1>8. PastInv'
    <2> SUFFICES ASSUME NEW f, Makes(opt, f), Past(f)' PROVE Complete(opt, f)'
      BY <1>2 DEF PastInv
    <2>1. f.of \notin UNION {Handles(u) : u \in left'} /\ f.of \notin Handles(t)
      BY <1>1, <1>2, <1>3 DEF Past
    <2>2. f.of \notin UNION {Handles(u) : u \in left}
      BY <1>1, <2>1
    <2>3. Past(f)
      BY <1>2, <1>3, <2>2 DEF Past
    <2>4. Complete(opt, f)
      BY <1>2, <2>3 DEF OnceInv, FillInv, PastInv
    <2>5. QED
      BY <1>2, <2>4 DEF Complete
  <1>9. OpenInv'
    <2>1. left' \subseteq left
      BY <1>1
    <2>2. QED
      BY <1>2, <1>3, <2>1 DEF OnceInv, FillInv, OpenInv
  <1>10. RowInv'
    <2> SUFFICES ASSUME NEW h \in Handles(t)
                 PROVE  /\ Made(h)' = 0 /\ Unopened(h)'
                        /\ row' + count' = Base(opt, h, SetNow') + Total(opt, h) + 1
      BY <1>1, <1>2 DEF RowInv
    <2>1. SetNow' = 0
      BY <1>2, <1>3 DEF SetNow
    <2>2. h \in Table
      BY <1>3, HandlesPrint, HandlesAreTables
    <2>3. PICK a \in Nat, c \in Nat : a = Piece(opt, h).first /\ c = Piece(opt, h).count
      BY <1>3, <2>2, PieceIsNatural
    <2>4. Base(opt, h, SetNow') = a - 1 /\ Total(opt, h) = c
      BY <1>3, <2>3 DEF Base, Total
    <2>5. row' = a /\ count' = c
      BY <1>4, <2>3
    <2>6. Made(h)' = (a - 1) - (a - 1)
      BY <1>2, <2>4, <2>5 DEF Made
    <2>7. Unopened(h)'
      <3>1. fp[h] = Closed
        BY <1>1, <1>2, <1>3 DEF OnceInv, FillInv, OpenInv
      <3>2. QED
        BY <1>2, <1>3, <3>1 DEF Unopened
    <2>8. QED
      BY <2>4, <2>5, <2>6, <2>7
  <1>11. DeleteInv'
    BY <1>2, <1>3, SameDeletes DEF OnceInv, FillInv
  <1>12. SegmentTypes'
    BY <1>2 DEF OnceInv, FillInv, SegmentTypes
  <1>13. QED
    BY <1>5, <1>6, <1>7, <1>8, <1>9, <1>10, <1>11, <1>12 DEF FillInv

LEMMA BeginUpdateFills ==
  ASSUME OnceInv, Ordinary, BeginUpdate
  PROVE  FillInv'
  <1>1. /\ pc = "update" /\ pc' = "row" /\ tab' = "ORDER_LINE"
        /\ row' = upd_num * UpdateRows + 1 /\ count' = UpdateRows
        /\ mode' = upd_num + 1 /\ rows_this_segment' = -1
        /\ segment' = [c \in DOMAIN segment |-> 0]
        /\ UNCHANGED <<plan, todo, ended, files, opt, left, upd_num, fp, deletes>>
    BY DEF BeginUpdate
  <1>2. /\ opt.updates > 0 /\ opt.updates # 0 /\ opt \in Command /\ Valid(opt) /\ upd_num \in Nat
    <2>1. opt.updates > 0
      BY <1>1 DEF OnceInv, RInv, IInv, UpdateInv
    <2>2. opt \in Command /\ Valid(opt) /\ opt.updates \in Nat
      BY <1>1, CommandKnown DEF OnceInv, RInv
    <2>3. QED
      BY <2>1, <2>2 DEF OnceInv, RInv, IInv, CountInv
  <1>3. segment' = [c \in {"insert_orders", "insert_lineitem", "delete"} |-> 0]
    BY <1>1 DEF OnceInv, FillInv, SegmentTypes
  <1>4. StartInv'
    BY <1>1 DEF OnceInv, FillInv, StartInv
  <1>5. ContentInv'
    BY <1>1, SameFiles DEF OnceInv, FillInv
  <1>6. EndedInv'
    <2>1. ended' \cap todo' = {} /\ opt' \notin ended' \cup todo'
      BY <1>1 DEF OnceInv, FillInv, EndedInv
    <2>2. QED
      BY <1>1, <2>1, SameEnded DEF OnceInv, FillInv, EndedInv
  <1>7. PastInv'
    <2> SUFFICES ASSUME NEW f, Makes(opt, f), Past(f)' PROVE Complete(opt, f)'
      BY <1>1 DEF PastInv
    <2>1. Past(f)
      BY <1>1, <1>2 DEF Past
    <2>2. Complete(opt, f)
      BY <1>1, <2>1 DEF OnceInv, FillInv, PastInv
    <2>3. QED
      BY <1>1, <2>2 DEF Complete
  <1>8. \A h \in Handle : fp[h] = Closed \/ fp[h].file.set <= upd_num
    BY <1>1, <1>2 DEF OnceInv, FillInv, OpenInv
  <1>9. OpenInv'
    <2>1. \A h \in Handle : fp[h] = Closed \/ (fp[h].file.of = h /\ Makes(opt, fp[h].file))
      BY <1>1 DEF OnceInv, FillInv, OpenInv
    <2>2. \A h \in Handle : fp[h] = Closed \/ fp[h].file.set <= upd_num + 1
      <3> SUFFICES ASSUME NEW h \in Handle, fp[h] # Closed PROVE fp[h].file.set <= upd_num + 1
        OBVIOUS
      <3>1. fp[h].file.set \in Nat
        BY <1>2, <2>1, FileOfSet
      <3>2. QED
        BY <1>2, <1>8, <3>1
    <2>3. QED
      BY <1>1, <1>2, <2>1, <2>2 DEF OpenInv
  <1>10. RowInv'
    <2> SUFFICES ASSUME NEW h \in Handles("ORDER_LINE")
                 PROVE  /\ Made(h)' = 0 /\ Unopened(h)'
                        /\ row' + count' = Base(opt, h, SetNow') + Total(opt, h) + 1
      BY <1>1 DEF RowInv
    <2>1. SetNow' = upd_num + 1
      BY <1>1, <1>2 DEF SetNow
    <2>2. PICK u \in Nat, x \in Nat : u = UpdateRows /\ x = upd_num * UpdateRows
      BY <1>2, ConstantsAreNatural, Products
    <2>3. Base(opt, h, SetNow') = x /\ Total(opt, h) = u
      <3>1. (upd_num + 1) - 1 = upd_num
        BY <1>2
      <3>2. QED
        BY <1>2, <2>1, <2>2, <3>1 DEF Base, Total
    <2>4. row' = x + 1 /\ count' = u
      BY <1>1, <2>2
    <2>5. Made(h)' = ((x + 1) - 1) - x
      BY <1>1, <2>3, <2>4 DEF Made
    <2>6. Unopened(h)'
      <3>1. h \in {"ORDER", "LINE"} /\ h \in Handle
        BY DEF Handles, Loader, Handle
      <3>2. segment'[Counter(h)] = 0
        BY <1>3, <3>1 DEF Counter
      <3>3. QED
        BY <1>1, <1>2, <1>8, <3>1, <3>2 DEF Unopened
    <2>7. QED
      BY <2>3, <2>4, <2>5, <2>6
  <1>11. DeleteInv'
    BY <1>1, <1>3 DEF OnceInv, FillInv, DeleteInv
  <1>12. SegmentTypes'
    BY <1>1, <1>3 DEF OnceInv, FillInv, SegmentTypes
  <1>13. QED
    BY <1>4, <1>5, <1>6, <1>7, <1>9, <1>10, <1>11, <1>12 DEF FillInv

LEMMA RowInvNext ==
  ASSUME pc' \in {"row", "stop"} =>
           \A h \in Handles(tab') :
             \E made \in Nat :
               /\ Made(h)' = made
               /\ row' + count' = Base(opt', h, SetNow') + Total(opt', h) + 1
               /\ IF made = 0 THEN Unopened(h)' ELSE Filled(h, made)'
  PROVE  RowInv'
  BY DEF RowInv

LEMMA RowStopFills ==
  ASSUME OnceInv, Ordinary, RowStop
  PROVE  FillInv'
  <1>1. /\ pc = "stop" /\ pc' = "row" /\ row' = row + 1 /\ count' = count - 1
        /\ UNCHANGED <<plan, todo, ended, files, opt, left, tab, upd_num, mode,
                       rows_this_segment, fp, segment, deletes>>
    BY DEF RowStop
  <1>2. StartInv'
    BY <1>1 DEF OnceInv, FillInv, StartInv
  <1>3. ContentInv'
    BY <1>1, SameFiles DEF OnceInv, FillInv
  <1>4. EndedInv'
    <2>1. ended' \cap todo' = {} /\ opt' \notin ended' \cup todo'
      BY <1>1 DEF OnceInv, FillInv, EndedInv
    <2>2. QED
      BY <1>1, <2>1, SameEnded DEF OnceInv, FillInv, EndedInv
  <1>5. PastInv'
    <2> SUFFICES ASSUME NEW f, Makes(opt, f), Past(f)' PROVE Complete(opt, f)'
      BY <1>1 DEF PastInv
    <2>1. Past(f)
      BY <1>1 DEF Past
    <2>2. Complete(opt, f)
      BY <1>1, <2>1 DEF OnceInv, FillInv, PastInv
    <2>3. QED
      BY <1>1, <2>2 DEF Complete
  <1>6. OpenInv'
    BY <1>1 DEF OnceInv, FillInv, OpenInv
  <1>7. RowInv'
    <2> SUFFICES ASSUME NEW h \in Handles(tab)
                 PROVE  \E made \in Nat :
                          /\ Made(h)' = made
                          /\ row' + count' = Base(opt, h, SetNow') + Total(opt, h) + 1
                          /\ IF made = 0 THEN Unopened(h)' ELSE Filled(h, made)'
      BY <1>1, RowInvNext
    <2>1. SetNow' = SetNow
      BY <1>1 DEF SetNow
    <2>2. PICK b \in Nat, made \in Nat : b = Base(opt, h, SetNow) /\ made = Made(h) /\ row = b + made
      BY <1>1, AtCount
    <2>3. row \in Nat /\ count \in Nat
      BY <1>1, AtRow
    <2>4. Made(h)' = ((row + 1) - 1) - b
      BY <1>1, <2>1, <2>2 DEF Made
    <2>5. Made(h)' = made
      BY <2>2, <2>3, <2>4
    <2>6. row' + count' = row + count
      BY <1>1, <2>3
    <2>7. row + count = b + Total(opt, h) + 1
      BY <1>1, <2>2, AtCount
    <2>8. IF made = 0 THEN Unopened(h) ELSE Filled(h, made)
      BY <1>1, <2>2, AtCount
    <2>9. IF made = 0 THEN Unopened(h)' ELSE Filled(h, made)'
      BY <1>1, <2>8, SameUnopened, SameFilled
    <2>10. QED
      BY <2>1, <2>2, <2>5, <2>6, <2>7, <2>9
  <1>8. DeleteInv'
    BY <1>1, SameDeletes DEF OnceInv, FillInv
  <1>9. SegmentTypes'
    BY <1>1 DEF OnceInv, FillInv, SegmentTypes
  <1>10. QED
    BY <1>2, <1>3, <1>4, <1>5, <1>6, <1>7, <1>8, <1>9 DEF FillInv

LEMMA StutterFills ==
  ASSUME OnceInv, UNCHANGED vars
  PROVE  FillInv'
  <1>1. UNCHANGED <<plan, todo, ended, files, pc, opt, left, tab, row, count, upd_num, mode,
                    rows_this_segment, fp, segment, deletes>>
    BY DEF vars, memory
  <1>2. StartInv' /\ OpenInv' /\ SegmentTypes'
    BY <1>1 DEF OnceInv, FillInv, StartInv, OpenInv, SegmentTypes
  <1>3. ContentInv'
    BY <1>1, SameFiles DEF OnceInv, FillInv
  <1>4. EndedInv'
    BY <1>1, SameEnded DEF OnceInv, FillInv, EndedInv
  <1>5. \A o, f : Complete(o, f)' <=> Complete(o, f)
    BY <1>1 DEF Complete
  <1>6. PastInv'
    BY <1>1, <1>5 DEF OnceInv, FillInv, PastInv, Past
  <1>7. RowInv'
    <2> SUFFICES ASSUME pc \in {"row", "stop"}, NEW h \in Handles(tab)
                 PROVE  \E made \in Nat :
                          /\ Made(h)' = made
                          /\ row' + count' = Base(opt, h, SetNow') + Total(opt, h) + 1
                          /\ IF made = 0 THEN Unopened(h)' ELSE Filled(h, made)'
      BY <1>1, RowInvNext
    <2>1. SetNow' = SetNow
      BY <1>1 DEF SetNow
    <2>2. Made(h)' = Made(h)
      BY <1>1, <2>1 DEF Made
    <2>3. PICK made : made = Made(h)
      OBVIOUS
    <2>4. /\ made \in Nat /\ row + count = Base(opt, h, SetNow) + Total(opt, h) + 1
          /\ IF made = 0 THEN Unopened(h) ELSE Filled(h, made)
      BY <2>3 DEF OnceInv, FillInv, RowInv
    <2>5. IF made = 0 THEN Unopened(h)' ELSE Filled(h, made)'
      BY <1>1, <2>4, SameUnopened, SameFilled
    <2>6. QED
      BY <1>1, <2>1, <2>2, <2>3, <2>4, <2>5
  <1>8. DeleteInv'
    BY <1>1, <1>5 DEF OnceInv, FillInv, DeleteInv, DeletesMade
  <1>9. QED
    BY <1>2, <1>3, <1>4, <1>6, <1>7, <1>8 DEF FillInv

(* When main returns, all files of its command are complete: the ones that  *)
(* others have made before as well.                                         *)
LEMMA ReturnFills ==
  ASSUME OnceInv, Ordinary, OneDataSet, Return
  PROVE  FillInv'
  <1>1. /\ pc \in {"main", "update"} /\ ended' = ended \cup {opt} /\ Gone
        /\ UNCHANGED <<plan, todo, files>>
        /\ pc = "main" => left = {}
        /\ pc = "update" => upd_num >= opt.updates
    BY DEF Return
  <1>2. opt \in plan /\ plan \in Plans /\ Valid(opt) /\ opt \in Command /\ opt.updates \in Nat
        /\ upd_num \in Nat
    <2>1. pc # "shell"
      BY <1>1
    <2>2. QED
      BY <2>1, CommandKnown DEF OnceInv, RInv, IInv, CommandInv, CountInv
  <1>3. ASSUME NEW f, Makes(opt, f) PROVE Complete(opt, f)
    <2>1. Past(f)
      <3>1. CASE pc = "main"
        <4>1. opt.updates = 0
          BY <3>1 DEF OnceInv, RInv, IInv, TableInv
        <4>2. QED
          BY <1>1, <3>1, <4>1 DEF Past
      <3>2. CASE pc = "update"
        <4>1. opt.updates > 0
          BY <3>2 DEF OnceInv, RInv, IInv, UpdateInv
        <4>2. f.set \in SetsOf(opt) /\ f.set \in Nat
          BY <1>2, <1>3, <4>1, FileOfSet
        <4>3. f.set <= opt.updates
          <5>1. opt.step \in Int
            BY <1>2 DEF Command
          <5>2. QED
            BY <1>2, <4>1, <4>2, <5>1 DEF SetsOf
        <4>4. QED
          BY <1>1, <1>2, <3>2, <4>1, <4>2, <4>3 DEF Past
      <3>3. QED
        BY <1>1, <3>1, <3>2
    <2>2. QED
      BY <1>1, <1>3, <2>1 DEF OnceInv, FillInv, PastInv
  <1>4. ContentInv'
    BY <1>1, SameFiles DEF OnceInv, FillInv
  <1>5. EndedInv'
    <2>1. /\ ended' \subseteq plan' /\ ended' \cap todo' = {} /\ pc' = "shell"
          /\ \A o \in ended' : Valid(o)
      BY <1>1, <1>2 DEF OnceInv, FillInv, EndedInv, Gone, Fresh
    <2>2. ASSUME NEW o \in ended', NEW f, Makes(o, f)
          PROVE  Complete(o, f)' \/ \E q : Maker(q, f)' /\ q \notin ended'
      <3>1. Complete(o, f)' <=> Complete(o, f)
        BY <1>1 DEF Complete
      <3>2. \A q : Maker(q, f)' <=> Maker(q, f)
        BY <1>1 DEF Maker
      <3>3. CASE Makes(opt, f)
        <4>1. Complete(opt, f)
          BY <1>3, <3>3
        <4>2. o \in plan /\ Valid(o)
          BY <1>1, <2>1, <2>2
        <4>3. Size(o, f) = Size(opt, f)
          BY <1>2, <2>2, <3>3, <4>2, MakersAgree
        <4>4. QED
          BY <3>1, <4>1, <4>3 DEF Complete
      <3>4. CASE ~Makes(opt, f)
        <4>1. o \in ended
          BY <1>1, <2>2, <3>4
        <4>2. Complete(o, f) \/ \E q : Maker(q, f) /\ q \notin ended
          BY <2>2, <4>1 DEF OnceInv, FillInv, EndedInv
        <4>3. \A q : Maker(q, f) => q # opt
          BY <3>4 DEF Maker
        <4>4. QED
          BY <1>1, <3>1, <3>2, <4>2, <4>3
      <3>5. QED
        BY <3>3, <3>4
    <2>3. QED
      BY <2>1, <2>2 DEF EndedInv
  <1>6. QED
    BY <1>1, <1>4, <1>5, AfterExit

(* A process that is killed leaves shorter files, but only of its command.  *)
LEMMA CrashFills ==
  ASSUME OnceInv, Ordinary, OneDataSet, Crash
  PROVE  FillInv'
  <1>1. /\ pc # "shell" /\ todo' = todo \cup {opt} /\ Gone /\ UNCHANGED <<plan, ended>>
    BY DEF Crash
  <1>2. PICK n \in Nat :
          files' = [f \in DOMAIN files |->
                      IF (\E h \in Handle : fp[h].file = f) /\ Len(files[f]) > n
                      THEN SubSeq(files[f], 1, n) ELSE files[f]]
    BY DEF Crash
  <1>3. opt \in plan /\ plan \in Plans /\ Valid(opt) /\ opt \in Command /\ opt \notin ended
    BY <1>1, CommandKnown DEF OnceInv, RInv, IInv, CommandInv, FillInv, EndedInv
  <1>4. ASSUME NEW f \in DOMAIN files
        PROVE  \/ files'[f] = files[f]
               \/ /\ Makes(opt, f) /\ Len(files'[f]) <= Size(opt, f)
                  /\ \A k \in DOMAIN files'[f] : files'[f][k].index = First(opt, f) + k
    <2>1. CASE files'[f] = files[f]
      BY <2>1
    <2>2. CASE /\ \E h \in Handle : fp[h].file = f
               /\ Len(files[f]) > n /\ files'[f] = SubSeq(files[f], 1, n)
      <3>1. PICK h \in Handle : fp[h].file = f
        BY <2>2
      <3>2. fp[h] # Closed
        <4>1. (\E o : Maker(o, f)) /\ f.of # "none"
          <5>1. PICK o : Maker(o, f)
            BY DEF OnceInv, FillInv, ContentInv
          <5>2. o \in Command /\ Valid(o) /\ o.updates \in Nat
            BY <1>3, <5>1, PlansAssumption DEF Maker, Command
          <5>3. f.of \in Handle
            BY <5>1, <5>2, FileOfTable, FileOfSet DEF Maker, Handle
          <5>4. QED
            BY <5>1, <5>3 DEF Handle
        <4>2. QED
          BY <3>1, <4>1 DEF Closed
      <3>3. Makes(opt, f)
        BY <1>1, <3>1, <3>2 DEF OnceInv, FillInv, OpenInv
      <3>4. Holds(opt, f)
        BY <1>3, <3>3 DEF OnceInv, FillInv, ContentInv, Maker
      <3>5. IsSequence(files[f])
        BY DEF OnceInv, RInv, IInv, FilesInv
      <3>6. /\ DOMAIN files'[f] = 1..n /\ 1..n \subseteq DOMAIN files[f]
            /\ \A k \in 1..n : files'[f][k] = files[f][k]
            /\ IsSequence(files'[f])
        BY <2>2, <3>5, PrefixIsSequence
      <3>7. Len(files'[f]) = n
        <4>1. PICK q : q = files'[f]
          OBVIOUS
        <4>2. DOMAIN q = 1..Len(q) /\ Len(q) \in Nat
          BY <3>6, <4>1, AppendIsSequence
        <4>3. 1..n = 1..Len(q)
          BY <3>6, <4>1, <4>2
        <4>4. n = Len(q)
          <5>1. PICK m \in Nat : m = Len(q)
            BY <4>2
          <5>2. 1..n = 1..m
            BY <4>3, <5>1
          <5>3. ~(n < m) /\ ~(m < n)
            <6>1. n < m => m \in 1..m /\ m \notin 1..n
              BY <5>1
            <6>2. m < n => n \in 1..n /\ n \notin 1..m
              BY <5>1
            <6>3. QED
              BY <5>2, <6>1, <6>2
          <5>4. QED
            BY <5>1, <5>3
        <4>5. QED
          BY <4>1, <4>4
      <3>8. Len(files[f]) <= Size(opt, f) /\ Len(files[f]) \in Nat /\ Size(opt, f) \in Nat
        BY <1>3, <3>3, <3>4, <3>5, AppendIsSequence, SizesAreNatural DEF Holds
      <3>9. n <= Size(opt, f)
        BY <2>2, <3>8
      <3>10. QED
        BY <3>3, <3>4, <3>6, <3>7, <3>9 DEF Holds
    <2>3. QED
      BY <1>2, <2>1, <2>2
  <1>5. DOMAIN files' = DOMAIN files
    BY <1>2
  <1>6. ContentInv'
    BY <1>1, <1>3, <1>4, <1>5, OnlyItsFiles DEF OnceInv, FillInv
  <1>7. EndedInv'
    <2>1. \A f : Makes(opt, f) \/ (f \in DOMAIN files => f \in DOMAIN files' /\ files'[f] = files[f])
      BY <1>4, <1>5
    <2>2. ended' \cap todo' = {} /\ pc' = "shell"
      BY <1>1, <1>3 DEF OnceInv, FillInv, EndedInv, Gone, Fresh
    <2>3. QED
      BY <1>1, <1>3, <2>1, <2>2, EndedKeep DEF OnceInv, FillInv, EndedInv
  <1>8. QED
    BY <1>1, <1>6, <1>7, AfterExit

LEMMA HandlesApart ==
  ASSUME NEW t \in Joint, NEW u \in Joint, t # u
  PROVE  Handles(t) \cap Handles(u) = {}
  <1>1. \A v \in Joint : Handles(v) = CASE v = "ORDER_LINE" -> {"ORDER", "LINE"}
                                        [] v = "PART_PSUPP" -> {"PART", "PSUPP"}
                                        [] OTHER -> {v}
    BY DEF Joint, Handles, Loader
  <1>2. QED
    BY <1>1 DEF Joint

LEMMA SameRange ==
  ASSUME NEW m \in Nat, NEW n \in Nat, 1..m = 1..n
  PROVE  m = n
  <1>1. n < m => m \in 1..m /\ m \notin 1..n
    OBVIOUS
  <1>2. m < n => n \in 1..n /\ n \notin 1..m
    OBVIOUS
  <1>3. QED
    BY <1>1, <1>2

LEMMA AppendIsLonger ==
  ASSUME NEW q, NEW e, IsSequence(q)
  PROVE  Len(q) \in Nat /\ Len(Append(q, e)) = Len(q) + 1
  <1>1. IsSequence(Append(q, e)) /\ DOMAIN Append(q, e) = 1..(Len(q) + 1) /\ Len(q) \in Nat
    BY AppendIsSequence
  <1>2. PICK p : p = Append(q, e)
    OBVIOUS
  <1>3. DOMAIN p = 1..Len(p) /\ Len(p) \in Nat
    BY <1>1, <1>2, AppendIsSequence
  <1>4. 1..Len(p) = 1..(Len(q) + 1)
    BY <1>1, <1>2, <1>3
  <1>5. Len(p) \in Nat /\ Len(q) \in Nat /\ Len(q) + 1 \in Nat
    BY <1>1, <1>3
  <1>6. Len(p) = Len(q) + 1
    BY <1>4, <1>5, SameRange
  <1>7. QED
    BY <1>2, <1>5, <1>6

LEMMA NextRow ==
  ASSUME OnceInv, Ordinary, pc = "row", count > 0, NEW h \in Handles(tab)
  PROVE  \E j, q : Begins(h, NextSegment.mode, j, q)
  <1>1. opt.insert_segments \in Nat
    BY AtRow
  <1>2. CASE opt.insert_segments = 0
    BY <1>2, NextInPiece
  <1>3. CASE opt.insert_segments > 0
    BY <1>3, NextInSegment
  <1>4. QED
    BY <1>1, <1>2, <1>3

(* The rows of one turn of gen_tbl, or the first ones of a turn that ends   *)
(* when the user declines.                                                  *)
LEMMA PrintedRow ==
  ASSUME OnceInv, Ordinary, pc = "row", count > 0, NEW hs \in SUBSET Handles(tab),
         NEW m, m = NextSegment.mode, files' = Printed(hs, m), NEW h \in hs
  PROVE  \E j, q : /\ Begins(h, m, j, q)
                   /\ File(h, m) = Name(opt, h, SetNow, j)
                   /\ files'[File(h, m)] = Append(q, RowOf(h))
  <1>1. PICK j, q : Begins(h, m, j, q)
    BY NextRow
  <1>2. PICK f : f = File(h, m)
    OBVIOUS
  <1>3. f = Name(opt, h, SetNow, j) /\ q = IF Opens(h, m) THEN <<>> ELSE files[f]
    BY <1>1, <1>2 DEF Begins
  <1>4. f.of = h
    BY <1>3 DEF Name
  <1>5. f \in DOMAIN files'
    BY <1>2 DEF Printed
  <1>6. files'[f] = Append(q, RowOf(h))
    BY <1>2, <1>3, <1>4, <1>5 DEF Printed
  <1>7. QED
    BY <1>1, <1>2, <1>3, <1>6

LEMMA PrintedFiles ==
  ASSUME OnceInv, Ordinary, pc = "row", count > 0, NEW hs \in SUBSET Handles(tab),
         NEW m, m = NextSegment.mode, files' = Printed(hs, m)
  PROVE  /\ DOMAIN files' = DOMAIN files \cup {File(h, m) : h \in hs}
         /\ \A f \in DOMAIN files' :
              (f \in DOMAIN files /\ files'[f] = files[f]) \/ \E h \in hs : f = File(h, m)
  <1>1. DOMAIN files' = DOMAIN files \cup {File(h, m) : h \in hs}
    BY DEF Printed
  <1>2. \A f \in DOMAIN files' :
          files'[f] = IF f.of \in hs /\ f = File(f.of, m)
                      THEN Append(IF Opens(f.of, m) THEN <<>> ELSE files[f], RowOf(f.of))
                      ELSE files[f]
    BY DEF Printed
  <1>3. ASSUME NEW f \in DOMAIN files', ~(\E h \in hs : f = File(h, m))
        PROVE  f \in DOMAIN files /\ files'[f] = files[f]
    BY <1>1, <1>2, <1>3
  <1>4. QED
    BY <1>1, <1>3

LEMMA PrintedContent ==
  ASSUME OnceInv, Ordinary, pc = "row", count > 0, NEW hs \in SUBSET Handles(tab),
         NEW m, m = NextSegment.mode, files' = Printed(hs, m), NEW f \in DOMAIN files'
  PROVE  \/ f \in DOMAIN files /\ files'[f] = files[f]
         \/ /\ Makes(opt, f) /\ Len(files'[f]) <= Size(opt, f)
            /\ \A n \in DOMAIN files'[f] : files'[f][n].index = First(opt, f) + n
  <1>0. \A g \in hs : \E j, q :
          /\ Begins(g, m, j, q)
          /\ File(g, m) = Name(opt, g, SetNow, j)
          /\ files'[File(g, m)] = Append(q, RowOf(g))
    BY PrintedRow
  <1>a. \A g \in DOMAIN files' :
          (g \in DOMAIN files /\ files'[g] = files[g]) \/ \E h \in hs : g = File(h, m)
    BY PrintedFiles
  <1>b. (f \in DOMAIN files /\ files'[f] = files[f]) \/ \E h \in hs : f = File(h, m)
    BY <1>a
  <1> SUFFICES ASSUME NEW h \in hs, f = File(h, m)
               PROVE  /\ Makes(opt, f) /\ Len(files'[f]) <= Size(opt, f)
                      /\ \A n \in DOMAIN files'[f] : files'[f][n].index = First(opt, f) + n
    BY <1>b
  <1>1. PICK j, q : /\ Begins(h, m, j, q) /\ f = Name(opt, h, SetNow, j)
                    /\ files'[f] = Append(q, RowOf(h))
    BY <1>0
  <1>2. /\ Makes(opt, f) /\ IsSequence(q) /\ Len(q) \in Nat
        /\ Len(q) + 1 <= Size(opt, f) /\ row = First(opt, f) + (Len(q) + 1)
        /\ \A n \in DOMAIN q : q[n].index = First(opt, f) + n
    BY <1>1, RowFitsFile
  <1>3. PICK e, p : e = RowOf(h) /\ p = Append(q, e)
    OBVIOUS
  <1>4. /\ DOMAIN p = 1..(Len(q) + 1) /\ DOMAIN q = 1..Len(q)
        /\ \A n \in 1..Len(q) : p[n] = q[n]
        /\ p[Len(q) + 1] = e /\ Len(p) = Len(q) + 1
    BY <1>2, <1>3, AppendIsSequence, AppendIsLonger
  <1>5. e.index = row
    BY <1>3 DEF RowOf
  <1>6. \A n \in DOMAIN p : p[n].index = First(opt, f) + n
    <2> SUFFICES ASSUME NEW n \in 1..(Len(q) + 1) PROVE p[n].index = First(opt, f) + n
      BY <1>4
    <2>1. n \in 1..Len(q) \/ n = Len(q) + 1
      BY <1>2
    <2>2. QED
      BY <1>2, <1>4, <1>5, <2>1
  <1>7. QED
    BY <1>1, <1>2, <1>3, <1>4, <1>6

(* A handle of the table prints to the files of its own, in the set at hand.*)
LEMMA OthersStay ==
  ASSUME OnceInv, Ordinary, pc = "row", count > 0, NEW hs \in SUBSET Handles(tab),
         NEW m, m = NextSegment.mode, files' = Printed(hs, m),
         NEW f, f.of \notin hs \/ f.set # SetNow, Complete(opt, f)
  PROVE  Size(opt, f) = 0 \/ (f \in DOMAIN files' /\ Len(files'[f]) = Size(opt, f))
  <1>0. \A g \in hs : \E j, q :
          /\ Begins(g, m, j, q)
          /\ File(g, m) = Name(opt, g, SetNow, j)
          /\ files'[File(g, m)] = Append(q, RowOf(g))
    BY PrintedRow
  <1>1. Size(opt, f) = 0 \/ (f \in DOMAIN files /\ Len(files[f]) = Size(opt, f))
    BY DEF Complete
  <1>3. ASSUME f \in DOMAIN files PROVE f \in DOMAIN files' /\ files'[f] = files[f]
    <2>1. /\ DOMAIN files \subseteq DOMAIN files'
          /\ \A g \in DOMAIN files' :
               (g \in DOMAIN files /\ files'[g] = files[g]) \/ \E h \in hs : g = File(h, m)
      BY PrintedFiles
    <2>2. ASSUME NEW h \in hs, f = File(h, m) PROVE FALSE
      <3>1. PICK j : f = Name(opt, h, SetNow, j)
        BY <1>0, <2>2
      <3>2. QED
        BY <2>2, <3>1 DEF Name
    <2>3. QED
      BY ONLY <1>3, <2>1, <2>2
  <1>4. QED
    BY <1>1, <1>3

(* A handle that has printed a row has one more in the file that is open.   *)
LEMMA RowFilled ==
  ASSUME OnceInv, Ordinary, MakeRow, NEW h \in Handles(tab),
         NEW made \in Nat, made = Made(h)
  PROVE  Filled(h, made + 1)'
  <1>0. /\ pc = "row" /\ count > 0 /\ UNCHANGED <<opt, upd_num>>
        /\ mode' = NextSegment.mode /\ rows_this_segment' = NextSegment.rows
        /\ Output(Handles(tab), NextSegment.mode)
    BY DEF MakeRow
  <1>1. PICK m : m = NextSegment.mode
    OBVIOUS
  <1>2. files' = Printed(Handles(tab), m)
    BY <1>0, <1>1 DEF Output
  <1>3. PICK j, q : /\ Begins(h, m, j, q) /\ File(h, m) = Name(opt, h, SetNow, j)
                    /\ files'[File(h, m)] = Append(q, RowOf(h))
    <2>1. \A g \in Handles(tab) : \E j, q :
            /\ Begins(g, m, j, q)
            /\ File(g, m) = Name(opt, g, SetNow, j)
            /\ files'[File(g, m)] = Append(q, RowOf(g))
      BY <1>0, <1>1, <1>2, PrintedRow
    <2>2. QED
      BY <2>1
  <1>4. PICK f : f = File(h, m) /\ f = Name(opt, h, SetNow, j)
    BY <1>3
  <1>5. fp'[h] = [file |-> f, mode |-> m] /\ mode' = m
    <2>1. h \in Handle
      BY <1>0, AtRow
    <2>2. QED
      BY <1>0, <1>1, <1>4, <2>1 DEF Output
  <1>6. f \in DOMAIN files'
    BY <1>2, <1>4 DEF Printed
  <1>7. Len(q) \in Nat /\ Len(files'[f]) = Len(q) + 1
    <2>1. IsSequence(q)
      BY <1>0, <1>3, <1>4, RowFitsFile
    <2>2. QED
      BY <1>3, <1>4, <2>1, AppendIsLonger
  <1>8. SetNow' = SetNow
    BY <1>0 DEF SetNow
  <1>9. opt.insert_segments \in Nat
    BY <1>0, AtRow
  <1>10. CASE opt.insert_segments = 0
    <2>1. j = 0 /\ m = SetNow /\ Len(q) = made
      BY <1>3, <1>10 DEF Begins
    <2>2. QED
      BY <1>0, <1>4, <1>5, <1>6, <1>7, <1>8, <1>10, <2>1 DEF Filled
  <1>11. CASE opt.insert_segments > 0
    <2>1. /\ j \in 1..opt.insert_segments
          /\ j = segment[Counter(h)] + (IF Opens(h, m) THEN 1 ELSE 0)
          /\ m = upd_num + 1 + (j - 1) * Unit
          /\ made + 1 <= SegStart(opt, h, j)
          /\ Len(q) = NextSegment.rows
          /\ made = SegStart(opt, h, j - 1) + Len(q)
          /\ \A i \in 1..(j - 1) : Complete(opt, Name(opt, h, SetNow, i))
      BY <1>3, <1>11 DEF Begins
    <2>2. segment'[Counter(h)] = j
      <3>1. /\ opt.updates > 0 /\ h \in {"ORDER", "LINE"}
            /\ \A g \in Handles(tab) : g \in {"ORDER", "LINE"}
        BY <1>0, <1>11, AtRow
      <3>2. Segmented(h)
        BY <1>11, <3>1 DEF Segmented
      <3>3. \A g \in Handles(tab) : Counter(g) = Counter(h) => g = h
        BY <3>1 DEF Counter
      <3>4. Counter(h) \in DOMAIN segment
        BY <3>1 DEF Counter, OnceInv, FillInv, SegmentTypes
      <3>5. segment' = [c \in DOMAIN segment |->
                         IF \E g \in Handles(tab) : Opens(g, m) /\ Segmented(g) /\ Counter(g) = c
                         THEN segment[c] + 1 ELSE segment[c]]
        BY <1>0, <1>1 DEF Output
      <3>6. (\E g \in Handles(tab) : Opens(g, m) /\ Segmented(g) /\ Counter(g) = Counter(h)) <=> Opens(h, m)
        BY <3>2, <3>3
      <3>7. segment'[Counter(h)] = IF Opens(h, m) THEN segment[Counter(h)] + 1 ELSE segment[Counter(h)]
        BY <3>4, <3>5, <3>6
      <3>8. segment[Counter(h)] \in Int
        <4>1. CASE Made(h) = 0
          <5>1. Unopened(h)
            BY <1>0, <4>1, AtCount
          <5>2. QED
            BY <1>11, <5>1 DEF Unopened
        <4>2. CASE Made(h) # 0
          <5>1. Filled(h, Made(h))
            BY <1>0, <4>2, AtCount
          <5>2. QED
            BY <1>11, <5>1 DEF Filled
        <4>3. QED
          BY <4>1, <4>2
      <3>9. QED
        BY <2>1, <3>7, <3>8
    <2>3. Counter(h)' = Counter(h)
      OBVIOUS
    <2>4. ASSUME NEW i \in 1..(j - 1) PROVE Complete(opt, Name(opt, h, SetNow, i))'
      <3>1. PICK g : g = Name(opt, h, SetNow, i)
        OBVIOUS
      <3>2. Complete(opt, g)
        BY <2>1, <2>4, <3>1
      <3>3. ASSUME g \in DOMAIN files PROVE g \in DOMAIN files' /\ files'[g] = files[g]
        <4>1. ASSUME NEW k \in Handles(tab), g = File(k, m) PROVE FALSE
          <5>1. \A x \in Handles(tab) : \E jj, qq :
                  /\ Begins(x, m, jj, qq)
                  /\ File(x, m) = Name(opt, x, SetNow, jj)
                  /\ files'[File(x, m)] = Append(qq, RowOf(x))
            BY <1>0, <1>1, <1>2, PrintedRow
          <5>2. PICK jj : g = Name(opt, k, SetNow, jj)
            BY <4>1, <5>1
          <5>3. k = h
            BY <3>1, <5>2 DEF Name
          <5>4. Name(opt, h, SetNow, i) = Name(opt, h, SetNow, j)
            BY <1>4, <3>1, <4>1, <5>3
          <5>5. i = j
            BY <5>4 DEF Name
          <5>6. j \in Int
            BY <1>9, <2>1
          <5>7. QED
            BY ONLY <2>4, <5>5, <5>6
        <4>2. g \in DOMAIN files'
          BY <1>2, <3>3 DEF Printed
        <4>3. QED
          BY <1>0, <1>1, <1>2, <4>1, <4>2, PrintedFiles
      <3>4. QED
        BY <1>0, <1>8, <3>1, <3>2, <3>3 DEF Complete
    <2>5. Len(files'[f]) = rows_this_segment' + 1
      BY <1>0, <1>7, <2>1
    <2>6. made + 1 = SegStart(opt, h, j - 1) + rows_this_segment' + 1
      <3>1. PICK l \in Nat : l = Len(q)
        BY <1>7
      <3>2. SegStart(opt, h, j - 1) \in Nat
        <4>1. Segs(opt, h) = opt.insert_segments /\ opt \in Command
          BY <1>0, AtRow DEF Segs
        <4>2. j - 1 \in 0..opt.insert_segments
          BY <1>9, <2>1
        <4>3. QED
          BY <1>11, <4>1, <4>2, SegStarts
      <3>3. QED
        BY <1>0, <2>1, <3>1, <3>2
    <2>7. (IF opt.insert_segments = 0 THEN 0 ELSE segment[Counter(h)])' = j
      BY <1>0, <1>11, <2>2
    <2>8. \A i \in 1..(j - 1) : Complete(opt, Name(opt, h, SetNow, i))'
      BY <2>4
    <2>9. mode' = upd_num' + 1 + (j - 1) * Unit
      BY <1>0, <1>5, <2>1
    <2>10. /\ (IF opt.insert_segments = 0 THEN 0 ELSE segment[Counter(h)])' = j
           /\ opt'.insert_segments # 0 /\ j \in 1..opt'.insert_segments
           /\ f = Name(opt', h, SetNow', j)
           /\ fp'[h] = [file |-> f, mode |-> mode'] /\ f \in DOMAIN files'
           /\ made + 1 <= SegStart(opt', h, j)
           /\ made + 1 = SegStart(opt', h, j - 1) + rows_this_segment' + 1
      BY <1>0, <1>4, <1>5, <1>6, <1>8, <1>11, <2>1, <2>6, <2>7
    <2>11. QED
      BY ONLY <2>5, <2>8, <2>9, <2>10 DEF Filled
  <1>12. QED
    BY <1>9, <1>10, <1>11

LEMMA MakeRowFills ==
  ASSUME OnceInv, Ordinary, OneDataSet, MakeRow
  PROVE  FillInv'
  <1>0. /\ pc = "row" /\ count > 0 /\ pc' = "stop"
        /\ UNCHANGED <<plan, todo, ended, opt, left, tab, row, count, upd_num, deletes>>
        /\ mode' = NextSegment.mode /\ rows_this_segment' = NextSegment.rows
        /\ Output(Handles(tab), NextSegment.mode)
    BY DEF MakeRow
  <1>1. PICK m : m = NextSegment.mode
    OBVIOUS
  <1>2. /\ files' = Printed(Handles(tab), m)
        /\ fp' = [h \in Handle |-> IF h \in Handles(tab) THEN [file |-> File(h, m), mode |-> m]
                                   ELSE fp[h]]
        /\ segment' = [c \in DOMAIN segment |->
                         IF \E h \in Handles(tab) : Opens(h, m) /\ Segmented(h) /\ Counter(h) = c
                         THEN segment[c] + 1 ELSE segment[c]]
    BY <1>0, <1>1 DEF Output
  <1>3. opt \in plan /\ plan \in Plans /\ Valid(opt) /\ opt \in Command /\ opt \notin ended
        /\ opt.updates \in Nat /\ upd_num \in Nat /\ SetNow' = SetNow
    BY <1>0, CommandKnown DEF OnceInv, RInv, IInv, CommandInv, CountInv, FillInv, EndedInv, SetNow
  <1>4. \A f \in DOMAIN files' :
          \/ f \in DOMAIN files /\ files'[f] = files[f]
          \/ /\ Makes(opt, f) /\ Len(files'[f]) <= Size(opt, f)
             /\ \A n \in DOMAIN files'[f] : files'[f][n].index = First(opt, f) + n
    BY <1>0, <1>1, <1>2, PrintedContent
  <1>5. ContentInv'
    BY <1>0, <1>3, <1>4, OnlyItsFiles DEF OnceInv, FillInv
  <1>6. EndedInv'
    <2>1. \A f : Makes(opt, f) \/ (f \in DOMAIN files => f \in DOMAIN files' /\ files'[f] = files[f])
      <3>1. DOMAIN files \subseteq DOMAIN files'
        BY <1>2 DEF Printed
      <3>2. QED
        BY <1>4, <3>1
    <2>2. ended' \cap todo' = {} /\ opt' \notin ended' \cup todo'
      BY <1>0 DEF OnceInv, FillInv, EndedInv
    <2>3. QED
      BY <1>0, <1>3, <2>1, <2>2, EndedKeep DEF OnceInv, FillInv, EndedInv
  <1>7. StartInv'
    BY <1>0 DEF OnceInv, FillInv, StartInv
  <1>8. \A h \in Handles(tab) : \E j, q :
          /\ Begins(h, m, j, q)
          /\ File(h, m) = Name(opt, h, SetNow, j)
          /\ files'[File(h, m)] = Append(q, RowOf(h))
    BY <1>0, <1>1, <1>2, PrintedRow
  <1>9. PastInv'
    <2> SUFFICES ASSUME NEW f, Makes(opt, f), Past(f)' PROVE Complete(opt, f)'
      BY <1>0 DEF PastInv
    <2>1. Past(f) /\ (f.of \notin Handles(tab) \/ f.set # SetNow)
      <3>1. CASE opt.updates = 0
        BY <1>0, <3>1 DEF Past
      <3>2. CASE opt.updates > 0
        <4>1. f.set <= upd_num /\ f.set \in Nat
          BY <1>0, <1>3, <3>2, FileOfSet DEF Past
        <4>2. SetNow = upd_num + 1
          BY <3>2 DEF SetNow
        <4>3. QED
          BY <1>3, <3>2, <4>1, <4>2 DEF Past
      <3>3. QED
        BY <1>3, <3>1, <3>2
    <2>2. Complete(opt, f)
      BY <1>0, <2>1 DEF OnceInv, FillInv, PastInv
    <2>3. Size(opt, f) = 0 \/ (f \in DOMAIN files' /\ Len(files'[f]) = Size(opt, f))
      BY <1>0, <1>1, <1>2, <2>1, <2>2, OthersStay
    <2>4. QED
      BY <1>0, <2>3 DEF Complete
  <1>10. OpenInv'
    <2>1. ASSUME NEW h \in Handles(tab)
          PROVE  /\ fp'[h].file.of = h /\ Makes(opt, fp'[h].file)
                 /\ opt.updates > 0 => fp'[h].file.set = upd_num + 1
      <3>1. h \in Handle
        BY <1>0, AtRow
      <3>2. fp'[h].file = File(h, m)
        BY <1>2, <3>1
      <3>3. PICK j, q : Begins(h, m, j, q) /\ File(h, m) = Name(opt, h, SetNow, j)
        BY <1>8
      <3>4. PICK f : f = File(h, m) /\ f = Name(opt, h, SetNow, j)
        BY <3>3
      <3>5. Makes(opt, f)
        BY <1>0, <3>3, <3>4, RowFitsFile
      <3>6. f.of = h /\ f.set = SetNow
        BY <3>4 DEF Name
      <3>7. QED
        BY <3>2, <3>4, <3>5, <3>6 DEF SetNow
    <2>2. \A h \in Handle \ Handles(tab) : fp'[h] = fp[h]
      BY <1>2
    <2>3. \A h \in Handle : fp'[h] = Closed \/ (fp'[h].file.of = h /\ Makes(opt, fp'[h].file))
      BY <1>0, <2>1, <2>2 DEF OnceInv, FillInv, OpenInv
    <2>4. ASSUME opt.updates = 0, NEW t \in left, NEW h \in Handles(t) PROVE fp'[h] = Closed
      <3>1. t \in TablesOf(opt.T) /\ tab \in TablesOf(opt.T) /\ t # tab /\ opt.T \in Letter
        BY <1>0, <2>4, CommandKnown DEF OnceInv, RInv, IInv, TableInv
      <3>2. h \notin Handles(tab)
        BY <3>1, TablesApart, HandlesApart
      <3>3. h \in Handle
        BY <3>1, TablesAreTables, HandlesPrint
      <3>4. fp[h] = Closed
        BY <1>0, <2>4 DEF OnceInv, FillInv, OpenInv
      <3>5. QED
        BY <2>2, <3>2, <3>3, <3>4
    <2>5. ASSUME opt.updates > 0, NEW h \in Handle
          PROVE  fp'[h] = Closed \/ fp'[h].file.set <= upd_num + 1
      <3>1. CASE h \in Handles(tab)
        BY <1>3, <2>1, <2>5, <3>1
      <3>2. CASE h \notin Handles(tab)
        <4>1. fp[h] = Closed \/ fp[h].file.set <= upd_num + 1
          BY <1>0, <2>5 DEF OnceInv, FillInv, OpenInv
        <4>2. QED
          BY <2>2, <3>2, <4>1
      <3>3. QED
        BY <3>1, <3>2
    <2>6. QED
      BY <1>0, <2>3, <2>4, <2>5 DEF OpenInv
  <1>11. RowInv'
    <2> SUFFICES ASSUME NEW h \in Handles(tab)
                 PROVE  \E made \in Nat :
                          /\ Made(h)' = made
                          /\ row' + count' = Base(opt', h, SetNow') + Total(opt', h) + 1
                          /\ IF made = 0 THEN Unopened(h)' ELSE Filled(h, made)'
      BY <1>0, RowInvNext
    <2>1. PICK b \in Nat, x \in Nat : b = Base(opt, h, SetNow) /\ x = Made(h)
      BY <1>0, AtCount
    <2>2. row = b + x + 1 /\ row + count = b + Total(opt, h) + 1
      BY <1>0, <2>1, AtCount
    <2>3. Made(h)' = row - b
      BY <1>0, <1>3, <2>1 DEF Made
    <2>4. Made(h)' = x + 1 /\ x + 1 \in Nat /\ x + 1 # 0
      BY <2>1, <2>2, <2>3
    <2>5. Filled(h, x + 1)'
      BY <2>1, RowFilled
    <2>6. QED
      BY <1>0, <1>3, <2>1, <2>2, <2>4, <2>5
  <1>12. segment' = [c \in {"insert_orders", "insert_lineitem", "delete"} |-> segment'[c]]
    BY <1>2 DEF OnceInv, FillInv, SegmentTypes
  <1>13. DeleteInv'
    <2>1. segment'["delete"] = segment["delete"]
      <3>1. ASSUME NEW h \in Handles(tab), Segmented(h) PROVE Counter(h) # "delete"
        <4>1. opt.updates > 0
          BY <3>1 DEF Segmented
        <4>2. h \in {"ORDER", "LINE"}
          BY <1>0, <4>1, AtRow
        <4>3. QED
          BY <4>2 DEF Counter
      <3>2. "delete" \in DOMAIN segment
        BY DEF OnceInv, FillInv, SegmentTypes
      <3>3. QED
        BY <1>2, <3>1, <3>2
    <2>2. QED
      BY <1>0, <2>1 DEF OnceInv, FillInv, DeleteInv
  <1>14. SegmentTypes'
    <2>1. NextSegment.rows \in Int
      BY DEF OnceInv, FillInv, SegmentTypes, NextSegment
    <2>2. QED
      BY <1>0, <1>12, <2>1 DEF OnceInv, FillInv, SegmentTypes
  <1>15. QED
    BY <1>5, <1>6, <1>7, <1>9, <1>10, <1>11, <1>13, <1>14 DEF FillInv

LEMMA DeclineFills ==
  ASSUME OnceInv, Ordinary, OneDataSet, Decline
  PROVE  FillInv'
  <1>1. pc = "row" /\ count > 0 /\ Gone /\ UNCHANGED <<plan, todo, ended>>
    BY DEF Decline
  <1>2. PICK k \in DOMAIN Loader(tab) :
          /\ Asks(Loader(tab)[k], mode)
          /\ files' = Printed({Loader(tab)[j] : j \in 1..(k - 1)}, mode)
    BY DEF Decline
  <1>3. PICK hs : hs = {Loader(tab)[j] : j \in 1..(k - 1)}
    OBVIOUS
  <1>4. hs \in SUBSET Handles(tab)
    BY <1>2, <1>3 DEF Handles, Loader
  <1>5. opt \in plan /\ plan \in Plans /\ Valid(opt) /\ opt \in Command /\ opt \notin ended
    BY <1>1, CommandKnown DEF OnceInv, RInv, IInv, CommandInv, FillInv, EndedInv
  <1>6. opt.updates = 0 /\ mode = 0
    BY <1>1, <1>2 DEF Asks, OnceInv, RInv, IInv, TableInv
  <1>7. NextSegment.mode = mode
    BY <1>6 DEF NextSegment
  <1>8. files' = Printed(hs, mode)
    BY <1>2, <1>3
  <1>9. \A f \in DOMAIN files' :
          \/ f \in DOMAIN files /\ files'[f] = files[f]
          \/ /\ Makes(opt, f) /\ Len(files'[f]) <= Size(opt, f)
             /\ \A n \in DOMAIN files'[f] : files'[f][n].index = First(opt, f) + n
    BY <1>1, <1>4, <1>7, <1>8, PrintedContent
  <1>10. ContentInv'
    BY <1>1, <1>5, <1>9, OnlyItsFiles DEF OnceInv, FillInv
  <1>11. EndedInv'
    <2>1. \A f : Makes(opt, f) \/ (f \in DOMAIN files => f \in DOMAIN files' /\ files'[f] = files[f])
      <3>1. DOMAIN files \subseteq DOMAIN files'
        BY <1>8 DEF Printed
      <3>2. QED
        BY <1>9, <3>1
    <2>2. ended' \cap todo' = {} /\ pc' = "shell"
      BY <1>1 DEF OnceInv, FillInv, EndedInv, Gone, Fresh
    <2>3. QED
      BY <1>1, <1>5, <2>1, <2>2, EndedKeep DEF OnceInv, FillInv, EndedInv
  <1>12. QED
    BY <1>1, <1>10, <1>11, AfterExit

LEMMA SetIsMade ==
  ASSUME OnceInv, Ordinary, pc \in {"row", "stop", "drange"}, opt.updates > 0
  PROVE  /\ upd_num + 1 \in SetsOf(opt) /\ upd_num \in Nat /\ upd_num + 1 < Unit
         /\ opt \in Command /\ Valid(opt) /\ opt.children = 1
  <1>1. /\ opt \in Command /\ Valid(opt) /\ opt.updates \in Nat /\ opt.updates < Unit /\ upd_num \in Nat
    BY CommandKnown DEF OnceInv, RInv, IInv, CountInv
  <1>2. upd_num < opt.updates
    BY DEF OnceInv, RInv, IInv, UpdateInv
  <1>3. opt.step > 0 => upd_num >= opt.step - 1
    BY DEF OnceInv, FillInv, StartInv
  <1>4. opt.step \in Int /\ opt.updates # 0
    BY <1>1, <1>2 DEF Command
  <1>5. upd_num + 1 \in SetsOf(opt)
    BY <1>1, <1>2, <1>3, <1>4 DEF SetsOf
  <1>6. Unit \in Nat
    BY DbgenAssumption
  <1>7. opt.children = 1
    BY <1>1, <1>4 DEF Valid, Command
  <1>8. QED
    BY <1>1, <1>2, <1>5, <1>6, <1>7

(* When gen_tbl returns, all files of its rows are complete: the segments   *)
(* that were never opened have no rows.                                     *)
LEMMA TableComplete ==
  ASSUME OnceInv, Ordinary, pc = "row", count = 0, NEW h \in Handles(tab),
         NEW f, Makes(opt, f), f.of = h, f.set = SetNow
  PROVE  Complete(opt, f)
  <1>1. opt \in Command /\ Valid(opt) /\ h # "DELETE" /\ opt.insert_segments \in Nat /\ opt.updates \in Nat
    BY AtRow
  <1>2. PICK made \in Nat : made = Made(h) /\ made = Total(opt, h)
    <2>1. Made(h) \in Nat /\ Made(h) + count = Total(opt, h)
      BY AtCount
    <2>2. QED
      BY <2>1
  <1>3. IF made = 0 THEN Unopened(h) ELSE Filled(h, made)
    BY <1>2, AtCount
  <1>4. Segs(opt, h) = opt.insert_segments
    BY <1>1 DEF Segs
  <1>5. f = Name(opt, h, SetNow, f.seg)
        /\ f.seg \in (IF opt.insert_segments = 0 THEN {0} ELSE 1..opt.insert_segments)
    BY <1>4 DEF Makes
  <1>6. CASE opt.insert_segments = 0
    <2>1. f.seg = 0 /\ Size(opt, f) = made
      BY <1>2, <1>5, <1>6 DEF Size
    <2>2. made # 0 => f \in DOMAIN files /\ Len(files[f]) = made
      BY <1>3, <1>5, <1>6, <2>1 DEF Filled
    <2>3. QED
      BY <2>1, <2>2 DEF Complete
  <1>7. CASE opt.insert_segments > 0
    <2>1. opt.updates > 0
      BY <1>1, <1>7 DEF Valid
    <2>2. PICK n \in Nat, u \in Nat : n = opt.insert_segments /\ u = UpdateRows /\ n > 0
      BY <1>1, <1>7, ConstantsAreNatural
    <2>3. made = u
      BY <1>2, <2>1, <2>2 DEF Total
    <2>4. PICK i \in 1..n : i = f.seg /\ f = Name(opt, h, SetNow, i)
      BY <1>5, <2>2
    <2>5. PICK S : S = [k \in 0..n |-> SegStart(opt, h, k)]
      OBVIOUS
    <2>6. /\ S[0] = 0 /\ S[n] = u /\ \A k \in 0..n : S[k] \in Nat /\ S[k] = SegStart(opt, h, k)
          /\ \A k, l \in 0..n : k <= l => S[k] <= S[l]
      <3>1. \A k \in 0..n : S[k] = SegStart(opt, h, k)
        BY <2>5
      <3>2. 0 \in 0..n /\ n \in 0..n
        BY <2>2
      <3>3. /\ SegStart(opt, h, 0) = 0 /\ SegStart(opt, h, n) = u
            /\ \A k \in 0..n : SegStart(opt, h, k) \in Nat
            /\ \A k, l \in 0..n : k <= l => SegStart(opt, h, k) <= SegStart(opt, h, l)
        BY <1>1, <1>4, <2>2, SegStarts
      <3>4. QED
        BY ONLY <3>1, <3>2, <3>3
    <2>7. i - 1 \in 0..n /\ i \in 0..n /\ i # 0
      BY <2>2
    <2>8. Size(opt, f) = S[i] - S[i - 1]
      BY <2>4, <2>6, <2>7 DEF Size
    <2>9. CASE S[i] = S[i - 1]
      BY <2>6, <2>7, <2>8, <2>9 DEF Complete
    <2>10. CASE S[i] # S[i - 1]
      <3>1. made # 0
        BY <2>2, <2>3, <2>6, <2>7, <2>10
      <3>2. Filled(h, made)
        BY <1>3, <3>1
      <3>3. PICK j : j = segment[Counter(h)]
        OBVIOUS
      <3>4. /\ j \in 1..n /\ made <= SegStart(opt, h, j)
            /\ Name(opt, h, SetNow, j) \in DOMAIN files
            /\ Len(files[Name(opt, h, SetNow, j)]) = rows_this_segment + 1
            /\ made = SegStart(opt, h, j - 1) + rows_this_segment + 1
            /\ \A k \in 1..(j - 1) : Complete(opt, Name(opt, h, SetNow, k))
        BY <2>2, <3>2, <3>3 DEF Filled
      <3>5. j \in 0..n /\ j - 1 \in 0..n
        BY <3>4
      <3>6. PICK r \in Int : r = rows_this_segment
        BY DEF OnceInv, FillInv, SegmentTypes
      <3>7. S[j] = u /\ u = S[j - 1] + r + 1
        <4>1. SegStart(opt, h, j) = S[j] /\ SegStart(opt, h, j - 1) = S[j - 1] /\ S[j] \in Nat
          BY ONLY <2>6, <3>5
        <4>2. S[j] <= u /\ u <= S[j] /\ u = S[j - 1] + r + 1
          <5>1. n \in 0..n /\ j <= n
            BY <2>2, <3>4
          <5>2. S[j] <= S[n] /\ S[n] = u
            BY ONLY <2>6, <3>5, <5>1
          <5>3. u = made
            BY <2>2, <2>3
          <5>4. QED
            BY <3>4, <3>6, <4>1, <5>2, <5>3
        <4>3. QED
          BY <2>2, <4>1, <4>2
      <3>8. i <= j
        <4>1. i > j => j <= i - 1
          BY <3>4
        <4>2. i > j => S[j] <= S[i - 1] /\ S[i - 1] <= S[i] /\ S[i] <= S[n]
          BY <2>6, <2>7, <3>5, <4>1
        <4>3. i > j => S[i] = S[i - 1]
          BY <2>6, <2>7, <3>7, <4>2
        <4>4. QED
          BY <2>10, <3>4, <4>3
      <3>9. CASE i = j
        <4>1. Len(files[f]) = r + 1 /\ f \in DOMAIN files
          BY <2>4, <3>4, <3>6, <3>9
        <4>2. Size(opt, f) = r + 1
          BY <2>6, <2>7, <2>8, <3>7, <3>9
        <4>3. QED
          BY <4>1, <4>2 DEF Complete
      <3>10. CASE i < j
        <4>1. i \in 1..(j - 1)
          BY <3>4, <3>10
        <4>2. QED
          BY <2>4, <3>4, <4>1
      <3>11. QED
        BY <3>4, <3>8, <3>9, <3>10
    <2>11. QED
      BY <2>9, <2>10
  <1>8. QED
    BY <1>1, <1>6, <1>7

LEMMA DeleteNamed ==
  ASSUME OnceInv, Ordinary, pc \in {"row", "stop", "drange"}, opt.updates > 0, NEW m, m = upd_num + 1
  PROVE  print_prep("DELETE", m) =
           Name(opt, "DELETE", upd_num + 1, IF opt.delete_segments = 0 THEN 0 ELSE segment["delete"] + 1)
  <1>1. /\ upd_num \in Nat /\ upd_num + 1 < Unit /\ opt \in Command /\ opt.children = 1
    BY SetIsMade
  <1>2. opt.delete_segments \in Nat /\ Unit \in Nat \ {0}
    BY <1>1, DbgenAssumption DEF Command
  <1>3. m % Unit = upd_num + 1
    BY <1>1, <1>2
  <1>4. Segmented("DELETE") <=> opt.delete_segments # 0
    BY <1>2 DEF Segmented
  <1>5. Counter("DELETE") = "delete"
    BY DEF Counter
  <1>6. ~Split(opt, "DELETE") /\ ~(opt.children > 1 /\ ~Whole("DELETE"))
    BY <1>1 DEF Split
  <1>7. QED
    BY <1>3, <1>4, <1>5, <1>6 DEF print_prep, Name

LEMMA EndTableFills ==
  ASSUME OnceInv, Ordinary, OneDataSet, EndTable
  PROVE  FillInv'
  <1>0. /\ pc = "row" /\ count = 0
        /\ UNCHANGED <<plan, todo, ended, opt, left, tab, upd_num, rows_this_segment>>
    BY DEF EndTable
  <1>1. opt \in plan /\ plan \in Plans /\ Valid(opt) /\ opt \in Command /\ opt \notin ended
        /\ opt.updates \in Nat /\ upd_num \in Nat
    BY <1>0, CommandKnown DEF OnceInv, RInv, IInv, CommandInv, CountInv, FillInv, EndedInv
  <1>2. CASE opt.updates = 0
    <2>1. pc' = "main" /\ UNCHANGED <<files, row, count, mode, fp, segment, deletes>>
      BY <1>2 DEF EndTable
    <2>2. StartInv' /\ SegmentTypes'
      BY <1>0, <1>2, <2>1 DEF OnceInv, FillInv, StartInv, SegmentTypes
    <2>3. ContentInv'
      BY <1>0, <2>1, SameFiles DEF OnceInv, FillInv
    <2>4. EndedInv'
      <3>1. ended' \cap todo' = {} /\ opt' \notin ended' \cup todo'
        BY <1>0 DEF OnceInv, FillInv, EndedInv
      <3>2. QED
        BY <1>0, <2>1, <3>1, SameEnded DEF OnceInv, FillInv, EndedInv
    <2>5. PastInv'
      <3> SUFFICES ASSUME NEW f, Makes(opt, f), Past(f)' PROVE Complete(opt, f)'
        BY <1>0 DEF PastInv
      <3>1. f.of \notin UNION {Handles(t) : t \in left}
        BY <1>0, <1>2 DEF Past
      <3>2. Complete(opt, f)
        <4>1. CASE f.of \in Handles(tab)
          <5>1. f.set = 0 /\ SetNow = 0
            BY <1>1, <1>2, FileOfTable DEF SetNow
          <5>2. QED
            BY <1>0, <4>1, <5>1, TableComplete
        <4>2. CASE f.of \notin Handles(tab)
          <5>1. Past(f)
            BY <1>2, <3>1, <4>2 DEF Past
          <5>2. QED
            BY <1>0, <5>1 DEF OnceInv, FillInv, PastInv
        <4>3. QED
          BY <4>1, <4>2
      <3>3. QED
        BY <1>0, <2>1, <3>2 DEF Complete
    <2>6. OpenInv'
      BY <1>0, <1>2, <2>1 DEF OnceInv, FillInv, OpenInv
    <2>7. RowInv'
      BY <2>1 DEF RowInv
    <2>8. DeleteInv'
      BY <1>0, <1>2, <2>1, SameDeletes DEF OnceInv, FillInv
    <2>9. QED
      BY <2>2, <2>3, <2>4, <2>5, <2>6, <2>7, <2>8 DEF FillInv
  <1>3. CASE opt.updates > 0
    <2>1. PICK g : g = print_prep("DELETE", upd_num + 1)
      OBVIOUS
    <2>2. /\ pc' = "drange" /\ row' = upd_num * UpdateRows + 1
          /\ files' = [f \in DOMAIN files \cup {g} |-> IF f = g THEN <<>> ELSE files[f]]
          /\ fp' = [fp EXCEPT !["DELETE"] = [file |-> g, mode |-> upd_num + 1]]
          /\ segment' = [segment EXCEPT !["delete"] = IF Segmented("DELETE") THEN @ + 1 ELSE @]
          /\ deletes' = [deletes EXCEPT !.this = 0]
      BY <1>3, <2>1 DEF EndTable
    <2>3. /\ deletes = [per |-> deletes.per, this |-> deletes.this]
          /\ segment = [c \in {"insert_orders", "insert_lineitem", "delete"} |-> segment[c]]
      BY DEF OnceInv, FillInv, SegmentTypes
    <2>4. /\ deletes.per \in Nat /\ segment["delete"] = 0
          /\ opt.delete_segments > 0 => deletes.per \in {0, Share(opt)}
      BY <1>0, <1>3 DEF OnceInv, FillInv, DeleteInv
    <2>5. deletes' = [per |-> deletes.per, this |-> 0]
      BY <2>2, <2>3
    <2>6. opt.delete_segments \in Nat
      BY <1>1 DEF Command
    <2>7. PICK j : j = IF opt.delete_segments = 0 THEN 0 ELSE 1
      OBVIOUS
    <2>8. g = Name(opt, "DELETE", upd_num + 1, j)
      <3>1. g = Name(opt, "DELETE", upd_num + 1,
                     IF opt.delete_segments = 0 THEN 0 ELSE segment["delete"] + 1)
        BY <1>0, <1>3, <2>1, DeleteNamed
      <3>2. QED
        BY <2>4, <2>7, <3>1
    <2>9. g.of = "DELETE" /\ g.set = upd_num + 1 /\ g.seg = j
      BY <2>8 DEF Name
    <2>10. segment'["delete"] = j
      <3>1. Segmented("DELETE") <=> opt.delete_segments # 0
        BY <1>3, <2>6 DEF Segmented
      <3>2. QED
        BY <2>2, <2>3, <2>4, <2>7, <3>1
    <2>11. Makes(opt, g)
      <3>1. "DELETE" \in HandlesOf(opt) /\ upd_num + 1 \in SetsOf(opt)
        BY <1>0, <1>3, SetIsMade DEF HandlesOf
      <3>2. j \in (IF Segs(opt, "DELETE") = 0 THEN {0} ELSE 1..Segs(opt, "DELETE"))
        BY <2>6, <2>7 DEF Segs
      <3>3. QED
        BY <2>8, <2>9, <3>1, <3>2 DEF Makes
    <2>12. g \in DOMAIN files' /\ files'[g] = <<>>
      BY <2>2
    <2>13. \A f \in DOMAIN files : f \in DOMAIN files' /\ (f # g => files'[f] = files[f])
      BY <2>2
    <2>14. ContentInv'
      <3>1. ASSUME NEW f \in DOMAIN files'
            PROVE  \/ f \in DOMAIN files /\ files'[f] = files[f]
                   \/ /\ Makes(opt, f) /\ Len(files'[f]) <= Size(opt, f)
                      /\ \A n \in DOMAIN files'[f] : files'[f][n].index = First(opt, f) + n
        <4>1. CASE f = g
          <5>1. Len(files'[f]) = 0 /\ DOMAIN files'[f] = {} /\ Size(opt, f) \in Nat
            BY <1>1, <2>11, <2>12, <4>1, SizesAreNatural, EmptyIsSequence
          <5>2. QED
            BY <2>11, <4>1, <5>1
        <4>2. CASE f # g
          BY <2>2, <4>2
        <4>3. QED
          BY <4>1, <4>2
      <3>2. QED
        BY <1>0, <1>1, <3>1, OnlyItsFiles DEF OnceInv, FillInv
    <2>15. EndedInv'
      <3>1. \A f : Makes(opt, f) \/ (f \in DOMAIN files => f \in DOMAIN files' /\ files'[f] = files[f])
        BY <2>11, <2>13
      <3>2. ended' \cap todo' = {} /\ opt' \notin ended' \cup todo'
        BY <1>0 DEF OnceInv, FillInv, EndedInv
      <3>3. QED
        BY <1>0, <1>1, <3>1, <3>2, EndedKeep DEF OnceInv, FillInv, EndedInv
    <2>16. StartInv'
      BY <1>0 DEF OnceInv, FillInv, StartInv
    <2>17. PastInv'
      <3> SUFFICES ASSUME NEW f, Makes(opt, f), Past(f)' PROVE Complete(opt, f)'
        BY <1>0 DEF PastInv
      <3>1. f.set \in Nat /\ f.of \in {"ORDER", "LINE", "DELETE"}
        BY <1>1, <1>3, FileOfSet
      <3>2. f.set <= upd_num \/ (f.set = upd_num + 1 /\ f.of # "DELETE")
        BY <1>0, <1>1, <1>3, <2>2 DEF Past
      <3>3. Complete(opt, f)
        <4>1. CASE f.set <= upd_num
          <5>1. Past(f)
            BY <1>1, <1>3, <4>1 DEF Past
          <5>2. QED
            BY <1>0, <5>1 DEF OnceInv, FillInv, PastInv
        <4>2. CASE f.set = upd_num + 1 /\ f.of # "DELETE"
          <5>1. f.of \in Handles("ORDER_LINE") /\ tab = "ORDER_LINE" /\ SetNow = upd_num + 1
            BY <1>0, <1>3, <3>1, <4>2 DEF Handles, Loader, OnceInv, RInv, IInv, UpdateInv, SetNow
          <5>2. QED
            BY <1>0, <4>2, <5>1, TableComplete
        <4>3. QED
          BY <3>2, <4>1, <4>2
      <3>4. f # g
        BY <1>1, <2>9, <3>1, <3>2
      <3>5. QED
        BY <1>0, <2>13, <3>3, <3>4 DEF Complete
    <2>18. /\ fp'["DELETE"] = [file |-> g, mode |-> upd_num + 1]
           /\ \A h \in Handle \ {"DELETE"} : fp'[h] = fp[h]
      <3>1. fp = [h \in Handle |-> fp[h]] /\ "DELETE" \in Handle
        BY DEF OnceInv, RInv, IInv, FpInv, Handle
      <3>2. QED
        BY <2>2, <3>1
    <2>19. OpenInv'
      <3>1. \A h \in Handle : fp'[h] = Closed \/ (fp'[h].file.of = h /\ Makes(opt, fp'[h].file))
        BY <1>0, <2>9, <2>11, <2>18 DEF OnceInv, FillInv, OpenInv
      <3>2. \A h \in Handle : fp'[h] = Closed \/ fp'[h].file.set <= upd_num + 1
        <4>1. \A h \in Handle : fp[h] = Closed \/ fp[h].file.set <= upd_num + 1
          BY <1>0, <1>3 DEF OnceInv, FillInv, OpenInv
        <4>2. upd_num + 1 <= upd_num + 1
          BY <1>1
        <4>3. QED
          BY <2>9, <2>18, <4>1, <4>2
      <3>3. QED
        BY <1>0, <1>1, <1>3, <2>2, <3>1, <3>2 DEF OpenInv
    <2>20. RowInv'
      BY <2>2 DEF RowInv
    <2>21. DeleteInv'
      <3>1. DeletesMade' = 0
        <4>1. PICK x \in Nat : x = upd_num * UpdateRows
          BY <1>1, ConstantsAreNatural, Products
        <4>2. DeletesMade' = (x + 1) - 1 - x
          BY <1>0, <2>2, <4>1 DEF DeletesMade
        <4>3. QED
          BY <4>1, <4>2
      <3>2. (IF opt.delete_segments = 0 THEN 0 ELSE segment["delete"])' = j
        BY <1>0, <2>7, <2>10
      <3>3. fp'["DELETE"].file = g /\ g = Name(opt', "DELETE", upd_num' + 1, j)
        BY <1>0, <2>8, <2>18
      <3>4. Len(files'[g]) = 0 /\ deletes'.this = 0 /\ deletes'.per = deletes.per
        BY <2>5, <2>12, EmptyIsSequence
      <3>5. ASSUME opt.delete_segments > 0
            PROVE  /\ j = 1 /\ j \in 1..opt.delete_segments
                   /\ deletes.per = Share(opt) \/ (deletes.per = 0 /\ 0 = 0)
                   /\ 0 = (j - 1) * Share(opt) + 0 /\ 0 <= Share(opt)
                   /\ 1..(j - 1) = {}
        <4>1. j = 1
          BY <2>6, <2>7, <3>5
        <4>2. PICK s \in Nat : s = Share(opt)
          BY <1>1, <3>5, DeleteShares
        <4>3. QED
          BY <2>4, <2>6, <3>5, <4>1, <4>2
      <3>6. /\ deletes'.per \in Nat /\ deletes'.this \in Nat /\ segment'["delete"] \in Nat
            /\ pc' = "drange"
        BY <2>2, <2>4, <2>7, <2>10, <3>4
      <3>7. opt' = opt /\ opt.delete_segments \in Nat
        BY <1>0, <2>6
      <3>8. opt.delete_segments > 0 => deletes'.per \in {0, Share(opt)}
        BY <2>4, <3>4
      <3>9. QED
        BY ONLY <2>12, <3>1, <3>2, <3>3, <3>4, <3>5, <3>6, <3>7, <3>8 DEF DeleteInv
    <2>22. SegmentTypes'
      <3>1. segment' = [c \in {"insert_orders", "insert_lineitem", "delete"} |-> segment'[c]]
        BY <2>2, <2>3
      <3>2. QED
        BY <1>0, <2>5, <3>1 DEF OnceInv, FillInv, SegmentTypes
    <2>23. QED
      BY <2>14, <2>15, <2>16, <2>17, <2>19, <2>20, <2>21, <2>22 DEF FillInv
  <1>4. QED
    BY <1>1, <1>2, <1>3

(* The file of the next key: the open one, or a new one when that has its   *)
(* share.                                                                   *)
Continues(j, q) ==
  LET f == Name(opt, "DELETE", upd_num + 1, j)
  IN  /\ q = <<>> \/ (f \in DOMAIN files /\ q = files[f])
      /\ opt.delete_segments = 0 => j = 0 /\ Len(q) = DeletesMade
      /\ opt.delete_segments > 0 =>
           /\ j \in 1..opt.delete_segments
           /\ DeletesMade = (j - 1) * Share(opt) + Len(q) /\ Len(q) + 1 <= Share(opt)
           /\ \A i \in 1..(j - 1) : Complete(opt, Name(opt, "DELETE", upd_num + 1, i))

KeyAdded(j, q) ==
  LET n == opt.delete_segments
      g == Name(opt, "DELETE", upd_num + 1, j)
  IN  /\ files' = [f \in DOMAIN files \cup {g} |->
                     IF f = g THEN Append(q, DeletedKey) ELSE files[f]]
      /\ fp' = [fp EXCEPT !["DELETE"].file = g]
      /\ segment' = [segment EXCEPT !["delete"] = IF n = 0 THEN segment["delete"] ELSE j]
      /\ deletes' = [per  |-> IF n = 0 THEN deletes.per ELSE Share(opt),
                     this |-> IF n = 0 THEN 0 ELSE Len(q) + 1]

LEMMA AtKey ==
  ASSUME OnceInv, Ordinary, pc = "drange"
  PROVE  /\ opt \in Command /\ Valid(opt) /\ opt.updates > 0 /\ opt.delete_segments \in Nat
         /\ upd_num \in Nat /\ mode = upd_num + 1 /\ row \in Nat /\ count \in Nat
         /\ DeletesMade \in Nat /\ DeletesMade + count = UpdateRows
         /\ row = upd_num * UpdateRows + DeletesMade + 1
         /\ upd_num * UpdateRows \in Nat
  <1>1. /\ opt \in Command /\ Valid(opt) /\ opt.updates > 0 /\ upd_num \in Nat
        /\ row \in Nat /\ count \in Nat
    BY CommandKnown DEF OnceInv, RInv, IInv, CountInv, UpdateInv
  <1>2. mode = upd_num + 1
    BY DEF OnceInv, RInv, RangeInv
  <1>3. PICK u \in Nat, x \in Nat : u = UpdateRows /\ x = upd_num * UpdateRows
    BY <1>1, ConstantsAreNatural, Products
  <1>4. (upd_num + 1) * UpdateRows = x + u
    BY <1>1, <1>3, Products
  <1>5. row > x /\ row + count = x + u + 1
    <2>1. row > upd_num * UpdateRows /\ row + count = (upd_num + 1) * UpdateRows + 1
      BY <1>1 DEF OnceInv, RInv, RangeInv
    <2>2. QED
      BY <1>3, <1>4, <2>1
  <1>6. DeletesMade = row - 1 - x
    BY <1>3 DEF DeletesMade
  <1>7. DeletesMade \in Nat /\ DeletesMade + count = u /\ row = x + DeletesMade + 1
    BY <1>1, <1>3, <1>5, <1>6
  <1>8. opt.delete_segments \in Nat
    BY <1>1 DEF Command
  <1>9. QED
    BY <1>1, <1>2, <1>3, <1>7, <1>8

LEMMA DeleteContinues ==
  ASSUME OnceInv, Ordinary, DeleteKey
  PROVE  \E j, q : Continues(j, q) /\ KeyAdded(j, q)
  <1>0. pc = "drange" /\ count > 0
    BY DEF DeleteKey
  <1>1. PICK per : per = IF deletes.per = 0 /\ opt.delete_segments > 0
                         THEN count \div opt.delete_segments + 1 ELSE deletes.per
    OBVIOUS
  <1>2. PICK over \in BOOLEAN : over <=> opt.delete_segments > 0 /\ deletes.this + 1 > per
    OBVIOUS
  <1>3. PICK g : g = IF over THEN print_prep("DELETE", mode) ELSE fp["DELETE"].file
    OBVIOUS
  <1>4. /\ deletes' = [per |-> per, this |-> IF over THEN 1
                                             ELSE IF opt.delete_segments > 0
                                                  THEN deletes.this + 1 ELSE 0]
        /\ files' = [f \in DOMAIN files \cup {g} |->
                       IF f = g THEN Append(IF over THEN <<>> ELSE files[g], DeletedKey)
                       ELSE files[f]]
        /\ fp' = [fp EXCEPT !["DELETE"].file = g]
        /\ segment' = [segment EXCEPT !["delete"] = IF over THEN @ + 1 ELSE @]
    BY <1>1, <1>2, <1>3 DEF DeleteKey, DeletedKey
  <1>5. /\ opt \in Command /\ Valid(opt) /\ opt.updates > 0 /\ upd_num \in Nat /\ mode = upd_num + 1
        /\ opt.delete_segments \in Nat
    BY <1>0, AtKey
  <1>6. PICK d \in Nat, u \in Nat, c \in Nat : d = DeletesMade /\ u = UpdateRows /\ c = count /\ d + c = u /\ d < u
    <2>1. /\ DeletesMade \in Nat /\ DeletesMade + count = UpdateRows /\ count \in Nat /\ UpdateRows \in Nat
      BY <1>0, AtKey, ConstantsAreNatural
    <2>2. DeletesMade < UpdateRows
      BY <1>0, <2>1
    <2>3. QED
      BY <2>1, <2>2
  <1>7. PICK n \in Nat : n = opt.delete_segments
    BY <1>5
  <1>8. PICK j0 : j0 = IF n = 0 THEN 0 ELSE segment["delete"]
    OBVIOUS
  <1>9. PICK f : f = Name(opt, "DELETE", upd_num + 1, j0)
    OBVIOUS
  <1>10. /\ fp["DELETE"].file = f /\ f \in DOMAIN files /\ deletes.this \in Nat /\ deletes.per \in Nat
         /\ n = 0 => Len(files[f]) = d
         /\ n > 0 => /\ j0 \in 1..n /\ Len(files[f]) = deletes.this
                     /\ deletes.per = Share(opt) \/ (deletes.per = 0 /\ d = 0)
                     /\ d = (j0 - 1) * Share(opt) + deletes.this /\ deletes.this <= Share(opt)
                     /\ \A i \in 1..(j0 - 1) : Complete(opt, Name(opt, "DELETE", upd_num + 1, i))
    BY <1>0, <1>6, <1>7, <1>8, <1>9 DEF OnceInv, FillInv, DeleteInv
  <1>11. segment = [s \in {"insert_orders", "insert_lineitem", "delete"} |-> segment[s]]
    BY DEF OnceInv, FillInv, SegmentTypes
  <1>12. CASE n = 0
    <2>1. ~over /\ per = deletes.per /\ g = f
      BY <1>1, <1>2, <1>3, <1>7, <1>10, <1>12
    <2>2. Continues(0, files[f])
      BY <1>6, <1>7, <1>8, <1>9, <1>10, <1>12 DEF Continues
    <2>3. segment' = [segment EXCEPT !["delete"] = segment["delete"]]
      BY <1>4, <2>1
    <2>4. deletes' = [per |-> deletes.per, this |-> 0]
      BY <1>4, <1>7, <1>12, <2>1
    <2>5. files' = [x \in DOMAIN files \cup {f} |->
                      IF x = f THEN Append(files[f], DeletedKey) ELSE files[x]]
          /\ fp' = [fp EXCEPT !["DELETE"].file = f]
      BY <1>4, <2>1
    <2>6. f = Name(opt, "DELETE", upd_num + 1, 0)
      BY <1>8, <1>9, <1>12
    <2>7. KeyAdded(0, files[f])
      BY <1>7, <1>12, <2>3, <2>4, <2>5, <2>6 DEF KeyAdded
    <2>8. QED
      BY <2>2, <2>7
  <1>13. CASE n > 0
    <2>0. n # 0 /\ j0 = segment["delete"]
      BY <1>8, <1>13
    <2>1. PICK s \in Nat \ {0} : s = Share(opt)
      BY <1>5, <1>7, <1>13, DeleteShares
    <2>2. /\ n * s >= u
          /\ \A j \in Nat : j * s \in Nat /\ (j + 1) * s = j * s + s
      BY <1>5, <1>6, <1>7, <1>13, <2>1, DeleteShares
    <2>3. per = s
      <3>1. CASE deletes.per = s
        BY <1>1, <2>1, <3>1
      <3>2. CASE deletes.per = 0 /\ d = 0
        <4>1. count = UpdateRows
          BY <1>6, <3>2
        <4>2. QED
          BY <1>1, <1>7, <1>13, <2>1, <3>2, <4>1 DEF Share
      <3>3. QED
        BY <1>10, <1>13, <2>1, <3>1, <3>2
    <2>4. PICK l \in Nat : l = deletes.this /\ l <= s /\ Len(files[f]) = l
      BY <1>10, <1>13, <2>1
    <2>5. j0 \in 1..n /\ j0 - 1 \in Nat /\ j0 \in Nat /\ (j0 - 1) + 1 = j0
      BY <1>10, <1>13
    <2>6. PICK x \in Nat : x = (j0 - 1) * s /\ j0 * s = x + s
      <3>1. (j0 - 1) * s \in Nat /\ ((j0 - 1) + 1) * s = (j0 - 1) * s + s
        BY <2>2, <2>5
      <3>2. QED
        BY <2>5, <3>1
    <2>7. d = x + l
      BY <1>10, <1>13, <2>1, <2>4, <2>6
    <2>8. over <=> l = s
      BY <1>2, <1>7, <1>13, <2>3, <2>4
    <2>9. CASE ~over
      <3>1. g = f /\ l + 1 <= s
        BY <1>3, <1>10, <2>4, <2>8, <2>9
      <3>2. Continues(j0, files[f])
        <4>1. /\ DeletesMade = (j0 - 1) * Share(opt) + Len(files[f])
              /\ Len(files[f]) + 1 <= Share(opt)
          BY <1>6, <2>1, <2>4, <2>6, <2>7, <3>1
        <4>2. QED
          BY <1>7, <1>9, <1>10, <1>13, <4>1 DEF Continues
      <3>3. segment' = [segment EXCEPT !["delete"] = j0]
        <4>1. segment' = [segment EXCEPT !["delete"] = segment["delete"]]
          BY <1>4, <2>9
        <4>2. QED
          BY <2>0, <4>1
      <3>4. deletes' = [per |-> Share(opt), this |-> Len(files[f]) + 1]
        BY <1>4, <1>7, <1>13, <2>1, <2>3, <2>4, <2>9
      <3>5. files' = [y \in DOMAIN files \cup {f} |->
                        IF y = f THEN Append(files[f], DeletedKey) ELSE files[y]]
            /\ fp' = [fp EXCEPT !["DELETE"].file = f]
        BY <1>4, <2>9, <3>1
      <3>6. KeyAdded(j0, files[f])
        BY <1>7, <1>9, <2>0, <3>3, <3>4, <3>5 DEF KeyAdded
      <3>7. QED
        BY <3>2, <3>6
    <2>10. CASE over
      <3>1. PICK j : j = j0 + 1
        OBVIOUS
      <3>2. g = Name(opt, "DELETE", upd_num + 1, j)
        <4>1. g = print_prep("DELETE", mode)
          BY <1>3, <2>10
        <4>2. print_prep("DELETE", mode) = Name(opt, "DELETE", upd_num + 1,
                 IF opt.delete_segments = 0 THEN 0 ELSE segment["delete"] + 1)
          BY <1>0, <1>5, DeleteNamed
        <4>3. QED
          BY <1>7, <1>8, <1>13, <3>1, <4>1, <4>2
      <3>3. d = x + s
        BY <2>7, <2>8, <2>10
      <3>4. j0 < n
        BY <1>6, <2>2, <2>5, <2>6, <3>3
      <3>5. Continues(j, <<>>)
        <4>1. j \in 1..n /\ j - 1 = j0
          BY <2>5, <3>1, <3>4
        <4>2. d = (j - 1) * s + 0 /\ 0 + 1 <= s
          BY <1>6, <2>1, <2>6, <3>3, <4>1
        <4>3. Complete(opt, f)
          <5>1. Size(opt, f) = SegStart(opt, "DELETE", j0) - SegStart(opt, "DELETE", j0 - 1)
            <6>1. f.seg = j0 /\ f.of = "DELETE" /\ j0 # 0
              BY <1>9, <2>5 DEF Name
            <6>2. QED
              BY <6>1 DEF Size
          <5>2. SegStart(opt, "DELETE", j0) = x + s /\ SegStart(opt, "DELETE", j0 - 1) = x
            <6>1. \A i \in Nat : SegStart(opt, "DELETE", i) = IF i * s <= u THEN i * s ELSE u
              BY <1>5, <1>6, <1>7, <1>13, <2>1, DeleteShares
            <6>2. QED
              BY <1>6, <2>1, <2>5, <2>6, <3>3, <6>1
          <5>3. Size(opt, f) = s /\ Len(files[f]) = s
            BY <2>1, <2>4, <2>6, <2>8, <2>10, <5>1, <5>2
          <5>4. QED
            BY <1>10, <5>3 DEF Complete
        <4>4. ASSUME NEW i \in 1..(j - 1) PROVE Complete(opt, Name(opt, "DELETE", upd_num + 1, i))
          <5>1. i = j0 \/ i \in 1..(j0 - 1)
            BY <2>5, <4>1
          <5>2. QED
            BY <1>9, <1>10, <1>13, <4>3, <5>1
        <4>5. QED
          BY <1>6, <1>7, <1>13, <2>1, <4>1, <4>2, <4>4, EmptyIsSequence DEF Continues
      <3>6. segment' = [segment EXCEPT !["delete"] = j]
        <4>1. segment' = [segment EXCEPT !["delete"] = segment["delete"] + 1]
          BY <1>4, <1>11, <2>10
        <4>2. QED
          BY <2>0, <3>1, <4>1
      <3>7. deletes' = [per |-> Share(opt), this |-> Len(<<>>) + 1]
        BY <1>4, <2>1, <2>3, <2>10, EmptyIsSequence
      <3>8. files' = [y \in DOMAIN files \cup {g} |->
                        IF y = g THEN Append(<<>>, DeletedKey) ELSE files[y]]
            /\ fp' = [fp EXCEPT !["DELETE"].file = g]
        BY <1>4, <2>10
      <3>9. KeyAdded(j, <<>>)
        BY <1>7, <2>0, <3>2, <3>6, <3>7, <3>8 DEF KeyAdded
      <3>10. QED
        BY <3>5, <3>9
    <2>11. QED
      BY <2>9, <2>10
  <1>14. n = 0 \/ n > 0
    OBVIOUS
  <1>15. QED
    BY <1>12, <1>13, <1>14

(* A share that begins at y and has l of its s rows.                        *)
LEMMA Shares ==
  /\ \A y, l, s, u \in Nat : y + l < u /\ l + 1 <= s =>
       y <= u /\ l + 1 <= (IF y + s <= u THEN y + s ELSE u) - y
  /\ \A y, l, s \in Nat : l <= s =>
       (IF y + s <= y + l THEN y + s ELSE y + l) - (IF y <= y + l THEN y ELSE y + l) = l
  /\ \A x, s, d \in Nat : d <= x =>
       (IF x + s <= d THEN x + s ELSE d) - (IF x <= d THEN x ELSE d) = 0
  BY SMT

LEMMA KeyFitsFile ==
  ASSUME OnceInv, Ordinary, pc = "drange", count > 0,
         NEW j, NEW q, Continues(j, q), NEW g, g = Name(opt, "DELETE", upd_num + 1, j)
  PROVE  /\ Makes(opt, g) /\ IsSequence(q) /\ Len(q) \in Nat
         /\ Len(q) + 1 <= Size(opt, g) /\ row = First(opt, g) + (Len(q) + 1)
         /\ \A n \in DOMAIN q : q[n].index = First(opt, g) + n
  <1>0. /\ opt \in Command /\ Valid(opt) /\ opt.updates > 0 /\ opt.delete_segments \in Nat
        /\ upd_num \in Nat
    BY AtKey
  <1>1. g.of = "DELETE" /\ g.set = upd_num + 1 /\ g.seg = j
    BY DEF Name
  <1>2. Segs(opt, "DELETE") = opt.delete_segments
    BY DEF Segs
  <1>3. Makes(opt, g)
    <2>1. "DELETE" \in HandlesOf(opt) /\ upd_num + 1 \in SetsOf(opt)
      BY <1>0, SetIsMade DEF HandlesOf
    <2>2. j \in (IF opt.delete_segments = 0 THEN {0} ELSE 1..opt.delete_segments)
      BY <1>0 DEF Continues
    <2>3. QED
      BY <1>1, <1>2, <2>1, <2>2 DEF Makes
  <1>4. q = <<>> \/ (g \in DOMAIN files /\ q = files[g])
    BY DEF Continues
  <1>5. IsSequence(q) /\ Len(q) \in Nat
    <2>1. CASE q = <<>>
      BY <2>1, EmptyIsSequence
    <2>2. CASE q = files[g] /\ g \in DOMAIN files
      BY <2>2, AppendIsSequence DEF OnceInv, RInv, IInv, FilesInv
    <2>3. QED
      BY <1>4, <2>1, <2>2
  <1>6. \A n \in DOMAIN q : q[n].index = First(opt, g) + n
    <2>1. CASE q = <<>>
      BY <2>1, EmptyIsSequence
    <2>2. CASE q = files[g] /\ g \in DOMAIN files
      <3>1. Maker(opt, g)
        BY <1>0, <1>3 DEF Maker, OnceInv, RInv, IInv, CommandInv
      <3>2. Holds(opt, g)
        BY <2>2, <3>1 DEF OnceInv, FillInv, ContentInv
      <3>3. QED
        BY <2>2, <3>2 DEF Holds
    <2>3. QED
      BY <1>4, <2>1, <2>2
  <1>7. PICK d \in Nat, u \in Nat, x \in Nat, l \in Nat :
          /\ d = DeletesMade /\ u = UpdateRows /\ x = upd_num * UpdateRows /\ l = Len(q)
          /\ d < u /\ row = x + d + 1
    <2>1. /\ DeletesMade \in Nat /\ DeletesMade + count = UpdateRows /\ count \in Nat /\ UpdateRows \in Nat
          /\ row = upd_num * UpdateRows + DeletesMade + 1 /\ upd_num * UpdateRows \in Nat
      BY AtKey, ConstantsAreNatural
    <2>2. DeletesMade < UpdateRows
      BY <2>1
    <2>3. QED
      BY <1>5, <2>1, <2>2
  <1>8. Base(opt, g.of, g.set) = x /\ Total(opt, g.of) = u
    <2>1. (upd_num + 1) - 1 = upd_num
      BY <1>0
    <2>2. QED
      BY <1>0, <1>1, <1>7, <2>1 DEF Base, Total
  <1>9. CASE opt.delete_segments = 0
    <2>1. j = 0 /\ l = d
      BY <1>7, <1>9 DEF Continues
    <2>2. First(opt, g) = x + 0 /\ Size(opt, g) = u
      BY <1>1, <1>8, <2>1 DEF First, Size
    <2>3. l + 1 <= u /\ row = x + 0 + (l + 1)
      BY <1>7, <2>1
    <2>4. QED
      BY <1>3, <1>5, <1>6, <1>7, <2>2, <2>3
  <1>10. CASE opt.delete_segments > 0
    <2>1. PICK n \in Nat : n = opt.delete_segments /\ n > 0
      BY <1>0, <1>10
    <2>2. PICK s \in Nat \ {0} : s = Share(opt)
      BY <1>0, <1>10, DeleteShares
    <2>3. j \in 1..n /\ j - 1 \in Nat /\ j \in Nat /\ (j - 1) + 1 = j /\ j # 0
      <3>1. j \in 1..n
        BY <1>10, <2>1 DEF Continues
      <3>2. QED
        BY <3>1
    <2>4. PICK y \in Nat : y = (j - 1) * s /\ j * s = y + s
      <3>1. \A i \in Nat : i * s \in Nat /\ (i + 1) * s = i * s + s
        BY <1>0, <1>10, <2>2, DeleteShares
      <3>2. (j - 1) * s \in Nat /\ ((j - 1) + 1) * s = (j - 1) * s + s
        BY <2>3, <3>1
      <3>3. QED
        BY <2>3, <3>2
    <2>5. d = y + l /\ l + 1 <= s
      BY <1>7, <1>10, <2>2, <2>4 DEF Continues
    <2>6. PICK v : v = SegStart(opt, "DELETE", j)
      OBVIOUS
    <2>7. SegStart(opt, "DELETE", j - 1) = y /\ v = IF y + s <= u THEN y + s ELSE u
      <3>1. \A i \in Nat : SegStart(opt, "DELETE", i) = IF i * s <= u THEN i * s ELSE u
        BY <1>0, <1>7, <1>10, <2>2, DeleteShares
      <3>2. SegStart(opt, "DELETE", j - 1) = IF y <= u THEN y ELSE u
        BY <2>3, <2>4, <3>1
      <3>3. SegStart(opt, "DELETE", j) = IF y + s <= u THEN y + s ELSE u
        BY <2>3, <2>4, <3>1
      <3>4. y <= u
        BY <1>7, <2>5
      <3>5. QED
        BY <2>6, <3>2, <3>3, <3>4
    <2>8. First(opt, g) = x + y /\ Size(opt, g) = v - y
      BY <1>1, <1>8, <2>3, <2>6, <2>7 DEF First, Size
    <2>9. l + 1 <= v - y /\ row = (x + y) + (l + 1)
      <3>1. row = (x + y) + (l + 1)
        BY <1>7, <2>5
      <3>2. y \in Nat /\ l \in Nat /\ s \in Nat /\ u \in Nat /\ y + l < u /\ l + 1 <= s
        BY <1>7, <2>2, <2>4, <2>5
      <3>3. l + 1 <= (IF y + s <= u THEN y + s ELSE u) - y
        BY ONLY <3>2, Shares
      <3>4. QED
        BY <2>7, <3>1, <3>3
    <2>10. QED
      BY <1>3, <1>5, <1>6, <1>7, <2>8, <2>9
  <1>11. QED
    BY <1>0, <1>9, <1>10

LEMMA DeleteKeyFills ==
  ASSUME OnceInv, Ordinary, OneDataSet, DeleteKey
  PROVE  FillInv'
  <1>0. /\ pc = "drange" /\ count > 0 /\ row' = row + 1 /\ pc' = "drange"
        /\ UNCHANGED <<plan, todo, ended, opt, left, tab, upd_num, rows_this_segment>>
    BY DEF DeleteKey
  <1>1. opt \in plan /\ plan \in Plans /\ Valid(opt) /\ opt \in Command /\ opt \notin ended
        /\ opt.updates > 0 /\ upd_num \in Nat /\ opt.delete_segments \in Nat
    BY <1>0, AtKey DEF OnceInv, RInv, IInv, CommandInv, CountInv, FillInv, EndedInv
  <1>2. PICK j, q : Continues(j, q) /\ KeyAdded(j, q)
    BY DeleteContinues
  <1>3. PICK g : g = Name(opt, "DELETE", upd_num + 1, j)
    OBVIOUS
  <1>4. /\ files' = [f \in DOMAIN files \cup {g} |->
                       IF f = g THEN Append(q, DeletedKey) ELSE files[f]]
        /\ fp' = [fp EXCEPT !["DELETE"].file = g]
        /\ segment' = [segment EXCEPT !["delete"] =
                         IF opt.delete_segments = 0 THEN segment["delete"] ELSE j]
        /\ deletes' = [per  |-> IF opt.delete_segments = 0 THEN deletes.per ELSE Share(opt),
                       this |-> IF opt.delete_segments = 0 THEN 0 ELSE Len(q) + 1]
    BY <1>2, <1>3 DEF KeyAdded
  <1>5. /\ Makes(opt, g) /\ IsSequence(q) /\ Len(q) \in Nat
        /\ Len(q) + 1 <= Size(opt, g) /\ row = First(opt, g) + (Len(q) + 1)
        /\ \A n \in DOMAIN q : q[n].index = First(opt, g) + n
    BY <1>0, <1>2, <1>3, KeyFitsFile
  <1>6. g.of = "DELETE" /\ g.set = upd_num + 1 /\ g.seg = j
    BY <1>3 DEF Name
  <1>7. PICK e, p : e = DeletedKey /\ p = Append(q, e)
    OBVIOUS
  <1>8. /\ g \in DOMAIN files' /\ files'[g] = p
        /\ \A f \in DOMAIN files : f \in DOMAIN files' /\ (f # g => files'[f] = files[f])
        /\ DOMAIN files' = DOMAIN files \cup {g}
    BY <1>4, <1>7
  <1>9. Len(p) = Len(q) + 1
    BY <1>5, <1>7, AppendIsLonger
  <1>10. \A n \in DOMAIN p : p[n].index = First(opt, g) + n
    <2>1. /\ DOMAIN p = 1..(Len(q) + 1) /\ DOMAIN q = 1..Len(q)
          /\ \A n \in 1..Len(q) : p[n] = q[n]
          /\ p[Len(q) + 1] = e
      BY <1>5, <1>7, AppendIsSequence
    <2>2. e.index = row
      BY <1>7 DEF DeletedKey
    <2> SUFFICES ASSUME NEW n \in 1..(Len(q) + 1) PROVE p[n].index = First(opt, g) + n
      BY <2>1
    <2>3. n \in 1..Len(q) \/ n = Len(q) + 1
      BY <1>5
    <2>4. QED
      BY <1>5, <2>1, <2>2, <2>3
  <1>11. ContentInv'
    <2>1. ASSUME NEW f \in DOMAIN files'
          PROVE  \/ f \in DOMAIN files /\ files'[f] = files[f]
                 \/ /\ Makes(opt, f) /\ Len(files'[f]) <= Size(opt, f)
                    /\ \A n \in DOMAIN files'[f] : files'[f][n].index = First(opt, f) + n
      <3>1. CASE f = g
        BY <1>5, <1>8, <1>9, <1>10, <3>1
      <3>2. CASE f # g
        BY <1>8, <3>2
      <3>3. QED
        BY <3>1, <3>2
    <2>2. QED
      BY <1>0, <1>1, <2>1, OnlyItsFiles DEF OnceInv, FillInv
  <1>12. EndedInv'
    <2>1. \A f : Makes(opt, f) \/ (f \in DOMAIN files => f \in DOMAIN files' /\ files'[f] = files[f])
      BY <1>5, <1>8
    <2>2. ended' \cap todo' = {} /\ opt' \notin ended' \cup todo'
      BY <1>0 DEF OnceInv, FillInv, EndedInv
    <2>3. QED
      BY <1>0, <1>1, <2>1, <2>2, EndedKeep DEF OnceInv, FillInv, EndedInv
  <1>13. StartInv'
    BY <1>0 DEF OnceInv, FillInv, StartInv
  <1>14. PastInv'
    <2> SUFFICES ASSUME NEW f, Makes(opt, f), Past(f)' PROVE Complete(opt, f)'
      BY <1>0 DEF PastInv
    <2>1. Past(f)
      BY <1>0 DEF Past
    <2>2. Complete(opt, f)
      BY <1>0, <2>1 DEF OnceInv, FillInv, PastInv
    <2>3. f # g
      <3>1. f.set \in Nat /\ opt.updates # 0
        BY <1>1, FileOfSet
      <3>2. f.set <= upd_num \/ f.of # "DELETE"
        BY <2>1, <3>1 DEF Past
      <3>3. QED
        BY <1>1, <1>6, <3>1, <3>2
    <2>4. QED
      BY <1>0, <1>8, <2>2, <2>3 DEF Complete
  <1>15. /\ fp'["DELETE"].file = g
         /\ \A h \in Handle \ {"DELETE"} : fp'[h] = fp[h]
    <2>1. /\ fp = [h \in Handle |-> fp[h]] /\ "DELETE" \in Handle
          /\ fp["DELETE"] = [file |-> fp["DELETE"].file, mode |-> fp["DELETE"].mode]
      BY DEF OnceInv, RInv, IInv, FpInv, Handle
    <2>2. QED
      BY <1>4, <2>1
  <1>16. OpenInv'
    <2>1. \A h \in Handle : fp'[h] = Closed \/ (fp'[h].file.of = h /\ Makes(opt, fp'[h].file))
      BY <1>0, <1>5, <1>6, <1>15 DEF OnceInv, FillInv, OpenInv
    <2>2. \A h \in Handle : fp'[h] = Closed \/ fp'[h].file.set <= upd_num + 1
      <3>1. \A h \in Handle : fp[h] = Closed \/ fp[h].file.set <= upd_num + 1
        BY <1>0, <1>1 DEF OnceInv, FillInv, OpenInv
      <3>2. upd_num + 1 <= upd_num + 1
        BY <1>1
      <3>3. QED
        BY <1>6, <1>15, <3>1, <3>2
    <2>3. opt.updates # 0
      BY <1>1
    <2>4. QED
      BY <1>0, <1>1, <2>1, <2>2, <2>3 DEF OpenInv
  <1>17. RowInv'
    BY <1>0 DEF RowInv
  <1>18. segment = [c \in {"insert_orders", "insert_lineitem", "delete"} |-> segment[c]]
    BY DEF OnceInv, FillInv, SegmentTypes
  <1>19. DeleteInv'
    <2>1. PICK d \in Nat : d = DeletesMade
      BY <1>0, AtKey
    <2>2. DeletesMade' = d + 1
      <3>1. PICK x \in Nat : x = upd_num * UpdateRows /\ row = x + d + 1
        BY <1>0, <2>1, AtKey
      <3>2. DeletesMade' = (row + 1) - 1 - x
        BY <1>0, <3>1 DEF DeletesMade
      <3>3. QED
        BY <2>1, <3>1, <3>2
    <2>3. deletes.per \in Nat /\ segment["delete"] \in Nat
      BY DEF OnceInv, FillInv, DeleteInv
    <2>4. PICK l \in Nat : l = Len(q) /\ Len(files'[g]) = l + 1
      BY <1>5, <1>8, <1>9
    <2>5. CASE opt.delete_segments = 0
      <3>1. j = 0 /\ l = d
        BY <1>2, <2>1, <2>4, <2>5 DEF Continues
      <3>2. /\ deletes' = [per |-> deletes.per, this |-> 0] /\ segment'["delete"] = segment["delete"]
        BY <1>4, <1>18, <2>5
      <3>3. deletes'.per \in Nat /\ deletes'.this \in Nat /\ segment'["delete"] \in Nat
        BY <2>3, <3>2
      <3>4. (IF opt.delete_segments = 0 THEN 0 ELSE segment["delete"])' = 0 /\ ~(opt'.delete_segments > 0)
        BY <1>0, <2>5
      <3>5. fp'["DELETE"].file = g /\ g = Name(opt', "DELETE", upd_num' + 1, 0) /\ g \in DOMAIN files'
        BY <1>0, <1>3, <1>8, <1>15, <3>1
      <3>6. Len(files'[g]) = DeletesMade'
        BY <2>2, <2>4, <3>1
      <3>7. QED
        BY ONLY <1>0, <3>3, <3>4, <3>5, <3>6 DEF DeleteInv
    <2>6. CASE opt.delete_segments > 0
      <3>1. PICK s \in Nat : s = Share(opt)
        BY <1>1, <2>6, DeleteShares
      <3>2. /\ j \in 1..opt.delete_segments /\ d = (j - 1) * Share(opt) + l /\ l + 1 <= Share(opt)
            /\ \A i \in 1..(j - 1) : Complete(opt, Name(opt, "DELETE", upd_num + 1, i))
        BY <1>2, <2>1, <2>4, <2>6 DEF Continues
      <3>3. deletes'.per = Share(opt) /\ deletes'.this = l + 1 /\ segment'["delete"] = j
        BY <1>4, <1>18, <2>4, <2>6
      <3>4. j \in Nat /\ j \in Int
        BY <1>1, <3>2
      <3>5. deletes'.per \in Nat /\ deletes'.this \in Nat /\ segment'["delete"] \in Nat
        BY <2>4, <3>1, <3>3, <3>4
      <3>6. (IF opt.delete_segments = 0 THEN 0 ELSE segment["delete"])' = j /\ opt'.delete_segments # 0
        BY <1>0, <2>6, <3>3
      <3>7. fp'["DELETE"].file = g /\ g = Name(opt', "DELETE", upd_num' + 1, j) /\ g \in DOMAIN files'
        BY <1>0, <1>3, <1>8, <1>15
      <3>8. DeletesMade' = (j - 1) * Share(opt) + deletes'.this /\ deletes'.this <= Share(opt)
        <4>1. PICK y \in Nat : y = (j - 1) * Share(opt)
          <5>1. j - 1 \in Nat
            BY <1>1, <3>2
          <5>2. QED
            BY <1>1, <2>6, <5>1, DeleteShares
        <4>2. QED
          BY <2>2, <2>4, <3>1, <3>2, <3>3, <4>1
      <3>9. ASSUME NEW i \in 1..(j - 1) PROVE Complete(opt, Name(opt, "DELETE", upd_num + 1, i))'
        <4>1. PICK f : f = Name(opt, "DELETE", upd_num + 1, i)
          OBVIOUS
        <4>2. Complete(opt, f)
          BY <3>2, <3>9, <4>1
        <4>3. f # g
          <5>1. f.seg = i
            BY <4>1 DEF Name
          <5>2. i # j
            BY ONLY <3>4, <3>9
          <5>3. QED
            BY <1>6, <5>1, <5>2
        <4>4. QED
          BY <1>0, <1>8, <4>1, <4>2, <4>3 DEF Complete
      <3>10. /\ j \in 1..opt'.delete_segments /\ Len(files'[g]) = deletes'.this /\ opt' = opt
             /\ deletes'.per = Share(opt)
        BY <1>0, <2>4, <3>2, <3>3
      <3>11. QED
        BY ONLY <1>0, <3>5, <3>6, <3>7, <3>8, <3>9, <3>10 DEF DeleteInv
    <2>7. QED
      BY <1>1, <2>5, <2>6
  <1>20. SegmentTypes'
    <2>1. segment' = [c \in {"insert_orders", "insert_lineitem", "delete"} |-> segment'[c]]
      BY <1>4, <1>18
    <2>2. deletes' = [per |-> deletes'.per, this |-> deletes'.this]
      BY <1>4
    <2>3. QED
      BY <1>0, <2>1, <2>2 DEF OnceInv, FillInv, SegmentTypes
  <1>21. QED
    BY <1>11, <1>12, <1>13, <1>14, <1>16, <1>17, <1>19, <1>20 DEF FillInv

LEMMA EndUpdateFills ==
  ASSUME OnceInv, Ordinary, EndUpdate
  PROVE  FillInv'
  <1>0. /\ pc = "drange" /\ count = 0 /\ upd_num' = upd_num + 1 /\ pc' = "update"
        /\ UNCHANGED <<plan, todo, ended, files, opt, left, tab, row, count, mode,
                       rows_this_segment, fp, segment, deletes>>
    BY DEF EndUpdate
  <1>1. /\ opt \in Command /\ Valid(opt) /\ opt.updates > 0 /\ opt.updates # 0 /\ upd_num \in Nat
        /\ opt.delete_segments \in Nat
    BY <1>0, AtKey
  <1>2. StartInv'
    <2>1. opt.step > 0 => upd_num >= opt.step - 1
      BY <1>0, <1>1 DEF OnceInv, FillInv, StartInv
    <2>2. opt.step \in Int
      BY <1>1 DEF Command
    <2>3. QED
      BY <1>0, <1>1, <2>1, <2>2 DEF StartInv
  <1>3. ContentInv'
    BY <1>0, SameFiles DEF OnceInv, FillInv
  <1>4. EndedInv'
    <2>1. ended' \cap todo' = {} /\ opt' \notin ended' \cup todo'
      BY <1>0 DEF OnceInv, FillInv, EndedInv
    <2>2. QED
      BY <1>0, <2>1, SameEnded DEF OnceInv, FillInv, EndedInv
  <1>5. PICK d \in Nat : d = DeletesMade /\ d = UpdateRows
    <2>1. DeletesMade \in Nat /\ DeletesMade + count = UpdateRows
      BY <1>0, AtKey
    <2>2. QED
      BY <1>0, <2>1
  <1>6. ASSUME NEW f, Makes(opt, f), f.set = upd_num + 1, f.of = "DELETE"
        PROVE  Complete(opt, f)
    <2>1. PICK n \in Nat : n = opt.delete_segments
      BY <1>1
    <2>2. f = Name(opt, "DELETE", upd_num + 1, f.seg) /\ f.seg \in (IF n = 0 THEN {0} ELSE 1..n)
      BY <1>6, <2>1 DEF Makes, Segs
    <2>3. PICK j : j = IF n = 0 THEN 0 ELSE segment["delete"]
      OBVIOUS
    <2>4. PICK g : g = Name(opt, "DELETE", upd_num + 1, j)
      OBVIOUS
    <2>5. /\ g \in DOMAIN files
          /\ n = 0 => Len(files[g]) = d
          /\ n > 0 => /\ j \in 1..n /\ Len(files[g]) = deletes.this /\ deletes.this \in Nat
                      /\ d = (j - 1) * Share(opt) + deletes.this /\ deletes.this <= Share(opt)
                      /\ \A i \in 1..(j - 1) : Complete(opt, Name(opt, "DELETE", upd_num + 1, i))
      BY <1>0, <1>5, <2>1, <2>3, <2>4 DEF OnceInv, FillInv, DeleteInv
    <2>6. CASE n = 0
      <3>1. f = g /\ f.seg = 0
        BY <2>2, <2>3, <2>4, <2>6
      <3>2. Size(opt, f) = d
        BY <1>1, <1>5, <3>1 DEF Size, Total
      <3>3. QED
        BY <2>5, <2>6, <3>1, <3>2 DEF Complete
    <2>7. CASE n > 0
      <3>1. PICK s \in Nat \ {0} : s = Share(opt)
        BY <1>1, <2>1, <2>7, DeleteShares
      <3>2. PICK i \in 1..n : i = f.seg
        BY <2>2, <2>7
      <3>3. /\ \A k \in Nat : k * s \in Nat /\ (k + 1) * s = k * s + s
            /\ \A k \in Nat : SegStart(opt, "DELETE", k) = IF k * s <= d THEN k * s ELSE d
        BY <1>1, <1>5, <2>1, <2>7, <3>1, DeleteShares
      <3>4. j \in 1..n
        BY <2>5, <2>7
      <3>5. /\ i \in Nat /\ i - 1 \in Nat /\ (i - 1) + 1 = i /\ i # 0
            /\ j \in Nat /\ j - 1 \in Nat /\ (j - 1) + 1 = j
        BY <3>2, <3>4
      <3>6. Size(opt, f) = SegStart(opt, "DELETE", i) - SegStart(opt, "DELETE", i - 1)
        BY <1>6, <3>2, <3>5 DEF Size
      <3>7. PICK x \in Nat, y \in Nat : /\ x = (i - 1) * s /\ i * s = x + s
                                        /\ y = (j - 1) * s /\ j * s = y + s
        <4>1. (i - 1) * s \in Nat /\ ((i - 1) + 1) * s = (i - 1) * s + s
          BY <3>3, <3>5
        <4>2. (j - 1) * s \in Nat /\ ((j - 1) + 1) * s = (j - 1) * s + s
          BY <3>3, <3>5
        <4>3. QED
          BY <3>5, <4>1, <4>2
      <3>8. PICK l \in Nat : l = deletes.this /\ l <= s /\ d = y + l /\ Len(files[g]) = l
        BY <2>5, <2>7, <3>1, <3>7
      <3>9. /\ SegStart(opt, "DELETE", i) = IF x + s <= d THEN x + s ELSE d
            /\ SegStart(opt, "DELETE", i - 1) = IF x <= d THEN x ELSE d
        BY <3>3, <3>5, <3>7
      <3>10. CASE i < j
        <4>1. i \in 1..(j - 1)
          BY <3>2, <3>4, <3>10
        <4>2. QED
          BY <2>2, <2>5, <2>7, <3>2, <4>1
      <3>11. CASE i = j
        <4>1. f = g
          BY <2>2, <2>4, <3>2, <3>11
        <4>2. x = y
          BY <3>7, <3>11
        <4>3. Size(opt, f) = l
          <5>1. y \in Nat /\ l \in Nat /\ s \in Nat /\ l <= s
            BY <3>1, <3>7, <3>8
          <5>2. (IF y + s <= y + l THEN y + s ELSE y + l) - (IF y <= y + l THEN y ELSE y + l) = l
            BY ONLY <5>1, Shares
          <5>3. QED
            BY <3>6, <3>8, <3>9, <4>2, <5>2
        <4>4. QED
          BY <2>5, <3>8, <4>1, <4>3 DEF Complete
      <3>12. CASE i > j
        <4>1. j <= i - 1
          BY <3>5, <3>12
        <4>2. j * s <= (i - 1) * s
          BY <3>1, <3>5, <4>1, Products
        <4>3. d <= x
          BY <3>7, <3>8, <4>2
        <4>4. Size(opt, f) = 0
          <5>1. x \in Nat /\ s \in Nat /\ d \in Nat /\ d <= x
            BY <1>5, <3>1, <3>7, <4>3
          <5>2. (IF x + s <= d THEN x + s ELSE d) - (IF x <= d THEN x ELSE d) = 0
            BY ONLY <5>1, Shares
          <5>3. QED
            BY <3>6, <3>9, <5>2
        <4>5. QED
          BY <4>4 DEF Complete
      <3>13. QED
        BY <3>5, <3>10, <3>11, <3>12
    <2>8. QED
      BY <2>6, <2>7
  <1>7. PastInv'
    <2> SUFFICES ASSUME NEW f, Makes(opt, f), Past(f)' PROVE Complete(opt, f)'
      BY <1>0 DEF PastInv
    <2>1. f.set \in Nat /\ f.set <= upd_num + 1
      BY <1>0, <1>1, FileOfSet DEF Past
    <2>2. Complete(opt, f)
      <3>1. CASE f.set = upd_num + 1 /\ f.of = "DELETE"
        BY <1>6, <3>1
      <3>2. CASE f.set <= upd_num \/ f.of # "DELETE"
        <4>1. Past(f)
          BY <1>0, <1>1, <2>1, <3>2 DEF Past
        <4>2. QED
          BY <1>0, <4>1 DEF OnceInv, FillInv, PastInv
      <3>3. QED
        BY <1>1, <2>1, <3>1, <3>2
    <2>3. QED
      BY <1>0, <2>2 DEF Complete
  <1>8. OpenInv'
    BY <1>0, <1>1 DEF OnceInv, FillInv, OpenInv
  <1>9. RowInv'
    BY <1>0 DEF RowInv
  <1>10. DeleteInv'
    BY <1>0, SameDeletes DEF OnceInv, FillInv
  <1>11. SegmentTypes'
    BY <1>0 DEF OnceInv, FillInv, SegmentTypes
  <1>12. QED
    BY <1>2, <1>3, <1>4, <1>7, <1>8, <1>9, <1>10, <1>11 DEF FillInv

(* Init and every step.                                                     *)
LEMMA InitFills == ASSUME Init PROVE FillInv
  <1>1. /\ pc = "shell" /\ files = [f \in {} |-> <<>>] /\ ended = {} /\ rows_this_segment = -1
        /\ segment = [insert_orders |-> 0, insert_lineitem |-> 0, delete |-> 0]
        /\ deletes = [per |-> 0, this |-> 0]
    BY DEF Init
  <1>2. StartInv /\ PastInv /\ OpenInv /\ RowInv
    BY <1>1 DEF StartInv, PastInv, OpenInv, RowInv
  <1>3. ContentInv /\ EndedInv
    BY <1>1 DEF ContentInv, EndedInv
  <1>4. DeleteInv /\ SegmentTypes
    BY <1>1 DEF DeleteInv, SegmentTypes
  <1>5. QED
    BY <1>2, <1>3, <1>4 DEF FillInv

LEMMA StepFills ==
  ASSUME OnceInv, Ordinary, OneDataSet, [Next]_vars
  PROVE  FillInv'
  <1>1. ASSUME NEW o \in todo, Reject(o) \/ Exec(o) PROVE FillInv'
    BY <1>1, RejectFills, ExecFills
  <1>2. CASE BeginTable \/ BeginUpdate
    BY <1>2, BeginTableFills, BeginUpdateFills
  <1>3. CASE MakeRow
    BY <1>3, MakeRowFills
  <1>4. CASE Decline
    BY <1>4, DeclineFills
  <1>5. CASE RowStop
    BY <1>5, RowStopFills
  <1>6. CASE EndTable
    BY <1>6, EndTableFills
  <1>7. CASE DeleteKey
    BY <1>7, DeleteKeyFills
  <1>8. CASE EndUpdate
    BY <1>8, EndUpdateFills
  <1>9. CASE Return
    BY <1>9, ReturnFills
  <1>10. CASE Crash
    BY <1>10, CrashFills
  <1>11. CASE UNCHANGED vars
    BY <1>11, StutterFills
  <1>12. QED
    BY <1>1, <1>2, <1>3, <1>4, <1>5, <1>6, <1>7, <1>8, <1>9, <1>10, <1>11 DEF Next, Process

LEMMA OnceInvHolds ==
  ASSUME Ordinary, OneDataSet
  PROVE  Spec => []OnceInv
  <1>1. Init => OnceInv
    <2>1. ASSUME Init PROVE RInv
      BY <2>1, InitEstablishes DEF RInv, RangeInv, KeysInv, Init
    <2>2. QED
      BY <2>1, InitFills DEF OnceInv
  <1>2. ASSUME OnceInv, [Next]_vars PROVE OnceInv'
    <2>1. IInv'
      BY <1>2, StepKeeps DEF OnceInv, RInv
    <2>2. RangeInv' /\ KeysInv'
      BY <1>2, StepFits DEF OnceInv, RInv
    <2>3. FillInv'
      BY <1>2, StepFills
    <2>4. QED
      BY <2>1, <2>2, <2>3 DEF OnceInv, RInv
  <1>3. QED
    BY <1>1, <1>2, PTL DEF Spec

-----------------------------------------------------------------------------
(* When all commands have ended                                             *)

LEMMA WhenEnded ==
  ASSUME OnceInv, Ordinary, pc = "shell", ended = plan
  PROVE  /\ \A o \in plan : o \in Command /\ Valid(o) /\ o.updates \in Nat
         /\ \A f \in DOMAIN files : \E c \in plan : Makes(c, f)
         /\ \A c \in plan : \A f : Makes(c, f) =>
              /\ Size(c, f) \in Nat /\ First(c, f) \in Nat
              /\ f \notin DOMAIN files => Size(c, f) = 0
              /\ f \in DOMAIN files =>
                   /\ DOMAIN files[f] = 1..Size(c, f) /\ Len(files[f]) = Size(c, f)
                   /\ \A n \in 1..Size(c, f) : files[f][n].index = First(c, f) + n
  <1>1. \A o \in plan : o \in Command /\ Valid(o) /\ o.updates \in Nat
    <2> SUFFICES ASSUME NEW o \in plan PROVE o \in Command /\ Valid(o) /\ o.updates \in Nat
      OBVIOUS
    <2>1. o \in Command
      BY PlansAssumption DEF OnceInv, RInv, IInv, CommandInv
    <2>2. Valid(o)
      BY DEF OnceInv, FillInv, EndedInv
    <2>3. QED
      BY <2>1, <2>2 DEF Command
  <1>2. \A f \in DOMAIN files : \E c \in plan : Makes(c, f)
    BY DEF OnceInv, FillInv, ContentInv, Maker
  <1>3. ASSUME NEW c \in plan, NEW f, Makes(c, f)
        PROVE  /\ Size(c, f) \in Nat /\ First(c, f) \in Nat
               /\ f \notin DOMAIN files => Size(c, f) = 0
               /\ f \in DOMAIN files =>
                    /\ DOMAIN files[f] = 1..Size(c, f) /\ Len(files[f]) = Size(c, f)
                    /\ \A n \in 1..Size(c, f) : files[f][n].index = First(c, f) + n
    <2>1. Maker(c, f) /\ c \in Command /\ Valid(c)
      BY <1>1, <1>3 DEF Maker
    <2>2. Complete(c, f)
      BY <1>3 DEF OnceInv, FillInv, EndedInv, Maker
    <2>3. Size(c, f) \in Nat /\ First(c, f) \in Nat
      BY <1>3, <2>1, SizesAreNatural
    <2>4. ASSUME f \in DOMAIN files
          PROVE  /\ DOMAIN files[f] = 1..Size(c, f) /\ Len(files[f]) = Size(c, f)
                 /\ \A n \in 1..Size(c, f) : files[f][n].index = First(c, f) + n
      <3>1. Holds(c, f)
        BY <2>1, <2>4 DEF OnceInv, FillInv, ContentInv
      <3>2. IsSequence(files[f])
        BY <2>4 DEF OnceInv, RInv, IInv, FilesInv
      <3>3. DOMAIN files[f] = 1..Len(files[f]) /\ Len(files[f]) \in Nat
        BY <3>2, AppendIsSequence
      <3>4. Len(files[f]) = Size(c, f)
        BY <2>2, <2>3, <3>1, <3>3 DEF Complete, Holds
      <3>5. QED
        BY <3>1, <3>3, <3>4 DEF Holds
    <2>5. QED
      BY <2>2, <2>3, <2>4 DEF Complete
  <1>4. QED
    BY <1>1, <1>2, <1>3

(* The files of h and k hold each row of S once.                            *)
OnceEach(h, k, S) ==
  LET at == Places(h, k)
  IN  /\ {files[fn[1]][fn[2]].index : fn \in at} = S
      /\ Cardinality(at) = Cardinality(S)

(* Files F[1], F[2], ... that hold consecutive parts of the rows after b,   *)
(* and nothing else, hold each row once.                                    *)
Tiles(h, k, N, C, b, F) ==
  /\ N \in Nat \ {0} /\ b \in Nat
  /\ C \in [0..N -> Nat] /\ C[0] = 0 /\ \A i, j \in 0..N : i <= j => C[i] <= C[j]
  /\ \A i, j \in 1..N : F[i] = F[j] => i = j
  /\ \A f \in FilesOf(h, k) : (\E j \in 1..N : f = F[j]) \/ DOMAIN files[f] = {}
  /\ \A j \in 1..N : F[j] \in FilesOf(h, k) \/ C[j] = C[j - 1]
  /\ \A j \in 1..N : F[j] \in FilesOf(h, k) =>
       /\ DOMAIN files[F[j]] = 1..(C[j] - C[j - 1])
       /\ \A n \in 1..(C[j] - C[j - 1]) : files[F[j]][n].index = b + C[j - 1] + n

LEMMA Tiling ==
  ASSUME NEW N, NEW C, NEW b, NEW h, NEW k, NEW F, Tiles(h, k, N, C, b, F)
  PROVE  OnceEach(h, k, (b + 1)..(b + C[N]))
  <1> USE DEF Tiles
  <1>1. PICK at : at = Places(h, k)
    OBVIOUS
  <1>2. PICK T : T = (b + 1)..(b + C[N])
    OBVIOUS
  <1>3. C[N] \in Nat /\ \A j \in 1..N : j - 1 \in 0..N /\ j \in 0..N /\ C[j - 1] \in Nat /\ C[j] \in Nat
                                      /\ C[j - 1] <= C[j] /\ C[j] <= C[N]
    OBVIOUS
  <1>4. ASSUME NEW p \in at
        PROVE  \E j \in 1..N, n \in Nat : /\ p = <<F[j], n>> /\ F[j] \in FilesOf(h, k)
                                          /\ 1 <= n /\ n <= C[j] - C[j - 1]
                                          /\ files[p[1]][p[2]].index = b + C[j - 1] + n
    <2>1. PICK f \in FilesOf(h, k) : p \in {f} \X DOMAIN files[f]
      BY <1>1, <1>4 DEF Places
    <2>2. PICK n : n \in DOMAIN files[f] /\ p = <<f, n>>
      BY <2>1
    <2>3. PICK j \in 1..N : f = F[j]
      BY <2>2
    <2>4. n \in 1..(C[j] - C[j - 1]) /\ files[F[j]][n].index = b + C[j - 1] + n
      <3>1. F[j] \in FilesOf(h, k) /\ n \in DOMAIN files[F[j]]
        BY ONLY <2>1, <2>2, <2>3
      <3>2. /\ DOMAIN files[F[j]] = 1..(C[j] - C[j - 1])
            /\ \A i \in 1..(C[j] - C[j - 1]) : files[F[j]][i].index = b + C[j - 1] + i
        BY <3>1
      <3>3. QED
        BY ONLY <3>1, <3>2
    <2>5. n \in Nat /\ 1 <= n /\ n <= C[j] - C[j - 1]
      BY <1>3, <2>4
    <2>6. p[1] = F[j] /\ p[2] = n
      BY <2>2, <2>3
    <2>7. QED
      BY <2>1, <2>2, <2>3, <2>4, <2>5, <2>6
  <1>5. ASSUME NEW x \in T
        PROVE  \E p \in at : files[p[1]][p[2]].index = x
    <2>1. PICK y \in 1..C[N] : y = x - b /\ x = b + y
      BY <1>2, <1>3, <1>5
    <2>2. PICK j \in 1..N : C[j - 1] < y /\ y <= C[j]
      BY <2>1, OnePart
    <2>3. F[j] \in FilesOf(h, k)
      BY <1>3, <2>1, <2>2
    <2>4. PICK n \in 1..(C[j] - C[j - 1]) : x = b + C[j - 1] + n
      <3>1. PICK c \in Nat, d \in Nat : c = C[j - 1] /\ d = C[j]
        BY <1>3
      <3>2. y \in Nat /\ c < y /\ y <= d /\ x = b + y
        BY <1>3, <2>1, <2>2, <3>1
      <3>3. y - c \in 1..(d - c) /\ x = b + c + (y - c)
        BY <3>1, <3>2
      <3>4. QED
        BY <3>1, <3>3
    <2>5. files[F[j]][n].index = x /\ n \in DOMAIN files[F[j]]
      BY <2>3, <2>4
    <2>6. <<F[j], n>> \in at
      BY <1>1, <2>3, <2>5 DEF Places
    <2>7. QED
      BY <2>5, <2>6
  <1>6. PICK g : g = [p \in at |-> files[p[1]][p[2]].index]
    OBVIOUS
  <1>7. ASSUME NEW p \in at PROVE g[p] \in T
    <2>1. PICK j \in 1..N, n \in Nat : 1 <= n /\ n <= C[j] - C[j - 1] /\ g[p] = b + C[j - 1] + n
      BY <1>4, <1>6, <1>7
    <2>2. PICK c \in Nat, d \in Nat, e \in Nat : c = C[j - 1] /\ d = C[j] /\ e = C[N] /\ d <= e
      BY <1>3
    <2>3. n \in Nat /\ 1 <= n /\ n <= d - c /\ g[p] = b + c + n /\ b \in Nat
      BY <2>1, <2>2
    <2>4. g[p] \in (b + 1)..(b + e)
      BY ONLY <2>2, <2>3
    <2>5. QED
      BY <1>2, <2>2, <2>4
  <1>8. ASSUME NEW p \in at, NEW q \in at, g[p] = g[q] PROVE p = q
    <2>1. PICK i \in 1..N, m \in Nat : /\ p = <<F[i], m>> /\ 1 <= m /\ m <= C[i] - C[i - 1]
                                       /\ g[p] = b + C[i - 1] + m
      BY <1>4, <1>6, <1>8
    <2>2. PICK j \in 1..N, n \in Nat : /\ q = <<F[j], n>> /\ 1 <= n /\ n <= C[j] - C[j - 1]
                                       /\ g[q] = b + C[j - 1] + n
      BY <1>4, <1>6, <1>8
    <2>3. /\ C[i - 1] \in Nat /\ C[i] \in Nat /\ C[i] <= C[N]
          /\ C[j - 1] \in Nat /\ C[j] \in Nat /\ C[j] <= C[N]
      BY <1>3
    <2>4. PICK x : x = C[i - 1] + m
      OBVIOUS
    <2>5. x \in Nat /\ C[i - 1] < x /\ x <= C[i] /\ x = C[j - 1] + n /\ C[j - 1] < x /\ x <= C[j]
      <3>1. PICK c \in Nat, d \in Nat, u \in Nat, v \in Nat :
              c = C[i - 1] /\ d = C[i] /\ u = C[j - 1] /\ v = C[j]
        BY <2>3
      <3>2. b + c + m = b + u + n
        BY <1>8, <2>1, <2>2, <3>1
      <3>3. /\ b \in Nat /\ c \in Nat /\ d \in Nat /\ u \in Nat /\ v \in Nat /\ m \in Nat /\ n \in Nat
            /\ x = c + m
        BY <2>4, <3>1
      <3>4. 1 <= m /\ m <= d - c /\ 1 <= n /\ n <= v - u
        BY <2>1, <2>2, <3>1
      <3>5. x \in Nat /\ c < x /\ x <= d /\ x = u + n /\ u < x /\ x <= v
        BY ONLY <3>2, <3>3, <3>4
      <3>6. QED
        BY <3>1, <3>3, <3>5
    <2>6. x \in 1..C[N]
      <3>1. PICK c \in Nat, d \in Nat, e \in Nat : c = C[i - 1] /\ d = C[i] /\ e = C[N]
        BY <1>3, <2>3
      <3>2. x \in Nat /\ c < x /\ x <= d /\ d <= e
        BY <2>3, <2>5, <3>1
      <3>3. x \in 1..e
        BY ONLY <3>1, <3>2
      <3>4. QED
        BY <3>1, <3>3
    <2>7. i = j
      <3>1. \A y \in 1..C[N] : \A r, s \in 1..N :
              C[r - 1] < y /\ y <= C[r] /\ C[s - 1] < y /\ y <= C[s] => r = s
        BY OnePart
      <3>2. QED
        BY ONLY <2>5, <2>6, <3>1
    <2>8. m = n
      BY <2>3, <2>4, <2>5, <2>7
    <2>9. QED
      BY <2>1, <2>2, <2>7, <2>8
  <1>9. g \in Injection(at, T) /\ g \in Surjection(at, T)
    <2>1. g \in [at -> T]
      BY <1>6, <1>7
    <2>2. IsInjective(g)
      BY <1>6, <1>8 DEF IsInjective
    <2>3. \A t \in T : \E p \in at : g[p] = t
      BY <1>5, <1>6
    <2>4. QED
      BY <2>1, <2>2, <2>3 DEF Injection, Surjection
  <1>10. IsFiniteSet(T)
    <2>1. b + 1 \in Int /\ b + C[N] \in Int
      BY <1>3
    <2>2. QED
      BY <1>2, <2>1, FS_Interval
  <1>11. Cardinality(at) = Cardinality(T)
    BY <1>9, <1>10, FS_Injection
  <1>12. {files[fn[1]][fn[2]].index : fn \in at} = T
    BY <1>5, <1>6, <1>7
  <1>13. QED
    BY <1>1, <1>2, <1>11, <1>12 DEF OnceEach

(* One file, and nothing else.                                              *)
LEMMA OneFile ==
  ASSUME OnceInv, Ordinary, pc = "shell", ended = plan, NEW o \in plan,
         NEW h, NEW k, NEW g, Makes(o, g), g.of = h, g.set = k,
         \A f \in FilesOf(h, k) : f = g
  PROVE  OnceEach(h, k, (First(o, g) + 1)..(First(o, g) + Size(o, g)))
  <1>1. /\ Size(o, g) \in Nat /\ First(o, g) \in Nat
        /\ g \notin DOMAIN files => Size(o, g) = 0
        /\ g \in DOMAIN files =>
             /\ DOMAIN files[g] = 1..Size(o, g)
             /\ \A n \in 1..Size(o, g) : files[g][n].index = First(o, g) + n
    BY WhenEnded
  <1>2. PICK u \in Nat, b \in Nat : u = Size(o, g) /\ b = First(o, g)
    BY <1>1
  <1>3. PICK C : C = [j \in 0..1 |-> IF j = 0 THEN 0 ELSE u]
    OBVIOUS
  <1>4. PICK F : F = [j \in 1..1 |-> g]
    OBVIOUS
  <1>5. /\ C \in [0..1 -> Nat] /\ C[0] = 0 /\ C[1] = u
        /\ \A i, j \in 0..1 : i <= j => C[i] <= C[j]
    BY <1>3
  <1>6. \A j \in 1..1 : j = 1 /\ F[j] = g /\ C[j] = u /\ C[j - 1] = 0 /\ C[j] - C[j - 1] = u
    BY <1>4, <1>5
  <1>7. g \in FilesOf(h, k) <=> g \in DOMAIN files
    BY DEF FilesOf
  <1>8. \A i, j \in 1..1 : F[i] = F[j] => i = j
    OBVIOUS
  <1>9. \A j \in 1..1 : F[j] \in FilesOf(h, k) \/ C[j] = C[j - 1]
    BY <1>1, <1>2, <1>6, <1>7
  <1>10. \A f \in FilesOf(h, k) : (\E j \in 1..1 : f = F[j]) \/ DOMAIN files[f] = {}
    <2>1. 1 \in 1..1
      OBVIOUS
    <2>2. QED
      BY <1>6, <2>1
  <1>11. \A j \in 1..1 : F[j] \in FilesOf(h, k) =>
           /\ DOMAIN files[F[j]] = 1..(C[j] - C[j - 1])
           /\ \A n \in 1..(C[j] - C[j - 1]) : files[F[j]][n].index = b + C[j - 1] + n
    <2> SUFFICES ASSUME NEW j \in 1..1, F[j] \in FilesOf(h, k)
                 PROVE  /\ DOMAIN files[F[j]] = 1..(C[j] - C[j - 1])
                        /\ \A n \in 1..(C[j] - C[j - 1]) : files[F[j]][n].index = b + C[j - 1] + n
      OBVIOUS
    <2>1. /\ DOMAIN files[g] = 1..u /\ \A n \in 1..u : files[g][n].index = b + n
      BY <1>1, <1>2, <1>6, <1>7
    <2>2. b + C[j - 1] = b
      BY <1>2, <1>6
    <2>3. QED
      BY <1>6, <2>1, <2>2
  <1>12. 1 \in Nat \ {0}
    OBVIOUS
  <1>13. OnceEach(h, k, (b + 1)..(b + C[1]))
    <2>1. Tiles(h, k, 1, C, b, F)
      BY <1>2, <1>5, <1>8, <1>9, <1>10, <1>11, <1>12 DEF Tiles
    <2>2. QED
      BY <2>1, Tiling
  <1>14. QED
    BY <1>2, <1>5, <1>13

(* What another command makes of a refresh set, this one makes as well.     *)
LEMMA SameSetFiles ==
  ASSUME OneDataSet, plan \in Plans, NEW o \in plan, NEW c \in plan,
         o \in Command, c \in Command, Valid(o), Valid(c), o.updates > 0,
         NEW f, Makes(c, f), f.set \in SetsOf(o)
  PROVE  Makes(o, f)
  <1>1. o.updates \in Nat /\ c.updates \in Nat
    BY DEF Command
  <1>2. f.set > 0 /\ f.set \in Nat
    BY <1>1 DEF SetsOf, Command
  <1>3. c.updates > 0
    <2>1. f.set \in SetsOf(c)
      BY DEF Makes
    <2>2. QED
      BY <1>1, <1>2, <2>1 DEF SetsOf
  <1>4. o.insert_segments = c.insert_segments /\ o.delete_segments = c.delete_segments
    <2>1. SetsOf(o) \cap SetsOf(c) # {}
      BY DEF Makes
    <2>2. MakesOneDataSet(plan)
      BY DEF OneDataSet
    <2>3. QED
      BY <1>3, <2>1, <2>2 DEF MakesOneDataSet
  <1>5. /\ f.of \in {"ORDER", "LINE", "DELETE"}
        /\ f.seg \in (IF Segs(c, f.of) = 0 THEN {0} ELSE 1..Segs(c, f.of))
        /\ f = [of |-> f.of, step |-> 0, set |-> f.set, seg |-> f.seg]
    BY <1>3, FileOfSet
  <1>6. o.updates # 0 /\ Segs(o, f.of) = Segs(c, f.of)
    BY <1>1, <1>4 DEF Segs
  <1>7. ~Split(o, f.of)
    <2>1. o.children = 1
      BY <1>6 DEF Valid
    <2>2. QED
      BY <2>1 DEF Split
  <1>8. QED
    BY <1>5, <1>6, <1>7 DEF Makes, Name, HandlesOf

LEMMA SetOnce ==
  ASSUME OnceInv, Ordinary, OneDataSet, pc = "shell", ended = plan, NEW o \in plan, o.updates > 0,
         NEW h \in HandlesOf(o), NEW k \in SetsOf(o)
  PROVE  OnceEach(h, k, Expected(h, k))
  <1>1. /\ plan \in Plans /\ o \in Command /\ Valid(o) /\ o.updates \in Nat /\ o.updates # 0
        /\ \A c \in plan : c \in Command /\ Valid(c)
    BY WhenEnded DEF OnceInv, RInv, IInv, CommandInv
  <1>2. k \in Nat /\ k > 0 /\ k # 0 /\ k - 1 \in Nat /\ h \in {"ORDER", "LINE", "DELETE"}
    BY <1>1 DEF SetsOf, HandlesOf, Command
  <1>3. \A f \in FilesOf(h, k) : Makes(o, f)
    <2> SUFFICES ASSUME NEW f \in FilesOf(h, k) PROVE Makes(o, f)
      OBVIOUS
    <2>1. f \in DOMAIN files /\ f.set = k
      BY DEF FilesOf
    <2>2. PICK c \in plan : Makes(c, f)
      BY <2>1, WhenEnded
    <2>3. QED
      BY <1>1, <2>1, <2>2, SameSetFiles
  <1>4. PICK u \in Nat, b \in Nat : u = UpdateRows /\ b = (k - 1) * UpdateRows /\ k * UpdateRows = b + u
    <2>1. (k - 1) * UpdateRows \in Nat /\ UpdateRows \in Nat
      BY <1>2, ConstantsAreNatural, Products
    <2>2. ((k - 1) + 1) * UpdateRows = (k - 1) * UpdateRows + UpdateRows /\ (k - 1) + 1 = k
      BY <1>2, <2>1, Products
    <2>3. QED
      BY <2>1, <2>2
  <1>5. Expected(h, k) = (b + 1)..(b + u)
    BY <1>2, <1>4 DEF Expected
  <1>6. Base(o, h, k) = b /\ Total(o, h) = u
    BY <1>4 DEF Base, Total
  <1>7. PICK n \in Nat : n = Segs(o, h)
    BY <1>1 DEF Segs, Command
  <1>8. \A j \in (IF n = 0 THEN {0} ELSE 1..n) :
          Makes(o, Name(o, h, k, j)) /\ Name(o, h, k, j).of = h /\ Name(o, h, k, j).set = k
          /\ Name(o, h, k, j).seg = j
    BY <1>7 DEF Makes, Name
  <1>9. \A f \in FilesOf(h, k) : f = Name(o, h, k, f.seg) /\ f.seg \in (IF n = 0 THEN {0} ELSE 1..n)
    BY <1>3, <1>7 DEF Makes, FilesOf
  <1>10. CASE n = 0
    <2>1. PICK g : g = Name(o, h, k, 0)
      OBVIOUS
    <2>2. Makes(o, g) /\ g.of = h /\ g.set = k /\ g.seg = 0
      BY <1>8, <1>10, <2>1
    <2>3. \A f \in FilesOf(h, k) : f = g
      BY <1>9, <1>10, <2>1
    <2>4. First(o, g) = b /\ Size(o, g) = u
      BY <1>4, <1>6, <2>2 DEF First, Size
    <2>5. QED
      BY <1>5, <2>2, <2>3, <2>4, OneFile
  <1>11. CASE n > 0
    <2>1. PICK C : C = [j \in 0..n |-> SegStart(o, h, j)]
      OBVIOUS
    <2>2. PICK F : F = [j \in 1..n |-> Name(o, h, k, j)]
      OBVIOUS
    <2>3. /\ C \in [0..n -> Nat] /\ C[0] = 0 /\ C[n] = u
          /\ \A i, j \in 0..n : i <= j => C[i] <= C[j]
      <3>1. /\ SegStart(o, h, 0) = 0 /\ SegStart(o, h, n) = u
            /\ \A i \in 0..n : SegStart(o, h, i) \in Nat
            /\ \A i, j \in 0..n : i <= j => SegStart(o, h, i) <= SegStart(o, h, j)
        BY <1>1, <1>4, <1>7, <1>11, SegStarts
      <3>2. 0 \in 0..n /\ n \in 0..n
        BY <1>11
      <3>3. QED
        BY ONLY <2>1, <3>1, <3>2
    <2>4. ASSUME NEW j \in 1..n
          PROVE  /\ Makes(o, F[j]) /\ F[j].of = h /\ F[j].set = k /\ F[j].seg = j
                 /\ First(o, F[j]) = b + C[j - 1] /\ Size(o, F[j]) = C[j] - C[j - 1]
      <3>1. F[j] = Name(o, h, k, j) /\ j # 0 /\ n # 0 /\ j \in 0..n /\ j - 1 \in 0..n
        BY <1>11, <2>2
      <3>2. Makes(o, F[j]) /\ F[j].of = h /\ F[j].set = k /\ F[j].seg = j
        BY <1>8, <3>1
      <3>3. C[j] = SegStart(o, h, j) /\ C[j - 1] = SegStart(o, h, j - 1)
        BY <2>1, <3>1
      <3>4. QED
        BY <1>6, <3>1, <3>2, <3>3 DEF First, Size
    <2>5. \A i, j \in 1..n : F[i] = F[j] => i = j
      BY <2>4
    <2>6. ASSUME NEW j \in 1..n
          PROVE  /\ F[j] \in FilesOf(h, k) \/ C[j] = C[j - 1]
                 /\ F[j] \in FilesOf(h, k) =>
                      /\ DOMAIN files[F[j]] = 1..(C[j] - C[j - 1])
                      /\ \A i \in 1..(C[j] - C[j - 1]) : files[F[j]][i].index = b + C[j - 1] + i
      <3>1. PICK f : f = F[j]
        OBVIOUS
      <3>2. /\ Makes(o, f) /\ f.of = h /\ f.set = k
            /\ First(o, f) = b + C[j - 1] /\ Size(o, f) = C[j] - C[j - 1]
        BY <2>4, <3>1
      <3>3. /\ f \notin DOMAIN files => Size(o, f) = 0
            /\ f \in DOMAIN files =>
                 /\ DOMAIN files[f] = 1..Size(o, f)
                 /\ \A i \in 1..Size(o, f) : files[f][i].index = First(o, f) + i
        BY <3>2, WhenEnded
      <3>4. f \in FilesOf(h, k) <=> f \in DOMAIN files
        BY <3>2 DEF FilesOf
      <3>5. C[j] \in Nat /\ C[j - 1] \in Nat
        <4>1. j \in 0..n /\ j - 1 \in 0..n
          OBVIOUS
        <4>2. QED
          BY <2>3, <4>1
      <3>6. Size(o, f) = 0 => C[j] = C[j - 1]
        BY <3>2, <3>5
      <3>7. QED
        BY <3>1, <3>2, <3>3, <3>4, <3>6
    <2>7. \A f \in FilesOf(h, k) : (\E j \in 1..n : f = F[j]) \/ DOMAIN files[f] = {}
      <3> SUFFICES ASSUME NEW f \in FilesOf(h, k) PROVE \E j \in 1..n : f = F[j]
        OBVIOUS
      <3>1. f.seg \in 1..n /\ f = Name(o, h, k, f.seg)
        BY <1>9, <1>11
      <3>2. QED
        BY <2>2, <3>1
    <2>8. n \in Nat \ {0}
      BY <1>11
    <2>9. OnceEach(h, k, (b + 1)..(b + C[n]))
      <3>1. Tiles(h, k, n, C, b, F)
        BY <1>4, <2>3, <2>5, <2>6, <2>7, <2>8 DEF Tiles
      <3>2. QED
        BY <3>1, Tiling
    <2>10. QED
      BY <1>5, <2>3, <2>9
  <1>12. QED
    BY <1>10, <1>11


(* A file of a table, whichever command of the plan made it.                *)
LEMMA TableFiles ==
  ASSUME OnceInv, Ordinary, OneDataSet, pc = "shell", ended = plan, NEW o \in plan, o.updates = 0,
         NEW h \in HandlesOf(o), NEW f \in FilesOf(h, 0)
  PROVE  \E c \in plan : /\ Makes(c, f) /\ c \in Command /\ Valid(c)
                         /\ f = Name(c, h, 0, 0) /\ (Split(c, h) <=> Split(o, h))
                         /\ Split(o, h) => c.children = o.children
  <1>1. f \in DOMAIN files /\ f.of = h /\ f.set = 0
    BY DEF FilesOf
  <1>2. PICK c \in plan : Makes(c, f)
    BY <1>1, WhenEnded
  <1>3. c \in Command /\ Valid(c) /\ Valid(o) /\ c.updates \in Nat
    BY WhenEnded
  <1>4. c.updates = 0
    <2>1. 0 \in SetsOf(c) /\ c.step \in Nat \cup {-1}
      BY <1>1, <1>2, <1>3 DEF Makes, Command
    <2>2. QED
      BY <1>3, <2>1 DEF SetsOf
  <1>5. f = Name(c, h, 0, 0)
    BY <1>1, <1>2, <1>3, <1>4, FileOfTable
  <1>6. ~Whole(h) => c.children = o.children
    <2>1. h \in HandlesOf(o) \cap HandlesOf(c)
      BY <1>1, <1>2 DEF Makes
    <2>2. MakesOneDataSet(plan)
      BY DEF OneDataSet, OnceInv, RInv, IInv, CommandInv
    <2>3. QED
      BY <1>3, <1>4, <2>1, <2>2 DEF MakesOneDataSet
  <1>7. QED
    BY <1>2, <1>3, <1>5, <1>6 DEF Split

(* The command of a plan that makes chunk s of a table.                     *)
LEMMA ChunkMaker ==
  ASSUME OnceInv, Ordinary, OneDataSet, pc = "shell", ended = plan, NEW o \in plan, o.updates = 0,
         NEW h \in HandlesOf(o), Split(o, h), NEW s \in 1..o.children,
         NEW g, g = [of |-> h, step |-> s, set |-> 0, seg |-> 0]
  PROVE  \E c \in plan : /\ Makes(c, g)
                         /\ First(c, g) = ChunkStart(o, h, s - 1)
                         /\ Size(c, g) = ChunkStart(o, h, s) - ChunkStart(o, h, s - 1)
  <1>1. o.children > 1 /\ ~Whole(h) /\ Valid(o) /\ o \in Command
    BY WhenEnded DEF Split
  <1>2. PICK c \in plan : /\ Valid(c) /\ c.children = o.children /\ c.step = s
                          /\ h \in HandlesOf(c)
    <2>1. MakesOneDataSet(plan)
      BY DEF OneDataSet, OnceInv, RInv, IInv, CommandInv
    <2>2. QED
      BY <1>1, <2>1 DEF MakesOneDataSet
  <1>3. /\ c \in Command /\ c.updates = 0 /\ Split(c, h) /\ c.step \in 1..c.children
        /\ c.insert_segments = 0 /\ c.delete_segments = 0
    <2>1. c \in Command /\ o.children \in Nat
      BY <1>1, WhenEnded DEF Command
    <2>2. c.children # 1
      BY <1>1, <1>2, <2>1
    <2>3. QED
      BY <1>1, <1>2, <2>1, <2>2 DEF Split, Valid
  <1>4. Makes(c, g) /\ g.of = h /\ g.set = 0 /\ g.seg = 0
    BY <1>2, <1>3 DEF Makes, Name, SetsOf, Segs
  <1>5. h \in Table
    BY <1>2, <1>3, <1>4, FileOfTable
  <1>6. /\ Piece(c, h).first = ChunkStart(c, h, c.step - 1) + 1
        /\ Piece(c, h).count = ChunkStart(c, h, c.step) - ChunkStart(c, h, c.step - 1)
    BY <1>3, <1>5, PieceIsChunk
  <1>7. \A i : ChunkStart(c, h, i) = ChunkStart(o, h, i)
    BY <1>2 DEF ChunkStart
  <1>8. PICK a \in Nat : a = ChunkStart(o, h, s - 1)
    <2>1. s - 1 \in 0..o.children
      BY <1>1 DEF Command
    <2>2. QED
      BY <1>1, <1>5, <2>1, ChunkStarts
  <1>9. Base(c, h, 0) = a
    <2>1. Piece(c, h).first = a + 1 /\ (a + 1) - 1 = a
      BY <1>2, <1>6, <1>7, <1>8
    <2>2. QED
      BY <1>3, <2>1 DEF Base
  <1>10. Total(c, h) = ChunkStart(o, h, s) - a
    BY <1>2, <1>3, <1>6, <1>7, <1>8 DEF Total
  <1>11. First(c, g) = a /\ Size(c, g) = ChunkStart(o, h, s) - a
    BY <1>4, <1>8, <1>9, <1>10 DEF First, Size
  <1>12. QED
    BY <1>4, <1>8, <1>11

LEMMA WholeTableOnce ==
  ASSUME OnceInv, Ordinary, OneDataSet, pc = "shell", ended = plan, NEW o \in plan, o.updates = 0,
         NEW h \in HandlesOf(o), ~Split(o, h)
  PROVE  OnceEach(h, 0, Expected(h, 0))
  <1>1. o \in Command /\ Valid(o)
    BY WhenEnded
  <1>2. PICK g : g = Name(o, h, 0, 0)
    OBVIOUS
  <1>3. Makes(o, g) /\ g.of = h /\ g.set = 0 /\ g.seg = 0
    BY <1>1, <1>2 DEF Makes, Name, SetsOf, Segs, Valid
  <1>4. \A f \in FilesOf(h, 0) : f = g
    <2> SUFFICES ASSUME NEW f \in FilesOf(h, 0) PROVE f = g
      OBVIOUS
    <2>1. PICK c \in plan : f = Name(c, h, 0, 0) /\ (Split(c, h) <=> Split(o, h))
      BY TableFiles
    <2>2. QED
      BY <1>2, <2>1 DEF Name
  <1>5. PICK n \in Nat : n = Rows(h)
    <2>1. h \in Table
      BY <1>1, <1>3, FileOfTable
    <2>2. QED
      BY <2>1, ConstantsAreNatural
  <1>6. First(o, g) = 0 /\ Size(o, g) = n
    <2>1. Piece(o, h) = [first |-> 1, count |-> n]
      BY <1>5 DEF Piece
    <2>2. QED
      BY <1>3, <2>1 DEF First, Size, Base, Total
  <1>7. Expected(h, 0) = (First(o, g) + 1)..(First(o, g) + Size(o, g))
    BY <1>5, <1>6 DEF Expected
  <1>8. QED
    BY <1>3, <1>4, <1>7, OneFile

LEMMA SplitTableOnce ==
  ASSUME OnceInv, Ordinary, OneDataSet, pc = "shell", ended = plan, NEW o \in plan, o.updates = 0,
         NEW h \in HandlesOf(o), Split(o, h)
  PROVE  OnceEach(h, 0, Expected(h, 0))
  <1>1. o \in Command /\ Valid(o) /\ o.children > 1
    BY WhenEnded DEF Split
  <1>2. PICK N \in Nat \ {0} : N = o.children
    BY <1>1 DEF Command
  <1>3. h \in Table
    <2>1. Makes(o, Name(o, h, 0, 0)) /\ Name(o, h, 0, 0).of = h
      BY <1>1 DEF Makes, Name, SetsOf, Segs, Valid
    <2>2. QED
      BY <1>1, <2>1, FileOfTable
  <1>4. PICK C : C = [s \in 0..N |-> ChunkStart(o, h, s)]
    OBVIOUS
  <1>5. PICK F : F = [s \in 1..N |-> [of |-> h, step |-> s, set |-> 0, seg |-> 0]]
    OBVIOUS
  <1>6. /\ C \in [0..N -> Nat] /\ C[0] = 0 /\ C[N] = Rows(h)
        /\ \A i, j \in 0..N : i <= j => C[i] <= C[j]
    <2>1. /\ ChunkStart(o, h, 0) = 0 /\ ChunkStart(o, h, N) = Rows(h)
          /\ \A s \in 0..N : ChunkStart(o, h, s) \in Nat
          /\ \A s, t \in 0..N : s <= t => ChunkStart(o, h, s) <= ChunkStart(o, h, t)
      BY <1>1, <1>2, <1>3, ChunkStarts
    <2>2. 0 \in 0..N /\ N \in 0..N
      BY <1>2
    <2>3. QED
      BY ONLY <1>4, <2>1, <2>2
  <1>7. ASSUME NEW s \in 1..N
        PROVE  \E c \in plan : /\ Makes(c, F[s])
                               /\ First(c, F[s]) = C[s - 1] /\ Size(c, F[s]) = C[s] - C[s - 1]
    <2>1. s \in 0..N /\ s - 1 \in 0..N /\ s \in 1..o.children
      BY <1>2
    <2>2. PICK g : g = F[s] /\ g = [of |-> h, step |-> s, set |-> 0, seg |-> 0]
      BY <1>5
    <2>3. PICK c \in plan : /\ Makes(c, g)
                            /\ First(c, g) = ChunkStart(o, h, s - 1)
                            /\ Size(c, g) = ChunkStart(o, h, s) - ChunkStart(o, h, s - 1)
      BY <2>1, <2>2, ChunkMaker
    <2>4. QED
      BY <1>4, <2>1, <2>2, <2>3
  <1>8. \A i, j \in 1..N : F[i] = F[j] => i = j
    <2>1. \A i \in 1..N : F[i].step = i
      BY <1>5
    <2>2. QED
      BY <2>1
  <1>9. ASSUME NEW s \in 1..N
        PROVE  /\ F[s] \in FilesOf(h, 0) \/ C[s] = C[s - 1]
               /\ F[s] \in FilesOf(h, 0) =>
                    /\ DOMAIN files[F[s]] = 1..(C[s] - C[s - 1])
                    /\ \A n \in 1..(C[s] - C[s - 1]) : files[F[s]][n].index = 0 + C[s - 1] + n
    <2>1. PICK f : f = F[s]
      OBVIOUS
    <2>2. PICK c \in plan : /\ Makes(c, f)
                            /\ First(c, f) = C[s - 1] /\ Size(c, f) = C[s] - C[s - 1]
      BY <1>7, <2>1
    <2>3. /\ f \notin DOMAIN files => Size(c, f) = 0
          /\ f \in DOMAIN files =>
               /\ DOMAIN files[f] = 1..Size(c, f)
               /\ \A n \in 1..Size(c, f) : files[f][n].index = First(c, f) + n
      BY <2>2, WhenEnded
    <2>4. f \in FilesOf(h, 0) <=> f \in DOMAIN files
      BY <1>5, <2>1 DEF FilesOf
    <2>5. C[s] \in Nat /\ C[s - 1] \in Nat /\ 0 + C[s - 1] = C[s - 1]
      <3>1. s \in 0..N /\ s - 1 \in 0..N
        OBVIOUS
      <3>2. QED
        BY <1>6, <3>1
    <2>6. Size(c, f) = 0 => C[s] = C[s - 1]
      BY <2>2, <2>5
    <2>7. QED
      BY <2>1, <2>2, <2>3, <2>4, <2>5, <2>6
  <1>10. ASSUME NEW f \in FilesOf(h, 0), DOMAIN files[f] # {}
         PROVE  \E s \in 1..N : f = F[s]
    <2>1. PICK c \in plan : /\ Makes(c, f) /\ c \in Command /\ Valid(c) /\ f = Name(c, h, 0, 0)
                            /\ Split(c, h) /\ c.children = N
      BY <1>2, TableFiles
    <2>2. f = [of |-> h, step |-> c.step, set |-> 0, seg |-> 0]
      BY <2>1 DEF Name
    <2>3. c.step \in Nat /\ c.step <= N
      <3>1. plan \in Plans
        BY DEF OnceInv, RInv, IInv, CommandInv
      <3>2. c.children > 1 => c.step <= c.children
        BY <2>1, <3>1 DEF Ordinary
      <3>3. c.step \in Nat \cup {-1} /\ c.children > 1 /\ c.children # 1
        BY <1>1, <1>2, <2>1 DEF Command
      <3>4. c.step # -1
        BY <2>1, <3>3 DEF Valid
      <3>5. QED
        BY <2>1, <3>2, <3>3, <3>4
    <2>4. c.step # 0
      <3> SUFFICES ASSUME c.step = 0 PROVE FALSE
        OBVIOUS
      <3>1. Piece(c, h).count = 0
        BY <1>1, <1>2, <2>1 DEF Piece
      <3>2. c.updates = 0
        BY <1>1, <1>2, <2>1 DEF Valid
      <3>3. Size(c, f) = 0
        BY <2>2, <3>1, <3>2 DEF Size, Total
      <3>4. DOMAIN files[f] = 1..Size(c, f)
        BY <2>1, WhenEnded DEF FilesOf
      <3>5. QED
        BY <1>10, <3>3, <3>4
    <2>5. QED
      BY <1>5, <2>2, <2>3, <2>4
  <1>11. Tiles(h, 0, N, C, 0, F)
    <2>1. 0 \in Nat
      OBVIOUS
    <2>2. \A f \in FilesOf(h, 0) : (\E s \in 1..N : f = F[s]) \/ DOMAIN files[f] = {}
      BY <1>10
    <2>3. QED
      BY <1>6, <1>8, <1>9, <2>1, <2>2 DEF Tiles
  <1>12. OnceEach(h, 0, (0 + 1)..(0 + C[N]))
    BY <1>11, Tiling
  <1>13. Expected(h, 0) = (0 + 1)..(0 + C[N])
    <2>1. C[N] = Rows(h) /\ Rows(h) \in Nat
      BY <1>3, <1>6, ConstantsAreNatural
    <2>2. QED
      BY <2>1 DEF Expected
  <1>14. QED
    BY <1>12, <1>13

-----------------------------------------------------------------------------
(* Every row once, and segments that go together *)

(* EveryRowOnce, at every scale and for every plan of commands that makes   *)
(* one data set: whatever the chunks, the segments, the crashes and the     *)
(* repeated runs, the files of a table or of a refresh set hold each of its *)
(* rows exactly once when all commands have ended.                          *)
THEOREM EveryRowOnceHolds ==
  ASSUME Ordinary, OneDataSet
  PROVE  Spec => []EveryRowOnce
  <1>1. ASSUME OnceInv PROVE EveryRowOnce
    <2> SUFFICES ASSUME pc = "shell", ended = plan, NEW hk \in Generated
                 PROVE  OnceEach(hk[1], hk[2], Expected(hk[1], hk[2]))
      BY DEF EveryRowOnce, OnceEach
    <2>1. PICK o \in plan : hk \in HandlesOf(o) \X SetsOf(o)
      BY DEF Generated
    <2>2. PICK h \in HandlesOf(o), k \in SetsOf(o) : h = hk[1] /\ k = hk[2]
      BY <2>1
    <2>3. o.updates \in Nat
      BY <1>1, WhenEnded
    <2>4. CASE o.updates > 0
      BY <1>1, <2>2, <2>4, SetOnce
    <2>5. CASE o.updates = 0
      <3>1. k = 0
        BY <2>5 DEF SetsOf
      <3>2. QED
        BY <1>1, <2>2, <2>5, <3>1, WholeTableOnce, SplitTableOnce
    <2>6. QED
      BY <2>3, <2>4, <2>5
  <1>2. Spec => []OnceInv
    BY OnceInvHolds
  <1>3. QED
    BY <1>1, <1>2, PTL

LEMMA AtLeastOne == \A u \in Nat, n \in Nat \ {0} : n <= u => u \div n >= 1
  BY SMT

(* One file of a refresh set's inserts, when all commands have ended.       *)
LEMMA InsertSegment ==
  ASSUME OnceInv, Ordinary, pc = "shell", ended = plan, NEW o \in plan,
         o.insert_segments \in 1..UpdateRows, NEW k \in SetsOf(o), o.updates > 0,
         NEW h \in {"ORDER", "LINE"}, NEW j \in 1..o.insert_segments,
         NEW g, g = [of |-> h, step |-> 0, set |-> k, seg |-> j],
         NEW s \in Nat, s = SegStart(o, h, j) - SegStart(o, h, j - 1)
  PROVE  /\ g \in DOMAIN files /\ DOMAIN files[g] = 1..s /\ Len(files[g]) = s
         /\ s - Each(o) \in {0, 1}
         /\ \A n \in 1..s : files[g][n].index = Base(o, h, k) + SegStart(o, h, j - 1) + n
  <1>1. /\ o \in Command /\ Valid(o) /\ o.updates \in Nat /\ o.updates # 0 /\ o.children = 1
        /\ o.insert_segments \in Nat \ {0} /\ o.insert_segments > 0 /\ UpdateRows \in Nat
    BY WhenEnded, ConstantsAreNatural DEF Valid
  <1>2. /\ g.of = h /\ g.set = k /\ g.seg = j /\ j # 0 /\ Segs(o, h) = o.insert_segments
        /\ g = Name(o, h, k, j)
    BY <1>1 DEF Segs, Name, Split
  <1>3. Makes(o, g)
    BY <1>1, <1>2 DEF Makes, HandlesOf
  <1>4. Size(o, g) = s /\ First(o, g) = Base(o, h, k) + SegStart(o, h, j - 1)
    BY <1>2 DEF Size, First
  <1>5. PICK e \in Nat, i \in Nat : e = Each(o) /\ i = j - 1 /\ j = i + 1 /\ e >= 1
    <2>1. Each(o) \in Nat /\ Each(o) >= 1
      <3>1. Each(o) \in Nat
        BY <1>1, InsertShares
      <3>2. o.insert_segments <= UpdateRows
        BY <1>1
      <3>3. QED
        BY ONLY <1>1, <3>1, <3>2, AtLeastOne DEF Each
    <2>2. j - 1 \in Nat /\ j = (j - 1) + 1
      OBVIOUS
    <2>3. QED
      BY <2>1, <2>2
  <1>6. s = e \/ s = e + 1
    <2>1. SegStart(o, h, i) \in Nat
      BY <1>1, InsertShares
    <2>2. SegStart(o, h, i + 1) = SegStart(o, h, i) + (IF i < Residual(o) THEN Each(o) + 1 ELSE Each(o))
      BY <1>1, InsertShares
    <2>3. QED
      BY <1>5, <2>1, <2>2
  <1>7. Size(o, g) # 0 /\ s - Each(o) \in {0, 1}
    BY <1>4, <1>5, <1>6
  <1>8. g \in DOMAIN files
    BY <1>3, <1>7, WhenEnded
  <1>9. /\ DOMAIN files[g] = 1..Size(o, g) /\ Len(files[g]) = Size(o, g)
        /\ \A n \in 1..Size(o, g) : files[g][n].index = First(o, g) + n
    BY <1>3, <1>8, WhenEnded
  <1>10. QED
    BY <1>4, <1>7, <1>8, <1>9

(* SegmentsPair, for every refresh set of at least as many orders as files: *)
(* the n-th file of orders holds the orders of the n-th file of line items, *)
(* and no two files of a set differ by more than one order.                 *)
THEOREM SegmentsPairHolds ==
  ASSUME Ordinary, OneDataSet
  PROVE  Spec => []SegmentsPair
  <1>1. ASSUME OnceInv PROVE SegmentsPair
    <2> DEFINE seg(h, k, j) == [of |-> h, step |-> 0, set |-> k, seg |-> j]
    <2> SUFFICES ASSUME pc = "shell", ended = plan,
                        NEW o \in plan, o.insert_segments \in 1..UpdateRows,
                        NEW k \in Sets, k >= o.step, k <= o.updates,
                        NEW j \in 1..o.insert_segments
                 PROVE  /\ {seg("ORDER", k, j), seg("LINE", k, j)} \subseteq DOMAIN files
                        /\ Len(files[seg("ORDER", k, j)]) - UpdateRows \div o.insert_segments \in {0, 1}
                        /\ [n \in DOMAIN files[seg("ORDER", k, j)] |-> files[seg("ORDER", k, j)][n].index]
                             = [n \in DOMAIN files[seg("LINE", k, j)] |-> files[seg("LINE", k, j)][n].index]
      BY DEF SegmentsPair
    <2>1. o \in Command /\ Valid(o) /\ o.updates \in Nat /\ UpdateRows \in Nat
      BY <1>1, WhenEnded, ConstantsAreNatural
    <2>2. o.insert_segments \in Nat /\ o.insert_segments > 0
      BY <2>1
    <2>3. o.updates > 0
      BY <2>1, <2>2 DEF Valid
    <2>4. k \in SetsOf(o)
      <3>1. k \in Nat /\ k # 0
        BY <1>1 DEF OnceInv, RInv, KeysInv, Sets
      <3>2. QED
        BY <2>1, <2>3, <3>1 DEF SetsOf, Command
    <2>5. PICK s \in Nat : \A h \in {"ORDER", "LINE"} : s = SegStart(o, h, j) - SegStart(o, h, j - 1)
      <3>1. \A i : SegStart(o, "ORDER", i) = SegStart(o, "LINE", i)
        BY DEF SegStart
      <3>2. PICK i \in Nat : i = j - 1 /\ j = i + 1
        BY <2>1
      <3>3. PICK e \in Nat : e = SegStart(o, "LINE", i)
        BY <2>1, <2>2, InsertShares
      <3>4. SegStart(o, "LINE", i + 1) = e + (IF i < Residual(o) THEN Each(o) + 1 ELSE Each(o))
            /\ Each(o) \in Nat
        BY <2>1, <2>2, <3>3, InsertShares
      <3>5. SegStart(o, "LINE", j) - SegStart(o, "LINE", j - 1) \in Nat
        BY <3>2, <3>3, <3>4
      <3>6. QED
        BY <3>1, <3>5
    <2>6. PICK a : \A h \in {"ORDER", "LINE"} : a = Base(o, h, k) + SegStart(o, h, j - 1)
      BY <2>1, <2>3 DEF Base, SegStart
    <2>7. ASSUME NEW h \in {"ORDER", "LINE"}
          PROVE  /\ seg(h, k, j) \in DOMAIN files
                 /\ DOMAIN files[seg(h, k, j)] = 1..s /\ Len(files[seg(h, k, j)]) = s
                 /\ s - Each(o) \in {0, 1}
                 /\ \A n \in 1..s : files[seg(h, k, j)][n].index = a + n
      <3>1. PICK g : g = seg(h, k, j)
        OBVIOUS
      <3>2. QED
        BY <1>1, <2>3, <2>4, <2>5, <2>6, <3>1, InsertSegment
    <2>8. QED
      BY <2>7 DEF Each
  <1>2. Spec => []OnceInv
    BY OnceInvHolds
  <1>3. QED
    BY <1>1, <1>2, PTL
=============================================================================
