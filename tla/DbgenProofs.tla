----------------------------- MODULE DbgenProofs -----------------------------
(***************************************************************************)
(* Proofs about dbgen's processes, for any number of rows, chunks, refresh  *)
(* sets, segments and crashes: what one process generates, any division of  *)
(* it into processes does.                                                  *)
(***************************************************************************)
EXTENDS Dbgen, TLAPS

-----------------------------------------------------------------------------
(* Streams: skipping a row and making it move the streams that the row is    *)
(* printed from by the same distance, whatever the row's own draws were, and *)
(* leave the other tables' alone.                                            *)

\* The streams that the rows of table t are printed from.
Printing(t) ==
  CASE t = "ORDER_LINE" -> PrintedStreams("ORDER") \cup PrintedStreams("LINE")
    [] t = "PART_PSUPP" -> PrintedStreams("PART") \cup PrintedStreams("PSUPP")
    [] OTHER            -> PrintedStreams(t)

LEMMA BoundaryIsNatural == \A s \in Stream : Boundary(s) \in Nat \ {0}
  BY DEF Boundary, O_LCNT_MAX, SUPP_PER_PART, MAX_COLOR, ADDR_DRAWS_MAX

LEMMA PrintedAreStreams == \A t \in Table : Printing(t) \subseteq Stream
  BY DEF Table, Printing, PrintedStreams, Stream, OrderStream, LineStream

-----------------------------------------------------------------------------
(* Skipping *)

LEMMA SkipPart == \A s \in PartStream : sd_part(s) = Boundary(s) /\ sd_psupp(s) = 0
  BY DEF PartStream, sd_part, sd_psupp, Boundary, LineStream, TextStream, MAX_COLOR

LEMMA SkipPsupp == \A s \in PsuppStream : sd_psupp(s) = Boundary(s) /\ sd_part(s) = 0
  BY DEF PartStream, PsuppStream, sd_part, sd_psupp, Boundary, LineStream, TextStream, SUPP_PER_PART

LEMMA SkipOrder == \A s \in OrderStream : sd_order(s) = Boundary(s) /\ sd_line(0, s) = 0
  BY DEF OrderStream, sd_order, sd_line, Boundary, LineStream, TextStream

LEMMA SkipLine == \A s \in LineStream \ {"HVAR"} : sd_line(0, s) = Boundary(s) /\ sd_line(1, s) = Boundary(s) /\ sd_order(s) = 0
  BY DEF OrderStream, sd_order, sd_line, Boundary, LineStream, TextStream, O_LCNT_MAX

LEMMA SkipCust == \A s \in CustStream : sd_cust(s) = Boundary(s)
  BY DEF CustStream, sd_cust, Boundary, LineStream, TextStream, ADDR_DRAWS_MAX

LEMMA SkipSupp == \A s \in SuppStream : sd_supp(s) = Boundary(s)
  BY DEF SuppStream, sd_supp, Boundary, LineStream, TextStream, ADDR_DRAWS_MAX

(* The streams of the tables that may be split are moved, for a row that is *)
(* skipped, by the boundary that row_stop moves them to.                    *)
LEMMA SkipIsBoundary ==
  ASSUME NEW t \in Table \ {"NATION", "REGION"}, NEW s \in Printing(t)
  PROVE  SkipRow(t, s) = Boundary(s)
  <1>1. CASE t = "PART"
    <2>1. s \in PartStream /\ SkipRow(t, s) = sd_part(s) + sd_psupp(s)
      BY <1>1 DEF Printing, PrintedStreams, SkipRow, gen_seed, Child
    <2>2. QED
      BY <2>1, SkipPart, BoundaryIsNatural DEF Stream
  <1>2. CASE t = "PSUPP"
    <2>1. s \in PsuppStream /\ SkipRow(t, s) = sd_psupp(s) + 0
      BY <1>2 DEF Printing, PrintedStreams, SkipRow, gen_seed, Child
    <2>2. QED
      BY <2>1, SkipPsupp, BoundaryIsNatural DEF Stream
  <1>3. CASE t = "PART_PSUPP"
    <2>1. s \in PartStream \cup PsuppStream /\ SkipRow(t, s) = sd_part(s) + sd_psupp(s)
      BY <1>3 DEF Printing, PrintedStreams, SkipRow, gen_seed, Child
    <2>2. QED
      BY <2>1, SkipPart, SkipPsupp, BoundaryIsNatural DEF Stream
  <1>4. CASE t = "SUPP"
    <2>1. s \in SuppStream /\ SkipRow(t, s) = sd_supp(s) + 0
      BY <1>4 DEF Printing, PrintedStreams, SkipRow, gen_seed, Child
    <2>2. QED
      BY <2>1, SkipSupp, BoundaryIsNatural DEF Stream
  <1>5. CASE t = "CUST"
    <2>1. s \in CustStream /\ SkipRow(t, s) = sd_cust(s) + 0
      BY <1>5 DEF Printing, PrintedStreams, SkipRow, gen_seed, Child
    <2>2. QED
      BY <2>1, SkipCust, BoundaryIsNatural DEF Stream
  <1>6. CASE t \in {"ORDER", "ORDER_LINE"}
    <2>1. SkipRow(t, s) = sd_order(s) + sd_line(0, s)
      BY <1>6 DEF SkipRow, gen_seed, Child
    <2>2. s \in OrderStream \/ s \in LineStream \ {"HVAR"}
      BY <1>6 DEF Printing, PrintedStreams, OrderStream, LineStream
    <2>3. QED
      BY <2>1, <2>2, SkipOrder, SkipLine, BoundaryIsNatural DEF Stream
  <1>7. CASE t = "LINE"
    <2>1. SkipRow(t, s) = sd_line(1, s) + 0
      BY <1>7 DEF SkipRow, gen_seed, Child
    <2>2. s \in LineStream \ {"HVAR"} \/ s \in {"O_ODATE", "O_LCNT"}
      BY <1>7 DEF Printing, PrintedStreams
    <2>3. \A r \in {"O_ODATE", "O_LCNT"} : sd_line(1, r) = Boundary(r)
      BY DEF sd_line, Boundary, LineStream, TextStream
    <2>4. QED
      BY <2>1, <2>2, <2>3, SkipLine, BoundaryIsNatural, PrintedAreStreams
  <1>8. QED
    BY <1>1, <1>2, <1>3, <1>4, <1>5, <1>6, <1>7 DEF Table

-----------------------------------------------------------------------------
(* Drawing *)

(* What making a row draws from the streams it is printed from.             *)
LEMMA OrderDrawsBounded ==
  ASSUME NEW d \in OrderDraws
  PROVE  /\ \A s \in Stream : d[s] \in Nat
         /\ \A s \in OrderStream \ {"O_SUPP"} : d[s] = Boundary(s)
         /\ \A s \in LineStream \ {"HVAR"} : d[s] <= Boundary(s)
         /\ \A s \in Stream \ (OrderStream \cup LineStream) : d[s] = 0
  <1>1. PICK lines \in LineCounts : \E returned \in 0..lines :
          d = [s \in Stream |->
                 CASE s = "L_RFLG"  -> returned
                   [] s = "L_CMNT"  -> 2 * lines
                   [] s \in LineStream \ {"HVAR", "L_RFLG", "L_CMNT"} -> lines
                   [] s = "O_CMNT"  -> 2
                   [] s \in OrderStream \ {"O_CMNT", "O_SUPP"} -> 1
                   [] OTHER         -> 0]
    BY DEF OrderDraws
  <1>2. PICK returned \in 0..lines :
          d = [s \in Stream |->
                 CASE s = "L_RFLG"  -> returned
                   [] s = "L_CMNT"  -> 2 * lines
                   [] s \in LineStream \ {"HVAR", "L_RFLG", "L_CMNT"} -> lines
                   [] s = "O_CMNT"  -> 2
                   [] s \in OrderStream \ {"O_CMNT", "O_SUPP"} -> 1
                   [] OTHER         -> 0]
    BY <1>1
  <1>3. lines \in 1..7 /\ returned \in 0..7
    BY DrawsAssumption DEF O_LCNT_MIN, O_LCNT_MAX
  <1>4. "L_RFLG" \in Stream /\ "L_CMNT" \in Stream /\ "O_CMNT" \in Stream
    BY DEF Stream, LineStream, OrderStream
  <1>5. OrderStream \subseteq Stream /\ LineStream \subseteq Stream
    BY DEF Stream
  <1>6. \A s \in LineStream \ {"HVAR", "L_RFLG", "L_CMNT"} : d[s] = lines
    BY <1>2, <1>5 DEF LineStream, OrderStream
  <1>7. d["L_RFLG"] = returned /\ d["L_CMNT"] = 2 * lines /\ d["O_CMNT"] = 2
    BY <1>2, <1>4 DEF LineStream, OrderStream
  <1>8. \A s \in OrderStream \ {"O_CMNT", "O_SUPP"} : d[s] = 1
    BY <1>2, <1>5 DEF LineStream, OrderStream
  <1>9. \A s \in Stream : s = "HVAR" \/ s = "O_SUPP" \/ s \notin OrderStream \cup LineStream => d[s] = 0
    BY <1>2 DEF LineStream, OrderStream
  <1>10. \A s \in LineStream \ {"HVAR", "L_RFLG", "L_CMNT"} : Boundary(s) = 7
    BY DEF Boundary, LineStream, TextStream, O_LCNT_MAX
  <1>11. Boundary("L_RFLG") = 7 /\ Boundary("L_CMNT") = 14 /\ Boundary("O_CMNT") = 2
    BY DEF Boundary, LineStream, TextStream, O_LCNT_MAX
  <1>12. \A s \in OrderStream \ {"O_CMNT", "O_SUPP"} : Boundary(s) = 1
    BY DEF Boundary, LineStream, OrderStream, TextStream
  <1>13. \A s \in LineStream \ {"HVAR"} : d[s] \in Nat /\ d[s] <= Boundary(s)
    BY <1>3, <1>6, <1>7, <1>10, <1>11
  <1>14. \A s \in OrderStream \ {"O_SUPP"} : d[s] = Boundary(s) /\ d[s] \in Nat
    BY <1>7, <1>8, <1>11, <1>12
  <1>15. \A s \in Stream : d[s] \in Nat
    BY <1>9, <1>13, <1>14
  <1>16. QED
    BY <1>9, <1>13, <1>14, <1>15

LEMMA PartDrawsExact ==
  ASSUME NEW d \in PartDraws
  PROVE  /\ \A s \in PartStream \cup PsuppStream : d[s] = Boundary(s)
         /\ \A s \in Stream \ (PartStream \cup PsuppStream) : d[s] = 0
  <1>1. d = [s \in Stream |-> IF s \in PartStream \cup PsuppStream THEN Boundary(s) ELSE 0]
    BY DEF PartDraws
  <1>2. PartStream \cup PsuppStream \subseteq Stream
    BY DEF Stream
  <1>3. QED
    BY <1>1, <1>2

LEMMA CustDrawsBounded ==
  ASSUME NEW d \in CustDraws
  PROVE  /\ \A s \in CustStream : d[s] \in Nat /\ d[s] <= Boundary(s)
         /\ \A s \in Stream \ CustStream : d[s] = 0
  <1>1. PICK a \in AddressDraws :
          d = [s \in Stream |-> CASE s = "C_ADDR" -> a
                                  [] s \in CustStream \ {"C_ADDR"} -> Boundary(s)
                                  [] OTHER -> 0]
    BY DEF CustDraws
  <1>2. a \in 3..9
    BY DrawsAssumption DEF ADDR_DRAWS_MIN, ADDR_DRAWS_MAX
  <1>3. CustStream \subseteq Stream /\ "C_ADDR" \in CustStream
    BY DEF Stream, CustStream
  <1>4. Boundary("C_ADDR") = 9
    BY DEF Boundary, LineStream, TextStream, ADDR_DRAWS_MAX
  <1>5. d["C_ADDR"] = a /\ \A s \in CustStream \ {"C_ADDR"} : d[s] = Boundary(s)
    BY <1>1, <1>3
  <1>6. \A s \in Stream \ CustStream : d[s] = 0
    BY <1>1, <1>3
  <1>7. QED
    BY <1>2, <1>3, <1>4, <1>5, <1>6, BoundaryIsNatural

LEMMA SuppDrawsBounded ==
  ASSUME NEW d \in SuppDraws
  PROVE  /\ \A s \in SuppStream : d[s] \in Nat /\ d[s] <= Boundary(s)
         /\ \A s \in Stream \ SuppStream : d[s] = 0
  <1>1. PICK a \in AddressDraws :
          d = [s \in Stream |-> CASE s = "S_ADDR" -> a
                                  [] s \in SuppStream \ {"S_ADDR"} -> Boundary(s)
                                  [] OTHER -> 0]
    BY DEF SuppDraws
  <1>2. a \in 3..9
    BY DrawsAssumption DEF ADDR_DRAWS_MIN, ADDR_DRAWS_MAX
  <1>3. SuppStream \subseteq Stream /\ "S_ADDR" \in SuppStream
    BY DEF Stream, SuppStream
  <1>4. Boundary("S_ADDR") = 9
    BY DEF Boundary, LineStream, TextStream, ADDR_DRAWS_MAX
  <1>5. d["S_ADDR"] = a /\ \A s \in SuppStream \ {"S_ADDR"} : d[s] = Boundary(s)
    BY <1>1, <1>3
  <1>6. \A s \in Stream \ SuppStream : d[s] = 0
    BY <1>1, <1>3
  <1>7. QED
    BY <1>2, <1>3, <1>4, <1>5, <1>6, BoundaryIsNatural

(* No row draws more from a stream that it is printed from than the boundary,*)
(* and a stream that row_stop does not round up is drawn that often exactly. *)
LEMMA DrawsBounded ==
  ASSUME NEW t \in Table, NEW d \in Draws(t), NEW s \in Printing(t)
  PROVE  /\ d[s] \in Nat /\ d[s] <= Boundary(s)
         /\ ~RoundedUp(t, s) => d[s] = Boundary(s)
  <1>0. s \in Stream /\ Boundary(s) \in Nat
    BY PrintedAreStreams, BoundaryIsNatural
  <1>1. CASE t \in {"ORDER", "LINE", "ORDER_LINE"}
    <2>1. d \in OrderDraws
      BY <1>1 DEF Draws
    <2>2. s \in OrderStream \ {"O_SUPP"} \/ s \in LineStream \ {"HVAR"}
      BY <1>1 DEF Printing, PrintedStreams, OrderStream, LineStream
    <2>3. s \in LineStream => RoundedUp(t, s)
      <3>1. s \in LineStream => Owner(s) = "LINE"
        BY DEF Owner, LineStream, PartStream, PsuppStream, OrderStream, CustStream, SuppStream
      <3>2. QED
        BY <1>1, <3>1 DEF RoundedUp, Master, Child
    <2>4. QED
      BY <1>0, <2>1, <2>2, <2>3, OrderDrawsBounded
  <1>2. CASE t \in {"PART", "PSUPP", "PART_PSUPP"}
    <2>1. d \in PartDraws
      BY <1>2 DEF Draws
    <2>2. s \in PartStream \cup PsuppStream
      BY <1>2 DEF Printing, PrintedStreams
    <2>3. QED
      BY <1>0, <2>1, <2>2, PartDrawsExact
  <1>3. CASE t = "CUST"
    <2>1. d \in CustDraws /\ s \in CustStream
      BY <1>3 DEF Draws, Printing, PrintedStreams
    <2>2. Owner(s) = "CUST"
      BY <2>1 DEF Owner, LineStream, PartStream, PsuppStream, OrderStream, CustStream, SuppStream
    <2>3. RoundedUp(t, s)
      BY <1>3, <2>2 DEF RoundedUp, Master
    <2>4. QED
      BY <2>1, <2>3, CustDrawsBounded
  <1>4. CASE t = "SUPP"
    <2>1. d \in SuppDraws /\ s \in SuppStream
      BY <1>4 DEF Draws, Printing, PrintedStreams
    <2>2. Owner(s) = "SUPP"
      BY <2>1 DEF Owner, LineStream, PartStream, PsuppStream, OrderStream, CustStream, SuppStream
    <2>3. RoundedUp(t, s)
      BY <1>4, <2>2 DEF RoundedUp, Master
    <2>4. QED
      BY <2>1, <2>3, SuppDrawsBounded
  <1>5. CASE t \in {"NATION", "REGION"}
    <2>1. PICK r \in {"N_CMNT", "R_CMNT"} : s = r /\ d = [q \in Stream |-> IF q = r THEN 2 ELSE 0]
      BY <1>5 DEF Draws, CodeDraws, Printing, PrintedStreams
    <2>2. d[s] = 2
      BY <1>0, <2>1
    <2>3. Boundary(s) = 2
      BY <2>1 DEF Boundary, LineStream, TextStream
    <2>4. QED
      BY <2>2, <2>3
  <1>6. QED
    BY <1>1, <1>2, <1>3, <1>4, <1>5 DEF Table

(* The end of a row is the boundary of its streams, whatever it drew.       *)
LEMMA RowIsBoundary ==
  ASSUME NEW t \in Table, NEW d \in Draws(t), NEW s \in Printing(t)
  PROVE  d[s] \in Nat /\ row_stop(t, d, s) \in Nat /\ d[s] + row_stop(t, d, s) = Boundary(s)
  <1>1. Boundary(s) \in Nat /\ d[s] \in Nat /\ d[s] <= Boundary(s)
    BY PrintedAreStreams, BoundaryIsNatural, DrawsBounded
  <1>2. CASE RoundedUp(t, s)
    BY <1>1, <1>2 DEF row_stop
  <1>3. CASE ~RoundedUp(t, s)
    BY <1>1, <1>3, DrawsBounded DEF row_stop
  <1>4. QED
    BY <1>2, <1>3

(* speed_seed.c skips a row as rnd.c and build.c make one: for every table  *)
(* that may be split, every stream its rows are printed from and every      *)
(* number of lines or characters a row may draw, the distance is the same.  *)
THEOREM SkippedAsMade ==
  ASSUME NEW t \in Table \ {"NATION", "REGION"}, NEW d \in Draws(t), NEW s \in Printing(t)
  PROVE  SkipRow(t, s) = d[s] + row_stop(t, d, s)
  BY SkipIsBoundary, RowIsBoundary

-----------------------------------------------------------------------------
(* The streams of other tables *)

\* The tables that a process makes when no -T names others.
Joint == {"CUST", "SUPP", "NATION", "REGION", "PART_PSUPP", "ORDER_LINE"}

LEMMA OwnerIs ==
  /\ \A s \in PartStream : Owner(s) = "PART"
  /\ \A s \in PsuppStream : Owner(s) = "PSUPP"
  /\ \A s \in OrderStream : Owner(s) = "ORDER"
  /\ \A s \in LineStream : Owner(s) = "LINE"
  /\ \A s \in CustStream : Owner(s) = "CUST"
  /\ \A s \in SuppStream : Owner(s) = "SUPP"
  /\ Owner("N_CMNT") = "NATION" /\ Owner("R_CMNT") = "REGION"
  BY DEF Owner, PartStream, PsuppStream, OrderStream, LineStream, CustStream, SuppStream

LEMMA PrintingOwned ==
  ASSUME NEW t \in Joint, NEW s \in Printing(t)
  PROVE  Owner(s) \in {Master(t), Child(t)} \ {"NONE"}
  <1>1. CASE t = "ORDER_LINE"
    <2>1. s \in OrderStream \cup LineStream
      BY <1>1 DEF Printing, PrintedStreams, OrderStream, LineStream
    <2>2. QED
      BY <1>1, <2>1, OwnerIs DEF Master, Child
  <1>2. CASE t = "PART_PSUPP"
    <2>1. s \in PartStream \cup PsuppStream
      BY <1>2 DEF Printing, PrintedStreams
    <2>2. QED
      BY <1>2, <2>1, OwnerIs DEF Master, Child
  <1>3. CASE t \in {"CUST", "SUPP", "NATION", "REGION"}
    <2>1. Owner(s) = t
      BY <1>3, OwnerIs DEF Printing, PrintedStreams
    <2>2. QED
      BY <1>3, <2>1 DEF Master, Child
  <1>4. QED
    BY <1>1, <1>2, <1>3 DEF Joint

LEMMA OwnersDisjoint ==
  ASSUME NEW t \in Joint, NEW u \in Joint, t # u
  PROVE  {Master(t), Child(t)} \cap {Master(u), Child(u)} \subseteq {"NONE"}
  BY DEF Joint, Master, Child

(* What is skipped, drawn and rounded up for one table moves no stream that *)
(* the rows of another are printed from.                                    *)
LEMMA OtherTables ==
  ASSUME NEW t \in Joint, NEW u \in Joint, t # u, NEW s \in Printing(u)
  PROVE  /\ \A d \in Draws(t) : d[s] = 0 /\ row_stop(t, d, s) = 0
         /\ SkipRow(t, s) = 0 /\ gen_seed(t, 0, s) = 0
  <1>0. s \in Stream
    BY PrintedAreStreams DEF Joint, Table
  <1>1. Owner(s) # Master(t) /\ Owner(s) # Child(t) /\ Owner(s) # "NONE"
    BY PrintingOwned, OwnersDisjoint
  <1>2. \A d \in Draws(t) : row_stop(t, d, s) = 0
    BY <1>1 DEF row_stop, RoundedUp
  <1>3. CASE t = "ORDER_LINE"
    <2>1. s \notin OrderStream \cup LineStream
      BY <1>1, <1>3, OwnerIs DEF Master, Child
    <2>2. sd_order(s) = 0 /\ sd_line(0, s) = 0
      BY <2>1 DEF sd_order, sd_line, OrderStream, LineStream
    <2>3. SkipRow(t, s) = 0 /\ gen_seed(t, 0, s) = 0
      BY <1>3, <2>2 DEF SkipRow, gen_seed, Child
    <2>4. \A d \in Draws(t) : d[s] = 0
      BY <1>0, <1>3, <2>1, OrderDrawsBounded DEF Draws
    <2>5. QED
      BY <1>2, <2>3, <2>4
  <1>4. CASE t = "PART_PSUPP"
    <2>1. s \notin PartStream \cup PsuppStream
      BY <1>1, <1>4, OwnerIs DEF Master, Child
    <2>2. sd_part(s) = 0 /\ sd_psupp(s) = 0
      BY <2>1 DEF sd_part, sd_psupp, PartStream, PsuppStream
    <2>3. SkipRow(t, s) = 0 /\ gen_seed(t, 0, s) = 0
      BY <1>4, <2>2 DEF SkipRow, gen_seed, Child
    <2>4. \A d \in Draws(t) : d[s] = 0
      BY <1>0, <1>4, <2>1, PartDrawsExact DEF Draws
    <2>5. QED
      BY <1>2, <2>3, <2>4
  <1>5. CASE t = "CUST"
    <2>1. s \notin CustStream
      BY <1>1, <1>5, OwnerIs DEF Master, Child
    <2>2. sd_cust(s) = 0
      BY <2>1 DEF sd_cust, CustStream
    <2>3. SkipRow(t, s) = 0 /\ gen_seed(t, 0, s) = 0
      BY <1>5, <2>2 DEF SkipRow, gen_seed, Child
    <2>4. \A d \in Draws(t) : d[s] = 0
      BY <1>0, <1>5, <2>1, CustDrawsBounded DEF Draws
    <2>5. QED
      BY <1>2, <2>3, <2>4
  <1>6. CASE t = "SUPP"
    <2>1. s \notin SuppStream
      BY <1>1, <1>6, OwnerIs DEF Master, Child
    <2>2. sd_supp(s) = 0
      BY <2>1 DEF sd_supp, SuppStream
    <2>3. SkipRow(t, s) = 0 /\ gen_seed(t, 0, s) = 0
      BY <1>6, <2>2 DEF SkipRow, gen_seed, Child
    <2>4. \A d \in Draws(t) : d[s] = 0
      BY <1>0, <1>6, <2>1, SuppDrawsBounded DEF Draws
    <2>5. QED
      BY <1>2, <2>3, <2>4
  <1>7. CASE t \in {"NATION", "REGION"}
    <2>1. SkipRow(t, s) = 0 /\ gen_seed(t, 0, s) = 0
      BY <1>7 DEF SkipRow, gen_seed, Child
    <2>2. PICK r \in {"N_CMNT", "R_CMNT"} :
            Draws(t) = {[q \in Stream |-> IF q = r THEN 2 ELSE 0]} /\ Owner(r) = t
      BY <1>7, OwnerIs DEF Draws, CodeDraws
    <2>3. s # r
      BY <1>1, <1>7, <2>2 DEF Master
    <2>4. \A d \in Draws(t) : d[s] = 0
      BY <1>0, <2>2, <2>3
    <2>5. QED
      BY <1>2, <2>1, <2>4
  <1>8. QED
    BY <1>3, <1>4, <1>5, <1>6, <1>7 DEF Joint


\* The commands that the proofs are about: no table that needs 64-bit draws, fewer
\* refresh sets than the file names can number, and no chunk past the last.
Ordinary ==
  /\ scale < Wide
  /\ \A p \in Plans : \A o \in p :
       o.updates < Unit /\ (o.children > 1 => o.step <= o.children)

-----------------------------------------------------------------------------
(* The inductive invariant *)

(* Where a process is, and in which table or refresh set.                   *)
CommandInv ==
  /\ plan \in Plans /\ todo \subseteq plan
  /\ pc \in {"shell", "main", "update", "row", "stop", "drange"}
  /\ pc # "shell" => opt \in plan /\ Valid(opt)

TableInv ==
  /\ pc = "main" => opt.updates = 0 /\ left \subseteq TablesOf(opt.T)
  /\ pc \in {"row", "stop"} /\ opt.updates = 0 =>
       tab \in TablesOf(opt.T) /\ left \subseteq TablesOf(opt.T) \ {tab} /\ mode = 0
  /\ pc = "stop" => usage \in Draws(tab)

UpdateInv ==
  /\ pc \in {"update", "drange"} => opt.updates > 0
  /\ pc \in {"row", "stop", "drange"} /\ opt.updates > 0 =>
       /\ tab = "ORDER_LINE"
       /\ mode \in Nat /\ mode % Unit = upd_num + 1
  /\ pc # "shell" /\ pc # "update" /\ opt.updates > 0 => upd_num < opt.updates

CountInv ==
  /\ row \in Nat /\ count \in Nat /\ upd_num \in Nat
  /\ pc = "stop" => count > 0
  /\ pc \in {"row", "stop"} /\ opt.updates > 0 =>
       row + count = (upd_num + 1) * UpdateRows + 1

(* How many rows of the data set come before the first row of a process.    *)
Earlier == IF opt.updates > 0 THEN Rows("ORDER") ELSE 0

(* Every stream a row is printed from is where the rows before have put it. *)
PosInv ==
  /\ pc \in {"main", "row", "stop"} /\ opt.updates = 0 =>
       \A t \in left : \A s \in Printing(t) : pos[s] = 0
  /\ pc = "row" => \A s \in Printing(tab) : pos[s] = (row - 1 + Earlier) * Boundary(s)
  /\ pc = "stop" => \A s \in Printing(tab) :
                      pos[s] = (row - 1 + Earlier) * Boundary(s) + usage[s]
  /\ pc = "update" => \A s \in Printing("ORDER_LINE") :
                        pos[s] = (upd_num * UpdateRows + Rows("ORDER")) * Boundary(s)
  /\ pc = "drange" => \A s \in Printing("ORDER_LINE") :
                        pos[s] = ((upd_num + 1) * UpdateRows + Rows("ORDER")) * Boundary(s)

WideInv == wide = NoDraws

(* A file that is open belongs to its table and to the refresh set of mode. *)
FpInv ==
  /\ fp = [h \in Handle |-> fp[h]]
  /\ \A h \in Handle : fp[h] = [file |-> fp[h].file, mode |-> fp[h].mode]
  /\ \A h \in Handle \ {"DELETE"} :
       \/ fp[h] = Closed
       \/ fp[h].file.of = h /\ fp[h].file.set = fp[h].mode % Unit
  /\ \A h \in Handle : fp[h] = Closed \/ fp[h].file \in DOMAIN files
  /\ pc # "shell" /\ opt.updates = 0 => \A h \in Handle : fp[h].mode = 0
  /\ pc = "drange" => fp["DELETE"] # Closed /\ fp["DELETE"].file.of = "DELETE"

IsSequence(q) == q \in Seq({q[k] : k \in DOMAIN q})

FilesInv ==
  /\ \A f \in DOMAIN files : IsSequence(files[f])
  /\ RowsMatchSequential

IInv == CommandInv /\ TableInv /\ UpdateInv /\ CountInv /\ PosInv /\ WideInv /\ FpInv /\ FilesInv

-----------------------------------------------------------------------------
(* Numbers *)

LEMMA ConstantsAreNatural ==
  /\ \A t \in Table : Rows(t) \in Nat
  /\ UpdateRows \in Nat
  <1>1. \A t \in Table : BaseAtOne(t) \in Nat
    BY DbgenAssumption DEF Table, BaseAtOne
  <1>2. \A t \in Table : base(t) \in Nat
    <2>1. \A m \in Nat, b \in Nat : (m * b) \div 1000 \in Nat
      OBVIOUS
    <2>2. QED
      BY <1>1, <2>1, DbgenAssumption DEF base
  <1>3. scale \in Nat
    <2>1. \A m \in Nat : m \div 1000 \in Nat
      OBVIOUS
    <2>2. QED
      BY <2>1, DbgenAssumption DEF scale
  <1>4. \A t \in Table : Rows(t) \in Nat
    BY <1>2, <1>3 DEF Rows
  <1>5. UpdateRows \in Nat
    <2>1. \A a \in Nat, b \in Nat \ {0} : a \div b \in Nat
      BY SMT
    <2>2. base("ORDER_LINE") \div Unit \in Nat
      BY <1>2, <2>1, DbgenAssumption DEF Table
    <2>3. QED
      BY <1>3, <2>2, DbgenAssumption DEF UpdateRows
  <1>6. QED
    BY <1>4, <1>5

LEMMA Divides == \A a \in Nat, b \in Nat \ {0} :
                   /\ a \div b \in Nat /\ a = b * (a \div b) + (a % b) /\ a % b \in 0..(b - 1)
  BY SMT

LEMMA Products ==
  /\ \A a, b \in Nat : a * b \in Nat
  /\ \A a, b, c \in Nat : a <= b => a * c <= b * c
  /\ \A a, c \in Nat : (a + 1) * c = a * c + c
  BY SMT

LEMMA Distributes ==
  /\ \A a, b, c \in Int : (a + b) * c = (a * c) + (b * c) /\ a * c \in Int
  /\ \A a, b, c \in Int : a * (b * c) = (b * a) * c
  BY SMT

(* A number plus the modulus leaves the same remainder.                     *)
LEMMA NextRemainder ==
  ASSUME NEW a \in Nat, NEW m \in Nat \ {0}
  PROVE  (a + m) % m = a % m
  <1>1. PICK q \in Nat : a = (m * q) + (a % m) /\ a % m \in 0..(m - 1)
    <2>1. a \div m \in Nat /\ a = (m * (a \div m)) + (a % m) /\ a % m \in 0..(m - 1)
      BY SMT
    <2>2. QED
      BY <2>1
  <1>2. PICK r \in Nat : a + m = (m * r) + ((a + m) % m) /\ (a + m) % m \in 0..(m - 1)
    <2>1. /\ (a + m) \div m \in Nat /\ a + m = (m * ((a + m) \div m)) + ((a + m) % m)
          /\ (a + m) % m \in 0..(m - 1)
      BY SMT
    <2>2. QED
      BY <2>1
  <1>3. m * (q + 1 - r) = ((a + m) % m) - (a % m)
    BY <1>1, <1>2
  <1>4. PICK e \in Int : e = q + 1 - r /\ m * e = ((a + m) % m) - (a % m)
    BY <1>3
  <1>5. m * e < m /\ m * e > -m
    BY <1>1, <1>2, <1>4
  <1>6. e = 0
    BY <1>5
  <1>7. QED
    BY <1>1, <1>2, <1>4, <1>6

LEMMA BoundariesAreInt == \A t \in Table : \A s \in Printing(t) : s \in Stream /\ Boundary(s) \in Nat
  BY PrintedAreStreams, BoundaryIsNatural

LEMMA HandlesPrint ==
  ASSUME NEW t \in Table, NEW h \in Handles(t)
  PROVE  h \in Handle \ {"DELETE"} /\ PrintedStreams(h) \subseteq Printing(t)
  <1>1. CASE t = "ORDER_LINE"
    BY <1>1 DEF Handles, Loader, Printing, Handle
  <1>2. CASE t = "PART_PSUPP"
    BY <1>2 DEF Handles, Loader, Printing, Handle
  <1>3. CASE t # "ORDER_LINE" /\ t # "PART_PSUPP"
    <2>1. Handles(t) = {t}
      BY <1>3 DEF Handles, Loader
    <2>2. QED
      BY <1>3, <2>1 DEF Table, Printing, Handle
  <1>4. QED
    BY <1>1, <1>2, <1>3

LEMMA TablesAreTables ==
  \A letter \in Letter : TablesOf(letter) \subseteq Table
  BY DEF Letter, TablesOf, Table

(* The tables of a command are one table, or tables that are made together. *)
LEMMA TablesApart ==
  ASSUME NEW letter \in Letter, NEW t \in TablesOf(letter), NEW u \in TablesOf(letter), t # u
  PROVE  t \in Joint /\ u \in Joint
  BY DEF Letter, TablesOf, Joint

-----------------------------------------------------------------------------
(* Where processes begin *)

(* A process that makes a chunk begins with the seeds of its first row.     *)
LEMMA ChunkBegins ==
  ASSUME opt \in Command, opt.children > 1, opt.step \in 0..opt.children,
         NEW t \in Table \ {"NATION", "REGION"}
  PROVE  /\ partial(t).first \in Nat /\ partial(t).count \in Nat
         /\ \A s \in Printing(t) :
              set_state(t, opt.children, opt.step, s) = (partial(t).first - 1) * Boundary(s)
  <1>0. opt.children \in Nat \ {0} /\ opt.step \in Nat
    BY DEF Command
  <1>1. PICK c \in Nat : c = Rows(t) \div opt.children
    <2>1. \A a \in Nat, b \in Nat \ {0} : a \div b \in Nat
      BY SMT
    <2>2. QED
      BY <1>0, <2>1, ConstantsAreNatural
  <1>2. PICK e \in Nat : e = Rows(t) % opt.children
    <2>1. \A a \in Nat, b \in Nat \ {0} : a % b \in Nat
      BY SMT
    <2>2. QED
      BY <1>0, <2>1, ConstantsAreNatural
  <1>3. CASE opt.step = 0
    <2>1. partial(t).first = 1 /\ partial(t).count = 0
      BY <1>0, <1>3 DEF partial
    <2>2. \A s : set_state(t, opt.children, opt.step, s) = 0
      BY <1>3 DEF set_state
    <2>3. QED
      BY <2>1, <2>2, BoundariesAreInt
  <1>4. CASE opt.step # 0
    <2>1. PICK k \in Nat : opt.step = k + 1
      <3>1. opt.step - 1 \in Nat
        BY <1>0, <1>4
      <3>2. QED
        BY <1>0, <3>1
    <2>2. partial(t).first = (c * k) + 1 /\ partial(t).count \in {c, c + e}
      BY <1>1, <1>2, <1>4, <2>1 DEF partial
    <2>3. c * k \in Nat
      OBVIOUS
    <2>4. partial(t).first \in Nat /\ partial(t).count \in Nat /\ partial(t).first - 1 = c * k
      BY <2>2, <2>3
    <2>5. ASSUME NEW s \in Printing(t)
          PROVE  set_state(t, opt.children, opt.step, s) = (partial(t).first - 1) * Boundary(s)
      <3>1. SkipRow(t, s) = Boundary(s) /\ Boundary(s) \in Nat
        BY SkipIsBoundary, BoundariesAreInt
      <3>2. set_state(t, opt.children, opt.step, s) = (k * (c * Boundary(s))) + 0
        BY <1>0, <1>1, <1>4, <2>1, <3>1 DEF set_state
      <3>3. k * (c * Boundary(s)) = (c * k) * Boundary(s)
        BY <3>1, Distributes
      <3>4. (c * k) * Boundary(s) \in Int
        BY <3>1
      <3>5. QED
        BY <2>4, <3>2, <3>3, <3>4
    <2>6. QED
      BY <2>4, <2>5
  <1>5. QED
    BY <1>3, <1>4

(* Skipping the rows of a table leaves the streams of the others.           *)
LEMMA ChunkLeaves ==
  ASSUME opt \in Command, opt.children > 1, opt.step \in 0..opt.children,
         NEW t \in Joint, NEW u \in Joint, t # u, NEW s \in Printing(u)
  PROVE  set_state(t, opt.children, opt.step, s) = 0
  <1>1. SkipRow(t, s) = 0 /\ gen_seed(t, 0, s) = 0
    BY OtherTables
  <1>2. opt.children \in Nat \ {0} /\ opt.step \in Nat /\ t \in Table
    BY DEF Command, Joint, Table
  <1>3. Rows(t) \div opt.children \in Nat
    <2>1. \A a \in Nat, b \in Nat \ {0} : a \div b \in Nat
      BY SMT
    <2>2. QED
      BY <1>2, <2>1, ConstantsAreNatural
  <1>4. (Rows(t) \div opt.children) * 0 = 0
    BY <1>3
  <1>5. opt.step - 1 \in Int /\ (opt.step - 1) * 0 = 0
    BY <1>2
  <1>6. QED
    BY <1>1, <1>2, <1>4, <1>5 DEF set_state

(* A process that makes refresh sets begins behind all rows of the data set *)
(* and behind the sets that others make.                                    *)
LEMMA UpdateBegins ==
  ASSUME NEW o \in Command, NEW s \in Printing("ORDER_LINE")
  PROVE  UpdateStart(o, s) =
           ((IF o.step > 0 THEN o.step - 1 ELSE 0) * UpdateRows + Rows("ORDER")) * Boundary(s)
  <1>0. /\ o.step \in Int /\ Boundary(s) \in Nat /\ UpdateRows \in Nat /\ Rows("ORDER") \in Nat
        /\ UpdProcs \in Nat \ {0}
    BY ConstantsAreNatural, BoundariesAreInt, DbgenAssumption DEF Command, Table
  <1>1. PICK b \in Nat, r \in Nat, u \in Nat :
          b = Boundary(s) /\ r = Rows("ORDER") /\ u = UpdateRows
    BY <1>0
  <1>2. SkipRow("ORDER", s) = b /\ sd_order(s) + sd_line(0, s) = b
    <2>1. SkipRow("ORDER_LINE", s) = Boundary(s)
      BY SkipIsBoundary DEF Table
    <2>2. SkipRow("ORDER_LINE", s) = sd_order(s) + sd_line(0, s)
      BY DEF SkipRow, gen_seed, Child
    <2>3. SkipRow("ORDER", s) = sd_order(s) + sd_line(0, s)
      BY DEF SkipRow, gen_seed, Child
    <2>4. QED
      BY <1>1, <2>1, <2>2, <2>3
  <1>3. PICK c \in Nat : c = r \div UpdProcs /\ UpdProcs * c = r
    <2>1. r % UpdProcs = 0
      BY <1>1, DbgenAssumption
    <2>2. \A a \in Nat, m \in Nat \ {0} : a \div m \in Nat /\ a = (m * (a \div m)) + (a % m)
      BY SMT
    <2>3. QED
      BY <1>0, <2>1, <2>2
  <1>4. set_state("ORDER", UpdProcs, UpdProcs + 1, s) = r * b
    <2>1. UpdProcs + 1 # 0 /\ UpdProcs + 1 > UpdProcs /\ (UpdProcs + 1) - 1 = UpdProcs
      BY <1>0
    <2>2. gen_seed("ORDER", 0, s) \in Int
      BY DEF gen_seed, sd_order
    <2>3. 0 * gen_seed("ORDER", 0, s) = 0
      BY <2>2
    <2>4. set_state("ORDER", UpdProcs, UpdProcs + 1, s) = (UpdProcs * (c * b)) + 0
      BY <1>1, <1>2, <1>3, <2>1, <2>3, DbgenAssumption DEF set_state
    <2>5. UpdProcs * (c * b) = (UpdProcs * c) * b
      BY <1>0
    <2>6. r * b \in Int
      OBVIOUS
    <2>7. QED
      BY <1>3, <2>4, <2>5, <2>6
  <1>5. CASE o.step > 0
    <2>1. PICK k \in Nat : k = o.step - 1
      BY <1>0, <1>5
    <2>2. UpdateStart(o, s) = (r * b) + (k * (u * b))
      BY <1>1, <1>2, <1>4, <1>5, <2>1 DEF UpdateStart
    <2>3. ((k * u) + r) * b = (r * b) + (k * (u * b))
      OBVIOUS
    <2>4. QED
      BY <1>1, <1>5, <2>1, <2>2, <2>3
  <1>6. CASE ~(o.step > 0)
    <2>1. UpdateStart(o, s) = (r * b) + 0
      BY <1>1, <1>4, <1>6 DEF UpdateStart
    <2>2. ((0 * u) + r) * b = (r * b) + 0
      OBVIOUS
    <2>3. QED
      BY <1>1, <1>6, <2>1, <2>2
  <1>7. QED
    BY <1>5, <1>6

-----------------------------------------------------------------------------
(* Files *)

LEMMA AppendIsSequence ==
  ASSUME NEW q, NEW e, IsSequence(q)
  PROVE  /\ IsSequence(Append(q, e))
         /\ DOMAIN Append(q, e) = 1..(Len(q) + 1)
         /\ DOMAIN q = 1..Len(q) /\ Len(q) \in Nat
         /\ \A n \in 1..Len(q) : Append(q, e)[n] = q[n]
         /\ Append(q, e)[Len(q) + 1] = e
  <1>1. PICK S : S = {q[k] : k \in DOMAIN q} \cup {e}
    OBVIOUS
  <1>2. q \in Seq({q[k] : k \in DOMAIN q}) /\ Len(q) \in Nat /\ DOMAIN q = 1..Len(q)
    BY DEF IsSequence
  <1>3. \A k \in 1..Len(q) : q[k] \in S
    BY <1>1, <1>2
  <1>4. q \in Seq(S)
    BY <1>2, <1>3
  <1>5. /\ Append(q, e) \in Seq(S) /\ Len(Append(q, e)) = Len(q) + 1
        /\ \A n \in 1..Len(q) : Append(q, e)[n] = q[n]
        /\ Append(q, e)[Len(q) + 1] = e
    BY <1>1, <1>4
  <1>6. DOMAIN Append(q, e) = 1..(Len(q) + 1)
    BY <1>2, <1>5
  <1>7. PICK p : p = Append(q, e)
    OBVIOUS
  <1>8. p \in Seq({p[k] : k \in DOMAIN p})
    BY <1>5, <1>6, <1>7
  <1>9. QED
    BY <1>2, <1>5, <1>6, <1>7, <1>8 DEF IsSequence

LEMMA EmptyIsSequence == IsSequence(<<>>) /\ DOMAIN <<>> = {} /\ Len(<<>>) = 0
  BY DEF IsSequence

LEMMA PrefixIsSequence ==
  ASSUME NEW q, IsSequence(q), NEW n \in Nat, Len(q) > n
  PROVE  /\ IsSequence(SubSeq(q, 1, n))
         /\ DOMAIN SubSeq(q, 1, n) = 1..n /\ 1..n \subseteq DOMAIN q
         /\ \A k \in 1..n : SubSeq(q, 1, n)[k] = q[k]
  <1>1. PICK S : S = {q[k] : k \in DOMAIN q}
    OBVIOUS
  <1>2. q \in Seq(S) /\ Len(q) \in Nat /\ DOMAIN q = 1..Len(q)
    BY <1>1 DEF IsSequence
  <1>3. 1..n \subseteq 1..Len(q)
    BY <1>2
  <1>4. /\ SubSeq(q, 1, n) \in Seq(S) /\ Len(SubSeq(q, 1, n)) = n
        /\ \A k \in 1..n : SubSeq(q, 1, n)[k] = q[k]
    BY <1>2, <1>3
  <1>5. DOMAIN SubSeq(q, 1, n) = 1..n
    BY <1>4
  <1>6. PICK p : p = SubSeq(q, 1, n)
    OBVIOUS
  <1>7. p \in Seq({p[k] : k \in DOMAIN p})
    <2>1. p \in Seq(S) /\ Len(p) = n /\ DOMAIN p = 1..n
      BY <1>4, <1>5, <1>6
    <2>2. \A k \in 1..Len(p) : p[k] \in {p[j] : j \in DOMAIN p}
      BY <2>1
    <2>3. QED
      BY <2>1, <2>2
  <1>8. QED
    BY <1>2, <1>3, <1>4, <1>5, <1>6, <1>7 DEF IsSequence

(* The file that a row of a table goes to is the handle's, and it is of a   *)
(* refresh set when the process makes refresh sets.                         *)
LEMMA FileOfHandle ==
  ASSUME FpInv, UpdateInv, TableInv, CountInv, opt \in Command, pc = "row", tab \in Table,
         NEW h \in Handles(tab),
         NEW m \in Nat, m % Unit = mode % Unit, opt.updates = 0 => m = 0
  PROVE  /\ File(h, m).of = h
         /\ File(h, m).set = m % Unit
         /\ File(h, m).set > 0 <=> opt.updates > 0
         /\ ~Opens(h, m) => File(h, m) \in DOMAIN files
  <1>0. h \in Handle \ {"DELETE"} /\ opt.updates \in Nat /\ Unit \in Nat \ {0}
    BY HandlesPrint, DbgenAssumption DEF Command
  <1>1. m % Unit > 0 <=> opt.updates > 0
    <2>1. CASE opt.updates > 0
      BY <1>0, <2>1 DEF UpdateInv, CountInv
    <2>2. CASE opt.updates = 0
      <3>1. 0 % Unit = 0
        BY <1>0
      <3>2. QED
        BY <2>2, <3>1
    <2>3. QED
      BY <1>0, <2>1, <2>2
  <1>2. CASE Opens(h, m)
    BY <1>1, <1>2 DEF File, print_prep
  <1>3. CASE ~Opens(h, m)
    <2>1. /\ File(h, m) = fp[h].file /\ fp[h] # Closed
          /\ fp[h].file.of = h /\ fp[h].file.set = fp[h].mode % Unit
          /\ fp[h].file \in DOMAIN files
      BY <1>0, <1>3 DEF File, Opens, FpInv
    <2>2. fp[h].mode = m
      <3>1. CASE h \in {"ORDER", "LINE"}
        BY <1>3, <3>1 DEF Opens
      <3>2. CASE h \notin {"ORDER", "LINE"}
        <4>1. opt.updates = 0
          <5>1. tab # "ORDER_LINE"
            BY <3>2 DEF Handles, Loader
          <5>2. QED
            BY <1>0, <5>1 DEF UpdateInv
        <4>2. QED
          BY <1>0, <4>1 DEF FpInv
      <3>3. QED
        BY <3>1, <3>2
    <2>3. QED
      BY <1>1, <1>3, <2>1, <2>2
  <1>4. QED
    BY <1>2, <1>3

(* Appending the row that a process is making to files of its table: what a *)
(* file holds was there before or is that row.                              *)
LEMMA PrintedRows ==
  ASSUME FilesInv, FpInv, UpdateInv, TableInv, CountInv,
         opt \in Command, pc = "row", tab \in Table,
         NEW hs \in SUBSET Handles(tab),
         NEW m \in Nat, m % Unit = mode % Unit, opt.updates = 0 => m = 0,
         files' = Printed(hs, m)
  PROVE  \A f \in DOMAIN files' :
           /\ f \in DOMAIN files \/ f.set = mode % Unit
           /\ IsSequence(files'[f])
           /\ \A n \in DOMAIN files'[f] :
                \/ f \in DOMAIN files /\ n \in DOMAIN files[f] /\ files'[f][n] = files[f][n]
                \/ /\ f.of \in hs /\ files'[f][n] = RowOf(f.of)
                   /\ f.set = mode % Unit /\ (f.set > 0 <=> opt.updates > 0)
  <1>1. /\ DOMAIN files' = DOMAIN files \cup {File(h, m) : h \in hs}
        /\ \A f \in DOMAIN files' :
             files'[f] = IF f.of \in hs /\ f = File(f.of, m)
                         THEN Append(IF Opens(f.of, m) THEN <<>> ELSE files[f], RowOf(f.of))
                         ELSE files[f]
    BY DEF Printed
  <1>2. \A h \in hs : /\ File(h, m).of = h /\ File(h, m).set = mode % Unit
                      /\ File(h, m).set > 0 <=> opt.updates > 0
                      /\ ~Opens(h, m) => File(h, m) \in DOMAIN files
    BY FileOfHandle
  <1> SUFFICES ASSUME NEW f \in DOMAIN files'
               PROVE  /\ f \in DOMAIN files \/ f.set = mode % Unit
                      /\ IsSequence(files'[f])
                      /\ \A n \in DOMAIN files'[f] :
                           \/ f \in DOMAIN files /\ n \in DOMAIN files[f] /\ files'[f][n] = files[f][n]
                           \/ /\ f.of \in hs /\ files'[f][n] = RowOf(f.of)
                              /\ f.set = mode % Unit /\ (f.set > 0 <=> opt.updates > 0)
    OBVIOUS
  <1>3. CASE ~(f.of \in hs /\ f = File(f.of, m))
    <2>1. f \in DOMAIN files /\ files'[f] = files[f]
      BY <1>1, <1>2, <1>3
    <2>2. QED
      BY <2>1 DEF FilesInv
  <1>4. CASE f.of \in hs /\ f = File(f.of, m)
    <2>1. PICK q : /\ IsSequence(q) /\ files'[f] = Append(q, RowOf(f.of))
                   /\ q = <<>> \/ (f \in DOMAIN files /\ q = files[f])
      <3>1. CASE Opens(f.of, m)
        BY <1>1, <1>4, <3>1, EmptyIsSequence
      <3>2. CASE ~Opens(f.of, m)
        <4>1. f \in DOMAIN files /\ files'[f] = Append(files[f], RowOf(f.of))
          BY <1>1, <1>2, <1>4, <3>2
        <4>2. QED
          BY <4>1 DEF FilesInv
      <3>3. QED
        BY <3>1, <3>2
    <2>2. IsSequence(files'[f])
      BY <2>1, AppendIsSequence
    <2>3. \A n \in DOMAIN files'[f] :
            (n \in DOMAIN q /\ files'[f][n] = q[n]) \/ files'[f][n] = RowOf(f.of)
      BY <2>1, AppendIsSequence
    <2>4. \A n \in DOMAIN q : f \in DOMAIN files /\ q = files[f]
      BY <2>1, EmptyIsSequence
    <2>5. f.set = mode % Unit /\ (f.set > 0 <=> opt.updates > 0)
      BY <1>2, <1>4
    <2>6. QED
      BY <1>4, <2>2, <2>3, <2>4, <2>5
  <1>5. QED
    BY <1>3, <1>4

LEMMA PrintedMatches ==
  ASSUME FilesInv, FpInv, UpdateInv, TableInv, CountInv, PosInv, WideInv,
         opt \in Command, pc = "row", tab \in Table,
         NEW hs \in SUBSET Handles(tab),
         NEW m \in Nat, m % Unit = mode % Unit, opt.updates = 0 => m = 0,
         files' = Printed(hs, m)
  PROVE  FilesInv'
  <1>1. \A f \in DOMAIN files' :
          /\ IsSequence(files'[f])
          /\ \A n \in DOMAIN files'[f] :
               \/ f \in DOMAIN files /\ n \in DOMAIN files[f] /\ files'[f][n] = files[f][n]
               \/ /\ f.of \in hs /\ files'[f][n] = RowOf(f.of)
                  /\ f.set = mode % Unit /\ (f.set > 0 <=> opt.updates > 0)
    BY PrintedRows
  <1>2. ASSUME NEW f \in DOMAIN files', f.of # "DELETE", NEW n \in DOMAIN files'[f]
        PROVE  LET before == files'[f][n].index - 1 + (IF f.set > 0 THEN Rows("ORDER") ELSE 0)
               IN  files'[f][n].at =
                     [s \in PrintedStreams(f.of) |-> <<before * Boundary(s), 0>>]
    <2>1. CASE f \in DOMAIN files /\ n \in DOMAIN files[f] /\ files'[f][n] = files[f][n]
      BY <1>2, <2>1 DEF FilesInv, RowsMatchSequential
    <2>2. CASE f.of \in hs /\ files'[f][n] = RowOf(f.of) /\ (f.set > 0 <=> opt.updates > 0)
      <3>1. PICK h \in hs : h = f.of
        BY <2>2
      <3>2. /\ RowOf(h).index = row
            /\ RowOf(h).at = [s \in PrintedStreams(h) |-> <<pos[s], wide[s]>>]
        BY DEF RowOf
      <3>3. Earlier = IF f.set > 0 THEN Rows("ORDER") ELSE 0
        BY <2>2 DEF Earlier
      <3>4. \A s \in PrintedStreams(h) :
              s \in Stream /\ pos[s] = (row - 1 + Earlier) * Boundary(s) /\ wide[s] = 0
        BY <3>1, HandlesPrint, PrintedAreStreams DEF PosInv, WideInv, NoDraws
      <3>5. RowOf(h).at = [s \in PrintedStreams(h) |-> <<(row - 1 + Earlier) * Boundary(s), 0>>]
        BY <3>2, <3>4
      <3>6. QED
        BY <2>2, <3>1, <3>2, <3>3, <3>5
    <2>3. QED
      BY <1>1, <2>1, <2>2
  <1>3. RowsMatchSequential'
    BY <1>2 DEF RowsMatchSequential
  <1>4. QED
    BY <1>1, <1>3 DEF FilesInv, IsSequence

-----------------------------------------------------------------------------
(* The steps of a process *)

LEMMA InitEstablishes == ASSUME Init PROVE IInv
  <1> USE DEF Init
  <1>1. CommandInv
    BY DEF CommandInv
  <1>2. TableInv
    BY DEF TableInv
  <1>3. UpdateInv
    BY DEF UpdateInv
  <1>4. CountInv
    BY DEF CountInv
  <1>5. PosInv
    BY DEF PosInv
  <1>6. WideInv
    BY DEF WideInv
  <1>7. FpInv
    BY DEF FpInv, Closed
  <1>8. FilesInv
    BY DEF FilesInv, RowsMatchSequential
  <1>9. QED
    BY <1>1, <1>2, <1>3, <1>4, <1>5, <1>6, <1>7, <1>8 DEF IInv

(* When a process is gone, only the directory matters.                      *)
LEMMA AfterGone ==
  ASSUME Gone, FilesInv', plan' = plan, plan \in Plans, todo' \subseteq plan
  PROVE  IInv'
  <1>1. /\ pc' = "shell" /\ row' = 0 /\ count' = 0 /\ upd_num' = 0
        /\ wide' = NoDraws /\ fp' = [h \in Handle |-> Closed]
    BY DEF Gone, Fresh
  <1>2. CommandInv'
    BY <1>1 DEF CommandInv
  <1>3. TableInv' /\ UpdateInv' /\ CountInv' /\ PosInv' /\ WideInv'
    BY <1>1 DEF TableInv, UpdateInv, CountInv, PosInv, WideInv
  <1>4. FpInv'
    BY <1>1 DEF FpInv, Closed
  <1>5. QED
    BY <1>2, <1>3, <1>4 DEF IInv

(* What a running process knows of its command.                             *)
LEMMA CommandKnown ==
  ASSUME IInv, Ordinary, pc # "shell"
  PROVE  /\ opt \in Command /\ Valid(opt) /\ opt.T \in Letter
         /\ opt.updates \in Nat /\ opt.updates < Unit
         /\ opt.children > 1 => opt.step \in 0..opt.children /\ opt.updates = 0
  <1>1. opt \in plan /\ plan \in Plans /\ Valid(opt)
    BY DEF IInv, CommandInv
  <1>2. opt \in Command
    BY <1>1, PlansAssumption
  <1>3. /\ opt.children \in Nat \ {0} /\ opt.step \in Nat \cup {-1}
        /\ opt.updates \in Nat /\ opt.T \in Letter
    BY <1>2 DEF Command
  <1>4. opt.updates < Unit /\ (opt.children > 1 => opt.step <= opt.children)
    BY <1>1 DEF Ordinary
  <1>5. opt.children > 1 => opt.updates = 0 /\ opt.step # -1
    BY <1>1, <1>3 DEF Valid
  <1>6. QED
    BY <1>1, <1>2, <1>3, <1>4, <1>5

LEMMA TabIsTable ==
  ASSUME IInv, Ordinary, pc \in {"row", "stop"}
  PROVE  tab \in Table
  <1>1. opt.updates \in Nat /\ opt.T \in Letter
    BY CommandKnown
  <1>2. CASE opt.updates = 0
    BY <1>1, <1>2, TablesAreTables DEF IInv, TableInv
  <1>3. CASE opt.updates > 0
    BY <1>3 DEF IInv, UpdateInv, Table
  <1>4. QED
    BY <1>1, <1>2, <1>3

LEMMA SameProcess ==
  ASSUME IInv, UNCHANGED <<plan, files, memory>>, todo' \subseteq plan
  PROVE  IInv'
  <1>1. CommandInv'
    BY DEF IInv, CommandInv, memory
  <1>2. TableInv' /\ UpdateInv'
    BY DEF IInv, TableInv, UpdateInv, memory
  <1>3. CountInv' /\ WideInv'
    BY DEF IInv, CountInv, WideInv, memory
  <1>4. PosInv'
    BY DEF IInv, PosInv, Earlier, memory
  <1>5. FpInv' /\ FilesInv'
    BY DEF IInv, FpInv, FilesInv, IsSequence, RowsMatchSequential, memory
  <1>6. QED
    BY <1>1, <1>2, <1>3, <1>4, <1>5 DEF IInv

LEMMA RejectKeeps ==
  ASSUME IInv, Ordinary, NEW o \in todo, Reject(o)
  PROVE  IInv'
  <1>1. UNCHANGED <<plan, files, memory>> /\ todo' \subseteq plan
    BY DEF Reject, IInv, CommandInv
  <1>2. QED
    BY <1>1, SameProcess

LEMMA FilesKept ==
  ASSUME FilesInv, files' = files
  PROVE  FilesInv'
  BY DEF FilesInv, IsSequence, RowsMatchSequential

LEMMA ExecKeeps ==
  ASSUME IInv, Ordinary, NEW o \in todo, Exec(o)
  PROVE  IInv'
  <1>0. /\ todo' = todo \ {o} /\ plan' = plan /\ files' = files /\ Valid(o) /\ opt' = o
        /\ pc' = IF o.updates > 0 THEN "update" ELSE "main"
        /\ row' = 0 /\ count' = 0 /\ wide' = NoDraws /\ fp' = [h \in Handle |-> Closed]
        /\ upd_num' = IF o.updates > 0 /\ o.step > 0 THEN o.step - 1 ELSE 0
        /\ pos' = IF o.updates > 0 THEN [s \in Stream |-> UpdateStart(o, s)] ELSE NoDraws
    BY DEF Exec, Fresh
  <1>1. plan \in Plans /\ todo \subseteq plan
    BY DEF IInv, CommandInv
  <1>2. o \in Command
    BY <1>1, PlansAssumption
  <1>3. o.updates \in Nat /\ o.step \in Nat \cup {-1} /\ o.T \in Letter
    BY <1>2 DEF Command
  <1>4. pc' = "main" => left' \subseteq TablesOf(o.T)
    BY DEF Exec, Fresh
  <1>5. CommandInv'
    BY <1>0, <1>1 DEF CommandInv, Valid
  <1>6. TableInv' /\ UpdateInv'
    BY <1>0, <1>3, <1>4 DEF TableInv, UpdateInv
  <1>7. CountInv' /\ WideInv'
    BY <1>0, <1>3 DEF CountInv, WideInv
  <1>8. PosInv'
    <2>1. CASE o.updates > 0
      <3>1. ASSUME NEW s \in Printing("ORDER_LINE")
            PROVE  pos'[s] = (upd_num' * UpdateRows + Rows("ORDER")) * Boundary(s)
        <4>1. s \in Stream
          BY BoundariesAreInt DEF Table
        <4>2. pos'[s] = UpdateStart(o, s)
          BY <1>0, <2>1, <4>1
        <4>3. upd_num' = IF o.step > 0 THEN o.step - 1 ELSE 0
          BY <1>0, <2>1
        <4>4. QED
          BY <1>2, <4>2, <4>3, UpdateBegins
      <3>2. pc' = "update"
        BY <1>0, <2>1
      <3>3. QED
        BY <3>1, <3>2 DEF PosInv
    <2>2. CASE ~(o.updates > 0)
      <3>1. pc' = "main" /\ pos' = NoDraws
        BY <1>0, <2>2
      <3>2. \A t \in left' : \A s \in Printing(t) : pos'[s] = 0
        BY <1>3, <1>4, <3>1, TablesAreTables, BoundariesAreInt DEF NoDraws
      <3>3. QED
        BY <3>1, <3>2 DEF PosInv
    <2>3. QED
      BY <2>1, <2>2
  <1>9. FpInv'
    BY <1>0 DEF FpInv, Closed
  <1>10. FilesInv'
    BY <1>0, FilesKept DEF IInv
  <1>11. QED
    BY <1>5, <1>6, <1>7, <1>8, <1>9, <1>10 DEF IInv

LEMMA SplitTables ==
  ASSUME NEW t \in Table, ~Whole(t)
  PROVE  t \in Table \ {"NATION", "REGION"}
  BY DEF Whole

LEMMA BeginTableKeeps ==
  ASSUME IInv, Ordinary, BeginTable
  PROVE  IInv'
  <1>0. /\ pc = "main" /\ pc' = "row" /\ mode' = 0 /\ left' = left \ {tab'}
        /\ UNCHANGED <<plan, todo, files, opt, upd_num, wide, fp>>
        /\ \/ /\ opt.children > 1 /\ ~Whole(tab')
              /\ row' = partial(tab').first /\ count' = partial(tab').count
              /\ pos' = [s \in Stream |-> pos[s] + set_state(tab', opt.children, opt.step, s)]
           \/ row' = 1 /\ count' = Rows(tab') /\ pos' = pos
    BY DEF BeginTable
  <1>1. tab' \in left
    BY DEF BeginTable
  <1>2. opt.updates = 0 /\ left \subseteq TablesOf(opt.T)
    BY <1>0 DEF IInv, TableInv
  <1>3. /\ opt \in Command /\ opt.T \in Letter
        /\ opt.children > 1 => opt.step \in 0..opt.children
    BY <1>0, CommandKnown
  <1>4. PICK t \in Table : t = tab' /\ t \in TablesOf(opt.T)
    BY <1>1, <1>2, <1>3, TablesAreTables
  <1>5. \A u \in left : \A s \in Printing(u) : pos[s] = 0
    BY <1>0, <1>2 DEF IInv, PosInv
  <1>6. row' \in Nat /\ count' \in Nat /\ \A s \in Printing(t) : pos'[s] = (row' - 1) * Boundary(s)
    <2>1. CASE /\ opt.children > 1 /\ ~Whole(t)
               /\ row' = partial(t).first /\ count' = partial(t).count
               /\ pos' = [s \in Stream |-> pos[s] + set_state(t, opt.children, opt.step, s)]
      <3>1. /\ partial(t).first \in Nat /\ partial(t).count \in Nat
            /\ \A s \in Printing(t) :
                 set_state(t, opt.children, opt.step, s) = (partial(t).first - 1) * Boundary(s)
        BY <1>3, <2>1, SplitTables, ChunkBegins
      <3>2. \A s \in Printing(t) : s \in Stream /\ pos[s] = 0 /\ Boundary(s) \in Nat
        BY <1>1, <1>4, <1>5, BoundariesAreInt
      <3>3. \A s \in Printing(t) : (row' - 1) * Boundary(s) \in Int
        BY <2>1, <3>1, <3>2
      <3>4. ASSUME NEW s \in Printing(t) PROVE pos'[s] = (row' - 1) * Boundary(s)
        <4>1. PICK x \in Int : x = (row' - 1) * Boundary(s)
          BY <3>3
        <4>2. pos'[s] = 0 + x
          BY <2>1, <3>1, <3>2, <4>1
        <4>3. QED
          BY <4>1, <4>2
      <3>5. QED
        BY <2>1, <3>1, <3>4
    <2>2. CASE row' = 1 /\ count' = Rows(t) /\ pos' = pos
      <3>1. \A s \in Printing(t) : pos'[s] = 0 /\ Boundary(s) \in Nat
        BY <1>1, <1>4, <1>5, <2>2, BoundariesAreInt
      <3>2. row' - 1 = 0
        BY <2>2
      <3>3. QED
        BY <2>2, <3>1, <3>2, ConstantsAreNatural
    <2>3. QED
      BY <1>0, <1>4, <2>1, <2>2
  <1>7. \A u \in left' : \A s \in Printing(u) : pos'[s] = 0
    <2> SUFFICES ASSUME NEW u \in left', NEW s \in Printing(u) PROVE pos'[s] = 0
      OBVIOUS
    <2>1. u \in left /\ u # t /\ u \in TablesOf(opt.T)
      BY <1>0, <1>2, <1>4
    <2>2. t \in Joint /\ u \in Joint
      BY <1>3, <1>4, <2>1, TablesApart
    <2>3. pos[s] = 0 /\ s \in Stream
      BY <1>3, <1>5, <2>1, TablesAreTables, BoundariesAreInt
    <2>4. CASE opt.children > 1 /\ pos' = [r \in Stream |->
                                            pos[r] + set_state(t, opt.children, opt.step, r)]
      <3>1. set_state(t, opt.children, opt.step, s) = 0
        BY <1>3, <2>1, <2>2, <2>4, ChunkLeaves
      <3>2. QED
        BY <2>3, <2>4, <3>1
    <2>5. CASE pos' = pos
      BY <2>3, <2>5
    <2>6. QED
      BY <1>0, <1>4, <2>4, <2>5
  <1>8. CommandInv'
    BY <1>0 DEF IInv, CommandInv, Valid
  <1>9. TableInv'
    BY <1>0, <1>2, <1>4 DEF TableInv
  <1>10. UpdateInv'
    BY <1>0, <1>2 DEF UpdateInv
  <1>11. CountInv'
    BY <1>0, <1>2, <1>6 DEF IInv, CountInv
  <1>12. PosInv'
    <2>1. Earlier' = 0
      BY <1>0, <1>2 DEF Earlier
    <2>2. \A s \in Printing(tab') : pos'[s] = (row' - 1 + 0) * Boundary(s)
      BY <1>4, <1>6
    <2>3. QED
      BY <1>0, <1>7, <2>1, <2>2 DEF PosInv
  <1>13. WideInv' /\ FpInv'
    BY <1>0 DEF IInv, WideInv, FpInv
  <1>14. FilesInv'
    BY <1>0, FilesKept DEF IInv
  <1>15. QED
    BY <1>8, <1>9, <1>10, <1>11, <1>12, <1>13, <1>14 DEF IInv

LEMMA BeginUpdateKeeps ==
  ASSUME IInv, Ordinary, BeginUpdate
  PROVE  IInv'
  <1>0. /\ pc = "update" /\ upd_num < opt.updates /\ tab' = "ORDER_LINE"
        /\ row' = upd_num * UpdateRows + 1 /\ count' = UpdateRows
        /\ mode' = upd_num + 1 /\ pc' = "row"
        /\ UNCHANGED <<plan, todo, files, opt, left, upd_num, pos, wide, fp>>
    BY DEF BeginUpdate
  <1>1. opt.updates \in Nat /\ opt.updates < Unit /\ opt.updates > 0
    BY <1>0, CommandKnown DEF IInv, UpdateInv
  <1>2. upd_num \in Nat /\ UpdateRows \in Nat /\ Rows("ORDER") \in Nat /\ Unit \in Nat
    BY ConstantsAreNatural, DbgenAssumption DEF IInv, CountInv, Table
  <1>3. PICK x \in Nat : x = upd_num * UpdateRows
    BY <1>2
  <1>4. CommandInv'
    BY <1>0 DEF IInv, CommandInv, Valid
  <1>5. TableInv'
    BY <1>0, <1>1 DEF TableInv
  <1>6. UpdateInv'
    <2>1. mode' \in Nat /\ mode' < Unit
      BY <1>0, <1>1, <1>2
    <2>2. \A a \in Nat, m \in Nat : a < m => a % m = a
      OBVIOUS
    <2>3. mode' % Unit = mode'
      BY <1>2, <2>1, <2>2
    <2>4. QED
      BY <1>0, <1>1, <2>1, <2>3 DEF UpdateInv
  <1>7. CountInv'
    <2>1. (upd_num + 1) * UpdateRows = x + UpdateRows
      BY <1>2, <1>3
    <2>2. row' = x + 1 /\ row' \in Nat
      BY <1>0, <1>3
    <2>3. row' + count' = (upd_num' + 1) * UpdateRows + 1
      BY <1>0, <1>2, <2>1, <2>2
    <2>4. QED
      BY <1>0, <1>2, <2>2, <2>3 DEF CountInv
  <1>8. PosInv'
    <2>1. Earlier' = Rows("ORDER")
      BY <1>0, <1>1 DEF Earlier
    <2>2. row' - 1 + Earlier' = x + Rows("ORDER")
      BY <1>0, <1>2, <1>3, <2>1
    <2>3. \A s \in Printing("ORDER_LINE") : pos[s] = (x + Rows("ORDER")) * Boundary(s)
      BY <1>0, <1>3 DEF IInv, PosInv
    <2>4. \A s \in Printing(tab') : pos'[s] = (row' - 1 + Earlier') * Boundary(s)
      BY <1>0, <2>2, <2>3
    <2>5. QED
      BY <1>0, <1>1, <2>4 DEF PosInv
  <1>9. WideInv' /\ FpInv'
    BY <1>0 DEF IInv, WideInv, FpInv
  <1>10. FilesInv'
    BY <1>0, FilesKept DEF IInv
  <1>11. QED
    BY <1>4, <1>5, <1>6, <1>7, <1>8, <1>9, <1>10 DEF IInv

(* The segment of an update set changes, the set does not.                  *)
LEMMA NextSegmentSameSet ==
  ASSUME IInv, Ordinary, pc = "row"
  PROVE  /\ NextSegment.mode \in Nat /\ NextSegment.mode % Unit = mode % Unit
         /\ opt.updates = 0 => NextSegment.mode = 0
  <1>1. Unit \in Nat \ {0} /\ opt.updates \in Nat
    BY CommandKnown, DbgenAssumption
  <1>2. mode \in Nat /\ (opt.updates = 0 => mode = 0)
    BY <1>1 DEF IInv, TableInv, UpdateInv
  <1>3. NextSegment.mode = mode \/ (NextSegment.mode = mode + Unit /\ mode # 0)
    BY <1>2 DEF NextSegment
  <1>4. (mode + Unit) % Unit = mode % Unit
    BY <1>1, <1>2, NextRemainder
  <1>5. mode + Unit \in Nat
    BY <1>1, <1>2
  <1>6. QED
    BY <1>2, <1>3, <1>4, <1>5

LEMMA MakeRowKeeps ==
  ASSUME IInv, Ordinary, MakeRow
  PROVE  IInv'
  <1>0. /\ pc = "row" /\ count > 0 /\ pc' = "stop"
        /\ mode' = NextSegment.mode
        /\ Output(Handles(tab), NextSegment.mode)
        /\ UNCHANGED <<plan, todo, opt, left, tab, row, count, upd_num>>
    BY DEF MakeRow
  <1>1. WideStream = {}
    <2>1. scale \in Nat /\ Wide \in Nat
      BY DbgenAssumption DEF scale
    <2>2. QED
      BY <2>1 DEF WideStream, Ordinary
  <1>2. PICK d \in Draws(tab) :
          /\ usage' = d
          /\ pos' = [s \in Stream |-> pos[s] + d[s]]
          /\ wide' = [s \in Stream |-> wide[s] + 0]
    BY <1>1 DEF MakeRow
  <1>3. tab \in Table /\ opt \in Command /\ opt.updates \in Nat
    BY <1>0, TabIsTable, CommandKnown
  <1>4. PICK m \in Nat : m = NextSegment.mode /\ m % Unit = mode % Unit /\ (opt.updates = 0 => m = 0)
    BY <1>0, NextSegmentSameSet
  <1>5. files' = Printed(Handles(tab), m)
    BY <1>0, <1>4 DEF Output
  <1>6. CommandInv'
    BY <1>0 DEF IInv, CommandInv, Valid
  <1>7. TableInv'
    BY <1>0, <1>2, <1>4 DEF IInv, TableInv
  <1>8. UpdateInv'
    BY <1>0, <1>4 DEF IInv, UpdateInv
  <1>9. CountInv'
    BY <1>0 DEF IInv, CountInv
  <1>10. PosInv'
    <2>1. ASSUME NEW s \in Printing(tab)
          PROVE  pos'[s] = (row' - 1 + Earlier') * Boundary(s) + usage'[s]
      <3>1. s \in Stream
        BY <1>3, BoundariesAreInt
      <3>2. pos[s] = (row - 1 + Earlier) * Boundary(s)
        BY <1>0 DEF IInv, PosInv
      <3>3. Earlier' = Earlier
        BY <1>0 DEF Earlier
      <3>4. QED
        BY <1>0, <1>2, <3>1, <3>2, <3>3
    <2>2. ASSUME opt.updates = 0, NEW u \in left, NEW s \in Printing(u) PROVE pos'[s] = 0
      <3>1. u \in TablesOf(opt.T) /\ tab \in TablesOf(opt.T) /\ u # tab /\ opt.T \in Letter
        BY <1>0, <2>2, CommandKnown DEF IInv, TableInv
      <3>2. tab \in Joint /\ u \in Joint
        BY <3>1, TablesApart
      <3>3. d[s] = 0
        BY <3>1, <3>2, OtherTables
      <3>4. pos[s] = 0 /\ s \in Stream
        BY <1>0, <2>2, <3>1, TablesAreTables, BoundariesAreInt DEF IInv, PosInv
      <3>5. QED
        BY <1>2, <3>3, <3>4
    <2>3. QED
      BY <1>0, <2>1, <2>2 DEF PosInv
  <1>11. WideInv'
    BY <1>2 DEF IInv, WideInv, NoDraws
  <1>12. FpInv'
    <2>1. fp' = [h \in Handle |-> IF h \in Handles(tab) THEN [file |-> File(h, m), mode |-> m]
                                  ELSE fp[h]]
      BY <1>0, <1>4 DEF Output
    <2>2. DOMAIN files' = DOMAIN files \cup {File(h, m) : h \in Handles(tab)}
      BY <1>5 DEF Printed
    <2>3. FpInv /\ UpdateInv /\ TableInv /\ CountInv
      BY DEF IInv
    <2>4. \A h \in Handles(tab) : File(h, m).of = h /\ File(h, m).set = m % Unit
      BY <1>0, <1>3, <1>4, <2>3, FileOfHandle
    <2>5. \A h \in Handle \ {"DELETE"} :
            fp'[h] = Closed \/ (fp'[h].file.of = h /\ fp'[h].file.set = fp'[h].mode % Unit)
      BY <2>1, <2>3, <2>4 DEF FpInv
    <2>6. \A h \in Handle : fp'[h] = Closed \/ fp'[h].file \in DOMAIN files'
      BY <2>1, <2>2, <2>3 DEF FpInv
    <2>7. opt.updates = 0 => \A h \in Handle : fp'[h].mode = 0
      BY <1>0, <1>4, <2>1, <2>3 DEF FpInv
    <2>8. /\ fp' = [h \in Handle |-> fp'[h]]
          /\ \A h \in Handle : fp'[h] = [file |-> fp'[h].file, mode |-> fp'[h].mode]
      BY <2>1, <2>3 DEF FpInv
    <2>9. QED
      BY <1>0, <2>5, <2>6, <2>7, <2>8 DEF FpInv
  <1>13. FilesInv'
    <2>1. Handles(tab) \in SUBSET Handles(tab)
      OBVIOUS
    <2>2. FilesInv /\ FpInv /\ UpdateInv /\ TableInv /\ CountInv /\ PosInv /\ WideInv
      BY DEF IInv
    <2>3. QED
      BY <1>0, <1>3, <1>4, <1>5, <2>1, <2>2, PrintedMatches
  <1>14. QED
    BY <1>6, <1>7, <1>8, <1>9, <1>10, <1>11, <1>12, <1>13 DEF IInv

LEMMA DeclineKeeps ==
  ASSUME IInv, Ordinary, Decline
  PROVE  IInv'
  <1>0. /\ pc = "row" /\ Gone
        /\ UNCHANGED <<plan, todo>>
    BY DEF Decline
  <1>1. PICK k \in DOMAIN Loader(tab) :
          /\ Asks(Loader(tab)[k], mode)
          /\ files' = Printed({Loader(tab)[j] : j \in 1..(k - 1)}, mode)
    BY DEF Decline
  <1>2. tab \in Table /\ opt \in Command /\ opt.updates \in Nat
    BY <1>0, TabIsTable, CommandKnown
  <1>3. {Loader(tab)[j] : j \in 1..(k - 1)} \in SUBSET Handles(tab)
    BY <1>1 DEF Handles, Loader
  <1>4. opt.updates = 0 /\ mode = 0
    BY <1>0, <1>1 DEF Asks, IInv, TableInv
  <1>5. FilesInv /\ FpInv /\ UpdateInv /\ TableInv /\ CountInv /\ PosInv /\ WideInv
    BY DEF IInv
  <1>6. FilesInv'
    BY <1>0, <1>1, <1>2, <1>3, <1>4, <1>5, PrintedMatches
  <1>7. plan \in Plans /\ todo \subseteq plan
    BY DEF IInv, CommandInv
  <1>8. QED
    BY <1>0, <1>6, <1>7, AfterGone

LEMMA RowStopKeeps ==
  ASSUME IInv, Ordinary, RowStop
  PROVE  IInv'
  <1>0. /\ pc = "stop" /\ pc' = "row"
        /\ pos' = [s \in Stream |-> pos[s] + row_stop(tab, usage, s)]
        /\ row' = row + 1 /\ count' = count - 1
        /\ UNCHANGED <<plan, todo, files, opt, left, tab, upd_num, mode, wide, usage, fp>>
    BY DEF RowStop
  <1>1. tab \in Table /\ opt.updates \in Nat /\ usage \in Draws(tab)
    BY <1>0, TabIsTable, CommandKnown DEF IInv, TableInv
  <1>2. row \in Nat /\ count \in Nat /\ upd_num \in Nat /\ count > 0
    BY <1>0 DEF IInv, CountInv
  <1>3. CommandInv'
    BY <1>0 DEF IInv, CommandInv, Valid
  <1>4. TableInv'
    BY <1>0 DEF IInv, TableInv
  <1>5. UpdateInv'
    BY <1>0 DEF IInv, UpdateInv
  <1>6. CountInv'
    <2>1. opt.updates > 0 => row + count = (upd_num + 1) * UpdateRows + 1
      BY <1>0 DEF IInv, CountInv
    <2>2. row' \in Nat /\ count' \in Nat /\ row' + count' = row + count
      BY <1>0, <1>2
    <2>3. QED
      BY <1>0, <1>2, <2>1, <2>2 DEF CountInv
  <1>7. PosInv'
    <2>1. ASSUME NEW s \in Printing(tab)
          PROVE  pos'[s] = (row' - 1 + Earlier') * Boundary(s)
      <3>1. PICK b \in Nat, u \in Nat, x \in Nat :
              b = Boundary(s) /\ u = usage[s] /\ x = row_stop(tab, usage, s) /\ u + x = b
        BY <1>1, BoundariesAreInt, RowIsBoundary
      <3>2. PICK e \in Int : e = row - 1 + Earlier
        <4>1. Earlier \in Nat
          BY ConstantsAreNatural DEF Earlier, Table
        <4>2. QED
          BY <1>2, <4>1
      <3>3. pos[s] = e * b + u
        BY <1>0, <3>1, <3>2 DEF IInv, PosInv
      <3>4. s \in Stream
        BY <1>1, BoundariesAreInt
      <3>5. pos'[s] = (e * b + u) + x
        BY <1>0, <3>1, <3>3, <3>4
      <3>6. (e * b + u) + x = (e + 1) * b
        BY <3>1
      <3>7. row' - 1 + Earlier' = e + 1
        <4>1. Earlier' = Earlier /\ Earlier \in Nat
          BY <1>0, ConstantsAreNatural DEF Earlier, Table
        <4>2. QED
          BY <1>0, <1>2, <3>2, <4>1
      <3>8. QED
        BY <3>1, <3>5, <3>6, <3>7
    <2>2. ASSUME opt.updates = 0, NEW u \in left, NEW s \in Printing(u) PROVE pos'[s] = 0
      <3>1. u \in TablesOf(opt.T) /\ tab \in TablesOf(opt.T) /\ u # tab /\ opt.T \in Letter
        BY <1>0, <2>2, CommandKnown DEF IInv, TableInv
      <3>2. tab \in Joint /\ u \in Joint
        BY <3>1, TablesApart
      <3>3. row_stop(tab, usage, s) = 0
        BY <1>1, <3>1, <3>2, OtherTables
      <3>4. pos[s] = 0 /\ s \in Stream
        BY <1>0, <2>2, <3>1, TablesAreTables, BoundariesAreInt DEF IInv, PosInv
      <3>5. QED
        BY <1>0, <3>3, <3>4
    <2>3. QED
      BY <1>0, <2>1, <2>2 DEF PosInv
  <1>8. WideInv' /\ FpInv'
    BY <1>0 DEF IInv, WideInv, FpInv
  <1>9. FilesInv'
    BY <1>0, FilesKept DEF IInv
  <1>10. QED
    BY <1>3, <1>4, <1>5, <1>6, <1>7, <1>8, <1>9 DEF IInv

(* What a file of deleted keys holds does not matter to the rows.           *)
LEMMA DeletesDoNotMatter ==
  ASSUME FilesInv, NEW f, f.of = "DELETE", NEW q, IsSequence(q),
         files' = [g \in DOMAIN files \cup {f} |-> IF g = f THEN q ELSE files[g]]
  PROVE  FilesInv'
  <1>1. \A g \in DOMAIN files' : (g = f /\ files'[g] = q) \/ (g \in DOMAIN files /\ files'[g] = files[g])
    OBVIOUS
  <1>2. \A g \in DOMAIN files' : IsSequence(files'[g])
    BY <1>1 DEF FilesInv
  <1>3. RowsMatchSequential'
    <2> SUFFICES ASSUME NEW g \in DOMAIN files', g.of # "DELETE", NEW n \in DOMAIN files'[g]
                 PROVE  LET before == files'[g][n].index - 1
                                        + (IF g.set > 0 THEN Rows("ORDER") ELSE 0)
                        IN  files'[g][n].at =
                              [s \in PrintedStreams(g.of) |-> <<before * Boundary(s), 0>>]
      BY DEF RowsMatchSequential
    <2>1. g \in DOMAIN files /\ files'[g] = files[g]
      BY <1>1
    <2>2. QED
      BY <2>1 DEF FilesInv, RowsMatchSequential
  <1>4. QED
    BY <1>2, <1>3 DEF FilesInv, IsSequence

LEMMA EndTableKeeps ==
  ASSUME IInv, Ordinary, EndTable
  PROVE  IInv'
  <1>0. /\ pc = "row" /\ count = 0
        /\ UNCHANGED <<plan, todo, opt, left, tab, upd_num, pos, wide, usage>>
    BY DEF EndTable
  <1>1. opt.updates \in Nat
    BY <1>0, CommandKnown
  <1>2. CommandInv' \/ pc' \notin {"main", "drange"}
    BY <1>0 DEF IInv, CommandInv, Valid
  <1>3. CASE opt.updates = 0
    <2>1. pc' = "main" /\ UNCHANGED <<files, row, count, mode, fp>>
      BY <1>3 DEF EndTable
    <2>2. CommandInv'
      BY <1>2, <2>1
    <2>3. TableInv' /\ UpdateInv'
      BY <1>0, <1>3, <2>1 DEF IInv, TableInv, UpdateInv
    <2>4. CountInv' /\ WideInv' /\ FpInv'
      BY <1>0, <2>1 DEF IInv, CountInv, WideInv, FpInv
    <2>5. PosInv'
      BY <1>0, <1>3, <2>1 DEF IInv, PosInv
    <2>6. FilesInv'
      BY <2>1, FilesKept DEF IInv
    <2>7. QED
      BY <2>2, <2>3, <2>4, <2>5, <2>6 DEF IInv
  <1>4. CASE opt.updates > 0
    <2>1. PICK f : f = print_prep("DELETE", upd_num + 1)
      OBVIOUS
    <2>2. /\ pc' = "drange" /\ row' = upd_num * UpdateRows + 1 /\ count' = UpdateRows
          /\ mode' = upd_num + 1
          /\ files' = [g \in DOMAIN files \cup {f} |-> IF g = f THEN <<>> ELSE files[g]]
          /\ fp' = [fp EXCEPT !["DELETE"] = [file |-> f, mode |-> upd_num + 1]]
      BY <1>1, <1>4, <2>1 DEF EndTable
    <2>3. f.of = "DELETE"
      BY <2>1 DEF print_prep
    <2>4. /\ upd_num \in Nat /\ upd_num < opt.updates /\ opt.updates < Unit /\ Unit \in Nat
          /\ tab = "ORDER_LINE" /\ UpdateRows \in Nat /\ Rows("ORDER") \in Nat /\ row \in Nat
      BY <1>0, <1>4, CommandKnown, DbgenAssumption, ConstantsAreNatural
         DEF IInv, UpdateInv, CountInv, Table
    <2>5. CommandInv'
      BY <1>2, <2>2
    <2>6. TableInv'
      BY <1>0, <1>4, <2>2 DEF TableInv
    <2>7. UpdateInv'
      <3>1. mode' \in Nat /\ mode' < Unit
        BY <1>1, <2>2, <2>4
      <3>2. \A a \in Nat, m \in Nat : a < m => a % m = a
        OBVIOUS
      <3>3. mode' % Unit = mode'
        BY <2>4, <3>1, <3>2
      <3>4. QED
        BY <1>0, <1>4, <2>2, <2>4, <3>1, <3>3 DEF UpdateInv
    <2>8. CountInv'
      BY <1>0, <2>2, <2>4, SMTT(30) DEF CountInv
    <2>9. PosInv'
      <3>1. PICK x \in Nat : x = (upd_num + 1) * UpdateRows
        BY <2>4
      <3>2. row - 1 + Earlier = x + Rows("ORDER")
        <4>1. row = x + 1
          BY <1>0, <1>4, <2>4, <3>1 DEF IInv, CountInv
        <4>2. Earlier = Rows("ORDER")
          BY <1>4 DEF Earlier
        <4>3. QED
          BY <2>4, <4>1, <4>2
      <3>3. \A s \in Printing("ORDER_LINE") : pos[s] = (row - 1 + Earlier) * Boundary(s)
        BY <1>0, <2>4 DEF IInv, PosInv
      <3>4. \A s \in Printing("ORDER_LINE") : pos[s] = ((upd_num + 1) * UpdateRows + Rows("ORDER")) * Boundary(s)
        BY <3>1, <3>2, <3>3
      <3>5. QED
        BY <1>0, <1>4, <2>2, <3>4 DEF PosInv
    <2>10. WideInv'
      BY <1>0 DEF IInv, WideInv
    <2>11. FpInv'
      <3>1. fp = [h \in Handle |-> fp[h]]
        BY DEF IInv, FpInv
      <3>2. /\ fp'["DELETE"] = [file |-> f, mode |-> upd_num + 1]
            /\ \A h \in Handle \ {"DELETE"} : fp'[h] = fp[h]
            /\ fp' = [h \in Handle |-> fp'[h]]
        BY <2>2, <3>1 DEF Handle
      <3>3. f \in DOMAIN files' /\ DOMAIN files \subseteq DOMAIN files'
        BY <2>2
      <3>4. \A h \in Handle : fp'[h] = Closed \/ fp'[h].file \in DOMAIN files'
        BY <3>2, <3>3 DEF IInv, FpInv
      <3>5. fp'["DELETE"] # Closed /\ fp'["DELETE"].file.of = "DELETE"
        BY <2>3, <3>2 DEF Closed
      <3>6. \A h \in Handle \ {"DELETE"} :
              fp'[h] = Closed \/ (fp'[h].file.of = h /\ fp'[h].file.set = fp'[h].mode % Unit)
        BY <3>2 DEF IInv, FpInv
      <3>7. \A h \in Handle : fp'[h] = [file |-> fp'[h].file, mode |-> fp'[h].mode]
        BY <3>2 DEF IInv, FpInv
      <3>8. QED
        BY <1>0, <1>4, <3>2, <3>4, <3>5, <3>6, <3>7 DEF FpInv
    <2>12. FilesInv'
      BY <2>2, <2>3, EmptyIsSequence, DeletesDoNotMatter DEF IInv
    <2>13. QED
      BY <2>5, <2>6, <2>7, <2>8, <2>9, <2>10, <2>11, <2>12 DEF IInv
  <1>5. QED
    BY <1>1, <1>3, <1>4

DeletedKey == [index |-> row, key |-> MK_SPARSE(row, mode \div SetsPerSeq), at |-> <<>>]

(* pr_drange appends a key to its file, or to a new one.                    *)
LEMMA DeleteKeyFiles ==
  ASSUME DeleteKey
  PROVE  \E f, q :
           /\ \/ f = print_prep("DELETE", mode) /\ q = <<>>
              \/ f = fp["DELETE"].file /\ q = files[f]
           /\ files' = [g \in DOMAIN files \cup {f} |->
                          IF g = f THEN Append(q, DeletedKey) ELSE files[g]]
           /\ fp' = [fp EXCEPT !["DELETE"].file = f]
  <1>1. PICK per : per = IF deletes.per = 0 /\ opt.delete_segments > 0
                         THEN count \div opt.delete_segments + 1 ELSE deletes.per
    OBVIOUS
  <1>2. PICK key : key = DeletedKey
    OBVIOUS
  <1>3. PICK f : f = IF opt.delete_segments > 0 /\ deletes.this + 1 > per
                     THEN print_prep("DELETE", mode) ELSE fp["DELETE"].file
    OBVIOUS
  <1>4. PICK q : q = IF opt.delete_segments > 0 /\ deletes.this + 1 > per THEN <<>> ELSE files[f]
    OBVIOUS
  <1>5. /\ files' = [g \in DOMAIN files \cup {f} |-> IF g = f THEN Append(q, key) ELSE files[g]]
        /\ fp' = [fp EXCEPT !["DELETE"].file = f]
    BY <1>1, <1>2, <1>3, <1>4 DEF DeleteKey, DeletedKey
  <1>6. (f = print_prep("DELETE", mode) /\ q = <<>>) \/ (f = fp["DELETE"].file /\ q = files[f])
    BY <1>3, <1>4
  <1>7. QED
    BY <1>2, <1>5, <1>6

LEMMA DeleteKeyKeeps ==
  ASSUME IInv, Ordinary, DeleteKey
  PROVE  IInv'
  <1>0. /\ pc = "drange" /\ count > 0 /\ row' = row + 1 /\ count' = count - 1
        /\ UNCHANGED <<plan, todo, pc, opt, left, tab, upd_num, mode, pos, wide, usage>>
    BY DEF DeleteKey
  <1>1. PICK f, q :
          /\ \/ f = print_prep("DELETE", mode) /\ q = <<>>
             \/ f = fp["DELETE"].file /\ q = files[f]
          /\ files' = [g \in DOMAIN files \cup {f} |->
                         IF g = f THEN Append(q, DeletedKey) ELSE files[g]]
          /\ fp' = [fp EXCEPT !["DELETE"].file = f]
    BY DeleteKeyFiles
  <1>2. /\ fp = [h \in Handle |-> fp[h]] /\ fp["DELETE"].file.of = "DELETE"
        /\ fp["DELETE"].file \in DOMAIN files
        /\ fp["DELETE"] = [file |-> fp["DELETE"].file, mode |-> fp["DELETE"].mode]
    BY <1>0 DEF IInv, FpInv, Handle
  <1>3. f.of = "DELETE" /\ IsSequence(q)
    BY <1>1, <1>2, EmptyIsSequence DEF print_prep, IInv, FilesInv
  <1>4. opt.updates > 0
    BY <1>0 DEF IInv, UpdateInv
  <1>5. CommandInv'
    BY <1>0 DEF IInv, CommandInv, Valid
  <1>6. TableInv' /\ UpdateInv'
    BY <1>0 DEF IInv, TableInv, UpdateInv
  <1>7. CountInv'
    BY <1>0 DEF IInv, CountInv
  <1>8. PosInv' /\ WideInv'
    BY <1>0 DEF IInv, PosInv, WideInv
  <1>9. FpInv'
    <2>1. /\ fp'["DELETE"] = [file |-> f, mode |-> fp["DELETE"].mode]
          /\ \A h \in Handle \ {"DELETE"} : fp'[h] = fp[h]
          /\ fp' = [h \in Handle |-> fp'[h]]
      BY <1>1, <1>2 DEF Handle
    <2>2. f \in DOMAIN files' /\ DOMAIN files \subseteq DOMAIN files'
      BY <1>1
    <2>3. \A h \in Handle : fp'[h] = Closed \/ fp'[h].file \in DOMAIN files'
      BY <2>1, <2>2 DEF IInv, FpInv
    <2>4. fp'["DELETE"] # Closed
      BY <1>3, <2>1 DEF Closed
    <2>5. \A h \in Handle \ {"DELETE"} :
            fp'[h] = Closed \/ (fp'[h].file.of = h /\ fp'[h].file.set = fp'[h].mode % Unit)
      BY <2>1 DEF IInv, FpInv
    <2>6. \A h \in Handle : fp'[h] = [file |-> fp'[h].file, mode |-> fp'[h].mode]
      BY <2>1 DEF IInv, FpInv
    <2>7. QED
      BY <1>0, <1>3, <1>4, <2>1, <2>3, <2>4, <2>5, <2>6 DEF FpInv
  <1>10. FilesInv'
    <2>1. IsSequence(Append(q, DeletedKey))
      BY <1>3, AppendIsSequence
    <2>2. QED
      BY <1>1, <1>3, <2>1, DeletesDoNotMatter DEF IInv
  <1>11. QED
    BY <1>5, <1>6, <1>7, <1>8, <1>9, <1>10 DEF IInv

LEMMA EndUpdateKeeps ==
  ASSUME IInv, Ordinary, EndUpdate
  PROVE  IInv'
  <1>0. /\ pc = "drange" /\ upd_num' = upd_num + 1 /\ pc' = "update"
        /\ UNCHANGED <<plan, todo, files, opt, left, tab, row, count, mode, pos, wide, usage, fp>>
    BY DEF EndUpdate
  <1>1. opt.updates > 0
    BY <1>0 DEF IInv, UpdateInv
  <1>2. CommandInv'
    BY <1>0 DEF IInv, CommandInv, Valid
  <1>3. TableInv' /\ UpdateInv'
    BY <1>0, <1>1 DEF TableInv, UpdateInv
  <1>4. CountInv'
    BY <1>0 DEF IInv, CountInv
  <1>5. PosInv' /\ WideInv'
    BY <1>0 DEF IInv, PosInv, WideInv
  <1>6. FpInv'
    BY <1>0, <1>1 DEF IInv, FpInv
  <1>7. FilesInv'
    BY <1>0, FilesKept DEF IInv
  <1>8. QED
    BY <1>2, <1>3, <1>4, <1>5, <1>6, <1>7 DEF IInv

LEMMA ReturnKeeps ==
  ASSUME IInv, Return
  PROVE  IInv'
  <1>1. Gone /\ plan' = plan /\ todo' = todo /\ files' = files
    BY DEF Return
  <1>2. FilesInv' /\ plan \in Plans /\ todo \subseteq plan
    BY <1>1, FilesKept DEF IInv, CommandInv
  <1>3. QED
    BY <1>1, <1>2, AfterGone

LEMMA CrashKeeps ==
  ASSUME IInv, Crash
  PROVE  IInv'
  <1>0. pc # "shell" /\ Gone /\ plan' = plan /\ todo' = todo \cup {opt}
    BY DEF Crash
  <1>1. plan \in Plans /\ todo' \subseteq plan
    BY <1>0 DEF IInv, CommandInv
  <1>2. PICK n \in Nat :
          files' = [f \in DOMAIN files |->
                      IF (\E h \in Handle : fp[h].file = f) /\ Len(files[f]) > n
                      THEN SubSeq(files[f], 1, n) ELSE files[f]]
    BY DEF Crash
  <1>3. ASSUME NEW f \in DOMAIN files
        PROVE  /\ IsSequence(files'[f])
               /\ \A k \in DOMAIN files'[f] : k \in DOMAIN files[f] /\ files'[f][k] = files[f][k]
    <2>1. IsSequence(files[f])
      BY DEF IInv, FilesInv
    <2>2. CASE files'[f] = files[f]
      BY <2>1, <2>2
    <2>3. CASE files'[f] = SubSeq(files[f], 1, n) /\ Len(files[f]) > n
      BY <2>1, <2>3, PrefixIsSequence
    <2>4. QED
      BY <1>2, <2>2, <2>3
  <1>4. DOMAIN files' = DOMAIN files
    BY <1>2
  <1>5. RowsMatchSequential'
    <2> SUFFICES ASSUME NEW f \in DOMAIN files, f.of # "DELETE", NEW k \in DOMAIN files'[f]
                 PROVE  LET before == files'[f][k].index - 1
                                        + (IF f.set > 0 THEN Rows("ORDER") ELSE 0)
                        IN  files'[f][k].at =
                              [s \in PrintedStreams(f.of) |-> <<before * Boundary(s), 0>>]
      BY <1>4 DEF RowsMatchSequential
    <2>1. k \in DOMAIN files[f] /\ files'[f][k] = files[f][k]
      BY <1>3
    <2>2. QED
      BY <2>1 DEF IInv, FilesInv, RowsMatchSequential
  <1>6. FilesInv'
    BY <1>3, <1>4, <1>5 DEF FilesInv, IsSequence
  <1>7. QED
    BY <1>0, <1>1, <1>6, AfterGone

LEMMA StepKeeps ==
  ASSUME IInv, Ordinary, [Next]_vars
  PROVE  IInv'
  <1>1. ASSUME NEW o \in todo, Reject(o) \/ Exec(o) PROVE IInv'
    BY <1>1, RejectKeeps, ExecKeeps
  <1>2. CASE BeginTable
    BY <1>2, BeginTableKeeps
  <1>3. CASE BeginUpdate
    BY <1>3, BeginUpdateKeeps
  <1>4. CASE MakeRow
    BY <1>4, MakeRowKeeps
  <1>5. CASE Decline
    BY <1>5, DeclineKeeps
  <1>6. CASE RowStop
    BY <1>6, RowStopKeeps
  <1>7. CASE EndTable
    BY <1>7, EndTableKeeps
  <1>8. CASE DeleteKey
    BY <1>8, DeleteKeyKeeps
  <1>9. CASE EndUpdate
    BY <1>9, EndUpdateKeeps
  <1>10. CASE Return
    BY <1>10, ReturnKeeps
  <1>11. CASE Crash
    BY <1>11, CrashKeeps
  <1>12. CASE UNCHANGED vars
    <2>1. todo \subseteq plan
      BY DEF IInv, CommandInv
    <2>2. QED
      BY <1>12, <2>1, SameProcess DEF vars
  <1>13. QED
    BY <1>1, <1>2, <1>3, <1>4, <1>5, <1>6, <1>7, <1>8, <1>9, <1>10, <1>11, <1>12
       DEF Next, Process

(* Whatever the numbers of rows, chunks, refresh sets and segments, in any  *)
(* order of the commands and after any number of crashes: every row that    *)
(* dbgen has written was drawn from the seeds that one process making all   *)
(* rows in order would have, so a data set does not depend on its division. *)
THEOREM RowsMatchSequentialHolds == ASSUME Ordinary PROVE Spec => []RowsMatchSequential
  <1>1. Init => IInv
    BY InitEstablishes
  <1>2. IInv /\ [Next]_vars => IInv'
    BY Ordinary, StepKeeps
  <1>3. IInv => RowsMatchSequential
    BY DEF IInv, FilesInv
  <1>4. QED
    BY <1>1, <1>2, <1>3, PTL DEF Spec

-----------------------------------------------------------------------------
(* Types: the shape of the state, also of commands that are not Ordinary.   *)

(* What the shape of the next state depends on.                             *)
PlaceInv ==
  /\ IF pc = "shell" THEN opt = NoCommand ELSE opt \in plan /\ Valid(opt)
  /\ pc = "main" => opt.updates = 0
  /\ pc \in {"update", "drange"} => opt.updates > 0
  /\ pc \in {"row", "stop"} => tab \in Table /\ (opt.updates > 0 => tab = "ORDER_LINE")
  /\ pc = "stop" => count > 0
  /\ pc = "drange" => fp["DELETE"].file \in FileName
  /\ fp = [h \in Handle |-> [file |-> fp[h].file, mode |-> fp[h].mode]]
  /\ \A c \in {"insert_orders", "insert_lineitem", "delete"} : segment[c] \in Nat
  /\ DOMAIN segment = {"insert_orders", "insert_lineitem", "delete"}
  /\ pos = [s \in Stream |-> pos[s]] /\ wide = [s \in Stream |-> wide[s]]

TypeInv == TypeOK /\ PlaceInv

LEMMA CommandTyped ==
  ASSUME TypeInv, pc # "shell"
  PROVE  /\ opt \in plan /\ Valid(opt) /\ opt \in Command
         /\ opt.updates \in Nat /\ opt.children \in Nat \ {0}
         /\ opt.children > 1 => opt.step \in Nat
         /\ opt.T \in Letter
  <1>1. opt \in plan /\ Valid(opt) /\ opt \in Command
    BY PlansAssumption DEF TypeInv, TypeOK, PlaceInv
  <1>2. QED
    BY <1>1 DEF Command, Valid

(* Draws and skips are natural numbers, and no row draws beyond a boundary. *)
LEMMA DrawsTyped ==
  ASSUME NEW t \in Table, NEW d \in Draws(t), NEW s \in Stream
  PROVE  d[s] \in 0..Boundary(s)
  <1>0. Boundary(s) \in Nat \ {0}
    BY BoundaryIsNatural
  <1>1. CASE t \in {"ORDER", "LINE", "ORDER_LINE"}
    <2>1. d \in OrderDraws
      BY <1>1 DEF Draws
    <2>2. d[s] \in Nat /\ (s \in OrderStream \ {"O_SUPP"} => d[s] = Boundary(s))
          /\ (s \in LineStream \ {"HVAR"} => d[s] <= Boundary(s))
          /\ (s \in Stream \ (OrderStream \cup LineStream) => d[s] = 0)
      BY <2>1, OrderDrawsBounded
    <2>3. s \in {"O_SUPP", "HVAR"} => d[s] = 0
      BY <2>1 DEF OrderDraws, OrderStream, LineStream
    <2>4. QED
      BY <1>0, <2>2, <2>3
  <1>2. CASE t \in {"PART", "PSUPP", "PART_PSUPP"}
    <2>1. d \in PartDraws
      BY <1>2 DEF Draws
    <2>2. QED
      BY <1>0, <2>1, PartDrawsExact
  <1>3. CASE t = "CUST"
    <2>1. d \in CustDraws
      BY <1>3 DEF Draws
    <2>2. QED
      BY <1>0, <2>1, CustDrawsBounded
  <1>4. CASE t = "SUPP"
    <2>1. d \in SuppDraws
      BY <1>4 DEF Draws
    <2>2. QED
      BY <1>0, <2>1, SuppDrawsBounded
  <1>5. CASE t \in {"NATION", "REGION"}
    <2>1. PICK c \in {"N_CMNT", "R_CMNT"} : d \in CodeDraws(c)
      BY <1>5 DEF Draws
    <2>2. d[s] = IF s = c THEN 2 ELSE 0
      BY <2>1 DEF CodeDraws
    <2>3. \A r \in {"N_CMNT", "R_CMNT"} : Boundary(r) = 2
      BY DEF Boundary, LineStream, TextStream
    <2>4. QED
      BY <1>0, <2>2, <2>3
  <1>6. QED
    BY <1>1, <1>2, <1>3, <1>4, <1>5 DEF Table

LEMMA SkipTyped ==
  ASSUME NEW t \in Table \cup {"NONE"}, NEW child \in {0, 1}, NEW s
  PROVE  gen_seed(t, child, s) \in Nat
  <1>1. sd_part(s) \in Nat
    BY DEF sd_part
  <1>2. sd_psupp(s) \in Nat
    BY DEF sd_psupp, SUPP_PER_PART
  <1>3. sd_order(s) \in Nat
    BY DEF sd_order
  <1>4. sd_line(child, s) \in Nat
    BY DEF sd_line, O_LCNT_MAX
  <1>5. sd_cust(s) \in Nat
    BY DEF sd_cust
  <1>6. sd_supp(s) \in Nat
    BY DEF sd_supp
  <1>7. QED
    BY <1>1, <1>2, <1>3, <1>4, <1>5, <1>6 DEF gen_seed

LEMMA StateTyped ==
  ASSUME NEW t \in Table, NEW procs \in Nat \ {0}, NEW step \in Nat, NEW s
  PROVE  set_state(t, procs, step, s) \in Nat
  <1>1. PICK a \in Nat, b \in Nat : a = Rows(t) \div procs /\ b = Rows(t) % procs
    <2>1. Rows(t) \in Nat
      BY ConstantsAreNatural
    <2>2. Rows(t) \div procs \in Nat /\ Rows(t) % procs \in 0..(procs - 1)
      BY <2>1, Divides
    <2>3. QED
      BY <2>2
  <1>2. PICK c \in Nat : c = SkipRow(t, s)
    <2>1. Child(t) \in Table \cup {"NONE"}
      BY DEF Child, Table
    <2>2. gen_seed(t, 0, s) \in Nat /\ gen_seed(t, 1, s) \in Nat /\ gen_seed(Child(t), 0, s) \in Nat
      BY <2>1, SkipTyped
    <2>3. QED
      BY <2>2 DEF SkipRow
  <1>3. PICK e \in Nat : e = gen_seed(t, 0, s)
    BY SkipTyped
  <1>4. CASE step = 0
    BY <1>4 DEF set_state
  <1>5. CASE step # 0
    <2>1. step - 1 \in Nat
      BY <1>5
    <2>2. a * c \in Nat /\ b * e \in Nat
      BY Products
    <2>3. (step - 1) * (a * c) \in Nat
      BY <2>1, <2>2, Products
    <2>4. set_state(t, procs, step, s) = (step - 1) * (a * c) + (IF step > procs THEN b * e ELSE 0)
      BY <1>1, <1>2, <1>3, <1>5 DEF set_state
    <2>5. QED
      BY <2>2, <2>3, <2>4
  <1>6. QED
    BY <1>4, <1>5

LEMMA StartTyped ==
  ASSUME NEW o \in Command, NEW s
  PROVE  UpdateStart(o, s) \in Nat
  <1>1. PICK a \in Nat : a = set_state("ORDER", UpdProcs, UpdProcs + 1, s)
    BY StateTyped, DbgenAssumption DEF Table
  <1>2. PICK c \in Nat : c = sd_order(s) + sd_line(0, s)
    BY DEF sd_order, sd_line, O_LCNT_MAX
  <1>3. UpdateRows * c \in Nat
    BY ConstantsAreNatural, Products
  <1>4. o.step > 0 => o.step - 1 \in Nat
    BY DEF Command
  <1>5. o.step > 0 => (o.step - 1) * (UpdateRows * c) \in Nat
    BY <1>3, <1>4, Products
  <1>6. UpdateStart(o, s) = a + (IF o.step > 0 THEN (o.step - 1) * (UpdateRows * c) ELSE 0)
    BY <1>1, <1>2 DEF UpdateStart
  <1>7. QED
    BY <1>5, <1>6

LEMMA PieceTyped ==
  ASSUME TypeInv, pc = "main", NEW t \in Table, opt.children > 1
  PROVE  partial(t).first \in Nat /\ partial(t).count \in Nat
  <1>1. opt.children \in Nat \ {0} /\ opt.step \in Nat
    BY CommandTyped
  <1>2. PICK a \in Nat, b \in Nat : a = Rows(t) \div opt.children /\ b = Rows(t) % opt.children
    <2>1. Rows(t) \in Nat
      BY ConstantsAreNatural
    <2>2. Rows(t) \div opt.children \in Nat /\ Rows(t) % opt.children \in 0..(opt.children - 1)
      BY <1>1, <2>1, Divides
    <2>3. QED
      BY <1>1, <2>2
  <1>3. PICK n \in Nat : n = IF opt.step = 0 THEN 0 ELSE a
    OBVIOUS
  <1>4. partial(t) = [first |-> n * (opt.step - 1) + 1,
                      count |-> IF opt.step = opt.children THEN n + b ELSE n]
    BY <1>2, <1>3 DEF partial
  <1>5. n * (opt.step - 1) \in Nat
    <2>1. CASE opt.step = 0
      BY <1>3, <2>1
    <2>2. CASE opt.step # 0
      <3>1. opt.step - 1 \in Nat
        BY <1>1, <2>2
      <3>2. QED
        BY <3>1, Products
    <2>3. QED
      BY <2>1, <2>2
  <1>6. QED
    BY <1>4, <1>5

LEMMA NameTyped ==
  ASSUME TypeInv, pc # "shell", NEW h \in Handle, opt.updates > 0 => h \in {"ORDER", "LINE", "DELETE"},
         NEW m \in Nat
  PROVE  print_prep(h, m) \in FileName
  <1>1. m % Unit \in Nat
    BY DbgenAssumption, Divides
  <1>2. (IF opt.children > 1 /\ ~Whole(h) THEN opt.step ELSE 0) \in Nat
    BY CommandTyped
  <1>3. (IF Segmented(h) THEN segment[Counter(h)] + 1 ELSE 0) \in Nat
    <2>1. Segmented(h) => Counter(h) \in {"insert_orders", "insert_lineitem", "delete"}
      BY DEF Segmented, Counter
    <2>2. QED
      BY <2>1 DEF TypeInv, PlaceInv
  <1>4. QED
    BY <1>1, <1>2, <1>3 DEF print_prep, FileName

(* The steps                                                                *)
LEMMA GoneTyped ==
  ASSUME TypeInv, Gone, plan' = plan, todo' \subseteq plan, ended' \subseteq plan,
         crashes' \in 0..MaxCrashes, DOMAIN files' \subseteq FileName
  PROVE  TypeInv'
  <1>1. /\ pc' = "shell" /\ opt' = NoCommand /\ left' = {} /\ tab' = "NONE"
        /\ row' = 0 /\ count' = 0 /\ mode' = 0 /\ upd_num' = 0 /\ rows_this_segment' = -1
        /\ pos' = NoDraws /\ wide' = NoDraws /\ usage' = NoDraws
        /\ fp' = [h \in Handle |-> Closed]
        /\ segment' = [insert_orders |-> 0, insert_lineitem |-> 0, delete |-> 0]
    BY DEF Gone, Fresh
  <1>2. \A s \in Stream : pos'[s] \in Nat /\ wide'[s] \in Nat /\ usage'[s] \in 0..Boundary(s)
    BY <1>1, BoundaryIsNatural DEF NoDraws
  <1>3. TypeOK'
    BY <1>1, <1>2 DEF TypeInv, TypeOK
  <1>4. PlaceInv'
    BY <1>1 DEF PlaceInv, NoDraws, Closed
  <1>5. QED
    BY <1>3, <1>4 DEF TypeInv

LEMMA RejectTyped ==
  ASSUME TypeInv, NEW o \in todo, Reject(o)
  PROVE  TypeInv'
  <1>1. TypeOK'
    BY DEF TypeInv, TypeOK, Reject, memory
  <1>2. PlaceInv'
    BY DEF TypeInv, PlaceInv, Reject, memory
  <1>3. QED
    BY <1>1, <1>2 DEF TypeInv

LEMMA ExecTyped ==
  ASSUME TypeInv, NEW o \in todo, Exec(o)
  PROVE  TypeInv'
  <1>1. /\ pc' = (IF o.updates > 0 THEN "update" ELSE "main") /\ opt' = o /\ tab' = "NONE"
        /\ left' = (IF pc' = "main" /\ o.updates = 0 THEN TablesOf(o.T) ELSE {})
        /\ row' = 0 /\ count' = 0 /\ mode' = 0 /\ rows_this_segment' = -1
        /\ wide' = NoDraws /\ usage' = NoDraws
        /\ fp' = [h \in Handle |-> Closed]
        /\ segment' = [insert_orders |-> 0, insert_lineitem |-> 0, delete |-> 0]
        /\ upd_num' = (IF o.updates > 0 /\ o.step > 0 THEN o.step - 1 ELSE 0)
        /\ pos' = (IF o.updates > 0 THEN [s \in Stream |-> UpdateStart(o, s)] ELSE NoDraws)
        /\ todo' = todo \ {o} /\ Valid(o) /\ UNCHANGED <<plan, ended, files, crashes>>
    BY DEF Exec, Fresh
  <1>2. o \in plan /\ o \in Command /\ o.updates \in Nat /\ o.T \in Letter /\ o.step \in Nat \cup {-1}
    BY PlansAssumption DEF TypeInv, TypeOK, Command
  <1>3. left' \subseteq Table
    BY <1>1, <1>2, TablesAreTables
  <1>4. upd_num' \in Nat
    BY <1>1, <1>2
  <1>5. \A s \in Stream : pos'[s] \in Nat /\ wide'[s] \in Nat /\ usage'[s] \in 0..Boundary(s)
    BY <1>1, <1>2, BoundaryIsNatural, StartTyped DEF NoDraws
  <1>6. TypeOK'
    BY <1>1, <1>2, <1>3, <1>4, <1>5 DEF TypeInv, TypeOK
  <1>7. PlaceInv'
    <2>1. pos' = [s \in Stream |-> pos'[s]] /\ wide' = [s \in Stream |-> wide'[s]]
      BY <1>1 DEF NoDraws
    <2>2. pc' = "main" => opt'.updates = 0
      BY <1>1, <1>2
    <2>3. opt' \in plan' /\ Valid(opt')
      BY <1>1, <1>2 DEF Valid
    <2>4. QED
      BY <1>1, <2>1, <2>2, <2>3 DEF PlaceInv, Closed
  <1>8. QED
    BY <1>6, <1>7 DEF TypeInv

LEMMA BeginTableTyped ==
  ASSUME TypeInv, BeginTable
  PROVE  TypeInv'
  <1>1. /\ pc = "main" /\ pc' = "row" /\ mode' = 0 /\ left' = left \ {tab'} /\ rows_this_segment' = -1
        /\ UNCHANGED <<plan, todo, ended, files, crashes, opt, upd_num, wide, usage, fp, segment>>
        /\ \/ /\ opt.children > 1 /\ ~Whole(tab')
              /\ row' = partial(tab').first /\ count' = partial(tab').count
              /\ pos' = [s \in Stream |-> pos[s] + set_state(tab', opt.children, opt.step, s)]
           \/ row' = 1 /\ count' = Rows(tab') /\ pos' = pos
    BY DEF BeginTable
  <1>2. PICK t \in Table : t = tab'
    BY DEF BeginTable, TypeInv, TypeOK
  <1>3. \A s \in Stream : pos[s] \in Nat
    BY DEF TypeInv, TypeOK
  <1>4. row' \in Nat /\ count' \in Nat /\ (\A s \in Stream : pos'[s] \in Nat)
        /\ pos' = [s \in Stream |-> pos'[s]]
    <2>1. CASE /\ opt.children > 1
               /\ row' = partial(t).first /\ count' = partial(t).count
               /\ pos' = [s \in Stream |-> pos[s] + set_state(t, opt.children, opt.step, s)]
      <3>1. opt.children \in Nat \ {0} /\ opt.step \in Nat
        BY <1>1, <2>1, CommandTyped
      <3>2. \A s \in Stream : set_state(t, opt.children, opt.step, s) \in Nat
        BY <3>1, StateTyped
      <3>3. QED
        BY <1>1, <1>3, <2>1, <3>2, PieceTyped
    <2>2. CASE row' = 1 /\ count' = Rows(t) /\ pos' = pos
      BY <1>3, <2>2, ConstantsAreNatural DEF TypeInv, PlaceInv
    <2>3. QED
      BY <1>1, <1>2, <2>1, <2>2
  <1>5. TypeOK'
    BY <1>1, <1>2, <1>4 DEF TypeInv, TypeOK
  <1>6. PlaceInv'
    BY <1>1, <1>2, <1>4, CommandTyped DEF TypeInv, PlaceInv, Valid
  <1>7. QED
    BY <1>5, <1>6 DEF TypeInv

LEMMA BeginUpdateTyped ==
  ASSUME TypeInv, BeginUpdate
  PROVE  TypeInv'
  <1>1. /\ pc = "update" /\ pc' = "row" /\ tab' = "ORDER_LINE" /\ rows_this_segment' = -1
        /\ segment' = [c \in DOMAIN segment |-> 0]
        /\ row' = upd_num * UpdateRows + 1 /\ count' = UpdateRows /\ mode' = upd_num + 1
        /\ UNCHANGED <<plan, todo, ended, files, crashes, opt, left, upd_num, pos, wide, usage, fp>>
    BY DEF BeginUpdate
  <1>2. upd_num \in Nat
    BY DEF TypeInv, TypeOK
  <1>3. row' \in Nat /\ count' \in Nat /\ mode' \in Nat
    <2>1. UpdateRows \in Nat /\ upd_num * UpdateRows \in Nat
      BY <1>2, ConstantsAreNatural, Products
    <2>2. QED
      BY <1>1, <1>2, <2>1
  <1>4. "ORDER_LINE" \in Table
    BY DEF Table
  <1>5. TypeOK'
    BY <1>1, <1>3, <1>4 DEF TypeInv, TypeOK
  <1>6. PlaceInv'
    BY <1>1, <1>4 DEF TypeInv, PlaceInv, Valid
  <1>7. QED
    BY <1>5, <1>6 DEF TypeInv

LEMMA FileTyped ==
  ASSUME TypeInv, pc = "row", NEW h \in Handles(tab), NEW m \in Nat
  PROVE  h \in Handle /\ File(h, m) \in FileName
  <1>1. tab \in Table /\ (opt.updates > 0 => tab = "ORDER_LINE")
    BY DEF TypeInv, PlaceInv
  <1>2. h \in Handle
    BY <1>1, HandlesPrint
  <1>3. opt.updates > 0 => h \in {"ORDER", "LINE", "DELETE"}
    BY <1>1 DEF Handles, Loader
  <1>4. print_prep(h, m) \in FileName
    BY <1>2, <1>3, NameTyped
  <1>5. ~Opens(h, m) => fp[h].file \in FileName
    BY <1>2 DEF Opens, TypeInv, TypeOK
  <1>6. QED
    BY <1>2, <1>4, <1>5 DEF File

LEMMA SegmentTyped ==
  ASSUME TypeInv, pc = "row"
  PROVE  NextSegment.mode \in Nat /\ NextSegment.rows \in Nat \cup {-1}
  <1>1. mode \in Nat /\ rows_this_segment \in Nat \cup {-1} /\ Unit \in Nat
    BY DbgenAssumption DEF TypeInv, TypeOK
  <1>2. NextSegment.mode = mode \/ NextSegment.mode = mode + Unit
    BY DEF NextSegment
  <1>3. NextSegment.rows \in {rows_this_segment, 0, rows_this_segment + 1}
    BY DEF NextSegment
  <1>4. QED
    BY <1>1, <1>2, <1>3

LEMMA MakeRowTyped ==
  ASSUME TypeInv, MakeRow
  PROVE  TypeInv'
  <1>1. PICK m, r : m = NextSegment.mode /\ r = NextSegment.rows
    OBVIOUS
  <1>2. /\ pc = "row" /\ count > 0 /\ pc' = "stop" /\ mode' = m /\ rows_this_segment' = r
        /\ files' = Printed(Handles(tab), m)
        /\ fp' = [h \in Handle |-> IF h \in Handles(tab) THEN [file |-> File(h, m), mode |-> m]
                                   ELSE fp[h]]
        /\ segment' = [c \in DOMAIN segment |->
                         IF \E h \in Handles(tab) : Opens(h, m) /\ Segmented(h) /\ Counter(h) = c
                         THEN segment[c] + 1 ELSE segment[c]]
        /\ UNCHANGED <<plan, todo, ended, crashes, opt, left, tab, row, count, upd_num>>
    BY <1>1 DEF MakeRow, Output
  <1>3. m \in Nat /\ r \in Nat \cup {-1}
    BY <1>1, <1>2, SegmentTyped
  <1>4. tab \in Table
    BY <1>2 DEF TypeInv, PlaceInv
  <1>5. PICK d \in Draws(tab) :
          /\ usage' = d
          /\ pos' = [s \in Stream |-> pos[s] + (IF s \in WideStream THEN 0 ELSE d[s])]
          /\ wide' = [s \in Stream |-> wide[s] + (IF s \in WideStream THEN d[s] ELSE 0)]
    BY DEF MakeRow
  <1>6. \A s \in Stream : pos'[s] \in Nat /\ wide'[s] \in Nat /\ usage'[s] \in 0..Boundary(s)
    <2> SUFFICES ASSUME NEW s \in Stream
                 PROVE  pos'[s] \in Nat /\ wide'[s] \in Nat /\ usage'[s] \in 0..Boundary(s)
      OBVIOUS
    <2>1. d[s] \in 0..Boundary(s) /\ d[s] \in Nat
      BY <1>4, DrawsTyped
    <2>2. pos[s] \in Nat /\ wide[s] \in Nat
      BY DEF TypeInv, TypeOK
    <2>3. QED
      BY <1>5, <2>1, <2>2
  <1>7. \A h \in Handles(tab) : h \in Handle /\ File(h, m) \in FileName
    BY <1>2, <1>3, FileTyped
  <1>8. DOMAIN files' \subseteq FileName
    BY <1>2, <1>7 DEF Printed, TypeInv, TypeOK
  <1>9. \A h \in Handle : fp'[h] = Closed \/ fp'[h].file \in FileName
    BY <1>2, <1>7 DEF TypeInv, TypeOK
  <1>10. TypeOK'
    BY <1>2, <1>3, <1>6, <1>8, <1>9 DEF TypeInv, TypeOK
  <1>11. fp' = [h \in Handle |-> [file |-> fp'[h].file, mode |-> fp'[h].mode]]
    <2>1. \A h \in Handle : fp[h] = [file |-> fp[h].file, mode |-> fp[h].mode]
      BY DEF TypeInv, PlaceInv
    <2>2. \A h \in Handle : fp'[h] = [file |-> fp'[h].file, mode |-> fp'[h].mode]
      BY <1>2, <2>1
    <2>3. QED
      BY <1>2, <2>2
  <1>12. /\ \A c \in {"insert_orders", "insert_lineitem", "delete"} : segment'[c] \in Nat
         /\ DOMAIN segment' = {"insert_orders", "insert_lineitem", "delete"}
    BY <1>2 DEF TypeInv, PlaceInv
  <1>13. pos' = [s \in Stream |-> pos'[s]] /\ wide' = [s \in Stream |-> wide'[s]]
    BY <1>5
  <1>14. PlaceInv'
    BY <1>2, <1>4, <1>11, <1>12, <1>13 DEF TypeInv, PlaceInv, Valid
  <1>15. QED
    BY <1>10, <1>14 DEF TypeInv

LEMMA DeclineTyped ==
  ASSUME TypeInv, Decline
  PROVE  TypeInv'
  <1>1. PICK k \in DOMAIN Loader(tab) :
          files' = Printed({Loader(tab)[j] : j \in 1..(k - 1)}, mode)
    BY DEF Decline
  <1>2. pc = "row" /\ Gone /\ UNCHANGED <<plan, todo, ended, crashes>>
    BY DEF Decline
  <1>3. {Loader(tab)[j] : j \in 1..(k - 1)} \subseteq Handles(tab)
    BY <1>1 DEF Handles, Loader
  <1>4. mode \in Nat
    BY DEF TypeInv, TypeOK
  <1>5. \A h \in Handles(tab) : File(h, mode) \in FileName
    BY <1>2, <1>4, FileTyped
  <1>6. DOMAIN files' \subseteq FileName
    BY <1>1, <1>3, <1>5 DEF Printed, TypeInv, TypeOK
  <1>7. todo \subseteq plan /\ ended \subseteq plan /\ crashes \in 0..MaxCrashes
    BY DEF TypeInv, TypeOK
  <1>8. QED
    BY <1>2, <1>6, <1>7, GoneTyped

LEMMA RowStopTyped ==
  ASSUME TypeInv, RowStop
  PROVE  TypeInv'
  <1>1. /\ pc = "stop" /\ pc' = "row" /\ row' = row + 1 /\ count' = count - 1
        /\ pos' = [s \in Stream |-> pos[s] + row_stop(tab, usage, s)]
        /\ UNCHANGED <<plan, todo, ended, files, crashes, opt, left, tab, upd_num, mode,
                       rows_this_segment, wide, usage, fp, segment>>
    BY DEF RowStop
  <1>2. row' \in Nat /\ count' \in Nat
    BY <1>1 DEF TypeInv, TypeOK, PlaceInv
  <1>3. \A s \in Stream : pos'[s] \in Nat
    <2> SUFFICES ASSUME NEW s \in Stream PROVE pos'[s] \in Nat
      OBVIOUS
    <2>1. usage[s] \in 0..Boundary(s) /\ pos[s] \in Nat /\ Boundary(s) \in Nat
      BY BoundaryIsNatural DEF TypeInv, TypeOK
    <2>2. row_stop(tab, usage, s) \in Nat
      BY <2>1 DEF row_stop
    <2>3. QED
      BY <1>1, <2>1, <2>2
  <1>4. TypeOK'
    BY <1>1, <1>2, <1>3 DEF TypeInv, TypeOK
  <1>5. PlaceInv'
    BY <1>1 DEF TypeInv, PlaceInv, Valid
  <1>6. QED
    BY <1>4, <1>5 DEF TypeInv

LEMMA EndTableTyped ==
  ASSUME TypeInv, EndTable
  PROVE  TypeInv'
  <1>1. /\ pc = "row" /\ count = 0
        /\ UNCHANGED <<plan, todo, ended, crashes, opt, left, tab, upd_num, rows_this_segment,
                       pos, wide, usage>>
    BY DEF EndTable
  <1>2. opt.updates \in Nat
    BY <1>1, CommandTyped
  <1>3. CASE opt.updates = 0
    <2>1. pc' = "main" /\ UNCHANGED <<files, row, count, mode, fp, segment>>
      BY <1>3 DEF EndTable
    <2>2. TypeOK'
      BY <1>1, <2>1 DEF TypeInv, TypeOK
    <2>3. PlaceInv'
      BY <1>1, <1>3, <2>1 DEF TypeInv, PlaceInv, Valid
    <2>4. QED
      BY <2>2, <2>3 DEF TypeInv
  <1>4. CASE opt.updates # 0
    <2>1. PICK f : f = print_prep("DELETE", upd_num + 1)
      OBVIOUS
    <2>2. /\ pc' = "drange" /\ row' = upd_num * UpdateRows + 1 /\ count' = UpdateRows
          /\ mode' = upd_num + 1
          /\ files' = [g \in DOMAIN files \cup {f} |-> IF g = f THEN <<>> ELSE files[g]]
          /\ fp' = [fp EXCEPT !["DELETE"] = [file |-> f, mode |-> upd_num + 1]]
          /\ segment' = [segment EXCEPT !["delete"] = IF Segmented("DELETE") THEN @ + 1 ELSE @]
      BY <1>4, <2>1 DEF EndTable
    <2>3. upd_num \in Nat /\ upd_num + 1 \in Nat /\ UpdateRows \in Nat /\ upd_num * UpdateRows \in Nat
      BY ConstantsAreNatural, Products DEF TypeInv, TypeOK
    <2>4. f \in FileName
      BY <1>1, <2>1, <2>3, NameTyped DEF Handle
    <2>5. /\ fp'["DELETE"] = [file |-> f, mode |-> upd_num + 1]
          /\ \A h \in Handle \ {"DELETE"} : fp'[h] = fp[h]
          /\ fp' = [h \in Handle |-> fp'[h]]
      BY <2>2 DEF TypeInv, PlaceInv, Handle
    <2>6. TypeOK'
      BY <1>1, <2>2, <2>3, <2>4, <2>5 DEF TypeInv, TypeOK
    <2>7. fp' = [h \in Handle |-> [file |-> fp'[h].file, mode |-> fp'[h].mode]]
      <3>1. \A h \in Handle : fp[h] = [file |-> fp[h].file, mode |-> fp[h].mode]
        BY DEF TypeInv, PlaceInv
      <3>2. \A h \in Handle : fp'[h] = [file |-> fp'[h].file, mode |-> fp'[h].mode]
        BY <2>5, <3>1
      <3>3. QED
        BY <2>5, <3>2
    <2>8. /\ \A c \in {"insert_orders", "insert_lineitem", "delete"} : segment'[c] \in Nat
          /\ DOMAIN segment' = {"insert_orders", "insert_lineitem", "delete"}
      BY <2>2 DEF TypeInv, PlaceInv
    <2>9. PlaceInv'
      BY <1>1, <1>2, <1>4, <2>2, <2>4, <2>5, <2>7, <2>8 DEF TypeInv, PlaceInv, Valid
    <2>10. QED
      BY <2>6, <2>9 DEF TypeInv
  <1>5. QED
    BY <1>3, <1>4

LEMMA DeleteKeyTyped ==
  ASSUME TypeInv, DeleteKey
  PROVE  TypeInv'
  <1>1. /\ pc = "drange" /\ count > 0 /\ row' = row + 1 /\ count' = count - 1
        /\ UNCHANGED <<plan, todo, ended, crashes, pc, opt, left, tab, upd_num, mode,
                       rows_this_segment, pos, wide, usage>>
    BY DEF DeleteKey
  <1>2. PICK f, q :
          /\ \/ f = print_prep("DELETE", mode) /\ q = <<>>
             \/ f = fp["DELETE"].file /\ q = files[f]
          /\ files' = [g \in DOMAIN files \cup {f} |->
                         IF g = f THEN Append(q, DeletedKey) ELSE files[g]]
          /\ fp' = [fp EXCEPT !["DELETE"].file = f]
    BY DeleteKeyFiles
  <1>3. \E over \in BOOLEAN : segment' = [segment EXCEPT !["delete"] = IF over THEN @ + 1 ELSE @]
    BY DEF DeleteKey
  <1>4. f \in FileName
    <2>1. mode \in Nat
      BY DEF TypeInv, TypeOK
    <2>2. print_prep("DELETE", mode) \in FileName
      BY <1>1, <2>1, NameTyped DEF Handle
    <2>3. QED
      BY <1>1, <1>2, <2>2 DEF TypeInv, PlaceInv
  <1>5. /\ fp'["DELETE"] = [file |-> f, mode |-> fp["DELETE"].mode]
        /\ \A h \in Handle \ {"DELETE"} : fp'[h] = fp[h]
        /\ fp' = [h \in Handle |-> fp'[h]]
    <2>1. /\ fp = [h \in Handle |-> fp[h]]
          /\ fp["DELETE"] = [file |-> fp["DELETE"].file, mode |-> fp["DELETE"].mode]
      BY DEF TypeInv, PlaceInv, Handle
    <2>2. QED
      BY <1>2, <2>1 DEF Handle
  <1>6. row' \in Nat /\ count' \in Nat
    BY <1>1 DEF TypeInv, TypeOK
  <1>7. DOMAIN files' \subseteq FileName
    BY <1>2, <1>4 DEF TypeInv, TypeOK
  <1>8. TypeOK'
    BY <1>1, <1>4, <1>5, <1>6, <1>7 DEF TypeInv, TypeOK
  <1>9. fp' = [h \in Handle |-> [file |-> fp'[h].file, mode |-> fp'[h].mode]]
    <2>1. \A h \in Handle : fp[h] = [file |-> fp[h].file, mode |-> fp[h].mode]
      BY DEF TypeInv, PlaceInv
    <2>2. \A h \in Handle : fp'[h] = [file |-> fp'[h].file, mode |-> fp'[h].mode]
      BY <1>5, <2>1
    <2>3. QED
      BY <1>5, <2>2
  <1>10. /\ \A c \in {"insert_orders", "insert_lineitem", "delete"} : segment'[c] \in Nat
         /\ DOMAIN segment' = {"insert_orders", "insert_lineitem", "delete"}
    BY <1>3 DEF TypeInv, PlaceInv
  <1>11. PlaceInv'
    BY <1>1, <1>4, <1>5, <1>9, <1>10 DEF TypeInv, PlaceInv, Valid
  <1>12. QED
    BY <1>8, <1>11 DEF TypeInv

LEMMA EndUpdateTyped ==
  ASSUME TypeInv, EndUpdate
  PROVE  TypeInv'
  <1>1. /\ pc = "drange" /\ pc' = "update" /\ upd_num' = upd_num + 1
        /\ UNCHANGED <<plan, todo, ended, files, crashes, opt, left, tab, row, count, mode,
                       rows_this_segment, pos, wide, usage, fp, segment>>
    BY DEF EndUpdate
  <1>2. TypeOK'
    BY <1>1 DEF TypeInv, TypeOK
  <1>3. PlaceInv'
    BY <1>1 DEF TypeInv, PlaceInv, Valid
  <1>4. QED
    BY <1>2, <1>3 DEF TypeInv

LEMMA ExitTyped ==
  ASSUME TypeInv, Return \/ Crash
  PROVE  TypeInv'
  <1>1. /\ todo \subseteq plan /\ ended \subseteq plan /\ crashes \in 0..MaxCrashes
        /\ DOMAIN files \subseteq FileName /\ MaxCrashes \in Nat
    BY DbgenAssumption DEF TypeInv, TypeOK
  <1>2. pc # "shell" /\ opt \in plan
    BY DEF Return, Crash, TypeInv, PlaceInv
  <1>3. CASE Return
    BY <1>1, <1>2, <1>3, GoneTyped DEF Return
  <1>4. CASE Crash
    <2>1. DOMAIN files' = DOMAIN files
      BY <1>4 DEF Crash
    <2>2. crashes' \in 0..MaxCrashes
      BY <1>1, <1>4 DEF Crash
    <2>3. QED
      BY <1>1, <1>2, <1>4, <2>1, <2>2, GoneTyped DEF Crash
  <1>5. QED
    BY <1>3, <1>4

(* TypeOK, at every scale and for every command line: in particular no row  *)
(* draws beyond the boundary that skipping it assumes, and every seed is    *)
(* only ever moved forward.                                                 *)
THEOREM TypesHold == Spec => []TypeOK
  <1>1. ASSUME Init PROVE TypeInv
    <2>1. \A s \in Stream : pos[s] \in Nat /\ wide[s] \in Nat /\ usage[s] \in 0..Boundary(s)
      BY <1>1, BoundaryIsNatural DEF Init, NoDraws
    <2>2. TypeOK
      BY <1>1, <2>1, DbgenAssumption DEF Init, TypeOK
    <2>3. PlaceInv
      BY <1>1 DEF Init, PlaceInv, NoDraws, Closed
    <2>4. QED
      BY <2>2, <2>3 DEF TypeInv
  <1>2. ASSUME TypeInv, [Next]_vars PROVE TypeInv'
    <2>1. ASSUME NEW o \in todo, Reject(o) \/ Exec(o) PROVE TypeInv'
      BY <1>2, <2>1, RejectTyped, ExecTyped
    <2>2. CASE BeginTable \/ BeginUpdate
      BY <1>2, <2>2, BeginTableTyped, BeginUpdateTyped
    <2>3. CASE MakeRow \/ Decline \/ RowStop
      BY <1>2, <2>3, MakeRowTyped, DeclineTyped, RowStopTyped
    <2>4. CASE EndTable \/ DeleteKey \/ EndUpdate
      BY <1>2, <2>4, EndTableTyped, DeleteKeyTyped, EndUpdateTyped
    <2>5. CASE Return \/ Crash
      BY <1>2, <2>5, ExitTyped
    <2>6. CASE UNCHANGED vars
      <3>1. TypeOK'
        BY <1>2, <2>6 DEF TypeInv, TypeOK, vars, memory
      <3>2. PlaceInv'
        BY <1>2, <2>6 DEF TypeInv, PlaceInv, vars, memory
      <3>3. QED
        BY <3>1, <3>2 DEF TypeInv
    <2>7. QED
      BY <1>2, <2>1, <2>2, <2>3, <2>4, <2>5, <2>6 DEF Next, Process
  <1>3. TypeInv => TypeOK
    BY DEF TypeInv
  <1>4. QED
    BY <1>1, <1>2, <1>3, PTL DEF Spec
=============================================================================
