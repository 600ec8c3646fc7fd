------------------------------- MODULE Streams -------------------------------
(***************************************************************************)
(* The random number streams of dbgen (rnd.h, rnd.c, speed_seed.c): which   *)
(* table owns a stream, how many draws a row of the table may use, how far  *)
(* row_stop moves a stream at the end of a row, and how far the sd_*        *)
(* functions move it to skip rows that another process generates.           *)
(*                                                                         *)
(* A stream is abstracted to its position: how many times the generator has *)
(* been applied since the first row (Seed[].nCalls of an RNG_TEST build).   *)
(* Two seeds of a stream are equal when the positions are.                  *)
(***************************************************************************)
EXTENDS Integers

\* dss.h: the limits a row's draws depend on.
O_LCNT_MIN == 1
O_LCNT_MAX == 7
SUPP_PER_PART == 4
MAX_COLOR == 92
ADDR_DRAWS_MIN == 3
ADDR_DRAWS_MAX == 9

CONSTANTS
  LineCounts,    \* lines an order may have
  AddressDraws   \* draws an address may take: its length, then one for five characters

ASSUME DrawsAssumption ==
  /\ LineCounts \subseteq O_LCNT_MIN .. O_LCNT_MAX
  /\ AddressDraws \subseteq ADDR_DRAWS_MIN .. ADDR_DRAWS_MAX

-----------------------------------------------------------------------------
(* Tables and streams *)

PartStream == {"P_MFG", "P_BRND", "P_TYPE", "P_SIZE", "P_CNTR", "P_CMNT", "P_NAME"}
PsuppStream == {"PS_QTY", "PS_SCST", "PS_CMNT"}
OrderStream == {"O_SUPP", "O_CLRK", "O_CMNT", "O_ODATE", "O_PRIO", "O_CKEY", "O_LCNT"}
LineStream == {"L_QTY", "L_DCNT", "L_TAX", "L_SHIP", "L_SMODE", "L_PKEY", "L_SKEY",
               "L_SDTE", "L_CDTE", "L_RDTE", "L_RFLG", "L_CMNT", "HVAR"}
CustStream == {"C_ADDR", "C_NTRG", "C_PHNE", "C_ABAL", "C_MSEG", "C_CMNT"}
SuppStream == {"S_ADDR", "S_NTRG", "S_PHNE", "S_ABAL", "S_CMNT",
               "BBB_JNK", "BBB_TYPE", "BBB_CMNT", "BBB_OFFSET"}
Stream == PartStream \cup PsuppStream \cup OrderStream \cup LineStream
            \cup CustStream \cup SuppStream \cup {"N_CMNT", "R_CMNT"}

Table == {"PART", "PSUPP", "SUPP", "CUST", "ORDER", "LINE", "ORDER_LINE",
          "PART_PSUPP", "NATION", "REGION"}

\* Seed[s].table
Owner(s) ==
  CASE s \in PartStream  -> "PART"
    [] s \in PsuppStream -> "PSUPP"
    [] s \in OrderStream -> "ORDER"
    [] s \in LineStream  -> "LINE"
    [] s \in CustStream  -> "CUST"
    [] s \in SuppStream  -> "SUPP"
    [] s = "N_CMNT"      -> "NATION"
    [] s = "R_CMNT"      -> "REGION"

\* tdefs[t].child
Child(t) ==
  CASE t \in {"PART", "PART_PSUPP"}  -> "PSUPP"
    [] t \in {"ORDER", "ORDER_LINE"} -> "LINE"
    [] OTHER                         -> "NONE"

\* Streams that a comment draws from: an offset and a length in the text pool.
TextStream == {"P_CMNT", "O_CMNT", "L_CMNT", "PS_CMNT", "C_CMNT", "S_CMNT",
               "N_CMNT", "R_CMNT"}

\* Seed[s].boundary: the draws of s that one row of the owner stands for.
Boundary(s) ==
  CASE s = "HVAR"                         -> 1
    [] s = "L_CMNT"                       -> 2 * O_LCNT_MAX
    [] s \in LineStream \ {"HVAR", "L_CMNT"} -> O_LCNT_MAX
    [] s = "PS_CMNT"                      -> 2 * SUPP_PER_PART
    [] s \in {"PS_QTY", "PS_SCST"}        -> SUPP_PER_PART
    [] s = "P_NAME"                       -> MAX_COLOR
    [] s \in {"C_ADDR", "S_ADDR"}         -> ADDR_DRAWS_MAX
    [] s \in {"C_PHNE", "S_PHNE"}         -> 3
    [] s \in TextStream \ {"L_CMNT", "PS_CMNT"} -> 2
    [] OTHER                              -> 1

-----------------------------------------------------------------------------
(* The draws of one row *)

NoDraws == [s \in Stream |-> 0]

\* mk_order draws for the order and for each of its lines; the return flag of a
\* line is drawn only when the line was received by CURRENTDATE, O_SUPP never.
OrderDraws ==
  UNION {{[s \in Stream |->
             CASE s = "L_RFLG"  -> returned
               [] s = "L_CMNT"  -> 2 * lines
               [] s \in LineStream \ {"HVAR", "L_RFLG", "L_CMNT"} -> lines
               [] s = "O_CMNT"  -> 2
               [] s \in OrderStream \ {"O_CMNT", "O_SUPP"} -> 1
               [] OTHER         -> 0] : returned \in 0..lines} : lines \in LineCounts}

\* mk_part permutes all colours for a name and draws for its four suppliers.
PartDraws ==
  {[s \in Stream |-> IF s \in PartStream \cup PsuppStream THEN Boundary(s) ELSE 0]}

\* mk_cust and mk_supp: only the address takes a number of draws that varies.
CustDraws ==
  {[s \in Stream |-> CASE s = "C_ADDR" -> a
                       [] s \in CustStream \ {"C_ADDR"} -> Boundary(s)
                       [] OTHER -> 0] : a \in AddressDraws}

SuppDrawsLonger ==  \* mutant: the length of an address is drawn twice
  {[s \in Stream |-> CASE s = "S_ADDR" -> a + 1
                       [] s \in SuppStream \ {"S_ADDR"} -> Boundary(s)
                       [] OTHER -> 0] : a \in AddressDraws}
SuppDraws ==
  {[s \in Stream |-> CASE s = "S_ADDR" -> a
                       [] s \in SuppStream \ {"S_ADDR"} -> Boundary(s)
                       [] OTHER -> 0] : a \in AddressDraws}

\* mk_nation and mk_region draw a comment.
CodeDraws(cmnt) == {[s \in Stream |-> IF s = cmnt THEN 2 ELSE 0]}

\* The draws that generating one row of t may make.
Draws(t) ==
  CASE t \in {"ORDER", "LINE", "ORDER_LINE"} -> OrderDraws
    [] t \in {"PART", "PSUPP", "PART_PSUPP"} -> PartDraws
    [] t = "CUST"   -> CustDraws
    [] t = "SUPP"   -> SuppDraws
    [] t = "NATION" -> CodeDraws("N_CMNT")
    [] t = "REGION" -> CodeDraws("R_CMNT")

\* row_stop: the streams of the table and of its detail, with the joint tables
\* standing for their masters, are moved to the end of the row.
Master(t) == CASE t = "ORDER_LINE" -> "ORDER"
               [] t = "PART_PSUPP" -> "PART"
               [] OTHER -> t

RoundedUp(t, s) == Owner(s) = Master(t) \/ Owner(s) = Child(t)

row_stop(t, usage, s) ==
  IF RoundedUp(t, s) /\ usage[s] <= Boundary(s) THEN Boundary(s) - usage[s] ELSE 0

-----------------------------------------------------------------------------
(* Skipping rows *)

\* How far the seed function of a table moves stream s for one skipped row.
sd_part(s) ==
  CASE s \in PartStream \ {"P_CMNT", "P_NAME"} -> 1
    [] s = "P_CMNT" -> 2
    [] s = "P_NAME" -> 92
    [] OTHER -> 0

sd_psupp(s) ==
  CASE s \in {"PS_QTY", "PS_SCST"} -> SUPP_PER_PART
    [] s = "PS_CMNT" -> SUPP_PER_PART * 2
    [] OTHER -> 0

sd_order(s) ==
  CASE s \in OrderStream \ {"O_CMNT"} -> 1
    [] s = "O_CMNT" -> 2
    [] OTHER -> 0

\* A first argument of 1 makes sd_line advance the order's streams it depends on.
sd_line(child, s) ==
  CASE s \in LineStream \ {"HVAR", "L_CMNT"} -> O_LCNT_MAX
    [] s = "L_CMNT" -> O_LCNT_MAX * 2
    [] child = 1 /\ s \in {"O_ODATE", "O_LCNT"} -> 1
    [] OTHER -> 0

sd_cust(s) ==
  CASE s = "C_ADDR" -> 9
    [] s = "C_CMNT" -> 2
    [] s = "C_PHNE" -> 3
    [] s \in {"C_NTRG", "C_ABAL", "C_MSEG"} -> 1
    [] OTHER -> 0

sd_supp(s) ==
  CASE s = "S_ADDR" -> 9
    [] s = "S_CMNT" -> 2
    [] s = "S_PHNE" -> 3
    [] s \in {"S_NTRG", "S_ABAL", "BBB_CMNT", "BBB_JNK", "BBB_OFFSET", "BBB_TYPE"} -> 1
    [] OTHER -> 0

\* tdefs[t].gen_seed(child, 1); nations and regions have none.
gen_seed(t, child, s) ==
  CASE t \in {"PART", "PART_PSUPP"}  -> sd_part(s)
    [] t = "PSUPP"                   -> sd_psupp(s)
    [] t = "SUPP"                    -> sd_supp(s)
    [] t = "CUST"                    -> sd_cust(s)
    [] t \in {"ORDER", "ORDER_LINE"} -> sd_order(s)
    [] t = "LINE"                    -> sd_line(child, s)
    [] OTHER                         -> 0

SkipRowAlike(t, s) ==  \* mutant: no special case for the line items
  gen_seed(t, 0, s) + gen_seed(Child(t), 0, s)

\* set_state's loop body for one row: the table, then its detail.
SkipRow(t, s) ==
  gen_seed(t, IF t = "LINE" THEN 1 ELSE 0, s) + gen_seed(Child(t), 0, s)

-----------------------------------------------------------------------------
(* What is printed *)

\* The streams that a file's rows depend on.
PrintedStreams(f) ==
  CASE f = "PART"   -> PartStream
    [] f = "PSUPP"  -> PsuppStream
    [] f = "SUPP"   -> SuppStream
    [] f = "CUST"   -> CustStream
    [] f = "ORDER"  -> (OrderStream \ {"O_SUPP"})
                         \cup {"L_QTY", "L_DCNT", "L_TAX", "L_PKEY", "L_SDTE"}
    [] f = "LINE"   -> (LineStream \ {"HVAR"}) \cup {"O_ODATE", "O_LCNT"}
    [] f = "NATION" -> {"N_CMNT"}
    [] f = "REGION" -> {"R_CMNT"}
=============================================================================
