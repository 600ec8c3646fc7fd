-------------------------------- MODULE Rows --------------------------------
(***************************************************************************)
(* The rows that dbgen makes (build.c): an order with its customer, its     *)
(* dates and the states of its lines, a part with its four suppliers, a     *)
(* customer's address, and the complaint in a supplier's comment. A row is  *)
(* made in steps, one for each turn of a loop. Draws are any values of      *)
(* their intervals, or of samples of them; names, prices and phone numbers, *)
(* which no property tells apart, are left out.                             *)
(***************************************************************************)
EXTENDS Calendar, FiniteSets

CONSTANTS
  tot_scnt, PartCount,  \* tdefs[SUPP].base * scale, L_PKEY_MAX
  O_CKEY_MAX,           \* tdefs[CUST].base * scale
  Customers,            \* draws of O_CKEY_SD
  OrderDays,            \* draws of O_ODATE_SD, as days after STARTDATE
  Lines,                \* draws of O_LCNT_SD
  ShipDays, CommitDays, ReceiptDays,  \* draws of L_SDTE_SD, L_CDTE_SD, L_RDTE_SD
  AddressLengths,       \* draws of C_ADDR_SD for the length
  CommentLengths        \* lengths of suppliers' comments

\* dss.h
O_LCNT_MAX == 7
L_SDTE_MAX == 121
L_CDTE_MAX == 90
L_RDTE_MAX == 30
O_ODATE_MAX == STARTDATE + TOTDATE - (L_SDTE_MAX + L_RDTE_MAX) - 1
CUST_MORTALITY == 3
SUPP_PER_PART == 4
BBB_BASE_LEN == 9
BBB_TYPE_LEN == 10
BBB_CMNT_LEN == 19
ADDR_BOUNDARY == 9    \* Seed[C_ADDR_SD].boundary

ASSUME RowsAssumption ==
  /\ tot_scnt \in Nat \ {0} /\ PartCount \in Nat
  /\ O_CKEY_MAX \in Nat \ {0} /\ Customers \subseteq 1..O_CKEY_MAX
  /\ OrderDays \subseteq 0..(O_ODATE_MAX - STARTDATE)
  /\ Lines \subseteq 1..O_LCNT_MAX
  /\ ShipDays \subseteq 1..L_SDTE_MAX /\ CommitDays \subseteq 30..L_CDTE_MAX
  /\ ReceiptDays \subseteq 1..L_RDTE_MAX
  /\ AddressLengths \subseteq 10..40 /\ CommentLengths \subseteq 25..100

VARIABLES
  pc,              \* "idle" between two rows
  i, date,         \* the loop of mk_ascdate, and the entry it has made last
  custkey, delta,  \* of the order, and the direction of the next attempt
  tmp_date, lines, \* its date, as a number of days after 92001, and its line count
  l,               \* its lines
  ocnt, orderstatus,
  part,            \* the part: its key and its suppliers
  len, n, draws,   \* a_rnd: the length, the loop, and how often it has drawn
  press            \* the complaint: the comment's length, where it starts and ends
rowsVars == <<pc, i, date, custkey, delta, tmp_date, lines, l, ocnt, orderstatus,
              part, len, n, draws, press>>
order == <<custkey, delta, tmp_date, lines, l, ocnt, orderstatus>>
address == <<len, n, draws>>

NoDate == [year |-> 0, month |-> 0, day |-> 0]

Init ==
  /\ pc = "idle" /\ i = 0 /\ date = NoDate
  /\ custkey = 0 /\ delta = 0 /\ tmp_date = STARTDATE /\ lines = 0 /\ l = <<>>
  /\ ocnt = 0 /\ orderstatus = "none"
  /\ part = [key |-> 0, supp |-> <<>>]
  /\ len = 0 /\ n = 0 /\ draws = 0
  /\ press = [clen |-> 0, first |-> 0, noise |-> 0, last |-> 0]

-----------------------------------------------------------------------------
(* mk_order *)

\* The first order of a process has the table of dates built.
NeedDates ==
  /\ pc = "idle" /\ i = 0
  /\ pc' = "dates"
  /\ UNCHANGED <<i, date, order, part, address, press>>

mk_ascdate ==
  /\ pc = "dates"
  /\ date' = mk_time(i + 1)
  /\ i' = i + 1
  /\ pc' = IF i' < TOTDATE THEN "dates" ELSE "idle"
  /\ UNCHANGED <<order, part, address, press>>

StartOrder ==
  /\ pc = "idle" /\ i = TOTDATE
  /\ custkey' \in Customers
  /\ delta' = 1
  /\ tmp_date' = STARTDATE /\ lines' = 0 /\ l' = <<>> /\ ocnt' = 0
  /\ orderstatus' = "none"
  /\ pc' = "customer"
  /\ UNCHANGED <<i, date, part, address, press>>

SurviveUncapped ==  \* mutant: may step past the last customer
  /\ pc = "customer" /\ custkey % CUST_MORTALITY = 0
  /\ custkey' = custkey + delta
  /\ delta' = -delta
  /\ UNCHANGED <<pc, i, date, tmp_date, lines, l, ocnt, orderstatus, part, address, press>>

\* A third of the customers have no orders: a neighbour is tried, on either side.
Survive ==
  /\ pc = "customer" /\ custkey % CUST_MORTALITY = 0
  /\ custkey' = IF custkey + delta < O_CKEY_MAX THEN custkey + delta ELSE O_CKEY_MAX
  /\ delta' = -delta
  /\ UNCHANGED <<pc, i, date, tmp_date, lines, l, ocnt, orderstatus, part, address, press>>

DrawOrder ==
  /\ pc = "customer" /\ custkey % CUST_MORTALITY # 0
  /\ tmp_date' \in {STARTDATE + d : d \in OrderDays}
  /\ lines' \in Lines
  /\ orderstatus' = "O"
  /\ pc' = "line"
  /\ UNCHANGED <<i, date, custkey, delta, l, ocnt, part, address, press>>

\* A line received by CURRENTDATE was returned or accepted, which the draw decides.
Flag(r_date) == IF julian(r_date) <= CURRENTDATE THEN {"R", "A"} ELSE {"N"}

Line ==
  /\ pc = "line" /\ Len(l) < lines
  /\ \E s \in ShipDays, c \in CommitDays, r \in ReceiptDays :
       LET s_date == tmp_date + s
           r_date == s_date + r
           lstatus == IF julian(s_date) <= CURRENTDATE THEN "F" ELSE "O"
       IN  \E rflag \in Flag(r_date) :
             /\ l' = Append(l, [sdate |-> s_date, cdate |-> tmp_date + c, rdate |-> r_date,
                                rflag |-> rflag, lstatus |-> lstatus])
             /\ ocnt' = IF lstatus = "F" THEN ocnt + 1 ELSE ocnt
  /\ UNCHANGED <<pc, i, date, custkey, delta, tmp_date, lines, orderstatus, part, address, press>>

\* The order's state as its lines are; it is open until one is shipped.
Status == IF ocnt = lines THEN "F" ELSE IF ocnt > 0 THEN "P" ELSE orderstatus

EndOrder ==
  /\ pc = "line" /\ Len(l) = lines
  /\ orderstatus' = Status
  /\ pc' = "order"
  /\ UNCHANGED <<i, date, custkey, delta, tmp_date, lines, l, ocnt, part, address, press>>

-----------------------------------------------------------------------------
(* mk_part, mk_cust and mk_supp *)

\* The mutant spreads the suppliers of a part without the part's own offset.
BridgePlain(p, s) == ((p + s * (p \div tot_scnt)) % tot_scnt) + 1

\* The supplier s, from 0, of part p; lines of orders use it too.
PART_SUPP_BRIDGE(p, s) ==
  ((p + s * (tot_scnt \div SUPP_PER_PART + (p - 1) \div tot_scnt)) % tot_scnt) + 1

mk_part ==
  /\ pc = "idle"
  /\ \E p \in 1..PartCount :
       part' = [key |-> p, supp |-> [s \in 1..SUPP_PER_PART |-> PART_SUPP_BRIDGE(p, s - 1)]]
  /\ pc' = "part row"
  /\ UNCHANGED <<i, date, order, address, press>>

\* a_rnd, for an address: the length is drawn first.
mk_cust ==
  /\ pc = "idle"
  /\ len' \in AddressLengths
  /\ n' = 0 /\ draws' = 1
  /\ pc' = "address"
  /\ UNCHANGED <<i, date, order, part, press>>

\* One turn of a_rnd's loop; a draw gives five characters of six bits.
a_rnd ==
  /\ pc = "address" /\ n < len
  /\ draws' = IF n % 5 = 0 THEN draws + 1 ELSE draws
  /\ n' = n + 1
  /\ UNCHANGED <<pc, i, date, order, part, len, press>>

EndAddress ==
  /\ pc = "address" /\ n = len
  /\ pc' = "customer row"
  /\ UNCHANGED <<i, date, order, part, address, press>>

OffsetAnywhere(clen, noise) == clen - BBB_CMNT_LEN  \* mutant: the noise has no length

\* Where the words of a complaint may begin at the latest.
MaxOffset(clen, noise) == clen - (BBB_CMNT_LEN + noise)

\* mk_supp writes the words of a complaint over the comment.
mk_supp ==
  /\ pc = "idle"
  /\ \E clen \in CommentLengths :
       \E noise \in 0..(clen - BBB_CMNT_LEN) :
         \E offset \in 0..MaxOffset(clen, noise) :
           press' = [clen |-> clen, first |-> offset, noise |-> noise,
                     last |-> BBB_BASE_LEN + offset + noise + BBB_TYPE_LEN - 1]
  /\ pc' = "supplier row"
  /\ UNCHANGED <<i, date, order, part, address>>

\* The row is printed, and its values are given up.
Forget ==
  /\ pc \in {"order", "part row", "customer row", "supplier row"}
  /\ pc' = "idle"
  /\ custkey' = 0 /\ delta' = 0 /\ tmp_date' = STARTDATE /\ lines' = 0 /\ l' = <<>>
  /\ ocnt' = 0 /\ orderstatus' = "none"
  /\ part' = [key |-> 0, supp |-> <<>>]
  /\ len' = 0 /\ n' = 0 /\ draws' = 0
  /\ press' = [clen |-> 0, first |-> 0, noise |-> 0, last |-> 0]
  /\ UNCHANGED <<i, date>>

Next ==
  \/ NeedDates \/ mk_ascdate \/ StartOrder \/ Survive \/ DrawOrder \/ Line \/ EndOrder
  \/ mk_part \/ mk_cust \/ a_rnd \/ EndAddress \/ mk_supp \/ Forget

Spec == Init /\ [][Next]_rowsVars

-----------------------------------------------------------------------------
(* Properties *)

\* The table has one entry for each day from 1 January 1992 on, through months, leap
\* days and years, and counting a julian date back gives the number of its day.
DaysFollow ==
  [][i' # i =>
       /\ date' = IF i = 0 THEN [year |-> 92, month |-> 1, day |-> 1] ELSE DayAfter(date)
       /\ unjulian(julian(STARTDATE + i)) = i]_rowsVars

InTable(d) == d - STARTDATE \in 0..(TOTDATE - 1)

\* Nothing is read or written out of bounds: the dates of an order and of all its
\* lines are in the table, up to its last entry, a complaint ends inside the comment,
\* and an address stays within the draws that a row of its table stands for.
NothingOutOfBounds ==
  /\ InTable(tmp_date)
  /\ \A j \in 1..Len(l) : InTable(l[j].sdate) /\ InTable(l[j].cdate) /\ InTable(l[j].rdate)
  /\ pc = "supplier row" => press.first >= 0 /\ press.last < press.clen
  /\ draws <= ADDR_BOUNDARY

\* An order belongs to a customer that exists and is one of those that order, it is
\* finished, partial or open just as its lines are, and no line was returned or
\* accepted that is not shipped.
OrderIsConsistent ==
  /\ pc \in {"line", "order"} =>
       custkey \in 1..O_CKEY_MAX /\ custkey % CUST_MORTALITY # 0
  /\ pc = "order" =>
       LET states == {l[j].lstatus : j \in 1..lines}
       IN  orderstatus = IF states = {"F"} THEN "F" ELSE IF states = {"O"} THEN "O" ELSE "P"
  /\ \A j \in 1..Len(l) : l[j].rflag # "N" => l[j].lstatus = "F"

\* The four suppliers of a part exist and differ, so that the keys of PARTSUPP do.
FourSuppliers ==
  part.key > 0 =>
    /\ \A s \in 1..SUPP_PER_PART : part.supp[s] \in 1..tot_scnt
    /\ \A s, t \in 1..SUPP_PER_PART : s # t => part.supp[s] # part.supp[t]
=============================================================================
