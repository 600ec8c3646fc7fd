------------------------------ MODULE Calendar ------------------------------
(***************************************************************************)
(* The dates of dbgen: the days from STARTDATE on, numbered from 0, as      *)
(* julian dates (two digits of the year, three of the day) and as the       *)
(* strings of the table that mk_ascdate builds (build.c, bm_utils.c).       *)
(***************************************************************************)
EXTENDS Integers, Sequences

STARTDATE == 92001
CURRENTDATE == 95168
TOTDATE == 2557

LEAPLate(y) == IF y % 4 = 1 THEN 1 ELSE 0  \* mutant: a year late
LEAP(y) == IF y % 4 = 0 /\ y % 100 # 0 THEN 1 ELSE 0

\* The years of the table and the one after: those that the two loops below may count.
Years == (STARTDATE \div 1000)..99

\* julian: the date that many days after STARTDATE. A turn of its loop takes a year off the
\* offset; it stops in the first year that has the day that is left.
julian(date) ==
  LET offset[y \in Years] == IF y = STARTDATE \div 1000 THEN date - STARTDATE
                             ELSE offset[y - 1] - (365 + LEAP(y - 1))
      yr == CHOOSE y \in Years : /\ offset[y] < 365 + LEAP(y)
                                 /\ \A x \in Years : x < y => offset[x] >= 365 + LEAP(x)
  IN  yr * 1000 + 1 + offset[yr]

\* unjulian counts the years, then the days of the last one.
unjulian(date) ==
  LET days[y \in Years] == IF y = STARTDATE \div 1000 THEN 0
                           ELSE days[y - 1] + 365 + LEAP(y - 1)
  IN  days[date \div 1000] + (date % 1000) - 1

\* months[m].dcnt: the days of a year that has no leap day up to the end of month m.
Days == <<31, 59, 90, 120, 151, 181, 212, 243, 273, 304, 334, 365>>
dcnt(m) == IF m = 0 THEN 0 ELSE Days[m]

LEAP_ADJ(y, m) == IF LEAP(y) = 1 /\ m >= 2 THEN 1 ELSE 0

\* mk_time's loop stops at the first month whose end is not before day d.
MonthOf(y, d) ==
  CHOOSE m \in 1..12 : /\ d <= dcnt(m) + LEAP_ADJ(y, m)
                       /\ \A k \in 1..(m - 1) : d > dcnt(k) + LEAP_ADJ(y, k)

\* mk_time: what PR_DATE prints of day index, counted from 1.
mk_time(index) ==
  LET j == julian(index + STARTDATE - 1)
      y == j \div 1000
      d == j % 1000
      m == MonthOf(y, d)
  IN  [year |-> y, month |-> m,
       day |-> d - dcnt(m - 1) - (IF LEAP(y) = 1 /\ m > 2 THEN 1 ELSE 0)]

-----------------------------------------------------------------------------
(* The calendar itself *)

LastDay(y, m) == CASE m \in {4, 6, 9, 11} -> 30
                   [] m = 2 -> IF y % 4 = 0 THEN 29 ELSE 28
                   [] OTHER -> 31

DayAfter(d) ==
  IF d.day < LastDay(d.year, d.month) THEN [d EXCEPT !.day = @ + 1]
  ELSE IF d.month < 12 THEN [d EXCEPT !.month = @ + 1, !.day = 1]
  ELSE [year |-> d.year + 1, month |-> 1, day |-> 1]
=============================================================================
