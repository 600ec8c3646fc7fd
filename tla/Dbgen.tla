-------------------------------- MODULE Dbgen --------------------------------
(***************************************************************************)
(* dbgen: the processes that generate a data set, in one piece or in chunks *)
(* (-C, -S), and its refresh sets (-U), into files (driver.c, print.c,      *)
(* set_state and tbl_open of bm_utils.c).                                   *)
(*                                                                         *)
(* Processes of different steps share nothing but the directory, and write  *)
(* different files, so one process at a time is enough: a user runs the     *)
(* commands of a plan in any order, and runs again one that crashed.        *)
(* Extends Streams: a seed is the position of its stream.                   *)
(***************************************************************************)
EXTENDS Streams, Sequences, FiniteSets

CONSTANTS
  Plans,                        \* sets of commands to be run in one directory
  PartBase, SuppBase, CustBase, \* tdefs[].base: rows at scale 1
  OrdersPerCust,                \* ORDERS_PER_CUST
  NationCount, RegionCount,     \* rows of the distributions nations and regions
  Milli,                        \* -s, in thousandths
  Unit,                         \* 10000: update sets are numbered below it
  UPD_PCT,                      \* a refresh set is UPD_PCT / Unit of the orders
  UpdProcs,                     \* 100: the chunks main skips before the updates
  Wide,                         \* 30000: from this scale on two streams are 64-bit
  MaxCrashes

\* tdefs[t].base as main and process_options leave it.
BaseAtOne(t) ==
  CASE t \in {"PART", "PSUPP", "PART_PSUPP"}  -> PartBase
    [] t = "SUPP"                             -> SuppBase
    [] t = "CUST"                             -> CustBase
    [] t \in {"ORDER", "LINE", "ORDER_LINE"}  -> CustBase * OrdersPerCust
    [] t = "NATION"                           -> NationCount
    [] t = "REGION"                           -> RegionCount

scale == IF Milli < 1000 THEN 1 ELSE Milli \div 1000

base(t) ==
  IF Milli >= 1000 \/ t \in {"NATION", "REGION"} THEN BaseAtOne(t)
  ELSE LET scaled == (Milli * BaseAtOne(t)) \div 1000
       IN  IF scaled < 1 THEN 1 ELSE scaled

\* The rows of a table; the code tables are never scaled or split.
Whole(t) == t \in {"NATION", "REGION"}
Rows(t) == IF Whole(t) THEN base(t) ELSE base(t) * scale

\* main: the orders of one refresh set.
UpdateRows == (base("ORDER_LINE") \div Unit) * scale * UPD_PCT

ASSUME DbgenAssumption ==
  /\ PartBase \in Nat /\ SuppBase \in Nat /\ CustBase \in Nat
  /\ OrdersPerCust \in Nat /\ NationCount \in Nat /\ RegionCount \in Nat
  /\ Milli \in Nat \ {0} /\ Wide \in Nat /\ MaxCrashes \in Nat
  /\ UPD_PCT \in Nat \ {0} /\ Unit \in Nat \ {0} /\ UPD_PCT < Unit
  /\ UpdProcs \in Nat \ {0}
  \* 1500000 * scale, or 1500 for each thousandth: no remainder is left.
  /\ Rows("ORDER") % UpdProcs = 0

-----------------------------------------------------------------------------
(* Command lines *)

\* process_options: the tables of -T, and without it the joint and code tables.
TablesOf(letter) ==
  CASE letter = "c" -> {"CUST"}
    [] letter = "L" -> {"LINE"}
    [] letter = "l" -> {"NATION", "REGION"}
    [] letter = "n" -> {"NATION"}
    [] letter = "O" -> {"ORDER"}
    [] letter = "o" -> {"ORDER_LINE"}
    [] letter = "P" -> {"PART"}
    [] letter = "p" -> {"PART_PSUPP"}
    [] letter = "r" -> {"REGION"}
    [] letter = "S" -> {"PSUPP"}
    [] letter = "s" -> {"SUPP"}
    [] letter = "all" -> {"CUST", "SUPP", "NATION", "REGION", "PART_PSUPP", "ORDER_LINE"}
Letter == {"c", "L", "l", "n", "O", "o", "P", "p", "r", "S", "s", "all"}

Command == [T : Letter, children : Nat \ {0}, step : Nat \cup {-1}, updates : Nat,
            insert_segments : Nat, delete_segments : Nat, force : BOOLEAN]

ASSUME PlansAssumption == \A p \in Plans : p \subseteq Command

\* validate_options
Valid(o) ==
  /\ o.children # 1 => o.updates = 0 /\ o.step # -1
  /\ o.updates = 0 => o.insert_segments = 0 /\ o.delete_segments = 0
  /\ o.step # -1 => o.children # 1 \/ o.updates # 0
  /\ o.T # "all" => o.updates = 0

-----------------------------------------------------------------------------
VARIABLES
  plan,      \* the commands to run
  todo,      \* those not started, or to be run again after a crash
  ended,     \* those that came to the end of main
  files,     \* the directory: name of a file -> its rows
  crashes,
  \* the memory of the running process
  pc,        \* "shell": none is running
  opt,       \* its command line
  left,      \* tables not yet traversed by main
  tab,       \* tnum of gen_tbl
  row, count,   \* i and count of gen_tbl, child and cnt of pr_drange
  upd_num,   \* the update set, from 0
  mode,      \* upd_num of gen_tbl: the set, from 1, plus Unit for each segment
  rows_this_segment,
  pos, wide, \* Seed[]: applications of the 31-bit and of the 64-bit generator
  usage,     \* Seed[].usage
  fp,        \* the open files, one for each printing function
  segment,   \* insert_orders_segment, insert_lineitem_segment, delete_segment
  deletes    \* pr_drange's static rows_per_segment and rows_this_segment

memory == <<pc, opt, left, tab, row, count, upd_num, mode, rows_this_segment,
            pos, wide, usage, fp, segment, deletes>>
vars == <<plan, todo, ended, files, crashes, memory>>

Handle == {"PART", "PSUPP", "SUPP", "CUST", "ORDER", "LINE", "NATION", "REGION", "DELETE"}
Closed == [file |-> [of |-> "none", step |-> 0, set |-> 0, seg |-> 0], mode |-> 0]
NoCommand == [T |-> "none"]

\* What a process finds in its memory when main starts with command o.
Fresh(o, where) ==
  /\ pc' = where
  /\ opt' = o
  /\ left' = IF where = "main" /\ o.updates = 0 THEN TablesOf(o.T) ELSE {}
  /\ tab' = "NONE" /\ row' = 0 /\ count' = 0 /\ mode' = 0
  /\ rows_this_segment' = -1
  /\ wide' = NoDraws /\ usage' = NoDraws
  /\ fp' = [h \in Handle |-> Closed]
  /\ segment' = [insert_orders |-> 0, insert_lineitem |-> 0, delete |-> 0]
  /\ deletes' = [per |-> 0, this |-> 0]

Gone == /\ Fresh(NoCommand, "shell")
        /\ upd_num' = 0
        /\ pos' = NoDraws

Init ==
  /\ plan \in Plans
  /\ todo = plan
  /\ ended = {}
  /\ files = [f \in {} |-> <<>>]
  /\ crashes = 0
  /\ pc = "shell" /\ opt = NoCommand /\ left = {} /\ tab = "NONE"
  /\ row = 0 /\ count = 0 /\ upd_num = 0 /\ mode = 0 /\ rows_this_segment = -1
  /\ pos = NoDraws /\ wide = NoDraws /\ usage = NoDraws
  /\ fp = [h \in Handle |-> Closed]
  /\ segment = [insert_orders |-> 0, insert_lineitem |-> 0, delete |-> 0]
  /\ deletes = [per |-> 0, this |-> 0]

-----------------------------------------------------------------------------
(* Seeds *)

\* set_state: the applications of stream s that the rows before step stand for.
set_state(t, procs, step, s) ==
  LET rowcount == Rows(t) \div procs
      extra    == Rows(t) % procs
  IN  IF step = 0 THEN 0
      ELSE (step - 1) * (rowcount * SkipRow(t, s))
             + (IF step > procs THEN extra * gen_seed(t, 0, s) ELSE 0)

\* main, for updates: past all rows of the data set, then past earlier updates.
UpdateStart(o, s) ==
  set_state("ORDER", UpdProcs, UpdProcs + 1, s)
    + (IF o.step > 0 THEN (o.step - 1) * (UpdateRows * (sd_order(s) + sd_line(0, s)))
       ELSE 0)

-----------------------------------------------------------------------------
(* Rows *)

\* mk_sparse: three low bits of the key are kept, two bits tell its generation.
mk_sparse(i, seq) == ((i \div 8) * 4 + seq) * 8 + (i % 8)

\* MK_SPARSE, the macro that pr_drange uses.
MK_SPARSE(i, seq) == ((i \div 8) * 4 + (seq % 4)) * 8 + (i % 8)

SetsPerSeq == Unit \div UPD_PCT

KeyOldSequence(h, i, set) ==  \* mutant: a refresh set starts in the sequence of the data set
  IF h \in {"ORDER", "LINE"} THEN mk_sparse(i, set \div SetsPerSeq) ELSE i

\* The key of row i: mk_order spreads the keys of orders.
Key(h, i, set) ==
  IF h \in {"ORDER", "LINE"}
  THEN mk_sparse(i, IF set = 0 THEN 0 ELSE 1 + set \div SetsPerSeq)
  ELSE i

\* A row, with the seeds its columns were drawn from.
RowOf(h) ==
  [index |-> row,
   key   |-> Key(h, row, mode % Unit),
   at    |-> [s \in PrintedStreams(h) |-> <<pos[s], wide[s]>>]]

-----------------------------------------------------------------------------
(* Printing *)

\* The files that the loader of a table prints to, in this order.
Loader(t) ==
  CASE t = "ORDER_LINE" -> <<"ORDER", "LINE">>
    [] t = "PART_PSUPP" -> <<"PART", "PSUPP">>
    [] OTHER            -> <<t>>
Handles(t) == {Loader(t)[k] : k \in DOMAIN Loader(t)}

\* pr_order and pr_line open a new file when mode changes, the others only once.
Opens(h, m) ==
  \/ fp[h] = Closed
  \/ h \in {"ORDER", "LINE", "DELETE"} /\ fp[h].mode # m

\* print_prep counts the files of the order table as insert_lineitem_segment and
\* those of the line items as insert_orders_segment.
Counter(h) == CASE h = "ORDER"  -> "insert_lineitem"
                [] h = "LINE"   -> "insert_orders"
                [] h = "DELETE" -> "delete"

Segmented(h) ==
  /\ opt.updates > 0
  /\ IF h = "DELETE" THEN opt.delete_segments > 0 ELSE opt.insert_segments > 0

\* set_files renames the files of a chunk; print_prep those of an update.
print_prep(h, m) ==
  [of   |-> h,
   step |-> IF opt.children > 1 /\ ~Whole(h) THEN opt.step ELSE 0,
   set  |-> m % Unit,
   seg  |-> IF Segmented(h) THEN segment[Counter(h)] + 1 ELSE 0]

File(h, m) == IF Opens(h, m) THEN print_prep(h, m) ELSE fp[h].file

\* tbl_open asks before it overwrites a file, unless forced to or in an update.
Asks(h, m) ==
  /\ opt.updates = 0 /\ ~opt.force
  /\ Opens(h, m) /\ print_prep(h, m) \in DOMAIN files

\* The directory once the handles of hs have been opened, where they have to be,
\* and the row has been appended to each.
Printed(hs, m) ==
  [f \in DOMAIN files \cup {File(h, m) : h \in hs} |->
     IF f.of \in hs /\ f = File(f.of, m)
     THEN Append(IF Opens(f.of, m) THEN <<>> ELSE files[f], RowOf(f.of))
     ELSE files[f]]

Output(hs, m) ==
  /\ files' = Printed(hs, m)
  /\ fp' = [h \in Handle |-> IF h \in hs THEN [file |-> File(h, m), mode |-> m]
                             ELSE fp[h]]
  /\ segment' = [c \in DOMAIN segment |->
                   IF \E h \in hs : Opens(h, m) /\ Segmented(h) /\ Counter(h) = c
                   THEN segment[c] + 1 ELSE segment[c]]

-----------------------------------------------------------------------------
(* Generating *)

\* mk_order draws the customer and the part of a line from a 64-bit generator.
WideStream == IF scale >= Wide THEN {"O_CKEY", "L_PKEY"} ELSE {}

NextSegmentLong ==  \* mutant: one segment too many takes a residual row
  LET each     == UpdateRows \div opt.insert_segments
      residual == UpdateRows - each * opt.insert_segments
      full     == rows_this_segment + 1 >= (IF mode \div Unit <= residual
                                            THEN each + 1 ELSE each)
  IN  IF opt.insert_segments = 0 \/ mode = 0
      THEN [rows |-> rows_this_segment, mode |-> mode]
      ELSE IF full THEN [rows |-> 0, mode |-> mode + Unit]
           ELSE [rows |-> rows_this_segment + 1, mode |-> mode]

\* gen_tbl: the segment of the next row; the first ones take a residual row each.
NextSegment ==
  LET each     == UpdateRows \div opt.insert_segments
      residual == UpdateRows - each * opt.insert_segments
      full     == rows_this_segment + 1 >= (IF mode \div Unit < residual
                                            THEN each + 1 ELSE each)
  IN  IF opt.insert_segments = 0 \/ mode = 0
      THEN [rows |-> rows_this_segment, mode |-> mode]
      ELSE IF full THEN [rows |-> 0, mode |-> mode + Unit]
           ELSE [rows |-> rows_this_segment + 1, mode |-> mode]

\* One turn of gen_tbl: row_start, mk_*, the segment, and the loader.
MakeRow ==
  /\ pc = "row" /\ count > 0
  /\ \E d \in Draws(tab) :
       /\ usage' = d
       /\ pos' = [s \in Stream |-> pos[s] + (IF s \in WideStream THEN 0 ELSE d[s])]
       /\ wide' = [s \in Stream |-> wide[s] + (IF s \in WideStream THEN d[s] ELSE 0)]
  /\ mode' = NextSegment.mode
  /\ rows_this_segment' = NextSegment.rows
  /\ Output(Handles(tab), NextSegment.mode)
  /\ pc' = "stop"
  /\ UNCHANGED <<plan, todo, ended, crashes, opt, left, tab, row, count, upd_num, deletes>>

\* The user refuses to overwrite a file: the process exits, and what the row has
\* already printed to the file before stays.
Decline ==
  /\ pc = "row" /\ count > 0
  /\ \E k \in DOMAIN Loader(tab) :
       /\ Asks(Loader(tab)[k], mode)
       /\ files' = Printed({Loader(tab)[j] : j \in 1..(k - 1)}, mode)
  /\ Gone
  /\ UNCHANGED <<plan, todo, ended, crashes>>

\* row_stop and the step to the next row.
RowStop ==
  /\ pc = "stop"
  /\ pos' = [s \in Stream |-> pos[s] + row_stop(tab, usage, s)]
  /\ row' = row + 1
  /\ count' = count - 1
  /\ pc' = "row"
  /\ UNCHANGED <<plan, todo, ended, files, crashes, opt, left, tab, upd_num, mode,
                 rows_this_segment, wide, usage, fp, segment, deletes>>

-----------------------------------------------------------------------------
(* main *)

TableOrder == <<"PART", "PSUPP", "SUPP", "CUST", "ORDER", "LINE", "ORDER_LINE",
                "PART_PSUPP", "NATION", "REGION">>

\* A command that validate_options refuses exits at once.
Reject(o) ==
  /\ pc = "shell" /\ o \in todo /\ ~Valid(o)
  /\ todo' = todo \ {o}
  /\ UNCHANGED <<plan, ended, files, crashes, memory>>

\* A process starts; for updates it first moves the order's and the line's streams.
Exec(o) ==
  /\ pc = "shell" /\ o \in todo /\ Valid(o)
  /\ todo' = todo \ {o}
  /\ Fresh(o, IF o.updates > 0 THEN "update" ELSE "main")
  /\ upd_num' = IF o.updates > 0 /\ o.step > 0 THEN o.step - 1 ELSE 0
  /\ pos' = IF o.updates > 0 THEN [s \in Stream |-> UpdateStart(o, s)] ELSE NoDraws
  /\ UNCHANGED <<plan, ended, files, crashes>>

partialEven(t) ==  \* mutant: the remainder is forgotten
  [first |-> (Rows(t) \div opt.children) * (opt.step - 1) + 1,
   count |-> Rows(t) \div opt.children]

partialExclusive(t) ==  \* mutant: a step leaves its last row to the next one
  [first |-> (Rows(t) \div opt.children) * (opt.step - 1) + 1,
   count |-> (Rows(t) \div opt.children) - 1]

\* partial: the first row of this step and how many rows it makes; the last step
\* takes the remainder. A step of 0 makes none.
partial(t) ==
  LET n == IF opt.step = 0 THEN 0 ELSE Rows(t) \div opt.children
  IN  [first |-> n * (opt.step - 1) + 1,
       count |-> IF opt.step = opt.children THEN n + (Rows(t) % opt.children) ELSE n]

\* main's loop reaches the next table: partial when it is split, else all of it.
BeginTable ==
  /\ pc = "main" /\ left # {}
  /\ \E k \in DOMAIN TableOrder :
       /\ TableOrder[k] \in left
       /\ \A j \in 1..(k - 1) : TableOrder[j] \notin left
       /\ tab' = TableOrder[k]
  /\ left' = left \ {tab'}
  /\ IF opt.children > 1 /\ ~Whole(tab')
     THEN /\ row' = partial(tab').first
          /\ count' = partial(tab').count
          /\ pos' = [s \in Stream |->
                       pos[s] + set_state(tab', opt.children, opt.step, s)]
     ELSE /\ row' = 1
          /\ count' = Rows(tab')
          /\ UNCHANGED pos
  /\ mode' = 0
  /\ rows_this_segment' = -1
  /\ pc' = "row"
  /\ UNCHANGED <<plan, todo, ended, files, crashes, opt, upd_num, wide, usage, fp,
                 segment, deletes>>

\* The next update set: gen_tbl of its orders and lines.
BeginUpdate ==
  /\ pc = "update" /\ upd_num < opt.updates
  /\ segment' = [c \in DOMAIN segment |-> 0]
  /\ tab' = "ORDER_LINE"
  /\ row' = upd_num * UpdateRows + 1
  /\ count' = UpdateRows
  /\ mode' = upd_num + 1
  /\ rows_this_segment' = -1
  /\ pc' = "row"
  /\ UNCHANGED <<plan, todo, ended, files, crashes, opt, left, upd_num, pos, wide,
                 usage, fp, deletes>>

\* gen_tbl returns; an update goes on with pr_drange, which opens its file.
EndTable ==
  /\ pc = "row" /\ count = 0
  /\ IF opt.updates = 0
     THEN /\ pc' = "main"
          /\ UNCHANGED <<files, row, count, mode, fp, segment, deletes>>
     ELSE LET f == print_prep("DELETE", upd_num + 1)
          IN  /\ pc' = "drange"
              /\ row' = upd_num * UpdateRows + 1
              /\ count' = UpdateRows
              /\ mode' = upd_num + 1
              /\ files' = [g \in DOMAIN files \cup {f} |-> IF g = f THEN <<>> ELSE files[g]]
              /\ fp' = [fp EXCEPT !["DELETE"] = [file |-> f, mode |-> upd_num + 1]]
              /\ segment' = [segment EXCEPT !["delete"] =
                               IF Segmented("DELETE") THEN @ + 1 ELSE @]
              /\ deletes' = [deletes EXCEPT !.this = 0]
  /\ UNCHANGED <<plan, todo, ended, crashes, opt, left, tab, upd_num,
                 rows_this_segment, pos, wide, usage>>

\* One turn of pr_drange: a file that has its share of the rows gives way to a next.
DeleteKey ==
  /\ pc = "drange" /\ count > 0
  /\ LET per == IF deletes.per = 0 /\ opt.delete_segments > 0
                THEN count \div opt.delete_segments + 1 ELSE deletes.per
         over == opt.delete_segments > 0 /\ deletes.this + 1 > per
         f == IF over THEN print_prep("DELETE", mode) ELSE fp["DELETE"].file
         key == [index |-> row, key |-> MK_SPARSE(row, mode \div SetsPerSeq), at |-> <<>>]
     IN  /\ deletes' = [per |-> per, this |-> IF over THEN 1
                                              ELSE IF opt.delete_segments > 0
                                                   THEN deletes.this + 1 ELSE 0]
         /\ files' = [g \in DOMAIN files \cup {f} |->
                        IF g = f THEN Append(IF over THEN <<>> ELSE files[f], key)
                        ELSE files[g]]
         /\ fp' = [fp EXCEPT !["DELETE"].file = f]
         /\ segment' = [segment EXCEPT !["delete"] = IF over THEN @ + 1 ELSE @]
  /\ row' = row + 1
  /\ count' = count - 1
  /\ UNCHANGED <<plan, todo, ended, crashes, pc, opt, left, tab, upd_num, mode,
                 rows_this_segment, pos, wide, usage>>

EndUpdate ==
  /\ pc = "drange" /\ count = 0
  /\ upd_num' = upd_num + 1
  /\ pc' = "update"
  /\ UNCHANGED <<plan, todo, ended, files, crashes, opt, left, tab, row, count, mode,
                 rows_this_segment, pos, wide, usage, fp, segment, deletes>>

\* The end of main: the files are closed and the process is gone.
Return ==
  /\ \/ pc = "main" /\ left = {}
     \/ pc = "update" /\ upd_num >= opt.updates
  /\ ended' = ended \cup {opt}
  /\ Gone
  /\ UNCHANGED <<plan, todo, files, crashes>>

\* The process is killed: of a file it had open, only what was flushed is there
\* (the same number of rows of each: a bound). The user will run the command again.
Crash ==
  /\ pc # "shell" /\ crashes < MaxCrashes
  /\ crashes' = crashes + 1
  /\ \E n \in 0..Rows("ORDER") :
       files' = [f \in DOMAIN files |->
                   IF (\E h \in Handle : fp[h].file = f) /\ Len(files[f]) > n
                   THEN SubSeq(files[f], 1, n) ELSE files[f]]
  /\ todo' = todo \cup {opt}
  /\ Gone
  /\ UNCHANGED <<plan, ended>>

-----------------------------------------------------------------------------

Process ==
  \/ BeginTable \/ BeginUpdate
  \/ MakeRow \/ Decline \/ RowStop
  \/ EndTable \/ DeleteKey \/ EndUpdate
  \/ Return

Next ==
  \/ \E o \in todo : Reject(o) \/ Exec(o)
  \/ Process
  \/ Crash

Spec == Init /\ [][Next]_vars

\* A process that runs is scheduled until it returns.
FairSpec == Spec /\ WF_vars(Process)

-----------------------------------------------------------------------------
(* Properties *)

FileName == [of : Handle, step : Nat, set : Nat, seg : Nat]

\* The shape of the state: what a file holds, where a process is, and that a row
\* never uses more draws than its boundary allows.
TypeOK ==
  /\ plan \in Plans /\ todo \subseteq plan /\ ended \subseteq plan
  /\ crashes \in 0..MaxCrashes
  /\ pc \in {"shell", "main", "update", "row", "stop", "drange"}
  /\ opt \in plan \cup {NoCommand}
  /\ left \subseteq Table /\ tab \in Table \cup {"NONE"}
  /\ row \in Nat /\ count \in Nat /\ upd_num \in Nat /\ mode \in Nat
  /\ rows_this_segment \in Nat \cup {-1}
  /\ \A s \in Stream : /\ pos[s] \in Nat /\ wide[s] \in Nat
                       /\ usage[s] \in 0..Boundary(s)
  /\ \A h \in Handle : fp[h] = Closed \/ fp[h].file \in FileName
  /\ DOMAIN files \subseteq FileName

\* rnd.h promises reproducible multi-stream runs without seed files: every row is
\* drawn from the seeds it would have if one process generated all rows in order,
\* whatever the number of chunks, the tables asked for and the rows' own draws.
RowsMatchSequential ==
  \A f \in DOMAIN files : f.of # "DELETE" =>
    \A n \in DOMAIN files[f] :
      LET before == files[f][n].index - 1
                      + (IF f.set > 0 THEN Rows("ORDER") ELSE 0)
      IN  files[f][n].at =
            [s \in PrintedStreams(f.of) |-> <<before * Boundary(s), 0>>]

\* The same of an order's customer, at every scale: from scale Wide on mk_order draws
\* it from the 64-bit generator, and every process is to draw what one would.
CustomersMatchSequential ==
  \A f \in DOMAIN files : f.of = "ORDER" /\ f.set = 0 =>
    \A n \in DOMAIN files[f] :
      LET before == files[f][n].index - 1
      IN  files[f][n].at["O_CKEY"] =
            IF "O_CKEY" \in WideStream THEN <<0, before>> ELSE <<before, 0>>

\* What a command is to generate: tables (set 0) or refresh sets.
HandlesOf(o) == IF o.updates = 0 THEN UNION {Handles(t) : t \in TablesOf(o.T)}
                ELSE {"ORDER", "LINE", "DELETE"}
SetsOf(o) == IF o.updates = 0 THEN {0} ELSE (IF o.step > 0 THEN o.step ELSE 1)..o.updates
Generated == UNION {HandlesOf(o) \X SetsOf(o) : o \in plan}

\* A plan that makes one data set: a table is split in one way and into all its
\* chunks, and a refresh set is not made with two numbers of segments.
MakesOneDataSet(p) ==
  \A o, q \in {c \in p : Valid(c)} :
    /\ o.updates = 0 /\ q.updates = 0 =>
         \A h \in HandlesOf(o) \cap HandlesOf(q) : ~Whole(h) => o.children = q.children
    /\ o.updates > 0 /\ q.updates > 0 /\ SetsOf(o) \cap SetsOf(q) # {} =>
         o.insert_segments = q.insert_segments /\ o.delete_segments = q.delete_segments
    /\ o.children > 1 =>
         \A h \in {h \in HandlesOf(o) : ~Whole(h)} : \A s \in 1..o.children :
           \E c \in p : Valid(c) /\ c.children = o.children /\ c.step = s /\ h \in HandlesOf(c)

Expected(h, k) ==
  IF k = 0 THEN 1..Rows(h)
  ELSE ((k - 1) * UpdateRows + 1)..(k * UpdateRows)

FilesOf(h, k) == {f \in DOMAIN files : f.of = h /\ f.set = k}

Places(h, k) == UNION {{f} \X DOMAIN files[f] : f \in FilesOf(h, k)}

\* When all commands of a plan have ended, also after crashes and repeated runs,
\* the files of a table, or of a refresh set, together hold each row exactly once.
EveryRowOnce ==
  (pc = "shell" /\ ended = plan) =>
    \A hk \in Generated :
      LET at == Places(hk[1], hk[2])
      IN  /\ {files[fn[1]][fn[2]].index : fn \in at} = Expected(hk[1], hk[2])
          /\ Cardinality(at) = Cardinality(Expected(hk[1], hk[2]))

Keys(h, k) == {files[fn[1]][fn[2]].key : fn \in Places(h, k)}
Loaded == {Key("ORDER", i, 0) : i \in 1..Rows("ORDER")}
Sets == {f.set : f \in DOMAIN files} \ {0}

\* A refresh set inserts orders that are neither in the data set nor inserted by
\* another set, and deletes orders of the data set that no other set deletes.
\* Keys have two bits for the generation, so this ends with set Unit / UPD_PCT.
RefreshSetsApply ==
  \A k \in Sets : k < SetsPerSeq =>
    /\ Keys("ORDER", k) \cap Loaded = {}
    /\ Keys("DELETE", k) \subseteq Loaded
    /\ \A j \in Sets \ {k} : j < SetsPerSeq =>
         /\ Keys("ORDER", k) \cap Keys("ORDER", j) = {}
         /\ Keys("DELETE", k) \cap Keys("DELETE", j) = {}

\* -i splits the inserts of a set between n files of nearly equal length, and the
\* n-th file of orders goes with the n-th file of line items.
SegmentsPair ==
  (pc = "shell" /\ ended = plan) =>
    \A o \in plan : o.insert_segments \in 1..UpdateRows =>
      \A k \in {k \in Sets : k >= o.step /\ k <= o.updates} :
        LET seg(h, j) == [of |-> h, step |-> 0, set |-> k, seg |-> j]
        IN  \A j \in 1..o.insert_segments :
              /\ {seg("ORDER", j), seg("LINE", j)} \subseteq DOMAIN files
              /\ Len(files[seg("ORDER", j)]) - UpdateRows \div o.insert_segments \in {0, 1}
              /\ [n \in DOMAIN files[seg("ORDER", j)] |-> files[seg("ORDER", j)][n].index]
                   = [n \in DOMAIN files[seg("LINE", j)] |-> files[seg("LINE", j)][n].index]

\* Every process comes to an end: it returns, is declined or is killed.
EveryRunEnds == (pc # "shell") ~> (pc = "shell")
=============================================================================
