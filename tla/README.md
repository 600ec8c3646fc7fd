# A verification project for NeurBench

NeurBench measures learned database components under data and workload drift.
Much of the repository is benchmark drivers, research prototypes and vendored
code. Two programs in it have a core logic of their own, and both are modelled
here:

* **lcc**, `benchmarks/lcc`: the transaction engine with a *learned concurrency
  control* (Polyjuice on top of a Silo descendant);
* **tpch-kit**, `devtest/tpch-kit/dbgen`: `dbgen` and `qgen`, which make the
  data sets, refresh sets and queries that the drift is applied to.

This directory holds TLA+ models of them, TLC configurations that check the
models and TLAPS proofs. Paths below are under `src/`; `lcc/` is
`benchmarks/lcc/` and `dbgen/` is `devtest/tpch-kit/dbgen/`.

## 1. Inventory

| Part | State | Operations | Talks to |
| --- | --- | --- | --- |
| **Transactions** `lcc/txn*.h`, `piece*.h`, `tuple*.h`, `txn_entry*` | read and write set, dependency queue, piece markers; per tuple: version, record, lock and write-intent bits, access list, last writer | `do_get`, `do_update`, `do_put`, expose a piece, retry it, wait, `commit`, `abort` | tuples (shared), other transactions' states (shared), clock (guard), RCU, logger |
| **Epoch clock** `lcc/ticker.h` | global tick, last tick that is over, a tick, a depth and a lock per core | `guard()`, `~guard()`, `tickerloop` | everything that holds a guard |
| **RCU** `lcc/rcu.*`, `pxqueue.h` | a queue of deletions per core, the epoch it has reaped | `scoped_rcu_region`, `free_with_fn`, `do_cleanup` | clock, allocator |
| **Ring buffers** `lcc/circbuf.h` | slots, head, tail | `enq`, `deq`, `peek`, `peekall` | workers and loggers |
| **Group commit** `txn_logger` in `lcc/txn_ic3_impl.*` | rings of buffers per core, durable epoch per core and of the system, counters per epoch | `on_tid_finish`, `thread_end`, `writer`, `persister`, `wait_until_current_point_persisted` | clock and its per-core locks, ring buffers, the file |
| **Commit ids** `gen_commit_tid` | last tid of a core | make a tid from epoch, core and number | clock, tuples |
| **Tuple GC** `on_dbtuple_spill`, `on_logical_delete`, `clean_up_to_including` | queue of tuples per core, reaped epoch | spill, delete, purge | clock, RCU, index |
| **Tuple latch** `tuple.h`, `tuple_impl.h` | header bits, version | optimistic read, lock, mark deleting, replace | transactions |
| **Locks** `spinlock.h`, `mcs_spinlock.h`, `spinbarrier.h` | a word, a list of waiters, a counter | lock, unlock, wait | all |
| **Policies** `policy.*`, `PolicyGradient.h`, `conflict_graph.h`, `training/` | tables from access states to actions | look up, train | transactions |
| **Indexes, allocator, counters** | tree nodes, free lists | get, put, scan, allocate | transactions |
| **Workloads** `lcc/benchmarks/` | programs of pieces | TPC-C, TPC-E, YCSB ... | transactions |
| **Driver** `dbgen/driver.c`, `print.c`, `bm_utils.c`, `speed_seed.c` | one seed per column, files, the command line, static counters of segments | generate a table, a chunk (`-C -S`) or refresh sets (`-U -i -d`); skip rows | rows, generators, the directory; other processes only by the files |
| **Generators** `dbgen/rnd.c`, `rng64.c`, `speed_seed.c` | a seed | next number, a number of an interval, skip n numbers | rows, qgen |
| **Rows** `dbgen/build.c` | static table of dates, colours' order | make an order, part, customer, supplier | generators, distributions, text |
| **Distributions** `dbgen/bm_utils.c`, `permute.c`, `dists.dss` | weights, a permutation | read from the file, pick, permute | rows, qgen |
| **Text pool** `dbgen/text.c` | 300 MB of sentences | fill, cut a comment | rows |
| **qgen** `dbgen/qgen.c`, `varsub.c`, `permute.h` | a seed per query, static parameters, sizes, codes, state of the comment filter | draw parameters, write a template with them in the place of its tags | generators, distributions |
| **Learned indexes** `benchmarks/lidx` | driver; competitors are vendored | run, time | - |
| **Learned optimizers** `benchmarks/lqos` (Bao, Balsa, Lero, HybridQO) | models, experience files, a socket server | choose a plan, train | PostgreSQL |
| **Drift generator** `neurbench/`, `cli.py`, `dbproc.py`, `qproc.py` | data frames | sample, drift, rewrite queries | files |

What is hard about lcc. Everything runs on many threads over shared memory,
with spinlocks, unlocked reads and epochs in place of big locks. A transaction
may read the writes of another one that has not committed, wait for it, cascade
its abort, undo and retry part of itself, and time out of a circle; transaction
objects are reused while others still ask them how they ended. The clock must
never call a tick over while somebody works in it, because memory reclamation,
garbage collection and durability all act on its word. The log is written by a
thread that sees full buffers only, and what is durable is computed by another
one.

What is hard about tpch-kit. A data set may be made by many processes that
never talk to each other, and must be the one that a single process makes. Each
column has a stream of random numbers; a process that starts in the middle
moves every stream past the rows it does not make, by a computation
(`speed_seed.c`) that has to agree with what making them (`build.c`) and
rounding them up (`rnd.c`) does, though rows take a varying number of draws.
Refresh sets have to fit the data set by the arithmetic of keys alone. Nothing
is told when any of this is off by one: the data is only different, and a
benchmark's numbers with it. Much of the state is static and outlives the row,
the table or the query it was meant for.

PROJECT.json lists each hazard with its line.

What makes each part correct. lcc: a committed history is **serializable**, and
reads only what other committed transactions left; a transaction ends and
**leaves nothing behind**; a tick is **over only when nobody is in it**, and is
over some day; memory is reclaimed **once and never too early**, nor forgotten;
a ring is a **FIFO queue**; the log is a worker's history **in order**, and an
epoch is **durable when the engine says so**. tpch-kit: each row is made
**once** and **from the seeds of a sequential run**; refresh sets insert what
is **new** and delete what is **there**; skipping is **iterating**; draws
follow the **weights**; nothing leaves the **bounds** of its table or buffer; a
query depends on its **seed alone**.

## 2. Modules

| Module | Models | Composes |
| --- | --- | --- |
| `EpochClock` | abstract: what the clock promises | - |
| `Ticker` | `ticker.h`, one shared access per action | refines `EpochClock` |
| `Rcu` | regions and reclamation | runs on `EpochClock` |
| `Fifo` | abstract: what a buffer queue promises | - |
| `CircBuf` | `circbuf.h`, one shared access per action | refines `Fifo` |
| `Logger` | worker, logger, persister | runs on `EpochClock`, its rings are FIFO queues |
| `PolyjuiceTxn`, `MCPolyjuiceTxn` | accesses, pieces, commit, abort; the programs TLC runs | - |
| `Streams` | which row draws how often from which stream, and how far skipping moves it | - |
| `Dbgen`, `MCDbgen` | processes, chunks, refresh sets, files, crashes; the commands TLC runs | on `Streams` |
| `Lcg`, `Rng` | the generators; the loops that skip | `Rng` on `Lcg` |
| `Calendar`, `Rows` | dates; orders, parts, addresses, complaints | `Rows` on `Calendar` |
| `Dists` | a distribution, drawn from and permuted | - |
| `Text` | the pool of sentences | - |
| `Qgen` | processes of qgen: parameters and templates | on `Lcg`, `Calendar` |
| `Parts` | what `dists.dss` keeps to (`SentencesFit`) | `Rows`, `Rng`, `Dists`, `Text`, `Qgen` side by side |
| `MCParts` | the files, grammar, permutations and commands TLC runs | `Parts` |
| `TickerProofs`, `RcuProofs`, `CircBufProofs`, `LoggerProofs`, `PolyjuiceProofs`, `PartsProofs`, `DbgenProofs`, `DataSetProofs` | theorems about the module of that name; the last two about `Streams` and `Dbgen` | |

The stack of lcc is compositional: `Ticker` is shown to implement `EpochClock`
(checked by TLC and proved), and `Rcu` and `Logger` use the three variables of
`EpochClock` for the clock, so what they establish rests on the abstract clock
only. `CircBuf` is shown to implement `Fifo` (checked and proved), and
`Logger`'s rings are sequences. In tpch-kit, `Dbgen` takes a stream for its
position, how many times the generator was applied; `Rng` shows that the code's
skipping is that many applications, and `Streams` holds the numbers of draws
that the two need to agree on.

### Ticker, EpochClock

`current_tick`, `last_tick_inclusive` are the two atomics of `ticker`;
`ti_tick`, `ti_depth`, `ti_lock` the `tickinfo` of a core; `guard_tick[c][d]`
the `tick_` of the guard object at depth `d`. Constructor: `BumpDepth`,
`LockCore`, `ReadTick`, `StoreTick` (or `EnterNested`), destructor:
`ExitGuard`, `UnlockCore`; daemon: `BumpTick`, then per core `CheckCore`,
`LockTick`, `PushTick`, `UnlockTick`, then `PublishTick`. The refinement maps a
section to the time from the read of the global tick to the outermost
destructor.

### Rcu

`Enter`, `Exit` and their nested forms are `scoped_rcu_region`; `Publish`,
`ReadSlot`, `Unlink` are what a thread does in one (the stress test of `rcu.cc`
does the same); `FreeWithFn` queues with the tick after the core's own;
`Cleanup`, `RunDeleter`, `EndReap`, `NothingToClean` are `do_cleanup`, with the
region its deleters run in and the nested call when that region ends. A
`px_queue` is the sequence of its entries with their ticks.

### CircBuf, Fifo

`enq` is `Call`, `LoadHead`, `CheckSlot`, `Claim` (compare-and-swap), `Store`;
`deq` is `Wait`, `Take`, `MoveTail`, `Clear`. An `enq` takes effect when it
wins the head, a `deq` when it moves the tail: the refinement counts the slots
between the two (`Count`; equal indices mean empty or full, which the slot
tells) and names for each its `Occupant`, the item stored or still in the
winner's hands (`Contents`). Items are buffers that go round: what comes out
may go in again.

Two enqueuers on a ring that can be full are outside the runs and the proof:
both may find the same slot empty, the ring may go round between the check and
the compare-and-swap of the slower one, which then wins a slot that is not
empty (`INVARIANT(!buf_[icur])`, circbuf.h:52). Each ring of the engine has one
enqueuer and as many slots as buffers.

### Logger

A transaction is its epoch and a buffer the sequence of its transactions, the
head of `all_buffers_` is the only one with contents. `LogTxn` and `PushFull`
are the two branches of `on_tid_finish`, `ThreadEnd` is `thread_end`; the
logger is `StartLoop`, `Collect` (per core: marks buffers, sets
`epoch_prefixes`, counts), `Write`, then per core `Update` (loads and compares
what is said of it), `StoreClaim` (stores its own), `Return` (gives back the
buffers); the persister is `StartAdvance`, then per core `Peek`,
`LockCore`/`LockFails`, `Recheck`, `AdvanceCore` or `LoadCore`, then
`Aggregate`. The logger's and the persister's stores of a core's epoch may fall
between each other's steps. `committed` and `file` are histories. One logger
serves all cores and visits them in order, one step per core, as the persister
does. A batch holds `MaxIovs` buffers (`min(IOV_MAX, g_nworkers *
g_perthread_buffers)`): when it is full and a core has more, the logger writes
it without that core's rest and without the cores that follow, for which it
still says what it said when it last wrote with the same sense.

### PolyjuiceTxn

A tuple has `version`, `value`, `list` (its access list), `last_writer_seq`,
`lock` and `write_intent`; a transaction its sets, `dep_queue` and the markers
of its piece. The policy is not a table: `policy` names the decisions it may
take (a clean or a dirty read, to expose the piece or not, the waits), and at
every access the model takes any of them, so a run covers every table over
those decisions. The optimistic policies (clean reads, whatever is exposed) and
those that read dirty are parts of that space. `Access` is one `do_get`, `do_update` or `do_put`; `ExposeLock`, `Expose`, `UndoExposed`, `RetryPiece`
are `expose_uncommitted`; `CommitDeps`, `WaitDeps`, `LockWriteSet`,
`ValidateRead`, `ValidateVersion`, `ValidateSeq`, `ValidateIntent`,
`GenCommitTid`, `Install`, `UnlinkReads`, `Commit` are `commit` in its order,
with a step for each unlocked read of the validation of a dirty read (the
writer's state, the version, the sequence number of the last writer, the write
intent); `ReleaseWriteSet`, `UnlinkWrite`,
`UnlinkReadOfAbort`, `Abort` are the abort path; `Reuse` is the worker's next
transaction in the same object. A section that holds the locks of every tuple
it touches is one action; unlocked reads are steps of their own.

A program is any sequence of accesses. It may access a tuple again that it has
read or written, as TPC-C does with repeated items (`tpcc.cc:1448`, `:1627`) and
YCSB with repeated keys (`ycsb.cc:149`). A clean read does not see the
transaction's own writes (the traits have `read_own_writes` off): it returns the
committed record, and a dirty read returns an own write only once it is exposed.
So `Serializable` is about what transactions see of one another and not about a
transaction's view of its own writes.

### Streams, Dbgen

A stream's seed is its position. `Draws(t)` are the draws a row of table `t`
may make (`build.c`: lines of an order, five characters of an address per draw,
the return flag of a line that has arrived), `row_stop` rounds a row up to its
boundary (`rnd.c`), `sd_*` and `SkipRow` are `speed_seed.c` and the body of
`set_state`'s loop. `Dbgen` runs the commands of a plan, one process at a time,
for processes of different steps write different files: `Exec` (`main` with its
options; `Reject` is what `validate_options` refuses), `BeginTable` (`partial`,
`set_state`), then per row `MakeRow` (`gen_tbl` with the `pr_*` functions,
`print_prep`, `tbl_open`) and `RowStop`, `EndTable`; for `-U` `BeginUpdate`,
`DeleteKey` (`pr_drange`), `EndUpdate`; `Decline` is a user who does not
overwrite a file, `Return` the end of `main`, `Crash` a process that is killed,
after which the command is run again. A file is the sequence of its rows, each
with its index, its key and the positions its columns were drawn from.
`WideStream` are the columns that are drawn from the 64-bit generator at scales
from 30000 on.

### Rng, Rows, Calendar, Dists, Text

`Rng` is one turn of `NthElement` or of `AdvanceRand64` per step, with small
moduli (TLC multiplies in 32 bits). `Rows` is `mk_order` (`StartOrder`,
`Survive` for the third of the customers that never order, `DrawOrder`, `Line`,
`EndOrder`), the table of dates (`mk_ascdate`), `mk_part` with
`PART_SUPP_BRIDGE`, `mk_cust` with `a_rnd`, and the complaint that `mk_supp`
writes over a comment. `Dists` reads a file of distributions line by line and
permutes one turn at a time. The list of a distribution has as many entries as
its COUNT says and `pick_str` draws up to the weight of entry `count - 1`;
what the code does with a COUNT that is wrong is in the model as the states
`overrun` (a member is stored behind the list) and `unset` (an entry is used that
nobody has filled), or as `exit` where the file ends without END. `Text` writes
sentences phrase by phrase, with words for their lengths and `whole` for "no byte was left without a character".

### Qgen

A parameter is the tuple of numbers it is formatted from. `recipe` lists, per
query, what `varsub` draws in its order; `Draw` draws (and repeats the other
nation and the other ship mode), `StartPermute`, `permute`, `EndPermute` are
queries 16 and 22, `EndVarsub` ends the parameters and writes the log; `Line`
is one line of the template through `strip_comments` and the tags. `Stripped` is
the loop of `strip_comments` from each place of a line on; `Asked` is what a text is made
from, the query, its options and its parameters or defaults. The template
is a small one with each construct that the repository's templates use.

## 3. Runs

| Run | Instance | Shows |
| --- | --- | --- |
| `ticker` | 2 cores, depth 2, 4 ticks, fair | no tick is over while a guard of it is open; nested guards agree; refinement of `EpochClock`; every tick is over some day |
| `rcu` | 2 cores, 1 pointer, 2 objects, 3 clock ticks per RCU tick, 8 ticks | nothing is reclaimed early, twice or never |
| `circbuf` | 1 enqueuer, 4 items, 3 slots, fair | refinement of `Fifo`: in order, blocking when full; everything arrives |
| `logger` | 1 core, 2 buffers of 2 transactions, a batch of 1 buffer, lag 2, 3 transactions, 3 ticks, fair | the file is the history in order, what the logger claims is in the file, the persister does not pass a queued buffer, no epoch said to be over gets another transaction, buffers come back up to the lag |
| `logger_durable` | 1 core | *violation*: an idle core's buffer is declared durable |
| `logger_counts` | 1 core | *violation*: the counters of the final check differ |
| `logger_sync` | 1 core | *violation*: the durable epoch of the system goes back |
| `txn_mixed` | 2 transactions, 7 program pairs, every decision at every access or the optimistic ones alone, one may abort by itself, fair | serializability, reads of committed writes only, nothing left behind, sources of dirty reads, every transaction ends |
| `txn_seq` | 3 transactions that read dirty, one of them writes its tuple twice | *violation*: a committed read of a write that its writer has overwritten |
| `dbgen` | 16 plans of one to five commands over 5 parts, 2 suppliers, 9 orders of 1 or 7 lines, refresh sets of 3 orders, one crash | each row once and from the seeds of one sequential run, refresh sets fit, segments pair, every process ends |
| `dbgen_wide` | the orders in one piece and in two at a scale with wide streams | *violation*: the customers of orders depend on the chunks |
| `tpch_parts` | generators of modulus 23 and width 16, ten distribution files with right and wrong counts, the grammar of `dists.dss`, a pool of 60 bytes, 2557 days, 4800 parts and 240 suppliers, all 22 queries in three orders with two seeds | skipping is iterating, picks are weighted where the count is right, names depend on their draws, the pool has no hole, dates follow, rows stay in bounds and agree with their lines, suppliers differ, queries depend on the seed alone and have valid parameters |

Bounds of lcc. Two cores suffice for the clock: the daemon treats cores one by
one and a core knows only itself (the proofs drop the bound). RCU needs two
objects so that one is reused while the other waits, and more clock ticks than
two RCU ticks. A ring of three slots can be empty, part full, wrapped and full.
The logger meets a full batch (1024 buffers in the code) with a batch of one
and every case of the lag (128 epochs) with a lag of two; with a lag of one it would
only collect what the persister has passed and had nothing to store. Two cores share only the logger's and the
persister's loops and the batch; the safety properties were checked with two
too (buffers of one transaction, lag 1, 7.4 million states, too many for a run that
is repeated), and are proved for any number. Two transactions over two tuples
contain the shortest lock-order and write-skew conflicts; the program pairs have
reads and writes crossed, updates crossed, reads against updates, and each
order in which a tuple is accessed again after it was written. Three
transactions under every decision are beyond the minutes of a run: what is
claimed of optimistic policies is proved for any number, and what two
transactions cannot show, a third that installs while the second validates, is
`txn_seq`.
Liveness runs have no state constraint; their counters are bounded by guards.
`MaxDepth`, `MaxTick` and `MaxTxns` are those bounds.

Bounds of tpch-kit. Chunks of two and three over sizes that do not divide by
them give steps with and without a remainder; orders of one and of seven lines
and addresses of three and nine draws are the ends of what a row may draw.
Three orders per refresh set and segments of one to four cover fewer, as many
and more segments than rows; with `Unit` 9 and
`UPD_PCT` 3 keys of the data set's generation and of the next one are made, and
the sets that a generation holds are left to the proof. One crash (`MaxCrashes`) at any
point, with any number of rows flushed (the same for the files of a process),
then the command again. `MaxSkip` 20 has all patterns of four bits. The tables
of dates and of parts are complete, at scale 0.024, the smallest (in steps of a
thousandth) from which four suppliers always differ; the days of an order are
those next to the day that decides on its state, and the ends. `MaxNames` 2
calls of `agg_str` and `MaxRuns` 2 processes of qgen are the fewest in which
one can disturb the next.

`CHECK_DEADLOCK FALSE` stands in the runs of the clock and RCU, where the clock
stops at `MaxTick`, and of dbgen and its parts, which end. The rings, the
logger and the transactions are checked for deadlock.

Fairness. `Ticker`: the daemon and a thread inside a constructor or destructor
go on (weak), a guarded section ends, and, since the spinlock is not fair, the
daemon's acquisition is strongly fair: it wins some time if the lock is free
again and again. `CircBuf`: every thread inside a call goes on. `Logger`: the
two daemons and the clock go on, a worker that commits goes on, and a section
ends (strong, because it may wait for a buffer); nothing is assumed of the
persister's try-lock, and nothing of a worker that is idle. `PolyjuiceTxn`:
strong fairness of a transaction's steps, because an aborting writer needs a
spinlock that its doomed reader takes again and again to retry its piece; with
an unfair lock that race need not end. `Dbgen`: the process that runs goes on
(weak), which is a sequential program's due; nobody has to start one.

## 4. Findings

Each is a run that must find a violation; PROJECT.json quotes the line.

* `txn_seq` - the validation of a dirty read of a tuple outside the write set
  reads the version, the sequence number of the last writer and the write intent
  one after the other, without a lock, and does not read the version again as it
  does for a clean read. A transaction that installs after the first of them
  leaves its own sequence number for the second, and a read of a write that its
  writer has overwritten since is taken for valid. The interface is documented as
  serializable; policies that read clean are (`OptimisticIsSerializable`),
  whatever they expose.
* `logger_durable` - the persister takes an idle core with an empty queue for
  one that has nothing to persist, but the head buffer may hold commits.
* `logger_sync` - the logger loads a core's epoch, compares it and stores its
  own; if the persister stores in between, which takes a last buffer that was
  pushed outside a guarded section, the older value stays, and the durable epoch
  of the system goes back in the next round, against the `INVARIANT` of the
  persister.
* `logger_counts` - the last buffers, pushed outside a guarded section, may be
  counted for an epoch that is past; the assertion at the end of a run fails.
* `dbgen_wide` - from scale 30000 on, `mk_order` draws customers and parts from
  the 64-bit generator, but skipping and rounding up move the 31-bit one (the
  64-bit branches of `sd_order` and `sd_line` are commented out), so a chunk
  starts from a seed that no sequential run has. `rnd.h` promises reproducible
  multi-stream runs.

Met on the way, without a run of their own:

* When a core falls back by the maximal lag, because the persister finds it in
  a section each time and it has nothing to log, its next buffer is past the
  lag: the logger waits for the persister to move on (`txn_ic3_impl.cc:272`),
  and the persister does not move a core that has a buffer queued.
  `BuffersMoveUntilLag` shows that this is the only thing that stops a buffer.
* A core whose batch room is used up by the cores before it is left out until a
  batch has room again; each batch starts at the first core.
* The comment at `print.c:395`, that `pr_drange` will fail for keys of more than
  32 bits, is stale: keys are of type `DSS_HUGE` and printed as such.
* `pr_drange` starts a file after `count / n + 1` keys, so `-d n` may make
  fewer than `n` files.
* At scales under 0.0232 two suppliers of a part may be the same, and PARTSUPP
  has duplicate keys.
* `read_dist` compares the number of members with the COUNT only at the end of
  the file, which a distribution that ends with END never reaches. A COUNT that
  is too small or missing has members stored behind the list, one that is too
  large has `pick_str` and `agg_str` use an entry nobody has filled, one given
  twice loses the members before it. A name that is not there passes.
* `strip_comments` drops what is on the line before a comment in braces that
  ends there, and does not see `--` after a single dash on the line; `:n`
  prints what is before it on its line twice and drops what is behind.
* Query 10 draws its month from 1 to 24, February 1993 to January 1995, which
  is what BUGS calls problem 1.
* `qgen -r 0` never ends: all seeds are 0 and query 7 looks for a second nation
  for ever.
* `a_rnd` asks `UnifInt` for 0 to `MAX_LONG`, whose length overflows 32 bits
  (rnd.c:214); only the low bits are used, the addresses stay legal.
* A query named twice in one call goes on with the seeds, sizes and codes that
  the first one left; `ParametersFromSeed` is about processes that name each
  query once (`EachOnce`).
* The name of a chunk has its step and not the number of steps, and nothing
  tells that a step of another `-C` is in the directory: it overwrites, or is
  taken for, a chunk of the first.
* Steps beyond `-C` and more than 9999 refresh sets are accepted, and outside
  of what is proved: `set_state` adds a remainder per stream for the first, the
  second take up set 0 again.

## 5. Proofs

`TickerProofs` proves, for any number of cores and any bounds, the type
invariant, the four state invariants of the run, and that `Ticker` implements
`EpochClock`. The inductive invariant `IInv` is the type invariant with
`LockInv` (a core's lock is held by whoever its program counter says),
`ScanInv` (the cores the daemon has passed have the current tick, the others
the last one or the current one) and `GuardInv` (an open guard's ticks are
those of its core). `ScanInv` is what makes `PublishTick` safe: when the index
reaches the end every core has moved, and a core moves only when its lock was
free.

`RcuProofs` proves the type invariant, `NoUseAfterFree`, `ReclaimedOnce` and
`NothingIsOverdue` for any number of cores, pointers and objects and any
`EpochTimeMultiplier`. `IInv` adds to them `ClockInv` (the clock is at most one
tick ahead of what is over), `PcInv` (who may hold or hand over what) and
`GracePeriod`: an entry another region still holds carries an RCU tick no
smaller than that of the region's guard. Reclaiming takes entries with a tick
below `to_rcu_ticks(done + 1)`, and an open guard has a tick above `done`; with
the monotonicity of division no entry that is held can be taken. The `+ 1` of
`free_with_fn` is exactly what makes `GracePeriod` inductive, because the
reader may be a tick ahead. For `NothingIsOverdue` a second one, `DueInv`, says
that a queue is in the order of its ticks (`OrderInv`), so that taking the
front takes all that is due, and that what is remembered as reaped lies below
the clock (`ReapedInv`), so that nothing is queued for it later.

`CircBufProofs` proves `ImplementsFifo` for one enqueuer, any capacity (1
included) and any items. The lemmas `RingTakesItem` and `RingGivesItem` are
about slots only: `Ring(F, h, t, n)` says that the `n` slots from `t` up to `h`
are the occupied ones, and filling the one at `h`, or emptying the one at `t`,
appends to the line of items or takes its head. `CInv` adds where the threads
are: with no rival the head is still where `enq` read it and the slot still
empty (`EnqInv`), and the slot that `deq` is to clear still has the item it
took (`DeqInv`). Then each step keeps the ring, puts an item or takes one
(`StepOfQueue`).

`LoggerProofs` proves `LogIsInCommitOrder`, `LoggerClaimsAreDurable`,
`QueuedIsNotClaimed` and `CommitsAreLater` for any number of cores, buffers of
any size, any lag, batches of any size and any number of transactions. `LogInv` has a part for
each thing the threads rely on without a lock: a worker's section is open while
it commits and it owns the buffer it fills (`WorkerInv`); the logger holds on to
what it has collected (`ScheduledInv`); epochs never fall along a core's
history and its queue, up to the buffer being filled (`CommitsGrow`,
`QueuesGrow`); what the logger has prepared to say of a core, for either sense,
is behind whatever of it is still to be written (`PrefixesAreBehind`), and this
time one behind the last buffer collected (`ClaimInv`); the core the persister
has locked is idle with nothing queued (`LockedIsIdle`); and whatever is said of a
core or of the system, or is about to be, is behind the clock and behind the
transaction that a core is logging (`SyncInv`). It does not say that what is
stored grows: it does not (`logger_sync`), and `CommitsAreLater` holds without it,
because both values that the two threads store are over.
`QueuesGrow` is why a claim of one epoch less than the last buffer is safe, and
`PrefixesAreBehind` speaks of both senses because a core with nothing collected
keeps an old prefix, which `Update` compares again. The lemmas on
`FlattenSeq` (`FlattenAppend`, `FlattenParts`) say that pushing a buffer appends
its transactions and that writing the front of a queue splits them.

`PolyjuiceProofs` proves `NothingLeftBehind`, `DirtyReadsHaveSource`,
`CommittedReadsAreCommitted` and `OptimisticIsSerializable` for any number of
transactions, any tuples, programs and policies, and `Serializable` for two
transactions under any policy (`TwoSerialize`); programs that access a tuple again
after writing it are among them. `TxnInv` follows the code's
bookkeeping: every entry of an access list is of an access its transaction
counts (`ListInv`) and gone when it ends (`UnlinkInv`), through the undo of a
piece; who holds a lock and with which intent (`LockInv`); a dirty read refers to
an exposed write that stays in the list until its writer installs or aborts
(`SourceInv`); what is installed is the last write of its transaction
(`ValueInv`); what is read clean is final, and the writer of a dirty read that is
validated has committed (`ReadInv`). `CommitInv` says how far the tests of a dirty
read are, since each is a step of its own. That a validated dirty read is of its
writer's last write is said for two transactions only: a third may install
between the tests (`txn_seq`).

`Serializable` asks for no cycle among the committed transactions. The proof of
it names an order: `OrderInv` says that there is a numbering of the transactions
that have had their whole write set locked in which writers of a tuple are in
the order of its versions, a reader comes after the writer it read and, once
validated, before the next writer. A transaction takes the next number at its
last lock; a reader that validates has found its version unchanged and no other
transaction's intent, so whoever writes next has a later number. A cycle would
have a transaction number below itself.

Policies that read dirty are serializable for two transactions and no longer for
three, and the proof says what the number is needed for. `AwaitInv` follows a
dirty read from the access to the validation: until the piece is exposed the
reader appends no write to the list, so that of two transactions the latest
entry stays the source's, even if the reader has an older write of the tuple in
the list; the exposure or `CommitDeps` makes the source a dependency, which a
retried piece keeps (`DepsInv`) and phase 1 waits for; when validation starts the
source is resolved, which `StateInv` reads as: it is aborting, or it has its
number already. The number is used twice more. Between the tests nobody else
can install, so that the version and the sequence number are of one write
(`SeqIsFinal`, `TestedKept`); and a validated dirty read has no later version to
miss, for the only other writer is the one it read from (`DirtyIsLatest`). With
a third writer all of it fails: its entry may be the latest one, so that the reader
does not wait for its source, and it may install between any two of the tests.

`DbgenProofs` proves `SkippedAsMade`: for each table that can be split, each
stream its rows are printed from and whatever a row drew, `SkipRow` is the
draws and `row_stop` together. It builds `RowsMatchSequential` on that, for all sizes, chunks, refresh sets, segments and crashes. The invariant's
core is `PosInv`: at row `r` every stream that the table is printed from stands
at `(r - 1) * Boundary(s)`, plus the whole data set in an update. The rest says
why it applies: which table the process is in and that those still left have
untouched streams (`CommandInv`, `TableInv`), which rows are left of a refresh
set (`UpdateInv`, `CountInv`), that nothing was drawn from the wide generator
(`WideInv`), and which file a handle writes to (`FpInv`), so that the rows in
the files, where crashes only cut them short, are as they were made
(`FilesInv`). It assumes `Ordinary`: a scale under `Wide` (`dbgen_wide` shows
what happens above), fewer than `Unit` refresh sets, no step beyond the number
of chunks. `TypesHold` proves `TypeOK` without that: for every command line no
row draws beyond its boundary, so that rounding up only moves a seed forward,
and every file that is open has a name.

`DataSetProofs` is about what the files hold in the end. `RangeInv` and
`KeysInv` (a row's key is that of its index and its set, and the index is in
the set's range) give `RefreshSetsApply` from two facts about numbers: ranges of
different sets are apart, and sparse keys differ when the index or the
generation does.

`EveryRowOnce` needs to know how full every file is (`OnceInv`). `First` and
`Size` say which rows a command puts in a file, from the chunk or the segment it
is for. Every file holds rows of some command of the plan, from its first one on
(`ContentInv`); those of a command that has ended are complete, unless a command
that has yet to end makes them again (`EndedInv`: it is what a killed process
that is run again may have cut short); so are those that the running process has
left behind (`PastInv`), with the handles of tables it has not reached closed
(`OpenInv`). `RowInv` and `DeleteInv` follow the row loop and `pr_drange`: which
file a handle has open, how many rows of the table or set it has made, and that
the segments before are complete, where the two counters of `print_prep`, the
set number and `rows_this_segment` have to agree. When all commands have ended,
the files of a table cut its rows at `ChunkStart`, those of a set at `SegStart`
(`Tiling`: consecutive parts, each in one file, hold each row once), and
`SegmentsPair` follows because the cuts of orders and line items are the same.
Two hypotheses are about the commands: `Ordinary`, and `OneDataSet`, that a plan
splits a table in one way and runs all its chunks, and does not make a refresh
set with two numbers of segments. Nothing in dbgen checks that (the name of a
chunk has its step, not the number of steps), and without it rows are missing or
there twice; `MCDbgen` assumes it of its plans and TLC computes it
(`AllPlansMakeOneDataSet`).

`PartsProofs` has the theorems about `Rows`, `Rng`, `Dists`, `Text` and `Qgen`,
for what `Parts` composes. Of `Rows` it proves `FourSuppliers` (with
`EnoughSuppliers`, an inequality that
holds from scale 0.0232 on: the offsets of two suppliers then differ by less
than the number of suppliers, and by more than 0), `NothingOutOfBounds` for all
draws of the intervals of `dss.h`, and `OrderIsConsistent` for all customers,
lines and draws. The invariants follow an order through its loops (`DatesInv`,
the line states counted by `ocnt`). That a julian date is not after CURRENTDATE
just when its day is not (`CurrentIsDay`) is a lemma about `julian`, like those that
`DaysFollow` takes: each day of the table has one year and one month (`DayHasYear`,
`DayHasMonth`), `julian`'s loop stops in that year (`JulianIs`), `mk_time`'s in that month
(`MonthOfDay`), and the day after is in the same month, the next one, or the first of the
next year (`DatesFollow`). The loops over the years are functions on `Years`, whose values are
those of a formula (`OffsetsAre`, `DaysAre`), for the eight years one by one.

`AdvanceIsIteration`, for every modulus that is prime, every width and every
number of skips. `Iterated(g, s, m)` is what `m` applications of `g` make of
`s`: the end of a sequence of `m` moves, which exists and is unique
(`IteratedNext`, `IteratedJoin`). For `NthElement` the invariant says that `left`
applications of "times `mult`" lead from `acc` to the answer; a turn of the loop
takes two of them for one of "times `mult` squared", and one more if the number
is odd. For `AdvanceRand64` it says that the bits read so far, as a number, are
how often the generator stands behind the pair of `mult` and `acc` (`Stand`).
The prime is needed only so that a seed never becomes 0 (`PrimeTimes`: a prime
divides no product of two smaller numbers).

`NamesDependOnDraws`, for files and names of any length. The permutation after
`d` turns is that of the draws so far, applied to the identity (`NamesInv`), and
orders and draws correspond one to one (`OrderTellsDraws`): what an earlier row has left cannot show. The
identity is set again by each call, and the mutant that does not is refuted.

`PicksAreWeighted`, for every file and every distribution in it that is ended and
whose COUNT comes before its members and is their number: the code checks
none of this, so it is a precondition of the property (`CountIsRight`) and not
of the model. `Loaded` says at each line of such a block that there is room in
the list for what is still to come and that the weights are the sums of those
of the members so far, in their order (`Weighs`, `Rank`), from which the draws
that pick a member are an interval as long as its weight (`PickedBetween`).

`PoolIsFilled`, for every grammar whose sentences fit (`SentencesFit`): with
words, phrases and terminators of at most given lengths, the longest form is
shorter than `txt_sentence`'s buffer. `GrammarAssumption` of `MCParts` has TLC
compute that for the grammar of `dists.dss` with its longest words. `Room` is
what the rest of a form may still take; `SentenceInv` says that what is written
and `Room` stay within the buffer, that the length returned is that of what was
written, but for the one byte that a terminator gives back, and that no byte has
been left out. The pool cuts its last sentence to what is left of it.

`ParametersAreValid`, for all commands, any prime modulus and any orders of the
queries. `Permuting` says that `sizes` and `ccode` are permutations at every
turn (`SwapKeeps`), also when a query finds them as the one before has left
them; `Past` that each instruction that is done has filled its parameters, with what
the query needs of them: the other nation or ship mode is the draw that was not
repeated, the day is in March, the region is one. At its end a recipe has filled
every parameter that the query's template asks for (`RecipesComplete`, read off
the 22 recipes), so that none is left over from the query before. That the days
of query 3 are those of March 1995 follows from `DateIs` (`MarchDays`).

`ParametersFromSeed`, for all commands that name no query twice (`EachOnce`: the
second time a query would go on with the seed that the first has left; an ASSUME
of `MCParts` has TLC compute it for the commands of the run). `Now` is
what a query goes on from while it is printed: its seed, how far it is, those of
the parameters it has written itself (`Shown`), the permutations if it is query
16 or 22, and what it has logged and written. `After` says what comes after such a view,
as a function of it, the query and the options alone, and each action is shown
to move the view so (`DrawGoesOn`, `LineGoesOn`, ...): the other nation is compared with
one that this query has drawn, the log ends at a parameter that `EndVarsub` has
cleared, and a line's comment filter does not stem from another
query, since every template closes its comments (`CommentInv`). A course is a sequence
of views, each `After` the one before, from a fresh query with the seed that
`Seeded` gives it. The invariant `TextInv` says that the query in hand is on a course
(`CourseInv`), that the queries left have the seeds and permutations of a fresh
process (`SeedInv`), and that each printed text is the end of a course
(`TextsInv`). Two courses from one view are equal as far as both go
(`OneCourse`) and a course stays at its end, so that they end alike (`OneEnd`)
and the texts are the same. What a line prints is never computed: it is enough that it
is a function of the line, the comment filter and `Asked`.

Assumptions are the named ASSUMEs of the modules (non-empty bounds, distinct
values, a prime modulus) and those named above. What would be
induction on a number or on a
length is done with the least element of the set of exceptions (`LeastOf`,
`LeastNumber`, from the well-foundedness of `<`). Only model-checked is all
liveness (fairness and ENABLED are out of the prover's reach). `Serializable` is
proved for two transactions and not for more, for there it does not hold
(`txn_seq`).

## 6. What is not modelled

lcc: inserts, deletes, scans and tuple replacement (keys exist and stay); a
second transaction of a thread object (`Reuse` has others ask an object that has
gone on, and the object stops there); a transaction's view of its own writes;
several enqueuers on one ring; the
bit fields of commit ids, of which a thread that commits 2^24 times within an
epoch runs out (`txn_ic3_impl.h:985`); tuple garbage collection; the tuple
latch (a stable read is one step); the MCS lock and the barrier; compression of
the log and the resets between load and run; memory orders weaker than
sequential consistency. Policies are not tables, for every decision is taken at
every access.

tpch-kit: `-O s` (prints seeds and stops), `-z`, `-q`, `-v`; steps beyond `-C`;
prices, names, phone numbers and the wording of text, which no property tells
apart; of qgen the tags that print constants of a database (`:b`, `:c`, `:e`,
`:o`, `:q`, `:s`) and the text of the 22 templates; `bcd2.c` (called by
nothing), `load_stub.c` (a template).

Out of reach or of no use to a model checker: training of policies, statistics
of drift, neural networks, vendored indexes and trees, I/O drivers.

## 7. Plan

Done: clock, RCU, rings, group commit, transactions over existing tuples; dbgen
with chunks, refresh sets and files, its generators, rows, distributions and
text, qgen; the proofs above.

What could follow, in this order:

1. `InsertTxn`: inserts, deletes, node versions, replacement of tuples, with
   `TupleLatch` (optimistic reads against locking, deleting and replacement)
   below it.
2. `SnapshotGC`: spilled and deleted tuples against readers of old epochs.
3. `CommitTid`: tids unique and growing along dependencies, width of the
   number.
4. `McsLock`, `SpinBarrier`: mutual exclusion, hand-over, reuse.

