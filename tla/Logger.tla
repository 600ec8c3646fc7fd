-------------------------------- MODULE Logger --------------------------------
(***************************************************************************)
(* Group commit (lcc/txn_ic3_impl.h, txn_ic3_impl.cc: txn_logger).  A      *)
(* worker appends what it commits to the buffer at the head of its         *)
(* all_buffers_ and pushes the buffer to persist_buffers_ when a           *)
(* transaction does not fit: the buffer is full or of another epoch.  A    *)
(* logger writes pushed buffers to its file and says, per core, which      *)
(* epochs are durable; the persister takes the minimum over the cores as   *)
(* system_sync_epoch_, and moves cores ahead that do nothing.              *)
(*                                                                         *)
(* A transaction is its epoch, a buffer the sequence of its transactions.  *)
(* Only the head of all_buffers_ has contents (the logger resets what it   *)
(* returns), so head and a count stand for the ring.  The ring is a FIFO   *)
(* queue (CircBuf), the clock is EpochClock and an open section holds the  *)
(* core's spinlock (Ticker).  One logger serves the cores here; with more, *)
(* each one has cores of its own.  Compression is off, as by default.      *)
(***************************************************************************)
EXTENDS EpochClock, Sequences, FiniteSets, SequencesExt

CONSTANTS
  NONE,
  BufferSize,  \* transactions that fit in a buffer (g_buffer_size)
  Buffers,     \* g_perthread_buffers
  MaxLag,      \* g_max_lag_epochs
  MaxIovs,     \* buffers in a batch: min(IOV_MAX, g_nworkers * g_perthread_buffers)
  MaxTxns,     \* bound on the transactions of all cores
  MaxTick      \* bound on the clock

ASSUME LoggerAssumption ==
  /\ BufferSize \in Nat \ {0} /\ Buffers \in Nat \ {0} /\ MaxLag \in Nat \ {0}
  /\ MaxIovs \in Nat \ {0}
  /\ MaxTxns \in Nat /\ MaxTick \in Nat
  /\ Cores \subseteq Nat /\ NONE \notin Cores  \* loops visit them in their order

VARIABLES
  pc, commit_epoch, \* a worker, and the epoch of its commit tid
  head, nbufs,      \* all_buffers_: contents of its first buffer, its length
  queue,            \* persist_buffers_
  file,             \* what is durable of each core, in the order it was written
  epochs,           \* per_thread_sync_epochs_ of the core's logger
  system_sync_epoch,
  w_pc, w_todo, cur_sync_epoch_ex, \* the logger: cores left in its loop
  nbufswritten,     \* buffers in the batch
  scheduled,        \* how many buffers of the core's queue are io_scheduled_
  sense,
  epoch_prefixes,   \* [sense]: what the logger will say of a core after the write
  p_pc, p_todo, p_core, best_tick_inc, min_so_far, \* the persister
  ntxns,            \* persist_stats::d_[e % MaxLag].ntxns_
  ntxns_pushed, ntxns_persisted,
  finish,           \* the epoch the benchmark waits for at its end, 0 before
  committed         \* history: what each core has logged

worker_vars == <<pc, commit_epoch, head, ntxns_pushed, committed>>
ring_vars == <<nbufs, queue>>
logger_vars == <<file, epochs, w_pc, w_todo, cur_sync_epoch_ex, nbufswritten, scheduled,
                sense, epoch_prefixes>>
persister_vars == <<p_pc, p_todo, p_core, best_tick_inc, min_so_far,
                    system_sync_epoch, ntxns_persisted>>
vars == <<clock_vars, worker_vars, ring_vars, logger_vars, persister_vars, ntxns, finish>>

Zero == [c \in Cores |-> 0]
Empty == [c \in Cores |-> <<>>]

Init ==
  /\ ClockInit
  /\ pc = [c \in Cores |-> "idle"] /\ commit_epoch = Zero
  /\ head = Empty /\ nbufs = [c \in Cores |-> Buffers] /\ queue = Empty
  /\ file = Empty /\ epochs = Zero /\ system_sync_epoch = 0
  /\ w_pc = "start" /\ w_todo = {} /\ cur_sync_epoch_ex = 0 /\ nbufswritten = 0
  /\ scheduled = Zero /\ sense = 0 /\ epoch_prefixes = [s \in 0 .. 1 |-> Zero]
  /\ p_pc = "sleep" /\ p_todo = {} /\ p_core = NONE
  /\ best_tick_inc = 0 /\ min_so_far = 0
  /\ ntxns = [c \in Cores |-> [i \in 0 .. MaxLag - 1 |-> 0]]
  /\ ntxns_pushed = Zero /\ ntxns_persisted = Zero
  /\ finish = 0 /\ committed = Empty

MinOfSet(S) == CHOOSE x \in S : \A y \in S : x <= y

EpochOf(b) == b[Len(b)]  \* EpochId of the buffer's last_tid_

-----------------------------------------------------------------------------
(* A worker *)

Begin(c) ==
  /\ pc[c] = "idle"
  /\ p_core # c \/ p_pc \notin {"recheck", "advance"}  \* the core's spinlock
  /\ Open(c)
  /\ pc' = [pc EXCEPT ![c] = "txn"]
  /\ UNCHANGED <<commit_epoch, head, ntxns_pushed, committed, ring_vars, logger_vars,
                 persister_vars, ntxns, finish>>

\* gen_commit_tid takes the global tick, which may be one ahead of the guard's.
Commit(c) ==
  /\ pc[c] = "txn"
  /\ FoldFunction(LAMBDA l, n : Len(l) + n, 0, committed) < MaxTxns
  /\ commit_epoch' = [commit_epoch EXCEPT ![c] = now]
  /\ pc' = [pc EXCEPT ![c] = "log"]
  /\ UNCHANGED <<clock_vars, head, ntxns_pushed, committed, ring_vars, logger_vars,
                 persister_vars, ntxns, finish>>

CanHold(c) ==          \* space_remaining and can_hold_tid
  /\ Len(head[c]) < BufferSize
  /\ head[c] # <<>> => EpochOf(head[c]) = commit_epoch[c]

LogTxn(c) ==
  /\ pc[c] = "log"
  /\ nbufs[c] > 0      \* wait_for_head
  /\ CanHold(c)
  /\ head' = [head EXCEPT ![c] = Append(@, commit_epoch[c])]
  /\ committed' = [committed EXCEPT ![c] = Append(@, commit_epoch[c])]
  /\ pc' = [pc EXCEPT ![c] = "logged"]
  /\ UNCHANGED <<clock_vars, commit_epoch, ntxns_pushed, ring_vars, logger_vars,
                 persister_vars, ntxns, finish>>

Push(c) ==
  /\ queue' = [queue EXCEPT ![c] = Append(@, head[c])]
  /\ nbufs' = [nbufs EXCEPT ![c] = @ - 1]
  /\ ntxns_pushed' = [ntxns_pushed EXCEPT ![c] = @ + Len(head[c])]
  /\ head' = [head EXCEPT ![c] = <<>>]

PushFull(c) ==         \* and retry
  /\ pc[c] = "log"
  /\ nbufs[c] > 0
  /\ ~ CanHold(c)
  /\ Push(c)
  /\ UNCHANGED <<clock_vars, pc, commit_epoch, committed, logger_vars, persister_vars,
                 ntxns, finish>>

End(c) ==              \* also of a transaction that has nothing to log
  /\ pc[c] \in {"txn", "logged"}
  /\ Close(c)
  /\ pc' = [pc EXCEPT ![c] = "idle"]
  /\ UNCHANGED <<commit_epoch, head, ntxns_pushed, committed, ring_vars, logger_vars,
                 persister_vars, ntxns, finish>>

ThreadEnd(c) ==        \* outside of any guarded section
  /\ pc[c] = "idle"
  /\ pc' = [pc EXCEPT ![c] = "ended"]
  /\ IF head[c] # <<>> THEN Push(c) ELSE UNCHANGED <<head, ntxns_pushed, ring_vars>>
  /\ UNCHANGED <<clock_vars, commit_epoch, committed, logger_vars, persister_vars,
                 ntxns, finish>>

\* bench_runner::run waits until the current point is persisted.
Finish ==
  /\ \A c \in Cores : pc[c] = "ended"
  /\ finish = 0
  /\ finish' = now
  /\ UNCHANGED <<clock_vars, worker_vars, ring_vars, logger_vars, persister_vars, ntxns>>

-----------------------------------------------------------------------------
(* The logger's thread: txn_logger::writer *)

StartLoop ==
  /\ w_pc = "start"
  /\ cur_sync_epoch_ex' = system_sync_epoch + 1
  /\ nbufswritten' = 0
  /\ w_todo' = Cores
  /\ w_pc' = "collect"
  /\ UNCHANGED <<clock_vars, worker_vars, ring_vars, file, epochs, scheduled, sense,
                 epoch_prefixes, persister_vars, ntxns, finish>>

InLagSynced(q, n) ==   \* mutant: takes synced epochs only
  /\ nbufswritten + n <= MaxIovs
  /\ \A i \in 1 .. n : EpochOf(q[i]) < cur_sync_epoch_ex
  /\ n < Len(q) /\ nbufswritten + n < MaxIovs => EpochOf(q[n + 1]) >= cur_sync_epoch_ex

\* The buffers at the front of a queue for which the batch has room and that the
\* persister's counters can take.
InLag(q, n) ==
  /\ nbufswritten + n <= MaxIovs
  /\ \A i \in 1 .. n : EpochOf(q[i]) < cur_sync_epoch_ex + MaxLag
  /\ n < Len(q) /\ nbufswritten + n < MaxIovs => EpochOf(q[n + 1]) >= cur_sync_epoch_ex + MaxLag

PrefixInclusive(b) == EpochOf(b)    \* mutant: takes its epoch for complete
PrefixOf(b) == EpochOf(b) - 1       \* more of the buffer's epoch may follow

\* A batch that is full with buffers left is written without the cores that follow.
Collect(c) ==
  /\ w_pc = "collect"
  /\ w_todo # {} /\ c = MinOfSet(w_todo)
  /\ \E n \in 0 .. Len(queue[c]) :
       /\ InLag(queue[c], n)
       /\ nbufswritten' = nbufswritten + n
       /\ w_todo' = IF nbufswritten + n = MaxIovs /\ n < Len(queue[c]) THEN {} ELSE w_todo \ {c}
       /\ scheduled' = [scheduled EXCEPT ![c] = n]
       /\ epoch_prefixes' = [epoch_prefixes EXCEPT ![sense][c] =
            IF n = 0 THEN @ ELSE PrefixOf(queue[c][n])]
       /\ ntxns' = [ntxns EXCEPT ![c] = [s \in DOMAIN @ |->
            @[s] + FoldLeft(LAMBDA x, b : IF EpochOf(b) % MaxLag = s THEN x + Len(b) ELSE x,
                            0, SubSeq(queue[c], 1, n))]]
  /\ UNCHANGED <<clock_vars, worker_vars, ring_vars, file, epochs, w_pc, sense,
                 cur_sync_epoch_ex, persister_vars, finish>>

Write ==               \* writev and fdatasync
  /\ w_pc = "collect"
  /\ w_todo = {}
  /\ IF nbufswritten = 0
     THEN w_pc' = "start" /\ UNCHANGED <<file, w_todo>>
     ELSE /\ w_pc' = "update" /\ w_todo' = Cores
          /\ file' = [c \in Cores |->
               file[c] \o FlattenSeq(SubSeq(queue[c], 1, scheduled[c]))]
  /\ UNCHANGED <<clock_vars, worker_vars, ring_vars, epochs, cur_sync_epoch_ex, nbufswritten,
                 scheduled, sense, epoch_prefixes, persister_vars, ntxns, finish>>

\* What the logger says of a core it has not collected this time is what it said
\* of it when it last wrote with this sense.
Claim(c) == epoch_prefixes[sense][c]

Update(c) ==           \* reads what is said of the core
  /\ w_pc = "update"
  /\ w_todo # {} /\ c = MinOfSet(w_todo)
  /\ w_pc' = IF Claim(c) > epochs[c] THEN "store" ELSE "return"
  /\ UNCHANGED <<clock_vars, worker_vars, ring_vars, file, epochs, w_todo, cur_sync_epoch_ex,
                 nbufswritten, scheduled, sense, epoch_prefixes, persister_vars, ntxns, finish>>

StoreClaim(c) ==       \* whatever has been stored since
  /\ w_pc = "store"
  /\ c = MinOfSet(w_todo)
  /\ epochs' = [epochs EXCEPT ![c] = Claim(c)]
  /\ w_pc' = "return"
  /\ UNCHANGED <<clock_vars, worker_vars, ring_vars, file, w_todo, cur_sync_epoch_ex,
                 nbufswritten, scheduled, sense, epoch_prefixes, persister_vars, ntxns, finish>>

RestKeepsOne(c) ==     \* mutant: the last of the written buffers stays
  SubSeq(queue[c], IF scheduled[c] = 0 THEN 1 ELSE scheduled[c], Len(queue[c]))
Rest(c) == SubSeq(queue[c], scheduled[c] + 1, Len(queue[c]))

Return(c) ==           \* the buffers that are written
  /\ w_pc = "return"
  /\ c = MinOfSet(w_todo)
  /\ w_todo' = w_todo \ {c}
  /\ IF w_todo = {c} THEN w_pc' = "start" /\ sense' = 1 - sense
                      ELSE w_pc' = "update" /\ UNCHANGED sense
  /\ queue' = [queue EXCEPT ![c] = Rest(c)]
  /\ nbufs' = [nbufs EXCEPT ![c] = @ + scheduled[c]]
  /\ scheduled' = [scheduled EXCEPT ![c] = 0]
  /\ UNCHANGED <<clock_vars, worker_vars, file, epochs, cur_sync_epoch_ex, nbufswritten,
                 epoch_prefixes, persister_vars, ntxns, finish>>

-----------------------------------------------------------------------------
(* The persister's thread: txn_logger::advance_system_sync_epoch *)

StartAdvanceNow ==     \* mutant: the current tick is taken for over
  /\ p_pc = "sleep"
  /\ best_tick_inc' = now
  /\ min_so_far' = MaxTick
  /\ p_todo' = Cores
  /\ p_pc' = "peek"
  /\ UNCHANGED <<clock_vars, worker_vars, ring_vars, logger_vars, p_core,
                 system_sync_epoch, ntxns_persisted, ntxns, finish>>

StartAdvance ==
  /\ p_pc = "sleep"
  /\ best_tick_inc' = now - 1
  /\ min_so_far' = MaxTick     \* numeric_limits::max(): no core is that far
  /\ p_todo' = Cores
  /\ p_pc' = "peek"
  /\ UNCHANGED <<clock_vars, worker_vars, ring_vars, logger_vars, p_core,
                 system_sync_epoch, ntxns_persisted, ntxns, finish>>

Peek(c) ==
  /\ p_pc = "peek"
  /\ p_todo # {} /\ c = MinOfSet(p_todo)
  /\ p_todo' = p_todo \ {c}
  /\ p_core' = c
  /\ p_pc' = IF queue[c] = <<>> THEN "trylock" ELSE "load"
  /\ UNCHANGED <<clock_vars, worker_vars, ring_vars, logger_vars, best_tick_inc,
                 min_so_far, system_sync_epoch, ntxns_persisted, ntxns, finish>>

\* Outside of guarded sections the ticker holds the lock now and then.
LockFails ==
  /\ p_pc = "trylock"
  /\ p_pc' = "load"
  /\ UNCHANGED <<clock_vars, worker_vars, ring_vars, logger_vars, p_todo, p_core,
                 best_tick_inc, min_so_far, system_sync_epoch, ntxns_persisted, ntxns, finish>>

LockCore ==
  /\ p_pc = "trylock"
  /\ open[p_core] = 0
  /\ p_pc' = "recheck"
  /\ UNCHANGED <<clock_vars, worker_vars, ring_vars, logger_vars, p_todo, p_core,
                 best_tick_inc, min_so_far, system_sync_epoch, ntxns_persisted, ntxns, finish>>

RecheckNever ==        \* mutant: trusts the peek from before the lock
  /\ p_pc = "recheck"
  /\ p_pc' = "advance"
  /\ UNCHANGED <<clock_vars, worker_vars, ring_vars, logger_vars, p_todo, p_core,
                 best_tick_inc, min_so_far, system_sync_epoch, ntxns_persisted, ntxns, finish>>

Recheck ==             \* the second peek, with the lock held
  /\ p_pc = "recheck"
  /\ p_pc' = IF queue[p_core] = <<>> THEN "advance" ELSE "load"
  /\ UNCHANGED <<clock_vars, worker_vars, ring_vars, logger_vars, p_todo, p_core,
                 best_tick_inc, min_so_far, system_sync_epoch, ntxns_persisted, ntxns, finish>>

AdvanceCore ==
  /\ p_pc = "advance"
  /\ min_so_far' = MinOfSet({min_so_far, best_tick_inc})
  /\ epochs' = [epochs EXCEPT ![p_core] = best_tick_inc]
  /\ p_pc' = "peek"
  /\ UNCHANGED <<clock_vars, worker_vars, ring_vars, file, w_pc, w_todo,
                 cur_sync_epoch_ex, nbufswritten, scheduled, sense, epoch_prefixes, p_todo, p_core,
                 best_tick_inc, system_sync_epoch, ntxns_persisted, ntxns, finish>>

LoadCore ==
  /\ p_pc = "load"
  /\ min_so_far' = MinOfSet({min_so_far, epochs[p_core]})
  /\ p_pc' = "peek"
  /\ UNCHANGED <<clock_vars, worker_vars, ring_vars, logger_vars, p_todo, p_core,
                 best_tick_inc, system_sync_epoch, ntxns_persisted, ntxns, finish>>

\* The counters of the epochs that have become durable.
Aggregate ==
  /\ p_pc = "peek"
  /\ p_todo = {}
  /\ LET over == {e % MaxLag : e \in system_sync_epoch + 1 .. min_so_far} IN
       /\ ntxns_persisted' = [c \in Cores |-> ntxns_persisted[c] +
            FoldFunctionOnSet(+, 0, ntxns[c], over)]
       /\ ntxns' = [c \in Cores |-> [s \in DOMAIN ntxns[c] |->
            IF s \in over THEN 0 ELSE ntxns[c][s]]]
  /\ system_sync_epoch' = min_so_far
  /\ p_pc' = "sleep"
  /\ UNCHANGED <<clock_vars, worker_vars, ring_vars, logger_vars, p_todo, p_core,
                 best_tick_inc, min_so_far, finish>>

-----------------------------------------------------------------------------
WorkerStep(c) == Begin(c) \/ Commit(c) \/ LogTxn(c) \/ PushFull(c) \/ End(c) \/ ThreadEnd(c)
WriterStep ==
  \/ StartLoop \/ (\E c \in Cores : Collect(c)) \/ Write
  \/ \E c \in Cores : Update(c) \/ StoreClaim(c) \/ Return(c)
PersisterStep ==
  \/ StartAdvance \/ (\E c \in Cores : Peek(c)) \/ LockFails \/ LockCore \/ Recheck
  \/ AdvanceCore \/ LoadCore \/ Aggregate
ClockStep ==
  /\ (now < MaxTick /\ Advance) \/ Declare
  /\ UNCHANGED <<worker_vars, ring_vars, logger_vars, persister_vars, ntxns, finish>>

Next ==
  \/ \E c \in Cores : WorkerStep(c)
  \/ Finish \/ WriterStep \/ PersisterStep \/ ClockStep

Spec == Init /\ [][Next]_vars

\* The daemons' threads run, and a worker that has begun a transaction ends it.
Fairness ==
  /\ WF_vars(WriterStep) /\ WF_vars(PersisterStep) /\ WF_vars(ClockStep)
  /\ \A c \in Cores : WF_vars(LogTxn(c) \/ PushFull(c)) /\ SF_vars(End(c))
FairSpec == Spec /\ Fairness

-----------------------------------------------------------------------------
\* Buffers whose contents are in the file and that have not been returned.
Updating == w_pc \in {"update", "store", "return"}
InFile(c) == IF Updating /\ c \in w_todo THEN scheduled[c] ELSE 0
Unwritten(c) == SubSeq(queue[c], InFile(c) + 1, Len(queue[c]))

\* What a core logs reaches the file in the order of its commits: nothing is
\* lost, repeated or reordered between the worker, the rings and the logger; nor
\* are the buffers themselves.
LogIsInCommitOrder ==
  \A c \in Cores :
    /\ committed[c] = file[c] \o FlattenSeq(Unwritten(c)) \o head[c]
    /\ nbufs[c] + Len(queue[c]) = Buffers

\* When the logger says that a core is durable up to an epoch, every
\* transaction the core has logged in that epoch or earlier is in the file,
\* though the buffer may be followed by another one of its epoch.
LoggerClaimsAreDurable ==
  \A c \in Cores : Updating /\ c \in w_todo /\ scheduled[c] > 0 =>
    \A i \in DOMAIN committed[c] :
      committed[c][i] <= Claim(c) => i <= Len(file[c])

\* The persister moves no core past a buffer that its worker has pushed and
\* that is not in the file, while the worker still runs (txn_ic3_impl.cc:162).
QueuedIsNotClaimed ==
  [][\A c \in Cores :
       epochs'[c] > epochs[c] /\ pc[c] # "ended" =>
         \A i \in DOMAIN Unwritten(c)' : EpochOf(Unwritten(c)'[i]) > epochs'[c]]_vars

\* txn_ic3_impl.cc:165: no transaction is logged in an epoch that the persister
\* or the logger has said to be over and durable, of its core or of the system,
\* from the tick it commits at to the end of its guarded section.
CommitsAreLater ==
  \A c \in Cores : pc[c] \in {"log", "logged"} =>
    epochs[c] < commit_epoch[c] /\ system_sync_epoch < commit_epoch[c]

\* txn_ic3_impl.cc:200: what the persister finds durable is never less than what
\* it has said, though it and the logger both store the epochs of a core without
\* a lock, each from what it has read before.
SyncNeverDecreases == [][system_sync_epoch' >= system_sync_epoch]_vars

\* txn_ic3_impl.h:318: every transaction of an epoch <= system_sync_epoch_ is
\* durable.
SyncEpochIsDurable ==
  \A c \in Cores : \A i \in DOMAIN committed[c] :
    committed[c][i] <= system_sync_epoch => i <= Len(file[c])

\* bench.cc:294: when the wait at the end of a run is over, everything that
\* was pushed is counted as persisted.
FinalCountsAgree ==
  finish # 0 /\ system_sync_epoch >= finish => ntxns_persisted = ntxns_pushed

\* What the logger does not take yet, as long as the persister is where it is.
PastLag(c) == queue[c] # <<>> /\ EpochOf(queue[c][1]) > system_sync_epoch + MaxLag

\* A pushed buffer is written and comes back to its worker, which may be waiting
\* for it inside its guarded section, unless the lag is in the way.
BuffersMoveUntilLag ==
  \A c \in Cores : (queue[c] # <<>>) ~> (queue[c] = <<>> \/ PastLag(c))

=============================================================================
