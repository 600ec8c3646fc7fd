---------------------------- MODULE PolyjuiceTxn ----------------------------
(***************************************************************************)
(* The learned concurrency control of the transaction engine: accesses     *)
(* (lcc/piece_impl.h), exposure of a piece, commit and abort               *)
(* (lcc/txn_impl.h) over tuples with access lists (lcc/tuple.h).           *)
(*                                                                         *)
(* A tuple's version is named by the transaction that installed it: commit *)
(* tids are unique and grow along a tuple's versions, so is_not_behind(c)  *)
(* of a version read earlier is equality.  A value is named by the write   *)
(* that made it, [txn, pos]; a clean read does not see the transaction's   *)
(* own writes, a dirty one does once they are exposed.  What the code does *)
(* while it holds every lock it needs is one action; what it reads without *)
(* them is a step of its own.                                              *)
(* Keys exist and stay: inserts, deletes and scans are not in this module. *)
(***************************************************************************)
EXTENDS Naturals, Sequences, FiniteSets

CONSTANTS Txns,        \* the transactions, one worker thread each
          Keys,        \* tuples, in the order their locks are taken
          Programs,    \* set of functions: transaction -> sequence of accesses
          Policies,    \* what a policy may decide, see below
          NoWait, WaitCommit,
          UserAborts,  \* transactions whose program may abort by itself
          NONE, V0,    \* no transaction; the loader's version of every tuple
          Loader       \* the transaction whose thread loaded the tuples, or NONE

\* A policy's decisions at an access: a clean read (TRUE) or a dirty one; after
\* it, to end and expose the piece (TRUE) or not; before both, to wait for a step
\* of a dependency, for its commit, or not.  Any table over them is covered.
PolicySpace == [occ : SUBSET BOOLEAN, piece_end : SUBSET BOOLEAN, waits : SUBSET Nat]
Accesses == [op : {"get", "update", "put"}, key : Keys]

ASSUME TxnAssumption ==
  /\ NONE \notin Txns /\ V0 \notin Txns /\ NONE # V0
  /\ Keys \subseteq Nat /\ IsFiniteSet(Keys)
  /\ Policies \subseteq PolicySpace
  /\ NoWait # WaitCommit
  /\ Programs \subseteq [Txns -> Seq(Accesses) \ {<<>>}]

VARIABLES
  program,     \* the accesses of every transaction
  policy,      \* the decisions its policy may take
  pc,          \* where its thread is
  at,          \* ongoing_acc_id: index of the next access
  idx,         \* index of commit's loop over the read or the write set
  state,       \* transaction::state; "REUSED": its object runs the next one
  commit_tid,  \* transaction::commit_tid
  read_set, write_set,
  rmw,         \* the writes of write_set whose read_access_entry is set
  dep_queue,   \* dep_queue[t][d]: "none", "order" or "dirty" (dirty_read_dep)
  piece,       \* read_set_start, write_set_start, dep_queue_start, valid_acc_id
  version,     \* dbtuple::version
  value,       \* the committed record
  last_writer_seq, \* dbtuple::last_writer_seq
  list,        \* access_head .. access_tail
  lock, write_intent, \* lock and write-intent bits of dbtuple::hdr
  installed    \* history: the writers of a tuple, in the order they installed

txn_vars == <<program, policy, pc, at, idx, state, commit_tid, read_set, write_set,
              rmw, dep_queue, piece>>
tuple_vars == <<version, value, last_writer_seq, list, lock, write_intent, installed>>
vars == <<txn_vars, tuple_vars>>

Init ==
  /\ program \in Programs
  /\ policy \in Policies
  /\ pc = [t \in Txns |-> "access"]
  /\ at = [t \in Txns |-> 1]
  /\ idx = [t \in Txns |-> 1]
  /\ state = [t \in Txns |-> "ACTIVE"]
  /\ commit_tid = [t \in Txns |-> IF t = Loader THEN V0 ELSE NONE]
  /\ read_set = [t \in Txns |-> <<>>]
  /\ write_set = [t \in Txns |-> <<>>]
  /\ rmw = [t \in Txns |-> {}]
  /\ dep_queue = [t \in Txns |-> [d \in Txns |-> "none"]]
  /\ piece = [t \in Txns |-> [reads |-> 0, writes |-> 0, deps |-> {}, at |-> 1]]
  /\ version = [k \in Keys |-> V0]
  \* every tuple was its loader's first write
  /\ value = [k \in Keys |-> [txn |-> V0, pos |-> 1]]
  /\ last_writer_seq = [k \in Keys |-> 1]
  /\ list = [k \in Keys |-> <<>>]
  /\ lock = [k \in Keys |-> NONE]
  /\ write_intent = [k \in Keys |-> FALSE]
  /\ installed = [k \in Keys |-> <<V0>>]

-----------------------------------------------------------------------------
(* What one transaction sees of another, and of a tuple's access list. *)

\* A reused object is no longer the transaction asked for: both answers are yes.
is_commit(d) == state[d] \in {"COMMITED", "REUSED"}
is_abort(d) == state[d] \in {"ABRT", "REUSED"}

MinOf(S) == CHOOSE x \in S : \A y \in S : x <= y
MaxOf(S) == CHOOSE x \in S : \A y \in S : x >= y

Writes(l) == {i \in DOMAIN l : l[i].op = "w"}

\* get_dependent_entry(false): the latest write of the list, if any.
get_dependent_entry(l) ==
  IF Writes(l) = {} THEN {} ELSE {l[MaxOf(Writes(l))]}

\* get_latest_dependent_entries: a write at the tail, or the reads after the
\* last write.
get_latest_dependent_entries(l) ==
  CASE l = <<>> -> {}
    [] l # <<>> /\ l[Len(l)].op = "w" -> {l[Len(l)]}
    [] OTHER -> {l[i] : i \in {j \in DOMAIN l : \A w \in Writes(l) : w < j}}

check_no_write_entry(l, t) == \A i \in Writes(l) : l[i].txn = t

Entry(t, op, pos) == [txn |-> t, op |-> op, pos |-> pos]
Entries(l) == {l[i] : i \in DOMAIN l}

\* The entries of l that are in S, in their order.
Only(l, S) ==
  LET only[n \in 0 .. Len(l)] ==
        IF n = 0 THEN <<>>
        ELSE IF l[n] \in S THEN Append(only[n - 1], l[n]) ELSE only[n - 1]
  IN  only[Len(l)]

CutAtEntry(l, e) ==      \* mutant: the list ends where the entry was
  SelectSeq(l, LAMBDA x : \E i, j \in DOMAIN l : i < j /\ l[i] = x /\ l[j] = e)
unlink_entry(l, e) == Only(l, Entries(l) \ {e})

\* add_dep_txn for a set of transactions: a dirty dependency stays dirty.
add_dep_txn(q, ds, kind) ==
  [d \in Txns |-> IF d \in ds /\ q[d] # "dirty"
                  THEN IF kind = "dirty" \/ q[d] = "none" THEN kind ELSE q[d]
                  ELSE q[d]]
Running(t, es) == {e.txn : e \in {x \in es : x.txn # t /\ ~ is_commit(x.txn)}}

Held(t) == {k \in Keys : lock[k] = t}
WriteKeys(t) == {write_set[t][i] : i \in DOMAIN write_set[t]}

\* do_wait: w is the policy's target for the dependency d.
Resolved(d) == is_commit(d) \/ is_abort(d)
cur_step(d) == IF at[d] > Len(program[d]) THEN Len(program[d]) ELSE at[d]
WaitsFor(t, d, w) ==
  /\ dep_queue[t][d] # "none"
  /\ w # NoWait
  /\ ~ Resolved(d)
  /\ w = WaitCommit \/ cur_step(d) <= w
Doomed(t, d) == dep_queue[t][d] = "dirty" /\ is_abort(d)
WaitIsOver(t, w) ==
  \A d \in Txns : ~ WaitsFor(t, d, w) /\ ~ (w = WaitCommit /\ Doomed(t, d))

-----------------------------------------------------------------------------
(* Accesses: do_get, do_update and do_put, with the wait before them. *)

\* What an access reads.  A clean read spins while the tuple has write intent
\* and returns the committed record (do_tuple_read).  A dirty read holds the
\* tuple's lock: it returns the latest exposed write, which it depends on
\* unless the write is its own (ic3_read, set_dependent).
ReadRecord(t, k, occ) ==
  LET de == get_dependent_entry(list[k])
      from == IF occ \/ de = {} THEN value[k]
              ELSE CHOOSE v \in {[txn |-> e.txn, pos |-> e.pos] : e \in de} : TRUE
  IN  [key |-> k, occ |-> occ, from |-> from, clean_tid |-> version[k],
       dirty |-> ~ occ /\ de # {} /\ from.txn # t]

CanRead(k, occ) == IF occ THEN ~ write_intent[k] ELSE lock[k] = NONE

\* After the last access, or an access at which the policy ends the piece.
NextPc(t, piece_end) ==
  IF piece_end THEN "expose"
  ELSE IF at[t] = Len(program[t]) THEN "commit" ELSE "access"

Access(t) ==
  /\ pc[t] = "access"
  /\ \E w \in policy.waits : WaitIsOver(t, w)
  /\ LET a == program[t][at[t]] IN
     \E occ \in policy.occ, piece_end \in policy.piece_end :
       /\ a.op # "put" => CanRead(a.key, occ)
       /\ read_set' = IF a.op = "put" THEN read_set
            ELSE [read_set EXCEPT ![t] = Append(@, ReadRecord(t, a.key, occ))]
       /\ write_set' = IF a.op = "get" THEN write_set
            ELSE [write_set EXCEPT ![t] = Append(@, a.key)]
       /\ pc' = [pc EXCEPT ![t] = NextPc(t, piece_end)]
  /\ at' = [at EXCEPT ![t] = @ + 1]
  /\ UNCHANGED <<program, policy, idx, state, commit_tid, rmw, dep_queue, piece, tuple_vars>>

-----------------------------------------------------------------------------
(* expose_uncommitted: lock the piece's tuples in order, validate its reads, *)
(* append the entries; if a read fails, undo and retry the piece.            *)

PieceReads(t) == piece[t].reads + 1 .. Len(read_set[t])
PieceWrites(t) == piece[t].writes + 1 .. Len(write_set[t])
PieceKeys(t) == {read_set[t][i].key : i \in PieceReads(t)}
                  \cup {write_set[t][i] : i \in PieceWrites(t)}

ExposeLock(t) ==
  /\ pc[t] = "expose"
  /\ Held(t) = {} => \E w \in policy.waits : WaitIsOver(t, w)
  /\ LET k == MinOf(PieceKeys(t) \ Held(t)) IN
       /\ lock[k] = NONE
       /\ lock' = [lock EXCEPT ![k] = t]
       /\ pc' = IF PieceKeys(t) \ Held(t) = {k}
                THEN [pc EXCEPT ![t] = "exposing"] ELSE pc
  /\ UNCHANGED <<program, policy, at, idx, state, commit_tid, read_set, write_set,
                 rmw, dep_queue, piece, version, value, last_writer_seq, list,
                 write_intent, installed>>

\* The early validation of one read.
EarlyValid(t, r) ==
  LET k == r.key
      de == get_dependent_entry(list[k])
      d == r.from.txn
  IN  CASE r.occ -> version[k] = r.clean_tid
        [] ~ r.occ /\ ~ r.dirty ->
             version[k] = r.clean_tid /\ check_no_write_entry(list[k], t)
        [] r.dirty /\ is_abort(d) -> FALSE
        [] r.dirty /\ ~ is_abort(d) /\ is_commit(d) ->
             commit_tid[d] = version[k] /\ de = {}
        [] OTHER ->
             IF de = {} THEN commit_tid[d] = version[k]
             ELSE de = {Entry(d, "w", r.from.pos)}

\* A read that the transaction overwrites needs no entry of its own: check_rmw
\* marks the first read of every tuple the piece writes, which is the
\* read_access_entry of the write from then on.
ReadsOf(t, k) == {i \in DOMAIN read_set[t] : read_set[t][i].key = k}
FirstRead(t, k) == MinOf(ReadsOf(t, k))
is_overwrite(t, i) ==
  /\ i = FirstRead(t, read_set[t][i].key)
  /\ \E j \in PieceWrites(t) : write_set[t][j] = read_set[t][i].key

\* The entries of the piece's reads up to index last, and of its writes.
ReadEntries(t, k, last) ==
  Only([i \in 1 .. last |-> Entry(t, "r", i)],
       {Entry(t, "r", i) : i \in {j \in PieceReads(t) : /\ read_set[t][j].key = k
                                                     /\ ~ read_set[t][j].occ
                                                     /\ ~ is_overwrite(t, j)}})
WriteEntries(t, k) ==
  Only([i \in 1 .. Len(write_set[t]) |-> Entry(t, "w", i)],
       {Entry(t, "w", i) : i \in {j \in PieceWrites(t) : write_set[t][j] = k}})

ReadDeps(t, last) ==
  UNION {get_dependent_entry(list[read_set[t][i].key]) :
           i \in {j \in PieceReads(t) : j <= last /\ ~ read_set[t][j].occ}}

ExposeOk(t) ==
  LET n == Len(read_set[t])
      reads_appended == [k \in Keys |-> list[k] \o ReadEntries(t, k, n)]
      before == UNION {get_latest_dependent_entries(reads_appended[write_set[t][i]]) :
                         i \in PieceWrites(t)}
      q == add_dep_txn(add_dep_txn(dep_queue[t], Running(t, ReadDeps(t, n)), "dirty"),
                       Running(t, before), "order")
  IN  /\ \A i \in PieceReads(t) : EarlyValid(t, read_set[t][i])
      /\ dep_queue' = [dep_queue EXCEPT ![t] = q]
      /\ list' = [k \in Keys |-> reads_appended[k] \o WriteEntries(t, k)]
      /\ piece' = [piece EXCEPT ![t] =
           [reads |-> n, writes |-> Len(write_set[t]), at |-> at[t],
            deps |-> {d \in Txns : q[d] # "none"}]]
      /\ rmw' = [rmw EXCEPT ![t] =
           @ \cup {i \in PieceWrites(t) : ReadsOf(t, write_set[t][i]) # {}}]
      /\ pc' = [pc EXCEPT ![t] =
           IF at[t] > Len(program[t]) THEN "commit" ELSE "access"]

ExposeFails(t) ==
  LET failed == {i \in PieceReads(t) : ~ EarlyValid(t, read_set[t][i])}
      last == MinOf(failed) - 1
  IN  /\ failed # {}
      /\ dep_queue' = [dep_queue EXCEPT ![t] =
           add_dep_txn(@, Running(t, ReadDeps(t, last)), "dirty")]
      /\ list' = [k \in Keys |-> list[k] \o ReadEntries(t, k, last)]
      /\ pc' = [pc EXCEPT ![t] = "undo"]
      /\ UNCHANGED <<rmw, piece>>

Expose(t) ==
  /\ pc[t] = "exposing"
  /\ ExposeOk(t) \/ ExposeFails(t)
  /\ lock' = [k \in Keys |-> IF lock[k] = t THEN NONE ELSE lock[k]]
  /\ UNCHANGED <<program, policy, at, idx, state, commit_tid, read_set, write_set,
                 version, value, last_writer_seq, write_intent, installed>>

\* Reads of t with index > from that still have an entry in a list.
LinkedReads(t, from) ==
  {i \in DOMAIN read_set[t] :
     i > from /\ Entry(t, "r", i) \in Entries(list[read_set[t][i].key])}

\* Unlinks the first linked read with an index > from, under its tuple's lock.
UnlinkRead(t, from) ==
  LET i == MinOf(LinkedReads(t, from))
      k == read_set[t][i].key
  IN  /\ LinkedReads(t, from) # {}
      /\ lock[k] = NONE
      /\ list' = [list EXCEPT ![k] = unlink_entry(@, Entry(t, "r", i))]
      /\ UNCHANGED <<txn_vars, version, value, last_writer_seq, lock,
                     write_intent, installed>>

UndoExposed(t) == pc[t] = "undo" /\ UnlinkRead(t, piece[t].reads)

RetryPiece(t) ==
  /\ pc[t] = "undo"
  /\ LinkedReads(t, piece[t].reads) = {}
  /\ read_set' = [read_set EXCEPT ![t] = SubSeq(@, 1, piece[t].reads)]
  /\ write_set' = [write_set EXCEPT ![t] = SubSeq(@, 1, piece[t].writes)]
  /\ dep_queue' = [dep_queue EXCEPT ![t] =
       [d \in Txns |-> IF d \in piece[t].deps THEN @[d] ELSE "none"]]
  /\ at' = [at EXCEPT ![t] = piece[t].at]
  /\ pc' = [pc EXCEPT ![t] = "access"]
  /\ UNCHANGED <<program, policy, idx, state, commit_tid, rmw, piece, tuple_vars>>

-----------------------------------------------------------------------------
(* Waits that do not end well: do_wait throws, or commit goes to do_abort. *)

\* The waits of a transaction that is about to access or to expose.
Targets(t) ==
  CASE pc[t] = "access" -> policy.waits
    [] pc[t] = "expose" /\ Held(t) = {} -> policy.waits
    [] pc[t] = "waitdeps" -> {WaitCommit}
    [] OTHER -> {}

Timeout(t) ==
  \E w \in Targets(t), d \in Txns : WaitsFor(t, d, w)
Cascade(t) ==
  WaitCommit \in Targets(t) /\ \E d \in Txns : Doomed(t, d)

\* do_wait sets the state before the exception reaches abort_impl; commit does
\* not.
AbortWaiting(t) ==
  /\ Timeout(t) \/ Cascade(t)
  /\ state' = IF pc[t] = "waitdeps" THEN state ELSE [state EXCEPT ![t] = "ABRT"]
  /\ pc' = [pc EXCEPT ![t] = "unlink_abort"]
  /\ UNCHANGED <<program, policy, at, idx, commit_tid, read_set, write_set, rmw, dep_queue,
                 piece, tuple_vars>>

\* The program aborts between two accesses.
UserAbort(t) ==
  /\ t \in UserAborts
  /\ pc[t] = "access"
  /\ pc' = [pc EXCEPT ![t] = "unlink_abort"]
  /\ UNCHANGED <<program, policy, at, idx, state, commit_tid, read_set, write_set,
                 rmw, dep_queue, piece, tuple_vars>>

-----------------------------------------------------------------------------
(* commit *)

\* Dirty reads that were never exposed become dependencies here; the lists are
\* read without their locks.
CommitDeps(t) ==
  /\ pc[t] = "commit"
  /\ dep_queue' = [dep_queue EXCEPT ![t] =
       add_dep_txn(@, Running(t, ReadDeps(t, Len(read_set[t]))), "dirty")]
  /\ pc' = [pc EXCEPT ![t] = "waitdeps"]
  /\ UNCHANGED <<program, policy, at, idx, state, commit_tid, read_set, write_set,
                 rmw, piece, tuple_vars>>

\* Phase 1.
WaitDeps(t) ==
  /\ pc[t] = "waitdeps"
  /\ WaitIsOver(t, WaitCommit)
  /\ state' = [state EXCEPT ![t] = "FINISH_EXEC"]
  /\ pc' = [pc EXCEPT ![t] = IF WriteKeys(t) = {} THEN "validate" ELSE "lockws"]
  /\ UNCHANGED <<program, policy, at, idx, commit_tid, read_set, write_set, rmw, dep_queue,
                 piece, tuple_vars>>

\* Phase 2: handle_last_tuple_in_group on every tuple of the write set.
LockWriteSet(t) ==
  /\ pc[t] = "lockws"
  /\ LET k == MinOf(WriteKeys(t) \ Held(t)) IN
       /\ lock[k] = NONE
       /\ lock' = [lock EXCEPT ![k] = t]
       /\ write_intent' = [write_intent EXCEPT ![k] = TRUE]
       /\ pc' = IF WriteKeys(t) \ Held(t) = {k}
                THEN [pc EXCEPT ![t] = "validate"] ELSE pc
  /\ UNCHANGED <<program, policy, at, idx, state, commit_tid, read_set, write_set,
                 rmw, dep_queue, piece, version, value, last_writer_seq, list, installed>>

ValidNoIntent(t, r) ==   \* mutant: ignores a writer that is about to install
  version[r.key] = r.clean_tid
WriterAnswers(d) ==      \* mutant: a reused object says yes to everything
  is_commit(d)

\* Phase 3, one read at a time.  A clean read needs the version it saw; a tuple
\* the transaction has not locked must not carry write intent either
\* (stable_is_latest_version rechecks the header, so the two tests are one).
CleanValid(t, r) ==
  version[r.key] = r.clean_tid /\ (r.key \in WriteKeys(t) \/ ~ write_intent[r.key])

\* is_commit, and the writer's object still runs the writer.
WriterCommitted(d) == state[d] = "COMMITED"

TheRead(t) == read_set[t][idx[t]]
NextRead(t) ==
  /\ idx' = [idx EXCEPT ![t] = @ + 1]
  /\ pc' = [pc EXCEPT ![t] = "validate"]
Test(t, next) == pc' = [pc EXCEPT ![t] = next] /\ UNCHANGED idx
FailCommit(t) == pc' = [pc EXCEPT ![t] = "release"] /\ UNCHANGED idx

\* A dirty read is valid when its writer has committed, the version is the
\* writer's, the last write of the version is the one it read, and nobody is about
\* to write: four reads without a lock, none of which is repeated.
ValidateRead(t) ==
  /\ pc[t] = "validate"
  /\ idx[t] \in DOMAIN read_set[t]
  /\ LET r == TheRead(t) IN
       CASE ~ r.dirty /\ CleanValid(t, r) -> NextRead(t)
         [] r.dirty /\ WriterCommitted(r.from.txn) -> Test(t, "version")
         [] OTHER -> FailCommit(t)
  /\ UNCHANGED <<program, policy, at, state, commit_tid, read_set, write_set, rmw,
                 dep_queue, piece, tuple_vars>>

ValidateVersion(t) ==
  /\ pc[t] = "version"
  /\ LET r == TheRead(t) IN
       IF commit_tid[r.from.txn] = version[r.key] THEN Test(t, "seq") ELSE FailCommit(t)
  /\ UNCHANGED <<program, policy, at, state, commit_tid, read_set, write_set, rmw,
                 dep_queue, piece, tuple_vars>>

ValidateSeq(t) ==
  /\ pc[t] = "seq"
  /\ LET r == TheRead(t) IN
       CASE last_writer_seq[r.key] # r.from.pos -> FailCommit(t)
         [] last_writer_seq[r.key] = r.from.pos /\ r.key \in WriteKeys(t) -> NextRead(t)
         [] OTHER -> Test(t, "intent")
  /\ UNCHANGED <<program, policy, at, state, commit_tid, read_set, write_set, rmw,
                 dep_queue, piece, tuple_vars>>

\* The last one is left out when the transaction has locked the tuple itself.
ValidateIntent(t) ==
  /\ pc[t] = "intent"
  /\ IF write_intent[TheRead(t).key] THEN FailCommit(t) ELSE NextRead(t)
  /\ UNCHANGED <<program, policy, at, state, commit_tid, read_set, write_set, rmw,
                 dep_queue, piece, tuple_vars>>

KeepCommitTid(t) ==      \* mutant: leaves the object's old commit tid in place
  /\ pc[t] = "validate"
  /\ idx[t] \notin DOMAIN read_set[t]
  /\ pc' = [pc EXCEPT ![t] = IF WriteKeys(t) = {} THEN "unlink" ELSE "install"]
  /\ idx' = [idx EXCEPT ![t] = 1]
  /\ UNCHANGED <<program, policy, at, state, commit_tid, read_set, write_set, rmw,
                 dep_queue, piece, tuple_vars>>

\* gen_commit_tid; a transaction without writes has no commit tid.
GenCommitTid(t) ==
  /\ pc[t] = "validate"
  /\ idx[t] \notin DOMAIN read_set[t]
  /\ commit_tid' = IF WriteKeys(t) = {} THEN commit_tid
                   ELSE [commit_tid EXCEPT ![t] = t]
  /\ pc' = [pc EXCEPT ![t] = IF WriteKeys(t) = {} THEN "unlink" ELSE "install"]
  /\ idx' = [idx EXCEPT ![t] = 1]
  /\ UNCHANGED <<program, policy, at, state, read_set, write_set, rmw, dep_queue, piece,
                 tuple_vars>>

\* The entry of a write, and of the read it overwrites.
OwnEntries(t, i) ==
  {Entry(t, "w", i)} \cup
    IF i \in rmw[t] THEN {Entry(t, "r", FirstRead(t, write_set[t][i]))} ELSE {}

\* Phase 4, one write at a time.  Of several writes to a tuple only the last
\* one is installed (do_write) and releases the tuple; every write unlinks its
\* own entry and the entry of the read it overwrites.
Install(t) ==
  LET i == idx[t]
      k == write_set[t][i]
      do_write == \A j \in DOMAIN write_set[t] : write_set[t][j] = k => j <= i
  IN
  /\ pc[t] = "install"
  /\ list' = [list EXCEPT ![k] = Only(@, Entries(@) \ OwnEntries(t, i))]
  /\ IF do_write
     THEN /\ version' = [version EXCEPT ![k] = commit_tid[t]]
          /\ value' = [value EXCEPT ![k] = [txn |-> t, pos |-> i]]
          /\ last_writer_seq' = [last_writer_seq EXCEPT ![k] = i]
          /\ installed' = [installed EXCEPT ![k] = Append(@, t)]
          /\ lock' = [lock EXCEPT ![k] = NONE]
          /\ write_intent' = [write_intent EXCEPT ![k] = FALSE]
     ELSE UNCHANGED <<version, value, last_writer_seq, installed, lock, write_intent>>
  /\ idx' = [idx EXCEPT ![t] = @ + 1]
  /\ pc' = IF i = Len(write_set[t]) THEN [pc EXCEPT ![t] = "unlink"] ELSE pc
  /\ UNCHANGED <<program, policy, at, state, commit_tid, read_set, write_set, rmw,
                 dep_queue, piece>>

\* Phase 5: the entries of the reads that were not overwritten.
UnlinkReads(t) == pc[t] = "unlink" /\ UnlinkRead(t, 0)

\* Phase 6.
Commit(t) ==
  /\ pc[t] = "unlink"
  /\ LinkedReads(t, 0) = {}
  /\ state' = [state EXCEPT ![t] = "COMMITED"]
  /\ pc' = [pc EXCEPT ![t] = "committed"]
  /\ UNCHANGED <<program, policy, at, idx, commit_tid, read_set, write_set, rmw, dep_queue,
                 piece, tuple_vars>>

-----------------------------------------------------------------------------
(* chamcc_abort_impl *)

\* Releases the tuples that commit locked, before any entry is unlinked.
ReleaseWriteSet(t) ==
  /\ pc[t] = "release"
  /\ IF Held(t) = {} THEN UNCHANGED <<lock, write_intent>>
     ELSE LET k == MinOf(Held(t)) IN
          /\ lock' = [lock EXCEPT ![k] = NONE]
          /\ write_intent' = [write_intent EXCEPT ![k] = FALSE]
  /\ pc' = IF Cardinality(Held(t)) <= 1
           THEN [pc EXCEPT ![t] = "unlink_abort"] ELSE pc
  /\ UNCHANGED <<program, policy, at, idx, state, commit_tid, read_set, write_set,
                 rmw, dep_queue, piece, version, value, last_writer_seq, list, installed>>

LinkedWrites(t) ==
  {i \in DOMAIN write_set[t] : Entry(t, "w", i) \in Entries(list[write_set[t][i]])}

\* Unlinks the writes first, each with the read it overwrites.
UnlinkWrite(t) ==
  /\ pc[t] = "unlink_abort"
  /\ LinkedWrites(t) # {}
  /\ LET i == MinOf(LinkedWrites(t))
         k == write_set[t][i]
     IN  /\ lock[k] = NONE
         /\ list' = [list EXCEPT ![k] = Only(@, Entries(@) \ OwnEntries(t, i))]
  /\ UNCHANGED <<txn_vars, version, value, last_writer_seq, lock, write_intent,
                 installed>>

UnlinkReadOfAbort(t) ==
  pc[t] = "unlink_abort" /\ LinkedWrites(t) = {} /\ UnlinkRead(t, 0)

AbortLinked(t) ==        \* mutant: ends with its writes still exposed
  /\ pc[t] = "unlink_abort"
  /\ state' = [state EXCEPT ![t] = "ABRT"]
  /\ pc' = [pc EXCEPT ![t] = "aborted"]
  /\ UNCHANGED <<program, policy, at, idx, commit_tid, read_set, write_set, rmw, dep_queue,
                 piece, tuple_vars>>

Abort(t) ==
  /\ pc[t] = "unlink_abort"
  /\ LinkedWrites(t) = {} /\ LinkedReads(t, 0) = {}
  /\ state' = [state EXCEPT ![t] = "ABRT"]
  /\ pc' = [pc EXCEPT ![t] = "aborted"]
  /\ UNCHANGED <<program, policy, at, idx, commit_tid, read_set, write_set, rmw, dep_queue,
                 piece, tuple_vars>>

Ended == {"committed", "aborted"}

\* The worker runs its next transaction in the same object.
Reuse(t) ==
  /\ pc[t] \in Ended
  /\ state[t] # "REUSED"
  /\ state' = [state EXCEPT ![t] = "REUSED"]
  /\ UNCHANGED <<program, policy, pc, at, idx, commit_tid, read_set, write_set,
                 rmw, dep_queue, piece, tuple_vars>>

-----------------------------------------------------------------------------
Step(t) ==
  \/ Access(t) \/ ExposeLock(t) \/ Expose(t) \/ UndoExposed(t) \/ RetryPiece(t)
  \/ AbortWaiting(t) \/ UserAbort(t)
  \/ CommitDeps(t) \/ WaitDeps(t) \/ LockWriteSet(t)
  \/ ValidateRead(t) \/ ValidateVersion(t) \/ ValidateSeq(t) \/ ValidateIntent(t)
  \/ GenCommitTid(t)
  \/ Install(t) \/ UnlinkReads(t) \/ Commit(t)
  \/ ReleaseWriteSet(t) \/ UnlinkWrite(t) \/ UnlinkReadOfAbort(t) \/ Abort(t)

Terminated == (\A t \in Txns : pc[t] \in Ended) /\ UNCHANGED vars

Next == (\E t \in Txns : Step(t) \/ Reuse(t)) \/ Terminated

Spec == Init /\ [][Next]_vars

\* The scheduler runs every thread, a wait that does not end times out, and a
\* thread does not lose the race for a spinlock for ever: an aborting writer
\* needs the lock that its doomed reader takes again and again to retry a piece.
Fairness == \A t \in Txns : SF_vars(Step(t))
FairSpec == Spec /\ Fairness

-----------------------------------------------------------------------------
(* Properties *)

\* Transactions whose validation succeeded: nothing can make them abort.
Decided == {t \in Txns : pc[t] \in {"install", "unlink", "committed"}}

\* Direct serialization graph: reads from, version order, anti-dependency.
Precedes(a, b) ==
  \/ \E i \in DOMAIN read_set[b] : read_set[b][i].from.txn = a
  \/ \E k \in Keys : \E i, j \in DOMAIN installed[k] :
       i < j /\ installed[k][i] = a /\ installed[k][j] = b
  \/ \E i \in DOMAIN read_set[a] :
       LET r == read_set[a][i] IN
       \E m, n \in DOMAIN installed[r.key] :
         m < n /\ installed[r.key][m] = r.from.txn /\ installed[r.key][n] = b

\* A transaction that commits has read from others, besides the loaded records,
\* only what transactions that commit too have written: no dirty read of an aborted
\* transaction or of an undone piece survives.
CommittedReadsAreCommitted ==
  \A t \in Decided : \A i \in DOMAIN read_set[t] :
    LET r == read_set[t][i]  d == r.from.txn IN
    d \notin {V0, t} => /\ d \in Decided
                       /\ r.from.pos \in DOMAIN write_set[d]
                       /\ write_set[d][r.from.pos] = r.key

\* No transaction that commits has read a write that its writer overwrote.
NoIntermediateRead ==
  \A t \in Decided : \A i \in DOMAIN read_set[t] :
    LET r == read_set[t][i]  d == r.from.txn IN
    d \notin {V0, t} => \A j \in DOMAIN write_set[d] :
                          write_set[d][j] = r.key => j <= r.from.pos

\* The transactions that commit have an order that explains what they read and
\* the versions they left (txn_btree.h: "the interface is serializable").
Serializable ==
  /\ NoIntermediateRead
  /\ \E rank \in [Decided -> 1 .. Cardinality(Decided)] :
       \A a, b \in Decided : a # b /\ Precedes(a, b) => rank[a] < rank[b]

\* The optimistic baseline is serializable: every read is of a committed version,
\* and is validated.  (Policies that read dirty are not, whatever they expose.)
OptimisticIsSerializable == policy.occ = {TRUE} => Serializable

\* A transaction that waits for nobody any more leaves nothing behind: neither
\* entries, which others would wait for or read, nor locks; and every entry is of an
\* access its transaction still counts, also while a piece is undone and retried.
NothingLeftBehind ==
  /\ \A t \in Txns : pc[t] \in Ended =>
       \A k \in Keys : lock[k] # t /\ \A e \in Entries(list[k]) : e.txn # t
  /\ \A k \in Keys : \A e \in Entries(list[k]) :
       IF e.op = "w" THEN e.pos \in DOMAIN write_set[e.txn] /\ write_set[e.txn][e.pos] = k
                     ELSE e.pos \in DOMAIN read_set[e.txn] /\ read_set[e.txn][e.pos].key = k

\* What a transaction has read from another one stays exposed until that one
\* installs or aborts: the undo of a piece withdraws no write.
DirtyReadsHaveSource ==
  \A t \in Txns : \A i \in DOMAIN read_set[t] :
    LET r == read_set[t][i]  d == r.from.txn IN
    r.dirty /\ pc[d] \notin {"unlink_abort", "install", "unlink"} \cup Ended =>
      Entry(d, "w", r.from.pos) \in Entries(list[r.key])

\* Every transaction commits or aborts: waits end, pieces are not retried for
\* ever, and no two transactions wait for each other's locks.
EveryTransactionEnds == \A t \in Txns : <>(pc[t] \in Ended)
=============================================================================
