---------------------------------- MODULE Rcu ----------------------------------
(***************************************************************************)
(* Deferred reclamation (lcc/rcu.h, lcc/rcu.cc, lcc/pxqueue.h) on top of   *)
(* the epoch clock.  A thread reads shared pointers only inside a region,  *)
(* which is a guard of the clock; what it unlinks goes to its own queue    *)
(* with the tick after its own, in units of EpochTimeMultiplier, and is    *)
(* reclaimed by the same thread when it leaves a later region.             *)
(*                                                                         *)
(* The clock is EpochClock, which Ticker implements: open[c] is the tick   *)
(* of the guard of core c, done is last_tick_inclusive.  Groups of a       *)
(* px_queue are runs of entries with one tick; their free list only saves  *)
(* allocations and is left out.                                            *)
(***************************************************************************)
EXTENDS EpochClock, Sequences

CONSTANTS Slots,               \* shared pointers
          Objects, NULL,       \* what they point to
          EpochTimeMultiplier, \* clock ticks per RCU tick
          MaxDepth,            \* bound on the nesting of regions
          MaxTick              \* bound on the clock

ASSUME RcuAssumption ==
  /\ EpochTimeMultiplier \in Nat \ {0}
  /\ MaxDepth \in Nat \ {0}
  /\ MaxTick \in Nat \ {0}
  /\ NULL \notin Objects

VARIABLES
  slot,        \* rcu_stress_test_array, or any shared pointer of the engine
  free,        \* objects the allocator may hand out
  pc, depth,   \* where core c is; rcu::sync::depth_
  held,        \* objects core c has read in its open region
  victim,      \* object core c has unlinked and not yet handed to RCU
  queue,       \* rcu::sync::queue_
  scratch,     \* rcu::sync::scratch_, the part whose deleters have not run
  last_reaped  \* rcu::sync::last_reaped_epoch_

rcu_vars == <<slot, free, pc, depth, held, victim, queue, scratch, last_reaped>>
vars == <<clock_vars, rcu_vars>>

Init ==
  /\ ClockInit
  /\ slot = [s \in Slots |-> NULL]
  /\ free = Objects
  /\ pc = [c \in Cores |-> "out"]
  /\ depth = [c \in Cores |-> 0]
  /\ held = [c \in Cores |-> {}]
  /\ victim = [c \in Cores |-> NULL]
  /\ queue = [c \in Cores |-> <<>>]
  /\ scratch = [c \in Cores |-> <<>>]
  /\ last_reaped = [c \in Cores |-> 0]

to_rcu_ticks(t) == t \div EpochTimeMultiplier
cleaning_rcu_tick_exclusive == to_rcu_ticks(done + 1)

-----------------------------------------------------------------------------
(* Regions, and what a thread does inside one *)

Enter(c) ==            \* scoped_rcu_region: the outermost one opens a guard
  /\ pc[c] = "out"
  /\ Open(c)
  /\ pc' = [pc EXCEPT ![c] = "in"]
  /\ depth' = [depth EXCEPT ![c] = 1]
  /\ UNCHANGED <<slot, free, held, victim, queue, scratch, last_reaped>>

EnterNested(c) ==
  /\ pc[c] = "in"
  /\ depth[c] < MaxDepth
  /\ depth' = [depth EXCEPT ![c] = @ + 1]
  /\ UNCHANGED <<clock_vars, slot, free, pc, held, victim, queue, scratch, last_reaped>>

ReadSlot(c, s) ==
  /\ pc[c] = "in"
  /\ slot[s] # NULL
  /\ held' = [held EXCEPT ![c] = @ \cup {slot[s]}]
  /\ UNCHANGED <<clock_vars, slot, free, pc, depth, victim, queue, scratch, last_reaped>>

Publish(c, s) ==       \* alloc, then the store that makes the object visible
  /\ pc[c] = "in"
  /\ slot[s] = NULL
  /\ \E o \in free : slot' = [slot EXCEPT ![s] = o] /\ free' = free \ {o}
  /\ UNCHANGED <<clock_vars, pc, depth, held, victim, queue, scratch, last_reaped>>

Unlink(c, s) ==
  /\ pc[c] = "in"
  /\ slot[s] # NULL
  /\ slot' = [slot EXCEPT ![s] = NULL]
  /\ victim' = [victim EXCEPT ![c] = slot[s]]
  /\ pc' = [pc EXCEPT ![c] = "unlinked"]
  /\ UNCHANGED <<clock_vars, free, depth, held, queue, scratch, last_reaped>>

FreeAt(c, tick) ==
  /\ pc[c] = "unlinked"
  /\ queue' = [queue EXCEPT ![c] = Append(@, [obj |-> victim[c], tick |-> tick])]
  /\ victim' = [victim EXCEPT ![c] = NULL]
  /\ pc' = [pc EXCEPT ![c] = "in"]
  /\ UNCHANGED <<clock_vars, slot, free, depth, held, scratch, last_reaped>>

\* free_with_fn and dealloc_rcu: readers may be one tick ahead of this core.
FreeWithFnNow(c) == FreeAt(c, to_rcu_ticks(open[c]))  \* mutant: forgets that
FreeWithFn(c) == FreeAt(c, to_rcu_ticks(open[c] + 1))

ExitNested(c) ==
  /\ pc[c] = "in"
  /\ depth[c] > 1
  /\ depth' = [depth EXCEPT ![c] = @ - 1]
  /\ UNCHANGED <<clock_vars, slot, free, pc, held, victim, queue, scratch, last_reaped>>

\* ~scoped_rcu_base: the outermost region closes its guard, then cleans up.
Exit(c) ==
  /\ pc[c] = "in"
  /\ depth[c] = 1
  /\ Close(c)
  /\ pc' = [pc EXCEPT ![c] = "cleanup"]
  /\ depth' = [depth EXCEPT ![c] = 0]
  /\ held' = [held EXCEPT ![c] = {}]
  /\ UNCHANGED <<slot, free, victim, queue, scratch, last_reaped>>

-----------------------------------------------------------------------------
(* rcu::sync::do_cleanup *)

\* empty_accept_from: the groups at the head of the queue with a tick <= e.
IsAccepted(q, e, n) ==
  /\ \A i \in 1 .. n : q[i].tick <= e
  /\ n < Len(q) => q[n + 1].tick > e

KeepQueue(c, n) == queue[c]  \* mutant: leaves what it takes in the queue
Rest(c, n) == SubSeq(queue[c], n + 1, Len(queue[c]))

Reap(c, e) ==
  /\ last_reaped' = [last_reaped EXCEPT ![c] = e]
  /\ \E n \in 0 .. Len(queue[c]) :
       /\ IsAccepted(queue[c], e, n)
       /\ queue' = [queue EXCEPT ![c] = Rest(c, n)]
       /\ scratch' = [scratch EXCEPT ![c] = SubSeq(queue[c], 1, n)]
       /\ IF n = 0 THEN pc' = [pc EXCEPT ![c] = "out"] /\ UNCHANGED <<open, depth>>
          ELSE /\ pc' = [pc EXCEPT ![c] = "reap"]   \* its deleters run in a region
               /\ depth' = [depth EXCEPT ![c] = 1]
               /\ open' = [open EXCEPT ![c] = now]
  /\ UNCHANGED <<now, done, slot, free, held, victim>>

CleanupUnguarded(c) == \* mutant: no early return for the first RCU ticks
  pc[c] = "cleanup" /\ Reap(c, cleaning_rcu_tick_exclusive - 1)

CleanupInclusive(c) == \* mutant: remembers the exclusive tick as reaped
  /\ pc[c] = "cleanup"
  /\ cleaning_rcu_tick_exclusive # 0
  /\ last_reaped[c] # cleaning_rcu_tick_exclusive
  /\ Reap(c, cleaning_rcu_tick_exclusive)

Cleanup(c) ==
  /\ pc[c] = "cleanup"
  /\ cleaning_rcu_tick_exclusive # 0
  /\ last_reaped[c] # cleaning_rcu_tick_exclusive - 1
  /\ Reap(c, cleaning_rcu_tick_exclusive - 1)

NothingToClean(c) ==   \* the early returns
  /\ pc[c] = "cleanup"
  /\ cleaning_rcu_tick_exclusive = 0 \/ last_reaped[c] = cleaning_rcu_tick_exclusive - 1
  /\ pc' = [pc EXCEPT ![c] = "out"]
  /\ UNCHANGED <<clock_vars, slot, free, depth, held, victim, queue, scratch, last_reaped>>

RunDeleter(c) ==
  /\ pc[c] = "reap"
  /\ scratch[c] # <<>>
  /\ free' = free \cup {Head(scratch[c]).obj}
  /\ scratch' = [scratch EXCEPT ![c] = Tail(@)]
  /\ UNCHANGED <<clock_vars, slot, pc, depth, held, victim, queue, last_reaped>>

EndReap(c) ==          \* the region of the deleters ends, and cleans up again
  /\ pc[c] = "reap"
  /\ scratch[c] = <<>>
  /\ Close(c)
  /\ pc' = [pc EXCEPT ![c] = "cleanup"]
  /\ depth' = [depth EXCEPT ![c] = 0]
  /\ UNCHANGED <<slot, free, held, victim, queue, scratch, last_reaped>>

-----------------------------------------------------------------------------
RegionStep(c) ==
  \/ Enter(c) \/ EnterNested(c) \/ FreeWithFn(c) \/ ExitNested(c) \/ Exit(c)
  \/ \E s \in Slots : ReadSlot(c, s) \/ Publish(c, s) \/ Unlink(c, s)

CleanupStep(c) == Cleanup(c) \/ NothingToClean(c) \/ RunDeleter(c) \/ EndReap(c)

ClockStep ==
  /\ (now < MaxTick /\ Advance) \/ Declare
  /\ UNCHANGED rcu_vars

Next == (\E c \in Cores : RegionStep(c) \/ CleanupStep(c)) \/ ClockStep

Spec == Init /\ [][Next]_vars

-----------------------------------------------------------------------------
Entries == [obj : Objects, tick : Nat]

\* Every variable has its type; the reaped epoch does not wrap below zero.
TypeOK ==
  /\ now \in Nat /\ done \in Nat /\ open \in [Cores -> Nat]
  /\ slot \in [Slots -> Objects \cup {NULL}]
  /\ free \subseteq Objects
  /\ pc \in [Cores -> {"out", "in", "unlinked", "cleanup", "reap"}]
  /\ depth \in [Cores -> 0 .. MaxDepth]
  /\ held \in [Cores -> SUBSET Objects]
  /\ victim \in [Cores -> Objects \cup {NULL}]
  /\ queue \in [Cores -> Seq(Entries)]
  /\ scratch \in [Cores -> Seq(Entries)]
  /\ last_reaped \in [Cores -> Nat]

\* The stress test's magic number (rcu.cc:351): what a region has read is not
\* reclaimed before the region ends, whoever unlinked it and in whatever tick.
NoUseAfterFree == \A c \in Cores : held[c] \cap free = {}

InSlot(o) == \E s \in Slots : slot[s] = o

SlotsApart ==
  \A s \in Slots : slot[s] # NULL =>
    slot[s] \notin free /\ \A r \in Slots : slot[r] = slot[s] => r = s

VictimsApart ==
  \A c \in Cores : victim[c] # NULL =>
    victim[c] \notin free /\ ~ InSlot(victim[c]) /\ \A d \in Cores : victim[d] = victim[c] => d = c

QueuesApart ==
  \A c \in Cores : \A i \in DOMAIN queue[c] :
    LET o == queue[c][i].obj IN
    /\ o \notin free /\ ~ InSlot(o)
    /\ \A d \in Cores :
         /\ victim[d] # o
         /\ \A j \in DOMAIN queue[d] : queue[d][j].obj = o => d = c /\ j = i

ScratchApart ==
  \A c \in Cores : \A i \in DOMAIN scratch[c] :
    LET o == scratch[c][i].obj IN
    /\ o \notin free /\ ~ InSlot(o)
    /\ \A d \in Cores :
         /\ victim[d] # o
         /\ \A j \in DOMAIN queue[d] : queue[d][j].obj # o
         /\ \A j \in DOMAIN scratch[d] : scratch[d][j].obj = o => d = c /\ j = i

\* No object is reclaimed twice, or while a shared pointer leads to it: an
\* object is in the allocator, in one slot, or on its way through RCU once.
ReclaimedOnce == SlotsApart /\ VictimsApart /\ QueuesApart /\ ScratchApart

\* do_cleanup returns early when it has reaped an epoch already and stops at
\* the first younger group: neither leaves behind anything of a reaped epoch
\* (the initial 0 of last_reaped_epoch_ says that epoch 0 is not reaped yet).
NothingIsOverdue ==
  \A c \in Cores : last_reaped[c] # 0 =>
    \A i \in DOMAIN queue[c] : queue[c][i].tick > last_reaped[c]
=============================================================================
