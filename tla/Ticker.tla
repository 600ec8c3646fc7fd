------------------------------- MODULE Ticker -------------------------------
(***************************************************************************)
(* The epoch clock of the transaction engine (lcc/ticker.h).  One daemon   *)
(* thread advances current_tick and then visits every core; a worker that  *)
(* touches shared memory holds a guard, which pins the tick its core has   *)
(* seen.  last_tick_inclusive is what the rest of the engine (RCU, garbage *)
(* collection, snapshots) trusts: no guard of a tick <= it is still open.  *)
(*                                                                         *)
(* One action is one access to shared memory.  The local last_tick of      *)
(* tickerloop is current_tick - 1: the daemon is current_tick's only       *)
(* writer.                                                                 *)
(***************************************************************************)
EXTENDS Naturals

CONSTANTS NCores,      \* NMAXCORES: ticks_[0 .. NCores - 1]
          MaxDepth,    \* bound on the nesting of guards of one core
          MaxTick,     \* bound on current_tick
          FREE, DAEMON \* values of a lock that no core holds

Cores == 0 .. NCores - 1

ASSUME ConstantsAssumption ==
  /\ NCores \in Nat \ {0}
  /\ MaxDepth \in Nat \ {0}
  /\ MaxTick \in Nat \ {0}
  /\ FREE \notin Cores
  /\ DAEMON \notin Cores
  /\ FREE # DAEMON

VARIABLES
  current_tick,        \* ticker::current_tick_
  last_tick_inclusive, \* ticker::last_tick_inclusive_
  ti_tick,             \* ticks_[c].current_tick_
  ti_depth,            \* ticks_[c].depth_
  ti_lock,             \* ticks_[c].lock_: FREE, DAEMON or the core
  pc,                  \* where core c is in guard's constructor or destructor
  guard_tick,          \* tick_ of core c's guard object of depth d
  running,             \* workers still open new guards (bench.h running)
  tk_pc, tk_i          \* where the daemon is in tickerloop, and its index i

core_vars  == <<ti_depth, pc, guard_tick>>
daemon_vars == <<tk_pc, tk_i>>
vars == <<current_tick, last_tick_inclusive, ti_tick, ti_depth, ti_lock, pc,
          guard_tick, running, tk_pc, tk_i>>

Init ==
  /\ current_tick = 1
  /\ last_tick_inclusive = 0
  /\ ti_tick = [c \in Cores |-> 1]
  /\ ti_depth = [c \in Cores |-> 0]
  /\ ti_lock = [c \in Cores |-> FREE]
  /\ pc = [c \in Cores |-> "out"]
  /\ guard_tick = [c \in Cores |-> [d \in 1 .. MaxDepth |-> 0]]
  /\ running = TRUE
  /\ tk_pc = "sleep"
  /\ tk_i = 0

GlobalLastTickExclusive == last_tick_inclusive + 1

-----------------------------------------------------------------------------
(* A worker: ticker::guard                                                 *)

BumpDepth(c) ==      \* guard(): the outermost guard of the core
  /\ running
  /\ pc[c] = "out"
  /\ ti_depth' = [ti_depth EXCEPT ![c] = 1]
  /\ pc' = [pc EXCEPT ![c] = "lock"]
  /\ UNCHANGED <<current_tick, last_tick_inclusive, ti_tick, ti_lock,
                 guard_tick, running, daemon_vars>>

LockCore(c) ==
  /\ pc[c] = "lock"
  /\ ti_lock[c] = FREE
  /\ ti_lock' = [ti_lock EXCEPT ![c] = c]
  /\ pc' = [pc EXCEPT ![c] = "locked"]
  /\ UNCHANGED <<current_tick, last_tick_inclusive, ti_tick, ti_depth,
                 guard_tick, running, daemon_vars>>

ReadTick(c) ==
  /\ pc[c] = "locked"
  /\ guard_tick' = [guard_tick EXCEPT ![c][1] = current_tick]
  /\ pc' = [pc EXCEPT ![c] = "read"]
  /\ UNCHANGED <<current_tick, last_tick_inclusive, ti_tick, ti_depth,
                 ti_lock, running, daemon_vars>>

StoreTick(c) ==
  /\ pc[c] = "read"
  /\ ti_tick' = [ti_tick EXCEPT ![c] = guard_tick[c][1]]
  /\ pc' = [pc EXCEPT ![c] = "in"]
  /\ UNCHANGED <<current_tick, last_tick_inclusive, ti_depth, ti_lock,
                 guard_tick, running, daemon_vars>>

EnterNested(c) ==    \* guard(): prev_depth # 0, no lock is taken
  /\ pc[c] = "in"
  /\ ti_depth[c] < MaxDepth
  /\ ti_depth' = [ti_depth EXCEPT ![c] = @ + 1]
  /\ guard_tick' = [guard_tick EXCEPT ![c][ti_depth[c] + 1] = ti_tick[c]]
  /\ UNCHANGED <<current_tick, last_tick_inclusive, ti_tick, ti_lock, pc,
                 running, daemon_vars>>

ExitGuardLate(c) ==  \* mutant: tests the depth it has already dropped
  /\ pc[c] = "in"
  /\ ti_depth' = [ti_depth EXCEPT ![c] = @ - 1]
  /\ pc' = [pc EXCEPT ![c] = IF ti_depth[c] = 0 THEN "unlock" ELSE "in"]
  /\ UNCHANGED <<current_tick, last_tick_inclusive, ti_tick, ti_lock,
                 guard_tick, running, daemon_vars>>

ExitGuard(c) ==      \* ~guard(): drop the depth; the outermost one must unlock
  /\ pc[c] = "in"
  /\ ti_depth' = [ti_depth EXCEPT ![c] = @ - 1]
  /\ pc' = [pc EXCEPT ![c] = IF ti_depth[c] = 1 THEN "unlock" ELSE "in"]
  /\ UNCHANGED <<current_tick, last_tick_inclusive, ti_tick, ti_lock,
                 guard_tick, running, daemon_vars>>

UnlockCoreNever(c) == \* mutant: the outermost guard keeps the spinlock
  /\ pc[c] = "unlock"
  /\ pc' = [pc EXCEPT ![c] = "out"]
  /\ UNCHANGED <<current_tick, last_tick_inclusive, ti_tick, ti_lock, ti_depth,
                 guard_tick, running, daemon_vars>>

UnlockCore(c) ==
  /\ pc[c] = "unlock"
  /\ ti_lock' = [ti_lock EXCEPT ![c] = FREE]
  /\ pc' = [pc EXCEPT ![c] = "out"]
  /\ UNCHANGED <<current_tick, last_tick_inclusive, ti_tick, ti_depth,
                 guard_tick, running, daemon_vars>>

GuardStep(c) == \/ BumpDepth(c) \/ LockCore(c) \/ ReadTick(c) \/ StoreTick(c)
                \/ EnterNested(c) \/ ExitGuard(c) \/ UnlockCore(c)

Stop ==              \* the benchmark's run time is over
  /\ running
  /\ running' = FALSE
  /\ UNCHANGED <<current_tick, last_tick_inclusive, ti_tick, ti_lock,
                 core_vars, daemon_vars>>

-----------------------------------------------------------------------------
(* The daemon: ticker::tickerloop                                          *)

BumpTick ==
  /\ tk_pc = "sleep"
  /\ current_tick < MaxTick
  /\ current_tick' = current_tick + 1
  /\ tk_pc' = "check"
  /\ tk_i' = 0
  /\ UNCHANGED <<last_tick_inclusive, ti_tick, ti_lock, core_vars, running>>

AfterCore ==         \* the for loop's increment and its exit
  IF tk_i + 1 < NCores THEN tk_pc' = "check" /\ tk_i' = tk_i + 1
                       ELSE tk_pc' = "publish" /\ tk_i' = NCores

CheckCoreSkipsBusy == \* mutant: does not wait for a core inside a guard
  /\ tk_pc = "check"
  /\ IF ti_tick[tk_i] = current_tick \/ ti_lock[tk_i] # FREE
       THEN AfterCore
       ELSE tk_pc' = "lock" /\ UNCHANGED tk_i
  /\ UNCHANGED <<current_tick, last_tick_inclusive, ti_tick, ti_lock,
                 core_vars, running>>

CheckCore ==         \* the unlocked read of the core's tick
  /\ tk_pc = "check"
  /\ IF ti_tick[tk_i] = current_tick
       THEN AfterCore
       ELSE tk_pc' = "lock" /\ UNCHANGED tk_i
  /\ UNCHANGED <<current_tick, last_tick_inclusive, ti_tick, ti_lock,
                 core_vars, running>>

LockTickNoWait ==    \* mutant: pushes the core's tick without its lock
  /\ tk_pc = "lock"
  /\ tk_pc' = "store"
  /\ UNCHANGED <<current_tick, last_tick_inclusive, ti_tick, ti_lock,
                 core_vars, running, tk_i>>

LockTick ==
  /\ tk_pc = "lock"
  /\ ti_lock[tk_i] = FREE
  /\ ti_lock' = [ti_lock EXCEPT ![tk_i] = DAEMON]
  /\ tk_pc' = "store"
  /\ UNCHANGED <<current_tick, last_tick_inclusive, ti_tick, core_vars,
                 running, tk_i>>

PushTick ==
  /\ tk_pc = "store"
  /\ ti_tick' = [ti_tick EXCEPT ![tk_i] = current_tick]
  /\ tk_pc' = "unlock"
  /\ UNCHANGED <<current_tick, last_tick_inclusive, ti_lock, core_vars,
                 running, tk_i>>

UnlockTick ==
  /\ tk_pc = "unlock"
  /\ ti_lock' = [ti_lock EXCEPT ![tk_i] = FREE]
  /\ AfterCore
  /\ UNCHANGED <<current_tick, last_tick_inclusive, ti_tick, core_vars, running>>

PublishTickEarly ==  \* mutant: declares the current tick over
  /\ tk_pc = "publish"
  /\ last_tick_inclusive' = current_tick
  /\ tk_pc' = "sleep"
  /\ UNCHANGED <<current_tick, ti_tick, ti_lock, core_vars, running, tk_i>>

PublishTick ==
  /\ tk_pc = "publish"
  /\ last_tick_inclusive' = current_tick - 1
  /\ tk_pc' = "sleep"
  /\ UNCHANGED <<current_tick, ti_tick, ti_lock, core_vars, running, tk_i>>

DaemonStep == \/ BumpTick \/ CheckCore \/ LockTick
              \/ PushTick \/ UnlockTick \/ PublishTick

Next == \/ \E c \in Cores : GuardStep(c)
        \/ Stop
        \/ DaemonStep

(* The operating system runs every thread; a worker leaves its guards (it  *)
(* never stays in one for ever), and the run ends.  A spinlock promises no *)
(* more than weak fairness.                                                *)
Fairness ==
  /\ WF_vars(DaemonStep)
  /\ WF_vars(Stop)
  /\ \A c \in Cores : WF_vars(\/ LockCore(c) \/ ReadTick(c) \/ StoreTick(c)
                              \/ UnlockCore(c))
  /\ \A c \in Cores : WF_vars(ExitGuard(c))
  /\ \A c \in Cores : SF_vars(ExitGuard(c) /\ ti_depth[c] = 1)

Spec == Init /\ [][Next]_vars
FairSpec == Spec /\ Fairness

-----------------------------------------------------------------------------
HasLock == {"locked", "read", "in", "unlock"}

TypeOK ==
  /\ current_tick \in Nat \ {0}
  /\ last_tick_inclusive \in Nat
  /\ ti_tick \in [Cores -> Nat]
  /\ ti_depth \in [Cores -> 0 .. MaxDepth]
  /\ ti_lock \in [Cores -> Cores \cup {FREE, DAEMON}]
  /\ pc \in [Cores -> {"out", "lock"} \cup HasLock]
  /\ guard_tick \in [Cores -> [1 .. MaxDepth -> Nat]]
  /\ running \in BOOLEAN
  /\ tk_pc \in {"sleep", "check", "lock", "store", "unlock", "publish"}
  /\ tk_i \in 0 .. NCores

(* ticker.h:123 and the comment at 239: while a guard is open, its tick is *)
(* later than every tick the engine has been told is over.                 *)
OpenGuardsAreRecent ==
  \A c \in Cores : pc[c] = "in" =>
    \A d \in 1 .. ti_depth[c] : guard_tick[c][d] > last_tick_inclusive

(* A core's nested guards all carry the tick of the outermost one: nobody  *)
(* moves a core's tick while it is inside a guarded section.               *)
NestedGuardsAgree ==
  \A c \in Cores : pc[c] = "in" =>
    \A d \in 1 .. ti_depth[c] : guard_tick[c][d] = ti_tick[c]

(* ticker.h:208: whenever the daemon reads a core's tick, it is the last   *)
(* one or the current one, which is what rcu.cc:264 relies on.             *)
CoresWithinOneTick ==
  tk_pc \in {"check", "lock", "store"} =>
    \A c \in Cores : ti_tick[c] \in {current_tick - 1, current_tick}

(* ticker.h:46: the minimum over the cores is never behind the published   *)
(* exclusive bound.                                                        *)
PublishedIsBehindEveryCore ==
  \A c \in Cores : ti_tick[c] >= GlobalLastTickExclusive

(* Every tick is eventually published as over, once the run stops opening  *)
(* guards: the daemon is stuck on no core for ever.                        *)
EveryTickIsPublished ==
  \A t \in 1 .. MaxTick - 1 : (current_tick = t) ~> (last_tick_inclusive >= t)

(* The ticker implements the abstract clock: a section is open from the    *)
(* moment its guard reads the global tick until the outermost guard goes.  *)
OpenSection ==
  [c \in Cores |-> IF pc[c] \in {"read", "in"} THEN guard_tick[c][1] ELSE 0]

Clock == INSTANCE EpochClock WITH
  now <- current_tick, done <- last_tick_inclusive, open <- OpenSection

ImplementsClock == Clock!ClockSpec
=============================================================================
