---------------------------- MODULE TickerProofs ----------------------------
(***************************************************************************)
(* Proofs about the epoch clock, for any number of cores, any nesting of   *)
(* guards and any number of ticks.                                         *)
(***************************************************************************)
EXTENDS Ticker, TLAPS

(* Who holds a core's spinlock. *)
LockInv ==
  \A c \in Cores :
    /\ ti_lock[c] \in {FREE, DAEMON, c}
    /\ ti_lock[c] = c <=> pc[c] \in HasLock
    /\ ti_lock[c] = DAEMON <=> (tk_pc \in {"store", "unlock"} /\ tk_i = c)

(* How far the daemon's visit of the cores has come. *)
ScanInv ==
  /\ tk_pc \in {"check", "lock", "store", "unlock"} => tk_i \in Cores
  /\ tk_pc = "publish" => tk_i = NCores
  /\ tk_pc = "sleep" => /\ current_tick = last_tick_inclusive + 1
                        /\ \A c \in Cores : ti_tick[c] = current_tick
  /\ tk_pc # "sleep" =>
       /\ current_tick = last_tick_inclusive + 2
       /\ \A c \in Cores : /\ ti_tick[c] \in {current_tick - 1, current_tick}
                           /\ c < tk_i => ti_tick[c] = current_tick
  /\ tk_pc = "unlock" => ti_tick[tk_i] = current_tick

(* What a guard knows of its core's tick. *)
GuardInv ==
  \A c \in Cores :
    /\ pc[c] \in {"out", "unlock"} => ti_depth[c] = 0
    /\ pc[c] \in {"lock", "locked", "read"} => ti_depth[c] = 1
    /\ pc[c] = "read" => /\ ti_tick[c] <= guard_tick[c][1]
                         /\ guard_tick[c][1] <= current_tick
    /\ pc[c] = "in" => /\ ti_depth[c] >= 1
                       /\ \A d \in 1 .. ti_depth[c] :
                            guard_tick[c][d] = ti_tick[c]

IInv == TypeOK /\ LockInv /\ ScanInv /\ GuardInv

-----------------------------------------------------------------------------
(* The daemon's loop index: the next core, or the end of the array. *)
LEMMA NextIndex ==
  ASSUME NEW i \in Cores
  PROVE  /\ i + 1 \in 0 .. NCores
         /\ NCores \in 0 .. NCores
         /\ i + 1 < NCores => i + 1 \in Cores
         /\ ~(i + 1 < NCores) => \A c \in Cores : c < i \/ c = i
         /\ \A c \in Cores : c < i + 1 => c < i \/ c = i
  BY ConstantsAssumption DEF Cores

LEMMA InitEstablishes == Init => IInv
  <1> SUFFICES ASSUME Init PROVE IInv
    OBVIOUS
  <1> USE ConstantsAssumption DEF Init, Cores, HasLock
  <1>1. TypeOK
    BY DEF TypeOK
  <1>2. LockInv
    BY DEF LockInv
  <1>3. ScanInv
    BY DEF ScanInv
  <1>4. GuardInv
    BY DEF GuardInv
  <1>5. QED
    BY <1>1, <1>2, <1>3, <1>4 DEF IInv

(* Type correctness is preserved by every action on its own account, but   *)
(* for the depth, which needs GuardInv not to run below zero.              *)
LEMMA TypePreserved == IInv /\ [Next]_vars => TypeOK'
  <1> SUFFICES ASSUME IInv, [Next]_vars PROVE TypeOK'
    OBVIOUS
  <1>0. TypeOK /\ ScanInv /\ GuardInv
    BY DEF IInv
  <1> USE <1>0, ConstantsAssumption DEF TypeOK, HasLock, core_vars, daemon_vars
  <1>1. ASSUME NEW c \in Cores, BumpDepth(c) PROVE TypeOK'
    BY <1>1 DEF BumpDepth
  <1>2. ASSUME NEW c \in Cores, LockCore(c) PROVE TypeOK'
    BY <1>2 DEF LockCore
  <1>3. ASSUME NEW c \in Cores, ReadTick(c) PROVE TypeOK'
    BY <1>3 DEF ReadTick
  <1>4. ASSUME NEW c \in Cores, StoreTick(c) PROVE TypeOK'
    <2>1. guard_tick[c][1] \in Nat
      OBVIOUS
    <2>2. QED
      BY <1>4, <2>1 DEF StoreTick
  <1>5. ASSUME NEW c \in Cores, EnterNested(c) PROVE TypeOK'
    <2>1. /\ ti_depth[c] + 1 \in 1 .. MaxDepth
          /\ ti_tick[c] \in Nat
      BY <1>5 DEF EnterNested
    <2>2. guard_tick' \in [Cores -> [1 .. MaxDepth -> Nat]]
      BY <1>5, <2>1 DEF EnterNested
    <2>3. ti_depth' \in [Cores -> 0 .. MaxDepth]
      BY <1>5, <2>1 DEF EnterNested
    <2>4. QED
      BY <1>5, <2>2, <2>3 DEF EnterNested
  <1>6. ASSUME NEW c \in Cores, ExitGuard(c) PROVE TypeOK'
    <2>1. ti_depth[c] - 1 \in 0 .. MaxDepth
      BY <1>6 DEF ExitGuard, GuardInv
    <2>2. ti_depth' \in [Cores -> 0 .. MaxDepth]
      BY <1>6, <2>1 DEF ExitGuard
    <2>3. pc' \in [Cores -> {"out", "lock"} \cup HasLock]
      BY <1>6 DEF ExitGuard
    <2>4. QED
      BY <1>6, <2>2, <2>3 DEF ExitGuard
  <1>7. ASSUME NEW c \in Cores, UnlockCore(c) PROVE TypeOK'
    BY <1>7 DEF UnlockCore
  <1>8. CASE Stop
    BY <1>8 DEF Stop
  <1>9. CASE BumpTick
    BY <1>9 DEF BumpTick
  <1>10. CASE CheckCore
    <2>1. tk_pc' \in {"check", "publish", "lock"} /\ tk_i' \in 0 .. NCores
      BY <1>10, NextIndex DEF CheckCore, AfterCore, ScanInv
    <2>2. QED
      BY <1>10, <2>1 DEF CheckCore
  <1>11. CASE LockTick
    BY <1>11 DEF LockTick, AfterCore, ScanInv
  <1>12. CASE PushTick
    BY <1>12 DEF PushTick, AfterCore, ScanInv
  <1>13. CASE UnlockTick
    <2>1. tk_pc' \in {"check", "publish"} /\ tk_i' \in 0 .. NCores
      BY <1>13, NextIndex DEF UnlockTick, AfterCore, ScanInv
    <2>2. ti_lock' \in [Cores -> Cores \cup {FREE, DAEMON}]
      BY <1>13 DEF UnlockTick
    <2>3. QED
      BY <1>13, <2>1, <2>2 DEF UnlockTick
  <1>14. CASE PublishTick
    <2>1. current_tick - 1 \in Nat
      OBVIOUS
    <2>2. QED
      BY <1>14, <2>1 DEF PublishTick
  <1>15. CASE UNCHANGED vars
    BY <1>15 DEF vars
  <1>16. QED
    BY <1>1, <1>2, <1>3, <1>4, <1>5, <1>6, <1>7, <1>8, <1>9, <1>10, <1>11, <1>12, <1>13, <1>14, <1>15 DEF Next, GuardStep, DaemonStep

LEMMA LockPreserved == IInv /\ [Next]_vars => LockInv'
  <1> SUFFICES ASSUME IInv, [Next]_vars PROVE LockInv'
    OBVIOUS
  <1> USE ConstantsAssumption DEF IInv, TypeOK, LockInv, HasLock, core_vars, daemon_vars
  <1>1. ASSUME NEW c \in Cores, BumpDepth(c) PROVE LockInv'
    BY <1>1 DEF BumpDepth
  <1>2. ASSUME NEW c \in Cores, LockCore(c) PROVE LockInv'
    BY <1>2 DEF LockCore
  <1>3. ASSUME NEW c \in Cores, ReadTick(c) PROVE LockInv'
    BY <1>3 DEF ReadTick
  <1>4. ASSUME NEW c \in Cores, StoreTick(c) PROVE LockInv'
    BY <1>4 DEF StoreTick
  <1>5. ASSUME NEW c \in Cores, EnterNested(c) PROVE LockInv'
    BY <1>5 DEF EnterNested
  <1>6. ASSUME NEW c \in Cores, ExitGuard(c) PROVE LockInv'
    BY <1>6 DEF ExitGuard
  <1>7. ASSUME NEW c \in Cores, UnlockCore(c) PROVE LockInv'
    BY <1>7 DEF UnlockCore
  <1>8. CASE Stop
    BY <1>8 DEF Stop, ScanInv
  <1>9. CASE BumpTick
    BY <1>9 DEF BumpTick, ScanInv
  <1>10. CASE CheckCore
    BY <1>10 DEF CheckCore, AfterCore, ScanInv
  <1>11. CASE LockTick
    BY <1>11 DEF LockTick, ScanInv
  <1>12. CASE PushTick
    BY <1>12 DEF PushTick, ScanInv
  <1>13. CASE UnlockTick
    <2>1. tk_i \in Cores /\ ti_lock[tk_i] = DAEMON
      BY <1>13 DEF UnlockTick, ScanInv
    <2>2. tk_pc' \in {"check", "publish"}
      BY <1>13 DEF UnlockTick, AfterCore
    <2>3. ASSUME NEW k \in Cores
          PROVE  /\ ti_lock'[k] = IF k = tk_i THEN FREE ELSE ti_lock[k]
                 /\ pc'[k] = pc[k]
      BY <1>13, <2>1 DEF UnlockTick
    <2>4. QED
      BY <1>13, <2>1, <2>2, <2>3 DEF UnlockTick
  <1>14. CASE PublishTick
    BY <1>14 DEF PublishTick, ScanInv
  <1>15. CASE UNCHANGED vars
    BY <1>15 DEF vars
  <1>16. QED
    BY <1>1, <1>2, <1>3, <1>4, <1>5, <1>6, <1>7, <1>8, <1>9, <1>10, <1>11, <1>12, <1>13, <1>14, <1>15 DEF Next, GuardStep, DaemonStep

LEMMA ScanPreserved == IInv /\ [Next]_vars => ScanInv'
  <1> SUFFICES ASSUME IInv, [Next]_vars PROVE ScanInv'
    OBVIOUS
  <1> USE ConstantsAssumption DEF IInv, TypeOK, LockInv, ScanInv, GuardInv, HasLock, core_vars, daemon_vars
  <1>1. ASSUME NEW c \in Cores, BumpDepth(c) PROVE ScanInv'
    BY <1>1 DEF BumpDepth
  <1>2. ASSUME NEW c \in Cores, LockCore(c) PROVE ScanInv'
    BY <1>2 DEF LockCore
  <1>3. ASSUME NEW c \in Cores, ReadTick(c) PROVE ScanInv'
    BY <1>3 DEF ReadTick
  <1>4. ASSUME NEW c \in Cores, StoreTick(c) PROVE ScanInv'
    <2>1. /\ ti_tick[c] <= guard_tick[c][1]
          /\ guard_tick[c][1] <= current_tick
          /\ guard_tick[c][1] \in Nat
      BY <1>4 DEF StoreTick
    <2>2. ASSUME NEW k \in Cores
          PROVE  ti_tick'[k] = IF k = c THEN guard_tick[c][1] ELSE ti_tick[k]
      BY <1>4 DEF StoreTick
    <2>3. tk_pc = "unlock" => tk_i # c
      BY <1>4 DEF StoreTick
    <2>4. QED
      BY <1>4, <2>1, <2>2, <2>3 DEF StoreTick
  <1>5. ASSUME NEW c \in Cores, EnterNested(c) PROVE ScanInv'
    BY <1>5 DEF EnterNested
  <1>6. ASSUME NEW c \in Cores, ExitGuard(c) PROVE ScanInv'
    BY <1>6 DEF ExitGuard
  <1>7. ASSUME NEW c \in Cores, UnlockCore(c) PROVE ScanInv'
    BY <1>7 DEF UnlockCore
  <1>8. CASE Stop
    BY <1>8 DEF Stop
  <1>9. CASE BumpTick
    BY <1>9 DEF BumpTick, Cores
  <1>10. CASE CheckCore
    <2>1. tk_i \in Cores /\ UNCHANGED <<current_tick, last_tick_inclusive, ti_tick>>
      BY <1>10 DEF CheckCore
    <2>2. CASE ti_tick[tk_i] = current_tick /\ tk_i + 1 < NCores
      <3>1. tk_pc' = "check" /\ tk_i' = tk_i + 1 /\ tk_i' \in Cores
        BY <1>10, <2>1, <2>2, NextIndex DEF CheckCore, AfterCore
      <3>2. \A c \in Cores : c < tk_i' => ti_tick[c] = current_tick
        BY <1>10, <2>1, <2>2, <3>1, NextIndex DEF CheckCore
      <3>3. QED
        BY <1>10, <2>1, <3>1, <3>2 DEF CheckCore
    <2>3. CASE ti_tick[tk_i] = current_tick /\ ~(tk_i + 1 < NCores)
      <3>1. tk_pc' = "publish" /\ tk_i' = NCores
        BY <1>10, <2>1, <2>3 DEF CheckCore, AfterCore
      <3>2. \A c \in Cores : ti_tick[c] = current_tick
        BY <1>10, <2>1, <2>3, NextIndex DEF CheckCore
      <3>3. QED
        BY <1>10, <2>1, <3>1, <3>2 DEF CheckCore
    <2>4. CASE ti_tick[tk_i] # current_tick
      BY <1>10, <2>1, <2>4 DEF CheckCore
    <2>5. QED
      BY <2>2, <2>3, <2>4
  <1>11. CASE LockTick
    BY <1>11 DEF LockTick
  <1>12. CASE PushTick
    BY <1>12 DEF PushTick
  <1>13. CASE UnlockTick
    <2>1. /\ tk_i \in Cores /\ ti_tick[tk_i] = current_tick
          /\ UNCHANGED <<current_tick, last_tick_inclusive, ti_tick>>
      BY <1>13 DEF UnlockTick
    <2>2. CASE tk_i + 1 < NCores
      <3>1. tk_pc' = "check" /\ tk_i' = tk_i + 1 /\ tk_i' \in Cores
        BY <1>13, <2>1, <2>2, NextIndex DEF UnlockTick, AfterCore
      <3>2. \A c \in Cores : c < tk_i' => ti_tick[c] = current_tick
        BY <1>13, <2>1, <2>2, <3>1, NextIndex DEF UnlockTick
      <3>3. QED
        BY <1>13, <2>1, <3>1, <3>2 DEF UnlockTick
    <2>3. CASE ~(tk_i + 1 < NCores)
      <3>1. tk_pc' = "publish" /\ tk_i' = NCores
        BY <1>13, <2>1, <2>3 DEF UnlockTick, AfterCore
      <3>2. \A c \in Cores : ti_tick[c] = current_tick
        BY <1>13, <2>1, <2>3, NextIndex DEF UnlockTick
      <3>3. QED
        BY <1>13, <2>1, <3>1, <3>2 DEF UnlockTick
    <2>4. QED
      BY <2>2, <2>3
  <1>14. CASE PublishTick
    BY <1>14 DEF PublishTick, Cores
  <1>15. CASE UNCHANGED vars
    BY <1>15 DEF vars
  <1>16. QED
    BY <1>1, <1>2, <1>3, <1>4, <1>5, <1>6, <1>7, <1>8, <1>9, <1>10, <1>11, <1>12, <1>13, <1>14, <1>15 DEF Next, GuardStep, DaemonStep

LEMMA GuardPreserved == IInv /\ [Next]_vars => GuardInv'
  <1> SUFFICES ASSUME IInv, [Next]_vars PROVE GuardInv'
    OBVIOUS
  <1> USE ConstantsAssumption DEF IInv, TypeOK, LockInv, ScanInv, GuardInv, HasLock, core_vars, daemon_vars
  <1>1. ASSUME NEW c \in Cores, BumpDepth(c) PROVE GuardInv'
    BY <1>1 DEF BumpDepth
  <1>2. ASSUME NEW c \in Cores, LockCore(c) PROVE GuardInv'
    BY <1>2 DEF LockCore
  <1>3. ASSUME NEW c \in Cores, ReadTick(c) PROVE GuardInv'
    <2>1. ASSUME NEW k \in Cores
          PROVE  /\ pc'[k] = IF k = c THEN "read" ELSE pc[k]
                 /\ k = c => guard_tick'[k][1] = current_tick
                 /\ k # c => guard_tick'[k] = guard_tick[k]
      BY <1>3 DEF ReadTick
    <2>2. ti_tick[c] <= current_tick
      BY <1>3
    <2>3. QED
      BY <1>3, <2>1, <2>2 DEF ReadTick
  <1>4. ASSUME NEW c \in Cores, StoreTick(c) PROVE GuardInv'
    BY <1>4 DEF StoreTick
  <1>5. ASSUME NEW c \in Cores, EnterNested(c) PROVE GuardInv'
    <2>1. ti_depth[c] + 1 \in 1 .. MaxDepth
      BY <1>5 DEF EnterNested
    <2>2. /\ ti_depth'[c] = ti_depth[c] + 1
          /\ \A d \in 1 .. ti_depth[c] + 1 : guard_tick'[c][d] = ti_tick[c]
      BY <1>5, <2>1 DEF EnterNested
    <2>3. \A k \in Cores \ {c} : /\ ti_depth'[k] = ti_depth[k]
                                 /\ guard_tick'[k] = guard_tick[k]
      BY <1>5 DEF EnterNested
    <2>4. UNCHANGED <<pc, ti_tick, current_tick>> /\ pc[c] = "in"
      BY <1>5 DEF EnterNested
    <2>5. ti_depth'[c] >= 1 /\ \A d \in 1 .. ti_depth'[c] :
                                 guard_tick'[c][d] = ti_tick'[c]
      BY <2>1, <2>2, <2>4
    <2>6. QED
      BY <2>3, <2>4, <2>5, SMTT(30)
  <1>6. ASSUME NEW c \in Cores, ExitGuard(c) PROVE GuardInv'
    <2>1. /\ ti_depth[c] \in 1 .. MaxDepth
          /\ ti_depth'[c] = ti_depth[c] - 1
          /\ pc'[c] = IF ti_depth[c] = 1 THEN "unlock" ELSE "in"
      BY <1>6 DEF ExitGuard
    <2>2. \A k \in Cores \ {c} : ti_depth'[k] = ti_depth[k] /\ pc'[k] = pc[k]
      BY <1>6 DEF ExitGuard
    <2>3. QED
      BY <1>6, <2>1, <2>2 DEF ExitGuard
  <1>7. ASSUME NEW c \in Cores, UnlockCore(c) PROVE GuardInv'
    BY <1>7 DEF UnlockCore
  <1>8. CASE Stop
    BY <1>8 DEF Stop
  <1>9. CASE BumpTick
    BY <1>9 DEF BumpTick
  <1>10. CASE CheckCore
    BY <1>10 DEF CheckCore, AfterCore
  <1>11. CASE LockTick
    BY <1>11 DEF LockTick
  <1>12. CASE PushTick
    <2>1. tk_i \in Cores /\ pc[tk_i] \notin HasLock
      BY <1>12 DEF PushTick
    <2>2. \A k \in Cores \ {tk_i} : ti_tick'[k] = ti_tick[k]
      BY <1>12, <2>1 DEF PushTick
    <2>3. QED
      BY <1>12, <2>1, <2>2, SMTT(30) DEF PushTick
  <1>13. CASE UnlockTick
    BY <1>13 DEF UnlockTick, AfterCore
  <1>14. CASE PublishTick
    BY <1>14 DEF PublishTick
  <1>15. CASE UNCHANGED vars
    BY <1>15 DEF vars
  <1>16. QED
    BY <1>1, <1>2, <1>3, <1>4, <1>5, <1>6, <1>7, <1>8, <1>9, <1>10, <1>11, <1>12, <1>13, <1>14, <1>15 DEF Next, GuardStep, DaemonStep

-----------------------------------------------------------------------------
(* The arithmetic core: a core's tick is beyond what has been declared over. *)
LEMMA CoresAreAhead ==
  ASSUME IInv, NEW c \in Cores
  PROVE  /\ ti_tick[c] \in Nat
         /\ last_tick_inclusive \in Nat
         /\ ti_tick[c] >= last_tick_inclusive + 1
  <1>1. /\ ti_tick[c] \in Nat
        /\ last_tick_inclusive \in Nat
        /\ current_tick \in Nat
    BY DEF IInv, TypeOK
  <1>2. CASE tk_pc = "sleep"
    <2>1. current_tick = last_tick_inclusive + 1 /\ ti_tick[c] = current_tick
      BY <1>2 DEF IInv, ScanInv
    <2>2. QED
      BY <1>1, <2>1
  <1>3. CASE tk_pc # "sleep"
    <2>1. /\ current_tick = last_tick_inclusive + 2
          /\ ti_tick[c] \in {current_tick - 1, current_tick}
      BY <1>3 DEF IInv, ScanInv
    <2>2. QED
      BY <1>1, <2>1
  <1>4. QED
    BY <1>2, <1>3

(* The inductive invariant holds in every behaviour of the clock. *)
THEOREM InvariantHolds == Spec => []IInv
  <1>1. Init => IInv
    BY InitEstablishes
  <1>2. IInv /\ [Next]_vars => IInv'
    BY TypePreserved, LockPreserved, ScanPreserved, GuardPreserved DEF IInv
  <1>3. QED
    BY <1>1, <1>2, PTL DEF Spec

(* Type correctness of the epoch clock. *)
THEOREM TypeCorrect == Spec => []TypeOK
  <1>1. IInv => TypeOK
    BY DEF IInv
  <1>2. QED
    BY <1>1, InvariantHolds, PTL

(* ticker.h:123: no open guard's tick has been declared over, whatever the *)
(* number of cores and the depth of the nesting.                           *)
THEOREM OpenGuardsAreRecentHolds == Spec => []OpenGuardsAreRecent
  <1>1. IInv => OpenGuardsAreRecent
    <2> SUFFICES ASSUME IInv, NEW c \in Cores, pc[c] = "in",
                        NEW d \in 1 .. ti_depth[c]
                 PROVE  guard_tick[c][d] > last_tick_inclusive
      BY DEF OpenGuardsAreRecent
    <2>1. guard_tick[c][d] = ti_tick[c] /\ ti_tick[c] \in Nat
      BY DEF IInv, GuardInv, TypeOK
    <2>2. QED
      BY <2>1, CoresAreAhead
  <1>2. QED
    BY <1>1, InvariantHolds, PTL

(* The guards of one core all carry its tick: no tick is moved under them. *)
THEOREM NestedGuardsAgreeHolds == Spec => []NestedGuardsAgree
  <1>1. IInv => NestedGuardsAgree
    BY DEF IInv, GuardInv, NestedGuardsAgree
  <1>2. QED
    BY <1>1, InvariantHolds, PTL

(* ticker.h:208: every tick the daemon finds is the last or the current.   *)
THEOREM CoresWithinOneTickHolds == Spec => []CoresWithinOneTick
  <1>1. IInv => CoresWithinOneTick
    BY DEF IInv, ScanInv, CoresWithinOneTick
  <1>2. QED
    BY <1>1, InvariantHolds, PTL

(* ticker.h:46: no core is behind the published exclusive bound.           *)
THEOREM PublishedIsBehindEveryCoreHolds == Spec => []PublishedIsBehindEveryCore
  <1>1. IInv => PublishedIsBehindEveryCore
    BY CoresAreAhead DEF PublishedIsBehindEveryCore, GlobalLastTickExclusive
  <1>2. QED
    BY <1>1, InvariantHolds, PTL

-----------------------------------------------------------------------------
(* Refinement: the initial state is an initial state of the abstract       *)
(* clock, and every step is a step of it or a stutter.                     *)

LEMMA InitRefines == Init => Clock!ClockInit
  BY DEF Init, Clock!ClockInit, OpenSection

(* What PublishTick needs: at the end of the scan no open section is older *)
(* than the current tick.                                                  *)
LEMMA ScanDrains ==
  ASSUME IInv, tk_pc = "publish", NEW c \in Cores
  PROVE  OpenSection[c] \in {0, current_tick}
  <1>1. /\ ti_tick[c] = current_tick
        /\ current_tick \in Nat
        /\ guard_tick[c][1] \in Nat
    <2>1. c < NCores /\ 1 \in 1 .. MaxDepth
      BY ConstantsAssumption DEF Cores
    <2>2. QED
      BY <2>1, ZenonT(30) DEF IInv, ScanInv, TypeOK
  <1>2. pc[c] = "read" => guard_tick[c][1] = current_tick
    BY <1>1 DEF IInv, GuardInv
  <1>3. pc[c] = "in" => guard_tick[c][1] = current_tick
    <2> SUFFICES ASSUME pc[c] = "in" PROVE guard_tick[c][1] = ti_tick[c]
      BY <1>1
    <2>1. 1 \in 1 .. ti_depth[c]
      BY DEF IInv, GuardInv, TypeOK
    <2>2. QED
      BY <2>1 DEF IInv, GuardInv
  <1>4. QED
    BY <1>2, <1>3 DEF OpenSection

(* Only these actions open, close, advance or declare; a step that leaves  *)
(* pc[c] on the same side of the section and guard_tick[c][1] alone        *)
(* stutters.                                                               *)
LEMMA StepRefines == IInv /\ [Next]_vars => [Clock!ClockNext]_(Clock!clock_vars)
  <1> SUFFICES ASSUME IInv, [Next]_vars
               PROVE  [Clock!ClockNext]_(Clock!clock_vars)
    OBVIOUS
  <1> DEFINE Stutter == UNCHANGED <<current_tick, last_tick_inclusive, OpenSection>>
  <1>0. Stutter => [Clock!ClockNext]_(Clock!clock_vars)
    BY DEF Clock!clock_vars
  <1>a. TypeOK /\ LockInv /\ ScanInv /\ GuardInv
    BY DEF IInv
  <1>1. ASSUME NEW c \in Cores, BumpDepth(c) PROVE Stutter
    BY <1>1, <1>a DEF BumpDepth, OpenSection, TypeOK
  <1>2. ASSUME NEW c \in Cores, LockCore(c) PROVE Stutter
    BY <1>2, <1>a DEF LockCore, OpenSection, TypeOK
  <1>3. ASSUME NEW c \in Cores, ReadTick(c) PROVE Clock!ClockNext
    <2>1. OpenSection[c] = 0
      BY <1>3, <1>a DEF ReadTick, OpenSection, TypeOK
    <2>2. OpenSection' = [OpenSection EXCEPT ![c] = current_tick]
      <3>1. 1 \in 1 .. MaxDepth
        BY ConstantsAssumption
      <3>2. guard_tick'[c][1] = current_tick /\ pc'[c] = "read"
        BY <1>3, <1>a, <3>1 DEF ReadTick, TypeOK
      <3>3. \A k \in Cores \ {c} : guard_tick'[k] = guard_tick[k] /\ pc'[k] = pc[k]
        BY <1>3, <1>a DEF ReadTick, TypeOK
      <3>4. QED
        BY <3>2, <3>3 DEF OpenSection
    <2>3. QED
      BY <1>3, <2>1, <2>2 DEF ReadTick, Clock!ClockNext, Clock!Open
  <1>4. ASSUME NEW c \in Cores, StoreTick(c) PROVE Stutter
    BY <1>4, <1>a DEF StoreTick, OpenSection, TypeOK
  <1>5. ASSUME NEW c \in Cores, EnterNested(c) PROVE Stutter
    <2>1. ti_depth[c] \in Nat /\ ti_depth[c] >= 1
      BY <1>5, <1>a DEF EnterNested, GuardInv, TypeOK
    <2>2. \A k \in Cores : guard_tick'[k][1] = guard_tick[k][1]
      BY <1>5, <1>a, <2>1 DEF EnterNested, TypeOK
    <2>3. QED
      BY <1>5, <2>2 DEF EnterNested, OpenSection
  <1>6. ASSUME NEW c \in Cores, ExitGuard(c)
        PROVE  Clock!ClockNext \/ Stutter
    <2>1. CASE ti_depth[c] = 1
      <3>1. OpenSection[c] = guard_tick[c][1]
        BY <1>6 DEF ExitGuard, OpenSection
      <3>2. guard_tick[c][1] = ti_tick[c] /\ ti_tick[c] # 0
        BY <1>6, <1>a, <2>1, CoresAreAhead DEF ExitGuard, GuardInv
      <3>3. OpenSection' = [OpenSection EXCEPT ![c] = 0]
        BY <1>6, <1>a, <2>1 DEF ExitGuard, OpenSection, TypeOK
      <3>4. QED
        BY <1>6, <3>1, <3>2, <3>3 DEF ExitGuard, Clock!ClockNext, Clock!Close
    <2>2. CASE ti_depth[c] # 1
      BY <1>6, <1>a, <2>2 DEF ExitGuard, OpenSection, TypeOK
    <2>3. QED
      BY <2>1, <2>2
  <1>7. ASSUME NEW c \in Cores, UnlockCore(c) PROVE Stutter
    BY <1>7, <1>a DEF UnlockCore, OpenSection, TypeOK
  <1>8. CASE Stop
    BY <1>0, <1>8 DEF Stop, OpenSection, core_vars
  <1>9. CASE BumpTick
    <2>1. last_tick_inclusive = current_tick - 1
      BY <1>9, <1>a DEF BumpTick, ScanInv, TypeOK
    <2>2. QED
      BY <1>9, <2>1 DEF BumpTick, OpenSection, core_vars,
                        Clock!ClockNext, Clock!Advance
  <1>10. CASE CheckCore
    BY <1>0, <1>10 DEF CheckCore, OpenSection, core_vars
  <1>11. CASE LockTick
    BY <1>0, <1>11 DEF LockTick, OpenSection, core_vars
  <1>12. CASE PushTick
    BY <1>0, <1>12 DEF PushTick, OpenSection, core_vars
  <1>13. CASE UnlockTick
    BY <1>0, <1>13 DEF UnlockTick, OpenSection, core_vars
  <1>14. CASE PublishTick
    <2>1. \A c \in Cores : OpenSection[c] \in {0, current_tick}
      BY <1>14, ScanDrains DEF PublishTick
    <2>2. QED
      BY <1>14, <2>1 DEF PublishTick, OpenSection, core_vars,
                         Clock!ClockNext, Clock!Declare
  <1>15. CASE UNCHANGED vars
    BY <1>0, <1>15 DEF vars, OpenSection
  <1>16. QED
    BY <1>0, <1>1, <1>2, <1>3, <1>4, <1>5, <1>6, <1>7, <1>8, <1>9, <1>10,
       <1>11, <1>12, <1>13, <1>14, <1>15 DEF Next, GuardStep, DaemonStep

(* The ticker implements the abstract clock.                               *)
THEOREM TickerImplementsClock == Spec => ImplementsClock
  <1>1. QED
    BY InitRefines, StepRefines, InvariantHolds, PTL
    DEF Spec, ImplementsClock, Clock!ClockSpec
=============================================================================
