------------------------------- MODULE RcuProofs -------------------------------
(***************************************************************************)
(* Safety of deferred reclamation for any number of cores, shared pointers *)
(* and objects, any EpochTimeMultiplier and any nesting of regions.        *)
(***************************************************************************)
EXTENDS Rcu, TLAPS

LEMMA DivMonotone ==
  ASSUME NEW a \in Nat, NEW b \in Nat, a <= b
  PROVE  to_rcu_ticks(a) <= to_rcu_ticks(b)
  BY RcuAssumption, SMT DEF to_rcu_ticks

LEMMA DivType ==
  ASSUME NEW a \in Nat
  PROVE  to_rcu_ticks(a) \in Nat
  BY RcuAssumption, SMT DEF to_rcu_ticks

-----------------------------------------------------------------------------
(* What do_cleanup takes from the queue and what it leaves. *)
LEMMA Split ==
  ASSUME NEW c \in Cores, NEW n \in 0 .. Len(queue[c]),
         queue[c] \in Seq(Entries)
  PROVE  /\ Rest(c, n) \in Seq(Entries)
         /\ SubSeq(queue[c], 1, n) \in Seq(Entries)
         /\ \A i \in DOMAIN SubSeq(queue[c], 1, n) :
              i \in DOMAIN queue[c] /\ i <= n /\ SubSeq(queue[c], 1, n)[i] = queue[c][i]
         /\ \A i \in DOMAIN Rest(c, n) :
              i + n \in DOMAIN queue[c] /\ Rest(c, n)[i] = queue[c][i + n]
  <1> DEFINE q == queue[c]
  <1> HIDE DEF q
  <1>1. q \in Seq(Entries) /\ n \in 0 .. Len(q)
    BY DEF q
  <1>2. SubSeq(q, 1, n) \in Seq(Entries) /\ SubSeq(q, n + 1, Len(q)) \in Seq(Entries)
    BY <1>1, SMT
  <1>3. \A i \in DOMAIN SubSeq(q, 1, n) :
          i \in DOMAIN q /\ i <= n /\ SubSeq(q, 1, n)[i] = q[i]
    BY <1>1, SMT
  <1>4. \A i \in DOMAIN SubSeq(q, n + 1, Len(q)) :
          i + n \in DOMAIN q /\ SubSeq(q, n + 1, Len(q))[i] = q[i + n]
    BY <1>1, SMT
  <1>. QED  BY <1>2, <1>3, <1>4 DEF q, Rest

-----------------------------------------------------------------------------
(* The clock and the control state. *)

ClockInv ==
  /\ done < now /\ now <= done + 2
  /\ \A c \in Cores : open[c] # 0 => done < open[c] /\ open[c] <= now

PcInv ==
  \A c \in Cores :
    /\ pc[c] \in {"in", "unlinked", "reap"} <=> open[c] # 0
    /\ held[c] # {} => pc[c] \in {"in", "unlinked"}
    /\ victim[c] # NULL <=> pc[c] = "unlinked"
    /\ scratch[c] # <<>> => pc[c] = "reap"

LEMMA InitType == Init => TypeOK
  BY RcuAssumption DEF Init, ClockInit, TypeOK

LEMMA ReapType ==
  ASSUME TypeOK, NEW c \in Cores, NEW e \in Nat, Reap(c, e)
  PROVE  TypeOK'
  <1>1. PICK n \in 0 .. Len(queue[c]) :
          /\ queue' = [queue EXCEPT ![c] = Rest(c, n)]
          /\ scratch' = [scratch EXCEPT ![c] = SubSeq(queue[c], 1, n)]
          /\ IF n = 0 THEN pc' = [pc EXCEPT ![c] = "out"] /\ UNCHANGED <<open, depth>>
             ELSE /\ pc' = [pc EXCEPT ![c] = "reap"]
                  /\ depth' = [depth EXCEPT ![c] = 1]
                  /\ open' = [open EXCEPT ![c] = now]
    BY DEF Reap
  <1>2. Rest(c, n) \in Seq(Entries) /\ SubSeq(queue[c], 1, n) \in Seq(Entries)
    BY Split DEF TypeOK
  <1>3. queue' \in [Cores -> Seq(Entries)] /\ scratch' \in [Cores -> Seq(Entries)]
    BY <1>1, <1>2 DEF TypeOK
  <1>4. /\ pc' \in [Cores -> {"out", "in", "unlinked", "cleanup", "reap"}]
        /\ depth' \in [Cores -> 0 .. MaxDepth] /\ open' \in [Cores -> Nat]
    <2>1. 1 \in 0 .. MaxDepth
      BY RcuAssumption
    <2>2. CASE n = 0
      BY <1>1, <2>2 DEF TypeOK
    <2>3. CASE n # 0
      BY <1>1, <2>1, <2>3 DEF TypeOK
    <2>. QED  BY <2>2, <2>3
  <1>5. last_reaped' \in [Cores -> Nat]
    BY DEF TypeOK, Reap
  <1>. QED  BY <1>3, <1>4, <1>5 DEF TypeOK, Reap

Base == TypeOK /\ ClockInv /\ PcInv

LEMMA BaseInit == Init => Base
  BY InitType DEF Base, Init, ClockInit, ClockInv, PcInv

LEMMA ReapBase ==
  ASSUME Base, NEW c \in Cores, NEW e \in Nat, pc[c] = "cleanup", Reap(c, e)
  PROVE  ClockInv' /\ PcInv'
  <1>1. PICK n \in 0 .. Len(queue[c]) :
          /\ scratch' = [scratch EXCEPT ![c] = SubSeq(queue[c], 1, n)]
          /\ IF n = 0 THEN pc' = [pc EXCEPT ![c] = "out"] /\ UNCHANGED <<open, depth>>
             ELSE /\ pc' = [pc EXCEPT ![c] = "reap"]
                  /\ depth' = [depth EXCEPT ![c] = 1]
                  /\ open' = [open EXCEPT ![c] = now]
    BY DEF Reap
  <1>2. n = 0 => SubSeq(queue[c], 1, n) = <<>>
    BY SMT DEF Base, TypeOK
  <1>3. ClockInv'
    <2>1. now' = now /\ done' = done
      BY DEF Reap
    <2>2. \A d \in Cores : open'[d] \in {open[d], now}
      BY <1>1 DEF Base, TypeOK
    <2>3. \A d \in Cores : open[d] # 0 => done < open[d] /\ open[d] <= now
      BY DEF Base, ClockInv
    <2>4. now \in Nat /\ done \in Nat /\ done < now /\ now <= done + 2
      BY DEF Base, ClockInv, TypeOK
    <2>5. \A d \in Cores : open'[d] # 0 => done < open'[d] /\ open'[d] <= now
      BY <2>2, <2>3, <2>4
    <2>. QED  BY <2>1, <2>4, <2>5 DEF ClockInv
  <1>4. PcInv'
    BY <1>1, <1>2, SMTT(30) DEF Base, TypeOK, ClockInv, PcInv, Reap
  <1>. QED  BY <1>3, <1>4

LEMMA HeadTail ==
  ASSUME NEW q \in Seq(Entries), q # <<>>
  PROVE  /\ 1 \in DOMAIN q /\ Head(q) = q[1] /\ Head(q) \in Entries
         /\ Tail(q) \in Seq(Entries)
         /\ \A i \in DOMAIN Tail(q) : i + 1 \in DOMAIN q /\ Tail(q)[i] = q[i + 1]
         /\ \A i \in DOMAIN q : q[i] \in Entries
  OBVIOUS

LEMMA CleanTick ==
  ASSUME TypeOK, NEW c \in Cores, Cleanup(c)
  PROVE  cleaning_rcu_tick_exclusive - 1 \in Nat
  <1>1. done + 1 \in Nat
    BY DEF TypeOK
  <1>2. cleaning_rcu_tick_exclusive \in Nat
    BY <1>1, DivType DEF cleaning_rcu_tick_exclusive
  <1>. QED  BY <1>2 DEF Cleanup

LEMMA BaseNext == Base /\ [Next]_vars => Base'
  <1> SUFFICES ASSUME Base, [Next]_vars PROVE Base'
    OBVIOUS
  <1> USE RcuAssumption DEF Base
  <1>1. ASSUME NEW c \in Cores, Enter(c) PROVE Base'
    <2>1. 1 \in 0 .. MaxDepth
      OBVIOUS
    <2>2. now # 0
      BY DEF TypeOK, ClockInv
    <2>3. TypeOK'
      BY <1>1, <2>1 DEF TypeOK, Enter, Open
    <2>4. ClockInv'
      BY <1>1 DEF TypeOK, ClockInv, Enter, Open
    <2>5. PcInv'
      BY <1>1, <2>2 DEF TypeOK, PcInv, Enter, Open
    <2>. QED  BY <2>3, <2>4, <2>5
  <1>2. ASSUME NEW c \in Cores, EnterNested(c) PROVE Base'
    BY <1>2 DEF TypeOK, ClockInv, PcInv, EnterNested, clock_vars
  <1>3. ASSUME NEW c \in Cores, FreeWithFn(c) PROVE Base'
    <2>1. victim[c] \in Objects /\ open[c] \in Nat /\ queue[c] \in Seq(Entries)
      BY <1>3 DEF FreeWithFn, FreeAt, TypeOK, PcInv
    <2>2. to_rcu_ticks(open[c] + 1) \in Nat
      BY <2>1, DivType
    <2>3. Append(queue[c], [obj |-> victim[c], tick |-> to_rcu_ticks(open[c] + 1)]) \in Seq(Entries)
      BY <2>1, <2>2 DEF Entries
    <2>. QED
      BY <1>3, <2>3 DEF FreeWithFn, FreeAt, TypeOK, ClockInv, PcInv, clock_vars
  <1>4. ASSUME NEW c \in Cores, ExitNested(c) PROVE Base'
    BY <1>4 DEF TypeOK, ClockInv, PcInv, ExitNested, clock_vars
  <1>5. ASSUME NEW c \in Cores, Exit(c) PROVE Base'
    BY <1>5 DEF TypeOK, ClockInv, PcInv, Exit, Close
  <1>6. ASSUME NEW c \in Cores, NEW s \in Slots, ReadSlot(c, s) PROVE Base'
    BY <1>6 DEF TypeOK, ClockInv, PcInv, ReadSlot, clock_vars
  <1>7. ASSUME NEW c \in Cores, NEW s \in Slots, Publish(c, s) PROVE Base'
    BY <1>7 DEF TypeOK, ClockInv, PcInv, Publish, clock_vars
  <1>8. ASSUME NEW c \in Cores, NEW s \in Slots, Unlink(c, s) PROVE Base'
    BY <1>8 DEF TypeOK, ClockInv, PcInv, Unlink, clock_vars
  <1>9. ASSUME NEW c \in Cores, Cleanup(c) PROVE Base'
    <2>1. cleaning_rcu_tick_exclusive - 1 \in Nat
      BY <1>9, CleanTick
    <2>. QED  BY <1>9, <2>1, ReapType, ReapBase DEF Cleanup
  <1>10. ASSUME NEW c \in Cores, NothingToClean(c) PROVE Base'
    BY <1>10 DEF TypeOK, ClockInv, PcInv, NothingToClean, clock_vars
  <1>11. ASSUME NEW c \in Cores, RunDeleter(c) PROVE Base'
    <2>1. scratch[c] \in Seq(Entries)
      BY DEF TypeOK
    <2>2. Head(scratch[c]).obj \in Objects /\ Tail(scratch[c]) \in Seq(Entries)
      BY <1>11, <2>1, HeadTail DEF RunDeleter, Entries
    <2>3. free' \subseteq Objects /\ scratch' \in [Cores -> Seq(Entries)]
      BY <1>11, <2>2 DEF RunDeleter, TypeOK
    <2>4. TypeOK'
      BY <1>11, <2>3 DEF RunDeleter, TypeOK, clock_vars
    <2>5. ClockInv' /\ PcInv'
      BY <1>11 DEF RunDeleter, TypeOK, ClockInv, PcInv, clock_vars
    <2>. QED  BY <2>4, <2>5
  <1>12. ASSUME NEW c \in Cores, EndReap(c) PROVE Base'
    BY <1>12 DEF TypeOK, ClockInv, PcInv, EndReap, Close
  <1>13. CASE ClockStep
    BY <1>13 DEF TypeOK, ClockInv, PcInv, ClockStep, Advance, Declare, rcu_vars
  <1>14. CASE UNCHANGED vars
    BY <1>14 DEF TypeOK, ClockInv, PcInv, vars, clock_vars, rcu_vars
  <1>. QED
    BY <1>1, <1>2, <1>3, <1>4, <1>5, <1>6, <1>7, <1>8, <1>9, <1>10, <1>11, <1>12,
       <1>13, <1>14 DEF Next, RegionStep, CleanupStep

-----------------------------------------------------------------------------
(* Every object is in one place. *)

LEMMA OnceInit == Init => ReclaimedOnce
  BY RcuAssumption DEF Init, ReclaimedOnce, SlotsApart, VictimsApart, QueuesApart, ScratchApart

LEMMA OnceSame ==
  ASSUME ReclaimedOnce, UNCHANGED <<slot, free, victim, queue, scratch>>
  PROVE  ReclaimedOnce'
  BY DEF ReclaimedOnce, SlotsApart, VictimsApart, QueuesApart, ScratchApart, InSlot

LEMMA EntryTypes ==
  ASSUME TypeOK
  PROVE  /\ \A c \in Cores : \A i \in DOMAIN queue[c] :
              queue[c][i].obj \in Objects /\ queue[c][i].tick \in Nat
         /\ \A c \in Cores : \A i \in DOMAIN scratch[c] :
              scratch[c][i].obj \in Objects /\ scratch[c][i].tick \in Nat
  <1>1. ASSUME NEW q \in Seq(Entries), NEW i \in DOMAIN q
        PROVE  q[i].obj \in Objects /\ q[i].tick \in Nat
    <2>1. q[i] \in Entries
      OBVIOUS
    <2>. QED  BY <2>1 DEF Entries
  <1>. QED  BY <1>1 DEF TypeOK

LEMMA OncePublish ==
  ASSUME TypeOK, ReclaimedOnce, NEW c \in Cores, NEW s \in Slots, Publish(c, s)
  PROVE  ReclaimedOnce'
  <1>1. PICK o \in free : slot' = [slot EXCEPT ![s] = o] /\ free' = free \ {o}
    BY DEF Publish
  <1>2. slot'[s] = o /\ \A r \in Slots : r # s => slot'[r] = slot[r]
    BY <1>1 DEF TypeOK
  <1>3. victim' = victim /\ queue' = queue /\ scratch' = scratch /\ o \in Objects
    BY <1>1 DEF Publish, TypeOK
  <1>4. \A x : InSlot(x)' => x = o \/ InSlot(x)
    BY <1>2 DEF InSlot
  <1>5. SlotsApart'
    BY <1>1, <1>2 DEF ReclaimedOnce, SlotsApart
  <1>6. VictimsApart'
    BY <1>1, <1>3, <1>4 DEF ReclaimedOnce, VictimsApart
  <1>7. QueuesApart'
    BY <1>1, <1>3, <1>4 DEF ReclaimedOnce, QueuesApart
  <1>8. ScratchApart'
    BY <1>1, <1>3, <1>4 DEF ReclaimedOnce, ScratchApart
  <1>. QED  BY <1>5, <1>6, <1>7, <1>8 DEF ReclaimedOnce

LEMMA OnceUnlink ==
  ASSUME TypeOK, ReclaimedOnce, NEW c \in Cores, NEW s \in Slots, Unlink(c, s)
  PROVE  ReclaimedOnce'
  <1>0. PICK o : o = slot[s]
    OBVIOUS
  <1>1. o \in Objects /\ o # NULL /\ InSlot(o)
    BY <1>0 DEF Unlink, TypeOK, InSlot
  <1>2. slot'[s] = NULL /\ \A r \in Slots : r # s => slot'[r] = slot[r]
    BY DEF Unlink, TypeOK
  <1>3. victim'[c] = o /\ \A d \in Cores : d # c => victim'[d] = victim[d]
    BY <1>0 DEF Unlink, TypeOK
  <1>4. free' = free /\ queue' = queue /\ scratch' = scratch
    BY DEF Unlink
  <1>5. \A x : x # NULL /\ InSlot(x)' => InSlot(x)
    BY <1>2 DEF InSlot
  <1>6. ~ InSlot(o)'
    BY <1>0, <1>1, <1>2 DEF InSlot, ReclaimedOnce, SlotsApart
  <1>7. o \notin free
    BY <1>0, <1>1 DEF ReclaimedOnce, SlotsApart
  <1>8. SlotsApart'
    BY <1>2, <1>4 DEF ReclaimedOnce, SlotsApart
  <1>9. VictimsApart'
    BY <1>1, <1>3, <1>4, <1>5, <1>6, <1>7 DEF ReclaimedOnce, VictimsApart
  <1>10. QueuesApart'
    BY <1>1, <1>3, <1>4, <1>5, EntryTypes, RcuAssumption DEF ReclaimedOnce, QueuesApart
  <1>11. ScratchApart'
    BY <1>1, <1>3, <1>4, <1>5, EntryTypes, RcuAssumption DEF ReclaimedOnce, ScratchApart
  <1>. QED  BY <1>8, <1>9, <1>10, <1>11 DEF ReclaimedOnce

LEMMA OnceFree ==
  ASSUME Base, ReclaimedOnce, NEW c \in Cores, FreeWithFn(c)
  PROVE  ReclaimedOnce'
  <1> DEFINE o == victim[c]
             e == [obj |-> o, tick |-> to_rcu_ticks(open[c] + 1)]
  <1>1. o \in Objects /\ o # NULL
    BY DEF Base, TypeOK, PcInv, FreeWithFn, FreeAt
  <1>2. victim'[c] = NULL /\ \A d \in Cores : d # c => victim'[d] = victim[d]
    BY DEF Base, TypeOK, FreeWithFn, FreeAt
  <1>3. slot' = slot /\ free' = free /\ scratch' = scratch
    BY DEF FreeWithFn, FreeAt
  <1>4. queue'[c] = Append(queue[c], e) /\ \A d \in Cores : d # c => queue'[d] = queue[d]
    BY DEF Base, TypeOK, FreeWithFn, FreeAt
  <1>5. e.obj = o
    OBVIOUS
  <1> HIDE DEF e
  <1>6. \A i \in DOMAIN queue'[c] :
          \/ i = Len(queue[c]) + 1 /\ queue'[c][i] = e
          \/ i \in DOMAIN queue[c] /\ queue'[c][i] = queue[c][i]
    BY <1>4 DEF Base, TypeOK
  <1>7. o \notin free /\ ~ InSlot(o) /\ \A d \in Cores : victim'[d] # o
    BY <1>1, <1>2, RcuAssumption DEF ReclaimedOnce, VictimsApart
  <1>8. /\ \A d \in Cores : \A i \in DOMAIN queue[d] : queue[d][i].obj # o
        /\ \A d \in Cores : \A i \in DOMAIN scratch[d] : scratch[d][i].obj # o
    BY DEF ReclaimedOnce, QueuesApart, ScratchApart
  <1> HIDE DEF o
  <1>9. SlotsApart'
    BY <1>3 DEF ReclaimedOnce, SlotsApart
  <1>10. VictimsApart'
    BY <1>2, <1>3 DEF ReclaimedOnce, VictimsApart, InSlot
  <1>11. \A d \in Cores : \A i \in DOMAIN queue'[d] :
           \/ d = c /\ i = Len(queue[c]) + 1 /\ queue'[d][i].obj = o
           \/ i \in DOMAIN queue[d] /\ queue'[d][i].obj = queue[d][i].obj
    BY <1>4, <1>5, <1>6
  <1>12. \A d \in Cores : victim'[d] \in {victim[d], NULL}
    BY <1>2
  <1>13. QueuesApart'
    <2>1. SUFFICES ASSUME NEW d \in Cores, NEW i \in DOMAIN queue'[d]
                   PROVE  LET x == queue'[d][i].obj IN
                          /\ x \notin free /\ ~ InSlot(x)
                          /\ \A b \in Cores :
                               /\ victim'[b] # x
                               /\ \A j \in DOMAIN queue'[b] :
                                    queue'[b][j].obj = x => b = d /\ j = i
      BY <1>3 DEF QueuesApart, InSlot
    <2>2. CASE d = c /\ i = Len(queue[c]) + 1 /\ queue'[d][i].obj = o
      BY <2>2, <1>7, <1>8, <1>11
    <2>3. CASE i \in DOMAIN queue[d] /\ queue'[d][i].obj = queue[d][i].obj
      <3>1. queue[d][i].obj # o /\ queue[d][i].obj # NULL
        BY <2>3, <1>8, EntryTypes, RcuAssumption DEF Base
      <3>. QED  BY <2>3, <3>1, <1>11, <1>12 DEF ReclaimedOnce, QueuesApart
    <2>. QED  BY <2>2, <2>3, <1>11
  <1>14. ScratchApart'
    BY <1>3, <1>8, <1>11, <1>12, EntryTypes, RcuAssumption
       DEF ReclaimedOnce, ScratchApart, InSlot, Base
  <1>. QED  BY <1>9, <1>10, <1>13, <1>14 DEF ReclaimedOnce

LEMMA OnceReap ==
  ASSUME Base, ReclaimedOnce, NEW c \in Cores, NEW e \in Nat, pc[c] = "cleanup", Reap(c, e)
  PROVE  ReclaimedOnce'
  <1>1. PICK n \in 0 .. Len(queue[c]) :
          /\ queue' = [queue EXCEPT ![c] = Rest(c, n)]
          /\ scratch' = [scratch EXCEPT ![c] = SubSeq(queue[c], 1, n)]
    BY DEF Reap
  <1>2. n \in Nat /\ queue[c] \in Seq(Entries) /\ scratch[c] = <<>>
    BY DEF Base, TypeOK, PcInv
  <1>3. /\ \A i \in DOMAIN SubSeq(queue[c], 1, n) :
             i \in DOMAIN queue[c] /\ i <= n /\ SubSeq(queue[c], 1, n)[i] = queue[c][i]
        /\ \A i \in DOMAIN Rest(c, n) :
             i + n \in DOMAIN queue[c] /\ Rest(c, n)[i] = queue[c][i + n]
    BY <1>2, Split
  <1>4. /\ queue'[c] = Rest(c, n) /\ scratch'[c] = SubSeq(queue[c], 1, n)
        /\ \A d \in Cores : d # c => queue'[d] = queue[d] /\ scratch'[d] = scratch[d]
    BY <1>1 DEF Base, TypeOK
  <1>5. /\ DOMAIN queue[c] \subseteq Nat
        /\ DOMAIN SubSeq(queue[c], 1, n) \subseteq Nat \ {0}
        /\ DOMAIN Rest(c, n) \subseteq Nat \ {0}
    <2>1. Rest(c, n) \in Seq(Entries) /\ SubSeq(queue[c], 1, n) \in Seq(Entries)
      BY <1>2, Split
    <2>. QED  BY <1>2, <2>1
  <1>6. slot' = slot /\ free' = free /\ victim' = victim
    BY DEF Reap
  <1>7. SlotsApart' /\ VictimsApart'
    BY <1>6 DEF ReclaimedOnce, SlotsApart, VictimsApart, InSlot
  \* where the entries of the queues and of scratch were before
  <1>8. \A d \in Cores : \A i \in DOMAIN queue'[d] :
          \/ d # c /\ i \in DOMAIN queue[d] /\ queue'[d][i] = queue[d][i]
          \/ d = c /\ i + n \in DOMAIN queue[c] /\ queue'[d][i] = queue[c][i + n] /\ i \in Nat \ {0}
    BY <1>3, <1>4, <1>5
  <1>9. \A d \in Cores : \A i \in DOMAIN scratch'[d] :
          \/ d # c /\ i \in DOMAIN scratch[d] /\ scratch'[d][i] = scratch[d][i]
          \/ d = c /\ i \in DOMAIN queue[c] /\ scratch'[d][i] = queue[c][i] /\ i <= n /\ i \in Nat
    BY <1>3, <1>4, <1>5
  <1>10. \A i, j \in Nat : i + n = j + n => i = j
    BY <1>2
  <1>11. \A i \in Nat \ {0} : \A j \in Nat : j <= n => i + n # j
    BY <1>2
  <1>12. ASSUME NEW d \in Cores, NEW i \in DOMAIN queue'[d]
         PROVE  LET o == queue'[d][i].obj IN
                /\ o \notin free /\ ~ InSlot(o)
                /\ \A b \in Cores :
                     /\ victim[b] # o
                     /\ \A j \in DOMAIN queue'[b] : queue'[b][j].obj = o => b = d /\ j = i
    <2>1. \A b \in Cores : \A j \in DOMAIN queue'[b] : \E k \in DOMAIN queue[b] :
            queue'[b][j] = queue[b][k] /\ IF b = c THEN k = j + n ELSE k = j
      BY <1>8
    <2>2. PICK k \in DOMAIN queue[d] :
            queue'[d][i] = queue[d][k] /\ IF d = c THEN k = i + n ELSE k = i
      BY <2>1
    <2>3. ASSUME NEW b \in Cores, NEW j \in DOMAIN queue'[b],
                 queue'[b][j].obj = queue'[d][i].obj
          PROVE  b = d /\ j = i
      <3>1. PICK m \in DOMAIN queue[b] :
              queue'[b][j] = queue[b][m] /\ IF b = c THEN m = j + n ELSE m = j
        BY <2>1
      <3>2. b = d /\ m = k
        BY <2>2, <2>3, <3>1 DEF ReclaimedOnce, QueuesApart
      <3>. QED  BY <2>2, <3>1, <3>2, <1>8, <1>10
    <2>. QED  BY <2>2, <2>3 DEF ReclaimedOnce, QueuesApart
  <1>13. QueuesApart'
    BY <1>6, <1>12 DEF QueuesApart, InSlot
  <1>14. ASSUME NEW d \in Cores, NEW i \in DOMAIN scratch'[d]
         PROVE  LET o == scratch'[d][i].obj IN
                /\ o \notin free /\ ~ InSlot(o)
                /\ \A b \in Cores :
                     /\ victim[b] # o
                     /\ \A j \in DOMAIN queue'[b] : queue'[b][j].obj # o
                     /\ \A j \in DOMAIN scratch'[b] : scratch'[b][j].obj = o => b = d /\ j = i
    <2>1. CASE d # c
      BY <2>1, <1>8, <1>9, SMTT(30) DEF ReclaimedOnce, ScratchApart
    <2>2. CASE d = c
      <3>1. i \in DOMAIN queue[c] /\ scratch'[d][i] = queue[c][i] /\ i <= n /\ i \in Nat
        BY <2>2, <1>9
      <3>2. \A b \in Cores : \A j \in DOMAIN scratch[b] : scratch[b][j].obj # queue[c][i].obj
        BY <3>1 DEF ReclaimedOnce, ScratchApart
      <3>3. \A b \in Cores : \A j \in DOMAIN queue'[b] : queue'[b][j].obj # queue[c][i].obj
        BY <3>1, <1>8, <1>11 DEF ReclaimedOnce, QueuesApart
      <3>. QED  BY <2>2, <3>1, <3>2, <3>3, <1>9 DEF ReclaimedOnce, QueuesApart
    <2>. QED  BY <2>1, <2>2
  <1>15. ScratchApart'
    BY <1>6, <1>14 DEF ScratchApart, InSlot
  <1>. QED  BY <1>7, <1>13, <1>15 DEF ReclaimedOnce

LEMMA OnceRun ==
  ASSUME Base, ReclaimedOnce, NEW c \in Cores, RunDeleter(c)
  PROVE  ReclaimedOnce'
  <1>1. scratch[c] \in Seq(Entries) /\ scratch[c] # <<>>
    BY DEF Base, TypeOK, RunDeleter
  <1>2. PICK o : o = scratch[c][1].obj
    OBVIOUS
  <1>3. /\ 1 \in DOMAIN scratch[c] /\ Head(scratch[c]) = scratch[c][1]
        /\ \A i \in DOMAIN Tail(scratch[c]) :
             i + 1 \in DOMAIN scratch[c] /\ Tail(scratch[c])[i] = scratch[c][i + 1]
    BY <1>1, HeadTail
  <1>4. DOMAIN Tail(scratch[c]) \subseteq Nat \ {0}
    BY <1>1
  <1>5. free' = free \cup {o} /\ slot' = slot /\ victim' = victim /\ queue' = queue
    BY <1>2, <1>3 DEF RunDeleter
  <1>6. /\ scratch'[c] = Tail(scratch[c])
        /\ \A d \in Cores : d # c => scratch'[d] = scratch[d]
    BY DEF Base, TypeOK, RunDeleter
  <1>7. \A d \in Cores : \A i \in DOMAIN scratch'[d] :
          \/ d # c /\ i \in DOMAIN scratch[d] /\ scratch'[d][i] = scratch[d][i]
          \/ /\ d = c /\ i + 1 \in DOMAIN scratch[c]
             /\ scratch'[d][i] = scratch[c][i + 1] /\ i \in Nat \ {0}
    BY <1>3, <1>4, <1>6
  <1>8. /\ ~ InSlot(o) /\ \A d \in Cores : victim[d] # o
        /\ \A d \in Cores : \A i \in DOMAIN queue[d] : queue[d][i].obj # o
        /\ \A d \in Cores : \A i \in DOMAIN scratch[d] :
             scratch[d][i].obj = o => d = c /\ i = 1
    BY <1>2, <1>3 DEF ReclaimedOnce, ScratchApart
  <1>9. SlotsApart' /\ VictimsApart'
    BY <1>5, <1>8 DEF ReclaimedOnce, SlotsApart, VictimsApart, InSlot
  <1>10. QueuesApart'
    <2>1. \A d \in Cores : \A i \in DOMAIN queue[d] :
            queue[d][i].obj \notin free \cup {o}
      BY <1>8 DEF ReclaimedOnce, QueuesApart
    <2>. QED  BY <1>5, <2>1 DEF ReclaimedOnce, QueuesApart, InSlot
  <1>11. \A i \in Nat \ {0} : i + 1 # 1
    OBVIOUS
  <1>12. \A i, j \in Nat : i + 1 = j + 1 => i = j
    OBVIOUS
  <1>13. ASSUME NEW d \in Cores, NEW i \in DOMAIN scratch'[d]
         PROVE  LET x == scratch'[d][i].obj IN
                /\ x # o /\ x \notin free /\ ~ InSlot(x)
                /\ \A b \in Cores :
                     /\ victim[b] # x
                     /\ \A j \in DOMAIN queue[b] : queue[b][j].obj # x
                     /\ \A j \in DOMAIN scratch'[b] : scratch'[b][j].obj = x => b = d /\ j = i
    BY <1>7, <1>8, <1>11, <1>12 DEF ReclaimedOnce, ScratchApart
  <1>14. ScratchApart'
    BY <1>5, <1>13 DEF ScratchApart, InSlot
  <1>. QED  BY <1>9, <1>10, <1>14 DEF ReclaimedOnce

LEMMA OnceNext == Base /\ ReclaimedOnce /\ [Next]_vars => ReclaimedOnce'
  <1> SUFFICES ASSUME Base, ReclaimedOnce, [Next]_vars PROVE ReclaimedOnce'
    OBVIOUS
  <1>1. ASSUME NEW c \in Cores,
               \/ Enter(c) \/ EnterNested(c) \/ ExitNested(c) \/ Exit(c)
               \/ NothingToClean(c) \/ EndReap(c) \/ \E s \in Slots : ReadSlot(c, s)
        PROVE  ReclaimedOnce'
    BY <1>1, OnceSame DEF Enter, EnterNested, ExitNested, Exit, NothingToClean, EndReap, ReadSlot
  <1>2. CASE ClockStep \/ UNCHANGED vars
    BY <1>2, OnceSame DEF ClockStep, vars, rcu_vars
  <1>3. ASSUME NEW c \in Cores, Cleanup(c) PROVE ReclaimedOnce'
    <2>1. cleaning_rcu_tick_exclusive - 1 \in Nat
      BY <1>3, CleanTick DEF Base
    <2>. QED  BY <1>3, <2>1, OnceReap DEF Cleanup
  <1>. QED
    BY <1>1, <1>2, <1>3, OncePublish, OnceUnlink, OnceFree, OnceRun
       DEF Next, RegionStep, CleanupStep, Base

-----------------------------------------------------------------------------
(* The grace period: a reader of a retired object is no younger than the    *)
(* epoch the object waits for, so cleanup finds it gone.                    *)

GracePeriod ==
  /\ \A c, d \in Cores : \A i \in DOMAIN queue[c] :
       queue[c][i].obj \in held[d] => to_rcu_ticks(open[d]) <= queue[c][i].tick
  /\ \A c, d \in Cores : \A i \in DOMAIN scratch[c] : scratch[c][i].obj \notin held[d]

IInv == Base /\ ReclaimedOnce /\ NoUseAfterFree /\ GracePeriod

LEMMA GraceInit == Init => NoUseAfterFree /\ GracePeriod
  BY DEF Init, NoUseAfterFree, GracePeriod

\* A step that leaves the objects where they are and holds no new one.
LEMMA GraceSame ==
  ASSUME IInv, UNCHANGED <<free, queue, scratch>>,
         \A d \in Cores : held'[d] = {} \/ (held'[d] = held[d] /\ open'[d] = open[d])
  PROVE  NoUseAfterFree' /\ GracePeriod'
  <1>1. NoUseAfterFree'
    BY DEF IInv, NoUseAfterFree
  <1>2. \A d \in Cores, o \in Objects :
          o \in held'[d] => o \in held[d] /\ open'[d] = open[d]
    OBVIOUS
  <1>3. GracePeriod'
    BY <1>2, EntryTypes DEF IInv, Base, GracePeriod, to_rcu_ticks
  <1>. QED  BY <1>1, <1>3

LEMMA GraceRead ==
  ASSUME IInv, NEW c \in Cores, NEW s \in Slots, ReadSlot(c, s)
  PROVE  NoUseAfterFree' /\ GracePeriod'
  <1>1. PICK o : o = slot[s]
    OBVIOUS
  <1>2. /\ o # NULL /\ o \notin free /\ InSlot(o)
        /\ free' = free /\ queue' = queue /\ scratch' = scratch /\ open' = open
    BY <1>1 DEF ReadSlot, InSlot, IInv, ReclaimedOnce, SlotsApart, clock_vars
  <1>3. \A d \in Cores : \A x : x \in held'[d] => x = o \/ x \in held[d]
    BY <1>1 DEF ReadSlot, IInv, Base, TypeOK
  <1>4. NoUseAfterFree'
    BY <1>2, <1>3 DEF IInv, NoUseAfterFree
  <1>5. /\ \A d \in Cores : \A i \in DOMAIN queue[d] : queue[d][i].obj # o
        /\ \A d \in Cores : \A i \in DOMAIN scratch[d] : scratch[d][i].obj # o
    BY <1>2 DEF IInv, ReclaimedOnce, QueuesApart, ScratchApart
  <1>6. GracePeriod'
    BY <1>2, <1>3, <1>5 DEF IInv, GracePeriod, to_rcu_ticks
  <1>. QED  BY <1>4, <1>6

\* The epoch that free_with_fn waits for: no core is more than one tick ahead.
LEMMA GraceFree ==
  ASSUME IInv, NEW c \in Cores, FreeWithFn(c)
  PROVE  NoUseAfterFree' /\ GracePeriod'
  <1>1. PICK e : e = [obj |-> victim[c], tick |-> to_rcu_ticks(open[c] + 1)]
    OBVIOUS
  <1>2. /\ free' = free /\ scratch' = scratch /\ held' = held /\ open' = open
        /\ queue'[c] = Append(queue[c], e)
        /\ \A d \in Cores : d # c => queue'[d] = queue[d]
    BY <1>1 DEF FreeWithFn, FreeAt, clock_vars, IInv, Base, TypeOK
  <1>3. \A i \in DOMAIN queue'[c] :
          queue'[c][i] = e \/ (i \in DOMAIN queue[c] /\ queue'[c][i] = queue[c][i])
    <2>1. queue[c] \in Seq(Entries)
      BY DEF IInv, Base, TypeOK
    <2>2. queue'[c] = Append(queue[c], e)
      BY <1>2
    <2>. QED  BY <2>1, <2>2
  <1>4. ASSUME NEW d \in Cores PROVE to_rcu_ticks(open[d]) <= e.tick
    <2>1. open[d] \in Nat /\ open[c] \in Nat /\ open[d] <= open[c] + 1
      BY SMTT(30) DEF IInv, Base, TypeOK, ClockInv, PcInv, FreeWithFn, FreeAt
    <2>. QED  BY <1>1, <2>1, DivMonotone
  <1>5. NoUseAfterFree'
    BY <1>2 DEF IInv, NoUseAfterFree
  <1>6. ASSUME NEW a \in Cores, NEW d \in Cores, NEW i \in DOMAIN queue'[a],
               queue'[a][i].obj \in held[d]
        PROVE  to_rcu_ticks(open[d]) <= queue'[a][i].tick
    BY <1>2, <1>3, <1>4, <1>6 DEF IInv, GracePeriod
  <1>7. GracePeriod'
    BY <1>2, <1>6 DEF IInv, GracePeriod, to_rcu_ticks
  <1>. QED  BY <1>5, <1>7

LEMMA GraceReap ==
  ASSUME IInv, NEW c \in Cores, Cleanup(c)
  PROVE  NoUseAfterFree' /\ GracePeriod'
  <1>1. PICK e : e = cleaning_rcu_tick_exclusive - 1
    OBVIOUS
  <1>2. Reap(c, e) /\ e \in Nat /\ pc[c] = "cleanup"
    BY <1>1, CleanTick DEF Cleanup, IInv, Base
  <1>3. PICK n \in 0 .. Len(queue[c]) :
          /\ IsAccepted(queue[c], e, n)
          /\ queue' = [queue EXCEPT ![c] = Rest(c, n)]
          /\ scratch' = [scratch EXCEPT ![c] = SubSeq(queue[c], 1, n)]
          /\ IF n = 0 THEN UNCHANGED open ELSE open' = [open EXCEPT ![c] = now]
    BY <1>2 DEF Reap
  <1>4. /\ free' = free /\ held' = held /\ held[c] = {}
        /\ \A d \in Cores : d # c => open'[d] = open[d]
    BY <1>2, <1>3 DEF Reap, IInv, Base, PcInv, TypeOK
  <1>5. /\ \A i \in DOMAIN SubSeq(queue[c], 1, n) :
             i \in DOMAIN queue[c] /\ i <= n /\ SubSeq(queue[c], 1, n)[i] = queue[c][i]
        /\ \A i \in DOMAIN Rest(c, n) :
             i + n \in DOMAIN queue[c] /\ Rest(c, n)[i] = queue[c][i + n]
    BY Split DEF IInv, Base, TypeOK
  <1>6. /\ queue'[c] = Rest(c, n) /\ scratch'[c] = SubSeq(queue[c], 1, n)
        /\ \A d \in Cores : d # c => queue'[d] = queue[d] /\ scratch'[d] = scratch[d]
    BY <1>3 DEF IInv, Base, TypeOK
  <1>7. ASSUME NEW d \in Cores, NEW i \in DOMAIN scratch'[c] PROVE scratch'[c][i].obj \notin held[d]
    <2>1. i \in DOMAIN queue[c] /\ scratch'[c][i] = queue[c][i] /\ i \in 1 .. n
      BY <1>5, <1>6 DEF IInv, Base, TypeOK
    <2>2. queue[c][i].tick <= e /\ queue[c][i].tick \in Nat
      BY <2>1, <1>3, EntryTypes DEF IsAccepted, IInv, Base
    <2>3. SUFFICES ASSUME queue[c][i].obj \in held[d] PROVE FALSE
      BY <2>1
    <2>4. open[d] \in Nat /\ done + 1 \in Nat /\ done + 1 <= open[d]
      <3>1. open[d] \in Nat /\ done \in Nat
        BY DEF IInv, Base, TypeOK
      <3>2. open[d] # 0
        BY <2>3 DEF IInv, Base, PcInv
      <3>3. done < open[d]
        BY <3>2 DEF IInv, Base, ClockInv
      <3>. QED  BY <3>1, <3>3
    <2>5. cleaning_rcu_tick_exclusive <= to_rcu_ticks(open[d])
      BY <2>4, DivMonotone DEF cleaning_rcu_tick_exclusive
    <2>6. to_rcu_ticks(open[d]) <= queue[c][i].tick
      BY <2>1, <2>3 DEF IInv, GracePeriod
    <2>7. to_rcu_ticks(open[d]) \in Nat /\ cleaning_rcu_tick_exclusive \in Nat
      BY <2>4, DivType DEF cleaning_rcu_tick_exclusive
    <2>. QED  BY <1>1, <2>2, <2>5, <2>6, <2>7
  <1>8. ASSUME NEW a \in Cores, NEW d \in Cores, NEW i \in DOMAIN queue'[a],
               queue'[a][i].obj \in held[d]
        PROVE  to_rcu_ticks(open'[d]) <= queue'[a][i].tick
    <2>1. open'[d] = open[d]
      BY <1>4, <1>8
    <2>2. PICK j \in DOMAIN queue[a] : queue'[a][i] = queue[a][j]
      BY <1>5, <1>6
    <2>. QED  BY <1>8, <2>1, <2>2 DEF IInv, GracePeriod
  <1>9. ASSUME NEW a \in Cores, NEW d \in Cores, NEW i \in DOMAIN scratch'[a]
        PROVE  scratch'[a][i].obj \notin held[d]
    BY <1>6, <1>7 DEF IInv, GracePeriod
  <1>10. NoUseAfterFree'
    BY <1>4 DEF IInv, NoUseAfterFree
  <1>11. GracePeriod'
    BY <1>4, <1>8, <1>9 DEF GracePeriod, to_rcu_ticks
  <1>. QED  BY <1>10, <1>11

LEMMA GraceRun ==
  ASSUME IInv, NEW c \in Cores, RunDeleter(c)
  PROVE  NoUseAfterFree' /\ GracePeriod'
  <1>1. scratch[c] \in Seq(Entries) /\ scratch[c] # <<>>
    BY DEF IInv, Base, TypeOK, RunDeleter
  <1>2. /\ 1 \in DOMAIN scratch[c] /\ Head(scratch[c]) = scratch[c][1]
        /\ \A i \in DOMAIN Tail(scratch[c]) :
             i + 1 \in DOMAIN scratch[c] /\ Tail(scratch[c])[i] = scratch[c][i + 1]
    BY <1>1, HeadTail
  <1>3. /\ free' = free \cup {scratch[c][1].obj}
        /\ held' = held /\ queue' = queue /\ open' = open
        /\ scratch'[c] = Tail(scratch[c])
        /\ \A d \in Cores : d # c => scratch'[d] = scratch[d]
    BY <1>2 DEF RunDeleter, IInv, Base, TypeOK, clock_vars
  <1>4. NoUseAfterFree'
    BY <1>2, <1>3 DEF IInv, NoUseAfterFree, GracePeriod
  <1>5. \A d \in Cores : \A i \in DOMAIN scratch'[d] :
          \E j \in DOMAIN scratch[d] : scratch'[d][i] = scratch[d][j]
    <2>1. ASSUME NEW i \in DOMAIN scratch'[c]
          PROVE  \E j \in DOMAIN scratch[c] : scratch'[c][i] = scratch[c][j]
      <3>1. i + 1 \in DOMAIN scratch[c] /\ scratch'[c][i] = scratch[c][i + 1]
        BY <1>2, <1>3, <2>1
      <3>. QED  BY <3>1
    <2>2. ASSUME NEW d \in Cores, d # c, NEW i \in DOMAIN scratch'[d]
          PROVE  \E j \in DOMAIN scratch[d] : scratch'[d][i] = scratch[d][j]
      BY <1>3, <2>2
    <2>. QED  BY <2>1, <2>2
  <1>6. GracePeriod'
    BY <1>3, <1>5 DEF IInv, GracePeriod, to_rcu_ticks
  <1>. QED  BY <1>4, <1>6

\* The steps that open or close the guard of a core that holds nothing.
LEMMA GraceGuard ==
  ASSUME IInv, NEW c \in Cores, Enter(c) \/ Exit(c) \/ EndReap(c)
  PROVE  NoUseAfterFree' /\ GracePeriod'
  <1>1. UNCHANGED <<free, queue, scratch>>
    BY DEF Enter, Exit, EndReap
  <1>2. \A d \in Cores : d # c => open'[d] = open[d] /\ held'[d] = held[d]
    BY DEF Enter, Exit, EndReap, Open, Close, IInv, Base, TypeOK
  <1>3. held'[c] = {}
    <2>1. Enter(c) \/ EndReap(c) => held[c] = {} /\ held' = held
      BY DEF Enter, EndReap, IInv, Base, PcInv
    <2>2. Exit(c) => held'[c] = {}
      BY DEF Exit, IInv, Base, TypeOK
    <2>. QED  BY <2>1, <2>2
  <1>4. \A d \in Cores : held'[d] = {} \/ (held'[d] = held[d] /\ open'[d] = open[d])
    BY <1>2, <1>3
  <1>. QED  BY <1>1, <1>4, GraceSame

LEMMA GraceNext == IInv /\ [Next]_vars => NoUseAfterFree' /\ GracePeriod'
  <1> SUFFICES ASSUME IInv, [Next]_vars PROVE NoUseAfterFree' /\ GracePeriod'
    OBVIOUS
  <1>1. ASSUME NEW c \in Cores, EnterNested(c) \/ ExitNested(c) \/ NothingToClean(c)
        PROVE  NoUseAfterFree' /\ GracePeriod'
    BY <1>1, GraceSame DEF EnterNested, ExitNested, NothingToClean, clock_vars
  <1>2. CASE ClockStep \/ UNCHANGED vars
    BY <1>2, GraceSame DEF ClockStep, Advance, Declare, vars, clock_vars, rcu_vars
  <1>3. ASSUME NEW c \in Cores, NEW s \in Slots, Unlink(c, s)
        PROVE  NoUseAfterFree' /\ GracePeriod'
    BY <1>3, GraceSame DEF Unlink, clock_vars
  <1>4. ASSUME NEW c \in Cores, NEW s \in Slots, Publish(c, s)
        PROVE  NoUseAfterFree' /\ GracePeriod'
    BY <1>4 DEF Publish, clock_vars, IInv, NoUseAfterFree, GracePeriod, to_rcu_ticks
  <1>. QED
    BY <1>1, <1>2, <1>3, <1>4, GraceGuard, GraceRead, GraceFree, GraceReap, GraceRun
       DEF Next, RegionStep, CleanupStep

-----------------------------------------------------------------------------
LEMMA Invariance == Spec => []IInv
  <1>1. Init => IInv
    BY BaseInit, OnceInit, GraceInit DEF IInv
  <1>2. IInv /\ [Next]_vars => IInv'
    BY BaseNext, OnceNext, GraceNext DEF IInv
  <1>. QED  BY <1>1, <1>2, PTL DEF Spec

\* The variables of reclamation keep their types; no epoch wraps below zero.
THEOREM TypeCorrect == Spec => []TypeOK
  <1>1. IInv => TypeOK
    BY DEF IInv, Base
  <1>. QED  BY <1>1, Invariance, PTL

\* What a region has read stays allocated until the region ends.
THEOREM NoUseAfterFreeHolds == Spec => []NoUseAfterFree
  <1>1. IInv => NoUseAfterFree
    BY DEF IInv
  <1>. QED  BY <1>1, Invariance, PTL

\* Nothing is reclaimed twice or while a shared pointer leads to it.
THEOREM ReclaimedOnceHolds == Spec => []ReclaimedOnce
  <1>1. IInv => ReclaimedOnce
    BY DEF IInv
  <1>. QED  BY <1>1, Invariance, PTL

-----------------------------------------------------------------------------
(* Nothing is overdue: a queue is in the order of its ticks, and the tick    *)
(* that a core has reaped is below every tick it can still queue.            *)

\* The clock tick that the latest entry of a core may wait for.
LatestOf(tick, guard) == (IF guard = 0 THEN tick ELSE guard) + 1
Latest(c) == LatestOf(now, open[c])

ReapedInv == \A c \in Cores : last_reaped[c] # 0 => last_reaped[c] < to_rcu_ticks(done + 1)

OrderInv ==
  \A c \in Cores :
    /\ \A i \in DOMAIN queue[c] : queue[c][i].tick <= to_rcu_ticks(Latest(c))
    /\ \A i, j \in DOMAIN queue[c] : i < j => queue[c][i].tick <= queue[c][j].tick

DueInv == ReapedInv /\ OrderInv /\ NothingIsOverdue

\* The steps that leave the queues and what is reaped.
LEMMA DueSame ==
  ASSUME Base, DueInv, Base', UNCHANGED <<queue, last_reaped>>, now <= now', done <= done',
         \A c \in Cores : open'[c] \in {0, now, open[c]}
  PROVE  DueInv'
  <1>0. /\ now \in Nat /\ now' \in Nat /\ done \in Nat /\ done' \in Nat
        /\ \A c \in Cores : open[c] \in Nat /\ open'[c] \in Nat /\ last_reaped[c] \in Nat
    BY DEF Base, TypeOK
  <1>1. ReapedInv'
    <2>1. to_rcu_ticks(done + 1) <= to_rcu_ticks(done' + 1)
      BY <1>0, DivMonotone
    <2>2. to_rcu_ticks(done + 1) \in Nat /\ to_rcu_ticks(done' + 1) \in Nat
      <3>1. \A a \in Nat : to_rcu_ticks(a + 1) \in Nat
        <4>1. \A a \in Nat : a + 1 \in Nat
          OBVIOUS
        <4>. QED  BY <4>1, DivType
      <3>. QED  BY <1>0, <3>1, Zenon
    <2>3. \A c \in Cores : last_reaped[c] # 0 => last_reaped[c] < to_rcu_ticks(done' + 1)
      BY <1>0, <2>1, <2>2 DEF DueInv, ReapedInv
    <2>. QED  BY <2>3 DEF ReapedInv, to_rcu_ticks
  <1>2. ASSUME NEW c \in Cores, NEW i \in DOMAIN queue[c]
        PROVE  queue[c][i].tick <= to_rcu_ticks(Latest(c)')
    <2>1. Latest(c) \in Nat /\ Latest(c)' \in Nat /\ Latest(c) <= Latest(c)'
      <3>1. \A m \in Nat, n \in Nat, x \in Nat, y \in Nat :
              m <= n /\ y \in {0, m, x} /\ (x # 0 => x <= m) =>
                /\ LatestOf(m, x) \in Nat /\ LatestOf(n, y) \in Nat
                /\ LatestOf(m, x) <= LatestOf(n, y)
        BY SMT DEF LatestOf
      <3>2. open[c] # 0 => open[c] <= now
        BY DEF Base, ClockInv
      <3>3. Latest(c) = LatestOf(now, open[c]) /\ Latest(c)' = LatestOf(now', open'[c])
        BY DEF Latest, LatestOf
      <3>4. /\ now \in Nat /\ now' \in Nat /\ open[c] \in Nat /\ open'[c] \in Nat
            /\ now <= now' /\ open'[c] \in {0, now, open[c]}
        BY <1>0, Zenon
      <3>5. /\ LatestOf(now, open[c]) \in Nat /\ LatestOf(now', open'[c]) \in Nat
            /\ LatestOf(now, open[c]) <= LatestOf(now', open'[c])
        BY <3>1, <3>2, <3>4, Zenon
      <3>. QED  BY <3>3, <3>5, Zenon
    <2>2. to_rcu_ticks(Latest(c)) <= to_rcu_ticks(Latest(c)')
      BY <2>1, DivMonotone
    <2>3. to_rcu_ticks(Latest(c)) \in Nat /\ to_rcu_ticks(Latest(c)') \in Nat
      BY <2>1, DivType
    <2>4. queue[c][i].tick \in Nat
      BY EntryTypes DEF Base
    <2>5. queue[c][i].tick <= to_rcu_ticks(Latest(c))
      BY DEF DueInv, OrderInv
    <2>. QED  BY <2>2, <2>3, <2>4, <2>5
  <1>3. OrderInv'
    BY <1>2 DEF DueInv, OrderInv, to_rcu_ticks
  <1>4. NothingIsOverdue'
    BY DEF DueInv, NothingIsOverdue
  <1>. QED  BY <1>1, <1>3, <1>4 DEF DueInv

\* An entry is queued with a tick that is not over, after those queued before.
LEMMA DueFree ==
  ASSUME Base, DueInv, NEW c \in Cores, FreeWithFn(c)
  PROVE  DueInv'
  <1>1. PICK t : t = to_rcu_ticks(open[c] + 1)
    OBVIOUS
  <1>2. PICK e : e = [obj |-> victim[c], tick |-> t]
    OBVIOUS
  <1>3. /\ UNCHANGED <<now, done, open, last_reaped>>
        /\ queue'[c] = Append(queue[c], e)
        /\ \A d \in Cores : d # c => queue'[d] = queue[d]
    BY <1>1, <1>2 DEF FreeWithFn, FreeAt, clock_vars, Base, TypeOK
  <1>4. open[c] # 0 /\ open[c] \in Nat /\ done \in Nat /\ done < open[c]
    BY DEF Base, TypeOK, ClockInv, PcInv, FreeWithFn, FreeAt
  <1>5. t \in Nat /\ t = to_rcu_ticks(Latest(c)) /\ to_rcu_ticks(done + 1) <= t
    BY <1>1, <1>4, DivType, DivMonotone DEF Latest, LatestOf
  <1>6. PICK n \in Nat : n = Len(queue[c]) /\ DOMAIN queue[c] = 1 .. n
    BY DEF Base, TypeOK
  <1>7. /\ DOMAIN queue'[c] = 1 .. (n + 1)
        /\ \A i \in 1 .. n : queue'[c][i] = queue[c][i] /\ queue[c][i].tick \in Nat
        /\ queue'[c][n + 1] = e
    <2>1. queue[c] \in Seq(Entries)
      BY DEF Base, TypeOK
    <2>2. queue'[c] = Append(queue[c], e)
      BY <1>3
    <2>3. \A i \in 1 .. n : queue[c][i].tick \in Nat
      BY <1>6, EntryTypes DEF Base
    <2>. QED  BY <1>6, <2>1, <2>2, <2>3
  <1>8. \A i \in 1 .. (n + 1) : i \in 1 .. n \/ i = n + 1
    BY <1>6
  <1>9. e.tick = t
    BY <1>2
  <1>10. ReapedInv'
    BY <1>3 DEF DueInv, ReapedInv, to_rcu_ticks
  <1>11. Latest(c)' = Latest(c) /\ \A d \in Cores : Latest(d)' = Latest(d)
    BY <1>3 DEF Latest, LatestOf
  <1>12. \A i \in 1 .. n : queue[c][i].tick <= t
    BY <1>5, <1>6 DEF DueInv, OrderInv
  <1>13. \A i \in DOMAIN queue'[c] : queue'[c][i].tick <= t
    BY <1>5, <1>7, <1>8, <1>9, <1>12
  <1>14. \A i, j \in DOMAIN queue'[c] : i < j => queue'[c][i].tick <= queue'[c][j].tick
    <2> SUFFICES ASSUME NEW i \in 1 .. (n + 1), NEW j \in 1 .. (n + 1), i < j
                 PROVE  queue'[c][i].tick <= queue'[c][j].tick
      BY <1>7
    <2>1. i \in 1 .. n
      BY <1>6
    <2>2. CASE j = n + 1
      BY <1>7, <1>9, <1>12, <2>1, <2>2
    <2>3. CASE j \in 1 .. n
      BY <1>6, <1>7, <2>1, <2>3 DEF DueInv, OrderInv
    <2>. QED  BY <1>8, <2>2, <2>3
  <1>15. OrderInv'
    <2>1. ASSUME NEW d \in Cores
          PROVE  /\ \A i \in DOMAIN queue'[d] : queue'[d][i].tick <= to_rcu_ticks(Latest(d)')
                 /\ \A i, j \in DOMAIN queue'[d] : i < j => queue'[d][i].tick <= queue'[d][j].tick
      <3>1. CASE d = c
        BY <1>5, <1>11, <1>13, <1>14, <3>1
      <3>2. CASE d # c
        BY <1>3, <1>11, <3>2 DEF DueInv, OrderInv
      <3>. QED  BY <3>1, <3>2
    <2>. QED  BY <2>1 DEF OrderInv, to_rcu_ticks
  <1>16. NothingIsOverdue'
    <2>1. ASSUME last_reaped[c] # 0, NEW i \in DOMAIN queue'[c]
          PROVE  queue'[c][i].tick > last_reaped[c]
      <3>1. last_reaped[c] < to_rcu_ticks(done + 1) /\ last_reaped[c] \in Nat
        BY <2>1 DEF DueInv, ReapedInv, Base, TypeOK
      <3>2. to_rcu_ticks(done + 1) \in Nat
        BY <1>4, DivType
      <3>3. CASE i = n + 1
        BY <1>5, <1>7, <1>9, <3>1, <3>2, <3>3
      <3>4. CASE i \in 1 .. n
        BY <1>6, <1>7, <2>1, <3>4 DEF DueInv, NothingIsOverdue
      <3>. QED  BY <1>7, <1>8, <3>3, <3>4
    <2>. QED  BY <1>3, <2>1 DEF DueInv, NothingIsOverdue
  <1>. QED  BY <1>10, <1>15, <1>16 DEF DueInv

\* What do_cleanup leaves is younger than what it takes.
LEMMA DueReap ==
  ASSUME Base, DueInv, NEW c \in Cores, Cleanup(c)
  PROVE  DueInv'
  <1>1. PICK e : e = cleaning_rcu_tick_exclusive - 1
    OBVIOUS
  <1>2. Reap(c, e) /\ e \in Nat /\ pc[c] = "cleanup" /\ open[c] = 0
    BY <1>1, CleanTick DEF Cleanup, Base, PcInv, TypeOK
  <1>3. PICK n \in 0 .. Len(queue[c]) :
          /\ IsAccepted(queue[c], e, n)
          /\ queue' = [queue EXCEPT ![c] = Rest(c, n)]
          /\ IF n = 0 THEN UNCHANGED open ELSE open' = [open EXCEPT ![c] = now]
    BY <1>2 DEF Reap
  <1>4. /\ UNCHANGED <<now, done>>
        /\ last_reaped'[c] = e
        /\ \A d \in Cores : d # c => /\ last_reaped'[d] = last_reaped[d] /\ queue'[d] = queue[d]
                                     /\ open'[d] = open[d]
        /\ queue'[c] = Rest(c, n)
        /\ open'[c] \in {0, now}
    BY <1>2, <1>3 DEF Reap, Base, TypeOK
  <1>5. \A i \in DOMAIN Rest(c, n) : i + n \in DOMAIN queue[c] /\ Rest(c, n)[i] = queue[c][i + n]
    BY Split DEF Base, TypeOK
  <1>6. /\ queue[c] \in Seq(Entries) /\ now \in Nat /\ done \in Nat /\ n \in Nat
        /\ \A i \in DOMAIN queue[c] : queue[c][i].tick \in Nat /\ i \in Nat
        /\ \A i \in DOMAIN Rest(c, n) : i \in Nat /\ i >= 1
    <2>1. /\ queue[c] \in Seq(Entries) /\ Rest(c, n) \in Seq(Entries)
          /\ now \in Nat /\ done \in Nat /\ n \in Nat
      BY <1>3, Split DEF Base, TypeOK
    <2>2. \A q \in Seq(Entries) : \A i \in DOMAIN q : i \in Nat /\ i >= 1
      OBVIOUS
    <2>. QED  BY <2>1, <2>2, EntryTypes DEF Base
  <1>7. \A d \in Cores : Latest(d)' = Latest(d)
    BY <1>2, <1>4 DEF Latest, LatestOf
  <1>8. ReapedInv'
    <2>1. e < to_rcu_ticks(done + 1)
      <3>1. to_rcu_ticks(done + 1) \in Nat
        BY <1>6, DivType, SMTT(30)
      <3>. QED  BY <1>1, <3>1 DEF cleaning_rcu_tick_exclusive
    <2>. QED  BY <1>4, <2>1 DEF DueInv, ReapedInv, to_rcu_ticks
  <1>9. OrderInv'
    <2>1. ASSUME NEW d \in Cores
          PROVE  /\ \A i \in DOMAIN queue'[d] : queue'[d][i].tick <= to_rcu_ticks(Latest(d)')
                 /\ \A i, j \in DOMAIN queue'[d] : i < j => queue'[d][i].tick <= queue'[d][j].tick
      <3>1. CASE d # c
        BY <1>4, <1>7, <3>1 DEF DueInv, OrderInv
      <3>2. CASE d = c
        <4>1. \A i \in DOMAIN queue'[c] : queue'[c][i].tick <= to_rcu_ticks(Latest(c)')
          BY <1>4, <1>5, <1>7 DEF DueInv, OrderInv
        <4>2. ASSUME NEW i \in DOMAIN queue'[c], NEW j \in DOMAIN queue'[c], i < j
              PROVE  queue'[c][i].tick <= queue'[c][j].tick
          <5>1. /\ i + n \in DOMAIN queue[c] /\ j + n \in DOMAIN queue[c]
                /\ queue'[c][i] = queue[c][i + n] /\ queue'[c][j] = queue[c][j + n]
            BY <1>4, <1>5
          <5>2. i + n < j + n
            BY <1>4, <1>6, <4>2
          <5>. QED  BY <5>1, <5>2 DEF DueInv, OrderInv
        <4>. QED  BY <3>2, <4>1, <4>2
      <3>. QED  BY <3>1, <3>2
    <2>. QED  BY <2>1 DEF OrderInv, to_rcu_ticks
  <1>10. ASSUME NEW i \in DOMAIN queue'[c] PROVE queue'[c][i].tick > e
    <2>1. /\ i + n \in DOMAIN queue[c] /\ queue'[c][i] = queue[c][i + n]
          /\ i \in Nat /\ i >= 1
      BY <1>4, <1>5, <1>6
    <2>2. n < Len(queue[c]) /\ n + 1 \in DOMAIN queue[c]
      BY <1>6, <2>1
    <2>3. queue[c][n + 1].tick > e
      BY <1>3, <2>2 DEF IsAccepted
    <2>4. queue[c][n + 1].tick <= queue[c][i + n].tick
      <3>1. CASE i = 1
        BY <1>6, <2>1, <3>1
      <3>2. CASE i # 1
        <4>1. n + 1 < i + n
          BY <1>6, <2>1, <3>2
        <4>. QED  BY <2>1, <2>2, <4>1 DEF DueInv, OrderInv
      <3>. QED  BY <3>1, <3>2
    <2>. QED  BY <1>2, <1>6, <2>1, <2>2, <2>3, <2>4
  <1>11. NothingIsOverdue'
    BY <1>4, <1>10 DEF DueInv, NothingIsOverdue
  <1>. QED  BY <1>8, <1>9, <1>11 DEF DueInv

LEMMA DueNext == Base /\ DueInv /\ [Next]_vars => DueInv'
  <1> SUFFICES ASSUME Base, DueInv, [Next]_vars PROVE DueInv'
    OBVIOUS
  <1>0. Base' /\ now \in Nat /\ done \in Nat
    BY BaseNext DEF Base, TypeOK
  <1>1. ASSUME NEW c \in Cores,
               \/ EnterNested(c) \/ ExitNested(c) \/ NothingToClean(c) \/ RunDeleter(c)
               \/ \E s \in Slots : ReadSlot(c, s) \/ Publish(c, s) \/ Unlink(c, s)
        PROVE  DueInv'
    <2>1. UNCHANGED <<now, done, open, queue, last_reaped>>
      BY <1>1 DEF EnterNested, ExitNested, NothingToClean, RunDeleter, ReadSlot, Publish,
                  Unlink, clock_vars
    <2>. QED  BY <1>0, <2>1, DueSame
  <1>2. ASSUME NEW c \in Cores, Enter(c) \/ Exit(c) \/ EndReap(c) PROVE DueInv'
    <2>1. UNCHANGED <<now, done, queue, last_reaped>>
      BY <1>2 DEF Enter, Exit, EndReap, Open, Close
    <2>2. \A d \in Cores : open'[d] \in {0, now, open[d]}
      BY <1>2 DEF Enter, Exit, EndReap, Open, Close, Base, TypeOK
    <2>. QED  BY <1>0, <2>1, <2>2, DueSame
  <1>3. CASE ClockStep \/ UNCHANGED vars
    <2>1. /\ UNCHANGED <<open, queue, last_reaped>>
          /\ now' \in {now, now + 1} /\ done' \in {done, now - 1}
      BY <1>3 DEF ClockStep, Advance, Declare, vars, clock_vars, rcu_vars
    <2>2. now <= now' /\ done <= done'
      BY <1>0, <2>1 DEF Base, ClockInv
    <2>. QED  BY <1>0, <2>1, <2>2, DueSame
  <1>. QED
    BY <1>1, <1>2, <1>3, DueFree, DueReap DEF Next, RegionStep, CleanupStep

\* What is in a queue is younger than the epoch that its core has reaped: neither
\* of do_cleanup's early returns leaves behind what could be reclaimed.
THEOREM NothingIsOverdueHolds == Spec => []NothingIsOverdue
  <1>1. Init => Base /\ DueInv
    <2>1. Init => DueInv
      BY DEF Init, DueInv, ReapedInv, OrderInv, NothingIsOverdue
    <2>. QED  BY <2>1, BaseInit
  <1>2. Base /\ DueInv /\ [Next]_vars => Base' /\ DueInv'
    BY BaseNext, DueNext
  <1>3. DueInv => NothingIsOverdue
    BY DEF DueInv
  <1>. QED  BY <1>1, <1>2, <1>3, PTL DEF Spec
=============================================================================
