----------------------------- MODULE EpochClock -----------------------------
(***************************************************************************)
(* What the epoch clock promises: sections opened now carry the current    *)
(* tick, the clock is at most one tick ahead of what it has declared over, *)
(* and a tick is declared over only when no section of it is open.         *)
(***************************************************************************)
EXTENDS Naturals

CONSTANT Cores

VARIABLES now,   \* the current tick
          done,  \* every tick <= done is over
          open   \* the tick of each core's open section, 0 when it has none

clock_vars == <<now, done, open>>

ClockInit == now = 1 /\ done = 0 /\ open = [c \in Cores |-> 0]

Open(c)  == open[c] = 0 /\ open' = [open EXCEPT ![c] = now]
            /\ UNCHANGED <<now, done>>
Close(c) == open[c] # 0 /\ open' = [open EXCEPT ![c] = 0]
            /\ UNCHANGED <<now, done>>
Advance  == done = now - 1 /\ now' = now + 1 /\ UNCHANGED <<done, open>>
Declare  == /\ \A c \in Cores : open[c] \in {0, now}
            /\ done' = now - 1
            /\ UNCHANGED <<now, open>>

ClockNext == (\E c \in Cores : Open(c) \/ Close(c)) \/ Advance \/ Declare

ClockSpec == ClockInit /\ [][ClockNext]_clock_vars
=============================================================================
