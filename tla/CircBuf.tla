-------------------------------- MODULE CircBuf --------------------------------
(***************************************************************************)
(* The ring of buffer pointers between workers and loggers (lcc/circbuf.h):*)
(* enqueuers race for the head with a compare-and-swap and fill the slot   *)
(* afterwards, one dequeuer empties slots at the tail.  One action is one  *)
(* access to shared memory.  Items are buffers that go round: what was     *)
(* dequeued may be enqueued again.                                         *)
(***************************************************************************)
EXTENDS Integers, Sequences

CONSTANTS Enqueuers, Items, Capacity, NULL

ASSUME CircBufAssumption ==
  /\ Capacity \in Nat \ {0}
  /\ NULL \notin Items

Slots == 0 .. Capacity - 1
Next1(i) == (i + 1) % Capacity

VARIABLES
  buf, head, tail,  \* the ring
  pc, item, icur,   \* enq: where an enqueuer is, its p and its local icur
  d_pc, ret, old,   \* deq: where the dequeuer is, its ret, the slot it empties
  outside           \* items nobody has handed to enq

enq_vars == <<pc, item, icur>>
deq_vars == <<d_pc, ret, old>>
vars == <<buf, head, tail, enq_vars, deq_vars, outside>>

Init ==
  /\ buf = [i \in Slots |-> NULL]
  /\ head = 0 /\ tail = 0
  /\ pc = [e \in Enqueuers |-> "idle"]
  /\ item = [e \in Enqueuers |-> NULL]
  /\ icur = [e \in Enqueuers |-> 0]
  /\ d_pc = "wait" /\ ret = NULL /\ old = 0
  /\ outside = Items

-----------------------------------------------------------------------------
(* enq *)

Call(e) ==
  /\ pc[e] = "idle"
  /\ \E p \in outside : item' = [item EXCEPT ![e] = p] /\ outside' = outside \ {p}
  /\ pc' = [pc EXCEPT ![e] = "load"]
  /\ UNCHANGED <<buf, head, tail, icur, deq_vars>>

LoadHead(e) ==
  /\ pc[e] = "load"
  /\ icur' = [icur EXCEPT ![e] = head]
  /\ pc' = [pc EXCEPT ![e] = "check"]
  /\ UNCHANGED <<buf, head, tail, item, deq_vars, outside>>

CheckSlot(e) ==
  /\ pc[e] = "check"
  /\ pc' = [pc EXCEPT ![e] = IF buf[icur[e]] = NULL THEN "cas" ELSE "load"]
  /\ UNCHANGED <<buf, head, tail, item, icur, deq_vars, outside>>

Claim(e) ==           \* head_.compare_exchange_strong(icur, inext)
  /\ pc[e] = "cas"
  /\ IF head = icur[e]
     THEN head' = Next1(icur[e]) /\ pc' = [pc EXCEPT ![e] = "store"]
     ELSE pc' = [pc EXCEPT ![e] = "load"] /\ UNCHANGED head
  /\ UNCHANGED <<buf, tail, item, icur, deq_vars, outside>>

Store(e) ==
  /\ pc[e] = "store"
  /\ buf' = [buf EXCEPT ![icur[e]] = item[e]]
  /\ item' = [item EXCEPT ![e] = NULL]
  /\ pc' = [pc EXCEPT ![e] = "idle"]
  /\ UNCHANGED <<head, tail, icur, deq_vars, outside>>

-----------------------------------------------------------------------------
(* deq *)

Wait ==               \* the loop that spins on an empty slot
  /\ d_pc = "wait"
  /\ buf[tail] # NULL
  /\ d_pc' = "take"
  /\ UNCHANGED <<buf, head, tail, enq_vars, ret, old, outside>>

Take ==
  /\ d_pc = "take"
  /\ ret' = buf[tail]
  /\ d_pc' = "move"
  /\ UNCHANGED <<buf, head, tail, enq_vars, old, outside>>

MoveTail ==           \* postincr(tail_) comes before the store to the slot
  /\ d_pc = "move"
  /\ old' = tail
  /\ tail' = Next1(tail)
  /\ d_pc' = "clear"
  /\ UNCHANGED <<buf, head, enq_vars, ret, outside>>

ClearNext ==          \* mutant: evaluates the index after the increment
  /\ d_pc = "clear"
  /\ buf' = [buf EXCEPT ![tail] = NULL]
  /\ outside' = outside \cup {ret}
  /\ d_pc' = "wait" /\ ret' = NULL
  /\ UNCHANGED <<head, tail, enq_vars, old>>

ClearNever ==         \* mutant: leaves the slot full
  /\ d_pc = "clear"
  /\ outside' = outside \cup {ret}
  /\ d_pc' = "wait" /\ ret' = NULL
  /\ UNCHANGED <<buf, head, tail, enq_vars, old>>

Clear ==
  /\ d_pc = "clear"
  /\ buf' = [buf EXCEPT ![old] = NULL]
  /\ outside' = outside \cup {ret}
  /\ d_pc' = "wait" /\ ret' = NULL
  /\ UNCHANGED <<head, tail, enq_vars, old>>

-----------------------------------------------------------------------------
Enq(e) == Call(e) \/ LoadHead(e) \/ CheckSlot(e) \/ Claim(e) \/ Store(e)
Deq == Wait \/ Take \/ MoveTail \/ Clear

Next == Deq \/ \E e \in Enqueuers : Enq(e)

Spec == Init /\ [][Next]_vars

\* The dequeuer runs, and an enqueuer that has won the head stores its item.
FairSpec == Spec /\ WF_vars(Deq) /\ \A e \in Enqueuers : WF_vars(Enq(e))

-----------------------------------------------------------------------------
\* The item of a slot: stored, or still in the hands of who has won the slot.
Occupant(i) ==
  LET winners == {e \in Enqueuers : pc[e] = "store" /\ icur[e] = i} IN
  IF d_pc = "clear" /\ old = i THEN NULL
  ELSE IF winners # {} THEN item[CHOOSE e \in winners : TRUE] ELSE buf[i]

\* How many slots are won or filled, counted from the tail up to the head.
Count ==
  IF head = tail THEN (IF Occupant(tail) = NULL THEN 0 ELSE Capacity)
  ELSE IF tail < head THEN head - tail ELSE head + Capacity - tail

Contents == [j \in 1 .. Count |-> Occupant((tail + j - 1) % Capacity)]

\* An enq takes effect when it wins the head and a deq when it moves the tail:
\* seen so, the ring is a first-in first-out queue that loses nothing.
Queue == INSTANCE Fifo WITH inside <- Contents
ImplementsFifo == Queue!FifoSpec

\* Whoever wins the head gets its item through: the dequeuer, which waits at the
\* tail for whoever won that slot first, is never stuck behind an empty slot.
EveryItemArrives ==
  \A p \in Items :
    (\E i \in Slots : Occupant(i) = p) ~> (\A i \in Slots : Occupant(i) # p)
=============================================================================
