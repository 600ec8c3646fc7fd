---------------------------------- MODULE Fifo ----------------------------------
(***************************************************************************)
(* What a buffer queue promises: items come out once each, in the order    *)
(* they went in, and no more than Capacity of them are inside.             *)
(***************************************************************************)
EXTENDS Naturals, Sequences

CONSTANTS Items, Capacity

VARIABLE inside  \* the items of the queue, the oldest first

FifoInit == inside = <<>>

Put(p) == Len(inside) < Capacity /\ inside' = Append(inside, p)
Get == inside # <<>> /\ inside' = Tail(inside)

FifoSpec == FifoInit /\ [][Get \/ \E p \in Items : Put(p)]_inside
=============================================================================
