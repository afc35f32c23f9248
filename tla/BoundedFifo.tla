------------------------------ MODULE BoundedFifo ------------------------------
(***************************************************************************)
(* What a bounded first-in first-out queue promises, without the waiters:  *)
(* an item is accepted only while there is room (capacity 0: always), the  *)
(* oldest item leaves first, and the whole content can be dropped.         *)
(***************************************************************************)
EXTENDS Naturals, Sequences

CONSTANT Items

VARIABLES fifo, capacity

Init == fifo = <<>> /\ capacity \in Nat

Accept == /\ capacity # 0 => Len(fifo) < capacity
          /\ \E i \in Items : fifo' = Append(fifo, i)
          /\ UNCHANGED capacity

Deliver == /\ fifo # <<>>
           /\ fifo' = Tail(fifo)
           /\ UNCHANGED capacity

Drop == fifo' = <<>> /\ UNCHANGED capacity

Next == Accept \/ Deliver \/ Drop

Spec == Init /\ [][Next]_<<fifo, capacity>>
=============================================================================
