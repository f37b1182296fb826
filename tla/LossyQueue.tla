----------------------------- MODULE LossyQueue -----------------------------
(***************************************************************************)
(* What a bounded event channel promises (channel_capacity in              *)
(* src/etw/session.rs): a FIFO of at most Cap items that never blocks its  *)
(* producer.  An item offered to a full queue is counted as lost, an item  *)
(* offered to a queue with room never is, and the consumer receives the    *)
(* items in the order they were put.                                       *)
(***************************************************************************)
EXTENDS Integers, Sequences

CONSTANTS Items, Cap

VARIABLES
    queue,   \* the items waiting
    lost,    \* how many were lost
    got      \* how many were received

vars == <<queue, lost, got>>

Init == queue = <<>> /\ lost = 0 /\ got = 0

Put(e) ==
    /\ Len(queue) < Cap
    /\ queue' = Append(queue, e)
    /\ UNCHANGED <<lost, got>>

Lose ==
    /\ Len(queue) = Cap
    /\ lost' = lost + 1
    /\ UNCHANGED <<queue, got>>

Get ==
    /\ queue # <<>>
    /\ queue' = Tail(queue)
    /\ got' = got + 1
    /\ UNCHANGED lost

Next == (\E e \in Items : Put(e)) \/ Lose \/ Get

Spec == Init /\ [][Next]_vars
=============================================================================
