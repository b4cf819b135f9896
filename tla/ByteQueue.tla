------------------------------- MODULE ByteQueue -------------------------------
(***************************************************************************)
(* What a Buffer promises: bytes leave it in the order they came, and none *)
(* is lost or changed on the way.                                          *)
(***************************************************************************)
EXTENDS Naturals, Sequences

VARIABLE queue

Init == queue = <<>>

Put ==
    /\ Len(queue') >= Len(queue)
    /\ SubSeq(queue', 1, Len(queue)) = queue

Take == \E n \in 0..Len(queue) : queue' = SubSeq(queue, n + 1, Len(queue))

Next == Put \/ Take

Spec == Init /\ [][Next]_queue
=============================================================================
