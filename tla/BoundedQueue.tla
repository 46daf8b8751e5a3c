----------------------------- MODULE BoundedQueue -----------------------------
(***************************************************************************)
(* What the ring buffer of the security publisher promises: a queue of at  *)
(* most Bound events, first in first out, that drops its oldest event and  *)
(* counts it when a new one finds it full.                                 *)
(***************************************************************************)
EXTENDS Integers, Sequences

CONSTANTS Item, Bound

VARIABLES queue, lossCount

QueueInit == queue = <<>> /\ lossCount = 0

Put(e) ==
  IF Len(queue) < Bound
  THEN queue' = Append(queue, e) /\ UNCHANGED lossCount
  ELSE queue' = Append(Tail(queue), e) /\ lossCount' = lossCount + 1

Take(n) ==
  /\ n \in 1 .. Len(queue)
  /\ queue' = SubSeq(queue, n + 1, Len(queue))
  /\ UNCHANGED lossCount

QueueNext == (\E e \in Item : Put(e)) \/ (\E n \in 1 .. Bound : Take(n))

Queue == QueueInit /\ [][QueueNext]_<<queue, lossCount>>
=============================================================================
