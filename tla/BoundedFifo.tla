----------------------------- MODULE BoundedFifo -----------------------------
(***************************************************************************)
(* What BlockingReaderWriterCircularBuffer promises its two threads: a     *)
(* first-in first-out queue of at most Capacity items.                     *)
(***************************************************************************)
EXTENDS Integers, Sequences

CONSTANTS Capacity, Items

VARIABLES
  queue,  \* the items in the buffer, the oldest first
  got     \* the item the consumer was last handed

Init == queue = <<>> /\ got \in Items

Put(item) == /\ Len(queue) < Capacity
             /\ queue' = Append(queue, item)
             /\ UNCHANGED got

\* try_dequeue, wait_dequeue, wait_dequeue_timed
Take == queue # <<>> /\ got' = Head(queue) /\ queue' = Tail(queue)

\* try_pop
Drop == queue # <<>> /\ queue' = Tail(queue) /\ UNCHANGED got

\* peek
Look == queue # <<>> /\ got' = Head(queue) /\ UNCHANGED queue

Next == (\E item \in Items : Put(item)) \/ Take \/ Drop \/ Look

Spec == Init /\ [][Next]_<<queue, got>>
=============================================================================
