--------------------------- MODULE CircularBuffer ---------------------------
(***************************************************************************)
(* The queue between the network thread and the main thread of a client:   *)
(* moodycamel's BlockingReaderWriterCircularBuffer, a ring that is guarded *)
(* by two LightweightSemaphores, in steps of one atomic operation each.    *)
(* The network thread is the only producer, the main thread the only       *)
(* consumer.                                                               *)
(*                                                                         *)
(* The two sides are symmetric.  The producer waits for slots and signals  *)
(* items, the consumer waits for items and signals slots; a thread's       *)
(* semaphore below is the one that it waits for.                           *)
(***************************************************************************)
EXTENDS Integers, Sequences

CONSTANTS
  Capacity,  \* the capacity the buffer was asked for
  Size,      \* mask + 1: the slots that were allocated
  WordSize,  \* one more than the largest size_t
  Items,     \* what is enqueued
  Raw        \* what a slot without a living element holds

ASSUME CircularBufferAssumption ==
  /\ Capacity \in Nat \ {0}
  /\ Size \in Nat /\ Capacity <= Size
  /\ WordSize \in Nat /\ Size < WordSize /\ WordSize % Size = 0
  /\ Raw \notin Items

Producer == "producer"
Consumer == "consumer"
Threads  == {Producer, Consumer}
Other(t) == IF t = Producer THEN Consumer ELSE Producer

\* The functions of the interface: try_..., wait_..., wait_..._timed.
Kinds == {"try", "wait", "timed"}

VARIABLES
  count,  \* m_count of each thread's LightweightSemaphore
  sema,   \* the count of the Semaphore (m_sema) inside it
  index,  \* nextSlot of the producer, nextItem of the consumer
  data,   \* the ring
  pc,     \* where each thread is
  kind,   \* which function it is in
  item,   \* what the producer enqueues
  got,    \* what the consumer was last handed
  pop     \* whether the consumer is in try_pop

vars == <<count, sema, index, data, pc, kind, item, got, pop>>

TypeOK ==
  /\ count \in [Threads -> Int]
  /\ sema  \in [Threads -> Nat]
  /\ index \in [Threads -> 0 .. WordSize - 1]
  /\ data  \in [0 .. Size - 1 -> Items \cup {Raw}]
  /\ pc    \in [Threads -> {"idle", "test", "claim", "spin", "kernel", "restore",
                            "retake", "tryKernel", "access", "signal", "post", "peek"}]
  /\ kind  \in [Threads -> Kinds]
  /\ item  \in Items
  /\ got   \in Items
  /\ pop   \in BOOLEAN

Init ==
  /\ count = [t \in Threads |-> IF t = Producer THEN Capacity ELSE 0]
  /\ sema  = [t \in Threads |-> 0]
  /\ index = [t \in Threads |-> 0]
  /\ data  = [i \in 0 .. Size - 1 |-> Raw]
  /\ pc    = [t \in Threads |-> "idle"]
  /\ kind  = [t \in Threads |-> "try"]
  /\ item  \in Items
  /\ got   \in Items
  /\ pop   = FALSE

\* Fault: the index is reduced modulo the capacity that was asked for.
CellOfCapacity(i) == i % Capacity

\* i & mask
Cell(i) == i % Size

Goto(t, where) == pc' = [pc EXCEPT ![t] = where]

-----------------------------------------------------------------------------
(* Calls.                                                                  *)

\* try_enqueue, wait_enqueue, wait_enqueue_timed
Enqueue(k, x) ==
  /\ pc[Producer] = "idle"
  /\ Goto(Producer, "test")
  /\ kind' = [kind EXCEPT ![Producer] = k]
  /\ item' = x
  /\ UNCHANGED <<count, sema, index, data, got, pop>>

\* try_dequeue, wait_dequeue, wait_dequeue_timed; try_pop
Dequeue(k, discard) ==
  /\ pc[Consumer] = "idle"
  /\ discard => k = "try"
  /\ Goto(Consumer, "test")
  /\ kind' = [kind EXCEPT ![Consumer] = k]
  /\ pop' = discard
  /\ UNCHANGED <<count, sema, index, data, item, got>>

\* peek reads the count, then the element.
Peek ==
  /\ pc[Consumer] = "idle"
  /\ count[Consumer] > 0
  /\ Goto(Consumer, "peek")
  /\ UNCHANGED <<count, sema, index, data, kind, item, got, pop>>

InnerPeek ==
  /\ pc[Consumer] = "peek"
  /\ got' = data[Cell(index[Consumer])]
  /\ Goto(Consumer, "idle")
  /\ UNCHANGED <<count, sema, index, data, kind, item, pop>>

-----------------------------------------------------------------------------
(* LightweightSemaphore::wait and tryWait.                                 *)

\* tryWait loads the count, and the spinning loop does, for a while.
Test(t) ==
  /\ pc[t] \in {"test", "spin"}
  /\ count[t] > 0
  /\ Goto(t, "claim")
  /\ UNCHANGED <<count, sema, index, data, kind, item, got, pop>>

\* tryWait has found nothing: try_enqueue or try_dequeue returns false.
Fail(t) ==
  /\ pc[t] = "test"
  /\ kind[t] = "try"
  /\ count[t] <= 0
  /\ Goto(t, "idle")
  /\ UNCHANGED <<count, sema, index, data, kind, item, got, pop>>

\* A waiting function begins to spin.
Spin(t) ==
  /\ pc[t] = "test"
  /\ kind[t] # "try"
  /\ count[t] <= 0
  /\ Goto(t, "spin")
  /\ UNCHANGED <<count, sema, index, data, kind, item, got, pop>>

\* A count that was positive is decremented.
Claim(t) ==
  /\ pc[t] = "claim"
  /\ count' = [count EXCEPT ![t] = @ - 1]
  /\ Goto(t, "access")
  /\ UNCHANGED <<sema, index, data, kind, item, got, pop>>

\* The spinning is over: the count is decremented, whatever it is.
Park(t) ==
  /\ pc[t] = "spin"
  /\ count' = [count EXCEPT ![t] = @ - 1]
  /\ Goto(t, IF count[t] > 0 THEN "access" ELSE "kernel")
  /\ UNCHANGED <<sema, index, data, kind, item, got, pop>>

\* Semaphore::wait and timed_wait return; at "tryKernel" try_wait does.
Wake(t) ==
  /\ pc[t] \in {"kernel", "tryKernel"}
  /\ sema[t] > 0
  /\ sema' = [sema EXCEPT ![t] = @ - 1]
  /\ Goto(t, "access")
  /\ UNCHANGED <<count, index, data, kind, item, got, pop>>

\* timed_wait times out, at any time; or try_wait finds nothing.
TimeOut(t) ==
  /\ \/ pc[t] = "kernel" /\ kind[t] = "timed"
     \/ pc[t] = "tryKernel" /\ sema[t] = 0
  /\ Goto(t, "restore")
  /\ UNCHANGED <<count, sema, index, data, kind, item, got, pop>>

\* Fault: the caller gives up without asking who was faster.
GiveUpAnyway(t) ==
  /\ pc[t] = "restore"
  /\ count' = [count EXCEPT ![t] = @ + 1]
  /\ Goto(t, "idle")
  /\ UNCHANGED <<sema, index, data, kind, item, got, pop>>

\* Fault: the caller gives up and leaves the count as if it waited.
RestoreNothing(t) ==
  /\ pc[t] = "restore"
  /\ Goto(t, IF count[t] < 0 THEN "idle" ELSE "retake")
  /\ UNCHANGED <<count, sema, index, data, kind, item, got, pop>>

\* After a timeout the count is put back.  If the other thread has signalled
\* meanwhile, the caller must take what it was given.
Restore(t) ==
  /\ pc[t] = "restore"
  /\ count' = [count EXCEPT ![t] = @ + 1]
  /\ Goto(t, IF count[t] < 0 THEN "idle" ELSE "retake")
  /\ UNCHANGED <<sema, index, data, kind, item, got, pop>>

Retake(t) ==
  /\ pc[t] = "retake"
  /\ count' = [count EXCEPT ![t] = @ - 1]
  /\ Goto(t, IF count[t] > 0 THEN "tryKernel" ELSE "restore")
  /\ UNCHANGED <<sema, index, data, kind, item, got, pop>>

-----------------------------------------------------------------------------
(* The ring.                                                               *)

\* Fault: size_t does not wrap.
AdvanceForEver(t) == index' = [index EXCEPT ![t] = @ + 1]

Advance(t) == index' = [index EXCEPT ![t] = (@ + 1) % WordSize]

\* inner_enqueue, up to the signal
Construct ==
  /\ pc[Producer] = "access"
  /\ Advance(Producer)
  /\ data' = [data EXCEPT ![Cell(index[Producer])] = item]
  /\ Goto(Producer, "signal")
  /\ UNCHANGED <<count, sema, kind, item, got, pop>>

\* inner_dequeue and inner_pop, up to the signal
Move ==
  /\ pc[Consumer] = "access"
  /\ Advance(Consumer)
  /\ got' = IF pop THEN got ELSE data[Cell(index[Consumer])]
  /\ data' = [data EXCEPT ![Cell(index[Consumer])] = Raw]
  /\ Goto(Consumer, "signal")
  /\ UNCHANGED <<count, sema, kind, item, pop>>

-----------------------------------------------------------------------------
(* LightweightSemaphore::signal, of the other thread's semaphore.          *)

\* Fault: whoever waits is woken when the count gets positive.
SignalWhenPositive(t) ==
  LET s == Other(t)
  IN  /\ pc[t] = "signal"
      /\ count' = [count EXCEPT ![s] = @ + 1]
      /\ Goto(t, IF count[s] = 0 THEN "post" ELSE "idle")
      /\ UNCHANGED <<sema, index, data, kind, item, got, pop>>

Signal(t) ==
  LET s == Other(t)
  IN  /\ pc[t] = "signal"
      /\ count' = [count EXCEPT ![s] = @ + 1]
      /\ Goto(t, IF count[s] < 0 THEN "post" ELSE "idle")
      /\ UNCHANGED <<sema, index, data, kind, item, got, pop>>

\* Somebody waits in the kernel.
Post(t) ==
  /\ pc[t] = "post"
  /\ sema' = [sema EXCEPT ![Other(t)] = @ + 1]
  /\ Goto(t, "idle")
  /\ UNCHANGED <<count, index, data, kind, item, got, pop>>

-----------------------------------------------------------------------------
(* A thread runs whatever call it is in to its end.                        *)
Run(t) == Test(t) \/ Fail(t) \/ Spin(t) \/ Claim(t) \/ Park(t) \/ Wake(t) \/ TimeOut(t)
            \/ Restore(t) \/ Retake(t) \/ Signal(t) \/ Post(t)

ProducerStep == Run(Producer) \/ Construct
ConsumerStep == Run(Consumer) \/ Move \/ InnerPeek

Next ==
  \/ \E k \in Kinds, x \in Items : Enqueue(k, x)
  \/ \E k \in Kinds, discard \in BOOLEAN : Dequeue(k, discard)
  \/ Peek
  \/ ProducerStep
  \/ ConsumerStep

Spec == Init /\ [][Next]_vars

\* The scheduler lets both threads run.  Nobody need call anything.
FairSpec == Spec /\ WF_vars(ProducerStep) /\ WF_vars(ConsumerStep)

-----------------------------------------------------------------------------
(* The resources of the semaphores.                                        *)

\* Whether the count has been decremented for t, which has not yet used what
\* it gets for it.
Holds(t) == IF pc[t] \in {"access", "kernel", "tryKernel", "restore"} THEN 1 ELSE 0

\* What the other thread has signalled and t has not used: free slots, or
\* items in the buffer.
Available(t) == count[t] + Holds(t)

\* The items in the buffer, the oldest first.
Buffered == [k \in 1 .. Available(Consumer) |-> data[Cell(index[Consumer] + (k - 1))]]

-----------------------------------------------------------------------------
(* Properties.                                                             *)

\* The ring: the slot that the producer is about to fill holds no living
\* element and the one that the consumer is about to read or destroy does.
\* Hence the two never touch the same slot, although no lock guards it.
AccessSound ==
  /\ pc[Producer] = "access" => data[Cell(index[Producer])] = Raw
  /\ pc[Consumer] \in {"access", "peek"} => data[Cell(index[Consumer])] # Raw

\* LightweightSemaphore: every slot is free, being filled, filled, or being
\* emptied; timeouts neither lose one nor make one up.
SlotsConserved ==
  Available(Producer) + Available(Consumer)
    + (IF pc[Producer] = "signal" THEN 1 ELSE 0)
    + (IF pc[Consumer] = "signal" THEN 1 ELSE 0) = Capacity

\* waitWithPartialSpinning: no wakeup is lost and none is left over.  The
\* semaphore of the kernel is posted, or about to be, exactly if t has gone to
\* wait and has been signalled since, however its timeout falls.
OneWakeup ==
  \A t \in Threads :
    sema[t] + (IF pc[Other(t)] = "post" THEN 1 ELSE 0) =
      IF \/ pc[t] = "retake"
         \/ pc[t] \in {"kernel", "tryKernel", "restore"} /\ count[t] >= 0
      THEN 1 ELSE 0

\* The assertion in signal: at most one thread waits.
AtMostOneWaits == \A t \in Threads : count[t] >= -1

\* What a thread has been promised is there.
ClaimsCovered ==
  /\ \A t \in Threads : /\ Available(t) >= 0
                        /\ pc[t] \in {"claim", "retake"} => count[t] > 0
                        /\ pc[t] = "access" => Available(t) > 0
  /\ pc[Consumer] = "peek" => count[Consumer] > 0

\* The elements that live in the ring.
Living == Available(Consumer) + (IF pc[Producer] = "signal" THEN 1 ELSE 0)

\* They lie one after the other from nextItem, and end before nextSlot.
RingAligned ==
  /\ Cell(index[Producer]) = Cell(index[Consumer] + Living)
  /\ \A k \in 0 .. Size - 1 : data[Cell(index[Consumer] + k)] \in Items <=> k < Living

\* The inductive invariant: everything the atomic operations rely on.
BufferInv == TypeOK /\ SlotsConserved /\ OneWakeup /\ ClaimsCovered /\ RingAligned

\* The buffer is a bounded first-in first-out queue.
Fifo == INSTANCE BoundedFifo WITH queue <- Buffered
FifoSpec == Fifo!Spec

\* try_dequeue, try_pop and wait_dequeue_timed fail only on an empty buffer;
\* try_enqueue and wait_enqueue_timed only on a full one, or while the consumer
\* is still giving back the slot that it has emptied.
FailureIsTrue ==
  [][ /\ Fail(Consumer) \/ (Restore(Consumer) /\ pc'[Consumer] = "idle")
           => Buffered = <<>>
      /\ Fail(Producer) \/ (Restore(Producer) /\ pc'[Producer] = "idle")
           => Len(Buffered) = IF pc[Consumer] = "signal" THEN Capacity - 1 ELSE Capacity
    ]_vars

\* A function with a timeout, or without waiting, returns.
TimedCallsReturn ==
  \A t \in Threads : pc[t] # "idle" /\ kind[t] # "wait" ~> pc[t] = "idle"

\* wait_enqueue and wait_dequeue return once there is room, or an item.
WaitersAreServed ==
  \A t \in Threads :
    pc[t] \in {"spin", "kernel"} /\ Available(t) > 0 ~> pc[t] = "access"
=============================================================================
