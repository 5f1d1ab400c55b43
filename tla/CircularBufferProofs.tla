------------------------ MODULE CircularBufferProofs ------------------------
(***************************************************************************)
(* The circular buffer is a bounded queue and touches no slot from two     *)
(* threads, for every capacity and every ring that is large enough.        *)
(***************************************************************************)
EXTENDS CircularBuffer, SequenceTheorems, TLAPS

-----------------------------------------------------------------------------
(* Arithmetic of the ring.                                                 *)

\* Division with remainder.
LEMMA DivMod ==
  ASSUME NEW N \in Nat \ {0}, NEW a \in Nat
  PROVE  /\ a % N \in 0 .. N - 1
         /\ a \div N \in Int
         /\ a = N * (a \div N) + (a % N)
OBVIOUS

\* No multiple of N lies strictly between -N and N but 0.
LEMMA SmallMultiple ==
  ASSUME NEW N \in Nat \ {0}, NEW k \in Int, N * k < N, -N < N * k
  PROVE  k = 0
<1>1. k > -1
  <2> SUFFICES ASSUME k <= -1 PROVE FALSE
    OBVIOUS
  <2>1. N * k <= -N
    BY SMT
  <2> QED BY <2>1
<1>2. k < 1
  <2> SUFFICES ASSUME k >= 1 PROVE FALSE
    OBVIOUS
  <2>1. N * k >= N
    BY SMT
  <2> QED BY <2>1
<1> QED BY <1>1, <1>2

\* Two remainders are equal if the numbers differ by a multiple of N.
LEMMA Congruent ==
  ASSUME NEW N \in Nat \ {0}, NEW a \in Nat, NEW b \in Nat, NEW q \in Int, a = b + N * q
  PROVE  a % N = b % N
<1> DEFINE k == (b \div N) + q - (a \div N)
<1>1. a = N * (a \div N) + (a % N) /\ a \div N \in Int /\ a % N \in 0 .. N - 1
  BY DivMod
<1>2. b = N * (b \div N) + (b % N) /\ b \div N \in Int /\ b % N \in 0 .. N - 1
  BY DivMod
<1>3. k \in Int
  BY <1>1, <1>2
<1>4. (a % N) - (b % N) = N * k
  BY <1>1, <1>2
<1> HIDE DEF k
<1>5. k = 0
  BY <1>1, <1>2, <1>3, <1>4, SmallMultiple
<1> QED BY <1>1, <1>2, <1>4, <1>5

\* Different numbers less than N apart have different remainders.
LEMMA RemaindersDiffer ==
  ASSUME NEW N \in Nat \ {0}, NEW a \in Nat, NEW b \in Nat, a % N = b % N,
         a < b + N, b < a + N
  PROVE  a = b
<1> DEFINE k == (a \div N) - (b \div N)
<1>1. a = N * (a \div N) + (a % N) /\ a \div N \in Int /\ a % N \in 0 .. N - 1
  BY DivMod
<1>2. b = N * (b \div N) + (b % N) /\ b \div N \in Int /\ b % N \in 0 .. N - 1
  BY DivMod
<1>3. k \in Int
  BY <1>1, <1>2
<1>4. a - b = N * k
  BY <1>1, <1>2
<1> HIDE DEF k
<1>5. k = 0
  BY <1>3, <1>4, SmallMultiple
<1> QED BY <1>4, <1>5

Sizes == /\ Size \in Nat \ {0} /\ WordSize \in Nat \ {0}
         /\ Capacity \in Nat \ {0} /\ Capacity <= Size

\* A ring has slots, and so has a size_t.
LEMMA SizesPositive == Sizes
BY CircularBufferAssumption DEF Sizes

\* The same of cells.
LEMMA CellCongruent ==
  ASSUME NEW a \in Nat, NEW b \in Nat, NEW q \in Int, a = b + Size * q
  PROVE  Cell(a) = Cell(b)
BY SizesPositive, Congruent DEF Cell, Sizes

LEMMA CellDiffer ==
  ASSUME NEW a \in Nat, NEW b \in Nat, Cell(a) = Cell(b), a < b + Size, b < a + Size
  PROVE  a = b
BY SizesPositive, RemaindersDiffer DEF Cell, Sizes

\* Cell i and its wrapped index are the same: the ring divides the range of size_t.
LEMMA CellWraps ==
  ASSUME NEW i \in Nat, NEW k \in Nat
  PROVE  /\ i % WordSize \in 0 .. WordSize - 1
         /\ Cell((i % WordSize) + k) = Cell(i + k)
<1> DEFINE m == WordSize \div Size
           q == i \div WordSize
           r == i % WordSize
<1> USE SizesPositive DEF Sizes
<1>1. WordSize = Size * m /\ m \in Int
  BY DivMod, CircularBufferAssumption
<1>2. i = WordSize * q + r /\ q \in Int /\ r \in 0 .. WordSize - 1
  BY DivMod
<1> HIDE DEF m, q, r
<1>3. WordSize * q = Size * (m * q)
  BY <1>1, <1>2
<1>4. m * q \in Int
  BY <1>1, <1>2
<1>5. i + k = (r + k) + Size * (m * q)
  BY <1>2, <1>3, <1>4
<1>6. i + k \in Nat /\ r + k \in Nat
  BY <1>2
<1>7. Cell(i + k) = Cell(r + k)
  BY <1>4, <1>5, <1>6, CellCongruent
<1> QED BY <1>2, <1>7 DEF r

\* What Advance does to an index.
LEMMA AdvancedIndex ==
  ASSUME NEW i \in Nat
  PROVE  /\ (i + 1) % WordSize \in 0 .. WordSize - 1
         /\ Cell((i + 1) % WordSize) = Cell(i + 1)
         /\ \A k \in Nat : Cell(((i + 1) % WordSize) + k) = Cell((i + 1) + k)
<1> DEFINE j == i + 1
<1>1. j \in Nat
  OBVIOUS
<1> HIDE DEF j
<1>2. j % WordSize \in 0 .. WordSize - 1
  BY <1>1, CellWraps
<1>3. \A k \in Nat : Cell((j % WordSize) + k) = Cell(j + k)
  BY <1>1, CellWraps
<1> DEFINE r == j % WordSize
<1>4. r \in Nat /\ r + 0 = r /\ j + 0 = j
  BY <1>1, <1>2, SizesPositive DEF Sizes
<1>5. Cell(r + 0) = Cell(j + 0)
  BY <1>3
<1> HIDE DEF r
<1>6. Cell(r) = Cell(j)
  BY <1>4, <1>5
<1> QED BY <1>2, <1>3, <1>6 DEF r, j

\* A cell is in the ring, and once around the ring is the same cell.
LEMMA CellType ==
  ASSUME NEW i \in Nat
  PROVE  Cell(i) \in 0 .. Size - 1 /\ Cell(i + Size) = Cell(i)
<1> USE SizesPositive DEF Sizes
<1>1. Cell(i) \in 0 .. Size - 1
  BY DivMod DEF Cell
<1>2. i + Size \in Nat /\ i + Size = i + Size * 1
  OBVIOUS
<1> QED BY <1>1, <1>2, CellCongruent

\* Cells less than a ring apart are different.
LEMMA CellsDiffer ==
  ASSUME NEW i \in Nat, NEW j \in 0 .. Size - 1, NEW k \in 0 .. Size - 1,
         Cell(i + j) = Cell(i + k)
  PROVE  j = k
<1> USE SizesPositive DEF Sizes
<1>1. i + j = i + k
  <2>1. /\ i + j \in Nat /\ i + k \in Nat
        /\ i + j < (i + k) + Size /\ i + k < (i + j) + Size
    OBVIOUS
  <2> QED BY <2>1, CellDiffer
<1> QED BY <1>1

\* Cells that are the same have the same successor.
LEMMA CellNext ==
  ASSUME NEW i \in Nat, NEW j \in Nat, Cell(i) = Cell(j)
  PROVE  Cell(i + 1) = Cell(j + 1)
<1> USE SizesPositive DEF Sizes
<1>1. i = Size * (i \div Size) + (i % Size) /\ i \div Size \in Int
  BY DivMod
<1>2. j = Size * (j \div Size) + (j % Size) /\ j \div Size \in Int
  BY DivMod
<1> DEFINE q == (i \div Size) - (j \div Size)
<1>3. q \in Int
  BY <1>1, <1>2
<1>4. i + 1 = (j + 1) + Size * q
  BY <1>1, <1>2 DEF Cell
<1> HIDE DEF q
<1> QED BY <1>3, <1>4, i + 1 \in Nat, j + 1 \in Nat, CellCongruent

-----------------------------------------------------------------------------
(* The semaphores.                                                         *)

SemaInv == TypeOK /\ SlotsConserved /\ OneWakeup /\ ClaimsCovered

\* The threads are two.
LEMMA TwoThreads ==
  /\ Threads = {Producer, Consumer} /\ Producer # Consumer
  /\ Producer \in Threads /\ Consumer \in Threads
  /\ Other(Producer) = Consumer /\ Other(Consumer) = Producer
  /\ \A t \in Threads : Other(t) \in Threads
BY DEF Threads, Producer, Consumer, Other

\* Everything begins well.
LEMMA InitBufferInv == Init => BufferInv
<1> SUFFICES ASSUME Init PROVE BufferInv
  OBVIOUS
<1> USE TwoThreads DEF Init
<1>1. TypeOK
  <2>1. count \in [Threads -> Int] /\ sema \in [Threads -> Nat]
    BY CircularBufferAssumption
  <2>2. index \in [Threads -> 0 .. WordSize - 1]
    BY CircularBufferAssumption
  <2>3. data \in [0 .. Size - 1 -> Items \cup {Raw}]
    OBVIOUS
  <2> QED BY <2>1, <2>2, <2>3 DEF TypeOK, Kinds
<1>2. Available(Producer) = Capacity /\ Available(Consumer) = 0 /\ Living = 0
  BY CircularBufferAssumption DEF Available, Holds, Living
<1>3. SlotsConserved
  BY <1>2, CircularBufferAssumption DEF SlotsConserved
<1>4. OneWakeup
  BY DEF OneWakeup
<1>5. ClaimsCovered
  BY <1>2, CircularBufferAssumption DEF ClaimsCovered
<1>6. RingAligned
  <2>1. ASSUME NEW k \in 0 .. Size - 1
        PROVE  data[Cell(index[Consumer] + k)] \in Items <=> k < Living
    <3>1. Cell(index[Consumer] + k) \in 0 .. Size - 1
      BY CellType
    <3> QED BY <1>2, <3>1, CircularBufferAssumption
  <2>2. index[Producer] = 0 /\ index[Consumer] + Living = 0
    BY <1>2
  <2> QED BY <2>1, <2>2 DEF RingAligned
<1> QED BY <1>1, <1>3, <1>4, <1>5, <1>6 DEF BufferInv

\* Calls, and steps of a thread that leave the counts alone.
LEMMA CallsSemaInv ==
  ASSUME SemaInv,
         \/ \E k \in Kinds, x \in Items : Enqueue(k, x)
         \/ \E k \in Kinds, discard \in BOOLEAN : Dequeue(k, discard)
         \/ Peek
         \/ \E t \in Threads : Test(t) \/ Fail(t) \/ Spin(t)
  PROVE  SemaInv' /\ Living' = Living /\ index' = index /\ data' = data
<1> USE TwoThreads DEF SemaInv
<1>1. TypeOK'
  BY DEF TypeOK, Enqueue, Dequeue, Peek, Test, Fail, Spin, Goto, Kinds
<1>2. ASSUME NEW t \in Threads
      PROVE  /\ count'[t] = count[t] /\ Available(t)' = Available(t)
             /\ pc'[t] = "signal" <=> pc[t] = "signal"
             /\ pc'[t] = "access" <=> pc[t] = "access"
             /\ pc'[t] = "retake" <=> pc[t] = "retake"
             /\ pc'[t] \in {"claim", "peek"} => pc'[t] = pc[t] \/ count[t] > 0
  BY DEF TypeOK, Available, Holds, Enqueue, Dequeue, Peek, Test, Fail, Spin, Goto
<1>5. SlotsConserved' /\ ClaimsCovered' /\ Living' = Living
  BY <1>2 DEF SlotsConserved, ClaimsCovered, Living
<1>3. OneWakeup'
  BY DEF TypeOK, OneWakeup, Enqueue, Dequeue, Peek, Test, Fail, Spin, Goto
<1>4. index' = index /\ data' = data
  BY DEF Enqueue, Dequeue, Peek, Test, Fail, Spin
<1> QED BY <1>1, <1>3, <1>4, <1>5

\* The steps of a thread on the count of its own semaphore.
LEMMA WaitSemaInv ==
  ASSUME SemaInv, NEW t \in Threads,
         Claim(t) \/ Park(t) \/ Wake(t) \/ TimeOut(t) \/ Restore(t) \/ Retake(t)
  PROVE  SemaInv' /\ Living' = Living /\ index' = index /\ data' = data
<1> USE TwoThreads DEF SemaInv
<1>1. TypeOK'
  BY DEF TypeOK, Claim, Park, Wake, TimeOut, Restore, Retake, Goto
<1>2. index' = index /\ data' = data
  BY DEF Claim, Park, Wake, TimeOut, Restore, Retake
<1> USE DEF TypeOK, Available, Holds, Goto
<1>3. CASE Claim(t)
  <2>1. SlotsConserved' /\ Living' = Living
    <3>1. /\ Available(Producer)' = Available(Producer)
          /\ Available(Consumer)' = Available(Consumer)
      <4>1. CASE t = Producer
        BY <1>3, <4>1 DEF Claim
      <4>2. CASE t = Consumer
        BY <1>3, <4>2 DEF Claim
      <4> QED BY <4>1, <4>2
    <3>2. \A u \in Threads : pc'[u] = "signal" <=> pc[u] = "signal"
      BY <1>3 DEF Claim
    <3> QED BY <3>1, <3>2 DEF SlotsConserved, Living
  <2>2. ClaimsCovered'
    BY <1>3 DEF ClaimsCovered, OneWakeup, Claim
  <2>3. OneWakeup'
    BY <1>3 DEF ClaimsCovered, OneWakeup, Claim
  <2> QED BY <1>1, <1>2, <2>1, <2>2, <2>3
<1>4. CASE Park(t)
  <2>1. SlotsConserved' /\ Living' = Living
    <3>1. CASE t = Producer
      <4>1. /\ Available(Producer)' = Available(Producer)
            /\ Available(Consumer)' = Available(Consumer)
        BY <1>4, <3>1 DEF Park
      <4>2. \A u \in Threads : pc'[u] = "signal" <=> pc[u] = "signal"
        BY <1>4, <3>1 DEF Park
      <4> QED BY <4>1, <4>2 DEF SlotsConserved, Living
    <3>2. CASE t = Consumer
      <4>1. /\ Available(Producer)' = Available(Producer)
            /\ Available(Consumer)' = Available(Consumer)
        BY <1>4, <3>2 DEF Park
      <4>2. \A u \in Threads : pc'[u] = "signal" <=> pc[u] = "signal"
        BY <1>4, <3>2 DEF Park
      <4> QED BY <4>1, <4>2 DEF SlotsConserved, Living
    <3> QED BY <3>1, <3>2
  <2>2. ClaimsCovered'
    <3>1. CASE t = Producer
      BY <1>4, <3>1 DEF ClaimsCovered, OneWakeup, Park
    <3>2. CASE t = Consumer
      BY <1>4, <3>2 DEF ClaimsCovered, OneWakeup, Park
    <3> QED BY <3>1, <3>2
  <2>3. OneWakeup'
    BY <1>4 DEF ClaimsCovered, OneWakeup, Park
  <2> QED BY <1>1, <1>2, <2>1, <2>2, <2>3
<1>5. CASE Wake(t)
  <2>1. SlotsConserved' /\ Living' = Living
    BY <1>5 DEF SlotsConserved, Living, Wake
  <2>2. ClaimsCovered'
    BY <1>5 DEF ClaimsCovered, OneWakeup, Wake
  <2>3. OneWakeup'
    <3>1. /\ pc[t] \in {"kernel", "tryKernel"} /\ sema[t] > 0 /\ count' = count
          /\ sema' = [sema EXCEPT ![t] = @ - 1] /\ pc' = [pc EXCEPT ![t] = "access"]
      BY <1>5 DEF Wake
    <3>2. sema[t] = 1 /\ pc[Other(t)] # "post"
      BY <3>1 DEF OneWakeup
    <3>3. CASE t = Producer
      BY <3>1, <3>2, <3>3 DEF OneWakeup
    <3>4. CASE t = Consumer
      BY <3>1, <3>2, <3>4 DEF OneWakeup
    <3> QED BY <3>3, <3>4
  <2> QED BY <1>1, <1>2, <2>1, <2>2, <2>3
<1>6. CASE TimeOut(t)
  <2>1. SlotsConserved' /\ Living' = Living
    BY <1>6 DEF SlotsConserved, Living, TimeOut
  <2>2. ClaimsCovered'
    BY <1>6 DEF ClaimsCovered, OneWakeup, TimeOut
  <2>3. OneWakeup'
    BY <1>6 DEF ClaimsCovered, OneWakeup, TimeOut
  <2> QED BY <1>1, <1>2, <2>1, <2>2, <2>3
<1>7. CASE Restore(t)
  <2>1. SlotsConserved' /\ Living' = Living
    BY <1>7 DEF SlotsConserved, Living, Restore
  <2>2. ClaimsCovered'
    BY <1>7 DEF ClaimsCovered, OneWakeup, Restore
  <2>3. OneWakeup'
    BY <1>7 DEF ClaimsCovered, OneWakeup, Restore
  <2> QED BY <1>1, <1>2, <2>1, <2>2, <2>3
<1>8. CASE Retake(t)
  <2>1. SlotsConserved' /\ Living' = Living
    <3>1. /\ Available(Producer)' = Available(Producer)
          /\ Available(Consumer)' = Available(Consumer)
      <4>1. CASE t = Producer
        BY <1>8, <4>1 DEF Retake
      <4>2. CASE t = Consumer
        BY <1>8, <4>2 DEF Retake
      <4> QED BY <4>1, <4>2
    <3>2. \A u \in Threads : pc'[u] = "signal" <=> pc[u] = "signal"
      BY <1>8 DEF Retake
    <3> QED BY <3>1, <3>2 DEF SlotsConserved, Living
  <2>2. ClaimsCovered'
    BY <1>8 DEF ClaimsCovered, OneWakeup, Retake
  <2>3. OneWakeup'
    <3>1. /\ pc[t] = "retake" /\ count[t] > 0 /\ sema' = sema
          /\ pc' = [pc EXCEPT ![t] = "tryKernel"]
          /\ count' = [count EXCEPT ![t] = @ - 1]
      <4>1. pc[t] = "retake" /\ sema' = sema /\ count' = [count EXCEPT ![t] = @ - 1]
        BY <1>8 DEF Retake
      <4>2. count[t] > 0
        BY <4>1 DEF ClaimsCovered
      <4> QED BY <1>8, <4>1, <4>2 DEF Retake
    <3> QED BY <3>1 DEF OneWakeup
  <2> QED BY <1>1, <1>2, <2>1, <2>2, <2>3
<1> QED BY <1>3, <1>4, <1>5, <1>6, <1>7, <1>8

\* The steps of a thread on the other's semaphore.
LEMMA SignalSemaInv ==
  ASSUME SemaInv, NEW t \in Threads, Signal(t) \/ Post(t)
  PROVE  SemaInv' /\ Living' = Living /\ index' = index /\ data' = data
<1> USE TwoThreads DEF SemaInv
<1>1. TypeOK'
  BY DEF TypeOK, Signal, Post, Goto
<1>2. index' = index /\ data' = data
  BY DEF Signal, Post
<1> USE DEF TypeOK, Available, Holds, Goto
<1>3. CASE Signal(t)
  <2>1. SlotsConserved' /\ Living' = Living
    <3>1. CASE t = Producer
      <4>1. /\ Available(Producer)' = Available(Producer)
            /\ Available(Consumer)' = Available(Consumer) + 1
            /\ Available(Producer) \in Int /\ Available(Consumer) \in Int
        BY <1>3, <3>1 DEF Signal
      <4>2. /\ pc[Producer] = "signal" /\ pc'[Producer] # "signal"
            /\ pc'[Consumer] = pc[Consumer]
        BY <1>3, <3>1 DEF Signal
      <4> HIDE DEF TypeOK, Available, Holds, Goto
      <4> QED BY <4>1, <4>2 DEF SlotsConserved, Living
    <3>2. CASE t = Consumer
      <4>1. /\ Available(Producer)' = Available(Producer) + 1
            /\ Available(Consumer)' = Available(Consumer)
            /\ Available(Producer) \in Int /\ Available(Consumer) \in Int
        BY <1>3, <3>2 DEF Signal
      <4>2. /\ pc[Consumer] = "signal" /\ pc'[Consumer] # "signal"
            /\ pc'[Producer] = pc[Producer]
        BY <1>3, <3>2 DEF Signal
      <4> HIDE DEF TypeOK, Available, Holds, Goto
      <4> QED BY <4>1, <4>2 DEF SlotsConserved, Living
    <3> QED BY <3>1, <3>2
  <2>2. ClaimsCovered'
    BY <1>3 DEF ClaimsCovered, OneWakeup, Signal
  <2>3. OneWakeup'
    <3> DEFINE s == Other(t)
    <3>1. /\ pc[t] = "signal" /\ sema' = sema /\ s \in Threads /\ s # t
          /\ count' = [count EXCEPT ![s] = @ + 1]
          /\ pc' = [pc EXCEPT ![t] = IF count[s] < 0 THEN "post" ELSE "idle"]
      BY <1>3 DEF Signal
    <3>2. count[s] < 0 => pc[s] \in {"kernel", "tryKernel", "restore"} /\ count[s] = -1
      <4> HIDE DEF s
      <4>1. /\ count[s] \in Int /\ Available(s) >= 0
            /\ pc[s] = "access" => Available(s) > 0
        BY <3>1 DEF ClaimsCovered
      <4>2. CASE pc[s] \in {"access", "kernel", "tryKernel", "restore"}
        <5>1. Available(s) = count[s] + 1
          BY <4>2
        <5> QED BY <4>1, <4>2, <5>1
      <4>3. CASE pc[s] \notin {"access", "kernel", "tryKernel", "restore"}
        <5>1. Available(s) = count[s] + 0
          BY <4>3
        <5> QED BY <4>1, <5>1
      <4> QED BY <4>2, <4>3
    <3> HIDE DEF s
    <3>3. CASE count[s] < 0
      BY <3>1, <3>2, <3>3 DEF OneWakeup, s
    <3>4. CASE count[s] >= 0
      BY <3>1, <3>4 DEF OneWakeup, s
    <3> QED BY <3>1, <3>3, <3>4
  <2> QED BY <1>1, <1>2, <2>1, <2>2, <2>3
<1>4. CASE Post(t)
  <2>1. SlotsConserved' /\ Living' = Living
    BY <1>4 DEF SlotsConserved, Living, Post
  <2>2. ClaimsCovered'
    BY <1>4 DEF ClaimsCovered, OneWakeup, Post
  <2>3. OneWakeup'
    <3>1. /\ pc[t] = "post" /\ count' = count
          /\ sema' = [sema EXCEPT ![Other(t)] = @ + 1] /\ pc' = [pc EXCEPT ![t] = "idle"]
      BY <1>4 DEF Post
    <3>2. CASE t = Producer
      BY <3>1, <3>2 DEF OneWakeup
    <3>3. CASE t = Consumer
      BY <3>1, <3>3 DEF OneWakeup
    <3> QED BY <3>2, <3>3
  <2> QED BY <1>1, <1>2, <2>1, <2>2, <2>3
<1> QED BY <1>3, <1>4

-----------------------------------------------------------------------------
(* The ring.                                                               *)

\* Nothing but Construct and Move disturbs the ring.
LEMMA RingUndisturbed ==
  ASSUME RingAligned, Living' = Living, index' = index, data' = data
  PROVE  RingAligned'
BY DEF RingAligned

\* Construct fills the first free cell.
LEMMA ConstructBufferInv ==
  ASSUME BufferInv, Construct
  PROVE  BufferInv'
<1> USE TwoThreads
<1> DEFINE i == index[Consumer]
           n == Available(Consumer)
<1>1. TypeOK /\ SlotsConserved /\ OneWakeup /\ ClaimsCovered /\ RingAligned
  BY DEF BufferInv
<1>2. i \in Nat /\ index[Producer] \in Nat /\ index'[Consumer] = i
  BY <1>1 DEF TypeOK, Construct, Advance
<1>3. /\ pc[Producer] = "access" /\ pc' = [pc EXCEPT ![Producer] = "signal"]
      /\ count' = count /\ sema' = sema
  BY DEF Construct, Goto
<1>4. /\ n \in Nat /\ n < Size /\ Available(Consumer)' = n
      /\ Living = n /\ Living' = n + 1
      /\ Available(Producer)' = Available(Producer) - 1
  <2>1. /\ Holds(Producer) = 1 /\ Holds(Producer)' = 0
        /\ Holds(Consumer)' = Holds(Consumer) /\ Holds(Consumer) \in Nat
        /\ count[Producer] \in Int /\ count[Consumer] \in Int
        /\ pc'[Producer] = "signal" /\ pc'[Consumer] = pc[Consumer]
    BY <1>1, <1>3 DEF TypeOK, Holds
  <2>2. n >= 0 /\ Available(Producer) > 0
    BY <1>1, <1>3 DEF ClaimsCovered
  <2>3. n \in Nat /\ n < Size
    BY <1>1, <1>3, <2>1, <2>2, SizesPositive DEF SlotsConserved, Available, Sizes
  <2> QED BY <1>3, <2>1, <2>2, <2>3 DEF Living, Available
<1>5. SlotsConserved'
  <2>1. /\ Available(Producer) \in Int /\ Available(Consumer) \in Int
        /\ pc'[Producer] = "signal" /\ pc'[Consumer] = pc[Consumer]
    BY <1>1, <1>3 DEF TypeOK, Available, Holds
  <2> QED BY <1>1, <1>3, <1>4, <2>1 DEF SlotsConserved
<1>6. OneWakeup'
  BY <1>1, <1>3 DEF OneWakeup, TypeOK
<1>7. ClaimsCovered'
  BY <1>1, <1>3, <1>4 DEF ClaimsCovered, TypeOK, Available, Holds
<1>8. /\ Cell(i + n) \in 0 .. Size - 1
      /\ data' = [data EXCEPT ![Cell(i + n)] = item] /\ item \in Items
  <2>1. Cell(index[Producer]) = Cell(i + n) /\ data' = [data EXCEPT ![Cell(index[Producer])] = item]
    BY <1>1, <1>4 DEF RingAligned, Construct
  <2>2. Cell(index[Producer]) \in 0 .. Size - 1
    BY <1>2, CellType
  <2> QED BY <1>1, <2>1, <2>2 DEF TypeOK
<1>9. index'[Producer] = (index[Producer] + 1) % WordSize
  BY <1>1 DEF TypeOK, Construct, Advance
<1>10. Cell(index'[Producer]) = Cell(i + (n + 1))
  <2>1. Cell(index'[Producer]) = Cell(index[Producer] + 1)
    BY <1>2, <1>9, AdvancedIndex
  <2>2. Cell(index[Producer]) = Cell(i + n)
    BY <1>1, <1>4 DEF RingAligned
  <2> HIDE DEF i, n
  <2>3. i + n \in Nat /\ (i + n) + 1 = i + (n + 1)
    BY <1>2, <1>4
  <2>4. Cell(index[Producer] + 1) = Cell((i + n) + 1)
    BY <1>2, <2>2, <2>3, CellNext
  <2> QED BY <2>1, <2>3, <2>4
<1>11. ASSUME NEW k \in 0 .. Size - 1
       PROVE  data'[Cell(i + k)] \in Items <=> k < n + 1
  <2> HIDE DEF i
  <2>1. Cell(i + k) \in 0 .. Size - 1
    <3>1. i + k \in Nat
      BY <1>2
    <3> QED BY <3>1, CellType
  <2> USE DEF i
  <2>2. CASE k = n
    BY <1>1, <1>4, <1>8, <2>2 DEF TypeOK
  <2>3. CASE k # n
    <3>1. Cell(i + k) # Cell(i + n)
      <4> HIDE DEF i, n
      <4>1. n \in 0 .. Size - 1
        BY <1>4, SizesPositive DEF Sizes
      <4> QED BY <1>2, <4>1, <2>3, CellsDiffer
    <3>2. data'[Cell(i + k)] = data[Cell(i + k)]
      BY <1>1, <1>8, <2>1, <3>1 DEF TypeOK
    <3> QED BY <1>1, <1>4, <2>3, <3>2 DEF RingAligned
  <2> QED BY <2>2, <2>3
<1>12. RingAligned'
  BY <1>2, <1>4, <1>10, <1>11 DEF RingAligned
<1>13. TypeOK'
  <2>1. index'[Producer] \in 0 .. WordSize - 1
    BY <1>2, <1>9, AdvancedIndex
  <2>2. index' \in [Threads -> 0 .. WordSize - 1]
    BY <1>1, <1>9, <2>1 DEF TypeOK, Construct, Advance
  <2>3. data' \in [0 .. Size - 1 -> Items \cup {Raw}]
    BY <1>1, <1>8 DEF TypeOK
  <2> QED BY <1>1, <1>3, <2>2, <2>3 DEF TypeOK, Construct
<1> QED BY <1>5, <1>6, <1>7, <1>12, <1>13 DEF BufferInv

\* Move empties the first living cell.
LEMMA MoveBufferInv ==
  ASSUME BufferInv, Move
  PROVE  BufferInv'
<1> USE TwoThreads
<1> DEFINE i == index[Consumer]
           j == index'[Consumer]
           n == Living
<1>1. TypeOK /\ SlotsConserved /\ OneWakeup /\ ClaimsCovered /\ RingAligned
  BY DEF BufferInv
<1>2. /\ i \in Nat /\ j = (i + 1) % WordSize /\ index'[Producer] = index[Producer]
      /\ index[Producer] \in Nat
  BY <1>1 DEF TypeOK, Move, Advance
<1>3. /\ pc[Consumer] = "access" /\ pc' = [pc EXCEPT ![Consumer] = "signal"]
      /\ count' = count /\ sema' = sema
  BY DEF Move, Goto
<1>4. /\ n \in 1 .. Size /\ Living' = n - 1
      /\ Available(Consumer)' = Available(Consumer) - 1
      /\ Available(Producer)' = Available(Producer)
      /\ Available(Producer) \in Nat /\ Available(Consumer) \in Nat \ {0}
      /\ pc'[Producer] = pc[Producer]
  <2>1. /\ Holds(Consumer) = 1 /\ Holds(Consumer)' = 0
        /\ Holds(Producer)' = Holds(Producer) /\ Holds(Producer) \in Nat
        /\ count[Producer] \in Int /\ count[Consumer] \in Int
        /\ pc'[Consumer] = "signal" /\ pc'[Producer] = pc[Producer]
    BY <1>1, <1>3 DEF TypeOK, Holds
  <2>2. Available(Consumer) > 0 /\ Available(Producer) >= 0
    BY <1>1, <1>3 DEF ClaimsCovered
  <2>3. n \in 1 .. Size
    BY <1>1, <1>3, <2>1, <2>2, SizesPositive DEF SlotsConserved, Available, Sizes, Living
  <2> QED BY <1>3, <2>1, <2>2, <2>3 DEF Living, Available
<1>5. SlotsConserved'
  <2>1. pc'[Consumer] = "signal" /\ pc[Consumer] = "access"
    BY <1>1, <1>3 DEF TypeOK
  <2> QED BY <1>1, <1>4, <2>1 DEF SlotsConserved
<1>6. OneWakeup'
  BY <1>1, <1>3 DEF OneWakeup, TypeOK
<1>7. ClaimsCovered'
  BY <1>1, <1>3, <1>4 DEF ClaimsCovered, TypeOK, Available, Holds
<1>8. data' = [data EXCEPT ![Cell(i)] = Raw] /\ Cell(i) \in 0 .. Size - 1
  BY <1>2, CellType DEF Move
<1>9. ASSUME NEW k \in Nat
      PROVE  Cell(j + k) = Cell(i + (k + 1)) /\ j + k \in Nat /\ i + (k + 1) \in Nat
  <2> HIDE DEF i, j
  <2>1. i \in Nat /\ j \in Nat
    BY <1>2, AdvancedIndex, SizesPositive DEF Sizes
  <2>2. Cell(j + k) = Cell((i + 1) + k)
    BY <1>2, AdvancedIndex
  <2>3. (i + 1) + k = i + (k + 1)
    BY <2>1
  <2> QED BY <2>1, <2>2, <2>3
<1>10. Cell(index'[Producer]) = Cell(j + Living')
  <2>1. Cell(index[Producer]) = Cell(i + n)
    BY <1>1 DEF RingAligned
  <2> HIDE DEF n, i, j
  <2>2. n - 1 \in Nat /\ (n - 1) + 1 = n
    BY <1>4
  <2> QED BY <1>2, <1>4, <1>9, <2>1, <2>2
<1>11. ASSUME NEW k \in 0 .. Size - 1
       PROVE  data'[Cell(j + k)] \in Items <=> k < Living'
  <2>1. Cell(j + k) = Cell(i + (k + 1)) /\ Cell(j + k) \in 0 .. Size - 1
    <3> HIDE DEF i, j
    <3> QED BY <1>9, CellType
  <2>2. CASE k + 1 < Size
    <3>1. k + 1 \in 0 .. Size - 1 /\ 0 \in 0 .. Size - 1 /\ i + 0 = i
      BY <1>2, <2>2, SizesPositive DEF Sizes
    <3>2. Cell(i + (k + 1)) # Cell(i)
      <4> HIDE DEF i
      <4>1. Cell(i + (k + 1)) = Cell(i + 0) => k + 1 = 0
        BY <1>2, <3>1, CellsDiffer
      <4> QED BY <3>1, <4>1
    <3>3. data'[Cell(j + k)] = data[Cell(i + (k + 1))]
      BY <1>1, <1>8, <2>1, <3>2 DEF TypeOK
    <3>4. data[Cell(i + (k + 1))] \in Items <=> k + 1 < n
      BY <1>1, <3>1 DEF RingAligned
    <3> HIDE DEF i, j, n
    <3> QED BY <1>4, <3>3, <3>4
  <2>3. CASE k + 1 = Size
    <3>1. Cell(j + k) = Cell(i)
      <4> HIDE DEF i, j
      <4> QED BY <1>2, <2>1, <2>3, CellType
    <3>2. data'[Cell(j + k)] = Raw
      BY <1>1, <1>8, <3>1 DEF TypeOK
    <3> HIDE DEF i, j, n
    <3> QED BY <1>4, <2>3, <3>2, CircularBufferAssumption
  <2> QED BY <2>2, <2>3, SizesPositive DEF Sizes
<1>12. RingAligned'
  BY <1>10, <1>11 DEF RingAligned
<1>13. TypeOK'
  <2>1. j \in 0 .. WordSize - 1
    BY <1>2, AdvancedIndex
  <2>2. index' \in [Threads -> 0 .. WordSize - 1]
    BY <1>1, <1>2, <2>1 DEF TypeOK, Move, Advance
  <2>3. data' \in [0 .. Size - 1 -> Items \cup {Raw}]
    BY <1>1, <1>8 DEF TypeOK
  <2>4. got' \in Items
    <3>1. data[Cell(i + 0)] \in Items
      <4> HIDE DEF n
      <4>1. 0 < n /\ 0 \in 0 .. Size - 1
        BY <1>4, SizesPositive DEF Sizes
      <4> QED BY <1>1, <4>1 DEF RingAligned, n
    <3>2. i + 0 = i
      BY <1>2
    <3> QED BY <1>1, <3>1, <3>2 DEF Move, TypeOK
  <2> QED BY <1>1, <1>3, <2>2, <2>3, <2>4 DEF TypeOK, Move
<1> QED BY <1>5, <1>6, <1>7, <1>12, <1>13 DEF BufferInv

-----------------------------------------------------------------------------
(* The invariant.                                                          *)

\* peek leaves the buffer as it is.
LEMMA InnerPeekBufferInv ==
  ASSUME BufferInv, InnerPeek
  PROVE  BufferInv'
<1> USE TwoThreads
<1>1. TypeOK /\ SlotsConserved /\ OneWakeup /\ ClaimsCovered /\ RingAligned
  BY DEF BufferInv
<1>2. got' \in Items
  <2>1. 0 < Living /\ 0 \in 0 .. Size - 1 /\ index[Consumer] + 0 = index[Consumer]
    BY <1>1, SizesPositive DEF InnerPeek, ClaimsCovered, Living, Available, Holds, TypeOK, Sizes
  <2>2. data[Cell(index[Consumer] + 0)] \in Items
    BY <1>1, <2>1 DEF RingAligned
  <2> QED BY <2>1, <2>2 DEF InnerPeek
<1>3. TypeOK'
  BY <1>1, <1>2 DEF TypeOK, InnerPeek, Goto
<1>4. ASSUME NEW t \in Threads
      PROVE  /\ count'[t] = count[t] /\ sema'[t] = sema[t]
             /\ pc'[t] # pc[t] => t = Consumer /\ pc[t] = "peek" /\ pc'[t] = "idle"
  <2>1. /\ pc[Consumer] = "peek" /\ pc' = [pc EXCEPT ![Consumer] = "idle"]
        /\ count' = count /\ sema' = sema
    BY DEF InnerPeek, Goto
  <2> QED BY <1>1, <2>1 DEF TypeOK
<1>5. \A t \in Threads : Available(t)' = Available(t)
  BY <1>4 DEF Available, Holds
<1>6. SlotsConserved' /\ OneWakeup' /\ ClaimsCovered' /\ Living' = Living
  BY <1>1, <1>4, <1>5 DEF SlotsConserved, OneWakeup, ClaimsCovered, Living
<1>7. index' = index /\ data' = data
  BY DEF InnerPeek
<1> QED BY <1>1, <1>3, <1>6, <1>7, RingUndisturbed DEF BufferInv

\* Every step of the buffer, and none.
LEMMA NextBufferInv == BufferInv /\ [Next]_vars => BufferInv'
<1> SUFFICES ASSUME BufferInv, [Next]_vars PROVE BufferInv'
  OBVIOUS
<1>1. SemaInv /\ RingAligned
  BY DEF BufferInv, SemaInv
<1>2. CASE \/ \E k \in Kinds, x \in Items : Enqueue(k, x)
           \/ \E k \in Kinds, discard \in BOOLEAN : Dequeue(k, discard)
           \/ Peek
           \/ \E t \in Threads : Test(t) \/ Fail(t) \/ Spin(t)
  BY <1>1, <1>2, CallsSemaInv, RingUndisturbed DEF BufferInv, SemaInv
<1>3. ASSUME NEW t \in Threads,
             Claim(t) \/ Park(t) \/ Wake(t) \/ TimeOut(t) \/ Restore(t) \/ Retake(t)
      PROVE  BufferInv'
  BY <1>1, <1>3, WaitSemaInv, RingUndisturbed DEF BufferInv, SemaInv
<1>4. ASSUME NEW t \in Threads, Signal(t) \/ Post(t)
      PROVE  BufferInv'
  BY <1>1, <1>4, SignalSemaInv, RingUndisturbed DEF BufferInv, SemaInv
<1>5. CASE UNCHANGED vars
  BY <1>5 DEF BufferInv, TypeOK, SlotsConserved, OneWakeup, ClaimsCovered, RingAligned,
              Available, Holds, Living, vars
<1>6. CASE Construct \/ Move \/ InnerPeek
  BY <1>6, ConstructBufferInv, MoveBufferInv, InnerPeekBufferInv
<1> QED BY <1>2, <1>3, <1>4, <1>5, <1>6, TwoThreads
        DEF Next, ProducerStep, ConsumerStep, Run

\* Whatever the threads call, and however their steps interleave, the counts of
\* the semaphores and the ring agree.
THEOREM BufferCorrect == Spec => []BufferInv
BY InitBufferInv, NextBufferInv, PTL DEF Spec

\* The two threads never touch the same slot (inner_enqueue, inner_dequeue).
THEOREM NoSlotShared == Spec => []AccessSound
<1>1. BufferInv => AccessSound
  <2> SUFFICES ASSUME BufferInv PROVE AccessSound
    OBVIOUS
  <2> USE TwoThreads
  <2>1. TypeOK /\ SlotsConserved /\ ClaimsCovered /\ RingAligned
    BY DEF BufferInv
  <2>2. ASSUME pc[Producer] = "access" PROVE data[Cell(index[Producer])] = Raw
    <3>1. /\ Living = Available(Consumer) /\ Available(Producer) > 0
          /\ Available(Consumer) >= 0
          /\ Available(Producer) \in Int /\ Available(Consumer) \in Int
      BY <2>1, <2>2 DEF Living, ClaimsCovered, TypeOK, Available, Holds
    <3>2. Living \in 0 .. Size - 1
      BY <2>1, <2>2, <3>1, SizesPositive DEF SlotsConserved, Sizes
    <3>3. data[Cell(index[Producer])] \notin Items
      BY <2>1, <3>2 DEF RingAligned
    <3>4. Cell(index[Producer]) \in 0 .. Size - 1
      BY <2>1, CellType DEF TypeOK
    <3> QED BY <2>1, <3>3, <3>4 DEF TypeOK
  <2>3. ASSUME pc[Consumer] \in {"access", "peek"} PROVE data[Cell(index[Consumer])] # Raw
    <3>1. 0 < Living /\ 0 \in 0 .. Size - 1 /\ index[Consumer] + 0 = index[Consumer]
      BY <2>1, <2>3, SizesPositive DEF ClaimsCovered, Living, Available, Holds, TypeOK, Sizes
    <3>2. data[Cell(index[Consumer] + 0)] \in Items
      BY <2>1, <3>1 DEF RingAligned
    <3> QED BY <3>1, <3>2, CircularBufferAssumption
  <2> QED BY <2>2, <2>3 DEF AccessSound
<1> QED BY <1>1, BufferCorrect, PTL

\* No slot is lost or made up (LightweightSemaphore's counts).
THEOREM SlotsKept == Spec => []SlotsConserved
<1>1. BufferInv => SlotsConserved
  BY DEF BufferInv
<1> QED BY <1>1, BufferCorrect, PTL

\* No wakeup is lost and none is left over (waitWithPartialSpinning).
THEOREM WakeupsMatch == Spec => []OneWakeup
<1>1. BufferInv => OneWakeup
  BY DEF BufferInv
<1> QED BY <1>1, BufferCorrect, PTL

\* The assertion in LightweightSemaphore::signal never fails.
THEOREM AssertionHolds == Spec => []AtMostOneWaits
<1>1. BufferInv => AtMostOneWaits
  <2> SUFFICES ASSUME BufferInv, NEW t \in Threads PROVE count[t] >= -1
    BY DEF AtMostOneWaits
  <2>1. count[t] \in Int /\ Available(t) >= 0
    BY DEF BufferInv, TypeOK, ClaimsCovered
  <2>2. Holds(t) = 0 \/ Holds(t) = 1
    BY DEF Holds
  <2> QED BY <2>1, <2>2 DEF Available
<1> QED BY <1>1, BufferCorrect, PTL

-----------------------------------------------------------------------------
(* The abstract queue.                                                     *)

\* A function on 1 .. n is a sequence.
LEMMA FunctionIsSeq ==
  ASSUME NEW S, NEW n \in Nat, NEW f \in [1 .. n -> S]
  PROVE  f \in Seq(S) /\ Len(f) = n
OBVIOUS

\* The items in the buffer are a sequence of items.
BufferedFacts ==
  /\ Available(Consumer) \in 0 .. Size
  /\ Available(Consumer) <= Living /\ Living \in 0 .. Size
  /\ Buffered \in Seq(Items) /\ Len(Buffered) = Available(Consumer)
  /\ \A k \in 1 .. Available(Consumer) :
       Buffered[k] = data[Cell(index[Consumer] + (k - 1))]

LEMMA BufferedType == BufferInv => BufferedFacts
<1> SUFFICES ASSUME BufferInv PROVE BufferedFacts
  OBVIOUS
<1> USE TwoThreads
<1> DEFINE n == Available(Consumer)
<1>1. /\ n \in Nat /\ Available(Producer) \in Nat
      /\ n <= Living /\ Living \in Nat /\ Living <= Capacity
  <2>1. Available(Producer) \in Int /\ n \in Int
    BY DEF BufferInv, TypeOK, Available, Holds
  <2>2. Available(Producer) >= 0 /\ n >= 0
    BY DEF BufferInv, ClaimsCovered
  <2>3. Living = n \/ Living = n + 1
    BY <2>1 DEF Living
  <2> QED BY <2>1, <2>2, <2>3, SizesPositive
          DEF BufferInv, SlotsConserved, Living, Sizes
<1>2. n \in 0 .. Size /\ Living \in 0 .. Size
  BY <1>1, SizesPositive DEF Sizes
<1>3. \A k \in 1 .. n : data[Cell(index[Consumer] + (k - 1))] \in Items
  <2> SUFFICES ASSUME NEW k \in 1 .. n
               PROVE  data[Cell(index[Consumer] + (k - 1))] \in Items
    OBVIOUS
  <2> HIDE DEF n
  <2>1. k - 1 \in 0 .. Size - 1 /\ k - 1 < Living
    BY <1>1, <1>2, SizesPositive DEF Sizes
  <2> QED BY <2>1 DEF BufferInv, RingAligned
<1>4. Buffered \in [1 .. n -> Items]
  BY <1>3 DEF Buffered
<1>5. Buffered \in Seq(Items) /\ Len(Buffered) = n
  BY <1>1, <1>4, FunctionIsSeq
<1> QED BY <1>1, <1>2, <1>5 DEF Buffered, BufferedFacts

LEMMA BufferedTypeNext == BufferInv' => BufferedFacts'
BY BufferedType, PTL

\* Steps that leave the ring and what the consumer may take alone.
LEMMA BufferedUnchanged ==
  ASSUME Available(Consumer)' = Available(Consumer), index' = index, data' = data
  PROVE  Buffered' = Buffered
BY DEF Buffered

\* An empty buffer is an empty queue.
LEMMA InitFifo == Init => Fifo!Init
<1> SUFFICES ASSUME Init PROVE Fifo!Init
  OBVIOUS
<1>1. BufferInv
  BY InitBufferInv
<1>2. Available(Consumer) = 0
  BY TwoThreads DEF Init, Available, Holds
<1>3. Buffered = <<>>
  BY <1>1, <1>2, BufferedType, EmptySeq DEF BufferedFacts
<1> QED BY <1>3 DEF Fifo!Init, Init

\* The signal of the producer puts the item that it has constructed.
LEMMA SignalPuts ==
  ASSUME BufferInv, BufferInv', Signal(Producer)
  PROVE  \E x \in Items : Fifo!Put(x)
<1> USE TwoThreads
<1> DEFINE n == Available(Consumer)
           x == data[Cell(index[Consumer] + n)]
<1>1. /\ pc[Producer] = "signal" /\ count' = [count EXCEPT ![Consumer] = @ + 1]
      /\ index' = index /\ data' = data /\ got' = got
      /\ pc'[Consumer] = pc[Consumer]
  BY DEF Signal, Goto, BufferInv, TypeOK
<1>2. Available(Consumer)' = n + 1 /\ Living = n + 1
  BY <1>1 DEF Available, Holds, BufferInv, TypeOK, Living
<1>3. n \in 0 .. Size - 1 /\ n < Capacity
  <2>1. Available(Producer) >= 0 /\ Available(Producer) \in Int
    BY DEF BufferInv, ClaimsCovered, TypeOK, Available, Holds
  <2>2. n \in 0 .. Size
    BY BufferedType DEF BufferedFacts
  <2>3. Available(Producer) + n + 1 <= Capacity
    <3> HIDE DEF n
    <3>1. Available(Producer) + n + 1 + (IF pc[Consumer] = "signal" THEN 1 ELSE 0) = Capacity
      BY <1>1 DEF BufferInv, SlotsConserved, n
    <3> QED BY <2>1, <2>2, <3>1, SizesPositive DEF Sizes
  <2> QED BY <2>1, <2>2, <2>3, SizesPositive DEF Sizes
<1>4. x \in Items
  BY <1>2, <1>3 DEF BufferInv, RingAligned
<1>5. /\ Buffered \in Seq(Items) /\ Len(Buffered) = n
      /\ \A k \in 1 .. n : Buffered[k] = data[Cell(index[Consumer] + (k - 1))]
  BY BufferedType DEF BufferedFacts
<1>6. /\ Buffered' \in Seq(Items) /\ Len(Buffered') = n + 1
      /\ \A k \in 1 .. n + 1 : Buffered'[k] = data[Cell(index[Consumer] + (k - 1))]
  BY <1>1, <1>2, BufferedTypeNext DEF BufferedFacts
<1> HIDE DEF n, x
<1>7. Append(Buffered, x) \in Seq(Items) /\ Len(Append(Buffered, x)) = n + 1
  BY <1>4, <1>5
<1>8. ASSUME NEW k \in 1 .. n + 1 PROVE Buffered'[k] = Append(Buffered, x)[k]
  <2>1. CASE k = n + 1
    BY <1>3, <1>4, <1>5, <1>6, <2>1, (n + 1) - 1 = n DEF x
  <2>2. CASE k # n + 1
    <3>1. k \in 1 .. n
      BY <1>3, <2>2
    <3>2. Append(Buffered, x)[k] = Buffered[k]
      BY <1>4, <1>5, <3>1
    <3> QED BY <1>5, <1>6, <3>1, <3>2
  <2> QED BY <2>1, <2>2
<1>9. Buffered' = Append(Buffered, x)
  BY <1>6, <1>7, <1>8, SeqEqual
<1> QED BY <1>1, <1>3, <1>4, <1>5, <1>9 DEF Fifo!Put

\* Construct is not seen: it fills a cell behind the last item.
LEMMA ConstructStutters ==
  ASSUME BufferInv, BufferInv', Construct
  PROVE  Buffered' = Buffered /\ got' = got
<1> USE TwoThreads
<1> DEFINE n == Available(Consumer)
           i == index[Consumer]
<1>1. /\ pc[Producer] = "access" /\ count' = count /\ got' = got
      /\ index'[Consumer] = i /\ i \in Nat
      /\ pc'[Consumer] = pc[Consumer] /\ pc'[Producer] = "signal"
      /\ data' = [data EXCEPT ![Cell(index[Producer])] = item]
  BY DEF Construct, Goto, Advance, BufferInv, TypeOK
<1>2. /\ Available(Consumer)' = n /\ Living = n
      /\ Cell(index[Producer]) = Cell(i + Living) /\ Available(Producer) > 0
      /\ Available(Producer) \in Int
  <2>1. Available(Consumer)' = n /\ Available(Consumer) \in Int /\ Available(Producer) \in Int
    BY <1>1 DEF Available, Holds, BufferInv, TypeOK
  <2>2. Living = n
    BY <1>1, <2>1 DEF Living
  <2>3. Available(Producer) > 0
    BY <1>1 DEF BufferInv, ClaimsCovered
  <2> QED BY <2>1, <2>2, <2>3 DEF BufferInv, RingAligned
<1>3. n \in 0 .. Size - 1
  <2>1. n \in 0 .. Size
    BY BufferedType DEF BufferedFacts
  <2>2. n < Capacity
    BY <1>1, <1>2, <2>1, SizesPositive DEF BufferInv, SlotsConserved, Sizes
  <2> QED BY <2>1, <2>2, SizesPositive DEF Sizes
<1>4. /\ Buffered \in Seq(Items) /\ Len(Buffered) = n
      /\ \A k \in 1 .. n : Buffered[k] = data[Cell(i + (k - 1))]
  BY BufferedType DEF BufferedFacts
<1>5. /\ Buffered' \in Seq(Items) /\ Len(Buffered') = n
      /\ \A k \in 1 .. n : Buffered'[k] = data'[Cell(i + (k - 1))]
  BY <1>1, <1>2, BufferedTypeNext DEF BufferedFacts
<1>6. ASSUME NEW k \in 1 .. n PROVE Buffered'[k] = Buffered[k]
  <2> HIDE DEF n, i
  <2>1. k - 1 \in 0 .. Size - 1 /\ k - 1 # n /\ i + (k - 1) \in Nat
    BY <1>1, <1>3, SizesPositive DEF Sizes
  <2>2. Cell(i + (k - 1)) # Cell(i + n)
    BY <1>1, <1>3, <2>1, CellsDiffer
  <2>3. Cell(i + (k - 1)) \in 0 .. Size - 1
    BY <2>1, CellType
  <2>4. data'[Cell(i + (k - 1))] = data[Cell(i + (k - 1))]
    BY <1>1, <1>2, <2>2, <2>3 DEF BufferInv, TypeOK
  <2> QED BY <1>4, <1>5, <2>4
<1> HIDE DEF n, i
<1> QED BY <1>1, <1>4, <1>5, <1>6, SeqEqual

\* Move takes the oldest item, or drops it.
LEMMA MoveTakes ==
  ASSUME BufferInv, BufferInv', Move
  PROVE  Fifo!Take \/ Fifo!Drop
<1> USE TwoThreads
<1> DEFINE n == Available(Consumer)
           i == index[Consumer]
           j == index'[Consumer]
<1>1. /\ pc[Consumer] = "access" /\ count' = count /\ i \in Nat
      /\ j = (i + 1) % WordSize
      /\ got' = IF pop THEN got ELSE data[Cell(i)]
      /\ pc'[Consumer] = "signal"
      /\ data' = [data EXCEPT ![Cell(i)] = Raw]
  BY DEF Move, Goto, Advance, BufferInv, TypeOK
<1>2. n \in 1 .. Size /\ Available(Consumer)' = n - 1
  <2>1. n > 0 /\ Holds(Consumer) = 1 /\ Holds(Consumer)' = 0 /\ count[Consumer] \in Int
    BY <1>1 DEF BufferInv, TypeOK, ClaimsCovered, Holds
  <2>2. Available(Consumer)' = n - 1
    BY <1>1, <2>1 DEF Available
  <2> QED BY <2>1, <2>2, BufferedType DEF BufferedFacts
<1>3. /\ Buffered \in Seq(Items) /\ Len(Buffered) = n
      /\ \A k \in 1 .. n : Buffered[k] = data[Cell(i + (k - 1))]
  BY BufferedType DEF BufferedFacts
<1>4. /\ Buffered' \in Seq(Items) /\ Len(Buffered') = n - 1
      /\ \A k \in 1 .. n - 1 : Buffered'[k] = data'[Cell(j + (k - 1))]
  BY <1>2, BufferedTypeNext DEF BufferedFacts
<1>5. Buffered # <<>>
  BY <1>2, <1>3
<1>6. /\ Tail(Buffered) \in Seq(Items) /\ Len(Tail(Buffered)) = n - 1
      /\ \A k \in 1 .. n - 1 : Tail(Buffered)[k] = Buffered[k + 1]
  BY <1>3, <1>5, HeadTailProperties
<1>7. ASSUME NEW k \in 1 .. n - 1 PROVE Buffered'[k] = Tail(Buffered)[k]
  <2> HIDE DEF n, i, j
  <2>1. /\ k - 1 \in Nat /\ k \in 0 .. Size - 1 /\ 0 \in 0 .. Size - 1 /\ k # 0
        /\ k + 1 \in 1 .. n /\ (k + 1) - 1 = k /\ i + 0 = i
        /\ (i + 1) + (k - 1) = i + k /\ i + k \in Nat
    BY <1>1, <1>2, SizesPositive DEF Sizes
  <2>2. Cell(j + (k - 1)) = Cell(i + k)
    BY <1>1, <2>1, AdvancedIndex
  <2>3. Cell(i + k) # Cell(i + 0)
    BY <1>1, <2>1, CellsDiffer
  <2>4. Cell(i + k) \in 0 .. Size - 1
    BY <2>1, CellType
  <2>5. data'[Cell(i + k)] = data[Cell(i + k)]
    BY <1>1, <2>1, <2>3, <2>4 DEF BufferInv, TypeOK
  <2>6. Buffered[k + 1] = data[Cell(i + k)]
    BY <1>3, <2>1
  <2> QED BY <1>4, <1>6, <2>2, <2>5, <2>6
<1>8. Buffered' = Tail(Buffered)
  <2> HIDE DEF n
  <2> QED BY <1>4, <1>6, <1>7, SeqEqual
<1>9. data[Cell(i)] = Head(Buffered)
  <2> HIDE DEF n, i
  <2>1. 1 \in 1 .. n /\ i + (1 - 1) = i
    BY <1>1, <1>2
  <2> QED BY <1>3, <1>5, <2>1
<1> QED BY <1>1, <1>5, <1>8, <1>9 DEF Fifo!Take, Fifo!Drop

\* InnerPeek looks at the oldest item.
LEMMA InnerPeekLooks ==
  ASSUME BufferInv, InnerPeek
  PROVE  Fifo!Look
<1> USE TwoThreads
<1>1. /\ pc[Consumer] = "peek" /\ count' = count /\ index' = index /\ data' = data
      /\ got' = data[Cell(index[Consumer])] /\ index[Consumer] \in Nat
      /\ pc'[Consumer] = "idle" /\ Available(Consumer) > 0
  BY DEF InnerPeek, Goto, BufferInv, TypeOK, ClaimsCovered, Available, Holds
<1>2. Available(Consumer)' = Available(Consumer)
  BY <1>1 DEF Available, Holds
<1>3. Buffered' = Buffered
  BY <1>1, <1>2, BufferedUnchanged
<1>4. Buffered # <<>> /\ data[Cell(index[Consumer])] = Head(Buffered)
  <2>1. 1 \in 1 .. Available(Consumer) /\ index[Consumer] + (1 - 1) = index[Consumer]
    BY <1>1, BufferedType DEF BufferedFacts
  <2> QED BY <2>1, BufferedType DEF BufferedFacts
<1> QED BY <1>1, <1>3, <1>4 DEF Fifo!Look

\* Every step of the buffer is a step of the queue, or is not seen.
LEMMA NextFifo == BufferInv /\ BufferInv' /\ [Next]_vars => [Fifo!Next]_<<Buffered, got>>
<1> SUFFICES ASSUME BufferInv, BufferInv', [Next]_vars
             PROVE  [Fifo!Next]_<<Buffered, got>>
  OBVIOUS
<1> USE TwoThreads
<1>1. SemaInv
  BY DEF BufferInv, SemaInv
<1>2. ASSUME Living' = Living, index' = index, data' = data, got' = got,
             pc'[Producer] = "signal" <=> pc[Producer] = "signal"
      PROVE  UNCHANGED <<Buffered, got>>
  <2>1. Available(Consumer) \in Int /\ Available(Consumer)' \in Int
    BY BufferedType, BufferedTypeNext, SizesPositive DEF BufferedFacts, Sizes
  <2>2. Available(Consumer)' = Available(Consumer)
    BY <1>2, <2>1 DEF Living
  <2> QED BY <1>2, <2>2, BufferedUnchanged
<1>3. CASE \/ \E k \in Kinds, x \in Items : Enqueue(k, x)
           \/ \E k \in Kinds, discard \in BOOLEAN : Dequeue(k, discard)
           \/ Peek
           \/ \E t \in Threads : Test(t) \/ Fail(t) \/ Spin(t)
  <2>1. /\ got' = got
        /\ pc'[Producer] = "signal" <=> pc[Producer] = "signal"
    BY <1>3 DEF Enqueue, Dequeue, Peek, Test, Fail, Spin, Goto, BufferInv, TypeOK
  <2>2. Living' = Living /\ index' = index /\ data' = data
    BY <1>1, <1>3, CallsSemaInv
  <2> QED BY <1>2, <2>1, <2>2
<1>4. ASSUME NEW t \in Threads,
             Claim(t) \/ Park(t) \/ Wake(t) \/ TimeOut(t) \/ Restore(t) \/ Retake(t)
      PROVE  UNCHANGED <<Buffered, got>>
  <2>1. /\ got' = got
        /\ pc'[Producer] = "signal" <=> pc[Producer] = "signal"
    BY <1>4 DEF Claim, Park, Wake, TimeOut, Restore, Retake, Goto, BufferInv, TypeOK
  <2>2. Living' = Living /\ index' = index /\ data' = data
    BY <1>1, <1>4, WaitSemaInv
  <2> QED BY <1>2, <2>1, <2>2
<1>5. ASSUME Post(Producer) \/ Signal(Consumer) \/ Post(Consumer)
      PROVE  UNCHANGED <<Buffered, got>>
  <2>1. /\ got' = got
        /\ pc'[Producer] = "signal" <=> pc[Producer] = "signal"
    BY <1>5 DEF Signal, Post, Goto, BufferInv, TypeOK
  <2>2. Living' = Living /\ index' = index /\ data' = data
    BY <1>1, <1>5, SignalSemaInv
  <2> QED BY <1>2, <2>1, <2>2
<1>6. CASE Signal(Producer)
  BY <1>6, SignalPuts DEF Fifo!Next
<1>7. CASE Construct
  BY <1>7, ConstructStutters
<1>8. CASE Move
  BY <1>8, MoveTakes DEF Fifo!Next
<1>9. CASE InnerPeek
  BY <1>9, InnerPeekLooks DEF Fifo!Next
<1>10. CASE UNCHANGED vars
  BY <1>10 DEF vars, Buffered, Available, Holds
<1> QED BY <1>3, <1>4, <1>5, <1>6, <1>7, <1>8, <1>9, <1>10
        DEF Next, ProducerStep, ConsumerStep, Run

\* The circular buffer implements the bounded queue.
THEOREM BufferIsFifo == Spec => FifoSpec
<1>1. Init => Fifo!Init
  BY InitFifo
<1>2. BufferInv /\ BufferInv' /\ [Next]_vars => [Fifo!Next]_<<Buffered, got>>
  BY NextFifo
<1> QED BY <1>1, <1>2, BufferCorrect, PTL DEF Spec, FifoSpec, Fifo!Spec

\* A call of thread t that gives up finds nothing for it.
LEMMA GivingUp ==
  ASSUME BufferInv, NEW t \in Threads, Fail(t) \/ (Restore(t) /\ pc'[t] = "idle")
  PROVE  Available(t) = 0 /\ pc[t] # "signal"
<1>1. TypeOK /\ count[t] \in Int /\ Available(t) >= 0
  BY DEF BufferInv, TypeOK, ClaimsCovered
<1>2. CASE Fail(t)
  BY <1>1, <1>2 DEF Fail, Available, Holds
<1>3. CASE Restore(t) /\ pc'[t] = "idle"
  <2>1. pc[t] = "restore" /\ count[t] < 0
    BY <1>1, <1>3 DEF Restore, Goto, TypeOK
  <2> QED BY <1>1, <2>1 DEF Available, Holds
<1> QED BY <1>2, <1>3

\* Functions of the buffer report failure only when it is true.
THEOREM FailuresTrue == Spec => FailureIsTrue
<1> USE TwoThreads
<1> DEFINE GivesUp(t) == Fail(t) \/ (Restore(t) /\ pc'[t] = "idle")
<1>1. ASSUME BufferInv, GivesUp(Consumer) PROVE Buffered = <<>>
  BY <1>1, GivingUp, BufferedType, EmptySeq DEF BufferedFacts
<1>2. ASSUME BufferInv, GivesUp(Producer)
      PROVE  Len(Buffered) = IF pc[Consumer] = "signal" THEN Capacity - 1 ELSE Capacity
  <2>1. Available(Producer) = 0 /\ pc[Producer] # "signal"
    BY <1>2, GivingUp
  <2>2. Len(Buffered) = Available(Consumer) /\ Available(Consumer) \in Int
    BY <1>2, BufferedType, SizesPositive DEF BufferedFacts, Sizes
  <2> QED BY <1>2, <2>1, <2>2, SizesPositive DEF BufferInv, SlotsConserved, Sizes
<1> QED BY <1>1, <1>2, BufferCorrect, PTL DEF Spec, FailureIsTrue
=============================================================================
