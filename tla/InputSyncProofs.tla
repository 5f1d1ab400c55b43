--------------------------- MODULE InputSyncProofs ---------------------------
(***************************************************************************)
(* Lemmas about the operators of InputSync, for every ring size.           *)
(***************************************************************************)
EXTENDS InputSync, TLAPS, WellFoundedInduction

ParseResult == [firstTick : Nat, count : 0 .. MaxTicks, inputs : Vector,
                lastTickAcked : OptTick]

-----------------------------------------------------------------------------
(* Induction.  A set that contains 0 and with each number the next one     *)
(* contains every number; a recursive function of the module has the       *)
(* values its equation gives it because such a set shows that it exists.   *)

\* A set of numbers has a least one.
LEMMA LeastNumber ==
  ASSUME NEW S, S \subseteq Nat, S # {}
  PROVE  \E m \in S : \A n \in S : m <= n
<1>1. PICK m \in S : \A n \in S : <<n, m>> \notin OpToRel(<, Nat)
  BY NatLessThanWellFounded, WFMin
<1>2. \A n \in S : ~(n < m)
  BY <1>1 DEF OpToRel
<1> QED BY <1>2

\* A set of numbers with an upper bound has a greatest one.
LEMMA GreatestNumber ==
  ASSUME NEW S, NEW b \in Nat, S \subseteq 0 .. b, S # {}
  PROVE  \E m \in S : \A n \in S : n <= m
<1> DEFINE D == {b - n : n \in S}
<1>1. D \subseteq Nat /\ D # {}
  <2>1. PICK n \in S : TRUE
    OBVIOUS
  <2>2. b - n \in D
    OBVIOUS
  <2> QED BY <2>2
<1>2. PICK d \in D : \A e \in D : d <= e
  <2> HIDE DEF D
  <2> QED BY <1>1, LeastNumber
<1>3. PICK m \in S : d = b - m
  BY <1>2
<1>4. \A n \in S : b - m <= b - n
  BY <1>2, <1>3
<1> QED BY <1>4

\* Induction up to a number.
LEMMA InductionUpTo ==
  ASSUME NEW n \in Nat, NEW S, 0 \in S, \A i \in 0 .. n - 1 : i \in S => i + 1 \in S
  PROVE  n \in S
<1> DEFINE T == {i \in 0 .. n : i \notin S}
<1> SUFFICES ASSUME n \notin S PROVE FALSE
  OBVIOUS
<1>1. T \subseteq Nat /\ T # {}
  OBVIOUS
<1>2. PICK m \in T : \A i \in T : m <= i
  <2> HIDE DEF T
  <2> QED BY <1>1, LeastNumber
<1>3. m # 0 /\ m - 1 \in 0 .. n - 1 /\ m - 1 + 1 = m
  BY <1>2
<1>4. m - 1 \in S
  BY <1>2, <1>3
<1> QED BY <1>2, <1>3, <1>4

-----------------------------------------------------------------------------
(* Arithmetic of the ring.                                                 *)

\* Division with remainder.
LEMMA DivMod ==
  ASSUME NEW N \in Nat \ {0}, NEW a \in Nat
  PROVE  /\ a % N \in 0 .. N - 1
         /\ a \div N \in Int
         /\ a = N * (a \div N) + (a % N)
OBVIOUS

\* A positive multiple of N is at least N.
LEMMA PositiveMultiple ==
  ASSUME NEW N \in Nat \ {0}, NEW k \in Int, N * k > 0
  PROVE  N * k >= N
<1>1. CASE k <= 0
  BY <1>1, SMT
<1>2. CASE k >= 1
  BY <1>2, SMT
<1> QED BY <1>1, <1>2

\* Two ticks less than a ring apart have different slots: RingBuffer::GetAt
\* does not confuse them.
LEMMA SlotsDiffer ==
  ASSUME NEW a \in Nat, NEW b \in Nat, a < b, b < a + MaxTicks
  PROVE  Slot(a) # Slot(b)
<1> DEFINE N == MaxTicks
           k == (b \div N) - (a \div N)
<1>1. N \in Nat \ {0}
  BY InputSyncAssumption
<1> SUFFICES ASSUME a % N = b % N PROVE FALSE
  BY DEF Slot
<1> HIDE DEF N
<1>2. a = N * (a \div N) + (a % N) /\ a \div N \in Int
  BY <1>1, DivMod
<1>3. b = N * (b \div N) + (b % N) /\ b \div N \in Int
  BY <1>1, DivMod
<1>4. b - a = N * k
  BY <1>1, <1>2, <1>3
<1>5. k \in Int /\ N * k > 0
  BY <1>2, <1>3, <1>4
<1> HIDE DEF k
<1>6. N * k >= N
  BY <1>1, <1>5, PositiveMultiple
<1>7. b < a + N
  BY DEF N
<1> QED BY <1>1, <1>4, <1>6, <1>7

\* Every tick has a slot.
LEMMA SlotType ==
  ASSUME NEW t \in Nat
  PROVE  Slot(t) \in Slots
BY InputSyncAssumption, DivMod DEF Slot, Slots

-----------------------------------------------------------------------------
(* Types.                                                                  *)

\* The tick after an ack is a tick, one more than the ack.
LEMMA TickAfterAck ==
  ASSUME NEW ack \in OptTick
  PROVE  TickAfter(ack) = ack + 1 /\ TickAfter(ack) \in Nat
BY DEF TickAfter, HasValue, NoTick, OptTick

\* A new synchronizer is a synchronizer.
LEMMA NewSynchronizerType == NewSynchronizer \in Synchronizer
BY DEF NewSynchronizer, Synchronizer, OptTick

\* Enqueue and Ack return synchronizers.
LEMMA EnqueueType ==
  ASSUME NEW s \in Synchronizer, NEW tick \in Nat, NEW input \in Inputs \cup {NoInput}
  PROVE  Enqueue(s, tick, input) \in Synchronizer
BY SlotType DEF Enqueue, Synchronizer, OptTick

LEMMA AckType ==
  ASSUME NEW s \in Synchronizer, NEW ack \in OptTick
  PROVE  Ack(s, ack) \in Synchronizer
BY DEF Ack, Synchronizer

\* A packet that GetPaket makes has at most MaxTicks inputs, all from the ring.
LEMMA GetPaketType ==
  ASSUME NEW s \in Synchronizer, NEW ack \in OptTick, CanGetPaket(s, ack)
  PROVE  GetPaket(s, ack) \in PlayerPacket
<1> DEFINE n == IF HasValue(s.tickNum) THEN SendCount(s, ack) ELSE 0
<1>1. n \in 0 .. MaxTicks
  BY InputSyncAssumption, TickAfterAck
     DEF CanGetPaket, SendCount, HasValue, Synchronizer, OptTick, NoTick
<1>2. \A i \in Slots : TickAfter(ack) + i \in Nat
  BY TickAfterAck DEF Slots
<1>3. \A i \in Slots : s.buffer[Slot(TickAfter(ack) + i)] \in Inputs \cup {NoInput}
  BY <1>2, SlotType DEF Synchronizer
<1> HIDE DEF n
<1>4. [i \in Slots |-> IF i < n THEN s.buffer[Slot(TickAfter(ack) + i)] ELSE NoInput] \in Vector
  BY <1>3 DEF Vector
<1>5. s.tickNum \in OptTick
  BY DEF Synchronizer
<1> QED BY <1>1, <1>4, <1>5 DEF GetPaket, PlayerPacket, n

\* What ParsePaket counts, when it takes anything.
LEMMA ParsePaketCount ==
  ASSUME NEW pkt \in PlayerPacket, NEW ack \in OptTick,
         ~Ignored(pkt, ack), ~TooShort(pkt, ack)
  PROVE  /\ pkt.tickNum - TickAfter(ack) + 1 \in 1 .. pkt.count
         /\ pkt.tickNum \in Nat
         /\ pkt.count \in 1 .. MaxTicks
         /\ Skip(pkt, ack) \in 0 .. pkt.count - 1
BY InputSyncAssumption, TickAfterAck
   DEF Ignored, TooShort, Skip, PlayerPacket, OptTick, HasValue, NoTick

LEMMA ParsePaketType ==
  ASSUME NEW pkt \in PlayerPacket, NEW ack \in OptTick
  PROVE  ParsePaket(pkt, ack) \in ParseResult
<1>1. EmptyVector \in Vector
  BY DEF EmptyVector, Vector
<1>2. \A a \in OptTick : NothingParsed(a) \in ParseResult
  BY <1>1, InputSyncAssumption DEF NothingParsed, ParseResult
<1>3. CASE Ignored(pkt, ack)
  BY <1>2, <1>3 DEF ParsePaket
<1>4. CASE ~Ignored(pkt, ack) /\ TooShort(pkt, ack)
  <2>1. pkt.tickNum \in OptTick
    BY DEF PlayerPacket
  <2> QED BY <1>2, <1>4, <2>1 DEF ParsePaket
<1>5. CASE ~Ignored(pkt, ack) /\ ~TooShort(pkt, ack)
  <2> DEFINE n == pkt.tickNum - TickAfter(ack) + 1
             v == [i \in Slots |-> IF i < n THEN pkt.inputs[Skip(pkt, ack) + i] ELSE NoInput]
  <2>1. /\ n \in 1 .. pkt.count
        /\ pkt.tickNum \in Nat
        /\ pkt.count \in 1 .. MaxTicks
        /\ Skip(pkt, ack) = pkt.count - n
    BY <1>5, ParsePaketCount DEF Skip
  <2>2. \A i \in Slots : i < n => Skip(pkt, ack) + i \in Slots
    BY <2>1, InputSyncAssumption DEF Slots
  <2>3. v \in Vector
    BY <2>2 DEF Vector, PlayerPacket
  <2>4. ParsePaket(pkt, ack) = [firstTick |-> TickAfter(ack), count |-> n, inputs |-> v,
                                lastTickAcked |-> pkt.tickNum]
    BY <1>5 DEF ParsePaket
  <2> HIDE DEF v
  <2>5. n \in 0 .. MaxTicks
    BY <2>1, InputSyncAssumption
  <2> HIDE DEF n
  <2> QED BY <2>1, <2>3, <2>4, <2>5, TickAfterAck DEF ParseResult, OptTick
<1> QED BY <1>3, <1>4, <1>5

\* The loop of Enqueue keeps the type.
LEMMA EnqueueAllType ==
  ASSUME NEW s \in Synchronizer, NEW first \in Nat, NEW n \in 0 .. MaxTicks,
         NEW inputs \in Vector
  PROVE  EnqueueAll(s, first, n, inputs) \in Synchronizer
<1> DEFINE InSlot(k) == {i \in 0 .. n - 1 : Slot(first + i) = k}
           Pick(k)   == CHOOSE i \in InSlot(k) : TRUE
           b == [k \in Slots |-> IF InSlot(k) = {} THEN s.buffer[k] ELSE inputs[Pick(k)]]
<1>1. \A k \in Slots : InSlot(k) # {} => Pick(k) \in InSlot(k)
  OBVIOUS
<1>2. \A k \in Slots : InSlot(k) # {} => Pick(k) \in Slots
  BY <1>1, InputSyncAssumption DEF Slots
<1>3. b \in [Slots -> Inputs \cup {NoInput}]
  BY <1>2 DEF Vector, Synchronizer
<1>4. (IF n > 0 THEN first + n - 1 ELSE s.tickNum) \in OptTick
  BY InputSyncAssumption DEF Synchronizer, OptTick
<1>5. EnqueueAll(s, first, n, inputs)
        = [s EXCEPT !.tickNum = IF n > 0 THEN first + n - 1 ELSE @, !.buffer = b]
  BY DEF EnqueueAll, Synchronizer
<1> HIDE DEF b
<1> QED BY <1>3, <1>4, <1>5 DEF Synchronizer

LEMMA UpdateFromPacketType ==
  ASSUME NEW s \in Synchronizer, NEW pkt \in PlayerPacket
  PROVE  UpdateFromPacket(s, pkt) \in Synchronizer
<1> DEFINE parsed == ParsePaket(pkt, s.lastTickAcked)
           s1     == [s EXCEPT !.lastTickAcked = parsed.lastTickAcked]
<1>1. parsed \in ParseResult
  BY ParsePaketType DEF Synchronizer
<1>2. s1 \in Synchronizer
  BY <1>1 DEF Synchronizer, ParseResult
<1>3. UpdateFromPacket(s, pkt) = EnqueueAll(s1, parsed.firstTick, parsed.count, parsed.inputs)
  BY DEF UpdateFromPacket
<1> HIDE DEF parsed, s1
<1> QED BY <1>1, <1>2, <1>3, EnqueueAllType DEF ParseResult

-----------------------------------------------------------------------------
(* What the loop of Enqueue leaves behind.                                 *)

\* Every input is found at the slot of its tick, and the other slots, and the
\* ack, are as before: no turn of the loop overwrites what another has written.
LEMMA EnqueueAllBuffer ==
  ASSUME NEW s \in Synchronizer, NEW first \in Nat, NEW n \in 0 .. MaxTicks,
         NEW inputs \in Vector
  PROVE  LET s2 == EnqueueAll(s, first, n, inputs)
         IN  /\ s2.lastTickAcked = s.lastTickAcked
             /\ s2.tickNum = IF n > 0 THEN first + n - 1 ELSE s.tickNum
             /\ \A i \in 0 .. n - 1 : s2.buffer[Slot(first + i)] = inputs[i]
             /\ \A k \in Slots : (\A i \in 0 .. n - 1 : Slot(first + i) # k)
                                   => s2.buffer[k] = s.buffer[k]
<1> DEFINE InSlot(k) == {i \in 0 .. n - 1 : Slot(first + i) = k}
           b == [k \in Slots |-> IF InSlot(k) = {} THEN s.buffer[k]
                                 ELSE inputs[CHOOSE i \in InSlot(k) : TRUE]]
<1>1. EnqueueAll(s, first, n, inputs)
        = [s EXCEPT !.tickNum = IF n > 0 THEN first + n - 1 ELSE @, !.buffer = b]
  BY DEF EnqueueAll, Synchronizer
<1>2. \A i \in 0 .. n - 1 : b[Slot(first + i)] = inputs[i]
  <2> TAKE i \in 0 .. n - 1
  <2>1. first + i \in Nat
    OBVIOUS
  <2>2. Slot(first + i) \in Slots
    BY <2>1, SlotType
  <2>3. i \in InSlot(Slot(first + i))
    OBVIOUS
  <2>4. \A j \in InSlot(Slot(first + i)) : j = i
    <3> SUFFICES ASSUME NEW j \in 0 .. n - 1, Slot(first + j) = Slot(first + i), j # i
                 PROVE  FALSE
      OBVIOUS
    <3>1. CASE j < i
      <4>1. first + j \in Nat /\ first + j < first + i /\ first + i < first + j + MaxTicks
        BY <3>1, InputSyncAssumption
      <4> QED BY <2>1, <4>1, SlotsDiffer
    <3>2. CASE i < j
      <4>1. first + j \in Nat /\ first + i < first + j /\ first + j < first + i + MaxTicks
        BY <3>2, InputSyncAssumption
      <4> QED BY <2>1, <4>1, SlotsDiffer
    <3> QED BY <3>1, <3>2
  <2>5. (CHOOSE j \in InSlot(Slot(first + i)) : TRUE) = i
    BY <2>3, <2>4
  <2> QED BY <2>2, <2>3, <2>5
<1>3. \A k \in Slots : (\A i \in 0 .. n - 1 : Slot(first + i) # k) => b[k] = s.buffer[k]
  OBVIOUS
<1> HIDE DEF b
<1>4. /\ EnqueueAll(s, first, n, inputs).buffer = b
      /\ EnqueueAll(s, first, n, inputs).lastTickAcked = s.lastTickAcked
      /\ EnqueueAll(s, first, n, inputs).tickNum = IF n > 0 THEN first + n - 1 ELSE s.tickNum
  BY <1>1 DEF Synchronizer
<1> QED BY <1>2, <1>3, <1>4
=============================================================================
