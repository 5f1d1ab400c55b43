------------------------------ MODULE InputSync ------------------------------
(***************************************************************************)
(* CPlayerInputsSynchronizer: the sliding window over one player's inputs  *)
(* that the client and the server both keep, and the packet that carries   *)
(* it.  The operations are pure operators on a record                      *)
(*                                                                         *)
(*   lastTickAcked  m_lastTickAcked, the last tick the other end has       *)
(*   tickNum        m_tickNum, the last tick in the window                 *)
(*   buffer         m_playerInputsBuffer, a ring of MaxTicks inputs        *)
(*                                                                         *)
(* The modules that own a synchronizer (client, server) decide when each   *)
(* operation happens.                                                      *)
(*                                                                         *)
(* A definition whose comment begins with "Fault" is a wrong version of    *)
(* the one that follows it, never used by the specification: a property    *)
(* is worth stating only if it notices such an exchange.                   *)
(***************************************************************************)
EXTENDS Integers

CONSTANTS
  Inputs,    \* the values a CPlayerInput takes
  NoInput,   \* what a ring slot holds before anything is written to it
  MaxTicks   \* MAX_TICKS_TO_TRANSMIT: ring capacity and largest packet

ASSUME InputSyncAssumption == /\ MaxTicks \in Nat \ {0}
                              /\ NoInput \notin Inputs

-----------------------------------------------------------------------------
(***************************************************************************)
(* OptInt.  Ticks are counted from 0, so the INT_MIN that means "no value" *)
(* is represented by -1: like INT_MIN it is below every tick.              *)
(***************************************************************************)
NoTick == -1
HasValue(t) == t # NoTick
OptTick == Nat \cup {NoTick}

\* lastTickAcked.has_value() ? lastTickAcked.value() + 1 : 0
TickAfter(ack) == IF HasValue(ack) THEN ack + 1 ELSE 0

(***************************************************************************)
(* RingBuffer<CPlayerInput>: GetAt(index) is m_buffer[index % capacity].   *)
(***************************************************************************)
Slots == 0 .. MaxTicks - 1
Slot(t) == t % MaxTicks

Synchronizer == [lastTickAcked : OptTick,
                 tickNum       : OptTick,
                 buffer        : [Slots -> Inputs \cup {NoInput}]]

\* A freshly constructed synchronizer: both ticks unset.
NewSynchronizer == [lastTickAcked |-> NoTick,
                    tickNum       |-> NoTick,
                    buffer        |-> [k \in Slots |-> NoInput]]

(***************************************************************************)
(* FlatBuffPacket::PlayerInputsSynchronizer: tick_num, and the vector      *)
(* inputs of count elements whose last one belongs to tick_num.  A vector  *)
(* is an array of MaxTicks inputs, NoInput after its last element.         *)
(***************************************************************************)
Vector == [Slots -> Inputs \cup {NoInput}]
EmptyVector == [i \in Slots |-> NoInput]
PlayerPacket == [tickNum : OptTick, count : 0 .. MaxTicks, inputs : Vector]

-----------------------------------------------------------------------------
(* Operations of the owner of the window.                                  *)

\* Fault: the slot of the next tick.
EnqueueInNextSlot(s, tick, input) ==
  [s EXCEPT !.tickNum = tick, !.buffer[Slot(tick + 1)] = input]

Enqueue(s, tick, input) ==
  [s EXCEPT !.tickNum = tick, !.buffer[Slot(tick)] = input]

\* Fault: what was sent counts as received.
AckAllSent(s, ack) == [s EXCEPT !.lastTickAcked = s.tickNum, !.tickNum = ack]

\* Both counters are overwritten, whatever they were.
Ack(s, ack) == [s EXCEPT !.lastTickAcked = ack, !.tickNum = ack]

\* Fault: a window that is too long is cut to the size of a packet.
SendCountClamped(s, ack) ==
  IF TickAfter(ack) > s.tickNum THEN 0
  ELSE IF s.tickNum - TickAfter(ack) + 1 > MaxTicks THEN MaxTicks
  ELSE s.tickNum - TickAfter(ack) + 1

SendCount(s, ack) ==
  IF TickAfter(ack) > s.tickNum THEN 0 ELSE s.tickNum - TickAfter(ack) + 1

\* Fault: no limit.
CanAlwaysGetPaket(s, ack) == TRUE

\* GetPaket returns false exactly when the window does not fit in a packet.
CanGetPaket(s, ack) == HasValue(s.tickNum) => SendCount(s, ack) <= MaxTicks

\* The packet of a call of GetPaket that returns true.
GetPaket(s, ack) ==
  LET n == IF HasValue(s.tickNum) THEN SendCount(s, ack) ELSE 0
  IN  [tickNum |-> s.tickNum,
       count   |-> n,
       inputs  |-> [i \in Slots |-> IF i < n THEN s.buffer[Slot(TickAfter(ack) + i)]
                                             ELSE NoInput]]

-----------------------------------------------------------------------------
(* Receiving a packet.  lastTickAcked is passed by reference, so a parse   *)
(* returns the value it leaves there.                                      *)

NothingParsed(ack) == [firstTick |-> 0, count |-> 0, inputs |-> EmptyVector,
                       lastTickAcked |-> ack]

\* Fault: old packets are not recognised.
IgnoredUnlessEmpty(pkt, ack) == ~HasValue(pkt.tickNum) \/ pkt.count > MaxTicks

Ignored(pkt, ack) == \/ ~HasValue(pkt.tickNum)
                     \/ pkt.count > MaxTicks
                     \/ TickAfter(ack) > pkt.tickNum

\* Fault: a packet that is just long enough is refused.
TooShortByOne(pkt, ack) == pkt.tickNum - TickAfter(ack) + 1 >= pkt.count

\* The packet does not reach back to the first tick wanted.
TooShort(pkt, ack) == pkt.tickNum - TickAfter(ack) + 1 > pkt.count

\* Fault: inputs are taken from the front of the vector.
SkipNothing(pkt, ack) == 0

\* Inputs already received in earlier packets, which are skipped over.
Skip(pkt, ack) == pkt.count - (pkt.tickNum - TickAfter(ack) + 1)

ParsePaket(pkt, ack) ==
  LET count == pkt.tickNum - TickAfter(ack) + 1
  IN  IF Ignored(pkt, ack) THEN NothingParsed(ack)
      ELSE IF TooShort(pkt, ack)
           \* None of it is taken, but it still counts as received.
           THEN NothingParsed(pkt.tickNum)
           ELSE [firstTick     |-> TickAfter(ack),
                 count         |-> count,
                 inputs        |-> [i \in Slots |-> IF i < count
                                                   THEN pkt.inputs[Skip(pkt, ack) + i]
                                                   ELSE NoInput],
                 lastTickAcked |-> pkt.tickNum]

\* Fault: only the last input of a packet is stored.
EnqueueOnlyLast(s, first, n, inputs) ==
  IF n = 0 THEN s ELSE Enqueue(s, first + n - 1, inputs[n - 1])

(***************************************************************************)
(* The loop of Enqueue in UpdateFromPacket: input i is stored at the slot  *)
(* of tick first + i.  No two of at most MaxTicks consecutive ticks share  *)
(* a slot, so the order of the writes does not matter.                     *)
(***************************************************************************)
EnqueueAll(s, first, n, inputs) ==
  LET InSlot(k) == {i \in 0 .. n - 1 : Slot(first + i) = k}
  IN  [s EXCEPT !.tickNum = IF n > 0 THEN first + n - 1 ELSE @,
                !.buffer  = [k \in Slots |->
                               IF InSlot(k) = {} THEN @[k]
                               ELSE inputs[CHOOSE i \in InSlot(k) : TRUE]]]

UpdateFromPacket(s, pkt) ==
  LET parsed == ParsePaket(pkt, s.lastTickAcked)
  IN  EnqueueAll([s EXCEPT !.lastTickAcked = parsed.lastTickAcked],
                 parsed.firstTick, parsed.count, parsed.inputs)
=============================================================================
