-------------------------- MODULE InputWindowProofs --------------------------
(***************************************************************************)
(* The race between Enqueue, GetPaket and Ack on the two words of a window *)
(* is harmless to the server, for any ring and any number of ticks, and    *)
(* harmless to the client if replies keep their order.  The last part is   *)
(* about the repository's own tests.                                       *)
(***************************************************************************)
EXTENDS MCInputWindow, InputSyncProofs

\* The places of the main thread, and the words of an Ack.
Places == {"idle", "store", "label", "hasAck", "ack", "last", "dead"}
Words  == {"lastTickAcked", "tickNum"}

TypeInv ==
  /\ own \in BOOLEAN /\ inOrder \in BOOLEAN /\ fatal \in BOOLEAN
  /\ played \in OptTick /\ played <= LastTick
  /\ window \in Synchronizer /\ server \in Synchronizer
  /\ at \in Places /\ first \in OptTick /\ last \in OptTick /\ ack \in OptTick
  /\ unwritten \in SUBSET Words
  /\ request \in PlayerPacket
  /\ replies \in SUBSET OptTick

\* A ring that has the inputs of the last MaxTicks ticks up to a given one.
Holds(buffer, tick) ==
  \A t \in Nat : tick - MaxTicks < t /\ t <= tick => buffer[Slot(t)] = t

\* The server counts what it has as received, and its replies name ticks that it
\* has; the first answer to a player's own inputs follows its first input.
ServerInv ==
  /\ server.lastTickAcked = server.tickNum
  /\ server.tickNum <= played /\ (own \/ server.tickNum = played)
  /\ Holds(server.buffer, server.tickNum)
  /\ \A tick \in replies : tick <= server.tickNum /\ (own => HasValue(tick))

\* What is read from a word, or will be written to it, is from a reply, but for
\* the own player's last tick.
Acked == replies \cup {NoTick}
OwnTick == IF own THEN {played} ELSE {}

WordsInv ==
  /\ ack \in Acked /\ (unwritten # {} => ack \in replies)
  /\ window.lastTickAcked \in Acked
  /\ window.tickNum \in (IF own THEN replies ELSE Acked) \cup OwnTick
  /\ at \in {"hasAck", "ack", "last", "label"} => first \in Acked
  /\ at = "label" => last \in Acked \cup OwnTick

\* The own window's ring, in which the last slot may yet have to be written.
RingInv ==
  own => Holds([window.buffer EXCEPT ![Slot(played)] =
                  IF at = "store" THEN played ELSE @], played)

\* When the packet is about to be named: its inputs fit, and if it is not named
\* after its last tick, then after a tick of a reply.
LabelInv ==
  /\ at = "store" => own /\ HasValue(played)
  /\ at = "label" => /\ window.tickNum \in replies \cup {last}
                     /\ HasValue(last) => SendCount([window EXCEPT !.tickNum = last], first) <= MaxTicks

\* The server already has the tick that a packet is named after, or the packet
\* continues what the server has with the right inputs.
RequestInv ==
  \/ request.tickNum <= server.tickNum
  \/ /\ request.tickNum <= played
     /\ request.tickNum - request.count <= server.tickNum
     /\ Truthful(request)

\* A word that has a value keeps one, if the client's own replies or the order of
\* all replies see to it.
ValuesInv ==
  /\ inOrder /\ ~HasValue(ack) =>
       /\ ~HasValue(window.lastTickAcked)
       /\ own \/ ~HasValue(window.tickNum)
  /\ inOrder \/ own =>
       /\ at \in {"hasAck", "ack", "last"} => HasValue(window.tickNum)
       /\ at = "ack" => HasValue(window.lastTickAcked)
       /\ ~fatal

WindowInv == /\ TypeInv /\ ServerInv /\ WordsInv /\ RingInv /\ LabelInv /\ RequestInv
             /\ ValuesInv

-----------------------------------------------------------------------------
(* What the operations of the synchronizer do to what it holds.            *)

\* What is assumed of the constants.
LEMMA Sizes ==
  /\ MaxTicks \in Nat \ {0} /\ NoTick = -1
  /\ \A t \in Nat : t <= LastTick => t \in Inputs
  /\ \A t : t \in OptTick <=> t \in Nat \/ t = -1
<1>1. ASSUME NEW t \in Nat, t <= LastTick PROVE t \in Inputs
  BY <1>1, InputWindowAssumption
<1> QED BY <1>1, InputSyncAssumption DEF OptTick, NoTick

\* Storing the next tick's input, in the slot of the tick that falls out.
LEMMA StoreHolds ==
  ASSUME NEW b \in [Slots -> Inputs \cup {NoInput}], NEW tick \in OptTick, Holds(b, tick)
  PROVE  Holds([b EXCEPT ![Slot(tick + 1)] = tick + 1], tick + 1)
<1> DEFINE b1 == [b EXCEPT ![Slot(tick + 1)] = tick + 1]
           n  == tick + 1
<1> HIDE DEF b1, n
<1> SUFFICES ASSUME NEW t \in Nat, n - MaxTicks < t, t <= n PROVE b1[Slot(t)] = t
  BY DEF Holds, b1, n
<1> USE DEF b1, n
<1>1. tick + 1 \in Nat /\ Slot(t) \in Slots /\ Slot(tick + 1) \in Slots
  BY Sizes, SlotType
<1>2. CASE t = tick + 1
  BY <1>1, <1>2
<1>3. CASE t # tick + 1
  <2>1. t < tick + 1 /\ tick + 1 < t + MaxTicks /\ tick - MaxTicks < t /\ t <= tick
    BY <1>3, Sizes
  <2>2. Slot(t) # Slot(tick + 1)
    BY <1>1, <2>1, SlotsDiffer
  <2> QED BY <1>1, <2>1, <2>2 DEF Holds
<1> QED BY <1>2, <1>3

\* A receiver that takes a packet in, which it has already or which continues what
\* it has with the right inputs, then holds the ticks up to the later of the two.
LEMMA UpdateHolds ==
  ASSUME NEW s \in Synchronizer, NEW pkt \in PlayerPacket,
         s.lastTickAcked = s.tickNum, Holds(s.buffer, s.tickNum),
         \/ pkt.tickNum <= s.tickNum
         \/ pkt.tickNum - pkt.count <= s.tickNum /\ Truthful(pkt)
  PROVE  LET s2 == UpdateFromPacket(s, pkt)
         IN  /\ s2 \in Synchronizer
             /\ s2.tickNum = IF pkt.tickNum > s.tickNum THEN pkt.tickNum ELSE s.tickNum
             /\ s2.lastTickAcked = s2.tickNum
             /\ Holds(s2.buffer, s2.tickNum)
<1> DEFINE had == s.lastTickAcked
           r   == ParsePaket(pkt, had)
           s1  == [s EXCEPT !.lastTickAcked = r.lastTickAcked]
           s2  == UpdateFromPacket(s, pkt)
<1>1. /\ had \in OptTick /\ s.tickNum \in OptTick
      /\ pkt.tickNum \in OptTick /\ pkt.count \in 0 .. MaxTicks
      /\ TickAfter(had) = had + 1
  BY TickAfterAck DEF Synchronizer, PlayerPacket
<1>2. r \in ParseResult
  BY <1>1, ParsePaketType
<1>3. s2 = EnqueueAll(s1, r.firstTick, r.count, r.inputs) /\ s2 \in Synchronizer
  BY UpdateFromPacketType DEF UpdateFromPacket
<1>4. /\ s1 \in Synchronizer /\ s1.tickNum = s.tickNum
      /\ s1.buffer = s.buffer /\ s1.lastTickAcked = r.lastTickAcked
  BY <1>2 DEF Synchronizer, ParseResult
<1>5. /\ r.firstTick \in Nat /\ r.count \in 0 .. MaxTicks /\ r.inputs \in Vector
  BY <1>2 DEF ParseResult
<1> HIDE DEF r, s1, s2
<1>6. /\ s2.lastTickAcked = r.lastTickAcked
      /\ s2.tickNum = IF r.count > 0 THEN r.firstTick + r.count - 1 ELSE s.tickNum
      /\ \A i \in 0 .. r.count - 1 : s2.buffer[Slot(r.firstTick + i)] = r.inputs[i]
      /\ \A k \in Slots : (\A i \in 0 .. r.count - 1 : Slot(r.firstTick + i) # k)
                            => s2.buffer[k] = s.buffer[k]
  <2> DEFINE e == EnqueueAll(s1, r.firstTick, r.count, r.inputs)
  <2>1. /\ e.lastTickAcked = s1.lastTickAcked
        /\ e.tickNum = IF r.count > 0 THEN r.firstTick + r.count - 1 ELSE s1.tickNum
        /\ \A i \in 0 .. r.count - 1 : e.buffer[Slot(r.firstTick + i)] = r.inputs[i]
        /\ \A k \in Slots : (\A i \in 0 .. r.count - 1 : Slot(r.firstTick + i) # k)
                              => e.buffer[k] = s1.buffer[k]
    BY <1>4, <1>5, EnqueueAllBuffer
  <2> HIDE DEF e
  <2>2. s2 = e
    BY <1>3 DEF e
  <2> QED BY <1>4, <2>1, <2>2
<1>7. CASE pkt.tickNum <= s.tickNum
  <2>1. Ignored(pkt, had)
    BY <1>1, <1>7, Sizes DEF Ignored
  <2>2. r.count = 0 /\ r.lastTickAcked = had
    BY <2>1 DEF ParsePaket, NothingParsed, r
  <2>3. \A k \in Slots : s2.buffer[k] = s.buffer[k]
    BY <1>6, <2>2
  <2>4. Holds(s2.buffer, s.tickNum)
    BY <2>3, SlotType DEF Holds
  <2>5. s2.tickNum = s.tickNum /\ ~(pkt.tickNum > s.tickNum)
    BY <1>1, <1>6, <1>7, <2>2, Sizes
  <2> QED BY <1>3, <1>6, <2>2, <2>4, <2>5 DEF s2
<1>8. CASE pkt.tickNum > s.tickNum
  <2>1. pkt.tickNum - pkt.count <= s.tickNum /\ Truthful(pkt) /\ pkt.tickNum \in Nat
    BY <1>1, <1>8, Sizes
  <2>2. ~Ignored(pkt, had) /\ ~TooShort(pkt, had)
    BY <1>1, <1>8, <2>1, Sizes DEF Ignored, TooShort, HasValue
  <2>3. /\ r.firstTick = s.tickNum + 1
        /\ r.count = pkt.tickNum - s.tickNum
        /\ r.lastTickAcked = pkt.tickNum
        /\ r.inputs = [i \in Slots |-> IF i < r.count THEN pkt.inputs[pkt.count - r.count + i]
                                       ELSE NoInput]
    <3> DEFINE n == pkt.tickNum - TickAfter(had) + 1
    <3>1. r = [firstTick |-> TickAfter(had), count |-> n,
               inputs |-> [i \in Slots |-> IF i < n THEN pkt.inputs[pkt.count - n + i]
                                          ELSE NoInput],
               lastTickAcked |-> pkt.tickNum]
      BY <2>2 DEF ParsePaket, Skip, r
    <3>2. n = pkt.tickNum - s.tickNum /\ TickAfter(had) = s.tickNum + 1
      BY <1>1, Sizes
    <3> HIDE DEF n
    <3> QED BY <3>1, <3>2
  <2>4. ASSUME NEW i \in 0 .. r.count - 1
        PROVE  r.inputs[i] = s.tickNum + 1 + i
    <3>1. i \in Slots /\ i < r.count
      BY <1>5, Sizes DEF Slots
    <3>2. r.inputs[i] = pkt.inputs[pkt.count - r.count + i]
      BY <2>3, <3>1
    <3>3. pkt.count - r.count + i \in Slots /\ pkt.count - r.count + i < pkt.count
      <4>1. r.count <= pkt.count /\ pkt.count <= MaxTicks
        BY <1>1, <1>5, <2>1, <2>3, Sizes
      <4>2. i \in Nat /\ i < r.count /\ r.count \in Nat /\ pkt.count \in Nat
        BY <1>1, <1>5
      <4>3. pkt.count - r.count + i \in Nat /\ pkt.count - r.count + i < pkt.count
        BY <4>1, <4>2
      <4> QED BY <4>1, <4>2, <4>3, Sizes DEF Slots
    <3>4. pkt.inputs[pkt.count - r.count + i]
            = pkt.tickNum - pkt.count + 1 + (pkt.count - r.count + i)
      BY <2>1, <3>3 DEF Truthful
    <3> QED BY <1>1, <1>5, <2>1, <2>3, <3>2, <3>4, Sizes
  <2>5. s2.tickNum = pkt.tickNum /\ s2.lastTickAcked = pkt.tickNum
    BY <1>1, <1>6, <1>8, <2>1, <2>3, Sizes
  <2>6. ASSUME NEW t \in Nat, pkt.tickNum - MaxTicks < t, t <= pkt.tickNum
        PROVE  s2.buffer[Slot(t)] = t
    <3>1. CASE t > s.tickNum
      <4>1. /\ t - r.firstTick \in 0 .. r.count - 1 /\ r.firstTick + (t - r.firstTick) = t
            /\ s.tickNum + 1 + (t - r.firstTick) = t
        BY <1>1, <2>1, <2>3, <2>6, <3>1, Sizes
      <4> QED BY <1>6, <2>4, <4>1
    <3>2. CASE t <= s.tickNum
      <4>1. ASSUME NEW i \in 0 .. r.count - 1 PROVE Slot(r.firstTick + i) # Slot(t)
        <5>1. /\ r.firstTick + i \in Nat
              /\ t < r.firstTick + i
              /\ r.firstTick + i < t + MaxTicks
          BY <1>1, <2>1, <2>3, <2>6, <3>2, Sizes
        <5> QED BY <5>1, SlotsDiffer
      <4>2. s2.buffer[Slot(t)] = s.buffer[Slot(t)]
        BY <1>6, <4>1, SlotType
      <4>3. s.tickNum - MaxTicks < t
        BY <1>1, <1>8, <2>6, Sizes
      <4> QED BY <3>2, <4>2, <4>3 DEF Holds
    <3> QED BY <1>1, <3>1, <3>2, Sizes
  <2> QED BY <1>3, <1>8, <2>5, <2>6 DEF s2, Holds
<1> QED BY <1>1, <1>7, <1>8, Sizes

-----------------------------------------------------------------------------
(* The steps.                                                              *)

\* The words are ticks, or without a value.
LEMMA WordTypes ==
  ASSUME TypeInv
  PROVE  /\ window.tickNum \in OptTick /\ window.lastTickAcked \in OptTick
         /\ window.buffer \in [Slots -> Inputs \cup {NoInput}]
         /\ server.tickNum \in OptTick /\ server.lastTickAcked \in OptTick
         /\ request.tickNum \in OptTick /\ request.count \in 0 .. MaxTicks
         /\ replies \subseteq OptTick /\ Acked \subseteq OptTick
         /\ \A t : t \in OptTick <=> t \in Nat \/ t = -1
BY Sizes DEF TypeInv, Synchronizer, PlayerPacket, Acked

\* What a reply names is at most the server's tick, and so is what comes of it.
LEMMA AckedBound ==
  ASSUME TypeInv, ServerInv, NEW t \in Acked
  PROVE  t \in OptTick /\ t <= server.tickNum
BY WordTypes, Sizes DEF ServerInv, Acked

\* The initial states have the invariant.
LEMMA InitWindowInv ==
  ASSUME Init
  PROVE  WindowInv
<1>1. played = -1 /\ server = NewSynchronizer /\ window = NewSynchronizer
  BY Sizes DEF Init
<1>2. TypeInv
  <2>1. EmptyPacket \in PlayerPacket
    <3>1. EmptyVector \in Vector
      BY DEF EmptyVector, Vector
    <3> QED BY <3>1, Sizes DEF EmptyPacket, PlayerPacket
  <2>2. -1 <= LastTick
    BY InputWindowAssumption
  <2> QED BY <1>1, <2>1, <2>2, NewSynchronizerType, Sizes DEF Init, TypeInv, Places, Words
<1>3. NewSynchronizer.tickNum = -1 /\ NewSynchronizer.lastTickAcked = -1
  BY Sizes DEF NewSynchronizer
<1>4. \A b : Holds(b, -1)
  BY DEF Holds
<1>5. ServerInv /\ RingInv
  BY <1>1, <1>3, <1>4, Sizes DEF Init, ServerInv, RingInv, HasValue
<1>6. WordsInv /\ LabelInv /\ ValuesInv
  BY <1>1, <1>3, Sizes DEF Init, WordsInv, LabelInv, ValuesInv, Acked, OwnTick, HasValue
<1>7. RequestInv
  BY <1>1, <1>3, Sizes DEF Init, RequestInv, EmptyPacket
<1> QED BY <1>2, <1>5, <1>6, <1>7 DEF WindowInv

\* The first half of Enqueue: m_tickNum is ahead of the ring.
LEMMA EnqueueTickNumInv ==
  ASSUME WindowInv, EnqueueTickNum
  PROVE  WindowInv'
<1>1. /\ TypeInv /\ ServerInv /\ WordsInv /\ RingInv /\ LabelInv /\ RequestInv /\ ValuesInv
      /\ own /\ at = "idle" /\ at' = "store" /\ played < LastTick /\ played' = played + 1
      /\ window' = [window EXCEPT !.tickNum = played + 1]
      /\ UNCHANGED <<own, inOrder, first, last, fatal, ack, unwritten, request, server, replies>>
  BY DEF WindowInv, EnqueueTickNum, Enqueue, constVars, ackVars, serverVars
<1>2. /\ played + 1 \in Nat /\ played \in OptTick /\ played + 1 <= LastTick
      /\ played \in Nat \/ played = -1
  <2>1. LastTick \in Int
    BY InputWindowAssumption
  <2> QED BY <1>1, <2>1, Sizes DEF TypeInv
<1>3. /\ window'.tickNum = played + 1 /\ window'.buffer = window.buffer
      /\ window'.lastTickAcked = window.lastTickAcked /\ window' \in Synchronizer
  BY <1>1, <1>2, Sizes DEF TypeInv, Synchronizer
<1>4. TypeInv'
  BY <1>1, <1>2, <1>3, Sizes DEF TypeInv, Places
<1>5. ServerInv' /\ RequestInv'
  <2>1. server.tickNum \in OptTick /\ request.tickNum \in OptTick
    BY <1>1, WordTypes
  <2> QED BY <1>1, <1>2, <2>1, Sizes DEF ServerInv, RequestInv
<1>6. WordsInv' /\ LabelInv'
  BY <1>1, <1>2, <1>3, Sizes DEF WordsInv, LabelInv, Acked, OwnTick, HasValue
<1>7. RingInv'
  <2>1. window.buffer \in [Slots -> Inputs \cup {NoInput}]
    BY <1>1, WordTypes
  <2>2. [window.buffer EXCEPT ![Slot(played)] = @] = window.buffer
    BY <2>1
  <2>3. Holds(window.buffer, played)
    BY <1>1, <2>2 DEF RingInv
  <2>4. Holds([window.buffer EXCEPT ![Slot(played + 1)] = played + 1], played + 1)
    BY <1>2, <2>1, <2>3, StoreHolds
  <2> QED BY <1>1, <1>3, <2>4 DEF RingInv
<1>8. ValuesInv'
  BY <1>1, <1>2, <1>3, Sizes DEF ValuesInv, HasValue
<1> QED BY <1>4, <1>5, <1>6, <1>7, <1>8 DEF WindowInv

\* The second half of Enqueue.
LEMMA EnqueueInputInv ==
  ASSUME WindowInv, EnqueueInput
  PROVE  WindowInv'
<1>1. /\ TypeInv /\ ServerInv /\ WordsInv /\ RingInv /\ LabelInv /\ RequestInv /\ ValuesInv
      /\ at = "store" /\ at' = "idle"
      /\ window' = [window EXCEPT !.buffer = [window.buffer EXCEPT ![Slot(played)] = played]]
      /\ UNCHANGED <<own, inOrder, played, first, last, fatal, ack, unwritten, request, server,
                     replies>>
  BY DEF WindowInv, EnqueueInput, Enqueue, TypeInv, Synchronizer, constVars, ackVars, serverVars
<1>2. own /\ played \in Nat /\ played \in Inputs /\ Slot(played) \in Slots
  <2>1. own /\ played \in Nat /\ played <= LastTick
    BY <1>1, Sizes DEF LabelInv, TypeInv, HasValue
  <2> QED BY <2>1, Sizes, SlotType
<1> DEFINE b == [window.buffer EXCEPT ![Slot(played)] = played]
<1>3. b \in [Slots -> Inputs \cup {NoInput}] /\ [b EXCEPT ![Slot(played)] = @] = b
  BY <1>1, <1>2, WordTypes
<1>4. Holds(b, played)
  BY <1>1, <1>2 DEF RingInv
<1> HIDE DEF b
<1>5. /\ window'.buffer = b /\ window'.tickNum = window.tickNum
      /\ window'.lastTickAcked = window.lastTickAcked /\ window' \in Synchronizer
  BY <1>1, <1>3 DEF TypeInv, Synchronizer, b
<1>6. TypeInv'
  BY <1>1, <1>5 DEF TypeInv, Places
<1>7. ServerInv' /\ RequestInv' /\ ValuesInv'
  BY <1>1, <1>5 DEF ServerInv, RequestInv, ValuesInv
<1>8. WordsInv' /\ LabelInv'
  BY <1>1, <1>5 DEF WordsInv, LabelInv, Acked, OwnTick
<1>9. RingInv'
  BY <1>1, <1>3, <1>4, <1>5 DEF RingInv
<1> QED BY <1>6, <1>7, <1>8, <1>9 DEF WindowInv

\* The steps of GetPaket that only read.
LEMMA ReadInv ==
  ASSUME WindowInv, at \in {"idle", "hasAck", "ack", "last"},
         UNCHANGED <<own, inOrder, played, window, ack, unwritten, request, server, replies>>,
         at' \in Places \ {"store"}, fatal' \in BOOLEAN,
         first' \in Acked, last' \in OptTick,
         at' = "label" =>
           /\ last' = window.tickNum
           /\ HasValue(last') => SendCount([window EXCEPT !.tickNum = last'], first') <= MaxTicks,
         inOrder \/ own => /\ at' \in {"hasAck", "ack", "last"} => HasValue(window.tickNum)
                           /\ at' = "ack" => HasValue(window.lastTickAcked)
                           /\ ~fatal'
  PROVE  WindowInv'
<1>1. /\ TypeInv /\ ServerInv /\ WordsInv /\ RingInv /\ LabelInv /\ RequestInv /\ ValuesInv
  BY DEF WindowInv
<1>2. TypeInv'
  <2>1. first' \in OptTick
    BY <1>1, WordTypes
  <2> QED BY <1>1, <2>1 DEF TypeInv
<1>3. ServerInv' /\ RequestInv'
  BY <1>1 DEF ServerInv, RequestInv
<1>4. RingInv'
  BY <1>1 DEF RingInv
<1>5. WordsInv'
  BY <1>1 DEF WordsInv, Acked, OwnTick
<1>6. LabelInv'
  BY <1>1 DEF LabelInv
<1>7. ValuesInv'
  BY <1>1 DEF ValuesInv
<1> QED BY <1>1, <1>2, <1>3, <1>4, <1>5, <1>6, <1>7 DEF WindowInv

\* GetPaket up to the copying of the inputs.
LEMMA GetPaketReadsInv ==
  ASSUME WindowInv, GetPaketBegins \/ ReadHasAck \/ ReadAck \/ ReadLast
  PROVE  WindowInv'
<1>1. /\ TypeInv /\ WordsInv /\ LabelInv /\ ValuesInv
      /\ UNCHANGED <<own, inOrder, played, window, ack, unwritten, request, server, replies>>
  BY DEF WindowInv, GetPaketBegins, ReadHasAck, ReadAck, ReadLast, constVars, ackVars, serverVars
<1>2. /\ NoTick \in Acked /\ NoTick \in OptTick /\ ~HasValue(NoTick)
      /\ window.tickNum \in OptTick /\ fatal \in BOOLEAN /\ first \in OptTick /\ last \in OptTick
  BY <1>1, WordTypes, Sizes DEF Acked, TypeInv, HasValue
<1>3. CASE GetPaketBegins
  <2>1. /\ at = "idle" /\ first' = NoTick /\ last' = NoTick /\ fatal' = fatal
        /\ at' = IF HasValue(window.tickNum) THEN "hasAck" ELSE "label"
    BY <1>3 DEF GetPaketBegins, HoldsNothing
  <2>2. ~HasValue(window.tickNum) => window.tickNum = NoTick
    BY DEF HasValue
  <2> QED BY <1>1, <1>2, <2>1, <2>2, ReadInv DEF Places, ValuesInv
<1>4. CASE ReadHasAck
  <2>1. /\ at = "hasAck" /\ UNCHANGED <<first, last, fatal>>
        /\ at' = IF HasValue(window.lastTickAcked) THEN "ack" ELSE "last"
    BY <1>4 DEF ReadHasAck
  <2>2. first \in Acked
    BY <1>1, <2>1 DEF WordsInv
  <2> QED BY <1>1, <1>2, <2>1, <2>2, ReadInv DEF Places, ValuesInv
<1>5. CASE ReadAck
  <2>1. /\ at = "ack" /\ UNCHANGED last /\ first' = window.lastTickAcked
        /\ fatal' \in BOOLEAN /\ (HasValue(window.lastTickAcked) => fatal' = FALSE)
        /\ at' = IF fatal' THEN "dead" ELSE "last"
    BY <1>5 DEF ReadAck, Value
  <2>2. first' \in Acked
    BY <1>1, <2>1 DEF WordsInv
  <2>3. inOrder \/ own => HasValue(window.tickNum) /\ fatal' = FALSE
    BY <1>1, <2>1 DEF ValuesInv
  <2> QED BY <1>1, <1>2, <2>1, <2>2, <2>3, ReadInv DEF Places
<1>6. CASE ReadLast
  <2>1. /\ at = "last" /\ UNCHANGED first /\ last' = window.tickNum
        /\ fatal' \in BOOLEAN /\ (HasValue(window.tickNum) => fatal' = FALSE)
        /\ at' = IF fatal' THEN "dead"
                 ELSE IF SendCount([window EXCEPT !.tickNum = last'], first) <= MaxTicks
                      THEN "label" ELSE "idle"
    BY <1>6 DEF ReadLast, Value
  <2>2. first \in Acked
    BY <1>1, <2>1 DEF WordsInv
  <2>3. inOrder \/ own => fatal' = FALSE
    BY <1>1, <2>1 DEF ValuesInv
  <2> QED BY <1>1, <1>2, <2>1, <2>2, <2>3, ReadInv DEF Places
<1> QED BY <1>3, <1>4, <1>5, <1>6

\* The packet is named after its last tick, and continues what the server has, or
\* after a tick that the server has.
LEMMA ReadLabelAndSendInv ==
  ASSUME WindowInv, ReadLabelAndSend
  PROVE  WindowInv'
<1> DEFINE s   == [window EXCEPT !.tickNum = last]
           pkt == GetPaket(s, first)
<1>1. /\ TypeInv /\ ServerInv /\ WordsInv /\ RingInv /\ LabelInv /\ RequestInv /\ ValuesInv
      /\ at = "label" /\ at' = "idle"
      /\ request' = [pkt EXCEPT !.tickNum = window.tickNum]
      /\ UNCHANGED <<own, inOrder, played, window, first, last, fatal, ack, unwritten, server,
                     replies>>
  BY DEF WindowInv, ReadLabelAndSend, constVars, ackVars
<1>2. /\ last \in OptTick /\ first \in OptTick /\ first <= server.tickNum
      /\ window.tickNum \in OptTick /\ played \in OptTick /\ server.tickNum \in OptTick
  <2>1. first \in Acked
    BY <1>1 DEF WordsInv
  <2> QED BY <1>1, <2>1, WordTypes, AckedBound DEF TypeInv
<1>3. /\ s \in Synchronizer /\ s.tickNum = last /\ s.buffer = window.buffer
      /\ CanGetPaket(s, first)
  BY <1>1, <1>2 DEF TypeInv, Synchronizer, LabelInv, CanGetPaket
<1>4. pkt \in PlayerPacket
  BY <1>2, <1>3, GetPaketType
<1> HIDE DEF s
<1>5. /\ request' \in PlayerPacket
      /\ request'.tickNum = window.tickNum /\ request'.count = pkt.count
      /\ request'.inputs = pkt.inputs
  <2> HIDE DEF pkt
  <2> QED BY <1>1, <1>2, <1>4 DEF PlayerPacket
<1>6. TypeInv'
  BY <1>1, <1>5 DEF TypeInv, Places
<1>7. ServerInv' /\ WordsInv' /\ RingInv' /\ LabelInv' /\ ValuesInv'
  BY <1>1 DEF ServerInv, WordsInv, RingInv, LabelInv, ValuesInv, Acked, OwnTick
<1>8. RequestInv'
  <2>1. CASE window.tickNum \in Acked
    <3>1. window.tickNum <= server.tickNum
      BY <1>1, <2>1, AckedBound
    <3> QED BY <1>1, <1>5, <3>1 DEF RequestInv
  <2>2. CASE window.tickNum \notin Acked
    <3>1. window.tickNum = last /\ own /\ last = played /\ HasValue(last)
      BY <1>1, <2>2 DEF LabelInv, WordsInv, OwnTick, Acked, HasValue
    <3>2. played \in Nat
      BY <1>2, <3>1, Sizes DEF HasValue
    <3>3. TickAfter(first) = first + 1 /\ first + 1 \in Nat
      BY <1>2, TickAfterAck
    <3>4. CASE first + 1 > played
      BY <1>1, <1>2, <1>5, <3>1, <3>2, <3>4, Sizes DEF RequestInv
    <3>5. CASE ~(first + 1 > played)
      <4>1. /\ SendCount(s, first) = played - first
            /\ played - first <= MaxTicks
        <5>1. SendCount(s, first) = played - first
          BY <1>2, <1>3, <3>1, <3>2, <3>3, <3>5, Sizes DEF SendCount
        <5>2. SendCount(s, first) <= MaxTicks
          BY <1>3, <3>1 DEF CanGetPaket
        <5> QED BY <5>1, <5>2
      <4>2. /\ pkt.count = played - first
            /\ pkt.inputs = [i \in Slots |-> IF i < played - first
                                             THEN window.buffer[Slot(first + 1 + i)]
                                             ELSE NoInput]
        BY <1>3, <3>1, <3>3, <4>1 DEF GetPaket
      <4>3. Holds(window.buffer, played)
        <5>1. [window.buffer EXCEPT ![Slot(played)] = @] = window.buffer
          BY <1>1, WordTypes
        <5> QED BY <1>1, <3>1, <5>1 DEF RingInv
      <4> HIDE DEF pkt
      <4>4. ASSUME NEW i \in Slots, i < played - first
            PROVE  pkt.inputs[i] = played - (played - first) + 1 + i
        <5>1. i \in Nat
          BY Sizes DEF Slots
        <5>2. /\ first + 1 + i \in Nat
              /\ played - MaxTicks < first + 1 + i /\ first + 1 + i <= played
              /\ played - (played - first) + 1 + i = first + 1 + i
          BY <1>2, <3>2, <3>3, <4>1, <4>4, <5>1, Sizes
        <5>3. window.buffer[Slot(first + 1 + i)] = first + 1 + i
          BY <4>3, <5>2 DEF Holds
        <5> QED BY <4>2, <4>4, <5>2, <5>3
      <4>5. Truthful(request')
        BY <1>5, <3>1, <4>2, <4>4 DEF Truthful
      <4>6. played - (played - first) <= server.tickNum
        BY <1>2, <3>2, Sizes
      <4>7. request'.tickNum = played /\ request'.count = played - first
        BY <1>5, <3>1, <4>2
      <4> QED BY <1>1, <1>2, <4>5, <4>6, <4>7, Sizes DEF RequestInv
    <3> QED BY <3>4, <3>5
  <2> QED BY <2>1, <2>2
<1> QED BY <1>6, <1>7, <1>8 DEF WindowInv

\* The network thread takes up a reply.
LEMMA AckBeginsInv ==
  ASSUME WindowInv, AckBegins
  PROVE  WindowInv'
<1>1. /\ TypeInv /\ ServerInv /\ WordsInv /\ RingInv /\ LabelInv /\ RequestInv /\ ValuesInv
      /\ unwritten' = Words
      /\ UNCHANGED <<own, inOrder, played, window, at, first, last, fatal, request, server,
                     replies>>
  BY DEF WindowInv, AckBegins, Words, constVars, callVars, serverVars
<1>2. ack' \in replies /\ (inOrder => ack' >= ack)
  BY DEF AckBegins
<1>3. TypeInv' /\ WordsInv'
  <2>1. ack' \in OptTick
    BY <1>1, <1>2, WordTypes
  <2> QED BY <1>1, <1>2, <2>1 DEF TypeInv, WordsInv, Acked, OwnTick
<1>4. ServerInv' /\ RingInv' /\ LabelInv' /\ RequestInv'
  BY <1>1 DEF ServerInv, RingInv, LabelInv, RequestInv
<1>5. ValuesInv'
  <2>1. inOrder /\ ~HasValue(ack') => ~own /\ ~HasValue(ack)
    <3>1. ack \in OptTick /\ ack' \in OptTick
      BY <1>1, <1>2, WordTypes DEF TypeInv
    <3> QED BY <1>1, <1>2, <3>1, Sizes DEF ServerInv, HasValue
  <2> QED BY <1>1, <2>1 DEF ValuesInv
<1> QED BY <1>3, <1>4, <1>5 DEF WindowInv

\* It writes one of the two words.
LEMMA AckWritesInv ==
  ASSUME WindowInv, AckWrites
  PROVE  WindowInv'
<1>1. /\ TypeInv /\ ServerInv /\ WordsInv /\ RingInv /\ LabelInv /\ RequestInv /\ ValuesInv
      /\ UNCHANGED <<own, inOrder, played, ack, at, first, last, fatal, request, server, replies>>
  BY DEF WindowInv, AckWrites, constVars, callVars, serverVars
<1>2. PICK word \in unwritten :
        /\ window' = [window EXCEPT ![word] = Ack(window, ack)[word]]
        /\ unwritten' = unwritten \ {word}
  BY DEF AckWrites
<1>3. /\ ack \in replies /\ ack \in OptTick /\ word \in Words /\ unwritten' \in SUBSET Words
      /\ own => HasValue(ack)
  BY <1>1, <1>2 DEF WordsInv, TypeInv, ServerInv
<1>4. /\ window' \in Synchronizer /\ window'.buffer = window.buffer
      /\ window'.tickNum = IF word = "tickNum" THEN ack ELSE window.tickNum
      /\ window'.lastTickAcked = IF word = "lastTickAcked" THEN ack ELSE window.lastTickAcked
  <2>1. Ack(window, ack).tickNum = ack /\ Ack(window, ack).lastTickAcked = ack
    BY <1>1 DEF Ack, TypeInv, Synchronizer
  <2>2. CASE word = "tickNum"
    BY <1>1, <1>2, <1>3, <2>1, <2>2 DEF TypeInv, Synchronizer
  <2>3. CASE word = "lastTickAcked"
    BY <1>1, <1>2, <1>3, <2>1, <2>3 DEF TypeInv, Synchronizer
  <2> QED BY <1>3, <2>2, <2>3 DEF Words
<1>5. TypeInv'
  BY <1>1, <1>3, <1>4 DEF TypeInv
<1>6. WordsInv' /\ RingInv' /\ ServerInv' /\ RequestInv'
  BY <1>1, <1>2, <1>3, <1>4 DEF WordsInv, RingInv, ServerInv, RequestInv, Acked, OwnTick
<1>7. LabelInv'
  <2>1. SendCount([window' EXCEPT !.tickNum = last], first)
          = SendCount([window EXCEPT !.tickNum = last], first)
    BY <1>1, <1>4 DEF SendCount, TypeInv, Synchronizer
  <2> QED BY <1>1, <1>3, <1>4, <2>1 DEF LabelInv
<1>8. ValuesInv'
  BY <1>1, <1>3, <1>4 DEF ValuesInv
<1> QED BY <1>5, <1>6, <1>7, <1>8 DEF WindowInv

\* The server has come to have more, and answers.
LEMMA AnswerInv ==
  ASSUME WindowInv,
         UNCHANGED <<own, inOrder, window, at, first, last, fatal, ack, unwritten, request>>,
         played' \in OptTick, played <= played', played' <= LastTick,
         own => played' = played,
         server' \in Synchronizer, server.tickNum <= server'.tickNum,
         server'.lastTickAcked = server'.tickNum, Holds(server'.buffer, server'.tickNum),
         server'.tickNum <= played', own \/ server'.tickNum = played',
         own => HasValue(server'.tickNum),
         replies' = replies \cup {server'.tickNum}
  PROVE  WindowInv'
<1>1. /\ TypeInv /\ ServerInv /\ WordsInv /\ RingInv /\ LabelInv /\ RequestInv /\ ValuesInv
  BY DEF WindowInv
<1>2. /\ server.tickNum \in OptTick /\ server'.tickNum \in OptTick
      /\ played \in OptTick /\ request.tickNum \in OptTick /\ request.count \in 0 .. MaxTicks
  BY <1>1 DEF TypeInv, Synchronizer, PlayerPacket
<1>3. TypeInv'
  BY <1>1, <1>2 DEF TypeInv
<1>4. ServerInv'
  <2>1. ASSUME NEW tick \in replies'
        PROVE  tick <= server'.tickNum /\ (own => HasValue(tick))
    <3>1. CASE tick \in replies
      <4>1. tick \in OptTick /\ tick <= server.tickNum
        BY <1>1, <3>1 DEF TypeInv, ServerInv
      <4> QED BY <1>1, <1>2, <3>1, <4>1, Sizes DEF ServerInv
    <3>2. CASE tick = server'.tickNum
      BY <1>2, <3>2, Sizes
    <3> QED BY <2>1, <3>1, <3>2
  <2> QED BY <2>1 DEF ServerInv
<1>5. WordsInv'
  BY <1>1 DEF WordsInv, Acked, OwnTick
<1>6. RingInv'
  BY <1>1 DEF RingInv
<1>7. LabelInv'
  BY <1>1 DEF LabelInv
<1>8. RequestInv'
  <2>1. CASE request.tickNum <= server.tickNum
    BY <1>2, <2>1, Sizes DEF RequestInv
  <2>2. CASE ~(request.tickNum <= server.tickNum)
    <3>1. /\ request.tickNum <= played /\ request.tickNum - request.count <= server.tickNum
          /\ Truthful(request)
      BY <1>1, <2>2 DEF RequestInv
    <3>2. Truthful(request')
      BY <3>1
    <3> QED BY <1>2, <3>1, <3>2, Sizes DEF RequestInv
  <2> QED BY <2>1, <2>2
<1>9. ValuesInv'
  BY <1>1 DEF ValuesInv
<1> QED BY <1>3, <1>4, <1>5, <1>6, <1>7, <1>8, <1>9 DEF WindowInv

\* What the server has after it took in the request.
LEMMA RequestTakenIn ==
  ASSUME WindowInv
  PROVE  LET s == UpdateFromPacket(server, request)
         IN  /\ s \in Synchronizer
             /\ s.tickNum = IF request.tickNum > server.tickNum THEN request.tickNum
                                                                ELSE server.tickNum
             /\ s.lastTickAcked = s.tickNum
             /\ Holds(s.buffer, s.tickNum)
             /\ s.tickNum \in OptTick /\ server.tickNum <= s.tickNum /\ s.tickNum <= played
<1> DEFINE s == UpdateFromPacket(server, request)
<1>1. TypeInv /\ ServerInv /\ RequestInv
  BY DEF WindowInv
<1>2. /\ server.tickNum \in OptTick /\ played \in OptTick /\ server.tickNum <= played
      /\ request.tickNum \in OptTick
      /\ server \in Synchronizer /\ request \in PlayerPacket
  BY <1>1 DEF TypeInv, ServerInv, Synchronizer, PlayerPacket
<1>3. /\ s \in Synchronizer
      /\ s.tickNum = IF request.tickNum > server.tickNum THEN request.tickNum
                                                         ELSE server.tickNum
      /\ s.lastTickAcked = s.tickNum
      /\ Holds(s.buffer, s.tickNum)
  <2>1. /\ server.lastTickAcked = server.tickNum /\ Holds(server.buffer, server.tickNum)
        /\ \/ request.tickNum <= server.tickNum
           \/ request.tickNum - request.count <= server.tickNum /\ Truthful(request)
    BY <1>1 DEF ServerInv, RequestInv
  <2> QED BY <1>2, <2>1, UpdateHolds
<1>4. request.tickNum > server.tickNum => request.tickNum <= played
  BY <1>1, <1>2, Sizes DEF RequestInv
<1> HIDE DEF s
<1>5. s.tickNum \in OptTick /\ server.tickNum <= s.tickNum /\ s.tickNum <= played
  BY <1>2, <1>3, <1>4, Sizes
<1> QED BY <1>3, <1>5 DEF s

\* The server takes in the request and answers.
LEMMA ServerDoWorkInv ==
  ASSUME WindowInv, ServerDoWork
  PROVE  WindowInv'
<1>1. /\ own /\ HasValue(request.tickNum)
      /\ server' = UpdateFromPacket(server, request)
      /\ replies' = replies \cup {server'.tickNum}
      /\ UNCHANGED <<own, inOrder, played, window, at, first, last, fatal, ack, unwritten, request>>
  BY DEF ServerDoWork, constVars, callVars, ackVars
<1>2. /\ server' \in Synchronizer
      /\ server'.tickNum = IF request.tickNum > server.tickNum THEN request.tickNum
                                                               ELSE server.tickNum
      /\ server'.lastTickAcked = server'.tickNum /\ Holds(server'.buffer, server'.tickNum)
      /\ server.tickNum <= server'.tickNum /\ server'.tickNum <= played
  BY <1>1, RequestTakenIn
<1>3. /\ played \in OptTick /\ played <= LastTick
      /\ request.tickNum \in OptTick /\ server.tickNum \in OptTick
  BY DEF WindowInv, TypeInv, Synchronizer, PlayerPacket
<1>4. HasValue(server'.tickNum) /\ played <= played
  BY <1>1, <1>2, <1>3, Sizes DEF HasValue
<1> QED BY <1>1, <1>2, <1>3, <1>4, AnswerInv

\* The other player's window grows, by its own player or by what this client sends.
LEMMA OtherPlaysInv ==
  ASSUME WindowInv, OtherPlays
  PROVE  WindowInv'
<1>1. /\ TypeInv /\ ServerInv /\ ~own
      /\ replies' = replies \cup {server'.tickNum}
      /\ UNCHANGED <<own, inOrder, window, at, first, last, fatal, ack, unwritten, request>>
  BY DEF WindowInv, OtherPlays, constVars, callVars, ackVars
<1>2. /\ played \in OptTick /\ played <= LastTick
      /\ server \in Synchronizer /\ server.tickNum = played /\ LastTick \in Nat
  BY <1>1, InputWindowAssumption DEF TypeInv, ServerInv
<1>3. CASE /\ played < LastTick
           /\ played' = played + 1
           /\ server' = [Enqueue(server, played', played') EXCEPT !.lastTickAcked = played']
  <2> DEFINE n == played + 1
  <2>1. n \in Nat /\ n \in OptTick /\ n \in Inputs /\ played <= n /\ n <= LastTick
    BY <1>2, <1>3, Sizes, InputWindowAssumption
  <2>2. /\ server' \in Synchronizer
        /\ server'.tickNum = n /\ server'.lastTickAcked = n
        /\ server'.buffer = [server.buffer EXCEPT ![Slot(n)] = n]
    <3>1. Enqueue(server, n, n) \in Synchronizer
      BY <1>2, <2>1, EnqueueType
    <3> HIDE DEF n
    <3>2. played' = n
      BY <1>3 DEF n
    <3> QED BY <1>2, <1>3, <2>1, <3>1, <3>2 DEF Enqueue, Synchronizer
  <2>3. Holds(server'.buffer, n)
    <3>1. Holds(server.buffer, played) /\ server.buffer \in [Slots -> Inputs \cup {NoInput}]
      BY <1>1, <1>2 DEF ServerInv, Synchronizer
    <3> QED BY <1>2, <2>1, <2>2, <3>1, StoreHolds
  <2>4. played' = n /\ server.tickNum <= n /\ n <= n
    BY <1>2, <1>3, <2>1, Sizes
  <2> HIDE DEF n
  <2> QED BY <1>1, <2>1, <2>2, <2>3, <2>4, AnswerInv
<1>4. CASE server' = UpdateFromPacket(server, request) /\ UNCHANGED played
  <2>1. /\ server' \in Synchronizer
        /\ server'.lastTickAcked = server'.tickNum /\ Holds(server'.buffer, server'.tickNum)
        /\ server'.tickNum \in OptTick
        /\ server.tickNum <= server'.tickNum /\ server'.tickNum <= played
    BY <1>4, RequestTakenIn
  <2>2. server'.tickNum = played /\ played <= played
    BY <1>2, <2>1, Sizes
  <2> QED BY <1>1, <1>2, <1>4, <2>1, <2>2, AnswerInv
<1> QED BY <1>3, <1>4 DEF OtherPlays

-----------------------------------------------------------------------------
(* The theorems.                                                           *)

\* The race leaves every reachable state of the window, the call of the main
\* thread and the packet on its way such that the server takes in what is right
\* or nothing.
THEOREM WindowInvariant == Spec => []WindowInv
<1>1. Init => WindowInv
  BY InitWindowInv
<1>2. ASSUME WindowInv, [Next]_vars PROVE WindowInv'
  <2>1. CASE EnqueueTickNum
    BY <1>2, <2>1, EnqueueTickNumInv
  <2>2. CASE EnqueueInput
    BY <1>2, <2>2, EnqueueInputInv
  <2>3. CASE GetPaketBegins \/ ReadHasAck \/ ReadAck \/ ReadLast
    BY <1>2, <2>3, GetPaketReadsInv
  <2>4. CASE ReadLabelAndSend
    BY <1>2, <2>4, ReadLabelAndSendInv
  <2>5. CASE AckBegins
    BY <1>2, <2>5, AckBeginsInv
  <2>6. CASE AckWrites
    BY <1>2, <2>6, AckWritesInv
  <2>7. CASE ServerDoWork
    BY <1>2, <2>7, ServerDoWorkInv
  <2>8. CASE OtherPlays
    BY <1>2, <2>8, OtherPlaysInv
  <2>9. CASE UNCHANGED vars
    BY <1>2, <2>9
       DEF vars, WindowInv, TypeInv, ServerInv, WordsInv, RingInv, LabelInv, RequestInv,
           ValuesInv, Acked, OwnTick
  <2> QED BY <1>2, <2>1, <2>2, <2>3, <2>4, <2>5, <2>6, <2>7, <2>8, <2>9 DEF Next
<1> QED BY <1>1, <1>2, PTL DEF Spec

\* A packet torn by an Ack between GetPaket's reads of m_tickNum is named after a
\* tick that the server had already, and is ignored (ParsePaket).
THEOREM TornIgnored == Spec => []TornPacketsIgnored
<1>1. WindowInv => TornPacketsIgnored
  <2> SUFFICES ASSUME WindowInv, ~Truthful(request)
               PROVE  Ignored(request, server.lastTickAcked)
    BY DEF TornPacketsIgnored
  <2>1. /\ request.tickNum <= server.tickNum /\ server.lastTickAcked = server.tickNum
        /\ request.tickNum \in OptTick /\ server.tickNum \in OptTick
    BY DEF WindowInv, RequestInv, ServerInv, TypeInv, Synchronizer, PlayerPacket
  <2>2. TickAfter(server.tickNum) = server.tickNum + 1
    BY <2>1, TickAfterAck
  <2> QED BY <2>1, <2>2, Sizes DEF Ignored
<1> QED BY <1>1, WindowInvariant, PTL

\* However Enqueue, GetPaket and Ack interleave, the server's ring has the right
\* input for each of the last ticks it counts, and none that was not played.
THEOREM HoldsPlayed == Spec => []ServerHoldsPlayed
<1>1. WindowInv => ServerHoldsPlayed
  <2> SUFFICES ASSUME WindowInv PROVE ServerHoldsPlayed
    OBVIOUS
  <2>1. /\ server.tickNum <= played /\ Holds(server.buffer, server.tickNum)
        /\ server.tickNum \in OptTick
    BY DEF WindowInv, ServerInv, TypeInv, Synchronizer
  <2>2. ASSUME NEW t \in 0 .. server.tickNum, server.tickNum - MaxTicks < t
        PROVE  server.buffer[Slot(t)] = t
    <3>1. t \in Nat /\ t <= server.tickNum
      BY <2>1, Sizes
    <3> QED BY <2>1, <2>2, <3>1 DEF Holds
  <2> QED BY <2>1, <2>2 DEF ServerHoldsPlayed
<1> QED BY <1>1, WindowInvariant, PTL

\* If replies keep their order, has_value() followed by value() on a word that the
\* other thread writes does not end the process.
THEOREM Initialized == Spec => []NeverUninitialized
<1>1. WindowInv => NeverUninitialized
  BY DEF WindowInv, ValuesInv, NeverUninitialized
<1> QED BY <1>1, WindowInvariant, PTL

-----------------------------------------------------------------------------
(* GetPaket at one end and ParsePaket at the other.                        *)

\* The own window's words when no Ack is half done: the ack is that of the last
\* reply, and the window ends there or with the last tick played.
SettledInv ==
  own => /\ "lastTickAcked" \notin unwritten => window.lastTickAcked = ack
         /\ "tickNum" \notin unwritten => window.tickNum \in {ack, played}

\* It holds before the first request.
LEMMA InitSettledInv == Init => SettledInv
BY DEF Init, SettledInv, NewSynchronizer

\* Every access to one of the words keeps it.
LEMMA NextSettledInv == TypeInv /\ SettledInv /\ [Next]_vars => SettledInv'
<1> SUFFICES ASSUME TypeInv, SettledInv, [Next]_vars PROVE SettledInv'
  OBVIOUS
<1>1. window \in Synchronizer
  BY DEF TypeInv
<1>2. CASE EnqueueTickNum
  <2>1. /\ window'.lastTickAcked = window.lastTickAcked /\ window'.tickNum = played'
        /\ own' = own /\ ack' = ack /\ unwritten' = unwritten
    BY <1>1, <1>2 DEF EnqueueTickNum, Enqueue, Synchronizer, constVars, ackVars
  <2> QED BY <2>1 DEF SettledInv
<1>3. CASE EnqueueInput
  <2>1. /\ window'.lastTickAcked = window.lastTickAcked /\ window'.tickNum = window.tickNum
        /\ own' = own /\ ack' = ack /\ unwritten' = unwritten /\ played' = played
    BY <1>1, <1>3 DEF EnqueueInput, Synchronizer, constVars, ackVars
  <2> QED BY <2>1 DEF SettledInv
<1>4. CASE GetPaketBegins \/ ReadHasAck \/ ReadAck \/ ReadLast \/ ReadLabelAndSend
  BY <1>4 DEF GetPaketBegins, ReadHasAck, ReadAck, ReadLast, ReadLabelAndSend, SettledInv,
              constVars, ackVars, callVars
<1>5. CASE AckBegins
  BY <1>5 DEF AckBegins, SettledInv, constVars
<1>6. CASE AckWrites
  <2>1. PICK word \in unwritten :
          /\ window' = [window EXCEPT ![word] = Ack(window, ack)[word]]
          /\ unwritten' = unwritten \ {word}
    BY <1>6 DEF AckWrites
  <2>2. own' = own /\ ack' = ack /\ played' = played /\ word \in Words
    BY <1>6, <2>1 DEF AckWrites, constVars, TypeInv
  <2>3. Ack(window, ack).lastTickAcked = ack /\ Ack(window, ack).tickNum = ack
    BY <1>1 DEF Ack, Synchronizer
  <2>4. CASE word = "lastTickAcked"
    <3>1. window'.lastTickAcked = ack /\ window'.tickNum = window.tickNum
      BY <1>1, <2>1, <2>3, <2>4 DEF Synchronizer
    <3> QED BY <2>1, <2>2, <2>4, <3>1 DEF SettledInv
  <2>5. CASE word = "tickNum"
    <3>1. window'.tickNum = ack /\ window'.lastTickAcked = window.lastTickAcked
      BY <1>1, <2>1, <2>3, <2>5 DEF Synchronizer
    <3> QED BY <2>1, <2>2, <2>5, <3>1 DEF SettledInv
  <2> QED BY <2>2, <2>4, <2>5 DEF Words
<1>7. CASE ServerDoWork
  BY <1>7 DEF ServerDoWork, SettledInv, constVars, ackVars
<1>8. CASE OtherPlays
  BY <1>8 DEF OtherPlays, SettledInv, constVars
<1>9. CASE UNCHANGED vars
  BY <1>9 DEF vars, SettledInv
<1> QED BY <1>2, <1>3, <1>4, <1>5, <1>6, <1>7, <1>8, <1>9 DEF Next

\* So it holds in every reachable state.
LEMMA Settled == Spec => []SettledInv
<1>1. WindowInv => TypeInv
  BY DEF WindowInv
<1> QED BY <1>1, InitSettledInv, NextSettledInv, WindowInvariant, PTL DEF Spec

\* At rest the own window's ring has the right input for each tick that GetPaket
\* may be asked for.
LEMMA RestHolds ==
  ASSUME WindowInv, SettledInv, AtRest, NEW a \in OptTick, a >= window.lastTickAcked,
         a < window.tickNum
  PROVE  Holds(window.buffer, window.tickNum)
<1>1. /\ window.tickNum \in OptTick /\ window.lastTickAcked \in OptTick
      /\ window.buffer \in [Slots -> Inputs \cup {NoInput}]
  BY WordTypes DEF WindowInv
<1>2. window.lastTickAcked = ack /\ window.tickNum \in {ack, played} /\ own /\ at = "idle"
  BY DEF SettledInv, AtRest
<1>3. window.tickNum = played
  BY <1>1, <1>2, Sizes
<1>4. [window.buffer EXCEPT ![Slot(played)] = @] = window.buffer
  BY <1>1
<1>5. Holds(window.buffer, played)
  BY <1>2, <1>4 DEF WindowInv, RingInv
<1> QED BY <1>3, <1>5

\* Each turn of the loop of Enqueue adds one input to what the turns before it wrote.
LEMMA EnqueueAllNext ==
  ASSUME NEW s \in Synchronizer, NEW from \in Nat, NEW i \in 0 .. MaxTicks - 1,
         NEW inputs \in Vector
  PROVE  Enqueue(EnqueueAll(s, from, i, inputs), from + i, inputs[i])
           = EnqueueAll(s, from, i + 1, inputs)
<1> DEFINE n  == i + 1
           s1 == EnqueueAll(s, from, i, inputs)
           s2 == EnqueueAll(s, from, n, inputs)
           e  == Enqueue(s1, from + i, inputs[i])
<1>1. /\ MaxTicks \in Nat /\ i \in Nat /\ i \in 0 .. MaxTicks /\ n \in 0 .. MaxTicks /\ n > 0
      /\ from + n - 1 = from + i /\ i \in Slots /\ from + i \in Nat
  BY InputSyncAssumption DEF Slots
<1>2. inputs[i] \in Inputs \cup {NoInput}
  BY <1>1 DEF Vector
<1>3. s1 \in Synchronizer /\ s2 \in Synchronizer
  BY <1>1, EnqueueAllType
<1>4. /\ s1.lastTickAcked = s.lastTickAcked
      /\ \A j \in 0 .. i - 1 : s1.buffer[Slot(from + j)] = inputs[j]
      /\ \A k \in Slots : (\A j \in 0 .. i - 1 : Slot(from + j) # k)
                            => s1.buffer[k] = s.buffer[k]
  <2>1. i \in 0 .. MaxTicks
    BY <1>1
  <2> QED BY <2>1, EnqueueAllBuffer
<1>5. /\ s2.lastTickAcked = s.lastTickAcked
      /\ s2.tickNum = from + i
      /\ \A j \in 0 .. n - 1 : s2.buffer[Slot(from + j)] = inputs[j]
      /\ \A k \in Slots : (\A j \in 0 .. n - 1 : Slot(from + j) # k)
                            => s2.buffer[k] = s.buffer[k]
  <2>1. n \in 0 .. MaxTicks /\ n > 0 /\ from + n - 1 = from + i
    BY <1>1
  <2> HIDE DEF n
  <2>2. s2.tickNum = IF n > 0 THEN from + n - 1 ELSE s.tickNum
    BY <2>1, EnqueueAllBuffer
  <2> QED BY <2>1, <2>2, EnqueueAllBuffer
<1>6. e = [s1 EXCEPT !.tickNum = from + i, !.buffer[Slot(from + i)] = inputs[i]]
  BY DEF Enqueue
<1> HIDE DEF n, s1, s2, e
<1>7. Slot(from + i) \in Slots
  BY <1>1, SlotType
<1>8. /\ e \in Synchronizer
      /\ e.lastTickAcked = s1.lastTickAcked /\ e.tickNum = from + i
      /\ e.buffer = [s1.buffer EXCEPT ![Slot(from + i)] = inputs[i]]
  BY <1>1, <1>2, <1>3, <1>6, <1>7 DEF Synchronizer, OptTick
<1>9. ASSUME NEW k \in Slots
      PROVE  e.buffer[k] = s2.buffer[k]
  <2> DEFINE Of(j) == Slot(from + j)
  <2>1. \A j : j \in 0 .. n - 1 <=> j \in 0 .. i - 1 \/ j = i
    BY <1>1 DEF n
  <2>2. s1.buffer \in [Slots -> Inputs \cup {NoInput}]
    BY <1>3 DEF Synchronizer
  <2>3. CASE k = Of(i)
    <3>1. e.buffer[k] = inputs[i]
      BY <1>8, <2>2, <2>3
    <3> QED BY <1>5, <2>1, <2>3, <3>1
  <2>4. ASSUME k # Of(i), NEW j \in 0 .. i - 1, Of(j) = k
        PROVE  e.buffer[k] = s2.buffer[k]
    <3>1. e.buffer[k] = s1.buffer[k]
      BY <1>8, <2>2, <2>4
    <3> QED BY <1>4, <1>5, <2>1, <2>4, <3>1
  <2>5. CASE k # Of(i) /\ \A j \in 0 .. i - 1 : Of(j) # k
    <3>1. e.buffer[k] = s1.buffer[k]
      BY <1>8, <2>2, <2>5
    <3>2. \A j \in 0 .. n - 1 : Of(j) # k
      BY <2>1, <2>5
    <3> QED BY <1>4, <1>5, <2>5, <3>1, <3>2
  <2> HIDE DEF Of
  <2> QED BY <2>3, <2>4, <2>5
<1>10. e.buffer = s2.buffer
  BY <1>3, <1>8, <1>9 DEF Synchronizer
<1>11. e = s2
  BY <1>3, <1>4, <1>5, <1>8, <1>10 DEF Synchronizer
<1> QED BY <1>11 DEF e, s2, n, s1

\* No turn of the loop overwrites what another has written.
LEMMA EnqueueLoop ==
  ASSUME NEW s \in Synchronizer, NEW from \in Nat, NEW n \in 0 .. MaxTicks,
         NEW inputs \in Vector
  PROVE  EnqueueInOrder(s, from, n, inputs) = EnqueueAll(s, from, n, inputs)
<1> DEFINE All(i) == EnqueueAll(s, from, i, inputs)
           g      == [i \in 0 .. n |-> All(i)]
<1>1. n \in Nat /\ MaxTicks \in Nat /\ \A i \in 0 .. n - 1 : i \in 0 .. MaxTicks - 1
  BY InputSyncAssumption
<1>2. All(0) = s
  <2>1. All(0) \in Synchronizer
    BY <1>1, EnqueueAllType
  <2>2. /\ All(0).lastTickAcked = s.lastTickAcked /\ All(0).tickNum = s.tickNum
        /\ \A k \in Slots : All(0).buffer[k] = s.buffer[k]
    BY <1>1, EnqueueAllBuffer
  <2> HIDE DEF All
  <2> QED BY <2>1, <2>2 DEF Synchronizer
<1>3. \A i \in 0 .. n - 1 : Enqueue(All(i), from + i, inputs[i]) = All(i + 1)
  BY <1>1, EnqueueAllNext
<1> HIDE DEF All
<1>4. \A i \in 0 .. n : i # 0 => /\ i - 1 \in 0 .. n - 1 /\ i - 1 \in 0 .. n
                                 /\ from + (i - 1) = from + i - 1 /\ i - 1 + 1 = i
  BY <1>1
<1>5. \A i \in 0 .. n : g[i] = IF i = 0 THEN s ELSE Enqueue(g[i - 1], from + i - 1, inputs[i - 1])
  BY <1>2, <1>3, <1>4
<1>6. g = [i \in 0 .. n |-> IF i = 0 THEN s
                            ELSE Enqueue(g[i - 1], from + i - 1, inputs[i - 1])]
  BY <1>5
<1> HIDE DEF g
<1>7. \E f : f = [i \in 0 .. n |-> IF i = 0 THEN s
                                   ELSE Enqueue(f[i - 1], from + i - 1, inputs[i - 1])]
  BY <1>6
<1> DEFINE loop[i \in 0 .. n] == IF i = 0 THEN s
                                 ELSE Enqueue(loop[i - 1], from + i - 1, inputs[i - 1])
<1>8. loop = [i \in 0 .. n |-> IF i = 0 THEN s
                               ELSE Enqueue(loop[i - 1], from + i - 1, inputs[i - 1])]
  BY <1>7 DEF loop
<1>9. EnqueueInOrder(s, from, n, inputs) = loop[n]
  BY DEF EnqueueInOrder
<1> HIDE DEF loop
<1>10. loop[0] = s
  BY <1>1, <1>8
<1>11. ASSUME NEW i \in 0 .. n - 1
       PROVE  loop[i + 1] = Enqueue(loop[i], from + i, inputs[i])
  <2>1. i + 1 \in 0 .. n /\ i + 1 # 0 /\ i + 1 - 1 = i /\ from + (i + 1) - 1 = from + i
    BY <1>1
  <2> QED BY <1>8, <2>1
<1> DEFINE S == {i \in Nat : loop[i] = All(i)}
<1>12. 0 \in S
  BY <1>2, <1>10
<1>13. ASSUME NEW i \in 0 .. n - 1, i \in S
       PROVE  i + 1 \in S
  BY <1>3, <1>11, <1>13
<1>14. n \in S
  <2> HIDE DEF S
  <2> QED BY <1>1, <1>12, <1>13, InductionUpTo
<1> QED BY <1>9, <1>14 DEF All

\* What a receiver takes from a packet that a settled window makes.
LEMMA ParsedIsMeant ==
  ASSUME WindowInv, SettledInv, AtRest, NEW a \in OptTick, NEW b \in OptTick,
         a >= window.lastTickAcked, CanGetPaket(window, a)
  PROVE  ParsePaket(GetPaket(window, a), b) = Meant(a, b)
<1> DEFINE T   == window.tickNum
           pkt == GetPaket(window, a)
           N   == pkt.count
<1>1. window \in Synchronizer /\ T \in OptTick /\ window.lastTickAcked \in OptTick
  BY DEF WindowInv, TypeInv, Synchronizer
<1>2. TickAfter(a) = a + 1 /\ TickAfter(b) = b + 1
  BY TickAfterAck
<1>3. /\ pkt.tickNum = T
      /\ N = IF HasValue(T) THEN SendCount(window, a) ELSE 0
      /\ \A i \in Slots : i < N => pkt.inputs[i] = window.buffer[Slot(a + 1 + i)]
  BY <1>2 DEF GetPaket
<1>4. /\ HasValue(T) <=> T >= 0
      /\ N = IF T > a THEN T - a ELSE 0
      /\ N \in 0 .. MaxTicks
  BY <1>1, <1>2, <1>3, Sizes DEF CanGetPaket, SendCount, HasValue
<1> HIDE DEF N, pkt
<1>5. CASE b >= T
  <2>1. Ignored(pkt, b)
    BY <1>1, <1>2, <1>3, <1>5, Sizes DEF Ignored
  <2> QED BY <1>5, <2>1 DEF ParsePaket, Meant, pkt
<1>6. CASE b < T
  <2>1. HasValue(T) /\ T >= 0 /\ N <= MaxTicks
    BY <1>1, <1>4, <1>6, Sizes
  <2>2. ~Ignored(pkt, b)
    <3>1. ~(b + 1 > T) /\ ~(N > MaxTicks)
      BY <1>1, <1>4, <1>6, <2>1, Sizes
    <3> QED BY <1>2, <1>3, <2>1, <3>1 DEF Ignored, N
  <2>3. TooShort(pkt, b) <=> b < a
    <3>1. T - (b + 1) + 1 > N <=> b < a
      BY <1>1, <1>4, <1>6, <2>1, Sizes
    <3> QED BY <1>2, <1>3, <3>1 DEF TooShort, N
  <2>4. CASE b < a
    <3>1. ~(b >= T)
      BY <1>1, <1>6, Sizes
    <3>2. ParsePaket(pkt, b) = NothingParsed(T)
      BY <1>3, <2>2, <2>3, <2>4 DEF ParsePaket
    <3> QED BY <2>4, <3>1, <3>2 DEF Meant, pkt
  <2>5. CASE ~(b < a)
    <3>1. /\ T > a /\ N = T - a /\ Skip(pkt, b) = b - a /\ T - TickAfter(b) + 1 = T - b
          /\ T - b \in 1 .. N
      BY <1>1, <1>2, <1>3, <1>4, <1>6, <2>5, Sizes DEF Skip, N
    <3>2. Holds(window.buffer, T)
      BY <3>1, RestHolds
    <3>3. ASSUME NEW i \in Slots, i < T - b
          PROVE  pkt.inputs[Skip(pkt, b) + i] = b + 1 + i
      <4>1. /\ i \in Nat /\ b - a + i \in Slots /\ b - a + i < N
            /\ a + 1 + (b - a + i) = b + 1 + i
            /\ b + 1 + i \in Nat /\ b + 1 + i <= T /\ T - MaxTicks < b + 1 + i
        BY <1>1, <1>4, <2>5, <3>1, <3>3, Sizes DEF Slots
      <4>2. pkt.inputs[b - a + i] = window.buffer[Slot(b + 1 + i)]
        BY <1>3, <4>1
      <4> QED BY <3>1, <3>2, <4>1, <4>2 DEF Holds
    <3>4. [i \in Slots |-> IF i < T - b THEN pkt.inputs[Skip(pkt, b) + i] ELSE NoInput]
            = [i \in Slots |-> IF i < T - b THEN b + 1 + i ELSE NoInput]
      BY <3>3
    <3>5. ParsePaket(pkt, b) =
            [firstTick     |-> b + 1,
             count         |-> T - b,
             inputs        |-> [i \in Slots |-> IF i < T - b THEN pkt.inputs[Skip(pkt, b) + i]
                                                ELSE NoInput],
             lastTickAcked |-> T]
      BY <1>2, <1>3, <2>2, <2>3, <2>5, <3>1 DEF ParsePaket
    <3>6. Meant(a, b) =
            [firstTick |-> b + 1, count |-> T - b, lastTickAcked |-> T,
             inputs |-> [i \in Slots |-> IF i < T - b THEN b + 1 + i ELSE NoInput]]
      <4>1. ~(b >= T)
        BY <1>1, <1>6, Sizes
      <4> QED BY <2>5, <4>1 DEF Meant
    <3> QED BY <3>4, <3>5, <3>6 DEF pkt
  <2> QED BY <2>4, <2>5
<1> QED BY <1>1, <1>5, <1>6, Sizes

\* For any ring and number of ticks: GetPaket and ParsePaket at the two ends hand over
\* exactly what the receiver lacks, and the loop that stores it does not overwrite
\* its own writes.
THEOREM RoundTrip == Spec => []PacketRoundTrip
<1>1. WindowInv /\ SettledInv => PacketRoundTrip
  <2> SUFFICES ASSUME WindowInv, SettledInv, AtRest, NEW a \in SomeTick, NEW b \in SomeTick,
                      a >= window.lastTickAcked, CanGetPaket(window, a)
               PROVE  LET parsed == ParsePaket(GetPaket(window, a), b)
                      IN  /\ parsed = Meant(a, b)
                          /\ \A s \in {NewSynchronizer, window} :
                               EnqueueAll(s, parsed.firstTick, parsed.count, parsed.inputs)
                                 = EnqueueInOrder(s, parsed.firstTick, parsed.count, parsed.inputs)
    BY DEF PacketRoundTrip
  <2> DEFINE parsed == ParsePaket(GetPaket(window, a), b)
  <2>1. a \in OptTick /\ b \in OptTick /\ window \in Synchronizer
    BY Sizes DEF SomeTick, WindowInv, TypeInv
  <2>2. parsed = Meant(a, b)
    BY <2>1, ParsedIsMeant
  <2>3. GetPaket(window, a) \in PlayerPacket
    BY <2>1, GetPaketType
  <2>4. parsed \in ParseResult
    BY <2>1, <2>3, ParsePaketType
  <2> HIDE DEF parsed
  <2>5. \A s \in {NewSynchronizer, window} :
          EnqueueAll(s, parsed.firstTick, parsed.count, parsed.inputs)
            = EnqueueInOrder(s, parsed.firstTick, parsed.count, parsed.inputs)
    BY <2>1, <2>4, NewSynchronizerType, EnqueueLoop DEF ParseResult
  <2> QED BY <2>2, <2>5 DEF parsed
<1> QED BY <1>1, Settled, WindowInvariant, PTL

-----------------------------------------------------------------------------
(* The repository's tests of Update.                                       *)

\* What Update makes of the tests' frames.
LEMMA FramesAre ==
  /\ Frames!Advanced(Frames!NewClock, 50, Input(10000, "forward")).made = Frames!NoTicks
  /\ Frames!Advanced(Frames!NewClock, 100, Input(10000, "forward"))
       = [clock |-> [tickNum |-> 1, remaining |-> 0, mouse |-> 0, actions |-> {}],
          made  |-> [count |-> 1, mouse |-> 10000, actions |-> {"forward"}, rounded |-> 0]]
  /\ Frames!Advanced(Frames!NewClock, 200, Input(10000, "forward"))
       = [clock |-> [tickNum |-> 2, remaining |-> 0, mouse |-> 0, actions |-> {}],
          made  |-> [count |-> 2, mouse |-> 5000, actions |-> {"forward"}, rounded |-> 0]]
  /\ Frames!Advanced(Frames!NewClock, 250, Input(10000, "forward"))
       = [clock |-> [tickNum |-> 2, remaining |-> 50, mouse |-> 2000, actions |-> {}],
          made  |-> [count |-> 2, mouse |-> 4000, actions |-> {"forward"}, rounded |-> 0]]
  /\ Frames!Advanced([tickNum |-> 2, remaining |-> 50, mouse |-> 2000, actions |-> {}],
                     50, Input(20000, "backward"))
       = [clock |-> [tickNum |-> 3, remaining |-> 0, mouse |-> 0, actions |-> {}],
          made  |-> [count |-> 1, mouse |-> 22000, actions |-> {"backward"}, rounded |-> 0]]
  /\ Frames!Advanced([tickNum |-> 3, remaining |-> 0, mouse |-> 0, actions |-> {}],
                     1, Input(20000, "backward")).made = Frames!NoTicks
<1> USE DEF Frames!Advanced, Frames!NewClock, Frames!Remainder, Frames!Remaining,
            Frames!KeysGathered, Input
<1>1. Frames!Advanced(Frames!NewClock, 50, Input(10000, "forward")).made = Frames!NoTicks
  <2>1. 0 + 50 = 50 /\ 50 \div 100 = 0
    OBVIOUS
  <2> QED BY <2>1
<1>2. Frames!Advanced(Frames!NewClock, 100, Input(10000, "forward"))
        = [clock |-> [tickNum |-> 1, remaining |-> 0, mouse |-> 0, actions |-> {}],
           made  |-> [count |-> 1, mouse |-> 10000, actions |-> {"forward"}, rounded |-> 0]]
  <2>1. /\ 0 + 100 = 100 /\ 100 \div 100 = 1 /\ 100 % 100 = 0 /\ 0 + 10000 = 10000
        /\ (10000 * 0) \div 100 = 0 /\ (10000 - 0) \div 1 = 10000
    OBVIOUS
  <2> QED BY <2>1
<1>3. Frames!Advanced(Frames!NewClock, 200, Input(10000, "forward"))
        = [clock |-> [tickNum |-> 2, remaining |-> 0, mouse |-> 0, actions |-> {}],
           made  |-> [count |-> 2, mouse |-> 5000, actions |-> {"forward"}, rounded |-> 0]]
  <2>1. /\ 0 + 200 = 200 /\ 200 \div 100 = 2 /\ 200 % 100 = 0 /\ 0 + 10000 = 10000
        /\ (10000 * 0) \div 200 = 0 /\ (10000 - 0) \div 2 = 5000
    OBVIOUS
  <2> QED BY <2>1
<1>4. Frames!Advanced(Frames!NewClock, 250, Input(10000, "forward"))
        = [clock |-> [tickNum |-> 2, remaining |-> 50, mouse |-> 2000, actions |-> {}],
           made  |-> [count |-> 2, mouse |-> 4000, actions |-> {"forward"}, rounded |-> 0]]
  <2>1. /\ 0 + 250 = 250 /\ 250 \div 100 = 2 /\ 250 % 100 = 50 /\ 0 + 10000 = 10000
        /\ (10000 * 50) \div 250 = 2000 /\ (10000 - 2000) \div 2 = 4000
    OBVIOUS
  <2> QED BY <2>1
<1>5. Frames!Advanced([tickNum |-> 2, remaining |-> 50, mouse |-> 2000, actions |-> {}],
                      50, Input(20000, "backward"))
        = [clock |-> [tickNum |-> 3, remaining |-> 0, mouse |-> 0, actions |-> {}],
           made  |-> [count |-> 1, mouse |-> 22000, actions |-> {"backward"}, rounded |-> 0]]
  <2>1. /\ 50 + 50 = 100 /\ 100 \div 100 = 1 /\ 100 % 100 = 0 /\ 2000 + 20000 = 22000
        /\ (22000 * 0) \div 100 = 0 /\ (22000 - 0) \div 1 = 22000
    OBVIOUS
  <2> QED BY <2>1
<1>6. Frames!Advanced([tickNum |-> 3, remaining |-> 0, mouse |-> 0, actions |-> {}],
                      1, Input(20000, "backward")).made = Frames!NoTicks
  <2>1. 0 + 1 = 1 /\ 1 \div 100 = 0
    OBVIOUS
  <2> QED BY <2>1
<1> HIDE DEF Frames!Advanced, Frames!NewClock, Input
<1> QED BY <1>1, <1>2, <1>3, <1>4, <1>5, <1>6

\* The tests of Update hold.
LEMMA FrameTestsHold == FrameTestsPass
<1>1. CreatesNoInputsForShortFrame
  BY FramesAre DEF CreatesNoInputsForShortFrame
<1>2. SendsSingleInput
  BY FramesAre DEF SendsSingleInput, MakesTicks
<1>3. CreatesMultipleInputs
  BY FramesAre DEF CreatesMultipleInputs, MakesTicks
<1>4. CreatesMultipleInputsWithMisalignedTick
  <2> DEFINE one   == Frames!Advanced(Frames!NewClock, 250, Input(10000, "forward"))
             two   == Frames!Advanced(one.clock, 50, Input(20000, "backward"))
             three == Frames!Advanced(two.clock, 1, Input(20000, "backward"))
  <2>1. one = [clock |-> [tickNum |-> 2, remaining |-> 50, mouse |-> 2000, actions |-> {}],
               made  |-> [count |-> 2, mouse |-> 4000, actions |-> {"forward"}, rounded |-> 0]]
    BY FramesAre
  <2> HIDE DEF one
  <2>2. one.clock = [tickNum |-> 2, remaining |-> 50, mouse |-> 2000, actions |-> {}]
    BY <2>1
  <2>3. two = [clock |-> [tickNum |-> 3, remaining |-> 0, mouse |-> 0, actions |-> {}],
                made  |-> [count |-> 1, mouse |-> 22000, actions |-> {"backward"}, rounded |-> 0]]
    BY <2>2, FramesAre
  <2> HIDE DEF two
  <2>4. two.clock = [tickNum |-> 3, remaining |-> 0, mouse |-> 0, actions |-> {}]
    BY <2>3
  <2>5. three.made = Frames!NoTicks
    BY <2>4, FramesAre
  <2> HIDE DEF three
  <2>6. one.made.count = 2 /\ MakesTicks(one, 1, 4000, "forward")
    BY <2>1 DEF MakesTicks
  <2>7. two.made.count = 1 /\ MakesTicks(two, 2, 22000, "backward")
    BY <2>3 DEF MakesTicks
  <2> QED BY <2>5, <2>6, <2>7
      DEF CreatesMultipleInputsWithMisalignedTick, one, two, three
<1> QED BY <1>1, <1>2, <1>3, <1>4 DEF FrameTestsPass

-----------------------------------------------------------------------------
(* The repository's tests of the synchronizer.                             *)

\* A synchronizer with these members.
Sync(seen, tick, buffer) == [lastTickAcked |-> seen, tickNum |-> tick, buffer |-> buffer]

\* One turn of the loop that fills a window.
LEMMA EnqueueIs ==
  \A seen, tick, buffer, t, input :
    Enqueue(Sync(seen, tick, buffer), t, input)
      = Sync(seen, t, [buffer EXCEPT ![Slot(t)] = input])
<1> SUFFICES ASSUME NEW seen, NEW tick, NEW buffer, NEW t, NEW input
             PROVE  Enqueue(Sync(seen, tick, buffer), t, input)
                      = Sync(seen, t, [buffer EXCEPT ![Slot(t)] = input])
  OBVIOUS
<1> DEFINE s == Sync(seen, tick, buffer)
           k == Slot(t)
<1>1. Enqueue(s, t, input) = [s EXCEPT !.tickNum = t, !.buffer[k] = input]
  BY DEF Enqueue
<1>2. DOMAIN s = {"lastTickAcked", "tickNum", "buffer"}
      /\ s.buffer = buffer /\ s.lastTickAcked = seen
      /\ s = [x \in DOMAIN s |-> s[x]]
  BY DEF Sync
<1> HIDE DEF s, k
<1>3. [s EXCEPT !.tickNum = t, !.buffer[k] = input] = Sync(seen, t, [buffer EXCEPT ![k] = input])
  <2> DEFINE c == [buffer EXCEPT ![k] = input]
             r == [s EXCEPT !.tickNum = t, !.buffer[k] = input]
  <2>1. /\ DOMAIN r = {"lastTickAcked", "tickNum", "buffer"}
        /\ r = [x \in DOMAIN r |-> r[x]]
    BY <1>2
  <2>2. r.tickNum = t
    BY <1>2
  <2>3. r.buffer = c
    BY <1>2
  <2>4. r.lastTickAcked = seen
    BY <1>2
  <2> HIDE DEF r, c
  <2>5. r = Sync(seen, t, c)
    BY <2>1, <2>2, <2>3, <2>4 DEF Sync
  <2> QED BY <2>5 DEF r, c
<1> QED BY <1>1, <1>3 DEF s, k

\* A ring with the first n inputs of a test, if it has room for them.
Rings(n) == {b \in [Slots -> Nat \cup {NoInput}] :
               n <= MaxTicks => \A t \in 0 .. n - 1 : b[Slot(t)] = t}

\* A window after n inputs that nothing has acked.
LEMMA FilledIs ==
  ASSUME NEW n \in 0 .. MaxTicks + 1
  PROVE  \E b \in Rings(n) : Filled(n) = Sync(NoTick, n - 1, b)
<1> DEFINE Turn(h, i) == IF i = 0 THEN NewSynchronizer ELSE Enqueue(h[i - 1], i - 1, i - 1)
           S == {i \in 0 .. n : \E h : \A j \in 0 .. i : h[j] = Turn(h, j)}
           s[i \in 0 .. n] == Turn(s, i)
<1>1. n \in Nat
  BY InputSyncAssumption
<1>2. Filled(n) = s[n]
  BY DEF Filled
<1>3. 0 \in S
  <2> DEFINE h == [j \in 0 .. 0 |-> NewSynchronizer]
  <2>1. \A j \in 0 .. 0 : h[j] = Turn(h, j)
    OBVIOUS
  <2> HIDE DEF h, Turn
  <2>2. 0 \in 0 .. n
    BY <1>1
  <2> QED BY <2>1, <2>2
<1>4. ASSUME NEW i \in 0 .. n - 1, i \in S
      PROVE  i + 1 \in S
  <2> HIDE DEF Turn
  <2>1. PICK h : \A j \in 0 .. i : h[j] = Turn(h, j)
    BY <1>4
  <2> DEFINE g == [j \in 0 .. i + 1 |-> IF j = i + 1 THEN Enqueue(h[i], i, i) ELSE h[j]]
  <2>2. ASSUME NEW j \in 0 .. i + 1
        PROVE  g[j] = Turn(g, j)
    <3>1. CASE j = i + 1
      <4>1. j # 0 /\ j - 1 = i /\ g[j] = Enqueue(h[i], i, i) /\ g[i] = h[i]
        BY <3>1
      <4> HIDE DEF g
      <4> QED BY <4>1 DEF Turn
    <3>2. CASE j \in 0 .. i
      <4>1. g[j] = h[j] /\ (j # 0 => g[j - 1] = h[j - 1])
        BY <3>2
      <4> HIDE DEF g
      <4> QED BY <2>1, <3>2, <4>1 DEF Turn
    <3> QED BY <3>1, <3>2
  <2> HIDE DEF g
  <2>3. i + 1 \in 0 .. n
    BY <1>1
  <2> QED BY <2>2, <2>3
<1>5. PICK h : \A j \in 0 .. n : h[j] = Turn(h, j)
  <2> HIDE DEF S
  <2>1. n \in S
    BY <1>1, <1>3, <1>4, InductionUpTo
  <2> QED BY <2>1 DEF S
<1>6. s = [i \in 0 .. n |-> Turn(s, i)]
  <2> DEFINE g == [i \in 0 .. n |-> h[i]]
  <2>1. ASSUME NEW i \in 0 .. n
        PROVE  g[i] = Turn(g, i)
    <3>1. g[i] = h[i] /\ (i # 0 => g[i - 1] = h[i - 1])
      BY <1>1
    <3> HIDE DEF g
    <3> QED BY <1>5, <3>1
  <2>2. g = [i \in 0 .. n |-> g[i]]
    OBVIOUS
  <2> HIDE DEF g
  <2>3. g = [i \in 0 .. n |-> Turn(g, i)]
    BY <2>1, <2>2
  <2> QED BY <2>3 DEF s
<1> HIDE DEF s, S
<1> DEFINE T == {i \in 0 .. n : \E b \in Rings(i) : s[i] = Sync(NoTick, i - 1, b)}
<1>7. 0 \in T
  <2>1. 0 \in 0 .. n /\ 0 - 1 = NoTick
    BY <1>1 DEF NoTick
  <2>2. s[0] = Sync(NoTick, 0 - 1, EmptyVector)
    BY <1>6, <2>1 DEF NewSynchronizer, Sync, EmptyVector
  <2>3. EmptyVector \in Rings(0)
    BY DEF EmptyVector, Rings
  <2> QED BY <2>1, <2>2, <2>3
<1>8. ASSUME NEW i \in 0 .. n - 1, i \in T
      PROVE  i + 1 \in T
  <2>1. PICK b \in Rings(i) : s[i] = Sync(NoTick, i - 1, b)
    BY <1>8
  <2>2. i \in Nat /\ i + 1 \in 0 .. n /\ i + 1 # 0 /\ (i + 1) - 1 = i
    BY <1>1, InputSyncAssumption
  <2>3. s[i + 1] = Enqueue(s[i], i, i)
    BY <1>6, <2>2
  <2> DEFINE c == [b EXCEPT ![Slot(i)] = i]
  <2>4. s[i + 1] = Sync(NoTick, i, c)
    BY <2>1, <2>3, EnqueueIs
  <2>5. c \in [Slots -> Nat \cup {NoInput}]
    BY <2>2 DEF Rings
  <2>6. ASSUME NEW t \in 0 .. i, i + 1 <= MaxTicks
        PROVE  c[Slot(t)] = t
    <3>1. t \in Nat /\ Slot(t) \in Slots
      BY SlotType
    <3>2. CASE t = i
      BY <3>1, <3>2 DEF Rings
    <3>3. CASE t < i
      <4>1. t \in 0 .. i - 1 /\ i < t + MaxTicks
        BY <2>2, <2>6, <3>1, <3>3, InputSyncAssumption
      <4>2. Slot(t) # Slot(i) /\ b[Slot(t)] = t
        BY <2>2, <2>6, <3>1, <3>3, <4>1, SlotsDiffer, InputSyncAssumption DEF Rings
      <4> QED BY <3>1, <4>2 DEF Rings
    <3> QED BY <2>2, <3>1, <3>2, <3>3
  <2>7. c \in Rings(i + 1)
    <3> HIDE DEF c
    <3> QED BY <2>2, <2>5, <2>6 DEF Rings
  <2> HIDE DEF c
  <2> QED BY <2>2, <2>4, <2>7
<1>9. n \in T
  <2> HIDE DEF T
  <2> QED BY <1>1, <1>7, <1>8, InductionUpTo
<1> QED BY <1>2, <1>9

\* What a window sends of which nothing is acked.
LEMMA SentIs ==
  ASSUME NEW n \in 0 .. MaxTicks
  PROVE  /\ Sends(Filled(n))
         /\ Sent(Filled(n)).tickNum = n - 1
         /\ Sent(Filled(n)).count = n
         /\ \A i \in 0 .. n - 1 : Sent(Filled(n)).inputs[i] = i
<1>1. PICK b \in Rings(n) : Filled(n) = Sync(NoTick, n - 1, b)
  <2>1. n \in 0 .. MaxTicks + 1
    BY InputSyncAssumption
  <2> QED BY <2>1, FilledIs
<1> DEFINE s == Filled(n)
<1>2. /\ s.lastTickAcked = NoTick /\ s.tickNum = n - 1 /\ s.buffer = b
      /\ TickAfter(NoTick) = 0 /\ n \in Nat /\ n <= MaxTicks
  BY <1>1, InputSyncAssumption DEF Sync, TickAfter, HasValue
<1> HIDE DEF s
<1>3. HasValue(s.tickNum) <=> n > 0
  BY <1>2 DEF HasValue, NoTick
<1>4. n > 0 => SendCount(s, NoTick) = n
  BY <1>2 DEF SendCount
<1>5. GetPaket(s, NoTick)
        = [tickNum |-> n - 1, count |-> n,
           inputs |-> [i \in Slots |-> IF i < n THEN b[Slot(0 + i)] ELSE NoInput]]
  <2>1. (IF HasValue(s.tickNum) THEN SendCount(s, NoTick) ELSE 0) = n
    BY <1>2, <1>3, <1>4
  <2> QED BY <1>2, <2>1 DEF GetPaket
<1>6. ASSUME NEW i \in 0 .. n - 1
      PROVE  GetPaket(s, NoTick).inputs[i] = i
  <2>1. i \in Slots /\ i < n /\ 0 + i = i
    BY <1>2, InputSyncAssumption DEF Slots
  <2> QED BY <1>5, <2>1 DEF Rings
<1>7. CanGetPaket(s, NoTick)
  BY <1>2, <1>3, <1>4 DEF CanGetPaket
<1>8. Sends(s) /\ Sent(s) = GetPaket(s, NoTick)
  BY <1>2, <1>7 DEF Sends, Sent
<1>9. GetPaket(s, NoTick).tickNum = n - 1 /\ GetPaket(s, NoTick).count = n
  BY <1>5
<1> QED BY <1>6, <1>8, <1>9 DEF s

\* A parse that takes the newest inputs of a packet.
LEMMA ParseTakes ==
  \A pkt, seen :
    /\ seen \in OptTick /\ pkt.tickNum \in Nat /\ pkt.count \in 0 .. MaxTicks
    /\ seen < pkt.tickNum /\ pkt.tickNum - seen <= pkt.count
    => LET r == ParsePaket(pkt, seen)
           n == pkt.tickNum - seen
       IN  /\ r.firstTick = seen + 1 /\ r.count = n /\ r.lastTickAcked = pkt.tickNum
           /\ \A i \in 0 .. n - 1 : r.inputs[i] = pkt.inputs[pkt.count - n + i]
<1> SUFFICES ASSUME NEW pkt, NEW seen, seen \in OptTick, pkt.tickNum \in Nat,
                    pkt.count \in 0 .. MaxTicks, seen < pkt.tickNum,
                    pkt.tickNum - seen <= pkt.count
             PROVE  LET r == ParsePaket(pkt, seen)
                        n == pkt.tickNum - seen
                    IN  /\ r.firstTick = seen + 1 /\ r.count = n /\ r.lastTickAcked = pkt.tickNum
                        /\ \A i \in 0 .. n - 1 : r.inputs[i] = pkt.inputs[pkt.count - n + i]
  OBVIOUS
<1> DEFINE r == ParsePaket(pkt, seen)
           n == pkt.tickNum - seen
<1>1. TickAfter(seen) = seen + 1 /\ seen \in Int /\ seen >= -1
  BY TickAfterAck DEF OptTick, NoTick
<1>2. /\ pkt.tickNum - TickAfter(seen) + 1 = n /\ n \in Nat /\ n <= MaxTicks
      /\ pkt.count - (pkt.tickNum - TickAfter(seen) + 1) = pkt.count - n
  BY <1>1, InputSyncAssumption
<1>3. ~Ignored(pkt, seen) /\ ~TooShort(pkt, seen)
  BY <1>1, <1>2, InputSyncAssumption DEF Ignored, TooShort, HasValue, NoTick
<1> HIDE DEF n
<1>4. r = [firstTick |-> seen + 1, count |-> n,
           inputs |-> [i \in Slots |-> IF i < n THEN pkt.inputs[pkt.count - n + i] ELSE NoInput],
           lastTickAcked |-> pkt.tickNum]
  BY <1>1, <1>2, <1>3 DEF ParsePaket, Skip
<1> HIDE DEF r
<1>5. ASSUME NEW i \in 0 .. n - 1
      PROVE  i \in Slots /\ i < n
  BY <1>2, InputSyncAssumption DEF Slots
<1> QED BY <1>4, <1>5 DEF r, n

\* A parse of an old packet, or of one without a tick.
LEMMA ParseOld ==
  \A pkt, seen : seen \in OptTick /\ pkt.tickNum \in OptTick /\ pkt.tickNum <= seen
                  => ParsePaket(pkt, seen) = NothingParsed(seen)
BY TickAfterAck DEF ParsePaket, Ignored, HasValue, NoTick, OptTick

\* A parse of a packet that begins after the tick wanted.
LEMMA ParseShort ==
  \A pkt, seen : /\ seen \in OptTick /\ pkt.tickNum \in Nat /\ pkt.count = 0 /\ seen < pkt.tickNum
                => ParsePaket(pkt, seen) = NothingParsed(pkt.tickNum)
<1> SUFFICES ASSUME NEW pkt, NEW seen, seen \in OptTick, pkt.tickNum \in Nat, pkt.count = 0,
                    seen < pkt.tickNum
             PROVE  ParsePaket(pkt, seen) = NothingParsed(pkt.tickNum)
  OBVIOUS
<1>1. TickAfter(seen) = seen + 1 /\ seen \in Int /\ seen >= -1
  BY TickAfterAck DEF OptTick, NoTick
<1>2. ~Ignored(pkt, seen) /\ TooShort(pkt, seen)
  BY <1>1, InputSyncAssumption DEF Ignored, TooShort, HasValue, NoTick
<1> QED BY <1>2 DEF ParsePaket

\* The tests of the synchronizer hold.
LEMMA SynchronizerTestsHold ==
  ASSUME MaxTicks >= 2
  PROVE  /\ HandlesEmptySendAndReceive
         /\ HandlesSingleSendAndReceive
         /\ HandlesSingleSendWithMultipleInputsAndSingleReceive
         /\ HandlesSingleSendAndAlreadyAckedReceive
         /\ HandlesMultipleSendAndSingleReceive
         /\ HandlesMaxInputs
         /\ SenderHandlesTooManyInputs
         /\ ReceiverHandlesTooManyTicks
         /\ HandlesAlreadyReceivedInputs
<1>1. MaxTicks \in Nat /\ NoTick \in OptTick /\ NoTick = -1
  BY InputSyncAssumption DEF OptTick, NoTick
<1>2. ASSUME NEW n \in 1 .. MaxTicks
      PROVE  LET r == ParsePaket(Sent(Filled(n)), NoTick)
             IN  /\ Sends(Filled(n)) /\ r.firstTick = 0 /\ r.count = n
                 /\ \A i \in 0 .. n - 1 : r.inputs[i] = i
  <2> DEFINE pkt == Sent(Filled(n))
             r == ParsePaket(pkt, NoTick)
  <2>1. n \in Nat /\ n >= 1 /\ n \in 0 .. MaxTicks /\ n - 1 \in Nat
    BY <1>1
  <2>2. /\ Sends(Filled(n)) /\ pkt.tickNum = n - 1 /\ pkt.count = n
        /\ \A i \in 0 .. n - 1 : pkt.inputs[i] = i
    BY <2>1, SentIs
  <2> HIDE DEF pkt
  <2>3. (n - 1) - NoTick = n /\ NoTick < n - 1 /\ NoTick + 1 = 0 /\ n - n = 0
    BY <1>1, <2>1
  <2>4. /\ r.firstTick = NoTick + 1 /\ r.count = (n - 1) - NoTick
        /\ \A i \in 0 .. (n - 1) - NoTick - 1 :
             r.inputs[i] = pkt.inputs[n - ((n - 1) - NoTick) + i]
    BY <1>1, <2>1, <2>2, <2>3, ParseTakes
  <2>5. ASSUME NEW i \in 0 .. n - 1
        PROVE  r.inputs[i] = i
    <3>1. 0 + i = i
      BY <2>1
    <3> HIDE DEF r
    <3> QED BY <2>2, <2>3, <2>4, <3>1
  <2> HIDE DEF r
  <2> QED BY <2>2, <2>3, <2>4, <2>5 DEF r, pkt
<1>3. HandlesEmptySendAndReceive
  <2>1. /\ Sends(Filled(0)) /\ Sent(Filled(0)).tickNum = 0 - 1
    BY <1>1, SentIs
  <2>2. ParsePaket(Sent(Filled(0)), NoTick) = NothingParsed(NoTick)
    BY <1>1, <2>1, ParseOld
  <2> QED BY <2>1, <2>2 DEF HandlesEmptySendAndReceive, NothingParsed
<1>4. HandlesSingleSendAndReceive
  <2>1. 1 \in 1 .. MaxTicks /\ 0 \in 0 .. 1 - 1
    BY <1>1
  <2> QED BY <1>2, <2>1 DEF HandlesSingleSendAndReceive
<1>5. HandlesSingleSendWithMultipleInputsAndSingleReceive
  <2>1. 2 \in 1 .. MaxTicks /\ 0 \in 0 .. 2 - 1 /\ 1 \in 0 .. 2 - 1
    BY <1>1
  <2> QED BY <1>2, <2>1 DEF HandlesSingleSendWithMultipleInputsAndSingleReceive
<1>6. HandlesSingleSendAndAlreadyAckedReceive
  <2>1. 1 \in 0 .. MaxTicks /\ 0 \in OptTick /\ 1 - 1 = 0
    BY <1>1 DEF OptTick
  <2>2. Sends(Filled(1)) /\ Sent(Filled(1)).tickNum = 0
    BY <2>1, SentIs
  <2>3. ParsePaket(Sent(Filled(1)), 0) = NothingParsed(0)
    BY <2>1, <2>2, ParseOld
  <2> QED BY <2>2, <2>3 DEF HandlesSingleSendAndAlreadyAckedReceive, NothingParsed
<1>7. HandlesMultipleSendAndSingleReceive
  BY <1>4, <1>5 DEF HandlesMultipleSendAndSingleReceive, HandlesSingleSendAndReceive
<1>8. HandlesMaxInputs
  <2>1. /\ MaxTicks \in 1 .. MaxTicks /\ 0 \in 0 .. MaxTicks - 1
        /\ MaxTicks - 1 \in 0 .. MaxTicks - 1
    BY <1>1
  <2> QED BY <1>2, <2>1 DEF HandlesMaxInputs
<1>9. SenderHandlesTooManyInputs
  <2> DEFINE n == MaxTicks + 1
             s == Filled(n)
  <2>1. s.tickNum = MaxTicks /\ s.lastTickAcked = NoTick
    <3>1. n \in 0 .. MaxTicks + 1 /\ n - 1 = MaxTicks
      BY <1>1
    <3> HIDE DEF n
    <3>2. PICK b \in Rings(n) : Filled(n) = Sync(NoTick, n - 1, b)
      BY <3>1, FilledIs
    <3> QED BY <3>1, <3>2 DEF Sync
  <2> HIDE DEF s
  <2>2. HasValue(s.tickNum) /\ SendCount(s, NoTick) = MaxTicks + 1
    BY <1>1, <2>1 DEF HasValue, SendCount, TickAfter
  <2>3. ~(MaxTicks + 1 <= MaxTicks)
    BY <1>1
  <2> QED BY <2>1, <2>2, <2>3 DEF SenderHandlesTooManyInputs, Sends, CanGetPaket, s
<1>10. ReceiverHandlesTooManyTicks
  <2>1. NoInputs(0).tickNum = 0 /\ NoInputs(0).count = 0 /\ 0 \in Nat
    BY DEF NoInputs
  <2>2. ParsePaket(NoInputs(0), NoTick) = NothingParsed(0)
    BY <1>1, <2>1, ParseShort
  <2> QED BY <2>2 DEF ReceiverHandlesTooManyTicks, NothingParsed
<1>11. HandlesAlreadyReceivedInputs
  <2> DEFINE pkt == Sent(Filled(2))
  <2>1. 2 \in 0 .. MaxTicks /\ 0 \in OptTick /\ 2 - 1 = 1 /\ 1 \in 0 .. 2 - 1
    BY <1>1 DEF OptTick
  <2>2. Sends(Filled(2)) /\ pkt.tickNum = 1 /\ pkt.count = 2 /\ pkt.inputs[1] = 1
    BY <2>1, SentIs
  <2> HIDE DEF pkt
  <2>3. /\ 1 \in Nat /\ 2 \in 0 .. MaxTicks /\ 0 < 1 /\ 1 - 0 <= 2 /\ 0 + 1 = 1 /\ 1 - 0 = 1
        /\ 0 \in 0 .. 1 - 0 - 1 /\ 2 - (1 - 0) + 0 = 1
    BY <1>1
  <2>4. LET r == ParsePaket(pkt, 0)
        IN  r.firstTick = 0 + 1 /\ r.count = 1 - 0 /\ r.inputs[0] = pkt.inputs[2 - (1 - 0) + 0]
    BY <2>1, <2>2, <2>3, ParseTakes
  <2> QED BY <2>2, <2>3, <2>4 DEF HandlesAlreadyReceivedInputs, pkt
<1> QED BY <1>3, <1>4, <1>5, <1>6, <1>7, <1>8, <1>9, <1>10, <1>11

-----------------------------------------------------------------------------
(* The repository's tests of the client and the server.                    *)

\* What Ack leaves.
LEMMA AckIs ==
  \A a, tick, buffer, seen : Ack(Sync(a, tick, buffer), seen) = Sync(seen, seen, buffer)
<1> SUFFICES ASSUME NEW a, NEW tick, NEW buffer, NEW seen
             PROVE  Ack(Sync(a, tick, buffer), seen) = Sync(seen, seen, buffer)
  OBVIOUS
<1> DEFINE s == Sync(a, tick, buffer)
           r == [s EXCEPT !.lastTickAcked = seen, !.tickNum = seen]
<1>1. DOMAIN s = {"lastTickAcked", "tickNum", "buffer"} /\ s.buffer = buffer
  BY DEF Sync
<1> HIDE DEF s
<1>2. /\ DOMAIN r = {"lastTickAcked", "tickNum", "buffer"} /\ r = [x \in DOMAIN r |-> r[x]]
      /\ r.lastTickAcked = seen /\ r.tickNum = seen /\ r.buffer = buffer
  BY <1>1
<1>3. Ack(s, seen) = r
  BY DEF Ack
<1> HIDE DEF r
<1>4. r = Sync(seen, seen, buffer)
  BY <1>2 DEF Sync
<1> QED BY <1>3, <1>4 DEF s

\* Nothing is sent to one who has the last tick.
LEMMA GetNothing ==
  \A a, buffer, tick : tick \in Nat => GetPaket(Sync(a, tick, buffer), tick) = NoInputs(tick)
<1> SUFFICES ASSUME NEW a, NEW buffer, NEW tick \in Nat
             PROVE  GetPaket(Sync(a, tick, buffer), tick) = NoInputs(tick)
  OBVIOUS
<1> DEFINE s == Sync(a, tick, buffer)
<1>1. s.tickNum = tick
  BY DEF Sync
<1> HIDE DEF s
<1>2. SendCount(s, tick) = 0
  <2>1. TickAfter(tick) = tick + 1 /\ tick + 1 > tick
    BY DEF TickAfter, HasValue, NoTick
  <2> QED BY <1>1, <2>1 DEF SendCount
<1>3. (IF HasValue(s.tickNum) THEN SendCount(s, tick) ELSE 0) = 0
  BY <1>2
<1>4. [i \in Slots |-> IF i < 0 THEN s.buffer[Slot(TickAfter(tick) + i)] ELSE NoInput]
        = EmptyVector
  BY InputSyncAssumption DEF EmptyVector, Slots
<1> QED BY <1>1, <1>3, <1>4 DEF GetPaket, NoInputs, s

\* The one input that follows the ack is sent.
LEMMA GetOne ==
  \A a, buffer, seen :
    seen \in OptTick
      => LET p == GetPaket(Sync(a, seen + 1, buffer), seen)
         IN  p.tickNum = seen + 1 /\ p.count = 1 /\ p.inputs[0] = buffer[Slot(seen + 1)]
<1> SUFFICES ASSUME NEW a, NEW buffer, NEW seen \in OptTick
             PROVE  LET p == GetPaket(Sync(a, seen + 1, buffer), seen)
                    IN  p.tickNum = seen + 1 /\ p.count = 1 /\ p.inputs[0] = buffer[Slot(seen + 1)]
  OBVIOUS
<1> DEFINE s == Sync(a, seen + 1, buffer)
<1>1. s.tickNum = seen + 1 /\ s.buffer = buffer
  BY DEF Sync
<1> HIDE DEF s
<1>2. TickAfter(seen) = seen + 1 /\ seen + 1 \in Nat
  BY TickAfterAck
<1>3. SendCount(s, seen) = 1 /\ HasValue(s.tickNum)
  BY <1>1, <1>2 DEF SendCount, HasValue, NoTick
<1>4. 0 \in Slots /\ (seen + 1) + 0 = seen + 1
  BY <1>2, InputSyncAssumption DEF Slots
<1>5. GetPaket(s, seen)
        = [tickNum |-> seen + 1, count |-> 1,
           inputs |-> [i \in Slots |-> IF i < 1 THEN buffer[Slot(seen + 1 + i)] ELSE NoInput]]
  BY <1>1, <1>2, <1>3 DEF GetPaket
<1> QED BY <1>4, <1>5 DEF s

\* Of a packet whose last tick is the one that follows the ack, the last input is taken.
LEMMA ParseLast ==
  \A t, n, pkt :
    t \in Nat /\ n \in 1 .. MaxTicks /\ pkt.tickNum = t /\ pkt.count = n
      => LET r == ParsePaket(pkt, t - 1)
         IN  /\ r.firstTick = t /\ r.count = 1 /\ r.lastTickAcked = t
             /\ r.inputs[0] = pkt.inputs[n - 1]
<1> SUFFICES ASSUME NEW t \in Nat, NEW n \in 1 .. MaxTicks, NEW pkt,
                    pkt.tickNum = t, pkt.count = n
             PROVE  LET r == ParsePaket(pkt, t - 1)
                    IN  /\ r.firstTick = t /\ r.count = 1 /\ r.lastTickAcked = t
                        /\ r.inputs[0] = pkt.inputs[n - 1]
  OBVIOUS
<1> DEFINE a == t - 1
<1>1. /\ a \in OptTick /\ a < t /\ t - a = 1 /\ n \in 0 .. MaxTicks /\ 1 <= n /\ a + 1 = t
      /\ 0 \in 0 .. 1 - 1 /\ n - 1 + 0 = n - 1
  BY InputSyncAssumption DEF OptTick, NoTick
<1> HIDE DEF a
<1>2. LET r == ParsePaket(pkt, a)
      IN  /\ r.firstTick = a + 1 /\ r.count = 1 /\ r.lastTickAcked = t
          /\ \A i \in 0 .. 1 - 1 : r.inputs[i] = pkt.inputs[n - 1 + i]
  BY <1>1, ParseTakes
<1> QED BY <1>1, <1>2 DEF a

\* The one input of the tick that follows the ack is taken.
LEMMA ParseOne ==
  \A t, x : t \in Nat
    => LET r == ParsePaket(OneInput(t, x), t - 1)
       IN  r.firstTick = t /\ r.count = 1 /\ r.lastTickAcked = t /\ r.inputs[0] = x
<1> SUFFICES ASSUME NEW t \in Nat, NEW x
             PROVE  LET r == ParsePaket(OneInput(t, x), t - 1)
                    IN  r.firstTick = t /\ r.count = 1 /\ r.lastTickAcked = t /\ r.inputs[0] = x
  OBVIOUS
<1> DEFINE pkt == OneInput(t, x)
<1>1. 0 \in Slots /\ 1 \in 1 .. MaxTicks /\ 1 - 1 = 0
  BY InputSyncAssumption DEF Slots
<1>2. pkt.tickNum = t /\ pkt.count = 1 /\ pkt.inputs[0] = x
  BY <1>1 DEF OneInput, EmptyVector
<1> HIDE DEF pkt
<1>3. LET r == ParsePaket(pkt, t - 1)
      IN  /\ r.firstTick = t /\ r.count = 1 /\ r.lastTickAcked = t
          /\ r.inputs[0] = pkt.inputs[1 - 1]
  BY <1>1, <1>2, ParseLast
<1> QED BY <1>1, <1>2, <1>3 DEF pkt

\* A request without a tick changes nothing.
LEMMA UpdateNothing ==
  \A seen, tick, buffer :
    seen \in OptTick
      => \E c : /\ UpdateFromPacket(Sync(seen, tick, buffer), NoInputs(NoTick)) = Sync(seen, tick, c)
                /\ \A k \in Slots : c[k] = buffer[k]
<1> SUFFICES ASSUME NEW seen \in OptTick, NEW tick, NEW buffer
             PROVE  \E c : /\ UpdateFromPacket(Sync(seen, tick, buffer), NoInputs(NoTick))
                                = Sync(seen, tick, c)
                           /\ \A k \in Slots : c[k] = buffer[k]
  OBVIOUS
<1> DEFINE s == Sync(seen, tick, buffer)
           c == [k \in Slots |-> buffer[k]]
<1>1. ParsePaket(NoInputs(NoTick), seen) = NothingParsed(seen)
  <2>1. NoInputs(NoTick).tickNum = NoTick /\ NoTick \in OptTick /\ NoTick <= seen
    BY DEF NoInputs, OptTick, NoTick
  <2> QED BY <2>1, ParseOld
<1>2. s.lastTickAcked = seen /\ [s EXCEPT !.lastTickAcked = seen] = s
  BY DEF Sync
<1>3. EnqueueAll(s, 0, 0, EmptyVector) = Sync(seen, tick, c)
  <2>1. \A k : {i \in 0 .. 0 - 1 : Slot(0 + i) = k} = {}
    OBVIOUS
  <2>2. EnqueueAll(s, 0, 0, EmptyVector)
          = [s EXCEPT !.tickNum = tick, !.buffer = c]
    BY <2>1 DEF EnqueueAll, Sync
  <2> QED BY <2>2 DEF Sync
<1>4. UpdateFromPacket(s, NoInputs(NoTick)) = Sync(seen, tick, c)
  <2> HIDE DEF s
  <2> QED BY <1>1, <1>2, <1>3 DEF UpdateFromPacket, NothingParsed
<1>5. \A k \in Slots : c[k] = buffer[k]
  OBVIOUS
<1> HIDE DEF c
<1> QED BY <1>4, <1>5

\* A request up to the tick that follows the ack is stored.
LEMMA UpdateLast ==
  \A t, tick, buffer, n, pkt :
    t \in Nat /\ n \in 1 .. MaxTicks /\ pkt.tickNum = t /\ pkt.count = n
      => \E c : /\ UpdateFromPacket(Sync(t - 1, tick, buffer), pkt) = Sync(t, t, c)
                /\ c[Slot(t)] = pkt.inputs[n - 1]
<1> SUFFICES ASSUME NEW t \in Nat, NEW tick, NEW buffer, NEW n \in 1 .. MaxTicks, NEW pkt,
                    pkt.tickNum = t, pkt.count = n
             PROVE  \E c : /\ UpdateFromPacket(Sync(t - 1, tick, buffer), pkt) = Sync(t, t, c)
                           /\ c[Slot(t)] = pkt.inputs[n - 1]
  OBVIOUS
<1> DEFINE s == Sync(t - 1, tick, buffer)
           u == Sync(t, tick, buffer)
           r == ParsePaket(pkt, t - 1)
           inputs == r.inputs
           x == pkt.inputs[n - 1]
           In(k) == {i \in 0 .. 1 - 1 : Slot(t + i) = k}
           c == [k \in Slots |-> IF In(k) = {} THEN buffer[k] ELSE inputs[CHOOSE i \in In(k) : TRUE]]
<1>1. r.firstTick = t /\ r.count = 1 /\ r.lastTickAcked = t /\ inputs[0] = x
  BY ParseLast
<1> HIDE DEF r, x
<1>2. s.lastTickAcked = t - 1 /\ [s EXCEPT !.lastTickAcked = t] = u
  BY DEF Sync
<1>3. UpdateFromPacket(s, pkt) = EnqueueAll(u, t, 1, inputs)
  <2> HIDE DEF s, u
  <2> QED BY <1>1, <1>2 DEF UpdateFromPacket, r
<1> HIDE DEF inputs
<1>4. EnqueueAll(u, t, 1, inputs) = Sync(t, t, c)
  <2>1. /\ u.buffer = buffer /\ DOMAIN u = {"lastTickAcked", "tickNum", "buffer"}
        /\ (IF 1 > 0 THEN t + 1 - 1 ELSE u.tickNum) = t
    BY DEF Sync
  <2> HIDE DEF u
  <2> HIDE DEF c
  <2> DEFINE d == [k \in Slots |-> IF In(k) = {} THEN u.buffer[k] ELSE inputs[CHOOSE i \in In(k) : TRUE]]
  <2>2. EnqueueAll(u, t, 1, inputs)
          = [u EXCEPT !.tickNum = IF 1 > 0 THEN t + 1 - 1 ELSE u.tickNum, !.buffer = d]
    BY DEF EnqueueAll
  <2>4. c = d
    BY <2>1 DEF c
  <2> HIDE DEF d
  <2>3. EnqueueAll(u, t, 1, inputs) = [u EXCEPT !.tickNum = t, !.buffer = c]
    BY <2>1, <2>2, <2>4
  <2> QED BY <2>3 DEF u, Sync
<1>5. c[Slot(t)] = x
  <2>1. Slot(t) \in Slots /\ t + 0 = t
    BY SlotType
  <2>2. {i \in 0 .. 1 - 1 : Slot(t + i) = Slot(t)} = {0}
    BY <2>1
  <2>3. (CHOOSE i \in {0} : TRUE) = 0
    OBVIOUS
  <2> QED BY <1>1, <2>1, <2>2, <2>3
<1> HIDE DEF c
<1> QED BY <1>3, <1>4, <1>5 DEF x, s

\* A request with the tick that follows the ack is stored.
LEMMA UpdateOne ==
  \A t, seen, tick, buffer, x :
    t \in Nat /\ seen = t - 1
      => \E c : /\ UpdateFromPacket(Sync(seen, tick, buffer), OneInput(t, x)) = Sync(t, t, c)
                /\ c[Slot(t)] = x
<1> SUFFICES ASSUME NEW t \in Nat, NEW tick, NEW buffer, NEW x
             PROVE  \E c : /\ UpdateFromPacket(Sync(t - 1, tick, buffer), OneInput(t, x))
                                = Sync(t, t, c)
                           /\ c[Slot(t)] = x
  OBVIOUS
<1> DEFINE pkt == OneInput(t, x)
<1>1. 0 \in Slots /\ 1 \in 1 .. MaxTicks /\ 1 - 1 = 0
  BY InputSyncAssumption DEF Slots
<1>2. pkt.tickNum = t /\ pkt.count = 1 /\ pkt.inputs[0] = x
  BY <1>1 DEF OneInput, EmptyVector
<1> HIDE DEF pkt
<1>3. \E c : /\ UpdateFromPacket(Sync(t - 1, tick, buffer), pkt) = Sync(t, t, c)
             /\ c[Slot(t)] = pkt.inputs[1 - 1]
  BY <1>1, <1>2, UpdateLast
<1> QED BY <1>1, <1>2, <1>3 DEF pkt

\* What a tick makes of the two windows of a client.
LEMMA PlaysIs ==
  \A u, v, updates, tick, input :
    Plays([windows |-> Reply(u, v), updates |-> updates], tick, input)
      = [windows |-> Reply(Enqueue(u, tick, input), v), updates |-> updates]
<1> SUFFICES ASSUME NEW u, NEW v, NEW updates, NEW tick, NEW input
             PROVE  Plays([windows |-> Reply(u, v), updates |-> updates], tick, input)
                      = [windows |-> Reply(Enqueue(u, tick, input), v), updates |-> updates]
  OBVIOUS
<1> DEFINE w == Reply(u, v)
           c == [windows |-> w, updates |-> updates]
           e == Enqueue(u, tick, input)
<1>1. w[0] = u /\ [w EXCEPT ![0] = e] = Reply(e, v)
  BY DEF Reply
<1> HIDE DEF w, e
<1>2. [c EXCEPT !.windows[0] = e] = [windows |-> [w EXCEPT ![0] = e], updates |-> updates]
  OBVIOUS
<1>3. Plays(c, tick, input) = [c EXCEPT !.windows[0] = e]
  BY <1>1 DEF Plays, e
<1> QED BY <1>1, <1>2, <1>3 DEF w, e

\* What a reply makes of them, and the updates that are taken from it.
LEMMA TakesIs ==
  \A u, v, updates, p, q, t :
    Takes([windows |-> Reply(u, v), updates |-> updates], Reply(p, q), t)
      = [windows |-> Reply(Ack(u, p.tickNum), Ack(v, q.tickNum)),
         updates |-> {r \in {ParsePaket(p, t), ParsePaket(q, v.lastTickAcked)} : r.count > 0}]
<1> SUFFICES ASSUME NEW u, NEW v, NEW updates, NEW p, NEW q, NEW t
             PROVE  Takes([windows |-> Reply(u, v), updates |-> updates], Reply(p, q), t)
                      = [windows |-> Reply(Ack(u, p.tickNum), Ack(v, q.tickNum)),
                         updates |-> {r \in {ParsePaket(p, t), ParsePaket(q, v.lastTickAcked)} :
                                        r.count > 0}]
  OBVIOUS
<1> DEFINE w == Reply(u, v)
           z == Reply(p, q)
<1>1. w[0] = u /\ w[1] = v /\ z[0] = p /\ z[1] = q
  BY DEF Reply
<1> HIDE DEF w, z
<1>2. [x \in {0, 1} |-> Ack(w[x], z[x].tickNum)] = Reply(Ack(u, p.tickNum), Ack(v, q.tickNum))
  BY <1>1 DEF Reply
<1>3. [windows |-> w, updates |-> updates].windows = w
  OBVIOUS
<1> QED BY <1>1, <1>2, <1>3 DEF Takes, w, z

\* The tests of the client hold.
LEMMA ClientTestsHold ==
  /\ CreatesHandlesAck
  /\ HandlesOtherPlayerInputs
  /\ HandlesOtherPlayerInputsAcked
  /\ HandlesMoreOtherPlayerInputsAfterAck
<1> DEFINE new == Sync(NoTick, NoTick, EmptyVector)
           b0 == [EmptyVector EXCEPT ![Slot(0)] = 0]
           b1 == [b0 EXCEPT ![Slot(1)] = 1]
           start == [windows |-> Reply(Sync(NoTick, 0, b0), new), updates |-> {}]
           other == ParsePaket(OneInput(0, 2), NoTick)
           after == [windows |-> Reply(Sync(0, 0, b0), Sync(0, 0, EmptyVector)),
                     updates |-> {other}]
<1>1. /\ 0 \in Nat /\ 1 \in Nat /\ 0 \in OptTick /\ NoTick \in OptTick
      /\ NoTick = 0 - 1 /\ 0 + 1 = 1 /\ 1 - 1 = 0 /\ 0 <= 0 /\ 0 < 1 /\ NoTick # 0
  BY DEF OptTick, NoTick
<1>2. \A t : NoInputs(t).tickNum = t /\ NoInputs(t).count = 0
  BY DEF NoInputs
<1>3. \A t, x : OneInput(t, x).tickNum = t
  BY DEF OneInput
<1>4. \A a, t, b : Sync(a, t, b).lastTickAcked = a
  BY DEF Sync
<1>5. \A t : NothingParsed(t).count = 0
  BY DEF NothingParsed
<1>6. \A u, v : Reply(u, v)[0] = u /\ Reply(u, v)[1] = v
  BY DEF Reply
<1>7. Client = [windows |-> Reply(new, new), updates |-> {}]
  BY DEF Client, Reply, NewSynchronizer, Sync, EmptyVector
<1>8. b1[Slot(1)] = 1
  BY <1>1, SlotType DEF EmptyVector
<1>9. other.firstTick = 0 /\ other.count = 1 /\ other.inputs[0] = 2
  BY <1>1, ParseOne
<1> HIDE DEF other, b0, b1
<1>10. Plays(Client, 0, 0) = start
  BY <1>7, PlaysIs, EnqueueIs DEF b0
<1>11. ParsePaket(NoInputs(0), 0) = NothingParsed(0)
  BY <1>1, <1>2, ParseOld
<1> HIDE DEF new
<1>12. OtherPlayersInputs = after
  <2>1. OtherPlayersInputs
          = [windows |-> Reply(Ack(Sync(NoTick, 0, b0), 0), Ack(new, 0)),
             updates |-> {r \in {NothingParsed(0), other} : r.count > 0}]
    <3>1. OtherPlayersInputs
            = Takes([windows |-> Reply(Sync(NoTick, 0, b0), new), updates |-> {}],
                    Reply(NoInputs(0), OneInput(0, 2)), 0)
      BY <1>10 DEF OtherPlayersInputs
    <3>2. OtherPlayersInputs
            = [windows |-> Reply(Ack(Sync(NoTick, 0, b0), NoInputs(0).tickNum),
                                 Ack(new, OneInput(0, 2).tickNum)),
               updates |-> {r \in {ParsePaket(NoInputs(0), 0),
                                   ParsePaket(OneInput(0, 2), new.lastTickAcked)} :
                              r.count > 0}]
      BY <3>1, TakesIs
    <3>3. new.lastTickAcked = NoTick
      BY <1>4 DEF new
    <3> QED BY <1>2, <1>3, <1>11, <3>2, <3>3 DEF other
  <2>2. {r \in {NothingParsed(0), other} : r.count > 0} = {other}
    BY <1>5, <1>9
  <2> QED BY <2>1, <2>2, AckIs DEF new
<1> HIDE DEF start
<1>13. CreatesHandlesAck
  <2> DEFINE acked == Takes(start, Reply(NoInputs(0), NoInputs(NoTick)), 0)
             w == Plays(acked, 1, 1).windows[0]
  <2>1. PICK v, updates : acked = [windows |-> Reply(Sync(0, 0, b0), v), updates |-> updates]
    <3> DEFINE v == Ack(new, NoInputs(NoTick).tickNum)
               updates == {r \in {ParsePaket(NoInputs(0), 0),
                                  ParsePaket(NoInputs(NoTick), new.lastTickAcked)} : r.count > 0}
    <3>1. acked = [windows |-> Reply(Ack(Sync(NoTick, 0, b0), NoInputs(0).tickNum), v),
                   updates |-> updates]
      BY TakesIs DEF start
    <3> HIDE DEF v, updates, acked
    <3>2. Ack(Sync(NoTick, 0, b0), NoInputs(0).tickNum) = Sync(0, 0, b0)
      BY <1>2, AckIs
    <3> QED BY <3>1, <3>2
  <2> HIDE DEF acked
  <2>2. w = Sync(0, 1, b1)
    <3>1. Plays(acked, 1, 1)
            = [windows |-> Reply(Sync(0, 1, b1), v), updates |-> updates]
      BY <2>1, PlaysIs, EnqueueIs DEF b1
    <3> QED BY <1>6, <3>1
  <2> HIDE DEF w
  <2>3. LET sent == Sent(w)
        IN  sent.tickNum = 1 /\ sent.count = 1 /\ sent.inputs[0] = 1
    <3>1. Sent(w) = GetPaket(Sync(0, 0 + 1, b1), 0)
      BY <1>1, <1>4, <2>2 DEF Sent
    <3>2. LET sent == GetPaket(Sync(0, 0 + 1, b1), 0)
          IN  sent.tickNum = 0 + 1 /\ sent.count = 1 /\ sent.inputs[0] = b1[Slot(0 + 1)]
      BY <1>1, GetOne
    <3> QED BY <1>1, <1>8, <3>1, <3>2
  <2> QED BY <1>10, <2>3 DEF CreatesHandlesAck, w, acked
<1>14. HandlesOtherPlayerInputs
  BY <1>9, <1>12 DEF HandlesOtherPlayerInputs
<1>15. HandlesOtherPlayerInputsAcked
  <2>1. ParsePaket(OneInput(0, 2), 0) = NothingParsed(0)
    BY <1>1, <1>3, ParseOld
  <2>2. Takes(OtherPlayersInputs, Reply(NoInputs(0), OneInput(0, 2)), 0).updates
          = {r \in {NothingParsed(0), NothingParsed(0)} : r.count > 0}
    <3> DEFINE taken == Takes(after, Reply(NoInputs(0), OneInput(0, 2)), 0)
               v == Sync(0, 0, EmptyVector)
    <3>1. taken.updates
            = {r \in {ParsePaket(NoInputs(0), 0), ParsePaket(OneInput(0, 2), v.lastTickAcked)} :
                 r.count > 0}
      <4>1. taken
              = [windows |-> Reply(Ack(Sync(0, 0, b0), NoInputs(0).tickNum),
                                   Ack(v, OneInput(0, 2).tickNum)),
                 updates |-> {r \in {ParsePaket(NoInputs(0), 0),
                                     ParsePaket(OneInput(0, 2), v.lastTickAcked)} :
                                r.count > 0}]
        BY TakesIs
      <4> HIDE DEF v, taken
      <4> QED BY <4>1
    <3>2. v.lastTickAcked = 0
      BY <1>4
    <3> HIDE DEF v, taken
    <3> QED BY <1>11, <1>12, <2>1, <3>1, <3>2 DEF taken
  <2> QED BY <1>5, <2>2 DEF HandlesOtherPlayerInputsAcked
<1>16. HandlesMoreOtherPlayerInputsAfterAck
  <2> DEFINE u == ParsePaket(OneInput(1, 3), 0)
             more == Takes(OtherPlayersInputs, Reply(NoInputs(1), OneInput(1, 3)), 0)
             next == Plays(more, 1, 1)
  <2>1. u.firstTick = 1 /\ u.count = 1 /\ u.inputs[0] = 3
    BY <1>1, ParseOne
  <2>2. ParsePaket(NoInputs(1), 0) = NothingParsed(1)
    BY <1>1, <1>2, ParseShort
  <2> HIDE DEF u
  <2>3. more = [windows |-> Reply(Sync(1, 1, b0), Sync(1, 1, EmptyVector)), updates |-> {u}]
    <3>1. more = [windows |-> Reply(Ack(Sync(0, 0, b0), 1), Ack(Sync(0, 0, EmptyVector), 1)),
                  updates |-> {r \in {NothingParsed(1), u} : r.count > 0}]
      BY <1>2, <1>3, <1>4, <1>12, <2>2, TakesIs DEF u
    <3>2. {r \in {NothingParsed(1), u} : r.count > 0} = {u}
      BY <1>5, <2>1
    <3> HIDE DEF more
    <3> QED BY <3>1, <3>2, AckIs
  <2> HIDE DEF more
  <2>4. next.windows = Reply(Sync(1, 1, b1), Sync(1, 1, EmptyVector))
    <3>1. next = [windows |-> Reply(Enqueue(Sync(1, 1, b0), 1, 1), Sync(1, 1, EmptyVector)),
                  updates |-> {u}]
      BY <2>3, PlaysIs
    <3>2. Enqueue(Sync(1, 1, b0), 1, 1) = Sync(1, 1, b1)
      BY EnqueueIs DEF b1
    <3> HIDE DEF next
    <3> QED BY <3>1, <3>2
  <2> HIDE DEF next
  <2>5. \A q \in {0, 1} : Sent(next.windows[q]) = NoInputs(1)
    <3>1. \A b : Sent(Sync(1, 1, b)) = NoInputs(1)
      BY <1>1, <1>4, GetNothing DEF Sent
    <3> QED BY <1>6, <2>4, <3>1
  <2>6. \E x \in more.updates : more.updates = {x} /\ x.firstTick = 1 /\ x.inputs[0] = 3
    BY <2>1, <2>3
  <2> QED BY <2>5, <2>6 DEF HandlesMoreOtherPlayerInputsAfterAck, next, more
<1> QED BY <1>13, <1>14, <1>15, <1>16

\* The first tick of all is stored.
LEMMA UpdateFirst ==
  \A tick, buffer, x :
    \E c : /\ UpdateFromPacket(Sync(NoTick, tick, buffer), OneInput(0, x)) = Sync(0, 0, c)
           /\ c[Slot(0)] = x
<1>1. 0 \in Nat /\ NoTick = 0 - 1
  BY DEF NoTick
<1> QED BY <1>1, UpdateOne

\* So is the tick after the first.
LEMMA UpdateSecond ==
  \A tick, buffer, x :
    \E c : /\ UpdateFromPacket(Sync(0, tick, buffer), OneInput(1, x)) = Sync(1, 1, c)
           /\ c[Slot(1)] = x
<1>1. 1 \in Nat /\ 0 = 1 - 1
  OBVIOUS
<1> QED BY <1>1, UpdateOne

\* The tests of the server hold.
LEMMA ServerTestsHold ==
  ASSUME MaxTicks >= 2
  PROVE  /\ ServerHandlesFirstPacket
         /\ ServerHandlesFirstTwoPackets
         /\ ServerHandlesListedInputs
         /\ ServerHandlesPacketsFromTwoPlayers
<1> DEFINE new == Sync(NoTick, NoTick, EmptyVector)
           one == After(NewServer, FirstRequest)
           two == After(one, SecondRequest)
           both == After(one, OtherRequest)
<1>1. /\ 0 \in Nat /\ 1 \in Nat /\ NoTick \in OptTick /\ 0 \in OptTick
      /\ NoTick = 0 - 1 /\ 0 = 1 - 1 /\ NoTick + 1 = 0 /\ Slot(0) \in Slots
  BY SlotType DEF OptTick, NoTick
<1>2. \A u, v : Reply(u, v)[0] = u /\ Reply(u, v)[1] = v
  BY DEF Reply
<1>3. /\ NoInputs(NoTick).tickNum = NoTick
      /\ \A t, x : OneInput(t, x).tickNum = t
  BY DEF NoInputs, OneInput
<1>4. \A w, q :
        /\ After(w, q)[0] = UpdateFromPacket(w[0], q[0])
        /\ After(w, q)[1] = UpdateFromPacket(w[1], q[1])
  BY DEF After
<1>5. \A w, q :
        /\ Answer(w, q)[0] = GetPaket(After(w, q)[0], q[0].tickNum)
        /\ Answer(w, q)[1] = GetPaket(After(w, q)[1], q[1].tickNum)
  BY DEF Answer
<1>6. NewServer[0] = new /\ NewServer[1] = new
  BY DEF NewServer, NewSynchronizer, Sync, EmptyVector
<1>7. \E b : one[0] = Sync(0, 0, b) /\ b[Slot(0)] = 1
  <2>1. one[0] = UpdateFromPacket(Sync(NoTick, NoTick, EmptyVector), OneInput(0, 1))
    BY <1>2, <1>4, <1>6 DEF FirstRequest
  <2> HIDE DEF one
  <2>2. \E b : /\ UpdateFromPacket(Sync(NoTick, NoTick, EmptyVector), OneInput(0, 1))
                    = Sync(0, 0, b)
               /\ b[Slot(0)] = 1
    BY <1>1, UpdateOne
  <2> QED BY <2>1, <2>2
<1>8. \E b : one[1] = Sync(NoTick, NoTick, b)
  <2>1. one[1] = UpdateFromPacket(new, NoInputs(NoTick))
    BY <1>2, <1>4, <1>6 DEF FirstRequest
  <2> HIDE DEF one
  <2> QED BY <1>1, <2>1, UpdateNothing
<1> HIDE DEF one, new
<1>9. ServerHandlesFirstPacket
  <2>1. Answer(NewServer, FirstRequest)[0] = GetPaket(one[0], 0)
    BY <1>2, <1>3, <1>5 DEF FirstRequest, one
  <2>2. GetPaket(one[0], 0) = NoInputs(0)
    BY <1>1, <1>7, GetNothing
  <2> QED BY <2>1, <2>2 DEF ServerHandlesFirstPacket
<1>10. ServerHandlesFirstTwoPackets
  <2>1. PICK b : one[0] = Sync(0, 0, b)
    BY <1>7
  <2>2. two[0] = UpdateFromPacket(Sync(0, 0, b), OneInput(1, 1))
    BY <1>2, <1>4, <2>1 DEF SecondRequest
  <2>3. \E c : two[0] = Sync(1, 1, c)
    <3>1. \E c : /\ UpdateFromPacket(Sync(0, 0, b), OneInput(1, 1)) = Sync(1, 1, c)
                 /\ c[Slot(1)] = 1
      BY UpdateSecond
    <3> HIDE DEF two
    <3> QED BY <2>2, <3>1
  <2> HIDE DEF two
  <2>4. GetPaket(two[0], 1) = NoInputs(1)
    BY <1>1, <2>3, GetNothing
  <2>5. Answer(one, SecondRequest)[0] = GetPaket(two[0], 1)
    BY <1>2, <1>3, <1>5 DEF SecondRequest, two
  <2> QED BY <1>9, <2>4, <2>5 DEF ServerHandlesFirstTwoPackets, one
<1>11. ServerHandlesPacketsFromTwoPlayers
  <2> DEFINE answer == Answer(one, OtherRequest)
  <2>1. PICK b : one[0] = Sync(0, 0, b) /\ b[Slot(0)] = 1
    BY <1>7
  <2>2. both[0] = UpdateFromPacket(Sync(0, 0, b), NoInputs(NoTick))
    BY <1>2, <1>4, <2>1 DEF OtherRequest
  <2>3. PICK c : both[0] = Sync(0, 0, c) /\ c[Slot(0)] = 1
    BY <1>1, <2>1, <2>2, UpdateNothing
  <2>4. PICK d : one[1] = Sync(NoTick, NoTick, d)
    BY <1>8
  <2>5. both[1] = UpdateFromPacket(Sync(NoTick, NoTick, d), OneInput(0, 2))
    BY <1>2, <1>4, <2>4 DEF OtherRequest
  <2>6. \E e : both[1] = Sync(0, 0, e)
    <3>1. \E e : /\ UpdateFromPacket(Sync(NoTick, NoTick, d), OneInput(0, 2)) = Sync(0, 0, e)
                 /\ e[Slot(0)] = 2
      BY UpdateFirst
    <3> HIDE DEF both
    <3> QED BY <2>5, <3>1
  <2> HIDE DEF both
  <2>7. answer[0] = GetPaket(Sync(0, NoTick + 1, c), NoTick) /\ answer[1] = GetPaket(both[1], 0)
    BY <1>1, <1>2, <1>3, <1>5, <2>3 DEF OtherRequest, both
  <2> HIDE DEF answer
  <2>8. /\ answer[0].tickNum = NoTick + 1 /\ answer[0].count = 1
        /\ answer[0].inputs[0] = c[Slot(NoTick + 1)]
    BY <1>1, <2>7, GetOne
  <2>9. answer[1] = NoInputs(0)
    BY <1>1, <2>6, <2>7, GetNothing
  <2> QED BY <1>1, <2>3, <2>8, <2>9 DEF ServerHandlesPacketsFromTwoPlayers, answer, one
<1>12. ServerHandlesListedInputs
  <2> DEFINE listed == After(one, ListedRequest)
             pkt == TwoInputs(1, 1, 2)
  <2>1. PICK b : one[0] = Sync(0, 0, b)
    BY <1>7
  <2>2. 0 \in Slots /\ 1 \in Slots /\ 2 \in 1 .. MaxTicks /\ 2 - 1 = 1
    BY InputSyncAssumption DEF Slots
  <2>3. pkt.tickNum = 1 /\ pkt.count = 2 /\ pkt.inputs[1] = 2
    BY <2>2 DEF TwoInputs, EmptyVector
  <2>4. listed[0] = UpdateFromPacket(Sync(1 - 1, 0, b), pkt)
    BY <1>1, <1>2, <1>4, <2>1 DEF ListedRequest
  <2>5. Answer(one, ListedRequest)[0] = GetPaket(listed[0], 1)
    BY <1>2, <1>5, <2>3 DEF ListedRequest
  <2> HIDE DEF listed, pkt
  <2>6. \E c : /\ UpdateFromPacket(Sync(1 - 1, 0, b), pkt) = Sync(1, 1, c)
               /\ c[Slot(1)] = pkt.inputs[2 - 1]
    BY <1>1, <2>2, <2>3, UpdateLast
  <2>7. PICK c : listed[0] = Sync(1, 1, c) /\ c[Slot(1)] = 2
    BY <2>2, <2>3, <2>4, <2>6
  <2>8. GetPaket(listed[0], 1) = NoInputs(1)
    BY <1>1, <2>7, GetNothing
  <2>9. listed[0].buffer = c
    BY <2>7 DEF Sync
  <2> QED BY <2>5, <2>7, <2>8, <2>9 DEF ServerHandlesListedInputs, listed, one
<1> QED BY <1>9, <1>10, <1>11, <1>12

\* TestsAgree of the InputWindow run: with every ring that has room for two inputs, as the
\* tests assume, among them the program's of 256.
THEOREM TestsHold == ASSUME MaxTicks >= 2 PROVE Spec => []TestsAgree
<1>1. UnitTestsPass
  BY SynchronizerTestsHold, ClientTestsHold, ServerTestsHold DEF UnitTestsPass
<1>2. TestsAgree
  BY <1>1, FrameTestsHold DEF TestsAgree
<1> QED BY <1>2, PTL DEF Spec
=============================================================================
