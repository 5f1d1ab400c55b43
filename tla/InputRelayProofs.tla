--------------------------- MODULE InputRelayProofs ---------------------------
(***************************************************************************)
(* Theorems about InputRelay, for any number of players, any ring, queue   *)
(* and socket size, any game length, and with losses, repetitions and      *)
(* requests in any order: first what holds whether or not replies overtake *)
(* each other, then what needs them to keep their order.                   *)
(***************************************************************************)
EXTENDS InputRelay, InputSyncProofs, SequenceTheorems

\* An abbreviation of two variables.
USE DEF numberVars

\* The type of the state, with the bound on ticks that it depends on: the
\* inputs a client stores are those of ticks that exist.
TypeInv == TypeOK /\ TickInv

-----------------------------------------------------------------------------
(* Types.                                                                  *)

\* The user does something in every tick of the game.
LEMMA UserInputType ==
  ASSUME NEW p \in Players, NEW t \in Ticks
  PROVE  UserInput[p][t] \in Inputs
BY InputRelayAssumption

\* A datagram without any input is a datagram.
LEMMA NoDatagramType == NoDatagram \in Datagram
<1>1. CanGetPaket(NewSynchronizer, NoTick)
  BY DEF CanGetPaket, NewSynchronizer, HasValue
<1>2. GetPaket(NewSynchronizer, NoTick) \in PlayerPacket
  BY <1>1, NewSynchronizerType, GetPaketType DEF OptTick
<1> QED BY <1>2 DEF NoDatagram, Datagram

\* What a client writes from an update are pairs of a tick and an input.
LEMMA WrittenInputsType ==
  ASSUME NEW u \in TickInput
  PROVE  WrittenInputs(u) \subseteq Nat \X (Inputs \cup {NoInput})
<1> SUFFICES ASSUME NEW i \in 0 .. u.count - 1
             PROVE  <<u.tickNum + i, u.inputs[i]>> \in Nat \X (Inputs \cup {NoInput})
  BY DEF WrittenInputs
<1>1. i \in Slots /\ u.tickNum + i \in Nat
  BY InputSyncAssumption DEF TickInput, Slots
<1>2. u.inputs[i] \in Inputs \cup {NoInput}
  BY <1>1 DEF TickInput, Vector
<1> QED BY <1>1, <1>2

\* The initial state has its type.
LEMMA InitTypeInv == Init => TypeInv
<1> SUFFICES ASSUME Init PROVE TypeInv
  OBVIOUS
<1>1. TypeOK
  <2>1. playerNumber \in [Players -> Nat] /\ rootless \in [Players -> SUBSET Nat]
    BY InputRelayAssumption DEF Init, Players
  <2> QED BY <2>1, NewSynchronizerType, NoDatagramType, InputSyncAssumption,
             InputRelayAssumption
          DEF Init, TypeOK, OptTick, NoTick
<1>2. TickInv
  BY InputSyncAssumption, InputRelayAssumption DEF Init, TickInv, NoTick
<1> QED BY <1>1, <1>2 DEF TypeInv

\* The main thread keeps the types.
LEMMA DequeueInputsTypeInv ==
  ASSUME TypeInv, NEW p \in Players, DequeueInputs(p)
  PROVE  TypeInv'
<1> DEFINE update == Head(inputQueue[p])
           q      == update.playerNum
<1>1. inputQueue[p] \in Seq(TickInput) /\ inputQueue[p] # <<>>
  BY DEF TypeInv, TypeOK, DequeueInputs
<1>2. update \in TickInput /\ Tail(inputQueue[p]) \in Seq(TickInput)
  BY <1>1
<1>3. q \in Players /\ WrittenInputs(update) \subseteq Nat \X (Inputs \cup {NoInput})
  BY <1>2, WrittenInputsType DEF TickInput
<1>4. inputQueue' \in [Players -> Seq(TickInput)]
  BY <1>2 DEF TypeInv, TypeOK, DequeueInputs
<1>5. received' \in [Players -> [Players -> SUBSET (Nat \X (Inputs \cup {NoInput}))]]
      /\ fatal' \subseteq Players
  <2> HIDE DEF update
  <2>1. CASE q = playerNumber[p]
    BY <2>1 DEF TypeInv, TypeOK, DequeueInputs, update
  <2>2. CASE q # playerNumber[p]
    <3>1. received' = [received EXCEPT ![p][q] = @ \cup WrittenInputs(update)] /\ fatal' = fatal
      BY <2>2 DEF DequeueInputs, update
    <3> QED BY <1>3, <3>1 DEF TypeInv, TypeOK
  <2> QED BY <2>1, <2>2
<1> QED BY <1>4, <1>5
        DEF TypeInv, TypeOK, TickInv, DequeueInputs, netVars

LEMMA EnqueueTickTypeInv ==
  ASSUME TypeInv, NEW p \in Players, EnqueueTick(p)
  PROVE  TypeInv'
<1>1. /\ tickNum[p] \in Nat /\ frame[p] \in 0 .. MaxTicks /\ frame[p] < MaxTicks
      /\ tickNum[p] - frame[p] <= GameDuration
  <2>1. CASE frame[p] = 0
    BY <2>1, InputRelayAssumption, InputSyncAssumption DEF TypeInv, TypeOK, EnqueueTick
  <2>2. CASE frame[p] > 0
    BY <2>2 DEF TypeInv, TypeOK, TickInv, EnqueueTick
  <2> QED BY <2>1, <2>2, InputSyncAssumption DEF TypeInv, TypeOK, EnqueueTick
<1>2. tickNum[p] \in Ticks /\ tickNum[p] + 1 <= GameDuration + MaxTicks
  BY <1>1, InputRelayAssumption, InputSyncAssumption DEF Ticks
<1> DEFINE n == playerNumber[p]
<1>3. Enqueue(sync[p][n], tickNum[p], UserInput[p][tickNum[p]]) \in Synchronizer
  BY <1>1, <1>2, UserInputType, EnqueueType DEF TypeInv, TypeOK, EnqueueTick
<1>4. sync' \in [Players -> [Players -> Synchronizer]]
  BY <1>3 DEF TypeInv, TypeOK, EnqueueTick
<1>5. /\ tickNum' = [tickNum EXCEPT ![p] = @ + 1]
      /\ frame' = [frame EXCEPT ![p] = @ + 1]
      /\ netTickNum' = [netTickNum EXCEPT ![p] = tickNum[p]]
  BY DEF EnqueueTick
<1>6. /\ tickNum' \in [Players -> Nat]
      /\ frame' \in [Players -> 0 .. MaxTicks]
      /\ netTickNum' \in [Players -> OptTick]
  BY <1>1, <1>5, InputSyncAssumption DEF TypeInv, TypeOK, OptTick
<1>7. TickInv'
  <2> SUFFICES ASSUME NEW q \in Players
               PROVE  /\ frame'[q] > 0 => tickNum'[q] - frame'[q] <= GameDuration
                      /\ tickNum'[q] <= GameDuration + MaxTicks
                      /\ netTickNum'[q] = tickNum'[q] - 1
    BY DEF TickInv
  <2>1. CASE q = p
    <3>1. /\ frame'[q] = frame[p] + 1 /\ tickNum'[q] = tickNum[p] + 1
          /\ netTickNum'[q] = tickNum[p]
          /\ frame[p] \in Nat /\ tickNum[p] \in Nat
      BY <1>5, <2>1 DEF TypeInv, TypeOK
    <3> QED BY <1>1, <1>2, <3>1, InputRelayAssumption, InputSyncAssumption
  <2>2. CASE q # p
    <3>1. /\ frame'[q] = frame[q] /\ tickNum'[q] = tickNum[q]
          /\ netTickNum'[q] = netTickNum[q]
      BY <1>5, <2>2 DEF TypeInv, TypeOK
    <3> QED BY <3>1 DEF TypeInv, TickInv
  <2> QED BY <2>1, <2>2
<1>8. UNCHANGED <<inputQueue, received, reply, nextPlayer, fatal, numberVars, server, toServer,
                  toClient>>
  BY DEF EnqueueTick, netVars
<1> QED BY <1>4, <1>6, <1>7, <1>8 DEF TypeInv, TypeOK

LEMMA SendTicksTypeInv ==
  ASSUME TypeInv, NEW p \in Players, SendTicks(p)
  PROVE  TypeInv'
<1> DEFINE Fits == \A q \in Players : CanGetPaket(sync[p][q], sync[p][q].lastTickAcked)
           m    == [q \in Players |-> GetPaket(sync[p][q], sync[p][q].lastTickAcked)]
<1>1. \A q \in Players : sync[p][q] \in Synchronizer /\ sync[p][q].lastTickAcked \in OptTick
  BY DEF TypeInv, TypeOK, Synchronizer
<1>2. Fits => m \in Datagram
  BY <1>1, GetPaketType DEF Datagram
<1>3. toServer' = toServer \/ (Fits /\ toServer' = [toServer EXCEPT ![p] = @ \cup {m}])
  BY DEF SendTicks
<1> HIDE DEF m, Fits
<1>4. toServer' \in [Players -> SUBSET Datagram]
  <2>1. toServer \in [Players -> SUBSET Datagram]
    BY DEF TypeInv, TypeOK
  <2>2. Fits => toServer[p] \cup {m} \in SUBSET Datagram
    BY <1>2, <2>1
  <2> QED BY <1>3, <2>1, <2>2
<1>5. frame' \in [Players -> 0 .. MaxTicks]
  BY InputSyncAssumption DEF TypeInv, TypeOK, SendTicks
<1>6. TickInv'
  BY DEF TypeInv, TypeOK, TickInv, SendTicks, sharedVars
<1>7. UNCHANGED <<tickNum, netTickNum, sync, inputQueue, received, reply, nextPlayer,
                  fatal, numberVars, server, toClient>>
  BY DEF SendTicks, sharedVars, netVars
<1> QED BY <1>4, <1>5, <1>6, <1>7 DEF TypeInv, TypeOK

\* The network thread keeps the types.
LEMMA ReceiveReplyTypeInv ==
  ASSUME TypeInv, NEW p \in Players, ReceiveReply(p)
  PROVE  TypeInv'
<1>1. toClient[p] \in Seq(Datagram) /\ toClient[p] # <<>>
  BY DEF TypeInv, TypeOK, ReceiveReply
<1>2. Head(toClient[p]) \in Datagram /\ Tail(toClient[p]) \in Seq(Datagram)
  BY <1>1
<1>3. reply' \in [Players -> Datagram] /\ toClient' \in [Players -> Seq(Datagram)]
  <2>1. reply' \in [Players -> Datagram]
    BY <1>2 DEF TypeInv, TypeOK, ReceiveReply
  <2>2. CASE toClient' = [toClient EXCEPT ![p] = Tail(@)]
    BY <1>2, <2>1, <2>2 DEF TypeInv, TypeOK
  <2>3. CASE UNCHANGED toClient
    BY <2>1, <2>3 DEF TypeInv, TypeOK
  <2> QED BY <2>2, <2>3 DEF ReceiveReply
<1>4. nextPlayer' \in [Players -> 0 .. NumPlayers]
  BY InputRelayAssumption DEF TypeInv, TypeOK, ReceiveReply
<1>5. UNCHANGED <<tickNum, frame, netTickNum, sync, inputQueue, received, fatal, numberVars, server,
                  toServer>>
  BY DEF ReceiveReply, mainVars, sharedVars
<1>6. TickInv'
  BY <1>5 DEF TypeInv, TickInv
<1>7. TypeOK'
  BY <1>3, <1>4, <1>5 DEF TypeInv, TypeOK
<1> QED BY <1>6, <1>7 DEF TypeInv

LEMMA ReceiveNumberTypeInv ==
  ASSUME TypeInv, NEW p \in Players, ReceiveNumber(p)
  PROVE  TypeInv'
<1>1. PICK n \in rootless[p] : playerNumber' = [playerNumber EXCEPT ![p] = n]
  BY DEF ReceiveNumber
<1>2. n \in Nat
  BY DEF TypeInv, TypeOK
<1>3. UNCHANGED <<tickNum, frame, netTickNum, sync, inputQueue, received, reply, nextPlayer,
                  fatal, server, toServer, toClient, rootless>>
  BY DEF ReceiveNumber, mainVars, sharedVars, netVars
<1>4. TickInv'
  BY <1>3 DEF TypeInv, TickInv
<1>5. TypeOK'
  BY <1>1, <1>2, <1>3 DEF TypeInv, TypeOK
<1> QED BY <1>4, <1>5 DEF TypeInv

\* What ParsePaket hands over and what Ack is called with have their types.
LEMMA HandleSyncTypeInv ==
  ASSUME TypeInv, NEW p \in Players, HandleSync(p)
  PROVE  TypeInv'
<1> DEFINE q      == nextPlayer[p]
           pkt    == reply[p][q]
           parsed == ParsePaket(pkt, LastTickHeld(p, q))
           update == [playerNum |-> q, tickNum |-> parsed.firstTick,
                      count |-> parsed.count, inputs |-> parsed.inputs]
<1>1. q \in Players /\ pkt \in PlayerPacket /\ pkt.tickNum \in OptTick
  BY DEF TypeInv, TypeOK, HandleSync, Datagram, PlayerPacket
<1>2. LastTickHeld(p, q) \in OptTick
  BY <1>1 DEF TypeInv, TypeOK, LastTickHeld, Synchronizer
<1>3. parsed \in ParseResult
  BY <1>1, <1>2, ParsePaketType
<1>4. update \in TickInput
  BY <1>1, <1>3 DEF TickInput, ParseResult
<1>5. Ack(sync[p][q], pkt.tickNum) \in Synchronizer
  BY <1>1, AckType DEF TypeInv, TypeOK
<1>6. /\ sync' \in [Players -> [Players -> Synchronizer]]
      /\ nextPlayer' \in [Players -> 0 .. NumPlayers]
      /\ reply' \in [Players -> Datagram]
      /\ fatal' \subseteq Players
      /\ inputQueue' \in [Players -> Seq(TickInput)]
  <2>1. q + 1 \in 0 .. NumPlayers
    BY <1>1, InputRelayAssumption DEF Players
  <2>2. \/ /\ sync' = [sync EXCEPT ![p][q] = Ack(@, pkt.tickNum)]
           /\ nextPlayer' = [nextPlayer EXCEPT ![p] = q + 1]
           /\ reply' \in {reply, [reply EXCEPT ![p] = NoDatagram]}
           /\ fatal' = fatal
           /\ inputQueue' \in {inputQueue,
                               [inputQueue EXCEPT ![p] = Append(@, update)]}
        \/ /\ fatal' = fatal \cup {p}
           /\ UNCHANGED <<sync, inputQueue, netVars>>
    BY DEF HandleSync
  <2> HIDE DEF update, pkt, q
  <2>3. CASE fatal' = fatal \cup {p} /\ UNCHANGED <<sync, inputQueue, netVars>>
    BY <2>3 DEF TypeInv, TypeOK, netVars
  <2>4. CASE /\ sync' = [sync EXCEPT ![p][q] = Ack(@, pkt.tickNum)]
             /\ nextPlayer' = [nextPlayer EXCEPT ![p] = q + 1]
             /\ reply' \in {reply, [reply EXCEPT ![p] = NoDatagram]}
             /\ fatal' = fatal
             /\ inputQueue' \in {inputQueue,
                                 [inputQueue EXCEPT ![p] = Append(@, update)]}
    <3>1. inputQueue' \in [Players -> Seq(TickInput)]
      <4>1. inputQueue \in [Players -> Seq(TickInput)]
        BY DEF TypeInv, TypeOK
      <4>2. Append(inputQueue[p], update) \in Seq(TickInput)
        BY <1>4, <4>1
      <4> QED BY <2>4, <4>1, <4>2
    <3>2. reply' \in [Players -> Datagram]
      BY <2>4, NoDatagramType DEF TypeInv, TypeOK
    <3>3. sync' \in [Players -> [Players -> Synchronizer]]
      BY <1>1, <1>5, <2>4 DEF TypeInv, TypeOK
    <3>4. nextPlayer' \in [Players -> 0 .. NumPlayers]
      BY <2>1, <2>4 DEF TypeInv, TypeOK
    <3>5. fatal' \subseteq Players
      BY <2>4 DEF TypeInv, TypeOK
    <3> QED BY <3>1, <3>2, <3>3, <3>4, <3>5
  <2> QED BY <2>2, <2>3, <2>4
<1> QED BY <1>6 DEF TypeInv, TypeOK, TickInv, HandleSync, mainVars

\* The server keeps the types.
LEMMA ServerDoWorkTypeInv ==
  ASSUME TypeInv, NEW p \in Players, ServerDoWork(p)
  PROVE  TypeInv'
<1>1. PICK m \in toServer[p] :
        /\ UpdateServerData(m)
        /\ Respond(p, m, server')
        /\ toServer' \in {toServer, [toServer EXCEPT ![p] = @ \ {m}]}
        /\ UNCHANGED <<mainVars, sharedVars, netVars, playerNumber, fatal>>
  BY DEF ServerDoWork
<1>2. m \in Datagram /\ \A q \in Players : m[q] \in PlayerPacket /\ m[q].tickNum \in OptTick
  BY DEF TypeInv, TypeOK, Datagram, PlayerPacket
<1>3. server' \in [Players -> Synchronizer]
  BY <1>1, <1>2, UpdateFromPacketType DEF TypeInv, TypeOK, UpdateServerData
<1> DEFINE Fits == \A q \in Players : CanGetPaket(server'[q], ReplyBase(m, q))
           r    == [q \in Players |-> GetPaket(server'[q], ReplyBase(m, q))]
<1>4. Fits => r \in Datagram
  BY <1>2, <1>3, GetPaketType DEF Datagram, ReplyBase
<1>5. toClient' = toClient \/ (Fits /\ toClient' = [toClient EXCEPT ![p] = Append(@, r)])
  BY <1>1 DEF Respond
<1> HIDE DEF r, Fits
<1>6. toClient' \in [Players -> Seq(Datagram)]
  <2>1. toClient \in [Players -> Seq(Datagram)]
    BY DEF TypeInv, TypeOK
  <2>2. Fits => Append(toClient[p], r) \in Seq(Datagram)
    BY <1>4, <2>1
  <2> QED BY <1>5, <2>1, <2>2
<1>7. toServer' \in [Players -> SUBSET Datagram]
  BY <1>1 DEF TypeInv, TypeOK
<1>8. UNCHANGED <<tickNum, frame, netTickNum, sync, inputQueue, received, reply, nextPlayer,
                  playerNumber, fatal>>
  BY <1>1 DEF mainVars, sharedVars, netVars
<1>9. rootless' \in [Players -> SUBSET Nat]
  <2>1. rootless' = rootless
          \/ \E n : rootless' = [rootless EXCEPT ![p] = @ \cup ({n} \cap Nat)]
    BY <1>1 DEF Respond
  <2> QED BY <2>1 DEF TypeInv, TypeOK
<1> QED BY <1>3, <1>6, <1>7, <1>8, <1>9 DEF TypeInv, TypeOK, TickInv

\* What the network does keeps the types.
LEMMA NetworkTypeInv ==
  ASSUME TypeInv, NEW p \in Players, Network(p)
  PROVE  TypeInv'
<1>1. CASE LoseRequest(p)
  BY <1>1 DEF TypeInv, TypeOK, TickInv, LoseRequest, mainVars, sharedVars, netVars
<1>2. CASE LoseReply(p)
  <2>1. Tail(toClient[p]) \in Seq(Datagram)
    BY <1>2 DEF TypeInv, TypeOK, LoseReply
  <2>2. toClient' \in [Players -> Seq(Datagram)]
    BY <1>2, <2>1 DEF TypeInv, TypeOK, LoseReply
  <2> QED BY <1>2, <2>2
          DEF TypeInv, TypeOK, TickInv, LoseReply, mainVars, sharedVars, netVars
<1>3. CASE OvertakeReply(p)
  <2>1. PICK i \in 1 .. Len(toClient[p]) - 1 :
          toClient' = [toClient EXCEPT ![p] =
                         [@ EXCEPT ![i] = toClient[p][i + 1], ![i + 1] = toClient[p][i]]]
    BY <1>3 DEF OvertakeReply
  <2>2. toClient[p] \in Seq(Datagram)
    BY DEF TypeInv, TypeOK
  <2>3. toClient[p][i] \in Datagram /\ toClient[p][i + 1] \in Datagram
    BY <2>2
  <2>4. [toClient[p] EXCEPT ![i] = toClient[p][i + 1], ![i + 1] = toClient[p][i]]
          \in Seq(Datagram)
    BY <2>2, <2>3
  <2>5. toClient' \in [Players -> Seq(Datagram)]
    BY <2>1, <2>4 DEF TypeInv, TypeOK
  <2> QED BY <1>3, <2>5
          DEF TypeInv, TypeOK, TickInv, OvertakeReply, mainVars, sharedVars, netVars
<1> QED BY <1>1, <1>2, <1>3 DEF Network

\* Every step keeps the types.
LEMMA NextTypeInv ==
  ASSUME TypeInv, [Next]_vars
  PROVE  TypeInv'
<1>1. CASE UNCHANGED vars
  BY <1>1 DEF TypeInv, TypeOK, TickInv, vars, mainVars, sharedVars, netVars
<1>2. ASSUME NEW p \in Players,
             MainThread(p) \/ NetworkThread(p) \/ ServerDoWork(p) \/ Network(p)
      PROVE  TypeInv'
  BY <1>2, DequeueInputsTypeInv, EnqueueTickTypeInv, SendTicksTypeInv, ReceiveReplyTypeInv,
     ReceiveNumberTypeInv, HandleSyncTypeInv, ServerDoWorkTypeInv, NetworkTypeInv
     DEF MainThread, NetworkThread
<1> QED BY <1>1, <1>2 DEF Next

\* Every reachable state has its type, and no client plays past the end of the
\* game.
THEOREM TypeCorrect == Spec => []TypeInv
<1>1. Init => TypeInv
  BY InitTypeInv
<1>2. TypeInv /\ [Next]_vars => TypeInv'
  BY NextTypeInv
<1> QED BY <1>1, <1>2, PTL DEF Spec

\* TypeOK, which the runs check, is an invariant.
THEOREM TypeSafe == Spec => []TypeOK
<1>1. TypeInv => TypeOK
  BY DEF TypeInv
<1> QED BY <1>1, TypeCorrect, PTL

-----------------------------------------------------------------------------
(* What the operations of a synchronizer mean for the inputs of a player.  *)

\* A packet made from a window that holds the newest inputs up to last is true,
\* and starts right after the ack.
LEMMA GetPaketExact ==
  ASSUME NEW q \in Players, NEW s \in Synchronizer, NEW ack \in OptTick,
         NEW last \in OptTick, last <= GameDuration + MaxTicks,
         HoldsWindow(s.buffer, q, last),
         s.tickNum = last \/ s.tickNum <= ack,
         CanGetPaket(s, ack)
  PROVE  LET pkt == GetPaket(s, ack)
         IN  /\ Exact(q, pkt)
             /\ pkt.tickNum = s.tickNum
             /\ pkt.count = IF s.tickNum > ack THEN s.tickNum - ack ELSE 0
<1> DEFINE n == IF HasValue(s.tickNum) THEN SendCount(s, ack) ELSE 0
           v == [i \in Slots |-> IF i < n THEN s.buffer[Slot(TickAfter(ack) + i)] ELSE NoInput]
<1>1. /\ s.tickNum \in OptTick
      /\ TickAfter(ack) = ack + 1
  BY TickAfterAck DEF Synchronizer
<1>2. n = IF s.tickNum > ack THEN s.tickNum - ack ELSE 0
  BY <1>1 DEF SendCount, HasValue, OptTick, NoTick
<1>3. n \in 0 .. MaxTicks
  BY <1>1, <1>2, InputSyncAssumption DEF CanGetPaket, SendCount, HasValue, OptTick, NoTick
<1>4. GetPaket(s, ack) = [tickNum |-> s.tickNum, count |-> n, inputs |-> v]
  BY DEF GetPaket
<1>5. n <= s.tickNum + 1
  BY <1>1, <1>2 DEF OptTick, NoTick
<1> HIDE DEF n
<1>6. \A i \in 0 .. n - 1 : v[i] = UserInput[q][s.tickNum + 1 - n + i]
  <2> TAKE i \in 0 .. n - 1
  <2>1. i \in Slots /\ s.tickNum > ack /\ n = s.tickNum - ack /\ s.tickNum = last
    BY <1>1, <1>2, <1>3, InputSyncAssumption DEF Slots, OptTick, NoTick
  <2>2. /\ ack + 1 + i \in Ticks
        /\ last - MaxTicks < ack + 1 + i
        /\ ack + 1 + i <= last
    BY <1>1, <1>3, <2>1, InputSyncAssumption, InputRelayAssumption
       DEF OptTick, NoTick, Ticks
  <2>3. s.buffer[Slot(ack + 1 + i)] = UserInput[q][ack + 1 + i]
    BY <2>2 DEF HoldsWindow
  <2>4. v[i] = s.buffer[Slot(ack + 1 + i)]
    BY <1>1, <2>1
  <2>5. s.tickNum + 1 - n + i = ack + 1 + i
    BY <1>1, <2>1 DEF OptTick, NoTick
  <2> QED BY <2>3, <2>4, <2>5
<1> HIDE DEF v
<1> QED BY <1>2, <1>4, <1>5, <1>6 DEF Exact, n

\* What is parsed from a true packet is true, ends at the packet's tick and is
\* only taken if that is news.
LEMMA ParsePaketExact ==
  ASSUME NEW q \in Players, NEW pkt \in PlayerPacket, NEW ack \in OptTick, Exact(q, pkt)
  PROVE  LET r == ParsePaket(pkt, ack)
         IN  /\ \A i \in 0 .. r.count - 1 : /\ r.firstTick + i <= pkt.tickNum
                                          /\ r.inputs[i] = UserInput[q][r.firstTick + i]
             /\ r.count > 0 => pkt.tickNum > ack
<1>1. CASE Ignored(pkt, ack) \/ TooShort(pkt, ack)
  <2>1. ParsePaket(pkt, ack).count = 0
    BY <1>1 DEF ParsePaket, NothingParsed
  <2> QED BY <2>1
<1>2. CASE ~Ignored(pkt, ack) /\ ~TooShort(pkt, ack)
  <2> DEFINE n == pkt.tickNum - TickAfter(ack) + 1
             v == [i \in Slots |-> IF i < n THEN pkt.inputs[Skip(pkt, ack) + i] ELSE NoInput]
  <2>1. /\ TickAfter(ack) = ack + 1
        /\ n \in 1 .. pkt.count
        /\ pkt.tickNum \in Nat
        /\ pkt.count \in 1 .. MaxTicks
        /\ Skip(pkt, ack) = pkt.count - n
    BY <1>2, ParsePaketCount, TickAfterAck DEF Skip
  <2>2. ParsePaket(pkt, ack) = [firstTick |-> TickAfter(ack), count |-> n, inputs |-> v,
                                lastTickAcked |-> pkt.tickNum]
    BY <1>2 DEF ParsePaket
  <2>3. \A i \in 0 .. n - 1 : v[i] = UserInput[q][TickAfter(ack) + i]
    <3> TAKE i \in 0 .. n - 1
    <3>1. i \in Slots /\ Skip(pkt, ack) + i \in 0 .. pkt.count - 1
      BY <2>1, InputSyncAssumption DEF Slots
    <3>2. v[i] = pkt.inputs[Skip(pkt, ack) + i]
      BY <2>1, <3>1, InputSyncAssumption DEF OptTick, NoTick
    <3>3. pkt.inputs[Skip(pkt, ack) + i]
            = UserInput[q][pkt.tickNum + 1 - pkt.count + (Skip(pkt, ack) + i)]
      BY <3>1 DEF Exact
    <3>4. pkt.tickNum + 1 - pkt.count + (Skip(pkt, ack) + i) = TickAfter(ack) + i
      BY <2>1, InputSyncAssumption DEF OptTick, NoTick
    <3> QED BY <3>2, <3>3, <3>4
  <2> HIDE DEF v
  <2> QED BY <2>1, <2>2, <2>3 DEF OptTick, NoTick
<1> QED BY <1>1, <1>2

\* Enqueue of the next tick moves the window of inputs held on by one.
LEMMA EnqueueHoldsWindow ==
  ASSUME NEW q \in Players, NEW s \in Synchronizer, NEW t \in Ticks,
         HoldsWindow(s.buffer, q, t - 1)
  PROVE  HoldsWindow(Enqueue(s, t, UserInput[q][t]).buffer, q, t)
<1>1. Enqueue(s, t, UserInput[q][t]).buffer = [s.buffer EXCEPT ![Slot(t)] = UserInput[q][t]]
      /\ s.buffer \in [Slots -> Inputs \cup {NoInput}]
  BY DEF Enqueue, Synchronizer
<1> SUFFICES ASSUME NEW u \in Ticks, t - MaxTicks < u, u <= t
             PROVE  [s.buffer EXCEPT ![Slot(t)] = UserInput[q][t]][Slot(u)] = UserInput[q][u]
  BY <1>1 DEF HoldsWindow
<1>2. t \in Nat /\ u \in Nat
  BY DEF Ticks
<1>3. Slot(t) \in Slots /\ Slot(u) \in Slots
  BY <1>2, SlotType
<1>4. CASE u = t
  BY <1>1, <1>3, <1>4
<1>5. CASE u # t
  <2>1. u < t /\ t < u + MaxTicks
    BY <1>2, <1>5, InputSyncAssumption
  <2>2. Slot(u) # Slot(t)
    BY <1>2, <2>1, SlotsDiffer
  <2>3. s.buffer[Slot(u)] = UserInput[q][u]
    <3>1. (t - 1) - MaxTicks < u /\ u <= t - 1
      BY <1>2, <2>1, InputSyncAssumption
    <3> QED BY <3>1 DEF HoldsWindow
  <2> QED BY <1>1, <1>3, <2>2, <2>3
<1> QED BY <1>4, <1>5

\* The server's window takes in a true packet that starts no later than its next
\* tick: it ends at the newer of the two ticks and still holds the inputs.
LEMMA UpdateFromPacketExact ==
  ASSUME NEW q \in Players, NEW s \in Synchronizer, NEW pkt \in PlayerPacket,
         s.lastTickAcked = s.tickNum, HoldsWindow(s.buffer, q, s.tickNum),
         pkt.tickNum - pkt.count <= s.tickNum,
         pkt.count > 0 => Exact(q, pkt)
  PROVE  LET s2 == UpdateFromPacket(s, pkt)
         IN  /\ s2.tickNum = IF pkt.tickNum > s.tickNum THEN pkt.tickNum ELSE s.tickNum
             /\ s2.lastTickAcked = s2.tickNum
             /\ HoldsWindow(s2.buffer, q, s2.tickNum)
<1> DEFINE ack == s.lastTickAcked
           r   == ParsePaket(pkt, ack)
           s1  == [s EXCEPT !.lastTickAcked = r.lastTickAcked]
<1>1. /\ ack \in OptTick /\ s.tickNum \in OptTick
      /\ pkt.tickNum \in OptTick /\ pkt.count \in 0 .. MaxTicks
      /\ TickAfter(ack) = ack + 1
  BY TickAfterAck DEF Synchronizer, PlayerPacket
<1>2. r \in ParseResult
  BY <1>1, ParsePaketType
<1>3. UpdateFromPacket(s, pkt) = EnqueueAll(s1, r.firstTick, r.count, r.inputs)
  BY DEF UpdateFromPacket
<1>4. /\ s1 \in Synchronizer
      /\ s1.tickNum = s.tickNum
      /\ s1.buffer = s.buffer
      /\ s1.lastTickAcked = r.lastTickAcked
  BY <1>2 DEF Synchronizer, ParseResult
<1>5. /\ r.firstTick \in Nat /\ r.count \in 0 .. MaxTicks /\ r.inputs \in Vector
  BY <1>2 DEF ParseResult
<1>6. CASE pkt.tickNum <= s.tickNum
  <2>1. Ignored(pkt, ack)
    BY <1>1, <1>6 DEF Ignored, OptTick, NoTick
  <2>2. r.count = 0 /\ r.lastTickAcked = ack
    BY <2>1 DEF ParsePaket, NothingParsed
  <2> HIDE DEF r, s1
  <2>3. LET s2 == UpdateFromPacket(s, pkt)
        IN  /\ s2.lastTickAcked = s1.lastTickAcked
            /\ s2.tickNum = s1.tickNum
            /\ \A k \in Slots : s2.buffer[k] = s1.buffer[k]
    BY <1>3, <1>4, <1>5, <2>2, EnqueueAllBuffer
  <2>4. HoldsWindow(UpdateFromPacket(s, pkt).buffer, q, s.tickNum)
    BY <1>4, <2>3, SlotType DEF HoldsWindow, Ticks
  <2> QED BY <1>1, <1>4, <1>6, <2>2, <2>3, <2>4 DEF OptTick, NoTick
<1>7. CASE pkt.tickNum > s.tickNum
  <2>1. pkt.count > 0 /\ Exact(q, pkt)
    BY <1>1, <1>7 DEF OptTick, NoTick
  <2>2. ~Ignored(pkt, ack) /\ ~TooShort(pkt, ack)
    BY <1>1, <1>7, InputSyncAssumption DEF Ignored, TooShort, HasValue, OptTick, NoTick
  <2>3. /\ r.firstTick = s.tickNum + 1
        /\ r.count = pkt.tickNum - s.tickNum
        /\ r.lastTickAcked = pkt.tickNum
    BY <1>1, <2>2 DEF ParsePaket, OptTick, NoTick
  <2>4. \A i \in 0 .. r.count - 1 : r.inputs[i] = UserInput[q][r.firstTick + i]
    BY <1>1, <2>1, ParsePaketExact
  <2> HIDE DEF r, s1
  <2> DEFINE s2 == UpdateFromPacket(s, pkt)
  <2>5. /\ s2.lastTickAcked = s1.lastTickAcked
        /\ s2.tickNum = IF r.count > 0 THEN r.firstTick + r.count - 1 ELSE s1.tickNum
        /\ \A i \in 0 .. r.count - 1 : s2.buffer[Slot(r.firstTick + i)] = r.inputs[i]
        /\ \A k \in Slots : (\A i \in 0 .. r.count - 1 : Slot(r.firstTick + i) # k)
                              => s2.buffer[k] = s1.buffer[k]
    BY <1>3, <1>4, <1>5, EnqueueAllBuffer
  <2> HIDE DEF s2
  <2>6. s2.tickNum = pkt.tickNum /\ s2.lastTickAcked = pkt.tickNum
    BY <1>1, <1>4, <1>7, <2>3, <2>5 DEF OptTick, NoTick
  <2>7. HoldsWindow(s2.buffer, q, pkt.tickNum)
    <3> SUFFICES ASSUME NEW t \in Ticks, pkt.tickNum - MaxTicks < t, t <= pkt.tickNum
                 PROVE  s2.buffer[Slot(t)] = UserInput[q][t]
      BY DEF HoldsWindow
    <3>1. t \in Nat
      BY DEF Ticks
    <3>2. CASE t > s.tickNum
      <4>1. t - r.firstTick \in 0 .. r.count - 1 /\ r.firstTick + (t - r.firstTick) = t
        BY <1>1, <2>3, <3>1, <3>2 DEF OptTick, NoTick
      <4> QED BY <2>4, <2>5, <4>1
    <3>3. CASE t <= s.tickNum
      <4>1. \A i \in 0 .. r.count - 1 : Slot(r.firstTick + i) # Slot(t)
        <5> TAKE i \in 0 .. r.count - 1
        <5>1. /\ r.firstTick + i \in Nat
              /\ t < r.firstTick + i
              /\ r.firstTick + i < t + MaxTicks
          BY <1>1, <2>3, <3>1, <3>3, InputSyncAssumption DEF OptTick, NoTick
        <5> QED BY <3>1, <5>1, SlotsDiffer
      <4>2. s2.buffer[Slot(t)] = s.buffer[Slot(t)]
        BY <1>4, <2>5, <3>1, <4>1, SlotType
      <4>3. s.tickNum - MaxTicks < t
        BY <1>1, <1>7, <3>1, InputSyncAssumption DEF OptTick, NoTick
      <4> QED BY <3>3, <4>2, <4>3 DEF HoldsWindow
    <3> QED BY <1>1, <3>1, <3>2, <3>3 DEF OptTick, NoTick
  <2> QED BY <1>7, <2>6, <2>7 DEF s2
<1> QED BY <1>1, <1>6, <1>7 DEF OptTick, NoTick

-----------------------------------------------------------------------------
(* The inductive invariant.                                                *)

Inv == TypeInv /\ RelayInv

\* At the start nobody knows anything.
LEMMA InitRelayInv == Init => RelayInv
<1> SUFFICES ASSUME Init PROVE RelayInv
  OBVIOUS
<1>1. \A q \in Players : NoDatagram[q].count = 0 /\ NoDatagram[q].tickNum = NoTick
  BY DEF NoDatagram, GetPaket, NewSynchronizer, HasValue
<1>2. TickInv
  BY InitTypeInv DEF TypeInv
<1>3. \A q \in Players : \A b : HoldsWindow(b, q, NoTick)
  BY DEF HoldsWindow, Ticks, NoTick
<1>4. ServerInv /\ OwnWindowInv /\ OtherWindowInv
  BY <1>3 DEF Init, ServerInv, ServerHoldsWindow, OwnWindowInv, OtherWindowInv,
              NewSynchronizer, NoTick
<1>5. ReplyInv
  BY <1>1 DEF Init, ReplyInv, TrueReply, Exact, NewSynchronizer, NoTick
<1>6. RequestInv /\ DeliveryInv /\ NumbersKept /\ fatal = {}
  BY DEF Init, RequestInv, DeliveryInv, NumbersKept
<1> QED BY <1>2, <1>4, <1>5, <1>6 DEF RelayInv

\* The bounds on ticks that the types imply.
LEMMA TickTypes ==
  ASSUME TypeInv
  PROVE  /\ \A p \in Players : /\ netTickNum[p] \in OptTick
                              /\ netTickNum[p] <= GameDuration + MaxTicks
         /\ \A q \in Players : /\ server[q] \in Synchronizer
                              /\ server[q].tickNum \in OptTick
                              /\ server[q].lastTickAcked \in OptTick
         /\ \A p, q \in Players : /\ sync[p][q] \in Synchronizer
                                 /\ sync[p][q].tickNum \in OptTick
                                 /\ sync[p][q].lastTickAcked \in OptTick
<1>1. \A p \in Players : netTickNum[p] \in OptTick /\ tickNum[p] \in Nat
                         /\ netTickNum[p] = tickNum[p] - 1
                         /\ tickNum[p] <= GameDuration + MaxTicks
  BY DEF TypeInv, TypeOK, TickInv
<1>2. GameDuration + MaxTicks \in Nat
  BY InputRelayAssumption, InputSyncAssumption
<1>3. \A p \in Players : netTickNum[p] <= GameDuration + MaxTicks
  BY <1>1, <1>2
<1> QED BY <1>1, <1>3 DEF TypeInv, TypeOK, Synchronizer

\* DoRollback is handed true inputs of other players only.
LEMMA DequeueInputsRelayInv ==
  ASSUME Inv, NEW p \in Players, DequeueInputs(p)
  PROVE  RelayInv'
<1> DEFINE u == Head(inputQueue[p])
           q == u.playerNum
<1>1. inputQueue \in [Players -> Seq(TickInput)] /\ inputQueue[p] # <<>>
  BY DEF Inv, TypeInv, TypeOK, DequeueInputs
<1>2. 1 \in DOMAIN inputQueue[p] /\ u = inputQueue[p][1] /\ u \in TickInput
  BY <1>1
<1>3. /\ q # p /\ q \in Players /\ \A r \in WrittenInputs(u) : TrueInput(q, r)
      /\ playerNumber[p] = p
  BY <1>2 DEF Inv, RelayInv, NumbersKept, DeliveryInv, TickInput
<1>4. /\ received' = [received EXCEPT ![p][q] = @ \cup WrittenInputs(u)]
      /\ fatal' = fatal
      /\ inputQueue' = [inputQueue EXCEPT ![p] = Tail(@)]
      /\ UNCHANGED <<tickNum, frame, netTickNum, sync, reply, nextPlayer, numberVars, server,
                     toServer, toClient>>
  BY <1>3 DEF DequeueInputs, netVars
<1>5. received \in [Players -> [Players -> SUBSET (Nat \X (Inputs \cup {NoInput}))]]
  BY DEF Inv, TypeInv, TypeOK
<1> HIDE DEF u
<1>6. DeliveryInv'
  <2>1. ASSUME NEW a \in Players, NEW k \in DOMAIN inputQueue'[a]
        PROVE  \E j \in DOMAIN inputQueue[a] : inputQueue'[a][k] = inputQueue[a][j]
    <3>1. CASE a = p
      <4>1. inputQueue'[a] = Tail(inputQueue[p])
        BY <1>1, <1>4, <3>1
      <4>2. k + 1 \in DOMAIN inputQueue[p] /\ inputQueue'[a][k] = inputQueue[p][k + 1]
        BY <1>1, <2>1, <4>1
      <4> QED BY <3>1, <4>2
    <3>2. CASE a # p
      BY <1>1, <1>4, <2>1, <3>2
    <3> QED BY <3>1, <3>2
  <2>2. ASSUME NEW a \in Players, NEW b \in Players, NEW r \in received'[a][b]
        PROVE  r \in received[a][b] \/ (b = q /\ r \in WrittenInputs(u))
    BY <1>3, <1>4, <1>5, <2>2
  <2>3. DeliveryInv
    BY DEF Inv, RelayInv
  <2>4. ASSUME NEW a \in Players, NEW k \in DOMAIN inputQueue'[a]
        PROVE  /\ inputQueue'[a][k].playerNum # a
               /\ \A r \in WrittenInputs(inputQueue'[a][k]) :
                    TrueInput(inputQueue'[a][k].playerNum, r)
    <3>1. PICK j \in DOMAIN inputQueue[a] : inputQueue'[a][k] = inputQueue[a][j]
      BY <2>1, <2>4
    <3>2. /\ inputQueue[a][j].playerNum # a
          /\ \A r \in WrittenInputs(inputQueue[a][j]) :
               TrueInput(inputQueue[a][j].playerNum, r)
      BY <2>3 DEF DeliveryInv
    <3> QED BY <3>1, <3>2
  <2>5. ASSUME NEW a \in Players, NEW b \in Players, NEW r \in received'[a][b]
        PROVE  TrueInput(b, r)
    BY <1>3, <2>2, <2>3, <2>5 DEF DeliveryInv
  <2> QED BY <1>4, <2>4, <2>5 DEF DeliveryInv, TrueInput
<1> QED BY <1>4, <1>6
        DEF Inv, RelayInv, TickInv, ServerInv, ServerHoldsWindow, OwnWindowInv, OtherWindowInv,
            RequestInv, ReplyInv, TrueReply, NumbersKept

\* A new tick is added to the client's own window.
LEMMA EnqueueTickRelayInv ==
  ASSUME Inv, TypeInv', NEW p \in Players, EnqueueTick(p)
  PROVE  RelayInv'
<1> DEFINE t == tickNum[p]
<1>1. /\ t \in Nat /\ netTickNum[p] = t - 1
      /\ tickNum' = [tickNum EXCEPT ![p] = @ + 1]
      /\ netTickNum' = [netTickNum EXCEPT ![p] = t]
      /\ sync' = [sync EXCEPT ![p][p] = Enqueue(@, t, UserInput[p][t])]
      /\ UNCHANGED <<inputQueue, received, reply, nextPlayer, fatal, numberVars, server, toServer,
                     toClient>>
  BY DEF EnqueueTick, Inv, TypeInv, TypeOK, RelayInv, NumbersKept, TickInv, netVars
<1>2. /\ netTickNum \in [Players -> OptTick]
      /\ sync \in [Players -> [Players -> Synchronizer]]
      /\ server \in [Players -> Synchronizer]
  BY DEF Inv, TypeInv, TypeOK
<1>3. t \in Ticks
  <2>1. tickNum'[p] <= GameDuration + MaxTicks
    BY DEF TypeInv, TickInv
  <2>2. tickNum'[p] = t + 1
    BY <1>1 DEF Inv, TypeInv, TypeOK
  <2> QED BY <1>1, <2>1, <2>2, InputRelayAssumption, InputSyncAssumption DEF Ticks
<1>4. \A q \in Players : netTickNum[q] <= netTickNum'[q] /\ netTickNum'[q] \in OptTick
  BY <1>1, <1>2 DEF OptTick, NoTick
<1>5. TickInv'
  BY DEF TypeInv
<1>6. ServerInv'
  <2>1. \A q \in Players : server[q].tickNum <= netTickNum[q] /\ server[q].tickNum \in OptTick
    BY <1>2 DEF Inv, RelayInv, ServerInv, Synchronizer
  <2>2. \A q \in Players : server[q].tickNum <= netTickNum'[q]
    BY <1>2, <1>4, <2>1 DEF OptTick, NoTick
  <2> QED BY <1>1, <2>2 DEF Inv, RelayInv, ServerInv, ServerHoldsWindow
<1>7. OwnWindowInv'
  <2> SUFFICES ASSUME NEW a \in Players
               PROVE  /\ HoldsWindow(sync'[a][a].buffer, a, netTickNum'[a])
                      /\ sync'[a][a].lastTickAcked <= server'[a].tickNum
                      /\ sync'[a][a].tickNum \in {sync'[a][a].lastTickAcked, netTickNum'[a]}
    BY DEF OwnWindowInv
  <2>1. CASE a = p
    <3>1. sync'[p][p] = Enqueue(sync[p][p], t, UserInput[p][t]) /\ netTickNum'[p] = t
      BY <1>1, <1>2
    <3>2. HoldsWindow(Enqueue(sync[p][p], t, UserInput[p][t]).buffer, p, t)
      <4>1. HoldsWindow(sync[p][p].buffer, p, t - 1)
        BY <1>1 DEF Inv, RelayInv, OwnWindowInv
      <4> QED BY <1>2, <1>3, <4>1, EnqueueHoldsWindow
    <3>3. /\ sync'[p][p].lastTickAcked = sync[p][p].lastTickAcked
          /\ sync'[p][p].tickNum = t
      BY <1>2, <3>1 DEF Enqueue, Synchronizer
    <3> QED BY <1>1, <2>1, <3>1, <3>2, <3>3 DEF Inv, RelayInv, OwnWindowInv
  <2>2. CASE a # p
    BY <1>1, <1>2, <2>2 DEF Inv, RelayInv, OwnWindowInv
  <2> QED BY <2>1, <2>2
<1>8. OtherWindowInv'
  BY <1>1, <1>2 DEF Inv, RelayInv, OtherWindowInv
<1>9. RequestInv'
  <2> SUFFICES ASSUME NEW a \in Players, NEW m \in toServer[a]
               PROVE  m[a].tickNum <= netTickNum'[a]
    BY <1>1 DEF Inv, RelayInv, RequestInv
  <2>1. m[a].tickNum <= netTickNum[a]
    BY DEF Inv, RelayInv, RequestInv
  <2>2. m \in Datagram
    BY DEF Inv, TypeInv, TypeOK
  <2>3. m[a].tickNum \in OptTick
    BY <2>2 DEF Datagram, PlayerPacket
  <2> QED BY <1>2, <1>4, <2>1, <2>3 DEF OptTick, NoTick
<1>10. ReplyInv' /\ NumbersKept' /\ fatal' = {}
  BY <1>1 DEF Inv, RelayInv, ReplyInv, TrueReply, NumbersKept
<1>11. DeliveryInv'
  BY <1>1 DEF Inv, RelayInv, DeliveryInv, TrueInput
<1> QED BY <1>5, <1>6, <1>7, <1>8, <1>9, <1>10, <1>11 DEF RelayInv
\* A request says what its sender has played, from right after its ack, which
\* the server knows of.
LEMMA SendTicksRelayInv ==
  ASSUME Inv, NEW p \in Players, SendTicks(p)
  PROVE  RelayInv'
<1> DEFINE Fits == \A q \in Players : CanGetPaket(sync[p][q], sync[p][q].lastTickAcked)
           m    == [q \in Players |-> GetPaket(sync[p][q], sync[p][q].lastTickAcked)]
<1>1. /\ toServer' = toServer \/ (Fits /\ toServer' = [toServer EXCEPT ![p] = @ \cup {m}])
      /\ frame' = [frame EXCEPT ![p] = 0]
      /\ UNCHANGED <<tickNum, netTickNum, sync, inputQueue, received, reply, nextPlayer,
                     fatal, numberVars, server, toClient>>
  BY DEF SendTicks, sharedVars, netVars
<1>2. /\ \A q \in Players : /\ sync[p][q] \in Synchronizer
                            /\ sync[p][q].tickNum \in OptTick
                            /\ sync[p][q].lastTickAcked \in OptTick
                            /\ server[q].tickNum \in OptTick
      /\ netTickNum[p] \in OptTick
      /\ netTickNum[p] <= GameDuration + MaxTicks
  BY TickTypes DEF Inv
<1>3. ASSUME Fits
      PROVE  /\ Exact(p, m[p])
             /\ m[p].tickNum <= netTickNum[p]
             /\ m[p].tickNum - m[p].count <= server[p].tickNum
  <2> DEFINE s == sync[p][p]
             pkt == GetPaket(s, s.lastTickAcked)
  <2>1. /\ HoldsWindow(s.buffer, p, netTickNum[p])
        /\ s.lastTickAcked <= server[p].tickNum
        /\ s.tickNum \in {s.lastTickAcked, netTickNum[p]}
        /\ server[p].tickNum <= netTickNum[p]
    BY DEF Inv, RelayInv, OwnWindowInv, ServerInv
  <2>2. CanGetPaket(s, s.lastTickAcked) /\ m[p] = pkt
    BY <1>3
  <2>3. s.tickNum = netTickNum[p] \/ s.tickNum <= s.lastTickAcked
    BY <1>2, <2>1 DEF OptTick, NoTick
  <2>4. s \in Synchronizer /\ s.lastTickAcked \in OptTick /\ s.tickNum \in OptTick
    BY <1>2
  <2> HIDE DEF s
  <2>5. /\ Exact(p, pkt)
        /\ pkt.tickNum = s.tickNum
        /\ pkt.count = IF s.tickNum > s.lastTickAcked THEN s.tickNum - s.lastTickAcked ELSE 0
    BY <1>2, <2>1, <2>2, <2>3, <2>4, GetPaketExact
  <2> HIDE DEF pkt, m
  <2>6. pkt.tickNum <= netTickNum[p] /\ pkt.tickNum - pkt.count <= server[p].tickNum
    BY <1>2, <2>1, <2>4, <2>5 DEF OptTick, NoTick
  <2> QED BY <2>2, <2>5, <2>6
<1>4. ASSUME Fits, NEW q \in Players \ {p}
      PROVE  m[q].count = 0 /\ m[q].tickNum <= server[q].tickNum
  <2>1. sync[p][q].tickNum = sync[p][q].lastTickAcked /\ sync[p][q].tickNum <= server[q].tickNum
    BY DEF Inv, RelayInv, OtherWindowInv
  <2>2. m[q] = GetPaket(sync[p][q], sync[p][q].lastTickAcked)
    OBVIOUS
  <2>3. GetPaket(sync[p][q], sync[p][q].lastTickAcked).count = 0
    BY <1>2, <2>1, TickAfterAck DEF GetPaket, SendCount, OptTick, NoTick
  <2>4. GetPaket(sync[p][q], sync[p][q].lastTickAcked).tickNum = sync[p][q].tickNum
    BY DEF GetPaket
  <2> QED BY <2>1, <2>2, <2>3, <2>4
<1> HIDE DEF m, Fits
<1>5. TickInv'
  BY SendTicksTypeInv DEF Inv, TypeInv
<1>6. RequestInv'
  <2>1. toServer \in [Players -> SUBSET Datagram]
    BY DEF Inv, TypeInv, TypeOK
  <2> SUFFICES ASSUME NEW a \in Players, NEW x \in toServer'[a]
               PROVE  /\ Exact(a, x[a])
                      /\ x[a].tickNum <= netTickNum[a]
                      /\ x[a].tickNum - x[a].count <= server[a].tickNum
                      /\ \A q \in Players \ {a} : x[q].count = 0 /\ x[q].tickNum <= server[q].tickNum
    BY <1>1 DEF RequestInv
  <2>2. x \in toServer[a] \/ (Fits /\ a = p /\ x = m)
    BY <1>1, <2>1
  <2>3. CASE x \in toServer[a]
    BY <2>3 DEF Inv, RelayInv, RequestInv
  <2>4. CASE Fits /\ a = p /\ x = m
    BY <1>3, <1>4, <2>4
  <2> QED BY <2>2, <2>3, <2>4
<1> QED BY <1>1, <1>5, <1>6
        DEF Inv, RelayInv, ServerInv, ServerHoldsWindow, OwnWindowInv, OtherWindowInv,
            ReplyInv, TrueReply, DeliveryInv, TrueInput, NumbersKept

\* The network thread takes a true reply.
LEMMA ReceiveReplyRelayInv ==
  ASSUME Inv, NEW p \in Players, ReceiveReply(p)
  PROVE  RelayInv'
<1>1. /\ reply' = [reply EXCEPT ![p] = Head(toClient[p])]
      /\ toClient' = toClient \/ toClient' = [toClient EXCEPT ![p] = Tail(@)]
      /\ toClient[p] # <<>>
      /\ UNCHANGED <<tickNum, frame, netTickNum, sync, inputQueue, received, fatal, numberVars,
                     server, toServer>>
  BY DEF ReceiveReply, mainVars, sharedVars
<1>2. /\ reply \in [Players -> Datagram]
      /\ toClient \in [Players -> Seq(Datagram)]
      /\ toClient[p] \in Seq(Datagram)
  BY DEF Inv, TypeInv, TypeOK
<1>3. ReplyInv
  BY DEF Inv, RelayInv
<1>4. ASSUME NEW a \in Players
      PROVE  TrueReply(reply'[a])
  <2>1. 1 \in DOMAIN toClient[p] /\ Head(toClient[p]) = toClient[p][1]
    BY <1>1, <1>2
  <2>2. TrueReply(Head(toClient[p])) /\ TrueReply(reply[a])
    BY <1>3, <2>1 DEF ReplyInv
  <2>3. reply'[a] \in {reply[a], Head(toClient[p])}
    BY <1>1, <1>2
  <2> QED BY <2>2, <2>3
<1>5. ASSUME NEW a \in Players, NEW k \in DOMAIN toClient'[a]
      PROVE  TrueReply(toClient'[a][k])
  <2>1. \E j \in DOMAIN toClient[a] : toClient'[a][k] = toClient[a][j]
    <3>1. CASE toClient'[a] = toClient[a]
      BY <1>5, <3>1
    <3>2. CASE a = p /\ toClient'[a] = Tail(toClient[p])
      <4>1. k + 1 \in DOMAIN toClient[p] /\ toClient'[a][k] = toClient[p][k + 1]
        BY <1>1, <1>2, <1>5, <3>2
      <4> QED BY <3>2, <4>1
    <3> QED BY <1>1, <1>2, <3>1, <3>2
  <2> QED BY <1>3, <2>1 DEF ReplyInv
<1>6. ReplyInv'
  BY <1>1, <1>4, <1>5 DEF ReplyInv, TrueReply
<1> QED BY <1>1, <1>6
        DEF Inv, RelayInv, TickInv, ServerInv, ServerHoldsWindow, OwnWindowInv, OtherWindowInv,
            RequestInv, DeliveryInv, TrueInput, NumbersKept

\* The network loses and reorders what is true, and that stays true.
LEMMA NetworkRelayInv ==
  ASSUME Inv, NEW p \in Players, Network(p)
  PROVE  RelayInv'
<1>1. /\ toServer \in [Players -> SUBSET Datagram]
      /\ toClient \in [Players -> Seq(Datagram)]
      /\ toClient[p] \in Seq(Datagram)
  BY DEF Inv, TypeInv, TypeOK
<1>2. UNCHANGED <<tickNum, frame, netTickNum, sync, inputQueue, received, reply, nextPlayer,
                  fatal, numberVars, server>>
  BY DEF Network, LoseRequest, LoseReply, OvertakeReply, mainVars, sharedVars, netVars
<1>3. \A a \in Players : toServer'[a] \subseteq toServer[a]
  BY <1>1 DEF Network, LoseRequest, LoseReply, OvertakeReply
<1>4. ASSUME NEW a \in Players, NEW k \in DOMAIN toClient'[a]
      PROVE  \E j \in DOMAIN toClient[a] : toClient'[a][k] = toClient[a][j]
  <2>1. CASE LoseRequest(p)
    BY <1>4, <2>1 DEF LoseRequest
  <2>2. CASE LoseReply(p)
    <3>1. toClient' = [toClient EXCEPT ![p] = Tail(@)] /\ toClient[p] # <<>>
      BY <2>2 DEF LoseReply
    <3>2. CASE a = p
      <4>1. toClient'[a] = Tail(toClient[p])
        BY <1>1, <3>1, <3>2
      <4>2. k + 1 \in DOMAIN toClient[p] /\ toClient'[a][k] = toClient[p][k + 1]
        BY <1>1, <1>4, <3>1, <4>1
      <4> QED BY <3>2, <4>2
    <3>3. CASE a # p
      BY <1>1, <1>4, <3>1, <3>3
    <3> QED BY <3>2, <3>3
  <2>3. CASE OvertakeReply(p)
    <3>1. PICK i \in 1 .. Len(toClient[p]) - 1 :
            toClient' = [toClient EXCEPT ![p] =
                           [@ EXCEPT ![i] = toClient[p][i + 1], ![i + 1] = toClient[p][i]]]
      BY <2>3 DEF OvertakeReply
    <3>2. CASE a = p
      <4>1. toClient'[a]
              = [toClient[p] EXCEPT ![i] = toClient[p][i + 1], ![i + 1] = toClient[p][i]]
        BY <1>1, <3>1, <3>2
      <4>2. i \in DOMAIN toClient[p] /\ i + 1 \in DOMAIN toClient[p] /\ i # i + 1
        BY <1>1
      <4>3. k \in DOMAIN toClient[p]
        BY <1>4, <4>1
      <4>4. toClient'[a][k] \in {toClient[p][k], toClient[p][i], toClient[p][i + 1]}
        BY <4>1, <4>2, <4>3
      <4> QED BY <3>2, <4>2, <4>3, <4>4
    <3>3. CASE a # p
      BY <1>1, <1>4, <3>1, <3>3
    <3> QED BY <3>2, <3>3
  <2> QED BY <2>1, <2>2, <2>3 DEF Network
<1>5. ReplyInv'
  <2>1. ReplyInv
    BY DEF Inv, RelayInv
  <2>2. ASSUME NEW a \in Players, NEW k \in DOMAIN toClient'[a]
        PROVE  TrueReply(toClient'[a][k])
    BY <1>4, <2>1, <2>2 DEF ReplyInv
  <2> QED BY <1>2, <2>1, <2>2 DEF ReplyInv, TrueReply
<1>6. RequestInv'
  BY <1>2, <1>3 DEF Inv, RelayInv, RequestInv
<1> QED BY <1>2, <1>5, <1>6
        DEF Inv, RelayInv, TickInv, ServerInv, ServerHoldsWindow, OwnWindowInv, OtherWindowInv,
            DeliveryInv, TrueInput, NumbersKept
\* The network thread is never given inputs of its own player, and what it acks
\* or hands over is what a true reply says.
LEMMA HandleSyncRelayInv ==
  ASSUME Inv, NEW p \in Players, HandleSync(p)
  PROVE  RelayInv'
<1> DEFINE q      == nextPlayer[p]
           pkt    == reply[p][q]
           parsed == ParsePaket(pkt, LastTickHeld(p, q))
           update == [playerNum |-> q, tickNum |-> parsed.firstTick,
                      count |-> parsed.count, inputs |-> parsed.inputs]
<1>1. /\ sync \in [Players -> [Players -> Synchronizer]]
      /\ reply \in [Players -> Datagram]
      /\ inputQueue \in [Players -> Seq(TickInput)]
      /\ reply[p] \in Datagram
      /\ inputQueue[p] \in Seq(TickInput)
  BY DEF Inv, TypeInv, TypeOK
<1>2. q \in Players
  BY DEF HandleSync
<1>3. pkt \in PlayerPacket
  BY <1>1, <1>2 DEF Datagram
<1>4. /\ pkt.tickNum \in OptTick /\ server[q].tickNum \in OptTick
      /\ netTickNum[p] \in OptTick
      /\ LastTickHeld(p, q) \in OptTick
  BY <1>2, <1>3, TickTypes DEF Inv, PlayerPacket, LastTickHeld
<1>5. Exact(q, pkt) /\ pkt.tickNum <= server[q].tickNum
  BY <1>2 DEF Inv, RelayInv, ReplyInv, TrueReply
<1>6. parsed \in ParseResult
  BY <1>3, <1>4, ParsePaketType
<1>7. /\ parsed.firstTick \in Nat /\ parsed.count \in 0 .. MaxTicks
      /\ \A i \in 0 .. parsed.count - 1 :
           /\ parsed.firstTick + i <= pkt.tickNum
           /\ parsed.inputs[i] = UserInput[q][parsed.firstTick + i]
      /\ parsed.count > 0 => pkt.tickNum > LastTickHeld(p, q)
  BY <1>2, <1>3, <1>4, <1>5, <1>6, ParsePaketExact DEF ParseResult
<1>8. q = p => parsed.count = 0
  <2> HIDE DEF parsed, pkt
  <2> SUFFICES ASSUME q = p PROVE parsed.count = 0
    OBVIOUS
  <2>1. LastTickHeld(p, q) = netTickNum[p]
    BY DEF LastTickHeld, Inv, RelayInv, NumbersKept
  <2>2. server[q].tickNum <= netTickNum[p]
    BY <1>2 DEF Inv, RelayInv, ServerInv
  <2> QED BY <1>4, <1>5, <1>7, <2>1, <2>2, InputSyncAssumption DEF OptTick, NoTick
<1>9. /\ sync' = [sync EXCEPT ![p][q] = Ack(@, pkt.tickNum)]
      /\ reply' \in {reply, [reply EXCEPT ![p] = NoDatagram]}
      /\ fatal' = fatal
      /\ \/ inputQueue' = inputQueue
         \/ q # p /\ inputQueue' = [inputQueue EXCEPT ![p] = Append(@, update)]
  <2>1. playerNumber[p] = p
    BY DEF Inv, RelayInv, NumbersKept
  <2> QED BY <1>8, <2>1 DEF HandleSync
<1>10. UNCHANGED <<tickNum, frame, received, netTickNum, numberVars, server, toServer, toClient>>
  BY DEF HandleSync, mainVars
<1>11. /\ update.playerNum = q
       /\ \A r \in WrittenInputs(update) : TrueInput(q, r)
  <2>1. update.playerNum = q /\ update.tickNum = parsed.firstTick
        /\ update.count = parsed.count /\ update.inputs = parsed.inputs
    OBVIOUS
  <2> HIDE DEF update, parsed, pkt
  <2> SUFFICES ASSUME NEW i \in 0 .. parsed.count - 1
               PROVE  TrueInput(q, <<parsed.firstTick + i, parsed.inputs[i]>>)
    BY <2>1 DEF WrittenInputs
  <2>2. parsed.firstTick + i <= server[q].tickNum
    BY <1>4, <1>5, <1>7 DEF OptTick, NoTick
  <2> QED BY <1>7, <2>2 DEF TrueInput
<1> HIDE DEF q, pkt, update
<1>12. \A a, b \in Players :
         sync'[a][b] = IF a = p /\ b = q THEN Ack(sync[a][b], pkt.tickNum) ELSE sync[a][b]
  BY <1>1, <1>2, <1>9
<1>13. \A s \in Synchronizer : /\ Ack(s, pkt.tickNum).lastTickAcked = pkt.tickNum
                               /\ Ack(s, pkt.tickNum).tickNum = pkt.tickNum
                               /\ Ack(s, pkt.tickNum).buffer = s.buffer
  BY DEF Ack, Synchronizer
<1>14. OwnWindowInv'
  <2> SUFFICES ASSUME NEW a \in Players
               PROVE  /\ HoldsWindow(sync'[a][a].buffer, a, netTickNum[a])
                      /\ sync'[a][a].lastTickAcked <= server[a].tickNum
                      /\ sync'[a][a].tickNum \in {sync'[a][a].lastTickAcked, netTickNum[a]}
    BY <1>10 DEF OwnWindowInv
  <2>1. CASE a = p /\ a = q
    <3>1. sync'[a][a] = Ack(sync[a][a], pkt.tickNum) /\ sync[a][a] \in Synchronizer
      BY <1>1, <1>12, <2>1
    <3> QED BY <1>5, <1>13, <2>1, <3>1 DEF Inv, RelayInv, OwnWindowInv
  <2>2. CASE ~(a = p /\ a = q)
    BY <1>12, <2>2 DEF Inv, RelayInv, OwnWindowInv
  <2> QED BY <2>1, <2>2
<1>15. OtherWindowInv'
  <2> SUFFICES ASSUME NEW a \in Players, NEW b \in Players, a # b
               PROVE  /\ sync'[a][b].tickNum = sync'[a][b].lastTickAcked
                      /\ sync'[a][b].tickNum <= server[b].tickNum
    BY <1>10 DEF OtherWindowInv
  <2>1. CASE a = p /\ b = q
    <3>1. sync'[a][b] = Ack(sync[a][b], pkt.tickNum) /\ sync[a][b] \in Synchronizer
      BY <1>1, <1>12, <2>1
    <3> QED BY <1>5, <1>13, <2>1, <3>1
  <2>2. CASE ~(a = p /\ b = q)
    BY <1>12, <2>2 DEF Inv, RelayInv, OtherWindowInv
  <2> QED BY <2>1, <2>2
<1>16. ReplyInv'
  <2>1. TrueReply(NoDatagram)
    <3>1. \A b \in Players : NoDatagram[b].count = 0 /\ NoDatagram[b].tickNum = NoTick
      BY DEF NoDatagram, GetPaket, NewSynchronizer, HasValue
    <3>2. \A b \in Players : server[b].tickNum \in OptTick
      BY TickTypes DEF Inv
    <3> QED BY <3>1, <3>2 DEF TrueReply, Exact, OptTick, NoTick
  <2>2. ASSUME NEW a \in Players
        PROVE  TrueReply(reply'[a])
    <3>1. reply'[a] \in {reply[a], NoDatagram}
      BY <1>1, <1>9
    <3> QED BY <2>1, <3>1 DEF Inv, RelayInv, ReplyInv
  <2>3. \A a \in Players : \A k \in DOMAIN toClient[a] : TrueReply(toClient[a][k])
    BY DEF Inv, RelayInv, ReplyInv
  <2> QED BY <1>10, <2>2, <2>3 DEF ReplyInv, TrueReply
<1>17. DeliveryInv'
  <2>1. DeliveryInv
    BY DEF Inv, RelayInv
  <2>2. ASSUME NEW a \in Players, NEW k \in DOMAIN inputQueue'[a]
        PROVE  /\ inputQueue'[a][k].playerNum # a
               /\ \A r \in WrittenInputs(inputQueue'[a][k]) :
                    TrueInput(inputQueue'[a][k].playerNum, r)
    <3>1. CASE inputQueue'[a] = inputQueue[a]
      BY <2>1, <2>2, <3>1 DEF DeliveryInv
    <3>2. CASE a = p /\ q # p /\ inputQueue'[a] = Append(inputQueue[p], update)
      <4>1. CASE k = Len(inputQueue[p]) + 1
        <5>1. inputQueue'[a][k] = update
          BY <1>1, <3>2, <4>1
        <5> QED BY <1>11, <3>2, <5>1
      <4>2. CASE k # Len(inputQueue[p]) + 1
        <5>1. k \in DOMAIN inputQueue[p] /\ inputQueue'[a][k] = inputQueue[p][k]
          BY <1>1, <2>2, <3>2, <4>2
        <5> QED BY <2>1, <3>2, <5>1 DEF DeliveryInv
      <4> QED BY <4>1, <4>2
    <3> QED BY <1>1, <1>9, <3>1, <3>2
  <2> QED BY <1>10, <2>1, <2>2 DEF DeliveryInv, TrueInput
<1> QED BY <1>9, <1>10, <1>14, <1>15, <1>16, <1>17
        DEF Inv, RelayInv, TickInv, ServerInv, ServerHoldsWindow, RequestInv, NumbersKept
\* What UpdateServerData does to the server: no tick goes back, each ends at most
\* at what its player has played, and the inputs held are still the right ones.
LEMMA UpdateServerDataExact ==
  ASSUME Inv, NEW p \in Players, NEW m \in toServer[p], UpdateServerData(m),
         NEW q \in Players
  PROVE  /\ server'[q].lastTickAcked = server'[q].tickNum
         /\ server[q].tickNum <= server'[q].tickNum
         /\ m[q].tickNum <= server'[q].tickNum
         /\ server'[q].tickNum <= netTickNum[q]
         /\ HoldsWindow(server'[q].buffer, q, server'[q].tickNum)
<1>1. server[q] \in Synchronizer /\ server[q].tickNum \in OptTick /\ netTickNum[q] \in OptTick
  BY TickTypes DEF Inv
<1>2. m \in Datagram
  BY DEF Inv, TypeInv, TypeOK
<1>3. m[q] \in PlayerPacket
  BY <1>2 DEF Datagram
<1>4. m[q].tickNum \in OptTick
  BY <1>3 DEF PlayerPacket
<1>5. /\ server[q].lastTickAcked = server[q].tickNum
      /\ server[q].tickNum <= netTickNum[q]
      /\ HoldsWindow(server[q].buffer, q, server[q].tickNum)
  BY DEF Inv, RelayInv, ServerInv, ServerHoldsWindow
<1>6. /\ m[q].tickNum - m[q].count <= server[q].tickNum
      /\ m[q].count > 0 => Exact(q, m[q])
      /\ m[q].tickNum <= netTickNum[q]
  <2>1. CASE q = p
    BY <2>1 DEF Inv, RelayInv, RequestInv
  <2>2. CASE q # p
    <3>1. m[q].count = 0 /\ m[q].tickNum <= server[q].tickNum
      BY <2>2 DEF Inv, RelayInv, RequestInv
    <3> QED BY <1>1, <1>4, <1>5, <3>1 DEF OptTick, NoTick
  <2> QED BY <2>1, <2>2
<1>7. server'[q] = UpdateFromPacket(server[q], m[q])
  BY DEF UpdateServerData
<1>8. LET s2 == UpdateFromPacket(server[q], m[q])
      IN  /\ s2.tickNum = IF m[q].tickNum > server[q].tickNum THEN m[q].tickNum
                          ELSE server[q].tickNum
          /\ s2.lastTickAcked = s2.tickNum
          /\ HoldsWindow(s2.buffer, q, s2.tickNum)
  BY <1>1, <1>3, <1>5, <1>6, UpdateFromPacketExact
<1> QED BY <1>1, <1>4, <1>5, <1>6, <1>7, <1>8 DEF OptTick, NoTick

\* The server takes in a true request and answers with a true reply.
LEMMA ServerDoWorkRelayInv ==
  ASSUME Inv, TypeInv', NEW p \in Players, ServerDoWork(p)
  PROVE  RelayInv'
<1>1. PICK m \in toServer[p] :
        /\ UpdateServerData(m)
        /\ Respond(p, m, server')
        /\ toServer' \in {toServer, [toServer EXCEPT ![p] = @ \ {m}]}
        /\ UNCHANGED <<mainVars, sharedVars, netVars, playerNumber, fatal>>
  BY DEF ServerDoWork
<1> DEFINE Fits == \A q \in Players : CanGetPaket(server'[q], ReplyBase(m, q))
           r    == [q \in Players |-> GetPaket(server'[q], ReplyBase(m, q))]
<1>2. UNCHANGED <<tickNum, frame, netTickNum, sync, inputQueue, received, reply, nextPlayer,
                  playerNumber, fatal>>
  BY <1>1 DEF mainVars, sharedVars, netVars
<1>3. toClient' = toClient \/ (Fits /\ toClient' = [toClient EXCEPT ![p] = Append(@, r)])
  BY <1>1 DEF Respond
<1>4. \A q \in Players : /\ server'[q].lastTickAcked = server'[q].tickNum
                         /\ server[q].tickNum <= server'[q].tickNum
                         /\ m[q].tickNum <= server'[q].tickNum
                         /\ server'[q].tickNum <= netTickNum[q]
                         /\ HoldsWindow(server'[q].buffer, q, server'[q].tickNum)
  BY <1>1, UpdateServerDataExact
<1>5. \A q \in Players : /\ server[q].tickNum \in OptTick
                         /\ server'[q] \in Synchronizer
                         /\ server'[q].tickNum \in OptTick
                         /\ netTickNum[q] \in OptTick
                         /\ netTickNum[q] <= GameDuration + MaxTicks
  BY TickTypes DEF Inv, TypeInv, TypeOK, Synchronizer
<1>6. \A q \in Players : \A t : t \in OptTick /\ t <= server[q].tickNum => t <= server'[q].tickNum
  BY <1>4, <1>5 DEF OptTick, NoTick
<1>7. \A q \in Players : m[q].tickNum \in OptTick
  <2>1. m \in Datagram
    BY DEF Inv, TypeInv, TypeOK
  <2> QED BY <2>1 DEF Datagram, PlayerPacket
<1>8. ASSUME Fits, NEW q \in Players
      PROVE  Exact(q, r[q]) /\ r[q].tickNum <= server'[q].tickNum
  <2> DEFINE s == server'[q]
  <2>1. /\ s \in Synchronizer /\ s.tickNum \in OptTick
        /\ HoldsWindow(s.buffer, q, s.tickNum)
        /\ m[q].tickNum \in OptTick
    BY <1>4, <1>5, <1>7
  <2>2. s.tickNum <= GameDuration + MaxTicks
    <3>1. GameDuration + MaxTicks \in Nat
      BY InputRelayAssumption, InputSyncAssumption
    <3> QED BY <1>4, <1>5, <3>1 DEF OptTick, NoTick
  <2>3. CanGetPaket(s, m[q].tickNum) /\ r[q] = GetPaket(s, m[q].tickNum)
    BY <1>8 DEF ReplyBase
  <2> HIDE DEF s, r
  <2>4. Exact(q, GetPaket(s, m[q].tickNum)) /\ GetPaket(s, m[q].tickNum).tickNum = s.tickNum
    BY <2>1, <2>2, <2>3, GetPaketExact
  <2> QED BY <2>1, <2>3, <2>4 DEF s, OptTick, NoTick
<1> HIDE DEF r, Fits
<1>9. TickInv'
  BY DEF TypeInv
<1>10. ServerInv'
  BY <1>2, <1>4 DEF ServerInv, ServerHoldsWindow
<1>11. OwnWindowInv'
  <2>1. \A a \in Players : sync[a][a].lastTickAcked \in OptTick
    BY TickTypes DEF Inv
  <2> QED BY <1>2, <1>6, <2>1 DEF Inv, RelayInv, OwnWindowInv
<1>12. OtherWindowInv'
  <2>1. \A a, b \in Players : sync[a][b].tickNum \in OptTick
    BY TickTypes DEF Inv
  <2> QED BY <1>2, <1>6, <2>1 DEF Inv, RelayInv, OtherWindowInv
<1>13. RequestInv'
  <2> SUFFICES ASSUME NEW a \in Players, NEW x \in toServer[a]
               PROVE  /\ Exact(a, x[a])
                      /\ x[a].tickNum <= netTickNum[a]
                      /\ x[a].tickNum - x[a].count <= server'[a].tickNum
                      /\ \A q \in Players \ {a} : /\ x[q].count = 0
                                                  /\ x[q].tickNum <= server'[q].tickNum
    <3>1. toServer' \in {toServer, [toServer EXCEPT ![p] = @ \ {m}]}
      BY <1>1
    <3>2. toServer \in [Players -> SUBSET Datagram]
      BY DEF Inv, TypeInv, TypeOK
    <3>3. \A a \in Players : toServer'[a] \subseteq toServer[a]
      BY <3>1, <3>2
    <3> QED BY <1>2, <3>3 DEF RequestInv
  <2>1. /\ Exact(a, x[a])
        /\ x[a].tickNum <= netTickNum[a]
        /\ x[a].tickNum - x[a].count <= server[a].tickNum
        /\ \A q \in Players \ {a} : x[q].count = 0 /\ x[q].tickNum <= server[q].tickNum
    BY DEF Inv, RelayInv, RequestInv
  <2>2. x \in Datagram
    BY DEF Inv, TypeInv, TypeOK
  <2>3. \A q \in Players : x[q].tickNum \in OptTick /\ x[q].count \in 0 .. MaxTicks
    BY <2>2 DEF Datagram, PlayerPacket
  <2>4. x[a].tickNum - x[a].count <= server'[a].tickNum
    BY <1>4, <1>5, <2>1, <2>3, InputSyncAssumption DEF OptTick, NoTick
  <2> QED BY <1>6, <2>1, <2>3, <2>4
<1>14. ASSUME NEW x \in Datagram, TrueReply(x), NEW q \in Players
       PROVE  Exact(q, x[q]) /\ x[q].tickNum <= server'[q].tickNum
  <2>1. x[q].tickNum \in OptTick
    BY DEF Datagram, PlayerPacket
  <2> QED BY <1>6, <1>14, <2>1 DEF TrueReply
<1>15. ReplyInv'
  <2>1. /\ toClient \in [Players -> Seq(Datagram)]
        /\ toClient[p] \in Seq(Datagram)
        /\ reply \in [Players -> Datagram]
    BY DEF Inv, TypeInv, TypeOK
  <2>2. ReplyInv
    BY DEF Inv, RelayInv
  <2>3. ASSUME NEW a \in Players, NEW q \in Players
        PROVE  Exact(q, reply[a][q]) /\ reply[a][q].tickNum <= server'[q].tickNum
    <3>1. reply[a] \in Datagram /\ TrueReply(reply[a])
      BY <2>1, <2>2 DEF ReplyInv
    <3> QED BY <1>14, <3>1
  <2>4. ASSUME NEW a \in Players, NEW k \in DOMAIN toClient'[a], NEW q \in Players
        PROVE  /\ Exact(q, toClient'[a][k][q])
               /\ toClient'[a][k][q].tickNum <= server'[q].tickNum
    <3>1. ASSUME k \in DOMAIN toClient[a], toClient'[a][k] = toClient[a][k]
          PROVE  /\ Exact(q, toClient'[a][k][q])
                 /\ toClient'[a][k][q].tickNum <= server'[q].tickNum
      <4>1. toClient[a][k] \in Datagram /\ TrueReply(toClient[a][k])
        BY <2>1, <2>2, <3>1 DEF ReplyInv
      <4> QED BY <1>14, <3>1, <4>1
    <3>2. CASE toClient'[a] = toClient[a]
      BY <2>4, <3>1, <3>2
    <3>3. CASE a = p /\ Fits /\ toClient'[a] = Append(toClient[p], r)
      <4>1. CASE k = Len(toClient[p]) + 1
        <5>1. toClient'[a][k] = r
          BY <2>1, <3>3, <4>1
        <5> QED BY <1>8, <3>3, <5>1
      <4>2. CASE k # Len(toClient[p]) + 1
        <5>1. k \in DOMAIN toClient[p] /\ toClient'[a][k] = toClient[p][k]
          BY <2>1, <2>4, <3>3, <4>2
        <5> QED BY <3>1, <3>3, <5>1
      <4> QED BY <4>1, <4>2
    <3> QED BY <1>3, <2>1, <3>2, <3>3
  <2> QED BY <1>2, <2>3, <2>4 DEF ReplyInv, TrueReply
<1>16. DeliveryInv'
  <2>1. ASSUME NEW a \in Players, NEW k \in DOMAIN inputQueue[a]
        PROVE  LET u == inputQueue[a][k]
               IN  u.playerNum # a /\ \A x \in WrittenInputs(u) :
                     /\ x[1] <= server'[u.playerNum].tickNum
                     /\ x[2] = UserInput[u.playerNum][x[1]]
    <3> DEFINE u == inputQueue[a][k]
    <3>1. u.playerNum # a /\ \A x \in WrittenInputs(u) : TrueInput(u.playerNum, x)
      BY DEF Inv, RelayInv, DeliveryInv
    <3>2. u \in TickInput
      <4>1. inputQueue[a] \in Seq(TickInput)
        BY DEF Inv, TypeInv, TypeOK
      <4> QED BY <4>1
    <3> HIDE DEF u
    <3>3. u.playerNum \in Players /\ \A x \in WrittenInputs(u) : x[1] \in OptTick
      BY <3>2, WrittenInputsType DEF TickInput, OptTick
    <3> QED BY <1>6, <3>1, <3>3 DEF TrueInput, u
  <2>2. ASSUME NEW a \in Players, NEW q \in Players, NEW x \in received[a][q]
        PROVE  x[1] <= server'[q].tickNum /\ x[2] = UserInput[q][x[1]]
    <3>1. TrueInput(q, x)
      BY DEF Inv, RelayInv, DeliveryInv
    <3>2. x[1] \in OptTick
      <4>1. received[a][q] \in SUBSET (Nat \X (Inputs \cup {NoInput}))
        BY DEF Inv, TypeInv, TypeOK
      <4> QED BY <4>1 DEF OptTick
    <3> QED BY <1>6, <3>1, <3>2 DEF TrueInput
  <2> QED BY <1>2, <2>1, <2>2 DEF DeliveryInv, TrueInput
<1>17. NumbersKept' /\ fatal' = {}
  BY <1>2 DEF Inv, RelayInv, NumbersKept
<1> QED BY <1>9, <1>10, <1>11, <1>12, <1>13, <1>15, <1>16, <1>17 DEF RelayInv

\* A client that reads its own number in a reply without a root has it already.
LEMMA ReceiveNumberIdle ==
  ASSUME Inv, NoneMisread, NEW p \in Players, ReceiveNumber(p)
  PROVE  UNCHANGED vars
<1>1. PICK n \in rootless[p] : playerNumber' = [playerNumber EXCEPT ![p] = n]
  BY DEF ReceiveNumber
<1>2. n = p /\ playerNumber[p] = p /\ playerNumber \in [Players -> Nat]
  BY DEF NoneMisread, Inv, TypeInv, TypeOK, RelayInv, NumbersKept
<1>3. playerNumber' = playerNumber
  BY <1>1, <1>2
<1> QED BY <1>3 DEF ReceiveNumber, vars

\* Every step keeps the invariant, as long as no reply is misread.
LEMMA NextInv ==
  ASSUME Inv, NoneMisread, [Next]_vars
  PROVE  Inv'
<1>1. TypeInv'
  BY NextTypeInv DEF Inv
<1>2. CASE UNCHANGED vars
  BY <1>1, <1>2
     DEF Inv, RelayInv, vars, mainVars, sharedVars, netVars, TickInv, ServerInv,
         ServerHoldsWindow, OwnWindowInv, OtherWindowInv, RequestInv, ReplyInv, TrueReply,
         DeliveryInv, TrueInput, NumbersKept
<1>3. ASSUME NEW p \in Players,
             MainThread(p) \/ NetworkThread(p) \/ ServerDoWork(p) \/ Network(p)
      PROVE  RelayInv'
  <2>1. CASE ReceiveNumber(p)
    BY <1>2, <2>1, ReceiveNumberIdle DEF Inv
  <2> QED BY <1>1, <1>3, <2>1, DequeueInputsRelayInv, EnqueueTickRelayInv, SendTicksRelayInv,
             ReceiveReplyRelayInv, HandleSyncRelayInv, ServerDoWorkRelayInv, NetworkRelayInv
          DEF MainThread, NetworkThread
<1> QED BY <1>1, <1>2, <1>3 DEF Inv, Next

\* What the server has sent it has sent: a reply that may be misread stays so.
LEMMA MisreadStays ==
  ASSUME TypeInv, [Next]_vars, NoneMisread'
  PROVE  NoneMisread
<1>1. rootless \in [Players -> SUBSET Nat]
  BY DEF TypeInv, TypeOK
<1>2. UNCHANGED rootless \/ \E p \in Players : ServerDoWork(p)
  BY DEF Next, MainThread, NetworkThread, Network, vars, DequeueInputs, EnqueueTick, SendTicks,
         ReceiveReply, ReceiveNumber, HandleSync, LoseRequest, LoseReply, OvertakeReply
<1>3. \A p \in Players : rootless[p] \subseteq rootless'[p]
  <2>1. CASE \E p \in Players : ServerDoWork(p)
    <3>1. PICK p \in Players : \E m : Respond(p, m, server')
      BY <2>1 DEF ServerDoWork
    <3>2. rootless' = rootless \/ \E x : rootless' = [rootless EXCEPT ![p] = @ \cup x]
      BY <3>1 DEF Respond
    <3> QED BY <1>1, <3>2
  <2> QED BY <1>2, <2>1
<1> QED BY <1>3 DEF NoneMisread

-----------------------------------------------------------------------------
(* The properties.                                                         *)

\* In every reachable state, unless a reply has been sent that may be misread, what
\* a client says of itself is true, what the server stores and repeats is true, and
\* nobody is credited with a tick that is not yet known upstream.
THEOREM InvCorrect == Spec => [](NoneMisread => Inv)
<1>1. Init => Inv
  BY InitTypeInv, InitRelayInv DEF Inv
<1>2. TypeInv /\ (NoneMisread => Inv) /\ [Next]_vars => (NoneMisread => Inv)'
  BY NextInv, MisreadStays
<1> QED BY <1>1, <1>2, TypeCorrect, PTL DEF Spec

\* The part of the invariant that InputRelay states.
THEOREM RelayCorrect == Spec => [](NoneMisread => RelayInv)
<1>1. Inv => RelayInv
  BY DEF Inv
<1> QED BY <1>1, InvCorrect, PTL

\* "Received inputs for current player!" and "Attempted to overwrite local
\* player's inputs" never happen, whatever is lost, repeated or overtaken, as long
\* as no reply without a root can be misread as another player's number.
THEOREM NeverFatal == Spec => []NoFatalError
<1>1. (NoneMisread => Inv) => NoFatalError
  BY DEF NoFatalError, Inv, RelayInv
<1> QED BY <1>1, InvCorrect, PTL

\* As long as that is so, every client also has the number it was given.
THEOREM NumbersStay == Spec => [](NoneMisread => NumbersKept)
<1>1. RelayInv => NumbersKept
  BY DEF RelayInv
<1> QED BY <1>1, RelayCorrect, PTL

\* Every window the server can be asked for and that fits in a packet is in its
\* ring, intact.
THEOREM ServerKeepsWindow == Spec => [](NoneMisread => ServerHoldsWindow)
<1>1. Inv => ServerHoldsWindow
  BY DEF Inv, RelayInv, ServerInv
<1> QED BY <1>1, InvCorrect, PTL

\* A client keeps an input in the window it sends until the server has it.
THEOREM NothingSkipped == Spec => []WindowNeverSkipsServer
<1>1. (NoneMisread => Inv) => WindowNeverSkipsServer
  BY DEF Inv, RelayInv, OwnWindowInv, WindowNeverSkipsServer
<1> QED BY <1>1, InvCorrect, PTL

\* Every input that a client writes into a tick is the one its player made in
\* that tick.
THEOREM ReceivedExact == Spec => []ReceivedInputsExact
<1>1. ASSUME NoneMisread => Inv PROVE ReceivedInputsExact
  <2> SUFFICES ASSUME NoneMisread,
                      NEW p \in Players, NEW q \in Players, NEW r \in received[p][q]
               PROVE  r[1] \in Ticks /\ r[2] = UserInput[q][r[1]]
    BY DEF ReceivedInputsExact
  <2>1. TrueInput(q, r)
    BY <1>1 DEF Inv, RelayInv, DeliveryInv
  <2>2. r[1] \in Nat
    BY <1>1 DEF Inv, TypeInv, TypeOK
  <2>3. /\ server[q].tickNum \in OptTick /\ netTickNum[q] \in OptTick
        /\ netTickNum[q] <= GameDuration + MaxTicks
        /\ server[q].tickNum <= netTickNum[q]
    BY <1>1, TickTypes DEF Inv, RelayInv, ServerInv
  <2>4. GameDuration + MaxTicks \in Nat
    BY InputRelayAssumption, InputSyncAssumption
  <2> QED BY <2>1, <2>2, <2>3, <2>4 DEF TrueInput, Ticks, OptTick, NoTick
<1> QED BY <1>1, InvCorrect, PTL

\* No packet makes a window of the server go back, even one that is too short or
\* not true of its player.
LEMMA PacketKeepsWindow ==
  ASSUME NEW s \in Synchronizer, NEW pkt \in PlayerPacket, s.tickNum <= s.lastTickAcked
  PROVE  LET s2 == UpdateFromPacket(s, pkt)
         IN  /\ s.tickNum <= s2.tickNum
             /\ s.lastTickAcked <= s2.lastTickAcked
             /\ s2.tickNum <= s2.lastTickAcked
<1> DEFINE ack == s.lastTickAcked
           r   == ParsePaket(pkt, ack)
           s1  == [s EXCEPT !.lastTickAcked = r.lastTickAcked]
           s2  == UpdateFromPacket(s, pkt)
<1>1. /\ ack \in OptTick /\ s.tickNum \in OptTick
      /\ pkt.tickNum \in OptTick /\ pkt.count \in 0 .. MaxTicks
      /\ TickAfter(ack) = ack + 1
  BY TickAfterAck DEF Synchronizer, PlayerPacket
<1>2. r \in ParseResult
  BY <1>1, ParsePaketType
<1>3. s1 \in Synchronizer /\ s1.tickNum = s.tickNum /\ s1.lastTickAcked = r.lastTickAcked
  BY <1>2 DEF Synchronizer, ParseResult
<1>4. /\ ack <= r.lastTickAcked
      /\ r.count > 0 => r.firstTick + r.count - 1 = r.lastTickAcked
  <2>1. CASE Ignored(pkt, ack)
    BY <1>1, <2>1 DEF ParsePaket, NothingParsed, OptTick, NoTick
  <2>2. CASE ~Ignored(pkt, ack) /\ TooShort(pkt, ack)
    BY <1>1, <2>2 DEF ParsePaket, NothingParsed, Ignored, OptTick, NoTick
  <2>3. CASE ~Ignored(pkt, ack) /\ ~TooShort(pkt, ack)
    BY <1>1, <2>3 DEF ParsePaket, Ignored, OptTick, NoTick
  <2> QED BY <2>1, <2>2, <2>3
<1>5. r.firstTick \in Nat /\ r.count \in 0 .. MaxTicks /\ r.inputs \in Vector
      /\ r.lastTickAcked \in OptTick
  BY <1>2 DEF ParseResult
<1>6. s2 = EnqueueAll(s1, r.firstTick, r.count, r.inputs)
  BY DEF UpdateFromPacket
<1> HIDE DEF r, s1, s2
<1>7. /\ s2.lastTickAcked = s1.lastTickAcked
      /\ s2.tickNum = IF r.count > 0 THEN r.firstTick + r.count - 1 ELSE s1.tickNum
  BY <1>3, <1>5, <1>6, EnqueueAllBuffer
<1>8. s.tickNum <= s2.tickNum /\ ack <= s2.lastTickAcked /\ s2.tickNum <= s2.lastTickAcked
  BY <1>1, <1>3, <1>4, <1>5, <1>7 DEF OptTick, NoTick
<1> QED BY <1>8 DEF s2

\* No datagram, however late or often it comes, makes the server go back; a client
\* that has been given another's number does not change that.
THEOREM NeverForgets == Spec => ServerNeverForgets
<1> DEFINE AckedAll == \A q \in Players : server[q].tickNum <= server[q].lastTickAcked
           Forward  == \A q \in Players :
                         /\ server'[q].lastTickAcked >= server[q].lastTickAcked
                         /\ server'[q].tickNum >= server[q].tickNum
<1>1. Init => AckedAll
  BY DEF Init, NewSynchronizer, NoTick
<1>2. ASSUME TypeInv, AckedAll, [Next]_vars
      PROVE  AckedAll' /\ [Forward]_server
  <2>1. UNCHANGED server \/ \E p \in Players : ServerDoWork(p)
    BY <1>2 DEF Next, MainThread, NetworkThread, Network, vars, DequeueInputs, EnqueueTick,
                SendTicks, ReceiveReply, ReceiveNumber, HandleSync, LoseRequest, LoseReply,
                OvertakeReply
  <2>2. CASE UNCHANGED server
    BY <1>2, <2>2
  <2>3. CASE \E p \in Players : ServerDoWork(p)
    <3>1. PICK p \in Players : \E m \in toServer[p] : UpdateServerData(m)
      BY <2>3 DEF ServerDoWork
    <3>2. PICK m \in toServer[p] : UpdateServerData(m)
      BY <3>1
    <3>3. m \in Datagram
      BY <1>2 DEF TypeInv, TypeOK
    <3>4. ASSUME NEW q \in Players
          PROVE  /\ server'[q].tickNum <= server'[q].lastTickAcked
                 /\ server'[q].lastTickAcked >= server[q].lastTickAcked
                 /\ server'[q].tickNum >= server[q].tickNum
      <4>1. server[q] \in Synchronizer /\ m[q] \in PlayerPacket
        BY <1>2, <3>3 DEF TypeInv, TypeOK, Datagram
      <4>2. server'[q] = UpdateFromPacket(server[q], m[q])
        BY <3>2 DEF UpdateServerData
      <4>3. server'[q] \in Synchronizer
        BY <4>1, <4>2, UpdateFromPacketType
      <4>4. /\ server[q].tickNum \in Int /\ server[q].lastTickAcked \in Int
            /\ server'[q].tickNum \in Int /\ server'[q].lastTickAcked \in Int
        BY <4>1, <4>3 DEF Synchronizer, OptTick, NoTick
      <4>5. server[q].tickNum <= server[q].lastTickAcked
        BY <1>2
      <4>6. /\ server[q].tickNum <= server'[q].tickNum
            /\ server[q].lastTickAcked <= server'[q].lastTickAcked
            /\ server'[q].tickNum <= server'[q].lastTickAcked
        BY <4>1, <4>2, <4>5, PacketKeepsWindow
      <4> QED BY <4>4, <4>6
    <3> QED BY <3>4
  <2> QED BY <2>1, <2>2, <2>3
<1> HIDE DEF AckedAll, Forward
<1>3. Spec => [][Forward]_server
  BY <1>1, <1>2, TypeCorrect, PTL DEF Spec
<1> QED BY <1>3 DEF ServerNeverForgets, Forward

\* The server's window of q is left alone by a packet that brings nothing new.
LEMMA OldPacketChangesNothing ==
  ASSUME NEW s \in Synchronizer, NEW pkt \in PlayerPacket, pkt.tickNum <= s.lastTickAcked
  PROVE  UpdateFromPacket(s, pkt) = s
<1>1. s.lastTickAcked \in OptTick /\ pkt.tickNum \in OptTick
      /\ TickAfter(s.lastTickAcked) = s.lastTickAcked + 1
  BY TickAfterAck DEF Synchronizer, PlayerPacket
<1>2. Ignored(pkt, s.lastTickAcked)
  BY <1>1 DEF Ignored, OptTick, NoTick
<1>3. UpdateFromPacket(s, pkt)
        = EnqueueAll([s EXCEPT !.lastTickAcked = s.lastTickAcked], 0, 0, EmptyVector)
  BY <1>2 DEF UpdateFromPacket, ParsePaket, NothingParsed
<1>4. [s EXCEPT !.lastTickAcked = s.lastTickAcked] = s
  BY DEF Synchronizer
<1>5. \A k : {i \in 0 .. 0 - 1 : Slot(0 + i) = k} = {}
  OBVIOUS
<1>6. EnqueueAll(s, 0, 0, EmptyVector)
        = [s EXCEPT !.tickNum = s.tickNum, !.buffer = [k \in Slots |-> s.buffer[k]]]
  BY <1>5 DEF EnqueueAll, Synchronizer
<1>7. [k \in Slots |-> s.buffer[k]] = s.buffer
  BY DEF Synchronizer
<1> QED BY <1>3, <1>4, <1>6, <1>7 DEF Synchronizer

\* A client that is cut off sends nothing about itself that the server lacks:
\* its window is too long, or it ends at its ack.
LEMMA CutOffSendsNothing ==
  ASSUME Inv, NEW p \in Players, CutOff(p), CanGetPaket(sync[p][p], sync[p][p].lastTickAcked)
  PROVE  sync[p][p].tickNum <= server[p].tickNum
<1> DEFINE last == sync[p][p].tickNum
           ack  == sync[p][p].lastTickAcked
<1>1. /\ last \in OptTick /\ ack \in OptTick
      /\ server[p].tickNum \in OptTick /\ netTickNum[p] \in OptTick
      /\ TickAfter(ack) = ack + 1
  BY TickTypes, TickAfterAck DEF Inv
<1>2. ack <= server[p].tickNum /\ last \in {ack, netTickNum[p]}
  BY DEF Inv, RelayInv, OwnWindowInv
<1>3. netTickNum[p] - server[p].tickNum > MaxTicks
  BY DEF Inv, RelayInv, TickInv, CutOff
<1>4. last = netTickNum[p] => last - ack > MaxTicks
  BY <1>1, <1>2, <1>3, InputSyncAssumption DEF OptTick, NoTick
<1>5. last = netTickNum[p] => ~CanGetPaket(sync[p][p], ack)
  BY <1>1, <1>4, InputSyncAssumption DEF CanGetPaket, SendCount, HasValue, OptTick, NoTick
<1> QED BY <1>2, <1>5

\* A client that falls too far behind never comes back, whatever arrives.
THEOREM NoWayBack == Spec => CutOffForGood
<1>1. ASSUME Inv, NoneMisread, [Next]_vars, NEW p \in Players, CutOff(p)
      PROVE  CutOff(p)' /\ UNCHANGED server[p]
  <2>1. /\ server[p] \in Synchronizer
        /\ server[p].tickNum \in OptTick
        /\ server[p].lastTickAcked = server[p].tickNum
        /\ tickNum[p] \in Nat
    BY <1>1, TickTypes DEF Inv, TypeInv, TypeOK, RelayInv, ServerInv
  <2>2. \A a \in Players : \A m \in toServer[a] : m[p].tickNum <= server[p].tickNum
    BY <1>1 DEF CutOff, Inv, RelayInv, RequestInv
  <2>3. \/ UNCHANGED server
        \/ \E a \in Players : \E m \in toServer[a] : UpdateServerData(m)
    BY <1>1 DEF Next, MainThread, NetworkThread, Network, ServerDoWork, vars, DequeueInputs,
                EnqueueTick, SendTicks, ReceiveReply, ReceiveNumber, HandleSync, LoseRequest,
                LoseReply, OvertakeReply
  <2>4. UNCHANGED server[p]
    <3>1. CASE \E a \in Players : \E m \in toServer[a] : UpdateServerData(m)
      <4>1. PICK a \in Players : \E m \in toServer[a] : UpdateServerData(m)
        BY <3>1
      <4>2. PICK m \in toServer[a] : UpdateServerData(m)
        BY <4>1
      <4>3. m \in Datagram
        BY <1>1 DEF Inv, TypeInv, TypeOK
      <4>4. m[p] \in PlayerPacket /\ m[p].tickNum <= server[p].lastTickAcked
        BY <2>1, <2>2, <4>3 DEF Datagram
      <4> QED BY <2>1, <4>2, <4>4, OldPacketChangesNothing DEF UpdateServerData
    <3> QED BY <2>3, <3>1
  <2>5. tickNum'[p] \in {tickNum[p], tickNum[p] + 1}
    <3>1. tickNum \in [Players -> Nat]
      BY <1>1 DEF Inv, TypeInv, TypeOK
    <3>2. UNCHANGED tickNum \/ \E a \in Players : EnqueueTick(a)
      BY <1>1 DEF Next, MainThread, NetworkThread, Network, ServerDoWork, vars, mainVars,
                  DequeueInputs, SendTicks, ReceiveReply, ReceiveNumber, HandleSync, LoseRequest,
                  LoseReply,
                  OvertakeReply
    <3> QED BY <3>1, <3>2 DEF EnqueueTick
  <2>6. \A m \in toServer'[p] : m[p].tickNum <= server[p].tickNum
    <3>1. toServer \in [Players -> SUBSET Datagram]
      BY <1>1 DEF Inv, TypeInv, TypeOK
    <3>2. toServer'[p] \subseteq toServer[p] \/ SendTicks(p)
      <4>1. \/ UNCHANGED toServer
            \/ \E a \in Players : SendTicks(a) \/ ServerDoWork(a) \/ LoseRequest(a)
        BY <1>1 DEF Next, MainThread, NetworkThread, Network, vars, DequeueInputs, EnqueueTick,
                    ReceiveReply, ReceiveNumber, HandleSync, LoseReply, OvertakeReply
      <4>2. ASSUME NEW a \in Players, ServerDoWork(a) \/ LoseRequest(a)
            PROVE  toServer'[p] \subseteq toServer[p]
        <5>1. PICK m \in toServer[a] :
                toServer' = toServer \/ toServer' = [toServer EXCEPT ![a] = @ \ {m}]
          BY <4>2 DEF ServerDoWork, LoseRequest
        <5> QED BY <3>1, <5>1
      <4>3. ASSUME NEW a \in Players, SendTicks(a), a # p
            PROVE  toServer'[p] = toServer[p]
        BY <3>1, <4>3 DEF SendTicks
      <4> QED BY <4>1, <4>2, <4>3
    <3>3. CASE SendTicks(p)
      <4> DEFINE sent == [q \in Players |-> GetPaket(sync[p][q], sync[p][q].lastTickAcked)]
      <4>1. \/ toServer' = toServer
            \/ /\ CanGetPaket(sync[p][p], sync[p][p].lastTickAcked)
               /\ toServer' = [toServer EXCEPT ![p] = @ \cup {sent}]
        BY <3>3 DEF SendTicks
      <4>2. sent[p].tickNum = sync[p][p].tickNum
        BY DEF GetPaket
      <4> HIDE DEF sent
      <4> QED BY <1>1, <2>2, <3>1, <4>1, <4>2, CutOffSendsNothing
    <3> QED BY <2>2, <3>2, <3>3
  <2>7. tickNum'[p] - 1 - server[p].tickNum > MaxTicks
    BY <1>1, <2>1, <2>5, InputSyncAssumption DEF CutOff, OptTick, NoTick
  <2> QED BY <2>4, <2>6, <2>7 DEF CutOff
<1> DEFINE Stays == NoneMisread =>
                      \A p \in Players : CutOff(p) => CutOff(p)' /\ UNCHANGED server[p]
<1>2. (NoneMisread => Inv) /\ [Next]_vars => [Stays]_vars
  BY <1>1
<1>3. Spec => [][Stays]_vars
  BY <1>2, InvCorrect, PTL DEF Spec
<1> QED BY <1>3 DEF CutOffForGood

\* A client that lacks more of another player than a packet holds never hears
\* from the server again.
THEOREM NoReplyAnyMore == Spec => DeafForGood
<1>1. ASSUME Inv, NoneMisread, [Next]_vars, NEW p \in Players, Deaf(p)
      PROVE  Deaf(p)'
  <2>1. PICK q \in Players \ {p} : DeafTo(p, q)
    BY <1>1 DEF Deaf
  <2>2. /\ server[q].tickNum \in OptTick /\ sync[p][q].tickNum \in OptTick
        /\ \A m \in toServer[p] : m[q].tickNum \in OptTick
    <3>1. toServer[p] \in SUBSET Datagram
      BY <1>1 DEF Inv, TypeInv, TypeOK
    <3>2. \A m \in toServer[p] : m[q] \in PlayerPacket
      BY <3>1 DEF Datagram
    <3> QED BY <1>1, <3>2, TickTypes DEF Inv, PlayerPacket
  <2>3. server'[q].tickNum \in OptTick /\ server[q].tickNum <= server'[q].tickNum
    <3>1. Inv'
      BY <1>1, NextInv
    <3>2. server'[q].tickNum \in OptTick
      BY <3>1 DEF Inv, TypeInv, TypeOK, Synchronizer
    <3>3. \/ UNCHANGED server
          \/ \E a \in Players : \E m \in toServer[a] : UpdateServerData(m)
      BY <1>1 DEF Next, MainThread, NetworkThread, Network, ServerDoWork, vars, DequeueInputs,
                  EnqueueTick, SendTicks, ReceiveReply, ReceiveNumber, HandleSync, LoseRequest,
                  LoseReply, OvertakeReply
    <3>4. CASE \E a \in Players : \E m \in toServer[a] : UpdateServerData(m)
      <4>1. PICK a \in Players : \E m \in toServer[a] : UpdateServerData(m)
        BY <3>4
      <4>2. PICK m \in toServer[a] : UpdateServerData(m)
        BY <4>1
      <4>3. \A b \in Players : server[b].tickNum <= server'[b].tickNum
        BY <1>1, <4>2, UpdateServerDataExact
      <4> QED BY <3>2, <4>3
    <3> QED BY <2>2, <3>2, <3>3, <3>4 DEF OptTick, NoTick
  <2>4. ASSUME NEW t \in OptTick, server[q].tickNum - t > MaxTicks
        PROVE  server'[q].tickNum - t > MaxTicks
    BY <2>2, <2>3, <2>4, InputSyncAssumption DEF OptTick, NoTick
  <2>5. nextPlayer[p] = NumPlayers /\ toClient[p] = <<>> /\ NumPlayers \notin Players
    BY <1>1, InputRelayAssumption DEF Deaf, Players
  <2>6. sync'[p][q] = sync[p][q] /\ nextPlayer'[p] = NumPlayers
    <3>1. /\ sync \in [Players -> [Players -> Synchronizer]]
          /\ nextPlayer \in [Players -> 0 .. NumPlayers]
      BY <1>1 DEF Inv, TypeInv, TypeOK
    <3>2. \/ UNCHANGED <<sync, nextPlayer>>
          \/ \E a \in Players : EnqueueTick(a) \/ ReceiveReply(a) \/ HandleSync(a)
      BY <1>1 DEF Next, MainThread, NetworkThread, Network, ServerDoWork, vars, sharedVars,
                  netVars, DequeueInputs, SendTicks, ReceiveNumber, LoseRequest, LoseReply,
                  OvertakeReply
    <3>3. ASSUME NEW a \in Players, EnqueueTick(a)
          PROVE  sync'[p][q] = sync[p][q] /\ nextPlayer'[p] = nextPlayer[p]
      <4>1. /\ \E s : sync' = [sync EXCEPT ![a][a] = s]
            /\ nextPlayer' = nextPlayer
        BY <1>1, <3>3 DEF EnqueueTick, netVars, Inv, RelayInv, NumbersKept
      <4> QED BY <3>1, <4>1
    <3>4. ASSUME NEW a \in Players, ReceiveReply(a)
          PROVE  sync'[p][q] = sync[p][q] /\ nextPlayer'[p] = nextPlayer[p]
      <4>1. a # p
        BY <2>5, <3>4 DEF ReceiveReply
      <4>2. sync' = sync /\ nextPlayer' = [nextPlayer EXCEPT ![a] = 0]
        BY <3>4 DEF ReceiveReply, sharedVars
      <4> QED BY <3>1, <4>1, <4>2
    <3>5. ASSUME NEW a \in Players, HandleSync(a)
          PROVE  sync'[p][q] = sync[p][q] /\ nextPlayer'[p] = nextPlayer[p]
      <4>1. nextPlayer[a] \in Players
        BY <3>5 DEF HandleSync
      <4>2. a # p
        BY <2>5, <4>1
      <4>3. \/ UNCHANGED <<sync, nextPlayer>>
            \/ \E b \in Players : \E s : /\ sync' = [sync EXCEPT ![a][b] = s]
                                         /\ nextPlayer' = [nextPlayer EXCEPT ![a] = b + 1]
        BY <3>5, <4>1 DEF HandleSync, netVars
      <4> QED BY <3>1, <4>2, <4>3
    <3> QED BY <2>5, <3>2, <3>3, <3>4, <3>5
  <2>7. \A m \in toServer'[p] : m[q].tickNum \in OptTick
                               /\ server[q].tickNum - m[q].tickNum > MaxTicks
    <3>1. toServer \in [Players -> SUBSET Datagram]
      BY <1>1 DEF Inv, TypeInv, TypeOK
    <3>2. \/ UNCHANGED toServer
          \/ \E a \in Players : SendTicks(a) \/ ServerDoWork(a) \/ LoseRequest(a)
      BY <1>1 DEF Next, MainThread, NetworkThread, Network, vars, DequeueInputs, EnqueueTick,
                  ReceiveReply, ReceiveNumber, HandleSync, LoseReply, OvertakeReply
    <3>3. ASSUME NEW a \in Players, ServerDoWork(a) \/ LoseRequest(a)
          PROVE  toServer'[p] \subseteq toServer[p]
      <4>1. PICK m \in toServer[a] :
              toServer' = toServer \/ toServer' = [toServer EXCEPT ![a] = @ \ {m}]
        BY <3>3 DEF ServerDoWork, LoseRequest
      <4> QED BY <3>1, <4>1
    <3>4. ASSUME NEW a \in Players, SendTicks(a), NEW m \in toServer'[p]
          PROVE  m \in toServer[p] \/ m[q].tickNum = sync[p][q].tickNum
      <4> DEFINE sent == [b \in Players |-> GetPaket(sync[a][b], sync[a][b].lastTickAcked)]
      <4>1. toServer' \in {toServer, [toServer EXCEPT ![a] = @ \cup {sent}]}
        BY <3>4 DEF SendTicks
      <4>2. sent[q].tickNum = sync[a][q].tickNum
        BY DEF GetPaket
      <4> HIDE DEF sent
      <4> QED BY <3>1, <3>4, <4>1, <4>2
    <3>5. \A m \in toServer'[p] : m \in toServer[p] \/ m[q].tickNum = sync[p][q].tickNum
      BY <3>2, <3>3, <3>4
    <3> QED BY <2>1, <2>2, <3>5 DEF DeafTo
  <2>8. toClient'[p] = <<>>
    <3>1. toClient \in [Players -> Seq(Datagram)]
      BY <1>1 DEF Inv, TypeInv, TypeOK
    <3>2. \/ UNCHANGED toClient
          \/ \E a \in Players : \/ ReceiveReply(a) \/ ServerDoWork(a)
                                \/ LoseReply(a) \/ OvertakeReply(a)
      BY <1>1 DEF Next, MainThread, NetworkThread, Network, vars, DequeueInputs, EnqueueTick,
                  SendTicks, ReceiveNumber, HandleSync, LoseRequest
    <3>3. ASSUME NEW a \in Players, ReceiveReply(a) \/ LoseReply(a) \/ OvertakeReply(a)
          PROVE  toClient'[p] = toClient[p]
      <4>1. toClient' = toClient \/ \E s : toClient' = [toClient EXCEPT ![a] = s]
        BY <3>3 DEF ReceiveReply, LoseReply, OvertakeReply
      <4>2. a # p
        BY <2>5, <3>3 DEF ReceiveReply, LoseReply, OvertakeReply
      <4> QED BY <3>1, <4>1, <4>2
    <3>4. ASSUME NEW a \in Players, ServerDoWork(a)
          PROVE  toClient'[p] = toClient[p]
      <4>1. PICK m \in toServer[a] : Respond(a, m, server')
        BY <3>4 DEF ServerDoWork
      <4>2. toClient' = toClient \/ \E r : toClient' = [toClient EXCEPT ![a] = Append(@, r)]
        BY <4>1 DEF Respond
      <4>3. CASE a # p
        BY <3>1, <4>2, <4>3
      <4>4. CASE a = p
        <5>1. m[q].tickNum \in OptTick /\ server'[q].tickNum - m[q].tickNum > MaxTicks
          BY <2>1, <2>2, <2>4, <4>1, <4>4 DEF DeafTo
        <5>2. ~CanGetPaket(server'[q], m[q].tickNum)
          BY <2>3, <5>1, TickAfterAck, InputSyncAssumption
             DEF CanGetPaket, SendCount, HasValue, OptTick, NoTick
        <5> QED BY <4>1, <5>2 DEF Respond, ReplyBase
      <4> QED BY <4>3, <4>4
    <3> QED BY <2>5, <3>2, <3>3, <3>4
  <2>9. /\ server'[q].tickNum - sync'[p][q].tickNum > MaxTicks
        /\ \A m \in toServer'[p] : server'[q].tickNum - m[q].tickNum > MaxTicks
    BY <2>1, <2>2, <2>4, <2>6, <2>7 DEF DeafTo
  <2> QED BY <2>6, <2>8, <2>9 DEF Deaf, DeafTo
<1> DEFINE Stays == NoneMisread => \A p \in Players : Deaf(p) => Deaf(p)'
<1>2. (NoneMisread => Inv) /\ [Next]_vars => [Stays]_vars
  BY <1>1
<1>3. Spec => [][Stays]_vars
  BY <1>2, InvCorrect, PTL DEF Spec
<1> QED BY <1>3 DEF DeafForGood

-----------------------------------------------------------------------------
(* Replies in order: an ack never runs ahead of the hand-over, and the     *)
(* relay implements InputStream.                                           *)

\* A packet that is worked through at a given ack continues it: the packet is not
\* older, and its inputs reach back to the tick after the ack.
Continues(pkt, ack) == ack <= pkt.tickNum /\ pkt.tickNum - pkt.count <= ack

(***************************************************************************)
(* The order of what p has to learn of q.  No request names a tick that p  *)
(* does not have yet.  Replies come in the order of their ticks, and each  *)
(* continues the ack as it is now: as the ack only grows, up to the tick   *)
(* of the reply, it still does when the reply's turn comes.                *)
(***************************************************************************)
RequestsKnown(p, q) == \A m \in toServer[p] : m[q].tickNum <= sync[p][q].tickNum

InOrder(replies, q, ack) ==
  /\ \A j, k \in DOMAIN replies : j <= k => replies[j][q].tickNum <= replies[k][q].tickNum
  /\ \A k \in DOMAIN replies : Continues(replies[k][q], ack)

RepliesInOrder(p, q) == InOrder(toClient[p], q, sync[p][q].tickNum)

ReplyFirst(p, q) ==
  nextPlayer[p] <= q =>
    /\ Continues(reply[p][q], sync[p][q].tickNum)
    /\ \A k \in DOMAIN toClient[p] : reply[p][q].tickNum <= toClient[p][k][q].tickNum

OrderInv == \A p, q \in Players :
              p # q => RequestsKnown(p, q) /\ RepliesInOrder(p, q) /\ ReplyFirst(p, q)

(***************************************************************************)
(* The inputs of q that a client has when, on top of those it holds, it    *)
(* has taken the first n entries of its queue.                             *)
(***************************************************************************)
Taken(held, queue, q, n) ==
  held \cup UNION {WrittenInputs(queue[j]) : j \in {i \in 1 .. n : queue[i].playerNum = q}}

\* The entries of the queue continue the prefix that is held, up to the ack.
HandOver(p, q) ==
  /\ \A k \in DOMAIN inputQueue[p] :
       inputQueue[p][k].playerNum = q =>
         Taken(received[p][q], inputQueue[p], q, k - 1)
           = Stream!Prefix(q, inputQueue[p][k].tickNum)
  /\ Taken(received[p][q], inputQueue[p], q, Len(inputQueue[p]))
       = Stream!Prefix(q, sync[p][q].tickNum + 1)

HandOverInv == \A p, q \in Players : p # q => HandOver(p, q)

-----------------------------------------------------------------------------
(* Prefixes and queues.                                                    *)

\* What is in a prefix.
LEMMA PrefixDef ==
  ASSUME NEW q, NEW n \in Nat, NEW r
  PROVE  r \in Stream!Prefix(q, n) <=> \E t \in Nat : t < n /\ r = <<t, UserInput[q][t]>>
BY DEF Stream!Prefix

\* True inputs that start where a prefix ends make a longer prefix.
LEMMA PrefixContinues ==
  ASSUME NEW q, NEW u \in TickInput, \A r \in WrittenInputs(u) : TrueInput(q, r)
  PROVE  Stream!Prefix(q, u.tickNum) \cup WrittenInputs(u)
           = Stream!Prefix(q, u.tickNum + u.count)
<1> DEFINE n == u.tickNum
           c == u.count
<1>1. n \in Nat /\ c \in Nat
  BY InputSyncAssumption DEF TickInput
<1>2. ASSUME NEW i \in 0 .. c - 1
      PROVE  <<n + i, u.inputs[i]>> = <<n + i, UserInput[q][n + i]>>
  <2>1. <<n + i, u.inputs[i]>> \in WrittenInputs(u)
    BY DEF WrittenInputs
  <2> QED BY <2>1 DEF TrueInput
<1>3. WrittenInputs(u) = {<<n + i, UserInput[q][n + i]>> : i \in 0 .. c - 1}
  <2>1. WrittenInputs(u) = {<<n + i, u.inputs[i]>> : i \in 0 .. c - 1}
    BY DEF WrittenInputs
  <2> HIDE DEF n, c
  <2> QED BY <1>2, <2>1
<1> HIDE DEF n, c
<1>4. ASSUME NEW r
      PROVE  r \in WrittenInputs(u)
               <=> \E t \in Nat : n <= t /\ t < n + c /\ r = <<t, UserInput[q][t]>>
  <2>1. ASSUME NEW i \in 0 .. c - 1
        PROVE  n + i \in Nat /\ n <= n + i /\ n + i < n + c
    BY <1>1
  <2>2. ASSUME NEW t \in Nat, n <= t, t < n + c
        PROVE  t - n \in 0 .. c - 1 /\ n + (t - n) = t
    BY <1>1, <2>2
  <2> QED BY <1>3, <2>1, <2>2
<1>5. ASSUME NEW r
      PROVE  r \in Stream!Prefix(q, n) \cup WrittenInputs(u) <=> r \in Stream!Prefix(q, n + c)
  <2>1. n + c \in Nat /\ \A t \in Nat : t < n + c <=> t < n \/ (n <= t /\ t < n + c)
    BY <1>1
  <2> QED BY <1>1, <1>4, <2>1, PrefixDef
<1> QED BY <1>5 DEF n, c

\* What has been taken, element by element.
LEMMA TakenDef ==
  ASSUME NEW held, NEW queue, NEW q, NEW n, NEW r
  PROVE  r \in Taken(held, queue, q, n)
           <=> \/ r \in held
               \/ \E j \in 1 .. n : queue[j].playerNum = q /\ r \in WrittenInputs(queue[j])
BY DEF Taken

\* Taking the head of the queue moves what it brings from the queue to what is held.
LEMMA TakenTail ==
  ASSUME NEW held, NEW queue \in Seq(TickInput), queue # <<>>, NEW q,
         NEW n \in 0 .. Len(queue) - 1
  PROVE  Taken(IF Head(queue).playerNum = q THEN held \cup WrittenInputs(Head(queue)) ELSE held,
               Tail(queue), q, n)
           = Taken(held, queue, q, n + 1)
<1> DEFINE u  == Head(queue)
           h2 == IF u.playerNum = q THEN held \cup WrittenInputs(u) ELSE held
           q2 == Tail(queue)
<1>1. u = queue[1] /\ \A j \in 1 .. n : q2[j] = queue[j + 1]
  BY HeadTailProperties
<1> HIDE DEF u, q2
<1>2. ASSUME NEW r
      PROVE  r \in Taken(h2, q2, q, n) <=> r \in Taken(held, queue, q, n + 1)
  <2>1. r \in Taken(h2, q2, q, n)
          <=> \/ r \in h2
              \/ \E j \in 1 .. n : queue[j + 1].playerNum = q
                                  /\ r \in WrittenInputs(queue[j + 1])
    <3> HIDE DEF h2
    <3>1. r \in Taken(h2, q2, q, n)
            <=> r \in h2 \/ \E j \in 1 .. n : q2[j].playerNum = q /\ r \in WrittenInputs(q2[j])
      BY TakenDef
    <3> QED BY <1>1, <3>1
  <2>2. r \in h2 <=> r \in held \/ (queue[1].playerNum = q /\ r \in WrittenInputs(queue[1]))
    BY <1>1
  <2>3. (\E j \in 1 .. n + 1 : queue[j].playerNum = q /\ r \in WrittenInputs(queue[j]))
          <=> \/ queue[1].playerNum = q /\ r \in WrittenInputs(queue[1])
              \/ \E j \in 1 .. n : queue[j + 1].playerNum = q
                                  /\ r \in WrittenInputs(queue[j + 1])
    <3>1. 1 \in 1 .. n + 1 /\ \A j \in 1 .. n : j + 1 \in 1 .. n + 1
      OBVIOUS
    <3>2. \A j \in 1 .. n + 1 : j = 1 \/ (j - 1 \in 1 .. n /\ j = (j - 1) + 1)
      OBVIOUS
    <3> QED BY <3>1, <3>2
  <2> HIDE DEF h2
  <2>4. r \in Taken(held, queue, q, n + 1)
          <=> \/ r \in held
              \/ \E j \in 1 .. n + 1 : queue[j].playerNum = q /\ r \in WrittenInputs(queue[j])
    BY TakenDef
  <2> QED BY <2>1, <2>2, <2>3, <2>4
<1> QED BY <1>2 DEF u, q2

\* A new entry at the end of the queue changes nothing about those before it.
LEMMA TakenKept ==
  ASSUME NEW held, NEW queue \in Seq(TickInput), NEW u, NEW q, NEW n \in 0 .. Len(queue)
  PROVE  Taken(held, Append(queue, u), q, n) = Taken(held, queue, q, n)
<1> DEFINE q2 == Append(queue, u)
<1>1. \A j \in 1 .. n : q2[j] = queue[j]
  OBVIOUS
<1> HIDE DEF q2
<1>2. \A r : r \in Taken(held, q2, q, n) <=> r \in Taken(held, queue, q, n)
  BY <1>1, TakenDef
<1>3. Taken(held, q2, q, n) = Taken(held, queue, q, n)
  BY <1>2
<1> QED BY <1>3 DEF q2

\* It comes after what the queue has.
LEMMA TakenAppend ==
  ASSUME NEW held, NEW queue \in Seq(TickInput), NEW u, NEW q
  PROVE  Taken(held, Append(queue, u), q, Len(queue) + 1)
           = Taken(held, queue, q, Len(queue))
               \cup (IF u.playerNum = q THEN WrittenInputs(u) ELSE {})
<1> DEFINE q2  == Append(queue, u)
           len == Len(queue)
<1>1. /\ len \in Nat /\ q2[len + 1] = u
      /\ \A j \in 1 .. len : q2[j] = queue[j]
  OBVIOUS
<1> HIDE DEF q2, len
<1>2. ASSUME NEW r
      PROVE  r \in Taken(held, q2, q, len + 1)
               <=> r \in Taken(held, queue, q, len)
                         \cup (IF u.playerNum = q THEN WrittenInputs(u) ELSE {})
  <2>1. \A j : j \in 1 .. len + 1 <=> j \in 1 .. len \/ j = len + 1
    BY <1>1
  <2>2. (\E j \in 1 .. len + 1 : q2[j].playerNum = q /\ r \in WrittenInputs(q2[j]))
          <=> \/ \E j \in 1 .. len : queue[j].playerNum = q /\ r \in WrittenInputs(queue[j])
              \/ u.playerNum = q /\ r \in WrittenInputs(u)
    BY <1>1, <2>1
  <2>3. r \in Taken(held, q2, q, len + 1)
          <=> \/ r \in held
              \/ \E j \in 1 .. len + 1 : q2[j].playerNum = q /\ r \in WrittenInputs(q2[j])
    BY TakenDef
  <2>4. r \in Taken(held, queue, q, len)
          <=> \/ r \in held
              \/ \E j \in 1 .. len : queue[j].playerNum = q /\ r \in WrittenInputs(queue[j])
    BY TakenDef
  <2> QED BY <2>2, <2>3, <2>4
<1>3. Taken(held, q2, q, len + 1)
        = Taken(held, queue, q, len) \cup (IF u.playerNum = q THEN WrittenInputs(u) ELSE {})
  BY <1>2
<1> QED BY <1>3 DEF q2, len

\* A packet that continues the ack is taken in from the tick after the ack.
LEMMA ParseContinues ==
  ASSUME NEW pkt \in PlayerPacket, NEW ack \in OptTick, Continues(pkt, ack)
  PROVE  LET r == ParsePaket(pkt, ack)
         IN  /\ r.count = pkt.tickNum - ack
             /\ r.count > 0 => r.firstTick = ack + 1
<1>1. /\ pkt.tickNum \in OptTick /\ pkt.count \in 0 .. MaxTicks
      /\ TickAfter(ack) = ack + 1
  BY TickAfterAck DEF PlayerPacket
<1>2. CASE pkt.tickNum = ack
  <2>1. Ignored(pkt, ack)
    BY <1>1, <1>2 DEF Ignored, OptTick, NoTick
  <2>2. ParsePaket(pkt, ack).count = 0
    BY <2>1 DEF ParsePaket, NothingParsed
  <2> QED BY <1>1, <1>2, <2>2 DEF OptTick, NoTick
<1>3. CASE pkt.tickNum # ack
  <2>1. ~Ignored(pkt, ack) /\ ~TooShort(pkt, ack)
    BY <1>1, <1>3, InputSyncAssumption
       DEF Continues, Ignored, TooShort, HasValue, OptTick, NoTick
  <2>2. /\ ParsePaket(pkt, ack).count = pkt.tickNum - TickAfter(ack) + 1
        /\ ParsePaket(pkt, ack).firstTick = TickAfter(ack)
    BY <2>1 DEF ParsePaket
  <2> QED BY <1>1, <2>2 DEF OptTick, NoTick
<1> QED BY <1>2, <1>3

-----------------------------------------------------------------------------
(* Replies in order.                                                       *)

\* The ticks of datagrams and of sequences of them are ticks.
LEMMA DatagramTypes ==
  ASSUME NEW q \in Players
  PROVE  /\ \A m \in Datagram : /\ m[q] \in PlayerPacket
                               /\ m[q].tickNum \in OptTick
                               /\ m[q].count \in 0 .. MaxTicks
         /\ \A replies \in Seq(Datagram) : \A k \in DOMAIN replies :
              /\ replies[k] \in Datagram
              /\ replies[k][q].tickNum \in OptTick
              /\ replies[k][q].count \in 0 .. MaxTicks
BY DEF Datagram, PlayerPacket

\* Without its head a sequence of replies is still in order, and the head comes
\* before the rest.
LEMMA InOrderTail ==
  ASSUME NEW q, NEW ack, NEW replies \in Seq(Datagram), replies # <<>>, InOrder(replies, q, ack)
  PROVE  /\ InOrder(Tail(replies), q, ack)
         /\ Continues(Head(replies)[q], ack)
         /\ \A k \in DOMAIN replies : Head(replies)[q].tickNum <= replies[k][q].tickNum
         /\ \A k \in DOMAIN Tail(replies) :
              \E j \in DOMAIN replies : Tail(replies)[k] = replies[j]
<1> DEFINE rest == Tail(replies)
<1>1. /\ 1 \in DOMAIN replies /\ Head(replies) = replies[1]
      /\ \A k \in DOMAIN replies : 1 <= k
      /\ \A k \in DOMAIN rest : /\ k \in Nat /\ k + 1 \in DOMAIN replies
                              /\ rest[k] = replies[k + 1]
  BY HeadTailProperties
<1> HIDE DEF rest
<1>2. \A j, k \in DOMAIN rest : j <= k => j + 1 <= k + 1
  BY <1>1
<1>3. InOrder(rest, q, ack)
  BY <1>1, <1>2 DEF InOrder
<1> QED BY <1>1, <1>3 DEF InOrder, rest

\* A reply that is not older than the others and continues the ack can be added.
LEMMA InOrderAppend ==
  ASSUME NEW q, NEW ack, NEW replies \in Seq(Datagram), NEW r, InOrder(replies, q, ack),
         Continues(r[q], ack), r[q].tickNum \in Int,
         \A k \in DOMAIN replies : replies[k][q].tickNum <= r[q].tickNum
  PROVE  /\ InOrder(Append(replies, r), q, ack)
         /\ \A k \in DOMAIN Append(replies, r) :
              k \in DOMAIN replies \/ Append(replies, r)[k] = r
         /\ \A k \in DOMAIN replies : Append(replies, r)[k] = replies[k]
<1> DEFINE more == Append(replies, r)
           n    == Len(replies)
<1>1. /\ n \in Nat /\ DOMAIN replies = 1 .. n /\ DOMAIN more = 1 .. n + 1
      /\ more[n + 1] = r
      /\ \A k \in 1 .. n : more[k] = replies[k]
  OBVIOUS
<1> HIDE DEF more, n
<1>2. \A k \in 1 .. n + 1 : k \in 1 .. n \/ k = n + 1
  BY <1>1
<1>3. ASSUME NEW j \in DOMAIN more, NEW k \in DOMAIN more, j <= k
      PROVE  more[j][q].tickNum <= more[k][q].tickNum
  <2>1. CASE k = n + 1
    <3>1. CASE j = n + 1
      BY <1>1, <2>1, <3>1
    <3>2. CASE j \in 1 .. n
      BY <1>1, <2>1, <3>2
    <3> QED BY <1>1, <1>2, <3>1, <3>2
  <2>2. CASE k \in 1 .. n
    <3>1. j \in 1 .. n
      BY <1>1, <1>3, <2>2
    <3> QED BY <1>1, <1>3, <2>2, <3>1 DEF InOrder
  <2> QED BY <1>1, <1>2, <2>1, <2>2
<1>4. ASSUME NEW k \in DOMAIN more PROVE Continues(more[k][q], ack)
  BY <1>1, <1>2, <1>4 DEF InOrder
<1>5. InOrder(more, q, ack)
  BY <1>3, <1>4 DEF InOrder
<1>6. \A k \in DOMAIN more : k \in DOMAIN replies \/ more[k] = r
  BY <1>1, <1>2
<1> QED BY <1>1, <1>5, <1>6 DEF more

-----------------------------------------------------------------------------
(* Every step keeps replies in order and the hand-over complete.           *)

Ordered == OrderInv /\ HandOverInv

\* Initially nothing is under way and nothing is held.
LEMMA InitOrdered == Init => Ordered
<1> SUFFICES ASSUME Init, NEW p \in Players, NEW q \in Players, p # q
             PROVE  RequestsKnown(p, q) /\ RepliesInOrder(p, q) /\ ReplyFirst(p, q)
                    /\ HandOver(p, q)
  BY DEF Ordered, OrderInv, HandOverInv
<1>1. /\ toServer[p] = {} /\ toClient[p] = <<>> /\ nextPlayer[p] = NumPlayers
      /\ inputQueue[p] = <<>> /\ received[p][q] = {} /\ sync[p][q].tickNum = -1
  BY DEF Init, NewSynchronizer, NoTick
<1>2. ~(nextPlayer[p] <= q)
  BY <1>1, InputRelayAssumption DEF Players
<1>3. Taken({}, <<>>, q, 0) = {}
  BY DEF Taken
<1>4. Stream!Prefix(q, 0) = {}
  BY DEF Stream!Prefix
<1>5. HandOver(p, q)
  <2>1. Len(inputQueue[p]) = 0 /\ DOMAIN inputQueue[p] = {} /\ sync[p][q].tickNum + 1 = 0
    BY <1>1
  <2> QED BY <1>1, <1>3, <1>4, <2>1 DEF HandOver
<1> QED BY <1>1, <1>2, <1>5 DEF RequestsKnown, RepliesInOrder, InOrder, ReplyFirst

\* DoRollback takes the next entry of the queue: what is held grows by as much as
\* the queue gets shorter.
LEMMA DequeueInputsOrdered ==
  ASSUME Inv, Ordered, NEW p \in Players, DequeueInputs(p)
  PROVE  Ordered'
<1> DEFINE u == Head(inputQueue[p])
           c == u.playerNum
<1>1. /\ inputQueue \in [Players -> Seq(TickInput)]
      /\ inputQueue[p] \in Seq(TickInput) /\ inputQueue[p] # <<>>
      /\ received \in [Players -> [Players -> SUBSET (Nat \X (Inputs \cup {NoInput}))]]
  BY DEF Inv, TypeInv, TypeOK, DequeueInputs
<1>2. 1 \in DOMAIN inputQueue[p] /\ u = inputQueue[p][1] /\ u \in TickInput
  BY <1>1
<1>3. c # p /\ c \in Players /\ playerNumber[p] = p
  BY <1>2 DEF Inv, RelayInv, NumbersKept, DeliveryInv, TickInput
<1>4. /\ received' = [received EXCEPT ![p][c] = @ \cup WrittenInputs(u)]
      /\ inputQueue' = [inputQueue EXCEPT ![p] = Tail(@)]
      /\ UNCHANGED <<sync, reply, nextPlayer, toServer, toClient>>
  BY <1>3 DEF DequeueInputs, netVars
<1>5. OrderInv'
  BY <1>4 DEF Ordered, OrderInv, RequestsKnown, RepliesInOrder, InOrder, ReplyFirst
<1>6. ASSUME NEW a \in Players, NEW b \in Players, a # b
      PROVE  HandOver(a, b)'
  <2>1. HandOver(a, b)
    BY <1>6 DEF Ordered, HandOverInv
  <2>2. CASE a # p
    <3>1. inputQueue'[a] = inputQueue[a] /\ received'[a][b] = received[a][b]
      BY <1>1, <1>4, <2>2
    <3> QED BY <1>4, <2>1, <3>1 DEF HandOver
  <2>3. CASE a = p
    <3> DEFINE queue == inputQueue[p]
               rest  == Tail(queue)
               held  == received[p][b]
               held2 == IF c = b THEN held \cup WrittenInputs(u) ELSE held
    <3>1. inputQueue'[a] = rest /\ received'[a][b] = held2
      <4> HIDE DEF u
      <4> QED BY <1>1, <1>3, <1>4, <2>3
    <3>2. \A n \in 0 .. Len(queue) - 1 :
            Taken(held2, rest, b, n) = Taken(held, queue, b, n + 1)
      BY <1>1, TakenTail
    <3>3. /\ Len(queue) \in Nat \ {0} /\ Len(rest) = Len(queue) - 1
          /\ DOMAIN rest = 1 .. Len(queue) - 1 /\ DOMAIN queue = 1 .. Len(queue)
          /\ \A k \in 1 .. Len(queue) - 1 : rest[k] = queue[k + 1]
      BY <1>1, HeadTailProperties
    <3>4. /\ \A k \in DOMAIN queue :
               queue[k].playerNum = b =>
                 Taken(held, queue, b, k - 1) = Stream!Prefix(b, queue[k].tickNum)
          /\ Taken(held, queue, b, Len(queue)) = Stream!Prefix(b, sync[p][b].tickNum + 1)
      BY <2>1, <2>3 DEF HandOver
    <3> HIDE DEF queue, rest, held, held2
    <3>5. ASSUME NEW k \in DOMAIN rest, rest[k].playerNum = b
          PROVE  Taken(held2, rest, b, k - 1) = Stream!Prefix(b, rest[k].tickNum)
      <4>1. /\ k \in 1 .. Len(queue) - 1 /\ k - 1 \in 0 .. Len(queue) - 1
            /\ (k - 1) + 1 = k /\ (k + 1) - 1 = k /\ k + 1 \in DOMAIN queue
        BY <3>3, <3>5
      <4>2. Taken(held2, rest, b, k - 1) = Taken(held, queue, b, (k - 1) + 1)
        BY <3>2, <4>1
      <4>3. Taken(held, queue, b, (k + 1) - 1) = Stream!Prefix(b, queue[k + 1].tickNum)
        BY <3>3, <3>4, <3>5, <4>1
      <4> QED BY <3>3, <4>1, <4>2, <4>3
    <3>6. Taken(held2, rest, b, Len(rest)) = Stream!Prefix(b, sync[p][b].tickNum + 1)
      <4>1. Len(rest) \in 0 .. Len(queue) - 1 /\ Len(rest) + 1 = Len(queue)
        BY <3>3
      <4>2. Taken(held2, rest, b, Len(rest)) = Taken(held, queue, b, Len(rest) + 1)
        BY <3>2, <4>1
      <4> QED BY <3>4, <4>1, <4>2
    <3> QED BY <1>4, <2>3, <3>1, <3>5, <3>6 DEF HandOver
  <2> QED BY <2>2, <2>3
<1> QED BY <1>5, <1>6 DEF Ordered, HandOverInv

\* A tick of the client itself has nothing to do with what it knows of others.
LEMMA EnqueueTickOrdered ==
  ASSUME Inv, Ordered, NEW p \in Players, EnqueueTick(p)
  PROVE  Ordered'
<1>1. sync \in [Players -> [Players -> Synchronizer]]
  BY DEF Inv, TypeInv, TypeOK
<1>2. /\ \E x : sync' = [sync EXCEPT ![p][p] = x]
      /\ UNCHANGED <<inputQueue, received, reply, nextPlayer, toServer, toClient>>
  BY DEF EnqueueTick, netVars, Inv, RelayInv, NumbersKept
<1>3. \A a, b \in Players : a # b => sync'[a][b] = sync[a][b]
  BY <1>1, <1>2
<1>4. OrderInv'
  BY <1>2, <1>3 DEF Ordered, OrderInv, RequestsKnown, RepliesInOrder, InOrder, ReplyFirst
<1>5. HandOverInv'
  BY <1>2, <1>3 DEF Ordered, HandOverInv, HandOver
<1> QED BY <1>4, <1>5 DEF Ordered

\* A request names the ticks that the client has.
LEMMA SendTicksOrdered ==
  ASSUME Inv, Ordered, NEW p \in Players, SendTicks(p)
  PROVE  Ordered'
<1> DEFINE sent == [b \in Players |-> GetPaket(sync[p][b], sync[p][b].lastTickAcked)]
<1>1. toServer \in [Players -> SUBSET Datagram]
  BY DEF Inv, TypeInv, TypeOK
<1>2. /\ toServer' \in {toServer, [toServer EXCEPT ![p] = @ \cup {sent}]}
      /\ UNCHANGED <<sync, inputQueue, received, reply, nextPlayer, toClient>>
  BY DEF SendTicks, sharedVars, netVars
<1>3. \A b \in Players : sent[b].tickNum = sync[p][b].tickNum
  BY DEF GetPaket
<1> HIDE DEF sent
<1>4. ASSUME NEW a \in Players, NEW b \in Players, a # b
      PROVE  RequestsKnown(a, b)'
  <2>1. sync[a][b].tickNum <= sync[a][b].tickNum
    BY TickTypes DEF Inv, OptTick, NoTick
  <2>2. RequestsKnown(a, b)
    BY <1>4 DEF Ordered, OrderInv
  <2>3. \A m \in toServer'[a] : m \in toServer[a] \/ (a = p /\ m = sent)
    BY <1>1, <1>2
  <2> QED BY <1>2, <1>3, <2>1, <2>2, <2>3 DEF RequestsKnown
<1>5. OrderInv'
  BY <1>2, <1>4 DEF Ordered, OrderInv, RepliesInOrder, InOrder, ReplyFirst
<1>6. HandOverInv'
  BY <1>2 DEF Ordered, HandOverInv, HandOver
<1> QED BY <1>5, <1>6 DEF Ordered

\* The network thread takes the oldest reply.
LEMMA ReceiveReplyOrdered ==
  ASSUME Inv, Ordered, NEW p \in Players, ReceiveReply(p)
  PROVE  Ordered'
<1>1. /\ reply' = [reply EXCEPT ![p] = Head(toClient[p])]
      /\ nextPlayer' = [nextPlayer EXCEPT ![p] = 0]
      /\ toClient' \in {toClient, [toClient EXCEPT ![p] = Tail(@)]}
      /\ toClient[p] # <<>>
      /\ UNCHANGED <<sync, inputQueue, received, toServer>>
  BY DEF ReceiveReply, mainVars, sharedVars
<1>2. /\ reply \in [Players -> Datagram] /\ nextPlayer \in [Players -> 0 .. NumPlayers]
      /\ toClient \in [Players -> Seq(Datagram)] /\ toClient[p] \in Seq(Datagram)
  BY DEF Inv, TypeInv, TypeOK
<1>3. ASSUME NEW a \in Players, NEW b \in Players, a # b
      PROVE  RequestsKnown(a, b)' /\ RepliesInOrder(a, b)' /\ ReplyFirst(a, b)'
  <2>1. RequestsKnown(a, b) /\ RepliesInOrder(a, b) /\ ReplyFirst(a, b)
    BY <1>3 DEF Ordered, OrderInv
  <2>2. RequestsKnown(a, b)'
    BY <1>1, <2>1 DEF RequestsKnown
  <2>3. CASE a # p
    <3>1. toClient'[a] = toClient[a] /\ reply'[a] = reply[a] /\ nextPlayer'[a] = nextPlayer[a]
      BY <1>1, <1>2, <2>3
    <3>2. RepliesInOrder(a, b)'
      BY <1>1, <2>1, <3>1 DEF RepliesInOrder
    <3>3. ReplyFirst(a, b)'
      BY <1>1, <2>1, <3>1 DEF ReplyFirst
    <3> QED BY <2>2, <3>2, <3>3
  <2>4. CASE a = p
    <3>1. /\ toClient'[a] \in {toClient[p], Tail(toClient[p])}
          /\ reply'[a] = Head(toClient[p])
      BY <1>1, <1>2, <2>4
    <3>2. /\ InOrder(Tail(toClient[p]), b, sync[p][b].tickNum)
          /\ Continues(Head(toClient[p])[b], sync[p][b].tickNum)
          /\ \A k \in DOMAIN toClient[p] :
               Head(toClient[p])[b].tickNum <= toClient[p][k][b].tickNum
          /\ \A k \in DOMAIN Tail(toClient[p]) :
               \E j \in DOMAIN toClient[p] : Tail(toClient[p])[k] = toClient[p][j]
      <4>1. InOrder(toClient[p], b, sync[p][b].tickNum)
        BY <2>1, <2>4 DEF RepliesInOrder
      <4>2. toClient[p] # <<>> /\ toClient[p] \in Seq(Datagram)
        BY <1>1, <1>2
      <4> QED BY <4>1, <4>2, InOrderTail
    <3>3. RepliesInOrder(a, b)'
      BY <1>1, <2>1, <2>4, <3>1, <3>2 DEF RepliesInOrder
    <3>4. \A k \in DOMAIN toClient'[a] : reply'[a][b].tickNum <= toClient'[a][k][b].tickNum
      BY <3>1, <3>2
    <3>5. ReplyFirst(a, b)'
      BY <1>1, <2>4, <3>1, <3>2, <3>4 DEF ReplyFirst
    <3> QED BY <2>2, <3>3, <3>5
  <2> QED BY <2>3, <2>4
<1>4. HandOverInv'
  BY <1>1 DEF Ordered, HandOverInv, HandOver
<1> QED BY <1>3, <1>4 DEF Ordered, OrderInv

\* The network loses requests, and replies from the front.
LEMMA LossOrdered ==
  ASSUME Inv, Ordered, NEW p \in Players, LoseRequest(p) \/ LoseReply(p)
  PROVE  Ordered'
<1>1. /\ toServer \in [Players -> SUBSET Datagram]
      /\ toClient \in [Players -> Seq(Datagram)]
  BY DEF Inv, TypeInv, TypeOK
<1>2. UNCHANGED <<sync, inputQueue, received, reply, nextPlayer>>
  BY DEF LoseRequest, LoseReply, mainVars, sharedVars, netVars
<1>3. \A a \in Players : toServer'[a] \subseteq toServer[a]
  BY <1>1 DEF LoseRequest, LoseReply
<1>4. ASSUME NEW a \in Players
      PROVE  \/ toClient'[a] = toClient[a]
             \/ toClient[a] # <<>> /\ toClient'[a] = Tail(toClient[a])
  BY <1>1 DEF LoseRequest, LoseReply
<1>5. ASSUME NEW a \in Players, NEW b \in Players, a # b
      PROVE  RequestsKnown(a, b)' /\ RepliesInOrder(a, b)' /\ ReplyFirst(a, b)'
  <2>1. RequestsKnown(a, b) /\ RepliesInOrder(a, b) /\ ReplyFirst(a, b)
    BY <1>5 DEF Ordered, OrderInv
  <2>2. RequestsKnown(a, b)'
    BY <1>2, <1>3, <2>1 DEF RequestsKnown
  <2>3. /\ InOrder(toClient'[a], b, sync[a][b].tickNum)
        /\ \A k \in DOMAIN toClient'[a] :
             \E j \in DOMAIN toClient[a] : toClient'[a][k] = toClient[a][j]
    <3>1. toClient[a] \in Seq(Datagram)
      BY <1>1
    <3>2. CASE toClient'[a] = toClient[a]
      BY <2>1, <3>2 DEF RepliesInOrder
    <3>3. CASE toClient[a] # <<>> /\ toClient'[a] = Tail(toClient[a])
      <4>1. /\ InOrder(Tail(toClient[a]), b, sync[a][b].tickNum)
            /\ \A k \in DOMAIN Tail(toClient[a]) :
                 \E j \in DOMAIN toClient[a] : Tail(toClient[a])[k] = toClient[a][j]
        BY <2>1, <3>1, <3>3, InOrderTail DEF RepliesInOrder
      <4> QED BY <3>3, <4>1
    <3> QED BY <1>4, <3>2, <3>3
  <2>4. RepliesInOrder(a, b)'
    BY <1>2, <2>3 DEF RepliesInOrder
  <2>5. ReplyFirst(a, b)'
    BY <1>2, <2>1, <2>3 DEF ReplyFirst
  <2> QED BY <2>2, <2>4, <2>5
<1>6. HandOverInv'
  BY <1>2 DEF Ordered, HandOverInv, HandOver
<1> QED BY <1>5, <1>6 DEF Ordered, OrderInv

\* The server's newest reply is not older than the others, and starts no later than
\* after what the client already has.
LEMMA ServerDoWorkOrdered ==
  ASSUME Inv, Inv', Ordered, NEW p \in Players, ServerDoWork(p)
  PROVE  Ordered'
<1>1. PICK m \in toServer[p] :
        /\ UpdateServerData(m)
        /\ Respond(p, m, server')
        /\ toServer' \in {toServer, [toServer EXCEPT ![p] = @ \ {m}]}
        /\ UNCHANGED <<mainVars, sharedVars, netVars, playerNumber, fatal>>
  BY DEF ServerDoWork
<1> DEFINE Fits == \A q \in Players : CanGetPaket(server'[q], ReplyBase(m, q))
           r    == [q \in Players |-> GetPaket(server'[q], ReplyBase(m, q))]
<1>2. UNCHANGED <<sync, inputQueue, received, reply, nextPlayer>>
  BY <1>1 DEF mainVars, sharedVars, netVars
<1>3. toClient' = toClient \/ (Fits /\ toClient' = [toClient EXCEPT ![p] = Append(@, r)])
  BY <1>1 DEF Respond
<1>4. /\ toServer \in [Players -> SUBSET Datagram]
      /\ toClient \in [Players -> Seq(Datagram)] /\ toClient[p] \in Seq(Datagram)
      /\ m \in Datagram
  BY DEF Inv, TypeInv, TypeOK
<1>5. \A a \in Players : toServer'[a] \subseteq toServer[a]
  BY <1>1, <1>4
<1>6. ASSUME Fits, NEW b \in Players, p # b
      PROVE  /\ Continues(r[b], sync[p][b].tickNum)
             /\ r[b].tickNum \in Int
             /\ r[b].tickNum = server'[b].tickNum
             /\ server[b].tickNum <= server'[b].tickNum
  <2> DEFINE s   == server'[b]
             ack == m[b].tickNum
             pkt == GetPaket(s, ack)
  <2>1. /\ server[b].tickNum \in OptTick /\ sync[p][b].tickNum \in OptTick
        /\ sync[p][b].tickNum <= server[b].tickNum
        /\ ack \in OptTick /\ ack <= sync[p][b].tickNum
    BY <1>4, <1>6, TickTypes, DatagramTypes
       DEF Inv, RelayInv, OtherWindowInv, Ordered, OrderInv, RequestsKnown
  <2>2. /\ s \in Synchronizer /\ s.tickNum \in OptTick
        /\ s.tickNum <= netTickNum'[b] /\ netTickNum'[b] <= GameDuration + MaxTicks
        /\ netTickNum'[b] \in OptTick
        /\ HoldsWindow(s.buffer, b, s.tickNum)
    <3>1. TypeInv' /\ ServerInv'
      BY DEF Inv, RelayInv
    <3>2. /\ s \in Synchronizer /\ netTickNum' \in [Players -> OptTick]
          /\ tickNum'[b] \in Nat
          /\ tickNum'[b] <= GameDuration + MaxTicks /\ netTickNum'[b] = tickNum'[b] - 1
      BY <3>1 DEF TypeInv, TypeOK, TickInv
    <3>3. s.tickNum <= netTickNum'[b] /\ HoldsWindow(s.buffer, b, s.tickNum)
      BY <3>1 DEF ServerInv, ServerHoldsWindow
    <3> QED BY <3>2, <3>3, InputRelayAssumption, InputSyncAssumption DEF Synchronizer
  <2>3. s.tickNum <= GameDuration + MaxTicks
    <3>1. GameDuration + MaxTicks \in Nat
      BY InputRelayAssumption, InputSyncAssumption
    <3> QED BY <2>2, <3>1 DEF OptTick, NoTick
  <2>4. server[b].tickNum <= s.tickNum
    BY <1>1, UpdateServerDataExact
  <2>5. CanGetPaket(s, ack) /\ r[b] = pkt
    BY <1>6 DEF ReplyBase
  <2> HIDE DEF s, ack, r
  <2>6. pkt.tickNum = s.tickNum /\ pkt.count = IF s.tickNum > ack THEN s.tickNum - ack ELSE 0
    BY <2>1, <2>2, <2>3, <2>5, GetPaketExact
  <2> HIDE DEF pkt
  <2>7. s.tickNum \in Int /\ Continues(pkt, sync[p][b].tickNum)
    BY <2>1, <2>2, <2>4, <2>6 DEF Continues, OptTick, NoTick
  <2> QED BY <2>4, <2>5, <2>6, <2>7 DEF s
<1> HIDE DEF r, Fits
<1>7. ASSUME NEW a \in Players, NEW b \in Players, a # b
      PROVE  RequestsKnown(a, b)' /\ RepliesInOrder(a, b)' /\ ReplyFirst(a, b)'
  <2>1. RequestsKnown(a, b) /\ RepliesInOrder(a, b) /\ ReplyFirst(a, b)
    BY <1>7 DEF Ordered, OrderInv
  <2>2. RequestsKnown(a, b)'
    BY <1>2, <1>5, <2>1 DEF RequestsKnown
  <2>3. CASE toClient'[a] = toClient[a]
    BY <1>2, <2>1, <2>2, <2>3 DEF RepliesInOrder, ReplyFirst
  <2>4. CASE a = p /\ Fits /\ toClient'[a] = Append(toClient[p], r)
    <3>1. /\ reply[p] \in Datagram
          /\ reply[p][b].tickNum \in OptTick /\ reply[p][b].tickNum <= server[b].tickNum
      BY DatagramTypes DEF Inv, TypeInv, TypeOK, RelayInv, ReplyInv, TrueReply
    <3>2. \A k \in DOMAIN toClient[p] :
            toClient[p][k][b].tickNum \in OptTick /\ toClient[p][k][b].tickNum <= server[b].tickNum
      BY <1>4, DatagramTypes DEF Inv, RelayInv, ReplyInv, TrueReply
    <3>3. /\ Continues(r[b], sync[p][b].tickNum) /\ r[b].tickNum \in Int
          /\ server[b].tickNum <= r[b].tickNum /\ server[b].tickNum \in OptTick
      BY <1>6, <1>7, <2>4, TickTypes DEF Inv
    <3>4. /\ reply[p][b].tickNum <= r[b].tickNum
          /\ \A k \in DOMAIN toClient[p] : toClient[p][k][b].tickNum <= r[b].tickNum
      BY <3>1, <3>2, <3>3 DEF OptTick, NoTick
    <3>5. /\ InOrder(Append(toClient[p], r), b, sync[p][b].tickNum)
          /\ \A k \in DOMAIN Append(toClient[p], r) :
               k \in DOMAIN toClient[p] \/ Append(toClient[p], r)[k] = r
          /\ \A k \in DOMAIN toClient[p] : Append(toClient[p], r)[k] = toClient[p][k]
      <4>1. InOrder(toClient[p], b, sync[p][b].tickNum)
        BY <2>1, <2>4 DEF RepliesInOrder
      <4> QED BY <1>4, <3>3, <3>4, <4>1, InOrderAppend
    <3>6. RepliesInOrder(a, b)'
      BY <1>2, <2>4, <3>5 DEF RepliesInOrder
    <3>7. ReplyFirst(a, b)'
      <4>1. \A k \in DOMAIN toClient'[a] :
              (k \in DOMAIN toClient[a] /\ toClient'[a][k] = toClient[a][k])
                \/ toClient'[a][k] = r
        BY <2>4, <3>5
      <4> QED BY <1>2, <2>1, <2>4, <3>4, <4>1 DEF ReplyFirst
    <3> QED BY <2>2, <3>6, <3>7
  <2> QED BY <1>3, <1>4, <2>3, <2>4
<1>8. HandOverInv'
  BY <1>2 DEF Ordered, HandOverInv, HandOver
<1> QED BY <1>7, <1>8 DEF Ordered, OrderInv

\* A packet that continues the ack of another player: the ack becomes the tick of
\* the packet, and what the packet adds to the queue fills the gap exactly.
LEMMA HandleSyncExact ==
  ASSUME Inv, Ordered, NEW p \in Players, HandleSync(p)
  PROVE  LET q   == nextPlayer[p]
             pkt == reply[p][q]
             ack == sync[p][q].tickNum
         IN  /\ q \in Players
             /\ sync' = [sync EXCEPT ![p][q] = Ack(@, pkt.tickNum)]
             /\ nextPlayer' = [nextPlayer EXCEPT ![p] = q + 1]
             /\ reply' = IF q + 1 = NumPlayers THEN [reply EXCEPT ![p] = NoDatagram] ELSE reply
             /\ \/ /\ inputQueue' = inputQueue
                   /\ q # p => pkt.tickNum = ack
                \/ \E u \in TickInput :
                     /\ inputQueue' = [inputQueue EXCEPT ![p] = Append(@, u)]
                     /\ q # p
                     /\ u.playerNum = q
                     /\ u.tickNum = ack + 1
                     /\ u.tickNum + u.count = pkt.tickNum + 1
                     /\ \A r \in WrittenInputs(u) : TrueInput(q, r)
<1> DEFINE q      == nextPlayer[p]
           pkt    == reply[p][q]
           ack    == sync[p][q].tickNum
           parsed == ParsePaket(pkt, LastTickHeld(p, q))
           update == [playerNum |-> q, tickNum |-> parsed.firstTick,
                      count |-> parsed.count, inputs |-> parsed.inputs]
<1>1. q \in Players /\ pkt \in PlayerPacket
  BY DEF Inv, TypeInv, TypeOK, HandleSync, Datagram
<1>2. /\ pkt.tickNum \in OptTick /\ server[q].tickNum \in OptTick
      /\ ack \in OptTick /\ netTickNum[p] \in OptTick
      /\ LastTickHeld(p, q) \in OptTick
  BY <1>1, TickTypes DEF Inv, PlayerPacket, LastTickHeld
<1>3. Exact(q, pkt) /\ pkt.tickNum <= server[q].tickNum
  BY <1>1 DEF Inv, RelayInv, ReplyInv, TrueReply
<1>4. parsed \in ParseResult
  BY <1>1, <1>2, ParsePaketType
<1>5. /\ parsed.firstTick \in Nat /\ parsed.count \in 0 .. MaxTicks
      /\ \A i \in 0 .. parsed.count - 1 :
           /\ parsed.firstTick + i <= pkt.tickNum
           /\ parsed.inputs[i] = UserInput[q][parsed.firstTick + i]
      /\ parsed.count > 0 => pkt.tickNum > LastTickHeld(p, q)
  BY <1>1, <1>2, <1>3, <1>4, ParsePaketExact DEF ParseResult
<1>6. q # p => /\ parsed.count = pkt.tickNum - ack
               /\ parsed.count > 0 => parsed.firstTick = ack + 1
  <2> SUFFICES ASSUME q # p PROVE /\ parsed.count = pkt.tickNum - ack
                                  /\ parsed.count > 0 => parsed.firstTick = ack + 1
    OBVIOUS
  <2>1. LastTickHeld(p, q) = ack
    BY <1>1 DEF LastTickHeld, Inv, RelayInv, NumbersKept, OtherWindowInv
  <2>2. Continues(pkt, ack)
    BY <1>1, <1>2 DEF Ordered, OrderInv, ReplyFirst, OptTick, Players
  <2> HIDE DEF pkt, ack
  <2> QED BY <1>1, <1>2, <2>1, <2>2, ParseContinues
<1>7. q = p => parsed.count = 0
  <2> HIDE DEF parsed, pkt
  <2> SUFFICES ASSUME q = p PROVE parsed.count = 0
    OBVIOUS
  <2>1. LastTickHeld(p, q) = netTickNum[p]
    BY DEF LastTickHeld, Inv, RelayInv, NumbersKept
  <2>2. server[q].tickNum <= netTickNum[p]
    BY <1>1 DEF Inv, RelayInv, ServerInv
  <2> QED BY <1>2, <1>3, <1>5, <2>1, <2>2, InputSyncAssumption DEF OptTick, NoTick
<1>8. /\ sync' = [sync EXCEPT ![p][q] = Ack(@, pkt.tickNum)]
      /\ nextPlayer' = [nextPlayer EXCEPT ![p] = q + 1]
      /\ reply' = IF q + 1 = NumPlayers THEN [reply EXCEPT ![p] = NoDatagram] ELSE reply
      /\ \/ parsed.count = 0 /\ inputQueue' = inputQueue
         \/ parsed.count # 0 /\ inputQueue' = [inputQueue EXCEPT ![p] = Append(@, update)]
  <2>1. playerNumber[p] = p
    BY DEF Inv, RelayInv, NumbersKept
  <2> QED BY <1>7, <2>1 DEF HandleSync
<1>9. CASE parsed.count = 0
  <2>1. q # p => pkt.tickNum = ack
    <3> HIDE DEF parsed, pkt, ack
    <3> QED BY <1>2, <1>6, <1>9 DEF OptTick, NoTick
  <2> QED BY <1>1, <1>8, <1>9, <2>1
<1>10. CASE parsed.count # 0
  <2>1. q # p
    BY <1>7, <1>10
  <2>2. /\ update \in TickInput
        /\ update.playerNum = q /\ update.tickNum = parsed.firstTick
        /\ update.count = parsed.count /\ update.inputs = parsed.inputs
    BY <1>1, <1>4 DEF TickInput, ParseResult
  <2> HIDE DEF update
  <2>3. \A r \in WrittenInputs(update) : TrueInput(q, r)
    <3> HIDE DEF parsed, pkt
    <3> SUFFICES ASSUME NEW i \in 0 .. parsed.count - 1
                 PROVE  TrueInput(q, <<parsed.firstTick + i, parsed.inputs[i]>>)
      BY <2>2 DEF WrittenInputs
    <3>1. parsed.firstTick + i <= server[q].tickNum
      BY <1>2, <1>3, <1>5 DEF OptTick, NoTick
    <3> QED BY <1>5, <3>1 DEF TrueInput
  <2>4. update.tickNum = ack + 1 /\ update.tickNum + update.count = pkt.tickNum + 1
    <3> HIDE DEF parsed, pkt, ack
    <3> QED BY <1>2, <1>5, <1>6, <1>10, <2>1, <2>2 DEF OptTick, NoTick
  <2> HIDE DEF parsed
  <2>5. inputQueue' = [inputQueue EXCEPT ![p] = Append(@, update)]
    BY <1>8, <1>10
  <2> QED BY <1>1, <1>8, <2>1, <2>2, <2>3, <2>4, <2>5
<1> QED BY <1>9, <1>10

\* An entry of a reply is worked through: later replies continue the new ack, and
\* the hand-over keeps up with it.
LEMMA HandleSyncOrdered ==
  ASSUME Inv, Ordered, NEW p \in Players, HandleSync(p)
  PROVE  Ordered'
<1> DEFINE q   == nextPlayer[p]
           pkt == reply[p][q]
           ack == sync[p][q].tickNum
<1>1. /\ q \in Players
      /\ sync' = [sync EXCEPT ![p][q] = Ack(@, pkt.tickNum)]
      /\ nextPlayer' = [nextPlayer EXCEPT ![p] = q + 1]
      /\ reply' = IF q + 1 = NumPlayers THEN [reply EXCEPT ![p] = NoDatagram] ELSE reply
  BY HandleSyncExact
<1>2. \/ /\ inputQueue' = inputQueue
         /\ q # p => pkt.tickNum = ack
      \/ \E u \in TickInput :
           /\ inputQueue' = [inputQueue EXCEPT ![p] = Append(@, u)]
           /\ q # p
           /\ u.playerNum = q
           /\ u.tickNum = ack + 1
           /\ u.tickNum + u.count = pkt.tickNum + 1
           /\ \A r \in WrittenInputs(u) : TrueInput(q, r)
  BY HandleSyncExact
<1>3. UNCHANGED <<received, toServer, toClient>>
  BY DEF HandleSync, mainVars
<1>4. /\ sync \in [Players -> [Players -> Synchronizer]]
      /\ nextPlayer \in [Players -> 0 .. NumPlayers]
      /\ reply \in [Players -> Datagram]
      /\ inputQueue \in [Players -> Seq(TickInput)] /\ inputQueue[p] \in Seq(TickInput)
      /\ toServer \in [Players -> SUBSET Datagram]
      /\ toClient \in [Players -> Seq(Datagram)]
  BY DEF Inv, TypeInv, TypeOK
<1>5. /\ pkt \in PlayerPacket /\ pkt.tickNum \in OptTick /\ ack \in OptTick
      /\ pkt.count \in 0 .. MaxTicks
  BY <1>1, <1>4, TickTypes DEF Inv, Datagram, PlayerPacket
<1>6. /\ sync'[p][q].tickNum = pkt.tickNum
      /\ \A a, b \in Players : ~(a = p /\ b = q) => sync'[a][b] = sync[a][b]
  BY <1>1, <1>4 DEF Ack, Synchronizer
<1>7. q # p => /\ Continues(pkt, ack)
              /\ \A k \in DOMAIN toClient[p] : pkt.tickNum <= toClient[p][k][q].tickNum
  BY <1>1 DEF Ordered, OrderInv, ReplyFirst, Players
<1> HIDE DEF q, pkt
<1>8. ASSUME NEW a \in Players, NEW b \in Players, a # b
      PROVE  RequestsKnown(a, b)' /\ RepliesInOrder(a, b)' /\ ReplyFirst(a, b)'
  <2>1. RequestsKnown(a, b) /\ RepliesInOrder(a, b) /\ ReplyFirst(a, b)
    BY <1>8 DEF Ordered, OrderInv
  <2>2. CASE a = p /\ b = q
    <3>1. /\ ack <= pkt.tickNum
          /\ \A k \in DOMAIN toClient[p] : pkt.tickNum <= toClient[p][k][q].tickNum
      BY <1>7, <1>8, <2>2 DEF Continues
    <3>2. RequestsKnown(a, b)'
      <4>1. \A m \in toServer[p] : m[q].tickNum \in OptTick /\ m[q].tickNum <= ack
        BY <1>1, <1>4, <2>1, <2>2, DatagramTypes DEF RequestsKnown
      <4>2. \A m \in toServer[p] : m[q].tickNum <= pkt.tickNum
        <5> HIDE DEF ack
        <5> QED BY <1>5, <3>1, <4>1 DEF OptTick, NoTick
      <4> QED BY <1>3, <1>6, <2>2, <4>2 DEF RequestsKnown
    <3>3. RepliesInOrder(a, b)'
      <4>1. /\ \A j, k \in DOMAIN toClient[p] :
                 j <= k => toClient[p][j][q].tickNum <= toClient[p][k][q].tickNum
            /\ \A k \in DOMAIN toClient[p] : Continues(toClient[p][k][q], ack)
        BY <2>1, <2>2 DEF RepliesInOrder, InOrder
      <4>2. ASSUME NEW k \in DOMAIN toClient[p]
            PROVE  Continues(toClient[p][k][q], pkt.tickNum)
        <5>1. /\ toClient[p][k][q].tickNum \in OptTick
              /\ toClient[p][k][q].count \in 0 .. MaxTicks
          BY <1>1, <1>4, DatagramTypes
        <5>2. toClient[p][k][q].tickNum - toClient[p][k][q].count <= ack
          BY <4>1 DEF Continues
        <5> HIDE DEF ack
        <5> QED BY <1>5, <3>1, <5>1, <5>2 DEF Continues, OptTick, NoTick
      <4>3. InOrder(toClient[p], q, pkt.tickNum)
        BY <4>1, <4>2 DEF InOrder
      <4> QED BY <1>3, <1>6, <2>2, <4>3 DEF RepliesInOrder
    <3>4. ReplyFirst(a, b)'
      <4>1. nextPlayer'[p] = q + 1 /\ q \in Nat
        BY <1>1, <1>4 DEF Players
      <4>2. ~(nextPlayer'[a] <= b)
        BY <2>2, <4>1
      <4> QED BY <4>2 DEF ReplyFirst
    <3> QED BY <3>2, <3>3, <3>4
  <2>3. CASE ~(a = p /\ b = q)
    <3>1. sync'[a][b] = sync[a][b]
      BY <1>6, <2>3
    <3>2. RequestsKnown(a, b)' /\ RepliesInOrder(a, b)'
      BY <1>3, <2>1, <3>1 DEF RequestsKnown, RepliesInOrder
    <3>3. nextPlayer'[a] <= b => nextPlayer[a] <= b /\ reply'[a] = reply[a]
      <4>1. CASE a # p
        BY <1>1, <1>4, <4>1
      <4>2. CASE a = p
        <5>1. nextPlayer'[a] = q + 1 /\ q = nextPlayer[a] /\ q \in Nat /\ b \in 0 .. NumPlayers - 1
              /\ NumPlayers \in Nat
          BY <1>1, <1>4, <4>2, InputRelayAssumption DEF Players, q
        <5>2. q + 1 <= b => q <= b /\ q + 1 # NumPlayers
          BY <5>1
        <5> QED BY <1>1, <5>1, <5>2
      <4> QED BY <4>1, <4>2
    <3>4. ReplyFirst(a, b)'
      BY <1>3, <2>1, <3>1, <3>3 DEF ReplyFirst
    <3> QED BY <3>2, <3>4
  <2> QED BY <2>2, <2>3
<1>9. ASSUME NEW a \in Players, NEW b \in Players, a # b
      PROVE  HandOver(a, b)'
  <2>1. HandOver(a, b)
    BY <1>9 DEF Ordered, HandOverInv
  <2>2. CASE inputQueue'[a] = inputQueue[a] /\ sync'[a][b].tickNum = sync[a][b].tickNum
    BY <1>3, <2>1, <2>2 DEF HandOver
  <2>3. ASSUME NEW u \in TickInput, a = p, q # p,
               inputQueue' = [inputQueue EXCEPT ![p] = Append(@, u)],
               u.playerNum = q, u.tickNum = ack + 1, u.tickNum + u.count = pkt.tickNum + 1,
               \A r \in WrittenInputs(u) : TrueInput(q, r)
        PROVE  HandOver(a, b)'
    <3> DEFINE queue == inputQueue[p]
               more  == Append(queue, u)
               held  == received[p][b]
               n     == Len(queue)
    <3>1. inputQueue'[p] = more /\ received'[p][b] = held
      BY <1>3, <1>4, <2>3
    <3>2. /\ \A k \in 0 .. n : Taken(held, more, b, k) = Taken(held, queue, b, k)
          /\ Taken(held, more, b, n + 1)
               = Taken(held, queue, b, n) \cup (IF u.playerNum = b THEN WrittenInputs(u) ELSE {})
      <4>1. queue \in Seq(TickInput)
        BY <1>4
      <4> HIDE DEF queue, held
      <4> QED BY <4>1, TakenKept, TakenAppend
    <3>3. /\ n \in Nat /\ Len(more) = n + 1
          /\ DOMAIN more = 1 .. n + 1 /\ DOMAIN queue = 1 .. n
          /\ more[n + 1] = u /\ \A k \in 1 .. n : more[k] = queue[k]
      BY <1>4
    <3>4. /\ \A k \in DOMAIN queue :
               queue[k].playerNum = b =>
                 Taken(held, queue, b, k - 1) = Stream!Prefix(b, queue[k].tickNum)
          /\ Taken(held, queue, b, n) = Stream!Prefix(b, sync[p][b].tickNum + 1)
      BY <2>1, <2>3 DEF HandOver
    <3> HIDE DEF queue, more, held, n
    <3>5. ASSUME NEW k \in DOMAIN more, more[k].playerNum = b
          PROVE  Taken(held, more, b, k - 1) = Stream!Prefix(b, more[k].tickNum)
      <4>1. k \in 1 .. n \/ k = n + 1
        BY <3>3
      <4>2. CASE k \in 1 .. n
        <5>1. k - 1 \in 0 .. n
          BY <3>3, <4>2
        <5> QED BY <3>2, <3>3, <3>4, <3>5, <4>2, <5>1
      <4>3. CASE k = n + 1
        <5>1. b = q /\ more[k] = u
          BY <2>3, <3>3, <3>5, <4>3
        <5>2. k - 1 = n /\ n \in 0 .. n
          BY <3>3, <4>3
        <5>3. Taken(held, more, b, n) = Stream!Prefix(b, sync[p][b].tickNum + 1)
          BY <3>2, <3>4, <5>2
        <5> QED BY <2>3, <5>1, <5>2, <5>3
      <4> QED BY <4>1, <4>2, <4>3
    <3>6. Taken(held, more, b, n + 1) = Stream!Prefix(b, sync'[p][b].tickNum + 1)
      <4>1. CASE b = q
        <5>1. Taken(held, more, b, n + 1)
                = Stream!Prefix(q, u.tickNum) \cup WrittenInputs(u)
          BY <2>3, <3>2, <3>4, <4>1
        <5>2. Stream!Prefix(q, u.tickNum) \cup WrittenInputs(u)
                = Stream!Prefix(q, u.tickNum + u.count)
          BY <2>3, PrefixContinues
        <5> QED BY <1>6, <2>3, <4>1, <5>1, <5>2
      <4>2. CASE b # q
        <5>1. Taken(held, more, b, n + 1) = Taken(held, queue, b, n)
          BY <2>3, <3>2, <4>2
        <5>2. sync'[p][b] = sync[p][b]
          BY <1>6, <4>2
        <5> QED BY <3>4, <5>1, <5>2
      <4> QED BY <4>1, <4>2
    <3> QED BY <2>3, <3>1, <3>3, <3>5, <3>6 DEF HandOver
  <2>4. CASE a # p
    <3>1. inputQueue'[a] = inputQueue[a]
      BY <1>2, <1>4, <2>4
    <3> QED BY <1>6, <2>2, <2>4, <3>1
  <2>5. CASE a = p /\ inputQueue' = inputQueue /\ (q # p => pkt.tickNum = ack)
    BY <1>6, <1>9, <2>2, <2>5
  <2> QED BY <1>2, <2>3, <2>4, <2>5
<1> QED BY <1>8, <1>9 DEF Ordered, OrderInv, HandOverInv

\* Every step does, if the network does not let replies overtake each other.
LEMMA NextOrdered ==
  ASSUME ~RepliesReorder, NoneMisread, Inv, Inv', Ordered, [Next]_vars
  PROVE  Ordered'
<1>1. CASE UNCHANGED vars
  BY <1>1 DEF Ordered, OrderInv, RequestsKnown, RepliesInOrder, InOrder, ReplyFirst, HandOverInv,
              HandOver, vars, mainVars, sharedVars, netVars
<1>2. ASSUME NEW p \in Players,
             MainThread(p) \/ NetworkThread(p) \/ ServerDoWork(p) \/ Network(p)
      PROVE  Ordered'
  <2>1. ~OvertakeReply(p)
    BY DEF OvertakeReply
  <2>2. CASE ReceiveNumber(p)
    BY <1>1, <2>2, ReceiveNumberIdle
  <2> QED BY <1>2, <2>1, <2>2, DequeueInputsOrdered, EnqueueTickOrdered, SendTicksOrdered,
             ReceiveReplyOrdered, HandleSyncOrdered, ServerDoWorkOrdered, LossOrdered
          DEF MainThread, NetworkThread, Network
<1> QED BY <1>1, <1>2 DEF Next

-----------------------------------------------------------------------------
(* The properties.                                                         *)

\* With replies in order, each reply continues what the client has acknowledged
\* when its turn comes (so ParsePaket never finds it too short), and the queue
\* continues without a gap what DoRollback has written, up to the ack.
THEOREM HandOverComplete ==
  ASSUME ~RepliesReorder
  PROVE  Spec => [](NoneMisread => Ordered)
<1>1. Init => Ordered
  BY InitOrdered
<1>2. TypeInv /\ (NoneMisread => Inv) /\ (NoneMisread => Ordered) /\ [Next]_vars
        => (NoneMisread => Ordered)'
  BY NextOrdered, NextInv, MisreadStays
<1> QED BY <1>1, <1>2, TypeCorrect, InvCorrect, PTL DEF Spec

\* With replies in order, an ack never runs ahead of the hand-over: what a client
\* tells the server it has is written into its ticks or waits in the queue.
THEOREM AcksDelivered ==
  ASSUME ~RepliesReorder
  PROVE  Spec => []AckedInputsDelivered
<1>1. (NoneMisread => Inv) /\ (NoneMisread => Ordered) => AckedInputsDelivered
  <2> SUFFICES ASSUME Inv, Ordered, NEW p \in Players, NEW q \in Players, p # q,
                      NEW t \in 0 .. sync[p][q].lastTickAcked
               PROVE  <<t, UserInput[q][t]>> \in received[p][q] \cup Queued(p, q)
    BY DEF AckedInputsDelivered
  <2> DEFINE ack == sync[p][q].tickNum
             r   == <<t, UserInput[q][t]>>
  <2>1. ack \in OptTick /\ t \in 0 .. ack
    BY TickTypes DEF Inv, RelayInv, OtherWindowInv
  <2>2. Taken(received[p][q], inputQueue[p], q, Len(inputQueue[p]))
          = Stream!Prefix(q, ack + 1)
    BY DEF Ordered, HandOverInv, HandOver
  <2>3. r \in Stream!Prefix(q, ack + 1)
    BY <2>1 DEF Stream!Prefix, OptTick, NoTick
  <2>4. inputQueue[p] \in Seq(TickInput)
    BY DEF Inv, TypeInv, TypeOK
  <2> HIDE DEF r, ack
  <2>5. \/ r \in received[p][q]
        \/ \E j \in 1 .. Len(inputQueue[p]) :
             inputQueue[p][j].playerNum = q /\ r \in WrittenInputs(inputQueue[p][j])
    BY <2>2, <2>3, TakenDef
  <2>6. DOMAIN inputQueue[p] = 1 .. Len(inputQueue[p])
    BY <2>4
  <2> QED BY <2>5, <2>6 DEF Queued, r
<1> QED BY <1>1, InvCorrect, HandOverComplete, PTL

\* What the main thread hands on is the next part of the other player's stream.
LEMMA DequeueInputsDelivers ==
  ASSUME Inv, Inv', Ordered, NEW p \in Players, DequeueInputs(p)
  PROVE  \E q \in Players : \E n \in Ticks :
           /\ p # q
           /\ n <= tickNum[q]
           /\ received[p][q] \subseteq Stream!Prefix(q, n)
           /\ received' = [received EXCEPT ![p][q] = Stream!Prefix(q, n)]
<1> DEFINE u == Head(inputQueue[p])
           q == u.playerNum
           n == u.tickNum + u.count
<1>1. inputQueue[p] \in Seq(TickInput) /\ inputQueue[p] # <<>>
  BY DEF Inv, TypeInv, TypeOK, DequeueInputs
<1>2. 1 \in DOMAIN inputQueue[p] /\ u = inputQueue[p][1] /\ u \in TickInput
  BY <1>1
<1>3. /\ q # p /\ q \in Players /\ \A r \in WrittenInputs(u) : TrueInput(q, r)
      /\ playerNumber[p] = p
  BY <1>2 DEF Inv, RelayInv, NumbersKept, DeliveryInv, TickInput
<1>4. received' = [received EXCEPT ![p][q] = @ \cup WrittenInputs(u)] /\ tickNum' = tickNum
  BY <1>3 DEF DequeueInputs
<1>5. received[p][q] = Stream!Prefix(q, u.tickNum)
  <2>1. Taken(received[p][q], inputQueue[p], q, 1 - 1) = Stream!Prefix(q, u.tickNum)
    BY <1>2, <1>3 DEF Ordered, HandOverInv, HandOver
  <2>2. Taken(received[p][q], inputQueue[p], q, 0) = received[p][q]
    BY DEF Taken
  <2> QED BY <2>1, <2>2
<1>6. received[p][q] \cup WrittenInputs(u) = Stream!Prefix(q, n)
  BY <1>2, <1>3, <1>5, PrefixContinues
<1>7. n \in Nat
  BY <1>2, InputSyncAssumption DEF TickInput
<1>8. received' = [received EXCEPT ![p][q] = Stream!Prefix(q, n)]
  BY <1>4, <1>6
<1>9. n <= tickNum[q]
  <2>1. tickNum[q] \in Nat /\ netTickNum[q] = tickNum[q] - 1 /\ server'[q].tickNum \in OptTick
        /\ server'[q].tickNum <= netTickNum'[q] /\ netTickNum'[q] = tickNum[q] - 1
    BY <1>3, <1>4 DEF Inv, TypeInv, TypeOK, TickInv, RelayInv, ServerInv, Synchronizer
  <2>2. CASE n > 0
    <3> HIDE DEF n
    <3>1. <<n - 1, UserInput[q][n - 1]>> \in Stream!Prefix(q, n)
      BY <1>7, <2>2 DEF Stream!Prefix
    <3>2. received \in [Players -> [Players -> SUBSET (Nat \X (Inputs \cup {NoInput}))]]
      BY DEF Inv, TypeInv, TypeOK
    <3>3. received'[p][q] = Stream!Prefix(q, n)
      BY <1>3, <1>8, <3>2
    <3>4. \A r \in received'[p][q] : r[1] <= server'[q].tickNum
      BY <1>3 DEF Inv, RelayInv, DeliveryInv, TrueInput
    <3>5. n - 1 <= server'[q].tickNum
      BY <3>1, <3>3, <3>4
    <3> QED BY <1>7, <2>1, <3>5 DEF OptTick, NoTick
  <2> QED BY <1>7, <2>1, <2>2
<1>10. n \in Ticks
  <2>1. tickNum[q] \in Nat /\ tickNum[q] <= GameDuration + MaxTicks
    BY <1>3 DEF Inv, TypeInv, TypeOK, TickInv
  <2> HIDE DEF n
  <2> QED BY <1>7, <1>9, <2>1, InputRelayAssumption, InputSyncAssumption DEF Ticks
<1>11. received[p][q] \subseteq Stream!Prefix(q, n)
  BY <1>6
<1> QED BY <1>3, <1>8, <1>9, <1>10, <1>11

\* With replies in order, and none that can be misread, the relay implements
\* InputStream: what DoRollback of each client has written is a prefix of what the
\* other player did, which only grows.
THEOREM RelayIsStream ==
  ASSUME ~RepliesReorder
  PROVE  Spec /\ []NoneMisread => StreamSpec
<1> DEFINE stream == [p \in Players |-> [q \in Players |-> Held(p, q)]]
<1>1. Init => Stream!Init
  <2> SUFFICES ASSUME Init PROVE Stream!Init
    OBVIOUS
  <2>1. \A p, q \in Players : Held(p, q) = {}
    BY DEF Init, Held
  <2> QED BY <2>1 DEF Stream!Init
<1>2. ASSUME Inv, Inv', Ordered, [Next]_vars
      PROVE  [Stream!Next]_stream
  <2>1. ASSUME UNCHANGED <<tickNum, received>>
        PROVE  UNCHANGED stream
    BY <2>1 DEF Held
  <2>2. ASSUME NEW p \in Players, EnqueueTick(p)
        PROVE  Stream!Produce(p)
    <3>1. /\ tickNum \in [Players -> Nat] /\ tickNum[p] <= GameDuration + MaxTicks
          /\ tickNum' = [tickNum EXCEPT ![p] = @ + 1] /\ received' = received
      BY <1>2, <2>2 DEF Inv, TypeInv, TypeOK, TickInv, EnqueueTick
    <3>2. tickNum[p] \in Ticks
      BY <3>1, InputRelayAssumption, InputSyncAssumption DEF Ticks
    <3>3. Held(p, p) = Stream!Prefix(p, tickNum[p])
      BY DEF Held, Stream!Prefix
    <3>4. Held(p, p)' = Stream!Prefix(p, tickNum[p] + 1)
      BY <3>1 DEF Held, Stream!Prefix
    <3>5. \A a, b \in Players : ~(a = p /\ b = p) => Held(a, b)' = Held(a, b)
      BY <3>1 DEF Held
    <3>6. stream[p][p] = Stream!Prefix(p, tickNum[p])
      BY <3>3
    <3>7. stream' = [stream EXCEPT ![p][p] = Stream!Prefix(p, tickNum[p] + 1)]
      BY <3>4, <3>5
    <3> QED BY <3>2, <3>6, <3>7 DEF Stream!Produce
  <2>3. ASSUME NEW p \in Players, DequeueInputs(p)
        PROVE  \E q \in Players : p # q /\ Stream!Deliver(p, q)
    <3>1. PICK q \in Players : \E n \in Ticks :
            /\ p # q
            /\ n <= tickNum[q]
            /\ received[p][q] \subseteq Stream!Prefix(q, n)
            /\ received' = [received EXCEPT ![p][q] = Stream!Prefix(q, n)]
      BY <1>2, <2>3, DequeueInputsDelivers
    <3>2. PICK n \in Ticks :
            /\ p # q
            /\ n <= tickNum[q]
            /\ received[p][q] \subseteq Stream!Prefix(q, n)
            /\ received' = [received EXCEPT ![p][q] = Stream!Prefix(q, n)]
      BY <3>1
    <3>3. /\ tickNum' = tickNum /\ tickNum[q] \in Nat /\ n \in Int
          /\ received \in [Players -> [Players -> SUBSET (Nat \X (Inputs \cup {NoInput}))]]
      <4>1. tickNum' = tickNum
        BY <2>3 DEF DequeueInputs
      <4>2. n \in Int
        BY InputRelayAssumption, InputSyncAssumption DEF Ticks
      <4> QED BY <1>2, <4>1, <4>2 DEF Inv, TypeInv, TypeOK
    <3>4. stream[p][q] = received[p][q] /\ stream[q][q] = Stream!Prefix(q, tickNum[q])
      BY <3>2 DEF Held, Stream!Prefix
    <3>5. Stream!Prefix(q, n) \subseteq Stream!Prefix(q, tickNum[q])
      BY <3>2, <3>3 DEF Stream!Prefix
    <3>6. \A a, b \in Players :
            Held(a, b)' = IF a = p /\ b = q THEN Stream!Prefix(q, n) ELSE Held(a, b)
      BY <3>2, <3>3 DEF Held
    <3>7. stream' = [stream EXCEPT ![p][q] = Stream!Prefix(q, n)]
      BY <3>6
    <3>8. /\ stream[p][q] \subseteq Stream!Prefix(q, n)
          /\ Stream!Prefix(q, n) \subseteq stream[q][q]
      BY <3>2, <3>4, <3>5
    <3>9. Stream!Deliver(p, q)
      BY <3>7, <3>8 DEF Stream!Deliver
    <3> QED BY <3>2, <3>9
  <2>4. \/ UNCHANGED <<tickNum, received>>
        \/ \E p \in Players : EnqueueTick(p) \/ DequeueInputs(p)
    BY <1>2 DEF Next, MainThread, NetworkThread, Network, ServerDoWork, vars, mainVars,
                SendTicks, ReceiveReply, ReceiveNumber, HandleSync, LoseRequest, LoseReply,
                OvertakeReply
  <2> QED BY <2>1, <2>2, <2>3, <2>4 DEF Stream!Next
<1> QED BY <1>1, <1>2, InvCorrect, HandOverComplete, PTL DEF Spec, StreamSpec, Stream!Spec


\* DoRollback reads the last input of an update, inputs[size - 1]: there must be one.
NoEmptyUpdates == \A p \in Players : \A k \in DOMAIN inputQueue[p] : inputQueue[p][k].count > 0

\* A queue that loses its first update, or gets one that is not empty.
LEMMA QueueNotEmptied ==
  ASSUME NEW queue \in Seq(TickInput), \A k \in DOMAIN queue : queue[k].count > 0
  PROVE  /\ queue # <<>> => \A k \in DOMAIN Tail(queue) : Tail(queue)[k].count > 0
         /\ \A u \in TickInput : u.count > 0 =>
              \A k \in DOMAIN Append(queue, u) : Append(queue, u)[k].count > 0
<1>1. ASSUME queue # <<>>, NEW k \in DOMAIN Tail(queue)
      PROVE  Tail(queue)[k].count > 0
  <2>1. k + 1 \in DOMAIN queue /\ Tail(queue)[k] = queue[k + 1]
    BY <1>1
  <2> QED BY <2>1
<1>2. ASSUME NEW u \in TickInput, u.count > 0, NEW k \in DOMAIN Append(queue, u)
      PROVE  Append(queue, u)[k].count > 0
  <2>1. CASE k \in DOMAIN queue
    BY <2>1
  <2>2. CASE k = Len(queue) + 1
    BY <1>2, <2>2
  <2> QED BY <2>1, <2>2
<1> QED BY <1>1, <1>2

\* The network thread enqueues only what ParsePaket has found inputs in, so the main
\* thread never looks before the beginning of an update, in whatever order replies come.
THEOREM UpdatesNotEmpty == Spec => []NoEmptyUpdates
<1>1. Init => NoEmptyUpdates
  BY DEF Init, NoEmptyUpdates
<1>2. ASSUME TypeInv, TypeInv', NoEmptyUpdates, [Next]_vars
      PROVE  NoEmptyUpdates'
  <2>1. /\ inputQueue \in [Players -> Seq(TickInput)]
        /\ inputQueue' \in [Players -> Seq(TickInput)]
    BY <1>2 DEF TypeInv, TypeOK
  <2>2. CASE UNCHANGED inputQueue
    BY <1>2, <2>2 DEF NoEmptyUpdates
  <2>3. ASSUME NEW p \in Players, DequeueInputs(p)
        PROVE  NoEmptyUpdates'
    <3>1. inputQueue' = [inputQueue EXCEPT ![p] = Tail(@)] /\ inputQueue[p] # <<>>
      BY <2>3 DEF DequeueInputs
    <3>2. \A k \in DOMAIN Tail(inputQueue[p]) : Tail(inputQueue[p])[k].count > 0
      BY <1>2, <2>1, <3>1, QueueNotEmptied DEF NoEmptyUpdates
    <3> QED BY <1>2, <2>1, <3>1, <3>2 DEF NoEmptyUpdates
  <2>4. ASSUME NEW p \in Players, HandleSync(p)
        PROVE  NoEmptyUpdates'
    <3> DEFINE q      == nextPlayer[p]
               parsed == ParsePaket(reply[p][q], LastTickHeld(p, q))
               u      == [playerNum |-> q, tickNum |-> parsed.firstTick,
                          count |-> parsed.count, inputs |-> parsed.inputs]
    <3>1. \/ UNCHANGED inputQueue
          \/ /\ inputQueue' = [inputQueue EXCEPT ![p] = Append(@, u)]
             /\ parsed.count # 0
      BY <2>4 DEF HandleSync
    <3> SUFFICES ASSUME inputQueue' = [inputQueue EXCEPT ![p] = Append(@, u)],
                        parsed.count # 0
                 PROVE  NoEmptyUpdates'
      BY <2>2, <3>1
    <3>2. u \in TickInput
      <4>1. Append(inputQueue[p], u) \in Seq(TickInput)
        BY <2>1
      <4>2. inputQueue[p] \in Seq(TickInput)
        BY <2>1
      <4> HIDE DEF u
      <4>3. Append(inputQueue[p], u)[Len(inputQueue[p]) + 1] = u
        BY <4>2
      <4>4. Len(inputQueue[p]) + 1 \in DOMAIN Append(inputQueue[p], u)
        BY <4>2
      <4> QED BY <4>1, <4>3, <4>4
    <3>3. u.count > 0
      <4>1. u.count # 0
        OBVIOUS
      <4> HIDE DEF u
      <4> QED BY <3>2, <4>1, InputSyncAssumption DEF TickInput
    <3> HIDE DEF u
    <3>4. \A k \in DOMAIN Append(inputQueue[p], u) : Append(inputQueue[p], u)[k].count > 0
      BY <1>2, <2>1, <3>2, <3>3, QueueNotEmptied DEF NoEmptyUpdates
    <3> QED BY <1>2, <2>1, <3>4 DEF NoEmptyUpdates
  <2>5. ASSUME NEW p \in Players,
               \/ EnqueueTick(p) \/ SendTicks(p) \/ ReceiveReply(p)
               \/ ReceiveNumber(p) \/ ServerDoWork(p) \/ Network(p)
        PROVE  UNCHANGED inputQueue
    BY <2>5 DEF EnqueueTick, SendTicks, ReceiveReply, ReceiveNumber, ServerDoWork, Network,
                LoseRequest, LoseReply, OvertakeReply, sharedVars, mainVars
  <2>6. CASE UNCHANGED vars
    BY <2>2, <2>6 DEF vars, sharedVars
  <2> QED BY <1>2, <2>2, <2>3, <2>4, <2>5, <2>6 DEF Next, MainThread, NetworkThread
<1> QED BY <1>1, <1>2, TypeCorrect, PTL DEF Spec

(***************************************************************************)
(* What GameStateManager takes for granted of each update that DoRollback  *)
(* of a client finds in its queue (TakeUpdate there): it is one of another *)
(* player, begins with the tick after the last that was known of him, is   *)
(* not empty or longer than the ring, and has his true inputs.             *)
(***************************************************************************)
FeedsRollback ==
  [][NoneMisread => \A p \in Players : DequeueInputs(p) =>
       LET u == Head(inputQueue[p])
           q == u.playerNum
       IN  /\ q \in Players \ {p}
           /\ received[p][q] = Stream!Prefix(q, u.tickNum)
           /\ u.count \in 1 .. MaxTicks
           /\ u.tickNum + u.count - 1 \in Ticks
           /\ \A i \in 0 .. u.count - 1 : u.inputs[i] = UserInput[q][u.tickNum + i]]_vars

\* With replies in order, DoRollback of each client is given what the model of
\* CGameStateManager takes: the rollback's environment is the relay, whatever the
\* network loses or repeats.
THEOREM RelayFeedsRollback ==
  ASSUME ~RepliesReorder
  PROVE  Spec => FeedsRollback
<1> DEFINE Fed(p) == LET u == Head(inputQueue[p])
                         q == u.playerNum
                     IN  /\ q \in Players \ {p}
                         /\ received[p][q] = Stream!Prefix(q, u.tickNum)
                         /\ u.count \in 1 .. MaxTicks
                         /\ u.tickNum + u.count - 1 \in Ticks
                         /\ \A i \in 0 .. u.count - 1 : u.inputs[i] = UserInput[q][u.tickNum + i]
<1>1. ASSUME Inv, Ordered, NoEmptyUpdates, NEW p \in Players, DequeueInputs(p)
      PROVE  Fed(p)
  <2> DEFINE u == Head(inputQueue[p])
             q == u.playerNum
  <2>1. inputQueue[p] \in Seq(TickInput) /\ inputQueue[p] # <<>>
    BY <1>1 DEF Inv, TypeInv, TypeOK, DequeueInputs
  <2>2. 1 \in DOMAIN inputQueue[p] /\ u = inputQueue[p][1] /\ u \in TickInput
    BY <2>1
  <2>3. q # p /\ q \in Players /\ \A r \in WrittenInputs(u) : TrueInput(q, r)
    BY <1>1, <2>2 DEF Inv, RelayInv, DeliveryInv, TickInput
  <2>4. received[p][q] = Stream!Prefix(q, u.tickNum)
    <3>1. Taken(received[p][q], inputQueue[p], q, 1 - 1) = Stream!Prefix(q, u.tickNum)
      BY <1>1, <2>2, <2>3 DEF Ordered, HandOverInv, HandOver
    <3>2. Taken(received[p][q], inputQueue[p], q, 0) = received[p][q]
      BY DEF Taken
    <3> QED BY <3>1, <3>2
  <2>5. u.count \in 1 .. MaxTicks /\ u.tickNum \in Nat
    <3>1. u.count > 0
      BY <1>1, <2>2 DEF NoEmptyUpdates
    <3> HIDE DEF u
    <3> QED BY <2>2, <3>1, InputSyncAssumption DEF TickInput
  <2>6. \A i \in 0 .. u.count - 1 :
          u.tickNum + i <= server[q].tickNum /\ u.inputs[i] = UserInput[q][u.tickNum + i]
    <3> SUFFICES ASSUME NEW i \in 0 .. u.count - 1
                 PROVE  u.tickNum + i <= server[q].tickNum
                        /\ u.inputs[i] = UserInput[q][u.tickNum + i]
      OBVIOUS
    <3>1. <<u.tickNum + i, u.inputs[i]>> \in WrittenInputs(u)
      BY DEF WrittenInputs
    <3> HIDE DEF u, q
    <3> QED BY <2>3, <3>1 DEF TrueInput
  <2>7. u.tickNum + u.count - 1 \in Ticks
    <3>1. u.tickNum + (u.count - 1) <= server[q].tickNum
      BY <2>5, <2>6, InputSyncAssumption
    <3>2. /\ server[q].tickNum <= netTickNum[q] /\ server[q].tickNum \in OptTick
          /\ netTickNum[q] = tickNum[q] - 1 /\ tickNum[q] \in Nat
          /\ tickNum[q] <= GameDuration + MaxTicks
      BY <1>1, <2>3 DEF Inv, TypeInv, TypeOK, TickInv, RelayInv, ServerInv, Synchronizer
    <3> HIDE DEF u, q
    <3> QED BY <2>5, <3>1, <3>2, InputRelayAssumption, InputSyncAssumption
            DEF Ticks, OptTick, NoTick
  <2> QED BY <2>3, <2>4, <2>5, <2>6, <2>7
<1>2. ASSUME NoneMisread => Inv, NoneMisread => Ordered, NoEmptyUpdates
      PROVE  [NoneMisread => \A p \in Players : DequeueInputs(p) => Fed(p)]_vars
  BY <1>1, <1>2
<1> HIDE DEF Fed
<1>3. FeedsRollback <=> [][NoneMisread => \A p \in Players : DequeueInputs(p) => Fed(p)]_vars
  BY DEF FeedsRollback, Fed
<1> QED BY <1>2, <1>3, InvCorrect, HandOverComplete, UpdatesNotEmpty, PTL
=============================================================================
