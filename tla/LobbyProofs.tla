----------------------------- MODULE LobbyProofs -----------------------------
(***************************************************************************)
(* Player numbers are never mixed up, for any number of clients and seats, *)
(* any socket and any number of faults, and in good conditions every       *)
(* client that begins plays in its own seat.                               *)
(***************************************************************************)
EXTENDS Lobby, SequenceTheorems, FiniteSetTheorems, TLAPS

\* A number that a client has, or is being told, is that of a seat it was given.
Owns(c, n) == n < m_clientConnectionCounter /\ m_clientSockets[n] = c

NumberInv ==
  \A c \in Clients :
    /\ m_playerNumber[c] > 0 => Owns(c, m_playerNumber[c])
    /\ \A i \in 1 .. Len(toClient[c]) :
         toClient[c][i].number >= 0 => Owns(c, toClient[c][i].number)

\* Seats are given out in order.
SeatInv ==
  \A k \in Seats : k < m_clientConnectionCounter <=> m_clientSockets[k] # Nobody

-----------------------------------------------------------------------------
(* In good conditions.                                                     *)

Seated(c) == \E k \in Seats : m_clientSockets[k] = c

\* A client that the server has not heard of, and its 'c'.
Unheard(c) == c \notin joined \/ c \in toServer

\* What a client with seat k may have been told, and what is on the way.
Told(c, k) ==
  \/ /\ toClient[c] \in {<<Number(k)>>, <<Number(k), StartSignal>>}
     /\ m_gameStartTime[c] = "none"
  \/ /\ toClient[c] \in {<<>>, <<StartSignal>>}
     /\ m_playerNumber[c] = k

\* Whether the start signal has been sent to a client.
Signalled(c) == \/ m_gameStartTime[c] = "signal"
                \/ toClient[c] # <<>> /\ toClient[c][Len(toClient[c])].type = "s"

OrderlyClient(c) ==
  /\ m_gameStartTime[c] # "junk"
  /\ Unheard(c) => ~Seated(c) /\ toClient[c] = <<>>
  /\ ~Seated(c) => /\ toClient[c] \in {<<>>, <<Number(-1)>>}
                   /\ m_gameStartTime[c] = "none"
  /\ \A k \in Seats : m_clientSockets[k] = c => Told(c, k)
  /\ Signalled(c) => Full(m_clientConnectionCounter)
  /\ IsSet(m_lastUpdateTime[c]) => m_gameStartTime[c] = "signal"
  /\ slot[c] # -1 => m_gameStartTime[c] = "signal" /\ slot[c] = m_playerNumber[c]

GoodInv == good => faults = 0 /\ \A c \in Clients : OrderlyClient(c)

LobbyInv == TypeOK /\ NumberInv /\ SeatInv /\ GoodInv

-----------------------------------------------------------------------------
(* What the server sends.                                                  *)

\* What is assumed of the constants.
LEMMA Seating ==
  /\ NumPlayers \in Nat \ {0} /\ SocketCapacity \in Nat \ {0} /\ MaxFaults \in Nat
  /\ Nobody \notin Clients
BY LobbyAssumption

\* The messages, and how they differ.
LEMMA MessageTypes ==
  /\ \A n \in Seats \cup {-1} : Number(n) \in Message
  /\ StartSignal \in Message
  /\ StartSignal.type = "s" /\ StartSignal.number = -1
  /\ \A n : Number(n).type = "p" /\ Number(n).number = n
BY DEF Message, Number, StartSignal

\* Only the start signal has the type 's'.
LEMMA MessageFields ==
  ASSUME NEW m \in Message
  PROVE  /\ m.type \in {"p", "s"}
         /\ m.number \in Seats \cup {-1}
         /\ m.type = "s" => m = StartSignal
BY DEF Message, StartSignal

\* What arrives is the beginning of what was there and what is added.
LEMMA ArrivingType ==
  ASSUME NEW c \in Clients, toClient[c] \in Seq(Message), NEW messages \in Seq(Message)
  PROVE  /\ Arriving(c, messages) \in Seq(Message)
         /\ Len(Arriving(c, messages)) =
              IF Len(toClient[c]) + Len(messages) > SocketCapacity
              THEN SocketCapacity ELSE Len(toClient[c]) + Len(messages)
         /\ \A i \in 1 .. Len(Arriving(c, messages)) :
              Arriving(c, messages)[i] =
                IF i <= Len(toClient[c]) THEN toClient[c][i]
                ELSE messages[i - Len(toClient[c])]
<1> DEFINE s   == toClient[c]
           all == s \o messages
<1>1. /\ all \in Seq(Message) /\ Len(all) = Len(s) + Len(messages)
      /\ \A i \in 1 .. Len(all) : all[i] = IF i <= Len(s) THEN s[i] ELSE messages[i - Len(s)]
  OBVIOUS
<1>2. Len(s) \in Nat /\ Len(messages) \in Nat
  OBVIOUS
<1> HIDE DEF all, s
<1>3. CASE Len(all) > SocketCapacity
  <2> DEFINE r == SubSeq(all, 1, SocketCapacity)
  <2>1. Arriving(c, messages) = r
    BY <1>3 DEF Arriving, all, s
  <2>2. /\ r \in Seq(Message) /\ Len(r) = SocketCapacity
        /\ \A i \in 1 .. SocketCapacity : r[i] = all[i]
    BY <1>1, <1>2, <1>3, Seating
  <2> HIDE DEF r
  <2>3. SocketCapacity \in Nat
    BY Seating
  <2>4. Len(s) + Len(messages) > SocketCapacity
    BY <1>1, <1>3
  <2>5. ASSUME NEW i \in 1 .. SocketCapacity
        PROVE  r[i] = IF i <= Len(s) THEN s[i] ELSE messages[i - Len(s)]
    <3>1. i \in 1 .. Len(all)
      BY <1>1, <1>2, <1>3, <2>3
    <3> QED BY <1>1, <2>2, <3>1
  <2> QED BY <2>1, <2>2, <2>4, <2>5 DEF s
<1>4. CASE ~(Len(all) > SocketCapacity)
  <2>1. Arriving(c, messages) = all
    BY <1>4 DEF Arriving, all, s
  <2> QED BY <1>1, <1>2, <1>4, <2>1, Seating DEF s
<1> QED BY <1>3, <1>4

\* One signal for each seat of c, and one for a client with one seat.
LEMMA SignalsType ==
  ASSUME NEW c \in Clients, NEW seats
  PROVE  /\ Signals(c, seats) \in Seq(Message)
         /\ \A i \in 1 .. Len(Signals(c, seats)) : Signals(c, seats)[i] = StartSignal
         /\ (\A k \in Seats : seats[k] # c) => Signals(c, seats) = <<>>
         /\ \A k \in Seats : (\A j \in Seats : seats[j] = c <=> j = k)
                               => Signals(c, seats) = <<StartSignal>>
<1> DEFINE mine == {k \in Seats : seats[k] = c}
           n    == Cardinality(mine)
<1>1. IsFiniteSet(Seats)
  BY Seating, FS_Interval DEF Seats
<1>2. IsFiniteSet(mine) /\ n \in Nat
  BY <1>1, FS_Subset, FS_CardinalityType
<1>3. Signals(c, seats) = [i \in 1 .. n |-> StartSignal]
  BY DEF Signals
<1>4. ASSUME \A k \in Seats : seats[k] # c PROVE Signals(c, seats) = <<>>
  <2>1. mine = {}
    BY <1>4
  <2>2. n = 0
    BY <2>1, FS_EmptySet
  <2>3. Signals(c, seats) \in Seq(Message) /\ Len(Signals(c, seats)) = 0
    BY <1>3, <2>2, MessageTypes
  <2> QED BY <2>3, EmptySeq
<1>5. ASSUME NEW k \in Seats, \A j \in Seats : seats[j] = c <=> j = k
      PROVE  Signals(c, seats) = <<StartSignal>>
  <2>1. mine = {k}
    BY <1>5
  <2>2. n = 1
    BY <2>1, FS_Singleton
  <2> QED BY <1>3, <2>2
<1> HIDE DEF n
<1>6. /\ Signals(c, seats) \in Seq(Message)
      /\ \A i \in 1 .. Len(Signals(c, seats)) : Signals(c, seats)[i] = StartSignal
  BY <1>2, <1>3, MessageTypes
<1> QED BY <1>4, <1>5, <1>6

\* The client that takes seat k is told so, and nobody else is told a number.
LEMMA MessagesType ==
  ASSUME NEW c \in Clients, NEW new \in Clients, NEW k \in Seats, NEW seats
  PROVE  /\ Messages(c, new, k, seats) \in Seq(Message)
         /\ \A i \in 1 .. Len(Messages(c, new, k, seats)) :
              \/ c = new /\ Messages(c, new, k, seats)[i] = Number(k)
              \/ Messages(c, new, k, seats)[i] = StartSignal
<1> DEFINE p == IF c = new THEN <<NumberOf(k)>> ELSE <<>>
           s == IF Full(k + 1) THEN Signals(c, seats) ELSE <<>>
<1>1. /\ p \in Seq(Message)
      /\ \A i \in 1 .. Len(p) : c = new /\ p[i] = Number(k)
  BY MessageTypes DEF NumberOf
<1>2. /\ s \in Seq(Message)
      /\ \A i \in 1 .. Len(s) : s[i] = StartSignal
  BY SignalsType
<1>3. Messages(c, new, k, seats) = p \o s
  BY DEF Messages
<1> HIDE DEF p, s
<1>4. /\ p \o s \in Seq(Message) /\ Len(p \o s) = Len(p) + Len(s)
      /\ Len(p) \in Nat /\ Len(s) \in Nat
      /\ \A i \in 1 .. Len(p \o s) : (p \o s)[i] = IF i <= Len(p) THEN p[i] ELSE s[i - Len(p)]
  BY <1>1, <1>2
<1>5. ASSUME NEW i \in 1 .. Len(p \o s)
      PROVE  \/ c = new /\ (p \o s)[i] = Number(k)
             \/ (p \o s)[i] = StartSignal
  <2>1. CASE i <= Len(p)
    BY <1>1, <1>4, <2>1
  <2>2. CASE ~(i <= Len(p))
    <3>1. i - Len(p) \in 1 .. Len(s)
      BY <1>4, <2>2
    <3> QED BY <1>2, <1>4, <2>2, <3>1
  <2> QED BY <2>1, <2>2
<1> QED BY <1>3, <1>4, <1>5

-----------------------------------------------------------------------------
(* The types, the numbers and the seats.                                   *)

NumbersInv == TypeOK /\ NumberInv /\ SeatInv

\* The network makes no more faults than it may.
LEMMA FaultsType ==
  ASSUME TypeOK, Fault \/ NoFault
  PROVE  good' \in BOOLEAN /\ faults' \in 0 .. MaxFaults
BY Seating DEF TypeOK, Fault, NoFault

\* Nobody has a seat at first.
LEMMA InitNumbersInv ==
  ASSUME Init
  PROVE  NumbersInv
<1>1. IsFiniteSet(Junk) /\ Cardinality(Junk) \in Nat
  BY LobbyAssumption, FS_Subset, FS_CardinalityType DEF Junk
<1>2. faults \in 0 .. MaxFaults
  <2>1. faults = IF good THEN 0 ELSE MaxFaults - Cardinality(Junk)
    BY DEF Init
  <2>2. Cardinality(Junk) <= MaxFaults
    BY DEF Init
  <2> QED BY <1>1, <2>1, <2>2, Seating
<1>3. TypeOK
  BY <1>2, Seating DEF Init, TypeOK, StartTimes, Uninitialised, Seats
<1>4. NumberInv /\ SeatInv
  BY DEF Init, NumberInv, SeatInv, Seats
<1> QED BY <1>3, <1>4 DEF NumbersInv

\* A message of a client's number says the truth about a seat, and so does a
\* message that is moved, repeated or taken away.
LEMMA QueueNumbers ==
  ASSUME TypeOK, NumberInv, NEW c \in Clients, NEW t \in Seq(Message),
         \A i \in 1 .. Len(t) : \E j \in 1 .. Len(toClient[c]) : t[i] = toClient[c][j],
         toClient' = [toClient EXCEPT ![c] = t],
         UNCHANGED <<serverVars, m_playerNumber>>
  PROVE  toClient' \in [Clients -> Seq(Message)] /\ NumberInv'
<1>1. toClient' \in [Clients -> Seq(Message)]
  BY DEF TypeOK
<1>2. \A d \in Clients : \A n : Owns(d, n)' <=> Owns(d, n)
  BY DEF Owns, serverVars
<1>3. ASSUME NEW d \in Clients, NEW i \in 1 .. Len(toClient'[d]),
             toClient'[d][i].number >= 0
      PROVE  Owns(d, toClient'[d][i].number)
  <2>1. CASE d = c
    <3>1. toClient'[c] = t
      BY DEF TypeOK
    <3>2. PICK j \in 1 .. Len(toClient[c]) : t[i] = toClient[c][j]
      BY <1>3, <2>1, <3>1
    <3> QED BY <1>3, <2>1, <3>1, <3>2 DEF NumberInv
  <2>2. CASE d # c
    <3>1. toClient'[d] = toClient[d]
      BY <2>2 DEF TypeOK
    <3> QED BY <1>3, <3>1 DEF NumberInv
  <2> QED BY <2>1, <2>2
<1> QED BY <1>1, <1>2, <1>3 DEF NumberInv

\* What the network does to the messages of a client.
LEMMA NetworkNumbersInv ==
  ASSUME NumbersInv, NEW c \in Clients, LoseMessage(c) \/ OvertakeMessage(c)
  PROVE  NumbersInv'
<1> DEFINE s == toClient[c]
<1>1. TypeOK /\ NumberInv /\ SeatInv /\ s \in Seq(Message)
  BY DEF NumbersInv, TypeOK
<1>2. /\ UNCHANGED <<toServer, serverVars, joined, netVars, body, mainVars>>
      /\ good' \in BOOLEAN /\ faults' \in 0 .. MaxFaults
  BY <1>1, FaultsType DEF LoseMessage, OvertakeMessage
<1>3. SeatInv'
  BY <1>1, <1>2 DEF SeatInv, serverVars
<1>4. PICK t \in Seq(Message) :
        /\ toClient' = [toClient EXCEPT ![c] = t]
        /\ \A i \in 1 .. Len(t) : \E j \in 1 .. Len(s) : t[i] = s[j]
  <2>1. CASE LoseMessage(c)
    <3>1. s # <<>> /\ toClient' = [toClient EXCEPT ![c] = Tail(s)]
      BY <2>1 DEF LoseMessage
    <3>2. /\ Tail(s) \in Seq(Message) /\ Len(Tail(s)) = Len(s) - 1
          /\ \A i \in 1 .. Len(Tail(s)) : Tail(s)[i] = s[i + 1]
      BY <1>1, <3>1
    <3>3. ASSUME NEW i \in 1 .. Len(Tail(s))
          PROVE  i + 1 \in 1 .. Len(s) /\ Tail(s)[i] = s[i + 1]
      BY <1>1, <3>2
    <3> HIDE DEF s
    <3> QED BY <3>1, <3>2, <3>3
  <2>2. CASE OvertakeMessage(c)
    <3>1. PICK i \in 1 .. Len(s) - 1 :
            toClient' = [toClient EXCEPT ![c][i] = s[i + 1], ![c][i + 1] = s[i]]
      BY <2>2 DEF OvertakeMessage
    <3> DEFINE t == [s EXCEPT ![i] = s[i + 1], ![i + 1] = s[i]]
    <3>2. Len(s) \in Nat /\ i \in 1 .. Len(s) /\ i + 1 \in 1 .. Len(s)
      BY <1>1
    <3>3. toClient' = [toClient EXCEPT ![c] = t]
      BY <1>1, <3>1 DEF TypeOK
    <3>4. \A j \in 1 .. Len(s) : s[j] \in Message
      BY <1>1
    <3>5. t \in [1 .. Len(s) -> Message]
      BY <1>1, <3>2, <3>4
    <3>6. t \in Seq(Message) /\ Len(t) = Len(s)
      <4> HIDE DEF t, s
      <4> QED BY <3>2, <3>5
    <3>7. \A j \in 1 .. Len(s) : t[j] = IF j = i + 1 THEN s[i] ELSE IF j = i THEN s[i + 1] ELSE s[j]
      BY <1>1, <3>2
    <3> HIDE DEF t, s
    <3> QED BY <3>2, <3>3, <3>6, <3>7
  <2> QED BY <2>1, <2>2
<1> HIDE DEF s
<1>5. toClient' \in [Clients -> Seq(Message)] /\ NumberInv'
  BY <1>1, <1>2, <1>4, QueueNumbers DEF netVars, s
<1>6. TypeOK'
  BY <1>1, <1>2, <1>5 DEF TypeOK, serverVars, netVars, mainVars
<1> QED BY <1>3, <1>5, <1>6 DEF NumbersInv

\* Steps that leave the server, the messages to clients and the numbers alone.
LEMMA OtherNumbersInv ==
  ASSUME NumbersInv, NEW c \in Clients,
         Start(c) \/ TryInitialiseRollback(c) \/ Embody(c) \/ LoseRequest(c)
  PROVE  NumbersInv'
<1>1. TypeOK /\ NumberInv /\ SeatInv
  BY DEF NumbersInv
<1>2. /\ UNCHANGED <<toClient, serverVars, netVars>>
      /\ good' \in BOOLEAN /\ faults' \in 0 .. MaxFaults
  BY <1>1, FaultsType DEF Start, TryInitialiseRollback, Embody, LoseRequest
<1>3. NumberInv' /\ SeatInv'
  BY <1>1, <1>2 DEF NumberInv, SeatInv, Owns, serverVars, netVars
<1>4. TypeOK'
  <2>1. CASE Start(c)
    BY <1>1, <1>2, <2>1 DEF TypeOK, serverVars, netVars, mainVars, Start
  <2>2. CASE TryInitialiseRollback(c)
    BY <1>1, <1>2, <2>2 DEF TypeOK, serverVars, netVars, mainVars, TryInitialiseRollback
  <2>3. CASE Embody(c)
    BY <1>1, <1>2, <2>3 DEF TypeOK, serverVars, netVars, mainVars, Embody
  <2>4. CASE LoseRequest(c)
    BY <1>1, <1>2, <2>4 DEF TypeOK, serverVars, netVars, mainVars, LoseRequest
  <2> QED BY <2>1, <2>2, <2>3, <2>4
<1> QED BY <1>3, <1>4 DEF NumbersInv

\* What ClientDoWork does to the client's members and messages.
LEMMA ClientDoWorkNumbersInv ==
  ASSUME NumbersInv, NEW c \in Clients, ClientDoWork(c)
  PROVE  NumbersInv'
<1> DEFINE s == toClient[c]
           m == Head(s)
<1>1. TypeOK /\ NumberInv /\ SeatInv /\ s \in Seq(Message) /\ s # <<>>
  BY DEF NumbersInv, TypeOK, ClientDoWork
<1>2. /\ UNCHANGED <<toServer, serverVars, joined, body, mainVars>>
      /\ good' \in BOOLEAN /\ faults' \in 0 .. MaxFaults
  BY <1>1, FaultsType DEF ClientDoWork
<1>3. m \in Message /\ 1 \in 1 .. Len(s) /\ m = s[1]
  BY <1>1
<1>4. SeatInv'
  BY <1>1, <1>2 DEF SeatInv, serverVars
<1>5. /\ m_playerNumber' = IF m.type = "p" THEN [m_playerNumber EXCEPT ![c] = m.number]
                           ELSE m_playerNumber
      /\ m_gameStartTime' = IF m.type = "p" THEN m_gameStartTime
                            ELSE [m_gameStartTime EXCEPT ![c] = "signal"]
  BY DEF ClientDoWork
<1>6. PICK t \in Seq(Message) :
        /\ toClient' = [toClient EXCEPT ![c] = t]
        /\ \A i \in 1 .. Len(t) : \E j \in 1 .. Len(s) : t[i] = s[j]
  <2>1. CASE toClient' = [toClient EXCEPT ![c] = Tail(s)]
    <3>1. /\ Tail(s) \in Seq(Message) /\ Len(Tail(s)) = Len(s) - 1
          /\ \A i \in 1 .. Len(Tail(s)) : Tail(s)[i] = s[i + 1]
      BY <1>1
    <3>2. ASSUME NEW i \in 1 .. Len(Tail(s))
          PROVE  i + 1 \in 1 .. Len(s) /\ Tail(s)[i] = s[i + 1]
      BY <1>1, <3>1
    <3> HIDE DEF s
    <3> QED BY <2>1, <3>1, <3>2
  <2>2. CASE UNCHANGED toClient
    <3>1. toClient' = [toClient EXCEPT ![c] = s]
      BY <1>1, <2>2 DEF TypeOK
    <3> HIDE DEF s
    <3> QED BY <1>1, <3>1
  <2> QED BY <2>1, <2>2 DEF ClientDoWork
<1> HIDE DEF m, s
<1>7. toClient' \in [Clients -> Seq(Message)]
  BY <1>1, <1>6 DEF TypeOK
<1>8. m.number >= 0 => Owns(c, m.number)
  BY <1>1, <1>3 DEF NumberInv, s
<1>9. m.number \in Seats \cup {-1}
  BY <1>3, MessageFields
<1>10. \A d \in Clients : \A n : Owns(d, n)' <=> Owns(d, n)
  BY <1>2 DEF Owns, serverVars
<1>11. ASSUME NEW d \in Clients, m_playerNumber'[d] > 0
       PROVE  Owns(d, m_playerNumber'[d])
  <2>1. CASE d = c /\ m.type = "p"
    BY <1>1, <1>5, <1>8, <1>9, <1>11, <2>1 DEF TypeOK, Seats
  <2>2. CASE ~(d = c /\ m.type = "p")
    <3>1. m_playerNumber'[d] = m_playerNumber[d]
      BY <1>1, <1>5, <2>2 DEF TypeOK
    <3> QED BY <1>1, <1>11, <3>1 DEF NumberInv
  <2> QED BY <2>1, <2>2
<1>12. ASSUME NEW d \in Clients, NEW i \in 1 .. Len(toClient'[d]),
              toClient'[d][i].number >= 0
       PROVE  Owns(d, toClient'[d][i].number)
  <2>1. CASE d = c
    <3>1. toClient'[c] = t
      BY <1>1, <1>6 DEF TypeOK
    <3>2. PICK j \in 1 .. Len(s) : t[i] = s[j]
      BY <1>6, <1>12, <2>1, <3>1
    <3> QED BY <1>1, <1>12, <2>1, <3>1, <3>2 DEF NumberInv, s
  <2>2. CASE d # c
    <3>1. toClient'[d] = toClient[d]
      BY <1>1, <1>6, <2>2 DEF TypeOK
    <3> QED BY <1>1, <1>12, <3>1 DEF NumberInv
  <2> QED BY <2>1, <2>2
<1>13. NumberInv'
  BY <1>10, <1>11, <1>12 DEF NumberInv
<1>14. TypeOK'
  BY <1>1, <1>2, <1>5, <1>7, <1>9 DEF TypeOK, serverVars, mainVars, StartTimes
<1> QED BY <1>4, <1>13, <1>14 DEF NumbersInv

\* The server takes in 'c': everyone who had a seat keeps it.
LEMMA ServerDoWorkNumbersInv ==
  ASSUME NumbersInv, ServerDoWork
  PROVE  NumbersInv'
<1> DEFINE k == m_clientConnectionCounter
<1>1. TypeOK /\ NumberInv /\ SeatInv /\ k \in 0 .. NumPlayers
  BY DEF NumbersInv, TypeOK
<1>2. PICK new \in toServer :
        LET seats == [m_clientSockets EXCEPT ![k] = new]
        IN  /\ IF k >= NumPlayers
               THEN /\ toClient' = [toClient EXCEPT ![new] = Arriving(new, <<Number(-1)>>)]
                    /\ UNCHANGED serverVars
               ELSE /\ m_clientSockets' = seats
                    /\ m_clientConnectionCounter' = k + 1
                    /\ toClient' = [c \in Clients |-> Arriving(c, Messages(c, new, k, seats))]
            /\ toServer' \subseteq toServer
            /\ Fault \/ NoFault
            /\ UNCHANGED <<joined, netVars, body, mainVars>>
  BY DEF ServerDoWork
<1>3. new \in Clients
  BY <1>1 DEF TypeOK
<1>4. good' \in BOOLEAN /\ faults' \in 0 .. MaxFaults
  BY <1>1, <1>2, FaultsType
<1> DEFINE seats == [m_clientSockets EXCEPT ![k] = new]
<1>5. CASE k >= NumPlayers
  <2> DEFINE a == Arriving(new, <<Number(-1)>>)
             s == toClient[new]
  <2>1. /\ toClient' = [toClient EXCEPT ![new] = a] /\ UNCHANGED serverVars
    BY <1>2, <1>5
  <2>2. s \in Seq(Message) /\ <<Number(-1)>> \in Seq(Message)
    BY <1>1, <1>3, MessageTypes DEF TypeOK
  <2>3. /\ a \in Seq(Message)
        /\ \A i \in 1 .. Len(a) : a[i] = IF i <= Len(s) THEN s[i]
                                         ELSE <<Number(-1)>>[i - Len(s)]
        /\ Len(a) <= Len(s) + 1
    <3> DEFINE one == <<Number(-1)>>
    <3>1. Len(one) = 1 /\ Len(s) \in Nat /\ one \in Seq(Message)
      BY <2>2
    <3> HIDE DEF one
    <3>2. /\ Arriving(new, one) \in Seq(Message)
          /\ Len(Arriving(new, one)) = IF Len(s) + 1 > SocketCapacity
                                       THEN SocketCapacity ELSE Len(s) + 1
          /\ \A i \in 1 .. Len(Arriving(new, one)) :
               Arriving(new, one)[i] = IF i <= Len(s) THEN s[i] ELSE one[i - Len(s)]
      BY <1>3, <2>2, <3>1, ArrivingType
    <3>3. Len(Arriving(new, one)) <= Len(s) + 1
      BY <3>1, <3>2, Seating
    <3> QED BY <3>2, <3>3 DEF one
  <2>4. ASSUME NEW i \in 1 .. Len(a), a[i].number >= 0
        PROVE  Owns(new, a[i].number)
    <3>1. CASE i <= Len(s)
      <4>1. a[i] = s[i] /\ i \in 1 .. Len(s)
        BY <2>2, <2>3, <3>1
      <4> QED BY <1>1, <1>3, <2>4, <4>1 DEF NumberInv
    <3>2. CASE ~(i <= Len(s))
      <4>1. i - Len(s) = 1
        BY <2>2, <2>3, <3>2
      <4>2. a[i] = Number(-1)
        BY <2>3, <3>2, <4>1
      <4> QED BY <2>4, <4>2, MessageTypes
    <3> QED BY <3>1, <3>2
  <2> HIDE DEF a, s
  <2>5. toClient' \in [Clients -> Seq(Message)]
    BY <1>1, <1>3, <2>1, <2>3 DEF TypeOK
  <2>6. NumberInv'
    BY <1>1, <1>2, <1>3, <2>1, <2>4 DEF NumberInv, Owns, TypeOK, serverVars, netVars
  <2>7. TypeOK' /\ SeatInv'
    BY <1>1, <1>2, <1>4, <2>1, <2>5 DEF TypeOK, SeatInv, serverVars, netVars, mainVars
  <2> QED BY <2>6, <2>7 DEF NumbersInv
<1>6. CASE ~(k >= NumPlayers)
  <2> DEFINE OwnsNow(d, n) == n < m_clientConnectionCounter' /\ m_clientSockets'[n] = d
  <2>1. /\ m_clientSockets' = seats /\ m_clientConnectionCounter' = k + 1
        /\ toClient' = [c \in Clients |-> Arriving(c, Messages(c, new, k, seats))]
    BY <1>2, <1>6
  <2>2. k \in Seats /\ k + 1 \in 0 .. NumPlayers
    BY <1>1, <1>6, Seating DEF Seats
  <2>3. \A d \in Clients, n \in Seats : Owns(d, n) => OwnsNow(d, n)
    BY <1>1, <2>1, <2>2 DEF Owns, TypeOK, Seats
  <2>4. OwnsNow(new, k)
    BY <1>1, <2>1, <2>2 DEF Owns, TypeOK
  <2>5. SeatInv'
    BY <1>1, <1>3, <2>1, <2>2, Seating DEF SeatInv, TypeOK, Seats
  <2> HIDE DEF k, seats
  <2>6. ASSUME NEW d \in Clients
        PROVE  /\ toClient'[d] \in Seq(Message)
               /\ \A i \in 1 .. Len(toClient'[d]) :
                    toClient'[d][i].number >= 0 => OwnsNow(d, toClient'[d][i].number)
    <3> DEFINE g == Messages(d, new, k, seats)
               s == toClient[d]
               a == Arriving(d, g)
    <3>1. s \in Seq(Message)
      BY <1>1 DEF TypeOK
    <3>2. /\ g \in Seq(Message)
          /\ \A i \in 1 .. Len(g) : (d = new /\ g[i] = Number(k)) \/ g[i] = StartSignal
      BY <1>3, <2>2, MessagesType
    <3>3. /\ a \in Seq(Message) /\ Len(a) <= Len(s) + Len(g)
          /\ \A i \in 1 .. Len(a) : a[i] = IF i <= Len(s) THEN s[i] ELSE g[i - Len(s)]
      BY <3>1, <3>2, ArrivingType, Seating
    <3>4. toClient'[d] = a
      BY <2>1
    <3>5. ASSUME NEW i \in 1 .. Len(a), a[i].number >= 0
          PROVE  OwnsNow(d, a[i].number)
      <4>1. CASE i <= Len(s)
        <5>1. a[i] = s[i] /\ i \in 1 .. Len(s)
          BY <3>1, <3>3, <4>1
        <5>2. s[i].number \in Seats
          BY <3>1, <3>5, <5>1, MessageFields
        <5> QED BY <1>1, <2>3, <3>5, <5>1, <5>2 DEF NumberInv
      <4>2. CASE ~(i <= Len(s))
        <5>1. a[i] = g[i - Len(s)] /\ i - Len(s) \in 1 .. Len(g)
          BY <3>1, <3>2, <3>3, <4>2
        <5>2. d = new /\ a[i] = Number(k)
          BY <3>2, <3>5, <5>1, MessageTypes
        <5> QED BY <2>4, <5>2, MessageTypes
      <4> QED BY <4>1, <4>2
    <3> QED BY <3>3, <3>4, <3>5
  <2>7. toClient' \in [Clients -> Seq(Message)]
    BY <2>1, <2>6
  <2>8. ASSUME NEW d \in Clients, m_playerNumber[d] > 0
        PROVE  OwnsNow(d, m_playerNumber[d])
    <3>1. m_playerNumber[d] \in Seats
      BY <1>1, <2>8 DEF TypeOK
    <3> QED BY <1>1, <2>3, <2>8, <3>1 DEF NumberInv
  <2>9. m_playerNumber' = m_playerNumber
    BY <1>2 DEF netVars
  <2>10. NumberInv'
    BY <2>6, <2>8, <2>9 DEF NumberInv, Owns
  <2>11. TypeOK'
    <3>1. m_clientSockets' \in [Seats -> Clients \cup {Nobody}]
      BY <1>1, <1>3, <2>1, <2>2 DEF TypeOK, seats
    <3> QED BY <1>1, <1>2, <1>4, <2>1, <2>2, <2>7, <3>1
            DEF TypeOK, netVars, mainVars
  <2> QED BY <2>5, <2>10, <2>11 DEF NumbersInv
<1> QED BY <1>5, <1>6

\* Every step keeps types, numbers and seats.
LEMMA NextNumbersInv ==
  ASSUME NumbersInv, [Next]_vars
  PROVE  NumbersInv'
<1>1. CASE ServerDoWork
  BY <1>1, ServerDoWorkNumbersInv
<1>2. ASSUME NEW c \in Clients, ClientDoWork(c) PROVE NumbersInv'
  BY <1>2, ClientDoWorkNumbersInv
<1>3. ASSUME NEW c \in Clients, LoseMessage(c) \/ OvertakeMessage(c) PROVE NumbersInv'
  BY <1>3, NetworkNumbersInv
<1>4. ASSUME NEW c \in Clients,
             Start(c) \/ TryInitialiseRollback(c) \/ Embody(c) \/ LoseRequest(c)
      PROVE  NumbersInv'
  BY <1>4, OtherNumbersInv
<1>5. CASE UNCHANGED vars
  BY <1>5 DEF NumbersInv, TypeOK, NumberInv, SeatInv, Owns, vars, serverVars, netVars, mainVars
<1> QED BY <1>1, <1>2, <1>3, <1>4, <1>5 DEF Next

-----------------------------------------------------------------------------
(* Good conditions.                                                        *)

\* At first nobody has been told anything.
LEMMA InitGoodInv ==
  ASSUME Init
  PROVE  GoodInv
<1> SUFFICES ASSUME good, NEW c \in Clients PROVE OrderlyClient(c)
  BY DEF GoodInv, Init
<1>1. m_gameStartTime[c] = "none" /\ m_lastUpdateTime[c] = "none"
  BY DEF Init, Junk, Uninitialised
<1>2. ~Seated(c)
  BY Seating DEF Init, Seated
<1>3. toClient[c] = <<>> /\ slot[c] = -1
  BY DEF Init
<1> QED BY <1>1, <1>2, <1>3 DEF OrderlyClient, Seated, Signalled, IsSet

\* In good conditions the network makes no faults, and conditions never change.
LEMMA GoodSteps ==
  ASSUME GoodInv, Fault \/ NoFault, good'
  PROVE  good /\ faults' = 0 /\ ~Fault /\ \A c \in Clients : OrderlyClient(c)
<1>1. good' = good
  BY DEF Fault, NoFault
<1>2. good /\ faults = 0 /\ \A c \in Clients : OrderlyClient(c)
  BY <1>1, Zenon DEF GoodInv
<1>3. ~Fault
  BY <1>2 DEF Fault
<1>4. faults' = 0
  BY <1>2, <1>3 DEF NoFault
<1> QED BY <1>2, <1>3, <1>4

\* A step that another client or the server takes for another client.
LEMMA OrderlyUnaffected ==
  ASSUME NEW d \in Clients, OrderlyClient(d), UNCHANGED serverVars,
         d \in joined' <=> d \in joined, d \in toServer' <=> d \in toServer,
         toClient'[d] = toClient[d], m_gameStartTime'[d] = m_gameStartTime[d],
         m_playerNumber'[d] = m_playerNumber[d],
         m_lastUpdateTime'[d] = m_lastUpdateTime[d], slot'[d] = slot[d]
  PROVE  OrderlyClient(d)'
BY DEF OrderlyClient, Unheard, Seated, Told, Signalled, serverVars

\* A client has at most one seat.
LEMMA OneSeat ==
  ASSUME NEW c \in Clients, OrderlyClient(c), NEW j \in Seats, NEW k \in Seats,
         m_clientSockets[j] = c, m_clientSockets[k] = c
  PROVE  j = k
<1>1. Told(c, j) /\ Told(c, k)
  BY DEF OrderlyClient
<1>2. ASSUME NEW n \in Seats, Told(c, n)
      PROVE  \/ /\ toClient[c] # <<>> /\ toClient[c][1].type = "p"
                /\ toClient[c][1].number = n
             \/ /\ toClient[c] = <<>> \/ toClient[c][1].type = "s"
                /\ m_playerNumber[c] = n
  <2>1. CASE toClient[c] = <<Number(n)>>
    BY <2>1, MessageTypes
  <2>2. CASE toClient[c] = <<Number(n), StartSignal>>
    BY <2>2, MessageTypes
  <2>3. CASE toClient[c] = <<>> /\ m_playerNumber[c] = n
    BY <2>3
  <2>4. CASE toClient[c] = <<StartSignal>> /\ m_playerNumber[c] = n
    BY <2>4, MessageTypes
  <2> QED BY <1>2, <2>1, <2>2, <2>3, <2>4 DEF Told
<1>3. CASE toClient[c] # <<>> /\ toClient[c][1].type = "p"
  BY <1>1, <1>2, <1>3
<1>4. CASE ~(toClient[c] # <<>> /\ toClient[c][1].type = "p")
  <2>1. \A n \in Seats : Told(c, n) => m_playerNumber[c] = n
    BY <1>2, <1>4
  <2> QED BY <1>1, <2>1
<1> QED BY <1>3, <1>4

\* A client that says 'c' has not been heard of yet, and still has not.
LEMMA StartGoodInv ==
  ASSUME NumbersInv, GoodInv, NEW c \in Clients, Start(c) \/ Embody(c)
  PROVE  GoodInv'
<1> SUFFICES ASSUME good', NEW d \in Clients PROVE faults' = 0 /\ OrderlyClient(d)'
  BY DEF GoodInv
<1>1. faults' = 0 /\ OrderlyClient(d)
  BY GoodSteps DEF Start, Embody
<1>2. /\ UNCHANGED <<toClient, serverVars, netVars, mainVars>>
      /\ d # c => (d \in joined' <=> d \in joined) /\ (d \in toServer' <=> d \in toServer)
  BY DEF Start, Embody
<1>3. CASE Start(c) /\ d = c
  <2>1. Unheard(d) /\ Unheard(d)'
    BY <1>3 DEF Start, Unheard
  <2> QED BY <1>1, <1>2, <2>1
          DEF OrderlyClient, Seated, Told, Signalled, serverVars, netVars, mainVars
<1>4. CASE ~(Start(c) /\ d = c)
  <2>1. (d \in joined' <=> d \in joined) /\ (d \in toServer' <=> d \in toServer)
    BY <1>2, <1>4 DEF Embody
  <2> QED BY <1>1, <1>2, <2>1, OrderlyUnaffected DEF netVars, mainVars
<1> QED BY <1>1, <1>3, <1>4

\* The main thread takes the number only after the signal, which comes after it.
LEMMA TryInitialiseRollbackGoodInv ==
  ASSUME NumbersInv, GoodInv, NEW c \in Clients, TryInitialiseRollback(c)
  PROVE  GoodInv'
<1> SUFFICES ASSUME good', NEW d \in Clients PROVE faults' = 0 /\ OrderlyClient(d)'
  BY DEF GoodInv
<1>1. faults' = 0 /\ OrderlyClient(d)
  BY GoodSteps DEF TryInitialiseRollback
<1>2. UNCHANGED <<toServer, toClient, serverVars, joined, netVars>>
  BY DEF TryInitialiseRollback
<1>3. TypeOK
  BY DEF NumbersInv
<1>4. CASE d = c
  <2>1. IsSet(m_lastUpdateTime'[c]) => m_gameStartTime[c] = "signal"
    BY <1>1, <1>3, <1>4 DEF TryInitialiseRollback, OrderlyClient, TypeOK, StartTimes, IsSet
  <2>2. slot'[c] # -1 => m_gameStartTime[c] = "signal" /\ slot'[c] = m_playerNumber[c]
    BY <1>1, <1>3, <1>4 DEF TryInitialiseRollback, OrderlyClient, TypeOK
  <2> QED BY <1>1, <1>2, <1>4, <2>1, <2>2
          DEF OrderlyClient, Unheard, Seated, Told, Signalled, serverVars, netVars
<1>5. CASE d # c
  <2>1. m_lastUpdateTime'[d] = m_lastUpdateTime[d] /\ slot'[d] = slot[d]
    BY <1>3, <1>5 DEF TryInitialiseRollback, TypeOK
  <2> QED BY <1>1, <1>2, <2>1, OrderlyUnaffected DEF netVars
<1> QED BY <1>1, <1>4, <1>5

\* Messages are read in the order they were sent.
LEMMA ClientDoWorkGoodInv ==
  ASSUME NumbersInv, GoodInv, NEW c \in Clients, ClientDoWork(c)
  PROVE  GoodInv'
<1> SUFFICES ASSUME good', NEW d \in Clients PROVE faults' = 0 /\ OrderlyClient(d)'
  BY DEF GoodInv
<1>1. faults' = 0 /\ OrderlyClient(d) /\ ~Fault
  BY GoodSteps DEF ClientDoWork
<1>2. /\ TypeOK /\ UNCHANGED <<toServer, serverVars, joined, body, mainVars>>
      /\ c \in joined /\ toClient[c] # <<>>
      /\ toClient' = [toClient EXCEPT ![c] = Tail(@)]
  BY <1>1 DEF NumbersInv, ClientDoWork
<1>3. CASE d # c
  <2>1. /\ m_playerNumber'[d] = m_playerNumber[d]
        /\ m_gameStartTime'[d] = m_gameStartTime[d]
        /\ toClient'[d] = toClient[d]
    BY <1>2, <1>3 DEF ClientDoWork, TypeOK
  <2> QED BY <1>1, <1>2, <2>1, OrderlyUnaffected DEF mainVars
<1>4. CASE d = c
  <2> DEFINE m == Head(toClient[c])
  <2>1. /\ toClient'[c] = Tail(toClient[c])
        /\ m.type = "p" => /\ m_playerNumber'[c] = m.number
                           /\ m_gameStartTime'[c] = m_gameStartTime[c]
        /\ m.type # "p" => /\ m_gameStartTime'[c] = "signal"
                           /\ m_playerNumber'[c] = m_playerNumber[c]
    BY <1>2 DEF ClientDoWork, TypeOK
  <2>2. ~Unheard(c) /\ ~Unheard(c)'
    BY <1>1, <1>2, <1>4 DEF OrderlyClient, Unheard
  <2>3. /\ Seated(c)' <=> Seated(c)
        /\ \A k \in Seats : m_clientSockets'[k] = c <=> m_clientSockets[k] = c
        /\ Full(m_clientConnectionCounter') <=> Full(m_clientConnectionCounter)
        /\ m_lastUpdateTime'[c] = m_lastUpdateTime[c] /\ slot'[c] = slot[c]
    BY <1>2 DEF Seated, serverVars, mainVars
  <2>4. OrderlyClient(c)
    BY <1>1, <1>4
  <2>5. CASE ~Seated(c)
    <3>1. toClient[c] = <<Number(-1)>> /\ m_gameStartTime[c] = "none"
      BY <1>2, <2>4, <2>5 DEF OrderlyClient
    <3>2. m.type = "p" /\ toClient'[c] = <<>> /\ m_gameStartTime'[c] = "none"
      BY <2>1, <3>1, MessageTypes
    <3>3. slot[c] = -1 /\ ~IsSet(m_lastUpdateTime[c])
      BY <2>4, <3>1 DEF OrderlyClient
    <3> QED BY <1>1, <1>4, <2>2, <2>3, <2>5, <3>2, <3>3
            DEF OrderlyClient, Seated, Signalled
  <2>6. CASE Seated(c)
    <3>1. PICK k \in Seats : m_clientSockets[k] = c
      BY <2>6 DEF Seated
    <3>2. \A j \in Seats : m_clientSockets[j] = c => j = k
      BY <2>4, <3>1, OneSeat
    <3>3. Told(c, k)
      BY <2>4, <3>1 DEF OrderlyClient
    <3>4. CASE m_gameStartTime[c] = "none" /\ toClient[c] = <<Number(k)>>
      <4>1. /\ m.type = "p" /\ m.number = k /\ toClient'[c] = <<>>
        BY <2>1, <3>4, MessageTypes
      <4>2. slot[c] = -1 /\ ~IsSet(m_lastUpdateTime[c])
        BY <2>4, <3>4 DEF OrderlyClient
      <4>3. Told(c, k)' /\ ~Signalled(c)' /\ m_gameStartTime'[c] = "none"
        BY <2>1, <3>4, <4>1 DEF Told, Signalled
      <4> QED BY <1>1, <1>4, <2>2, <2>3, <2>6, <3>2, <4>2, <4>3 DEF OrderlyClient
    <3>5. CASE m_gameStartTime[c] = "none" /\ toClient[c] = <<Number(k), StartSignal>>
      <4>1. /\ m.type = "p" /\ m.number = k /\ toClient'[c] = <<StartSignal>>
        BY <2>1, <3>5, MessageTypes
      <4>2. slot[c] = -1 /\ ~IsSet(m_lastUpdateTime[c])
        BY <2>4, <3>5 DEF OrderlyClient
      <4>3. Told(c, k)' /\ m_gameStartTime'[c] = "none"
        BY <2>1, <3>5, <4>1 DEF Told
      <4>4. Signalled(c)
        BY <3>5, MessageTypes DEF Signalled
      <4>5. Full(m_clientConnectionCounter)
        BY <2>4, <4>4 DEF OrderlyClient
      <4> QED BY <1>1, <1>4, <2>2, <2>3, <2>6, <3>2, <4>2, <4>3, <4>5 DEF OrderlyClient
    <3>6. CASE m_playerNumber[c] = k /\ toClient[c] = <<StartSignal>>
      <4>1. /\ m.type = "s" /\ toClient'[c] = <<>>
        BY <2>1, <3>6, MessageTypes
      <4>2. m_gameStartTime'[c] = "signal" /\ m_playerNumber'[c] = k
        BY <2>1, <3>6, <4>1
      <4>3. Told(c, k)'
        BY <4>1, <4>2 DEF Told
      <4>4. Signalled(c)
        BY <3>6, MessageTypes DEF Signalled
      <4>5. Full(m_clientConnectionCounter)
        BY <2>4, <4>4 DEF OrderlyClient
      <4>6. slot[c] # -1 => slot[c] = k
        BY <2>4, <3>6 DEF OrderlyClient
      <4> QED BY <1>1, <1>4, <2>2, <2>3, <2>6, <3>2, <4>2, <4>3, <4>5, <4>6
              DEF OrderlyClient
    <3> QED BY <1>2, <3>3, <3>4, <3>5, <3>6 DEF Told
  <2> QED BY <2>5, <2>6
<1> QED BY <1>1, <1>3, <1>4

\* Putting sequences of at most two messages together.
LEMMA ShortConcat ==
  ASSUME NEW m \in Message, NEW n \in Message
  PROVE  /\ <<>> \o <<>> = <<>> /\ <<>> \o <<m>> = <<m>> /\ <<>> \o <<m, n>> = <<m, n>>
         /\ <<m>> \o <<>> = <<m>> /\ <<m>> \o <<n>> = <<m, n>>
<1>1. /\ <<>> \o <<>> = <<>> /\ <<>> \o <<m>> = <<m>> /\ <<>> \o <<m, n>> = <<m, n>>
      /\ <<m>> \o <<>> = <<m>>
  <2>1. <<>> \in Seq(Message) /\ <<m>> \in Seq(Message) /\ <<m, n>> \in Seq(Message)
    OBVIOUS
  <2> QED BY <2>1, ConcatEmptySeq
<1>2. <<m>> \o <<n>> = <<m, n>>
  <2> DEFINE x == <<m>>
             y == <<n>>
             z == <<m, n>>
  <2>1. /\ x \in Seq(Message) /\ Len(x) = 1 /\ x[1] = m
        /\ y \in Seq(Message) /\ Len(y) = 1 /\ y[1] = n
        /\ z \in Seq(Message) /\ Len(z) = 2 /\ z[1] = m /\ z[2] = n
    OBVIOUS
  <2> HIDE DEF x, y, z
  <2> DEFINE r == x \o y
  <2>2. r \in Seq(Message) /\ Len(r) = 2 /\ r[1] = m /\ r[2] = n
    <3>1. /\ r \in Seq(Message) /\ Len(r) = Len(x) + Len(y)
          /\ \A i \in 1 .. Len(x) + Len(y) : r[i] = IF i <= Len(x) THEN x[i] ELSE y[i - Len(x)]
      BY <2>1, ConcatProperties
    <3> HIDE DEF r
    <3>2. Len(r) = 2 /\ \A i \in 1 .. 2 : r[i] = IF i <= 1 THEN x[i] ELSE y[i - 1]
      BY <2>1, <3>1
    <3>3. r[1] = x[1] /\ r[2] = y[1]
      BY <3>2
    <3> QED BY <2>1, <3>1, <3>2, <3>3
  <2> HIDE DEF r
  <2>3. r = z
    <3>1. ASSUME NEW i \in 1 .. Len(r) PROVE r[i] = z[i]
      <4>1. i = 1 \/ i = 2
        BY <2>2
      <4> QED BY <2>1, <2>2, <4>1
    <3> QED BY <2>1, <2>2, <3>1, SeqEqual
  <2> QED BY <2>3 DEF r, x, y, z
<1> QED BY <1>1, <1>2

\* What arrives at a client that has at most one message.
LEMMA ArrivingShort ==
  ASSUME NEW c \in Clients, NEW m \in Message, NEW n \in Message
  PROVE  /\ toClient[c] = <<>> =>
              /\ Arriving(c, <<>>) = <<>>
              /\ Arriving(c, <<m>>) = <<m>>
              /\ Arriving(c, <<m, n>>) \in {<<m>>, <<m, n>>}
         /\ toClient[c] = <<m>> =>
              /\ Arriving(c, <<>>) = <<m>>
              /\ Arriving(c, <<n>>) \in {<<m>>, <<m, n>>}
<1>1. SocketCapacity \in Nat /\ SocketCapacity >= 1
  BY Seating
<1>2. ASSUME NEW g, toClient[c] \o g = <<>> PROVE Arriving(c, g) = <<>>
  BY <1>1, <1>2 DEF Arriving
<1>3. ASSUME NEW g, toClient[c] \o g = <<m>> PROVE Arriving(c, g) = <<m>>
  <2>1. ~(Len(<<m>>) > SocketCapacity)
    BY <1>1
  <2> QED BY <1>3, <2>1 DEF Arriving
<1>4. ASSUME NEW g, toClient[c] \o g = <<m, n>> PROVE Arriving(c, g) \in {<<m>>, <<m, n>>}
  <2> DEFINE both == <<m, n>>
  <2>1. CASE SocketCapacity = 1
    <3> DEFINE one == <<m>>
               r   == SubSeq(both, 1, 1)
    <3>1. /\ both \in Seq(Message) /\ Len(both) = 2 /\ both[1] = m
          /\ one \in Seq(Message) /\ Len(one) = 1 /\ one[1] = m
      OBVIOUS
    <3> HIDE DEF both, one
    <3>2. r \in Seq(Message) /\ Len(r) = 1 /\ r[1] = both[1]
      BY <3>1
    <3> HIDE DEF r
    <3>3. r = one
      <4>1. \A i \in 1 .. Len(r) : r[i] = one[i]
        BY <3>1, <3>2
      <4> QED BY <3>1, <3>2, <4>1, SeqEqual
    <3>4. Arriving(c, g) = r
      BY <1>4, <2>1, <3>1 DEF Arriving, r, both
    <3> QED BY <3>3, <3>4 DEF one
  <2>2. CASE SocketCapacity # 1
    <3>1. ~(Len(both) > SocketCapacity)
      BY <1>1, <2>2
    <3> QED BY <1>4, <3>1 DEF Arriving
  <2> QED BY <2>1, <2>2
<1> QED BY <1>2, <1>3, <1>4, ShortConcat

\* What the server sends when client new, which had no seat, takes seat k.
LEMMA MessagesShort ==
  ASSUME NEW d \in Clients, NEW new \in Clients, NEW k \in Seats, NEW seats
  PROVE  /\ d # new /\ (\A i \in Seats : seats[i] # d) => Messages(d, new, k, seats) = <<>>
         /\ d # new => \A j \in Seats : (\A i \in Seats : seats[i] = d <=> i = j) =>
              Messages(d, new, k, seats) = IF Full(k + 1) THEN <<StartSignal>> ELSE <<>>
         /\ d = new /\ (\A i \in Seats : seats[i] = d <=> i = k) =>
              Messages(d, new, k, seats) = IF Full(k + 1) THEN <<Number(k), StartSignal>>
                                           ELSE <<Number(k)>>
<1>1. Number(k) \in Message /\ StartSignal \in Message
  BY MessageTypes
<1>2. /\ <<>> \o <<>> = <<>> /\ <<>> \o <<StartSignal>> = <<StartSignal>>
      /\ <<Number(k)>> \o <<>> = <<Number(k)>>
      /\ <<Number(k)>> \o <<StartSignal>> = <<Number(k), StartSignal>>
  BY <1>1, ShortConcat
<1>3. ASSUME d # new, \A i \in Seats : seats[i] # d
      PROVE  Messages(d, new, k, seats) = <<>>
  <2>1. Signals(d, seats) = <<>>
    BY <1>3, SignalsType
  <2> QED BY <1>2, <1>3, <2>1 DEF Messages
<1>4. ASSUME d # new, NEW j \in Seats, \A i \in Seats : seats[i] = d <=> i = j
      PROVE  Messages(d, new, k, seats) = IF Full(k + 1) THEN <<StartSignal>> ELSE <<>>
  <2>1. Signals(d, seats) = <<StartSignal>>
    BY <1>4, SignalsType
  <2> QED BY <1>2, <1>4, <2>1 DEF Messages
<1>5. ASSUME d = new, \A i \in Seats : seats[i] = d <=> i = k
      PROVE  Messages(d, new, k, seats) = IF Full(k + 1) THEN <<Number(k), StartSignal>>
                                          ELSE <<Number(k)>>
  <2>1. Signals(d, seats) = <<StartSignal>>
    BY <1>5, SignalsType
  <2> QED BY <1>2, <1>5, <2>1 DEF Messages, NumberOf
<1> QED BY <1>3, <1>4, <1>5

\* The last message of a short sequence.
LEMMA LastMessage ==
  ASSUME NEW k \in Seats \cup {-1}
  PROVE  LET q == <<Number(k)>> r == <<Number(k), StartSignal>> s == <<StartSignal>>
         IN  /\ q # <<>> /\ q[Len(q)].type # "s"
             /\ r # <<>> /\ r[Len(r)].type = "s"
             /\ s # <<>> /\ s[Len(s)].type = "s"
BY MessageTypes

\* The server fills a seat, and signals the start with the last.
LEMMA ServerDoWorkGoodInv ==
  ASSUME NumbersInv, GoodInv, ServerDoWork
  PROVE  GoodInv'
<1> SUFFICES ASSUME good' PROVE faults' = 0 /\ \A d \in Clients : OrderlyClient(d)'
  BY DEF GoodInv
<1>1. faults' = 0 /\ ~Fault /\ \A c \in Clients : OrderlyClient(c)
  <2>1. Fault \/ NoFault
    BY DEF ServerDoWork
  <2> QED BY <2>1, GoodSteps
<1> SUFFICES ASSUME NEW d \in Clients PROVE OrderlyClient(d)'
  BY <1>1
<1> DEFINE k == m_clientConnectionCounter
           SeatsWith(new) == [m_clientSockets EXCEPT ![k] = new]
<1>2. TypeOK /\ SeatInv /\ k \in 0 .. NumPlayers
  BY DEF NumbersInv, TypeOK
<1>3. PICK new \in toServer :
        /\ k >= NumPlayers =>
             /\ toClient' = [toClient EXCEPT ![new] = Arriving(new, <<Number(-1)>>)]
             /\ UNCHANGED serverVars
        /\ ~(k >= NumPlayers) =>
             /\ m_clientSockets' = SeatsWith(new)
             /\ m_clientConnectionCounter' = k + 1
             /\ toClient' = [c \in Clients |-> Arriving(c, Messages(c, new, k, SeatsWith(new)))]
        /\ toServer' = toServer \ {new}
        /\ UNCHANGED <<joined, netVars, body, mainVars>>
  BY <1>1 DEF ServerDoWork
<1>4. new \in Clients /\ new \in joined
  BY <1>2 DEF TypeOK
<1>5. /\ ~Seated(new) /\ toClient[new] = <<>> /\ m_gameStartTime[new] = "none"
      /\ ~IsSet(m_lastUpdateTime[new]) /\ slot[new] = -1
  BY <1>1, <1>4 DEF OrderlyClient, Unheard
<1>6. ~(new \notin joined' \/ new \in toServer')
  BY <1>3, <1>4
<1>7. /\ m_gameStartTime' = m_gameStartTime /\ m_playerNumber' = m_playerNumber
      /\ m_lastUpdateTime' = m_lastUpdateTime /\ slot' = slot /\ joined' = joined
  BY <1>3 DEF netVars, mainVars
<1>8. CASE k >= NumPlayers
  <2>1. toClient' = [toClient EXCEPT ![new] = Arriving(new, <<Number(-1)>>)]
    BY <1>3, <1>8
  <2>2. UNCHANGED serverVars
    BY <1>3, <1>8
  <2>3. CASE d = new
    <3>1. Arriving(new, <<Number(-1)>>) = <<Number(-1)>>
      BY <1>4, <1>5, ArrivingShort, MessageTypes
    <3>2. toClient'[d] = <<Number(-1)>>
      BY <1>2, <1>4, <2>1, <2>3, <3>1 DEF TypeOK
    <3>3. \A j \in Seats : m_clientSockets'[j] # d
      BY <1>5, <2>2, <2>3 DEF Seated, serverVars
    <3>4. ~Signalled(d)'
      BY <1>5, <1>7, <2>3, <3>2, LastMessage DEF Signalled
    <3> QED BY <1>1, <1>5, <1>6, <1>7, <2>3, <3>2, <3>3, <3>4
            DEF OrderlyClient, Unheard, Seated
  <2>4. CASE d # new
    <3>1. toClient'[d] = toClient[d]
      BY <1>2, <2>1, <2>4 DEF TypeOK
    <3> QED BY <1>1, <1>3, <1>7, <2>2, <2>4, <3>1, OrderlyUnaffected
  <2> QED BY <2>3, <2>4
<1>9. CASE ~(k >= NumPlayers)
  <2> DEFINE seats == SeatsWith(new)
             g == Messages(d, new, k, seats)
  <2>1. /\ m_clientSockets' = seats /\ m_clientConnectionCounter' = k + 1
        /\ toClient'[d] = Arriving(d, g)
    BY <1>3, <1>9
  <2>2. k \in Seats /\ ~Full(k) /\ m_clientSockets[k] = Nobody
    BY <1>2, <1>9, Seating DEF Seats, Full, SeatInv
  <2>3. \A j \in Seats : seats[j] = IF j = k THEN new ELSE m_clientSockets[j]
    BY <1>2, <2>2 DEF TypeOK
  <2>4. ~Signalled(d) /\ m_gameStartTime[d] = "none" /\ OrderlyClient(d)
    BY <1>1, <1>2, <2>2 DEF OrderlyClient, Signalled, TypeOK, StartTimes
  <2>5. ~IsSet(m_lastUpdateTime[d]) /\ slot[d] = -1
    BY <2>4 DEF OrderlyClient
  <2>6. Nobody # d
    BY Seating
  <2> HIDE DEF seats, k
  <2>7. ASSUME Unheard(d)' => ~Seated(d)' /\ toClient'[d] = <<>>,
                ~Seated(d)' => toClient'[d] \in {<<>>, <<Number(-1)>>},
                \A j \in Seats : m_clientSockets'[j] = d => Told(d, j)',
                Signalled(d)' => Full(k + 1)
         PROVE  OrderlyClient(d)'
    <3>1. m_gameStartTime'[d] = "none" /\ ~IsSet(m_lastUpdateTime'[d]) /\ slot'[d] = -1
      BY <1>7, <2>4, <2>5
    <3>2. Signalled(d)' => Full(m_clientConnectionCounter')
      BY <2>1, <2>7
    <3> QED BY <2>7, <3>1, <3>2 DEF OrderlyClient
  <2>8. CASE d = new
    <3>1. \A j \in Seats : seats[j] = d <=> j = k
      BY <1>5, <2>3, <2>8 DEF Seated
    <3>2. g = IF Full(k + 1) THEN <<Number(k), StartSignal>> ELSE <<Number(k)>>
      BY <2>2, <2>8, <3>1, MessagesShort
    <3>3. /\ toClient'[d] \in {<<Number(k)>>, <<Number(k), StartSignal>>}
          /\ ~Full(k + 1) => toClient'[d] = <<Number(k)>>
      <4>1. toClient[d] = <<>> /\ Number(k) \in Message /\ StartSignal \in Message
        BY <1>5, <2>2, <2>8, MessageTypes
      <4>2. CASE Full(k + 1)
        BY <2>1, <3>2, <4>1, <4>2, ArrivingShort
      <4>3. CASE ~Full(k + 1)
        BY <2>1, <3>2, <4>1, <4>3, ArrivingShort
      <4> QED BY <4>2, <4>3
    <3>4. Signalled(d)' => Full(k + 1)
      BY <1>7, <2>2, <2>4, <3>3, LastMessage DEF Signalled
    <3>5. \A j \in Seats : m_clientSockets'[j] = d => Told(d, j)'
      BY <1>7, <2>1, <2>4, <3>1, <3>3 DEF Told
    <3>6. Seated(d)' /\ ~Unheard(d)'
      BY <1>6, <2>1, <2>2, <2>8, <3>1 DEF Seated, Unheard
    <3> QED BY <2>7, <3>4, <3>5, <3>6
  <2>9. CASE d # new /\ ~Seated(d)
    <3>1. \A j \in Seats : seats[j] # d
      BY <2>3, <2>9 DEF Seated
    <3>2. g = <<>>
      BY <1>4, <2>2, <2>9, <3>1, MessagesShort
    <3>3. toClient[d] \in {<<>>, <<Number(-1)>>}
      BY <2>4, <2>9 DEF OrderlyClient
    <3>4. toClient'[d] = toClient[d]
      BY <2>1, <3>2, <3>3, ArrivingShort, MessageTypes
    <3>5. ~Seated(d)' /\ ~Signalled(d)'
      BY <1>7, <2>1, <2>4, <3>1, <3>4 DEF Seated, Signalled
    <3>6. Unheard(d)' => Unheard(d)
      BY <1>3, <1>7, <2>9 DEF Unheard
    <3>7. Unheard(d) => toClient[d] = <<>>
      BY <2>4 DEF OrderlyClient
    <3>8. \A j \in Seats : m_clientSockets'[j] # d
      BY <2>1, <3>1
    <3> QED BY <2>7, <3>3, <3>4, <3>5, <3>6, <3>7, <3>8
  <2>10. CASE d # new /\ Seated(d)
    <3>1. PICK j \in Seats : m_clientSockets[j] = d
      BY <2>10 DEF Seated
    <3>2. \A i \in Seats : seats[i] = d <=> i = j
      <4>1. \A i \in Seats : m_clientSockets[i] = d => i = j
        BY <2>4, <3>1, OneSeat
      <4>2. j # k
        BY <2>2, <2>6, <3>1
      <4> QED BY <2>3, <2>10, <3>1, <4>1, <4>2
    <3>3. g = IF Full(k + 1) THEN <<StartSignal>> ELSE <<>>
      BY <1>4, <2>2, <2>10, <3>2, MessagesShort
    <3>4. Told(d, j) /\ ~Unheard(d)
      BY <2>4, <2>10, <3>1 DEF OrderlyClient
    <3>5. Number(j) \in Message /\ StartSignal \in Message
      BY MessageTypes
    <3>6. Told(d, j)' /\ (Signalled(d)' => Full(k + 1))
      <4>1. CASE toClient[d] = <<Number(j)>>
        <5>1. /\ toClient'[d] \in {<<Number(j)>>, <<Number(j), StartSignal>>}
              /\ ~Full(k + 1) => toClient'[d] = <<Number(j)>>
          BY <2>1, <3>3, <3>5, <4>1, ArrivingShort
        <5> QED BY <1>7, <2>4, <5>1, LastMessage DEF Told, Signalled
      <4>2. CASE toClient[d] = <<>> /\ m_playerNumber[d] = j
        <5>1. /\ toClient'[d] \in {<<>>, <<StartSignal>>}
              /\ ~Full(k + 1) => toClient'[d] = <<>>
          BY <2>1, <3>3, <3>5, <4>2, ArrivingShort
        <5> QED BY <1>7, <2>4, <4>2, <5>1 DEF Told, Signalled
      <4>3. toClient[d] # <<Number(j), StartSignal>> /\ toClient[d] # <<StartSignal>>
        BY <2>4, LastMessage DEF Signalled
      <4> QED BY <2>4, <3>4, <4>1, <4>2, <4>3 DEF Told
    <3>7. Seated(d)' /\ ~Unheard(d)'
      BY <1>3, <1>7, <2>1, <3>2, <3>4 DEF Seated, Unheard
    <3>8. \A i \in Seats : m_clientSockets'[i] = d => Told(d, i)'
      BY <2>1, <3>2, <3>6
    <3> QED BY <2>7, <3>6, <3>7, <3>8
  <2> QED BY <1>1, <2>8, <2>9, <2>10
<1> QED BY <1>1, <1>8, <1>9

-----------------------------------------------------------------------------
(* The theorems.                                                           *)

\* Every step keeps the good conditions good.
LEMMA NextGoodInv ==
  ASSUME NumbersInv, GoodInv, [Next]_vars
  PROVE  GoodInv'
<1>1. CASE ServerDoWork
  BY <1>1, ServerDoWorkGoodInv
<1>2. ASSUME NEW c \in Clients, ClientDoWork(c) PROVE GoodInv'
  BY <1>2, ClientDoWorkGoodInv
<1>3. ASSUME NEW c \in Clients, TryInitialiseRollback(c) PROVE GoodInv'
  BY <1>3, TryInitialiseRollbackGoodInv
<1>4. ASSUME NEW c \in Clients, Start(c) \/ Embody(c) PROVE GoodInv'
  BY <1>4, StartGoodInv
<1>5. ASSUME NEW c \in Clients, LoseRequest(c) \/ LoseMessage(c) \/ OvertakeMessage(c)
      PROVE GoodInv'
  <2>1. Fault
    BY <1>5 DEF LoseRequest, LoseMessage, OvertakeMessage
  <2> QED BY <2>1, GoodSteps DEF GoodInv
<1>6. CASE UNCHANGED vars
  <2>1. good' = good /\ faults' = faults
    BY <1>6 DEF vars
  <2>2. ASSUME NEW c \in Clients, OrderlyClient(c) PROVE OrderlyClient(c)'
    BY <1>6, <2>2, OrderlyUnaffected DEF vars, netVars, mainVars
  <2> QED BY <2>1, <2>2 DEF GoodInv
<1> QED BY <1>1, <1>2, <1>3, <1>4, <1>5, <1>6 DEF Next

\* The inductive invariant: numbers, seats and, in good conditions, where each
\* client is between saying 'c' and beginning the game.
THEOREM LobbyInvariant == Spec => []LobbyInv
<1>1. Init => LobbyInv
  BY InitNumbersInv, InitGoodInv DEF LobbyInv, NumbersInv
<1>2. LobbyInv /\ [Next]_vars => LobbyInv'
  BY NextNumbersInv, NextGoodInv DEF LobbyInv, NumbersInv
<1> QED BY <1>1, <1>2, PTL DEF Spec

\* Every variable of the start of the game keeps its type.
THEOREM TypeSafe == Spec => []TypeOK
<1>1. LobbyInv => TypeOK
  BY DEF LobbyInv
<1> QED BY <1>1, LobbyInvariant, PTL

\* A number that TryInitialiseRollback may take, other than the default, is that
\* of a seat that the server gave this client, whatever datagrams are lost,
\* repeated or overtaken.
THEOREM NumbersOwn == Spec => []NumberIsOwn
<1>1. LobbyInv => NumberIsOwn
  BY DEF LobbyInv, NumberInv, NumberIsOwn, Owns
<1> QED BY <1>1, LobbyInvariant, PTL

\* In good conditions the server has filled every seat when TryInitialiseRollback
\* puts a client's own player into a slot, and the slot is the client's seat.
THEOREM PlaysOwnSeat == Spec => []PlaysInOwnSeat
<1>1. ASSUME LobbyInv PROVE PlaysInOwnSeat
  <2> SUFFICES ASSUME good, NEW c \in Clients, slot[c] # -1
               PROVE  /\ Full(m_clientConnectionCounter)
                      /\ m_clientSockets[slot[c]] = c /\ m_playerNumber[c] = slot[c]
    BY DEF PlaysInOwnSeat
  <2>1. OrderlyClient(c) /\ TypeOK
    BY <1>1 DEF LobbyInv, GoodInv
  <2>2. m_gameStartTime[c] = "signal" /\ slot[c] = m_playerNumber[c]
    BY <2>1 DEF OrderlyClient
  <2>3. Full(m_clientConnectionCounter)
    BY <2>1, <2>2 DEF OrderlyClient, Signalled
  <2>4. PICK k \in Seats : m_clientSockets[k] = c
    BY <2>1, <2>2 DEF OrderlyClient, Seated
  <2>5. m_playerNumber[c] = k
    BY <2>1, <2>2, <2>4 DEF OrderlyClient, Told
  <2> QED BY <2>2, <2>3, <2>4, <2>5
<1>2. LobbyInv => PlaysInOwnSeat
  BY <1>1
<1> QED BY <1>2, LobbyInvariant, PTL
=============================================================================
