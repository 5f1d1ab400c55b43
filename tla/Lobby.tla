-------------------------------- MODULE Lobby --------------------------------
(***************************************************************************)
(* How a game begins.  Each client's network thread says 'c' once          *)
(* (CNetworkClient::Start); the server gives out player numbers in the     *)
(* order of these datagrams ('p') and, with the last number, sends         *)
(* everyone the start time ('s').  The main thread waits in                *)
(* TryInitialiseRollback for a start time and a living player, and then    *)
(* takes whatever number the client has.                                   *)
(*                                                                         *)
(* None of the datagrams is acknowledged or repeated by the program.       *)
(* Unless the conditions are good, the network loses, repeats and reorders *)
(* some of them, and the memory of the start time and of the time of the   *)
(* last update, which no constructor sets, is not 0.                       *)
(***************************************************************************)
EXTENDS Integers, Sequences, FiniteSets

CONSTANTS
  Clients,         \* the addresses that datagrams come from
  Nobody,          \* the address that m_clientSockets is initialised with
  NumPlayers,      \* NUM_PLAYERS
  SocketCapacity,  \* datagrams a client's socket holds
  JunkTimes,       \* whether memory that no constructor sets may hold junk
  MaxFaults        \* bound on the datagrams that the network mistreats and the
                   \* clients whose times are junk

\* Of a time matters whether it is set, and where it comes from.
StartTimes == {"none", "junk", "signal"}
IsSet(time) == time # "none"

ASSUME LobbyAssumption ==
  /\ IsFiniteSet(Clients)
  /\ Nobody \notin Clients
  /\ NumPlayers \in Nat \ {0}
  /\ SocketCapacity \in Nat \ {0}
  /\ JunkTimes \in BOOLEAN
  /\ MaxFaults \in Nat

VARIABLES
  good,                       \* whether the conditions are
  faults,                     \* how many faults the network has yet to make
  toServer,                   \* the 'c' datagrams under way, by their sender
  toClient,                   \* the datagrams on their way to each client
  m_clientConnectionCounter,  \* of the server
  m_clientSockets,            \* of the server: the client in each seat
  joined,                     \* the clients whose network thread has begun
  m_playerNumber,             \* of each client
  m_gameStartTime,            \* of each client
  body,                       \* the player entity of each client
  m_lastUpdateTime,           \* of each client's CGamePlugin
  slot                        \* the slot of m_rollbackPlayers that its own player
                              \* was put into; -1 until m_rollbackInitialised

serverVars == <<m_clientConnectionCounter, m_clientSockets>>
netVars    == <<m_playerNumber, m_gameStartTime>>
mainVars   == <<m_lastUpdateTime, slot>>
vars == <<good, faults, toServer, toClient, serverVars, joined, netVars, body, mainVars>>

Seats  == 0 .. NumPlayers - 1
Number(n) == [type |-> "p", number |-> n]
StartSignal == [type |-> "s", number |-> -1]

Junk == {c \in Clients : m_gameStartTime[c] = "junk" \/ m_lastUpdateTime[c] = "junk"}
Uninitialised == {"none"} \cup (IF JunkTimes THEN {"junk"} ELSE {})

Init ==
  /\ good \in BOOLEAN
  /\ m_gameStartTime \in [Clients -> Uninitialised]
  /\ m_lastUpdateTime \in [Clients -> Uninitialised]
  /\ faults = IF good THEN 0 ELSE MaxFaults - Cardinality(Junk)
  /\ good => Junk = {}
  /\ Cardinality(Junk) <= MaxFaults
  /\ toServer = {}
  /\ toClient = [c \in Clients |-> <<>>]
  /\ m_clientConnectionCounter = 0
  /\ m_clientSockets = [k \in Seats |-> Nobody]
  /\ joined = {}
  /\ m_playerNumber = [c \in Clients |-> 0]
  /\ body = [c \in Clients |-> "absent"]
  /\ slot = [c \in Clients |-> -1]

\* The network does to a datagram what it should not.
Fault == /\ faults > 0 /\ faults' = faults - 1
         /\ UNCHANGED good
NoFault == UNCHANGED <<good, faults>>

-----------------------------------------------------------------------------
\* CNetworkClient::Start, once.
Start(c) ==
  /\ c \notin joined
  /\ joined' = joined \cup {c}
  /\ toServer' = toServer \cup {c}
  /\ NoFault
  /\ UNCHANGED <<toClient, serverVars, netVars, body, mainVars>>

\* A full socket loses what comes.
Arriving(c, messages) ==
  LET all == toClient[c] \o messages
  IN  IF Len(all) > SocketCapacity THEN SubSeq(all, 1, SocketCapacity) ELSE all

\* Fault: the number is taken after the counter has moved on.
NumberAfterCount(k) == Number(k + 1)

\* The reply to the client that takes seat k.
NumberOf(k) == Number(k)

\* Fault: the last client to come is not sent the signal.
SignalsButLast(c, seats) ==
  [i \in 1 .. Cardinality({s \in Seats \ {NumPlayers - 1} : seats[s] = c}) |-> StartSignal]

\* The loop over m_clientSockets: one signal for each seat of c.
Signals(c, seats) ==
  [i \in 1 .. Cardinality({s \in Seats : seats[s] = c}) |-> StartSignal]

Full(counter) == counter = NumPlayers

\* Fault: the start is announced before the last number.
SignalsFirst(c, new, k, seats) ==
  (IF Full(k + 1) THEN Signals(c, seats) ELSE <<>>)
    \o (IF c = new THEN <<NumberOf(k)>> ELSE <<>>)

\* What the server sends c when client new takes seat k.
Messages(c, new, k, seats) ==
  (IF c = new THEN <<NumberOf(k)>> ELSE <<>>)
    \o (IF Full(k + 1) THEN Signals(c, seats) ELSE <<>>)

\* The branch of CNetworkServer::DoWork for 'c'.
ServerDoWork ==
  \E new \in toServer :
    LET k == m_clientConnectionCounter
        seats == [m_clientSockets EXCEPT ![k] = new]
    IN  /\ IF k >= NumPlayers
           THEN /\ toClient' = [toClient EXCEPT ![new] = Arriving(new, <<Number(-1)>>)]
                /\ UNCHANGED serverVars
           ELSE /\ m_clientSockets' = seats
                /\ m_clientConnectionCounter' = k + 1
                /\ toClient' = [c \in Clients |-> Arriving(c, Messages(c, new, k, seats))]
        /\ \/ toServer' = toServer \ {new} /\ NoFault
           \/ UNCHANGED toServer /\ Fault
        /\ UNCHANGED <<joined, netVars, body, mainVars>>

\* The branches of CNetworkClient::DoWork for 'p' and 's'.
ClientDoWork(c) ==
  /\ c \in joined
  /\ toClient[c] # <<>>
  /\ LET m == Head(toClient[c])
     IN  IF m.type = "p"
         THEN /\ m_playerNumber' = [m_playerNumber EXCEPT ![c] = m.number]
              /\ UNCHANGED m_gameStartTime
         ELSE /\ m_gameStartTime' = [m_gameStartTime EXCEPT ![c] = "signal"]
              /\ UNCHANGED m_playerNumber
  /\ \/ toClient' = [toClient EXCEPT ![c] = Tail(@)] /\ NoFault
     \/ UNCHANGED toClient /\ Fault
  /\ UNCHANGED <<toServer, serverVars, joined, body, mainVars>>

\* TryInitialiseRollback, in each frame until m_rollbackInitialised.
TryInitialiseRollback(c) ==
  /\ slot[c] = -1
  /\ body[c] # "absent"
  /\ IF body[c] # "alive" \/ ~IsSet(m_lastUpdateTime[c])
     THEN /\ IsSet(m_gameStartTime[c])
          /\ m_lastUpdateTime' = [m_lastUpdateTime EXCEPT ![c] = m_gameStartTime[c]]
          /\ UNCHANGED slot
     ELSE /\ m_playerNumber[c] # -1
          /\ slot' = [slot EXCEPT ![c] = m_playerNumber[c]]
          /\ UNCHANGED m_lastUpdateTime
  /\ NoFault
  /\ UNCHANGED <<toServer, toClient, serverVars, joined, netVars, body>>

\* The engine creates the local player's entity and later revives it
\* (OnClientConnectionReceived, OnClientReadyForGameplay).
Embody(c) ==
  /\ \/ body[c] = "absent" /\ body' = [body EXCEPT ![c] = "dead"]
     \/ body[c] = "dead"   /\ body' = [body EXCEPT ![c] = "alive"]
  /\ NoFault
  /\ UNCHANGED <<toServer, toClient, serverVars, joined, netVars, mainVars>>

-----------------------------------------------------------------------------
(* The network.                                                            *)

LoseRequest(c) ==
  /\ Fault
  /\ c \in toServer
  /\ toServer' = toServer \ {c}
  /\ UNCHANGED <<toClient, serverVars, joined, netVars, body, mainVars>>

LoseMessage(c) ==
  /\ Fault
  /\ toClient[c] # <<>>
  /\ toClient' = [toClient EXCEPT ![c] = Tail(@)]
  /\ UNCHANGED <<toServer, serverVars, joined, netVars, body, mainVars>>

OvertakeMessage(c) ==
  /\ Fault
  /\ \E i \in 1 .. Len(toClient[c]) - 1 :
       toClient' = [toClient EXCEPT ![c][i] = toClient[c][i + 1],
                                    ![c][i + 1] = toClient[c][i]]
  /\ UNCHANGED <<toServer, serverVars, joined, netVars, body, mainVars>>

Next == \/ ServerDoWork
        \/ \E c \in Clients :
             \/ Start(c) \/ ClientDoWork(c) \/ TryInitialiseRollback(c) \/ Embody(c)
             \/ LoseRequest(c) \/ LoseMessage(c) \/ OvertakeMessage(c)

Spec == Init /\ [][Next]_vars

\* The threads keep running and the engine goes on to revive its player.
Fairness == /\ WF_vars(ServerDoWork)
            /\ \A c \in Clients : /\ WF_vars(Start(c)) /\ WF_vars(ClientDoWork(c))
                                  /\ WF_vars(TryInitialiseRollback(c))
                                  /\ WF_vars(Embody(c))
FairSpec == Spec /\ Fairness

-----------------------------------------------------------------------------
(* Properties.                                                             *)

Message == [type : {"p"}, number : Seats \cup {-1}] \cup {StartSignal}

\* Each variable has its type.
TypeOK ==
  /\ good \in BOOLEAN /\ faults \in 0 .. MaxFaults
  /\ toServer \subseteq joined /\ joined \subseteq Clients
  /\ toClient \in [Clients -> Seq(Message)]
  /\ m_clientConnectionCounter \in 0 .. NumPlayers
  /\ m_clientSockets \in [Seats -> Clients \cup {Nobody}]
  /\ m_playerNumber \in [Clients -> Seats \cup {-1}]
  /\ m_gameStartTime \in [Clients -> StartTimes]
  /\ body \in [Clients -> {"absent", "dead", "alive"}]
  /\ m_lastUpdateTime \in [Clients -> StartTimes]
  /\ slot \in [Clients -> Seats \cup {-1}]

\* In good conditions a client that has begun the game plays in the seat that
\* the server gave to it, every seat is taken, and the number it plays under is
\* still the slot that its own player was put into.
PlaysInOwnSeat ==
  good => \A c \in Clients : slot[c] # -1 =>
    /\ Full(m_clientConnectionCounter)
    /\ m_clientSockets[slot[c]] = c
    /\ m_playerNumber[c] = slot[c]

\* A number that is not the default is never another client's, whatever the
\* network does and however many seats a repeated 'c' has taken.
NumberIsOwn ==
  \A c \in Clients : m_playerNumber[c] > 0 => m_clientSockets[m_playerNumber[c]] = c

\* No two clients that have begun play the same player: the inputs of a client's
\* own player come from nobody else.
OneClientPerPlayer ==
  \A c, d \in Clients : c # d /\ slot[c] # -1 => slot[c] # slot[d]

\* In good conditions, once every seat is taken everyone who has one begins the
\* game.
GameStarts ==
  \A c \in Clients :
    good /\ Full(m_clientConnectionCounter) /\ (\E k \in Seats : m_clientSockets[k] = c)
      ~> slot[c] # -1
=============================================================================
