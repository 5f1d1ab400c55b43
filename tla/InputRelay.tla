------------------------------ MODULE InputRelay ------------------------------
(***************************************************************************)
(* The exchange of player inputs while a game runs.  Each client has a     *)
(* main thread (CGamePlugin::MainUpdate: DoRollback, then Update, which    *)
(* calls EnqueueTick and SendTicks) and a network thread                   *)
(* (CNetworkClient::DoWork); they share the synchronizers, the atomic      *)
(* m_tickNum and a bounded queue.  One server thread                       *)
(* (CNetworkServer::DoWork) answers every datagram to its sender.  Player  *)
(* numbers have been given out and are distinct (module Lobby); an answer  *)
(* that could not be built may still change one.                           *)
(*                                                                         *)
(* Datagrams travel over UDP.  Towards the server they are lost,           *)
(* duplicated and overtake each other without limit; towards a client they *)
(* are lost and duplicated, and overtake each other if RepliesReorder.     *)
(*                                                                         *)
(* An operation on a synchronizer is one step (module InputWindow has the  *)
(* words inside one).  SendTicks is one step although it reads one window  *)
(* after the other and an Ack may come in between: a request with an older *)
(* entry for one player than for the next is left out.  The server and all *)
(* that is said of requests below take the entries one by one.             *)
(***************************************************************************)
EXTENDS InputSync, Sequences, FiniteSets

CONSTANTS
  NumPlayers,      \* NUM_PLAYERS
  GameDuration,    \* MAX_GAME_DURATION_TICKS
  QueueCapacity,   \* capacity of m_newPlayerInputsQueue
  SocketCapacity,  \* datagrams a socket holds; one that finds it full is lost
  RepliesReorder,  \* whether the network reorders replies to a client
  UserInput,       \* UserInput[p][t]: what the user of p does in tick t
  NumberRead(_)    \* the player number in a reply without a root that begins
                   \* with 'p', by the packets built before the failure; no
                   \* natural number if it does not begin so (FlatBuffer)

Players == 0 .. NumPlayers - 1

\* Update runs at most MaxTicks ticks in the last frame that it accepts.
Ticks == 0 .. GameDuration + MaxTicks

ASSUME InputRelayAssumption ==
  /\ NumPlayers \in Nat \ {0}
  /\ GameDuration \in Nat
  /\ QueueCapacity \in Nat \ {0}
  /\ SocketCapacity \in Nat \ {0}
  /\ RepliesReorder \in BOOLEAN
  /\ UserInput \in [Players -> [Ticks -> Inputs]]

VARIABLES
  tickNum,     \* CGameStateManager::m_tickNum of each client
  frame,       \* the ticks that its Update has run in this frame; 0 before
               \* Update, while DoRollback runs
  netTickNum,  \* CNetworkClient::m_tickNum
  sync,        \* sync[p][q]: client p's synchronizer for player q
  inputQueue,  \* m_newPlayerInputsQueue
  received,    \* received[p][q]: <<tick, input>> of q that DoRollback of p wrote
  reply,       \* the datagram the network thread of p is working through
  nextPlayer,  \* the player whose entry of it comes next
  playerNumber,  \* CNetworkClient::m_playerNumber
  fatal,       \* the clients that CryFatalError has terminated
  server,      \* server[q]: the server's synchronizer for player q
  toServer,    \* the datagrams from p that the server may still receive
  toClient,    \* the datagrams on their way to p, in order
  rootless     \* the numbers in replies without a root that p may receive

mainVars   == <<tickNum, frame, received>>
sharedVars == <<netTickNum, sync, inputQueue>>
netVars    == <<reply, nextPlayer>>
numberVars == <<playerNumber, rootless>>
vars == <<mainVars, sharedVars, netVars, numberVars, fatal, server, toServer, toClient>>

\* A ClientToServerUpdate is one packet for each player.
Datagram == [Players -> PlayerPacket]
NoDatagram == [q \in Players |-> GetPaket(NewSynchronizer, NoTick)]

\* STickInput
TickInput == [playerNum : Players, tickNum : Nat, count : 0 .. MaxTicks, inputs : Vector]

Init ==
  /\ tickNum    = [p \in Players |-> 0]
  /\ frame      = [p \in Players |-> 0]
  /\ netTickNum = [p \in Players |-> NoTick]
  /\ sync       = [p \in Players |-> [q \in Players |-> NewSynchronizer]]
  /\ inputQueue = [p \in Players |-> <<>>]
  /\ received   = [p \in Players |-> [q \in Players |-> {}]]
  /\ reply      = [p \in Players |-> NoDatagram]
  /\ nextPlayer = [p \in Players |-> NumPlayers]
  /\ playerNumber = [p \in Players |-> p]
  /\ fatal      = {}
  /\ server     = [q \in Players |-> NewSynchronizer]
  /\ toServer   = [p \in Players |-> {}]
  /\ toClient   = [p \in Players |-> <<>>]
  /\ rootless   = [p \in Players |-> {}]

-----------------------------------------------------------------------------
(* The main thread of client p.                                            *)

\* Fault: the last input is left out.
WrittenInputsButLast(u) == {<<u.tickNum + i, u.inputs[i]>> : i \in 0 .. u.count - 2}

\* Input i of an update belongs to tick tickNum + i.
WrittenInputs(u) == {<<u.tickNum + i, u.inputs[i]>> : i \in 0 .. u.count - 1}

\* One turn of the loop of DoRollback: GetInputUpdates has an update, whose
\* inputs are written into the ticks they belong to.
DequeueInputs(p) ==
  LET update == Head(inputQueue[p])
      q      == update.playerNum
  IN  /\ p \notin fatal
      /\ frame[p] = 0
      /\ inputQueue[p] # <<>>
      /\ inputQueue' = [inputQueue EXCEPT ![p] = Tail(@)]
      /\ IF q = playerNumber[p]
         THEN fatal' = fatal \cup {p} /\ UNCHANGED received
         ELSE /\ received' = [received EXCEPT ![p][q] = @ \cup WrittenInputs(update)]
              /\ UNCHANGED fatal
      /\ UNCHANGED <<tickNum, frame, netTickNum, sync, netVars, numberVars, server, toServer,
                     toClient>>

(***************************************************************************)
(* One tick of Update.  The first tick of a frame comes when DoRollback    *)
(* has found the queue empty; a frame without a tick is DoRollback alone.  *)
(* Update refuses to begin once the game is over, and the longest frame it *)
(* accepts has MaxTicks ticks.  A number that is no player's makes it      *)
(* write outside m_playerInputsSynchronizers, which is undefined: such a   *)
(* client is followed no further.  An update that is queued between the    *)
(* last look at the queue and the first tick waits for the next frame as   *)
(* one that is queued after the first tick does: the look and the first    *)
(* tick are one step.                                                      *)
(***************************************************************************)
EnqueueTick(p) ==
  /\ p \notin fatal
  /\ playerNumber[p] \in Players
  /\ frame[p] < MaxTicks
  /\ frame[p] = 0 => inputQueue[p] = <<>> /\ tickNum[p] <= GameDuration
  /\ netTickNum' = [netTickNum EXCEPT ![p] = tickNum[p]]
  /\ sync' = [sync EXCEPT ![p][playerNumber[p]] =
                         Enqueue(@, tickNum[p], UserInput[p][tickNum[p]])]
  /\ tickNum' = [tickNum EXCEPT ![p] = @ + 1]
  /\ frame' = [frame EXCEPT ![p] = @ + 1]
  /\ UNCHANGED <<inputQueue, received, netVars, numberVars, fatal, server, toServer, toClient>>

\* After its ticks Update sends every window.  If one of them does not fit in
\* a packet, SendTicks returns without sending anything.
SendTicks(p) ==
  LET Fits == \A q \in Players : CanGetPaket(sync[p][q], sync[p][q].lastTickAcked)
      m    == [q \in Players |-> GetPaket(sync[p][q], sync[p][q].lastTickAcked)]
  IN  /\ p \notin fatal
      /\ frame[p] > 0
      /\ frame' = [frame EXCEPT ![p] = 0]
      /\ toServer' = IF Fits /\ Cardinality(toServer[p]) < SocketCapacity
                     THEN [toServer EXCEPT ![p] = @ \cup {m}]
                     ELSE toServer
      /\ UNCHANGED <<tickNum, received, sharedVars, netVars, numberVars, fatal, server, toClient>>

-----------------------------------------------------------------------------
(* The network thread of client p: DoWork.                                 *)

\* Receive returns a datagram, which may come again.
ReceiveReply(p) ==
  /\ p \notin fatal
  /\ nextPlayer[p] = NumPlayers
  /\ toClient[p] # <<>>
  /\ reply' = [reply EXCEPT ![p] = Head(toClient[p])]
  /\ nextPlayer' = [nextPlayer EXCEPT ![p] = 0]
  /\ \/ toClient' = [toClient EXCEPT ![p] = Tail(@)]
     \/ UNCHANGED toClient
  /\ UNCHANGED <<mainVars, sharedVars, numberVars, fatal, server, toServer>>

\* Receive returns a reply without a root that begins with 'p'.  It stays under
\* way: it may come again, at any later time, or never.
ReceiveNumber(p) ==
  /\ p \notin fatal
  /\ nextPlayer[p] = NumPlayers
  /\ \E n \in rootless[p] : playerNumber' = [playerNumber EXCEPT ![p] = n]
  /\ UNCHANGED <<mainVars, sharedVars, netVars, rootless, fatal, server, toServer, toClient>>

\* Fault: no exception for the client's own inputs.
LastTickAckedOf(p, q) == sync[p][q].lastTickAcked

\* Fault: the client's own tick, whoever the player is.
LocalTick(p, q) == netTickNum[p]

\* The ternary before ParsePaket: of its own inputs a client is up to date.
LastTickHeld(p, q) ==
  IF q = playerNumber[p] THEN netTickNum[p] ELSE sync[p][q].lastTickAcked

\* Fault: one place is never used.
RoomOneShort(p) == Len(inputQueue[p]) < QueueCapacity - 1

\* What wait_enqueue waits for.
Room(p) == Len(inputQueue[p]) < QueueCapacity

(***************************************************************************)
(* One turn of the loop over the players.  wait_enqueue blocks while the   *)
(* queue is full; nothing before it in the turn changes state that another *)
(* thread sees, so blocking before the turn is the same.                   *)
(***************************************************************************)
HandleSync(p) ==
  LET q      == nextPlayer[p]
      pkt    == reply[p][q]
      parsed == ParsePaket(pkt, LastTickHeld(p, q))
      update == [playerNum |-> q, tickNum |-> parsed.firstTick,
                 count |-> parsed.count, inputs |-> parsed.inputs]
      Advance == /\ sync' = [sync EXCEPT ![p][q] = Ack(@, pkt.tickNum)]
                 /\ nextPlayer' = [nextPlayer EXCEPT ![p] = q + 1]
                 /\ reply' = IF q + 1 = NumPlayers
                             THEN [reply EXCEPT ![p] = NoDatagram]
                             ELSE reply
  IN  /\ p \notin fatal
      /\ q \in Players
      /\ IF parsed.count = 0
         THEN Advance /\ UNCHANGED <<inputQueue, fatal>>
         ELSE IF q = playerNumber[p]  \* "Received inputs for current player!"
         THEN fatal' = fatal \cup {p} /\ UNCHANGED <<sync, inputQueue, netVars>>
         ELSE /\ Room(p)
              /\ inputQueue' = [inputQueue EXCEPT ![p] = Append(@, update)]
              /\ Advance
              /\ UNCHANGED fatal
      /\ UNCHANGED <<mainVars, netTickNum, numberVars, server, toServer, toClient>>

-----------------------------------------------------------------------------
(* The server: DoWork on a datagram m from p.                              *)

\* Fault: the default of GetPaket, what the server itself has received.
ServerLastTickAcked(m, q) == server[q].lastTickAcked

\* The tick after which the reply to m starts the window of q: the last one
\* that m says its sender has.
ReplyBase(m, q) == m[q].tickNum

\* The packets that BuildResponsePacket makes before the first window that does
\* not fit.
PacketsBuilt(m, srv) ==
  LET Builds(n) == \A q \in 0 .. n - 1 : CanGetPaket(srv[q], ReplyBase(m, q))
      n == CHOOSE n \in Players : Builds(n) /\ ~Builds(n + 1)
  IN  [q \in 0 .. n - 1 |-> GetPaket(srv[q], ReplyBase(m, q))]

(***************************************************************************)
(* BuildResponsePacket and Send.  If a window does not fit, DoWork         *)
(* finishes what was built with a root that was never set and sends it all *)
(* the same.  No client takes it for inputs, but its first byte may be     *)
(* 'p' (module FlatBuffer).                                                *)
(***************************************************************************)
Respond(p, m, srv) ==
  LET r == [q \in Players |-> GetPaket(srv[q], ReplyBase(m, q))]
  IN  IF \A q \in Players : CanGetPaket(srv[q], ReplyBase(m, q))
      THEN /\ toClient' = IF Len(toClient[p]) < SocketCapacity
                          THEN [toClient EXCEPT ![p] = Append(@, r)]
                          ELSE toClient
           /\ UNCHANGED rootless
      ELSE /\ rootless' = [rootless EXCEPT ![p] =
                             @ \cup ({NumberRead(PacketsBuilt(m, srv))} \cap Nat)]
           /\ UNCHANGED toClient

\* UpdateServerData
UpdateServerData(m) == server' = [q \in Players |-> UpdateFromPacket(server[q], m[q])]

ServerDoWork(p) ==
  \E m \in toServer[p] :
    /\ UpdateServerData(m)
    /\ Respond(p, m, server')
    /\ \/ toServer' = [toServer EXCEPT ![p] = @ \ {m}]
       \/ UNCHANGED toServer
    /\ UNCHANGED <<mainVars, sharedVars, netVars, playerNumber, fatal>>

-----------------------------------------------------------------------------
(* The network.                                                            *)

LoseRequest(p) ==
  /\ \E m \in toServer[p] : toServer' = [toServer EXCEPT ![p] = @ \ {m}]
  /\ UNCHANGED <<mainVars, sharedVars, netVars, numberVars, fatal, server, toClient>>

LoseReply(p) ==
  /\ toClient[p] # <<>>
  /\ toClient' = [toClient EXCEPT ![p] = Tail(@)]
  /\ UNCHANGED <<mainVars, sharedVars, netVars, numberVars, fatal, server, toServer>>

OvertakeReply(p) ==
  /\ RepliesReorder
  /\ \E i \in 1 .. Len(toClient[p]) - 1 :
       toClient' = [toClient EXCEPT ![p] =
                      [@ EXCEPT ![i] = toClient[p][i + 1], ![i + 1] = toClient[p][i]]]
  /\ UNCHANGED <<mainVars, sharedVars, netVars, numberVars, fatal, server, toServer>>

-----------------------------------------------------------------------------
MainThread(p) == DequeueInputs(p) \/ EnqueueTick(p) \/ SendTicks(p)
NetworkThread(p) == ReceiveReply(p) \/ ReceiveNumber(p) \/ HandleSync(p)
Network(p) == LoseRequest(p) \/ LoseReply(p) \/ OvertakeReply(p)

Next == \E p \in Players :
          MainThread(p) \/ NetworkThread(p) \/ ServerDoWork(p) \/ Network(p)

Spec == Init /\ [][Next]_vars

\* The threads of a client keep running.  Nothing is assumed of the network,
\* of the server, or of when a client is scheduled relative to the other.
Fairness == \A p \in Players : WF_vars(MainThread(p)) /\ WF_vars(NetworkThread(p))
FairSpec == Spec /\ Fairness

-----------------------------------------------------------------------------
(* Properties.                                                             *)

\* Each variable has its type.
TypeOK ==
  /\ tickNum \in [Players -> Nat]
  /\ frame \in [Players -> 0 .. MaxTicks]
  /\ netTickNum \in [Players -> OptTick]
  /\ sync \in [Players -> [Players -> Synchronizer]]
  /\ inputQueue \in [Players -> Seq(TickInput)]
  /\ received \in [Players -> [Players -> SUBSET (Nat \X (Inputs \cup {NoInput}))]]
  /\ reply \in [Players -> Datagram]
  /\ nextPlayer \in [Players -> 0 .. NumPlayers]
  /\ playerNumber \in [Players -> Nat]
  /\ fatal \subseteq Players
  /\ server \in [Players -> Synchronizer]
  /\ toServer \in [Players -> SUBSET Datagram]
  /\ toClient \in [Players -> Seq(Datagram)]
  /\ rootless \in [Players -> SUBSET Nat]

\* No reply without a root has been sent that its receiver would read as another
\* number than its own.  Once one has, nothing below is promised: the receiver
\* stores and sends its inputs as those of another player from then on.
NoneMisread == \A p \in Players : rootless[p] \subseteq {p}

\* No client is killed by "Received inputs for current player!" or "Attempted
\* to overwrite local player's inputs": whatever is lost, repeated or overtaken,
\* and however far the two threads are apart, the server never knows of a tick
\* that the network thread does not yet see in m_tickNum.
NoFatalError == NoneMisread => fatal = {}

\* Whatever DoRollback writes into a tick is the input that player made in
\* that tick: no input is shifted to another tick, given to another player or
\* read from a ring slot that had been overwritten.
ReceivedInputsExact ==
  NoneMisread =>
    \A p, q \in Players : \A r \in received[p][q] :
      r[1] \in Ticks /\ r[2] = UserInput[q][r[1]]

\* The inputs of q that wait for the main thread of p.
Queued(p, q) ==
  UNION {WrittenInputs(inputQueue[p][k]) :
           k \in {j \in DOMAIN inputQueue[p] : inputQueue[p][j].playerNum = q}}

\* What a client acknowledges has been handed to its main thread: the ack that
\* lets the server drop an input never runs ahead of the hand-over.
AckedInputsDelivered ==
  NoneMisread =>
    \A p, q \in Players : p # q =>
      \A t \in 0 .. sync[p][q].lastTickAcked :
        <<t, UserInput[q][t]>> \in received[p][q] \cup Queued(p, q)

\* buffer holds the last MaxTicks inputs of q up to tick last.
HoldsWindow(buffer, q, last) ==
  \A t \in Ticks : last - MaxTicks < t /\ t <= last => buffer[Slot(t)] = UserInput[q][t]

\* The last MaxTicks inputs up to the server's tick of a player are in its
\* ring, whatever losses, repeats and overtaking preceded: every window the
\* server can be asked for and that fits in a packet is intact.
ServerHoldsWindow ==
  \A q \in Players : HoldsWindow(server[q].buffer, q, server[q].tickNum)

\* A client never moves its send window past what the server has: an input
\* that the server lacks is always still in the window that is sent.
WindowNeverSkipsServer ==
  NoneMisread => \A p \in Players : sync[p][p].lastTickAcked <= server[p].tickNum

\* Late and repeated datagrams never make the server go back.
ServerNeverForgets ==
  [][\A q \in Players : /\ server'[q].lastTickAcked >= server[q].lastTickAcked
                        /\ server'[q].tickNum >= server[q].tickNum]_server

\* Client p is more than MaxTicks ticks ahead of what the server has of it, and
\* no datagram that could change that is under way.
CutOff(p) ==
  /\ tickNum[p] - 1 - server[p].tickNum > MaxTicks
  /\ \A m \in toServer[p] : m[p].tickNum <= server[p].tickNum

\* There is no way back from that: SendTicks finds the window too long in
\* every later frame, so the inputs of p end there for everyone else.
CutOffForGood ==
  [][NoneMisread =>
       \A p \in Players : CutOff(p) => CutOff(p)' /\ UNCHANGED server[p]]_vars

\* Client p lacks more than MaxTicks ticks of q, and so does every request of p
\* that the server may still receive; no reply is under way.
DeafTo(p, q) ==
  /\ server[q].tickNum - sync[p][q].tickNum > MaxTicks
  /\ \A m \in toServer[p] : server[q].tickNum - m[q].tickNum > MaxTicks
Deaf(p) == /\ nextPlayer[p] = NumPlayers
           /\ toClient[p] = <<>>
           /\ \E q \in Players \ {p} : DeafTo(p, q)

\* There is no way back from that either: one window that does not fit costs p
\* every later reply, those about the other players and its own acks included.
DeafForGood == [][NoneMisread => \A p \in Players : Deaf(p) => Deaf(p)']_vars

\* The relay implements InputStream, as long as NoneMisread holds: what DoRollback
\* wrote is a growing prefix of what the other player did.
Held(p, q) == IF p = q THEN {<<t, UserInput[p][t]>> : t \in 0 .. tickNum[p] - 1}
              ELSE received[p][q]
Stream == INSTANCE InputStream WITH
            stream <- [p \in Players |-> [q \in Players |-> Held(p, q)]]
StreamSpec == Stream!Spec

\* A network thread that waits for room in the queue in the middle of a
\* datagram gets to the end of that datagram.
ReplyWorkedThrough ==
  \A p \in Players : nextPlayer[p] < NumPlayers ~> nextPlayer[p] = NumPlayers

\* An input a client has acknowledged is written into its tick eventually, unless
\* a reply is misread: the server will not send it again.
AckedInputsApplied ==
  \A p, q \in Players : \A t \in Ticks :
    p # q => (sync[p][q].lastTickAcked >= t
                ~> <<t, UserInput[q][t]>> \in received[p][q] \/ ~NoneMisread)

-----------------------------------------------------------------------------
(***************************************************************************)
(* The invariant behind NoFatalError, ReceivedInputsExact,                 *)
(* ServerHoldsWindow, WindowNeverSkipsServer and ServerNeverForgets: every *)
(* step keeps it while NoneMisread holds.  It does not depend on the order *)
(* of replies.  In short: what a client says of itself is true, what the   *)
(* server stores and repeats is true, and nobody is credited with a tick   *)
(* that is not yet known upstream.                                         *)
(***************************************************************************)

\* The inputs in pkt are those of q in the last ticks up to pkt.tickNum.
Exact(q, pkt) ==
  /\ pkt.count <= pkt.tickNum + 1
  /\ \A i \in 0 .. pkt.count - 1 :
       pkt.inputs[i] = UserInput[q][pkt.tickNum + 1 - pkt.count + i]

\* A client stops at the end of the game, and m_tickNum of its network client
\* is the last tick it has played.
TickInv ==
  \A p \in Players : /\ frame[p] > 0 => tickNum[p] - frame[p] <= GameDuration
                     /\ tickNum[p] <= GameDuration + MaxTicks
                     /\ netTickNum[p] = tickNum[p] - 1

\* The server has everything up to its tick, which the player has played.
ServerInv ==
  /\ ServerHoldsWindow
  /\ \A q \in Players : /\ server[q].lastTickAcked = server[q].tickNum
                        /\ server[q].tickNum <= netTickNum[q]

\* A client's own window ends at its newest tick, or at its ack when the network
\* thread has just acked.
OwnWindowInv ==
  \A p \in Players :
    /\ HoldsWindow(sync[p][p].buffer, p, netTickNum[p])
    /\ sync[p][p].lastTickAcked <= server[p].tickNum
    /\ sync[p][p].tickNum \in {sync[p][p].lastTickAcked, netTickNum[p]}

\* Of the others it has only an ack, of a tick the server has.
OtherWindowInv ==
  \A p, q \in Players : p # q => /\ sync[p][q].tickNum = sync[p][q].lastTickAcked
                                 /\ sync[p][q].tickNum <= server[q].tickNum

\* A request is true of its sender, starts no later than the server's next tick
\* and says nothing of the others.
RequestInv ==
  \A p \in Players : \A m \in toServer[p] :
    /\ Exact(p, m[p])
    /\ m[p].tickNum <= netTickNum[p]
    /\ m[p].tickNum - m[p].count <= server[p].tickNum
    /\ \A q \in Players \ {p} : m[q].count = 0 /\ m[q].tickNum <= server[q].tickNum

\* A reply is true of every player.
TrueReply(r) == \A q \in Players : Exact(q, r[q]) /\ r[q].tickNum <= server[q].tickNum
ReplyInv ==
  \A p \in Players : /\ TrueReply(reply[p])
                     /\ \A k \in DOMAIN toClient[p] : TrueReply(toClient[p][k])

\* So is what has been taken from replies.
TrueInput(q, r) == r[1] <= server[q].tickNum /\ r[2] = UserInput[q][r[1]]
DeliveryInv ==
  \A p \in Players :
    /\ \A k \in DOMAIN inputQueue[p] :
         LET u == inputQueue[p][k]
         IN  u.playerNum # p /\ \A r \in WrittenInputs(u) : TrueInput(u.playerNum, r)
    /\ \A q \in Players : \A r \in received[p][q] : TrueInput(q, r)

\* Every client has the number it was given.
NumbersKept == \A p \in Players : playerNumber[p] = p

RelayInv == /\ NumbersKept
            /\ TickInv
            /\ ServerInv
            /\ OwnWindowInv
            /\ OtherWindowInv
            /\ RequestInv
            /\ ReplyInv
            /\ DeliveryInv
            /\ fatal = {}
=============================================================================
