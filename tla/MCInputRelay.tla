---------------------------- MODULE MCInputRelay ----------------------------
(***************************************************************************)
(* Small instances of InputRelay.  The input of a tick is named after its  *)
(* player and tick, so that no two are mistaken for each other.            *)
(***************************************************************************)
EXTENDS InputRelay

FB == INSTANCE FlatBuffer WITH MaxTicksToTransmit <- MaxTicks

CONSTANTS
  MaxTicksOf0,   \* bound on the ticks of player 0
  MaxTicksOf1,   \* bound on the ticks of player 1
  MaxTotalTicks  \* bound on the ticks that both play together

MCInputs == Players \X Ticks
MCUserInput == [p \in Players |-> [t \in Ticks |-> <<p, t>>]]

\* What a client reads in the bytes that the builder leaves.
MCNumberRead(packets) ==
  LET made(q) == [tickNum |-> packets[q].tickNum,
                  inputs  |-> [k \in 1 .. packets[q].count |-> packets[q].inputs[k - 1]]]
      b == FB!EncodedWithoutRoot([k \in 1 .. Cardinality(DOMAIN packets) |-> made(k - 1)])
  IN  IF FB!FirstByte(b) = FB!Char("p") THEN FB!NumberIn(b) ELSE -1

\* Without the luck that the bytes of such small windows never begin with 'p': every
\* reply that could not be built is read as a number.
MCNumberEach(packets) == Cardinality(DOMAIN packets)

\* The specification treats players alike, so one of them may play less.
TicksBounded == /\ tickNum[0] <= MaxTicksOf0
                /\ tickNum[1] <= MaxTicksOf1
                /\ tickNum[0] + tickNum[1] <= MaxTotalTicks

\* A narrower search: every frame has one tick, and player 0 reads only the acks of
\* its own inputs.
OneTickFrames == TicksBounded /\ \A p \in Players : frame[p] <= 1
AcksOf0 == OneTickFrames /\ (nextPlayer[0] < NumPlayers => reply[0][1].count = 0)

\* An even narrower one: player 0 reads no reply.
OneReader == OneTickFrames /\ nextPlayer[0] = NumPlayers

\* The server answers no request of player 0 with inputs twice.
RequestsOf0Once == Len(toClient'[0]) > Len(toClient[0]) => toServer'[0] # toServer[0]

\* A quiet network for player 0: nothing of his is lost but at a full socket, nor
\* received twice.  What player 1 sends and is sent is lost and comes again.
QuietNetwork == /\ RequestsOf0Once
                /\ ~LoseRequest(0) /\ ~LoseReply(0)
                /\ nextPlayer'[0] < nextPlayer[0] => toClient'[0] # toClient[0]

\* Losses and delays, but no datagram is received twice.
NoRepeats ==
  \A p \in Players :
    /\ nextPlayer'[p] < nextPlayer[p] => toClient'[p] # toClient[p]
    /\ server' # server \/ Len(toClient'[p]) > Len(toClient[p])
         => toServer' # toServer
=============================================================================
