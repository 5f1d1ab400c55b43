------------------------------ MODULE UnitTests ------------------------------
(***************************************************************************)
(* The repository's own tests of the synchronizer, and of the client and   *)
(* the server over a scripted network (CTestNetUdp), against the operators *)
(* of InputSync: what a test asserts of the program must be true of the    *)
(* model.  The mouse movements that the tests use are told apart by        *)
(* numbers.                                                                *)
(***************************************************************************)
EXTENDS InputSync

\* The packet of a tick with its one input.
OneInput(tick, input) ==
  [tickNum |-> tick, count |-> 1, inputs |-> [EmptyVector EXCEPT ![0] = input]]
TwoInputs(tick, before, input) ==
  [tickNum |-> tick, count |-> 2,
   inputs  |-> [EmptyVector EXCEPT ![0] = before, ![1] = input]]
NoInputs(tick) == [tickNum |-> tick, count |-> 0, inputs |-> EmptyVector]

\* A new synchronizer after Enqueue(0, 0), ..., Enqueue(n - 1, n - 1).
Filled(n) ==
  LET s[i \in 0 .. n] == IF i = 0 THEN NewSynchronizer ELSE Enqueue(s[i - 1], i - 1, i - 1)
  IN  s[n]
Sends(s) == CanGetPaket(s, s.lastTickAcked)
Sent(s) == GetPaket(s, s.lastTickAcked)

-----------------------------------------------------------------------------
(* CPlayerInputsSynchronizer.                                              *)

HandlesEmptySendAndReceive ==
  LET r == ParsePaket(Sent(Filled(0)), NoTick)
  IN  Sends(Filled(0)) /\ r.firstTick = 0 /\ r.count = 0

HandlesSingleSendAndReceive ==
  LET r == ParsePaket(Sent(Filled(1)), NoTick)
  IN  Sends(Filled(1)) /\ r.firstTick = 0 /\ r.count = 1 /\ r.inputs[0] = 0

HandlesSingleSendWithMultipleInputsAndSingleReceive ==
  LET r == ParsePaket(Sent(Filled(2)), NoTick)
  IN  /\ Sends(Filled(2))
      /\ r.firstTick = 0 /\ r.count = 2 /\ r.inputs[0] = 0 /\ r.inputs[1] = 1

HandlesSingleSendAndAlreadyAckedReceive ==
  Sends(Filled(1)) /\ ParsePaket(Sent(Filled(1)), 0).count = 0

\* Sending changes nothing in the window.
HandlesMultipleSendAndSingleReceive ==
  /\ Sends(Filled(1))
  /\ HandlesSingleSendWithMultipleInputsAndSingleReceive

HandlesMaxInputs ==
  LET r == ParsePaket(Sent(Filled(MaxTicks)), NoTick)
  IN  /\ Sends(Filled(MaxTicks))
      /\ r.firstTick = 0 /\ r.count = MaxTicks
      /\ r.inputs[0] = 0 /\ r.inputs[MaxTicks - 1] = MaxTicks - 1

SenderHandlesTooManyInputs == ~Sends(Filled(MaxTicks + 1))

ReceiverHandlesTooManyTicks ==
  LET r == ParsePaket(NoInputs(0), NoTick) IN r.firstTick = 0 /\ r.count = 0

HandlesAlreadyReceivedInputs ==
  LET r == ParsePaket(Sent(Filled(2)), 0)
  IN  Sends(Filled(2)) /\ r.firstTick = 1 /\ r.count = 1 /\ r.inputs[0] = 1

-----------------------------------------------------------------------------
(* CGameStateManager and CNetworkClient, client 0 of two: what its network *)
(* thread makes of a reply, as [windows, updates].                         *)

Client == [windows |-> [q \in {0, 1} |-> NewSynchronizer], updates |-> {}]

Plays(client, tick, input) ==
  [client EXCEPT !.windows[0] = Enqueue(client.windows[0], tick, input)]

Takes(client, reply, tickNum) ==
  LET parsed == ParsePaket(reply[1], client.windows[1].lastTickAcked)
      own    == ParsePaket(reply[0], tickNum)
  IN  [windows |-> [q \in {0, 1} |-> Ack(client.windows[q], reply[q].tickNum)],
       updates |-> {r \in {own, parsed} : r.count > 0}]

Reply(own, other) == [q \in {0, 1} |-> IF q = 0 THEN own ELSE other]

\* Tick 0, its ack, and tick 1, which is sent alone.
CreatesHandlesAck ==
  LET acked == Takes(Plays(Client, 0, 0), Reply(NoInputs(0), NoInputs(NoTick)), 0)
      sent  == Sent(Plays(acked, 1, 1).windows[0])
  IN  sent.tickNum = 1 /\ sent.count = 1 /\ sent.inputs[0] = 1

OtherPlayersInputs ==
  Takes(Plays(Client, 0, 0), Reply(NoInputs(0), OneInput(0, 2)), 0)

HandlesOtherPlayerInputs ==
  \E u \in OtherPlayersInputs.updates :
    /\ OtherPlayersInputs.updates = {u}
    /\ u.firstTick = 0 /\ u.inputs[0] = 2

\* The same reply once more brings nothing new.
HandlesOtherPlayerInputsAcked ==
  Takes(OtherPlayersInputs, Reply(NoInputs(0), OneInput(0, 2)), 0).updates = {}

\* The next tick of the other player brings one update, and the ack of a tick
\* that this client is only about to play leaves nothing to send of either.
HandlesMoreOtherPlayerInputsAfterAck ==
  LET more == Takes(OtherPlayersInputs, Reply(NoInputs(1), OneInput(1, 3)), 0)
      next == Plays(more, 1, 1)
  IN  /\ \E u \in more.updates : more.updates = {u} /\ u.firstTick = 1 /\ u.inputs[0] = 3
      /\ \A q \in {0, 1} : Sent(next.windows[q]) = NoInputs(1)

-----------------------------------------------------------------------------
(* CNetworkServer: the server's windows after a request, and its reply.    *)

NewServer == [q \in {0, 1} |-> NewSynchronizer]
After(server, request) == [q \in {0, 1} |-> UpdateFromPacket(server[q], request[q])]
Answer(server, request) ==
  [q \in {0, 1} |-> GetPaket(After(server, request)[q], request[q].tickNum)]

FirstRequest  == Reply(OneInput(0, 1), NoInputs(NoTick))

\* The test lists the inputs of ticks 0 and 1, but its CreateVectorOfStructs(playerInputs, 1)
\* puts only the first of them into the packet.
SecondRequest == Reply(OneInput(1, 1), NoInputs(NoTick))
ListedRequest == Reply(TwoInputs(1, 1, 2), NoInputs(NoTick))
OtherRequest  == Reply(NoInputs(NoTick), OneInput(0, 2))

ServerHandlesFirstPacket == Answer(NewServer, FirstRequest)[0] = NoInputs(0)

ServerHandlesFirstTwoPackets ==
  /\ ServerHandlesFirstPacket
  /\ Answer(After(NewServer, FirstRequest), SecondRequest)[0] = NoInputs(1)

\* With both of the listed inputs the server skips the one that it has, and stores
\* the other.
ServerHandlesListedInputs ==
  /\ Answer(After(NewServer, FirstRequest), ListedRequest)[0] = NoInputs(1)
  /\ After(After(NewServer, FirstRequest), ListedRequest)[0].buffer[Slot(1)] = 2

\* The second player has nothing of the first, and is sent it; of itself it is
\* sent nothing.
ServerHandlesPacketsFromTwoPlayers ==
  LET answer == Answer(After(NewServer, FirstRequest), OtherRequest)
  IN  /\ answer[0].tickNum = 0 /\ answer[0].count = 1 /\ answer[0].inputs[0] = 1
      /\ answer[1] = NoInputs(0)

-----------------------------------------------------------------------------
\* What the repository's tests assert of the synchronizer, the client and the
\* server holds of the operators that the models are built from.
UnitTestsPass ==
  /\ HandlesEmptySendAndReceive
  /\ HandlesSingleSendAndReceive
  /\ HandlesSingleSendWithMultipleInputsAndSingleReceive
  /\ HandlesSingleSendAndAlreadyAckedReceive
  /\ HandlesMultipleSendAndSingleReceive
  /\ HandlesMaxInputs
  /\ SenderHandlesTooManyInputs
  /\ ReceiverHandlesTooManyTicks
  /\ HandlesAlreadyReceivedInputs
  /\ CreatesHandlesAck
  /\ HandlesOtherPlayerInputs
  /\ HandlesOtherPlayerInputsAcked
  /\ HandlesMoreOtherPlayerInputsAfterAck
  /\ ServerHandlesFirstPacket
  /\ ServerHandlesFirstTwoPackets
  /\ ServerHandlesListedInputs
  /\ ServerHandlesPacketsFromTwoPlayers
=============================================================================
