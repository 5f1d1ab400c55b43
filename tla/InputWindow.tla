----------------------------- MODULE InputWindow -----------------------------
(***************************************************************************)
(* One synchronizer of a client, word by word.  m_tickNum and              *)
(* m_lastTickAcked are plain ints: the main thread reads and writes them   *)
(* in Enqueue and GetPaket while the network thread writes them in Ack,    *)
(* and nothing orders the two.  A step below is one access to one of the   *)
(* two words; the compiler may swap the two stores of Ack.                 *)
(*                                                                         *)
(* The window is the client's own, with the server at the other end of the *)
(* connection, or its copy of another player's, which the main thread only *)
(* sends from.  The operators are compared with what they are meant to     *)
(* compute on the way.  The input of tick t is the number t itself.        *)
(***************************************************************************)
EXTENDS InputSync

CONSTANT LastTick  \* bound on the ticks played

ASSUME InputWindowAssumption == LastTick \in Nat /\ 0 .. LastTick \subseteq Inputs

VARIABLES
  own,      \* whether the window is that of the client's own player
  inOrder,  \* whether replies arrive in the order they were sent
  played,   \* the last tick whose input was made
  window,   \* the client's synchronizer
  at,       \* where the main thread is in Enqueue or GetPaket
  first,    \* GetPaket's firstTickToSend, as the ack before it
  last,     \* GetPaket's lastTickToSend
  ack,      \* the argument of the Ack that the network thread is in
  unwritten,\* the words that this Ack has yet to write
  request,  \* the packet on its way to the server
  server,   \* the server's synchronizer
  replies,  \* the ticks named by the replies under way
  fatal     \* whether value() was called on an OptInt that has none

vars == <<own, inOrder, played, window, at, first, last, ack, unwritten,
          request, server, replies, fatal>>
constVars  == <<own, inOrder>>
callVars   == <<at, first, last, fatal>>
ackVars    == <<ack, unwritten>>
serverVars == <<request, server, replies>>

EmptyPacket == [tickNum |-> NoTick, count |-> 0, inputs |-> EmptyVector]

Init == /\ own \in BOOLEAN /\ inOrder \in BOOLEAN
        /\ played = NoTick
        /\ window = NewSynchronizer
        /\ at = "idle" /\ first = NoTick /\ last = NoTick
        /\ ack = NoTick /\ unwritten = {}
        /\ request = EmptyPacket
        /\ server = NewSynchronizer
        \* The server answers requests: the first that reaches it has the own
        \* player's tick 0, and may come before anything of the other player.
        /\ replies = IF own THEN {} ELSE {NoTick}
        /\ fatal = FALSE

-----------------------------------------------------------------------------
(* The main thread.                                                        *)

\* Enqueue of the next tick: m_tickNum.I = tickNum.
EnqueueTickNum ==
  /\ at = "idle" /\ own /\ played < LastTick
  /\ played' = played + 1
  /\ window' = [window EXCEPT !.tickNum = Enqueue(window, played', played').tickNum]
  /\ at' = "store"
  /\ UNCHANGED <<constVars, first, last, fatal, ackVars, serverVars>>

\* ... and the slot of the ring, which no other thread looks at.
EnqueueInput ==
  /\ at = "store"
  /\ window' = [window EXCEPT !.buffer = Enqueue(window, played, played).buffer]
  /\ at' = "idle"
  /\ UNCHANGED <<constVars, played, first, last, fatal, ackVars, serverVars>>

\* Fault: the window is taken to hold something.
NeverEmpty(s) == FALSE

\* !m_tickNum.has_value()
HoldsNothing(s) == ~HasValue(s.tickNum)

\* GetPaket begins.
GetPaketBegins ==
  /\ at = "idle"
  /\ at' = IF HoldsNothing(window) THEN "label" ELSE "hasAck"
  /\ first' = NoTick /\ last' = NoTick
  /\ UNCHANGED <<constVars, played, window, fatal, ackVars, serverVars>>

\* lastTickAcked->has_value()
ReadHasAck ==
  /\ at = "hasAck"
  /\ at' = IF HasValue(window.lastTickAcked) THEN "ack" ELSE "last"
  /\ UNCHANGED <<constVars, played, window, first, last, fatal, ackVars, serverVars>>

\* value() of a word: the check and the read are two accesses, so that a word
\* that is without a value now either was so at the check, and the process
\* ends, or is only read so.
Value(word) == /\ fatal' \in (IF HasValue(word) THEN {FALSE} ELSE BOOLEAN)

\* lastTickAcked->value()
ReadAck ==
  /\ at = "ack"
  /\ Value(window.lastTickAcked)
  /\ first' = window.lastTickAcked
  /\ at' = IF fatal' THEN "dead" ELSE "last"
  /\ UNCHANGED <<constVars, played, window, last, ackVars, serverVars>>

\* m_tickNum.value(), and the length of the window that the two reads make.
ReadLast ==
  /\ at = "last"
  /\ Value(window.tickNum)
  /\ last' = window.tickNum
  /\ at' = IF fatal' THEN "dead"
           ELSE IF SendCount([window EXCEPT !.tickNum = last'], first) <= MaxTicks
                THEN "label"
                ELSE "idle"
  /\ UNCHANGED <<constVars, played, window, first, ackVars, serverVars>>

\* The inputs are copied, m_tickNum is read once more for the packet's tick_num,
\* and SendTicks sends the packet.
ReadLabelAndSend ==
  /\ at = "label"
  /\ request' = [GetPaket([window EXCEPT !.tickNum = last], first)
                   EXCEPT !.tickNum = window.tickNum]
  /\ at' = "idle"
  /\ UNCHANGED <<constVars, played, window, first, last, fatal, ackVars, server, replies>>

-----------------------------------------------------------------------------
(* The network thread: Ack with the tick of a reply, after the inputs of   *)
(* that reply have been dealt with.                                        *)

AckBegins ==
  /\ unwritten = {}
  /\ at # "dead"
  /\ \E tick \in replies : /\ inOrder => tick >= ack
                           /\ ack' = tick
  /\ unwritten' = {"lastTickAcked", "tickNum"}
  /\ UNCHANGED <<constVars, played, window, callVars, serverVars>>

AckWrites ==
  /\ at # "dead"
  /\ \E word \in unwritten :
       /\ window' = [window EXCEPT ![word] = Ack(window, ack)[word]]
       /\ unwritten' = unwritten \ {word}
  /\ UNCHANGED <<constVars, played, ack, callVars, serverVars>>

-----------------------------------------------------------------------------
(* The other end.                                                          *)

\* The server takes in the request and answers.  The request may come again;
\* it is lost when the next one is sent first.
ServerDoWork ==
  /\ own
  /\ HasValue(request.tickNum)
  /\ server' = UpdateFromPacket(server, request)
  /\ replies' = replies \cup {server'.tickNum}
  /\ UNCHANGED <<constVars, played, window, callVars, ackVars, request>>

\* The server also has the other player's window from that player, and answers
\* from it at any time; what this client sends of it comes on top.
OtherPlays ==
  /\ ~own
  /\ \/ /\ played < LastTick
        /\ played' = played + 1
        /\ server' = [Enqueue(server, played', played') EXCEPT !.lastTickAcked = played']
     \/ /\ server' = UpdateFromPacket(server, request)
        /\ UNCHANGED played
  /\ replies' = replies \cup {server'.tickNum}
  /\ UNCHANGED <<constVars, window, callVars, ackVars, request>>

Next == \/ EnqueueTickNum \/ EnqueueInput
        \/ GetPaketBegins \/ ReadHasAck \/ ReadAck \/ ReadLast \/ ReadLabelAndSend
        \/ AckBegins \/ AckWrites
        \/ ServerDoWork \/ OtherPlays
Spec == Init /\ [][Next]_vars

-----------------------------------------------------------------------------
(* The race.                                                               *)

\* A packet says the truth if its inputs are those of the ticks that end with
\* its own.
Truthful(pkt) ==
  \A i \in Slots : i < pkt.count => pkt.inputs[i] = pkt.tickNum - pkt.count + 1 + i

\* The words that GetPaket reads need not belong together: a packet may be
\* named after an older tick than its last input, and the inputs of a window
\* set back may be those of other ticks, or no inputs at all.  Every such packet is one
\* that the server ignores, because it is named after a tick that the server
\* had already when it replied.
TornPacketsIgnored ==
  Truthful(request) \/ Ignored(request, server.lastTickAcked)

\* So the server's ring has the right input for every tick it is supposed to,
\* up to one that was played, however the accesses interleave.
ServerHoldsPlayed ==
  /\ server.tickNum <= played
  /\ \A t \in 0 .. server.tickNum :
       server.tickNum - MaxTicks < t => server.buffer[Slot(t)] = t

\* If replies keep their order, a word that has a value never loses it, and
\* value() after has_value() does not end the process (CryFatalError "OptInt
\* uninitialized").
NeverUninitialized == inOrder => ~fatal

-----------------------------------------------------------------------------
(* What the operators compute.                                             *)

\* What a receiver at tick b is meant to take from a packet that starts after
\* tick a: exactly the ticks it lacks up to the packet's tick, or nothing when
\* the packet starts too late for it.
Meant(a, b) ==
  LET T == window.tickNum
  IN  IF b >= T THEN NothingParsed(b)
      ELSE IF b < a THEN NothingParsed(T)
      ELSE [firstTick |-> b + 1, count |-> T - b, lastTickAcked |-> T,
            inputs |-> [i \in Slots |-> IF i < T - b THEN b + 1 + i ELSE NoInput]]

SomeTick == 0 .. played \cup {NoTick}
AtRest == own /\ at = "idle" /\ unwritten = {}

\* Enqueue in a loop, one input after the other.
EnqueueInOrder(s, from, n, inputs) ==
  LET loop[i \in 0 .. n] ==
        IF i = 0 THEN s ELSE Enqueue(loop[i - 1], from + i - 1, inputs[i - 1])
  IN  loop[n]

\* The pair GetPaket and ParsePaket, written at the two ends of the connection:
\* when no call is under way, and for whatever ticks the two ends are at, the
\* receiver gets the inputs it lacks, each under its own tick.  A sender that
\* has been acked (a client) starts at its last ack; one that has not (the
\* server) at any tick.  And the loop of UpdateFromPacket never wraps onto
\* itself: the ring that EnqueueAll of InputSync writes in one step is the one
\* the loop leaves, whether the ring was empty before or as full as the sender's.
PacketRoundTrip ==
  AtRest =>
    \A a, b \in SomeTick :
      a >= window.lastTickAcked /\ CanGetPaket(window, a) =>
        LET parsed == ParsePaket(GetPaket(window, a), b)
        IN  /\ parsed = Meant(a, b)
            /\ \A s \in {NewSynchronizer, window} :
                 EnqueueAll(s, parsed.firstTick, parsed.count, parsed.inputs)
                   = EnqueueInOrder(s, parsed.firstTick, parsed.count, parsed.inputs)
=============================================================================
