--------------------------- MODULE GameStateManager ---------------------------
(***************************************************************************)
(* CGameStateManager: the game of one client, with prediction and          *)
(* rollback, as CGamePlugin::MainUpdate drives it frame after frame:       *)
(* DoRollback takes in what has arrived of the other players and           *)
(* simulates again, Update simulates new ticks and makes the state to      *)
(* show.                                                                   *)
(*                                                                         *)
(* The deterministic step CSimulation::Next treats each player separately  *)
(* and is kept symbolic: the state of a player is the sequence of the      *)
(* inputs applied to it since the start.  Two states are equal here only   *)
(* if they are equal for every such step.                                  *)
(*                                                                         *)
(* The inputs of the others arrive as module InputRelay proves that they   *)
(* do, each player's in order and without a gap.  When they arrive is      *)
(* bounded by MaxLag and Ahead, because nothing in the code bounds it.     *)
(***************************************************************************)
EXTENDS InputSync, Sequences

CONSTANTS
  NumPlayers,    \* NUM_PLAYERS
  LocalPlayer,   \* the player of this client
  GameDuration,  \* MAX_GAME_DURATION_TICKS
  DelayStep,     \* what one key press adds to or takes from the delay
  None,          \* the input of a player who does nothing
  UserInput,     \* UserInput[p][t]: what the user of p does in tick t
  Leftover,      \* Leftover[input]: its keys, with the mouse movement that is left
                 \* when the ticks of a frame have had theirs
  MaxLag,        \* bound: the oldest tick that may still be missing is this
                 \* far behind m_tickNum
  Ahead          \* bound: the newest tick that arrives is this far after it

Players == 0 .. NumPlayers - 1
Remote  == Players \ {LocalPlayer}
Ticks   == 0 .. GameDuration + MaxTicks + Ahead

ASSUME GameStateManagerAssumption ==
  /\ NumPlayers \in Nat \ {0}
  /\ LocalPlayer \in Players
  /\ GameDuration \in Nat
  /\ DelayStep \in Nat
  /\ None \in Inputs
  /\ MaxLag \in Nat
  /\ Ahead \in Nat
  /\ UserInput \in [Players -> [Ticks -> Inputs]]
  /\ Leftover \in [Inputs \cup {NoInput} -> Inputs \cup {NoInput}]

VARIABLES
  m_tickNum,
  m_gamesStates,  \* the ring of CTicks
  m_bufferHead,   \* its head
  earliest,       \* earliestUpdatedTick in DoRollback, NoTick before it
  m_delay,        \* CGamePlugin::m_delay
  shown,          \* the last outGameState
  known           \* known[q]: the last tick of q that has been handed over

ring  == <<m_gamesStates, m_bufferHead>>
vars  == <<m_tickNum, ring, earliest, m_delay, shown, known>>

PlayerState == Seq(Inputs \cup {NoInput})
GameState   == [Players -> PlayerState]
CTick       == [gameState    : GameState,
                playerInputs : [Players -> Inputs \cup {NoInput}]]

\* CSimulation::Next
SimulationNext(previous, playerInputs) ==
  [q \in Players |-> Append(previous[q], playerInputs[q])]

\* The head is set up by the constructor; the other slots are not.
FirstTick == [gameState    |-> [q \in Players |-> <<>>],
              playerInputs |-> [q \in Players |-> None]]
UnsetTick == [gameState    |-> [q \in Players |-> <<NoInput>>],
              playerInputs |-> [q \in Players |-> NoInput]]

Init ==
  /\ m_tickNum     = 0
  /\ m_gamesStates = [k \in Slots |-> IF k = 0 THEN FirstTick ELSE UnsetTick]
  /\ m_bufferHead  = 0
  /\ earliest      = NoTick
  /\ m_delay       = 0
  /\ shown         = FirstTick
  /\ known         = [q \in Remote |-> NoTick]

-----------------------------------------------------------------------------
(* DoRollback.                                                             *)

(***************************************************************************)
(* The two loops that write an update of size ticks of q: each tick of the *)
(* update gets its input, and the ticks after it up to m_tickNum get the   *)
(* last of them.  Writes go in tick order, so the last tick that falls on  *)
(* a slot decides.                                                         *)
(***************************************************************************)
Written(g, q, first, size) ==
  LET last      == first + size - 1
      latest    == IF m_tickNum > last THEN m_tickNum ELSE last
      InSlot(k) == {t \in first .. latest : Slot(t) = k}
      Input(k)  == LET t == CHOOSE u \in InSlot(k) : \A v \in InSlot(k) : v <= u
                   IN  UserInput[q][IF t > last THEN last ELSE t]
  IN  [k \in Slots |-> IF InSlot(k) = {} THEN g[k]
                       ELSE [g[k] EXCEPT !.playerInputs[q] = Input(k)]]

\* Fault: the latest update decides where to start.
LatestUpdated(first) == first

\* if (update.tickNum < earliestUpdatedTick) earliestUpdatedTick = update.tickNum
EarliestUpdated(first) == IF HasValue(earliest) /\ earliest < first THEN earliest ELSE first

\* One turn of the while loop: GetInputUpdates has size ticks of q.
TakeUpdate(q, size) ==
  LET first == known[q] + 1
  IN  /\ first + size - 1 <= m_tickNum + Ahead
      /\ first + size - 1 \in Ticks
      /\ m_gamesStates' = Written(m_gamesStates, q, first, size)
      /\ earliest' = EarliestUpdated(first)
      /\ known' = [known EXCEPT ![q] = @ + size]
      /\ UNCHANGED <<m_tickNum, m_bufferHead, m_delay, shown>>

\* Tick i from the tick before it.
SimulateTick(g, i) ==
  [g EXCEPT ![Slot(i)].gameState =
     SimulationNext(g[Slot(i - 1)].gameState, g[Slot(i - 1)].playerInputs)]

\* The last loop: tick i + 1 from tick i, for i from first to m_tickNum.
\* loop[i] is the ring before turn i.
Resimulated(g, first) ==
  LET loop[i \in first .. m_tickNum + 1] ==
        IF i = first THEN g ELSE SimulateTick(loop[i - 1], i)
  IN  IF first > m_tickNum THEN g ELSE loop[m_tickNum + 1]

\* The queue is empty: simulate again from the earliest tick that changed.
Resimulate ==
  /\ HasValue(earliest)
  /\ m_gamesStates' = Resimulated(m_gamesStates, earliest)
  /\ earliest' = NoTick
  /\ UNCHANGED <<m_tickNum, m_bufferHead, m_delay, shown, known>>

-----------------------------------------------------------------------------
(* Update.                                                                 *)

PeakHead(r) == r.m_gamesStates[r.m_bufferHead]
PeakNext(r) == IF r.m_bufferHead + 1 = MaxTicks THEN 0 ELSE r.m_bufferHead + 1

\* Fault: the user's own input is not put in.
PredictedOwnToo(last, input) == last.playerInputs

\* The prediction: everyone else does again what they did last.
Predicted(last, input) == [last.playerInputs EXCEPT ![LocalPlayer] = input]

\* One turn of the loop over the ticks to process.
ProcessTick(r) ==
  LET last   == PeakHead(r)
      inputs == Predicted(last, UserInput[LocalPlayer][r.m_tickNum])
      next   == [gameState    |-> SimulationNext(last.gameState, inputs),
                 playerInputs |-> inputs]
  IN  [m_gamesStates |-> [r.m_gamesStates EXCEPT ![PeakNext(r)] = next],
       m_bufferHead  |-> PeakNext(r),
       m_tickNum     |-> r.m_tickNum + 1]

\* The loop: the ring and the tick after n turns.
Processed(n) ==
  LET loop[i \in 0 .. n] == IF i = 0
                            THEN [m_gamesStates |-> m_gamesStates,
                                  m_bufferHead  |-> m_bufferHead,
                                  m_tickNum     |-> m_tickNum]
                            ELSE ProcessTick(loop[i - 1])
  IN  loop[n]

(***************************************************************************)
(* The slot after the head is scratch space.  When ticks were processed it *)
(* gets the inputs of the last one, only that of the user's mouse movement *)
(* what is left; when none was, the user's input so far.                   *)
(***************************************************************************)
WithRemainder(r, n) ==
  LET next   == PeakNext(r)
      last   == PeakHead(r).playerInputs
      soFar == UserInput[LocalPlayer][r.m_tickNum]
  IN  [r.m_gamesStates EXCEPT ![next].playerInputs =
         IF n > 0 THEN [last EXCEPT ![LocalPlayer] = Leftover[@]]
                  ELSE [@ EXCEPT ![LocalPlayer] = soFar]]

\* Fault: one tick too few.
DelayTickNumLate(tick, delay) == IF tick - delay + 1 < 0 THEN 0 ELSE tick - delay + 1

DelayTickNum(tick, delay) == IF tick - delay < 0 THEN 0 ELSE tick - delay

\* The state that is shown: a fraction of a step from this one.
DelayTick(g, head, tick) ==
  LET d == g[Slot(DelayTickNum(tick, m_delay))]
      last == g[head]
  IN  [gameState    |-> [d.gameState    EXCEPT ![LocalPlayer] = last.gameState[LocalPlayer]],
       playerInputs |-> [d.playerInputs EXCEPT ![LocalPlayer] = last.playerInputs[LocalPlayer]]]

(***************************************************************************)
(* A frame that processes n ticks.  A frame that Update refuses, because   *)
(* it is too long or the game is over, leaves everything as it is.         *)
(***************************************************************************)
Update(n) ==
  LET r == Processed(n)
      g == WithRemainder(r, n)
  IN  /\ earliest = NoTick
      /\ m_tickNum <= GameDuration
      /\ \A q \in Remote : m_tickNum + n - (known[q] + 1) <= MaxLag
      /\ m_gamesStates' = g
      /\ m_bufferHead' = r.m_bufferHead
      /\ m_tickNum' = r.m_tickNum
      /\ shown' = DelayTick(g, r.m_bufferHead, r.m_tickNum)
      /\ UNCHANGED <<earliest, m_delay, known>>

-----------------------------------------------------------------------------
(* CGamePlugin::OnAction, between frames: the delay keys.                  *)

\* Fault: the delay may be as long as the ring.
ClampRing(d) == IF d < 0 THEN 0 ELSE IF d > MaxTicks THEN MaxTicks ELSE d

\* clamp_tpl(m_delay, 0, MAX_TICKS_TO_TRANSMIT-1)
Clamp(d) == IF d < 0 THEN 0 ELSE IF d > MaxTicks - 1 THEN MaxTicks - 1 ELSE d

OnAction(d) ==
  /\ earliest = NoTick
  /\ m_delay' = Clamp(m_delay + d)
  /\ UNCHANGED <<m_tickNum, ring, earliest, shown, known>>

Next == \/ \E q \in Remote, size \in 1 .. MaxTicks : TakeUpdate(q, size)
        \/ Resimulate
        \/ \E n \in 0 .. MaxTicks : Update(n)
        \/ \E d \in {DelayStep, -DelayStep} : OnAction(d)

Spec == Init /\ [][Next]_vars

-----------------------------------------------------------------------------
(* Properties.                                                             *)

\* Each variable has its type.
TypeOK ==
  /\ m_tickNum \in Nat
  /\ m_gamesStates \in [Slots -> CTick]
  /\ m_bufferHead \in Slots
  /\ earliest \in OptTick
  /\ m_delay \in Slots
  /\ shown \in CTick
  /\ known \in [Remote -> OptTick]

\* What this client can best believe that q did in tick t: what it was told,
\* and after that what it was told last.
BestKnownInput(q, t) ==
  IF q = LocalPlayer THEN UserInput[q][t]
  ELSE IF ~HasValue(known[q]) THEN None
  ELSE UserInput[q][IF t <= known[q] THEN t ELSE known[q]]

BestKnownState(q, t) == [i \in 1 .. t |-> BestKnownInput(q, i - 1)]

\* The ticks that the ring holds: the slot after the head is scratch space.
HeldTicks == {t \in 0 .. m_tickNum : t > m_tickNum + 1 - MaxTicks}

\* Between frames, every tick in the ring shows every other player as the
\* simulation of all the inputs known of that player, whichever of them came
\* late and had been predicted wrongly.
RemoteStatesAreBestKnown ==
  earliest = NoTick =>
    \A t \in HeldTicks : \A q \in Remote :
      m_gamesStates[Slot(t)].gameState[q] = BestKnownState(q, t)

\* The same for the client's own player, whose inputs are never predicted.
OwnStatesAreExact ==
  earliest = NoTick =>
    \A t \in HeldTicks :
      m_gamesStates[Slot(t)].gameState[LocalPlayer] = BestKnownState(LocalPlayer, t)

\* Before anything has arrived a client plays as if it were alone.
OwnStatesAreExactAlone ==
  (\A q \in Remote : ~HasValue(known[q])) => OwnStatesAreExact

\* Of every other player, shown has the state from which tick t begins, as it
\* is known now, and the input that continues it.
ShowsTick(t) ==
  \A q \in Remote : /\ shown.gameState[q] = BestKnownState(q, t)
                     /\ shown.playerInputs[q] = BestKnownInput(q, t)

PresentOr(delay) == IF m_tickNum > delay THEN m_tickNum - delay ELSE 0

\* Of the client's own player, shown has the state in the newest tick, whatever the
\* delay, and the input of the tick before that to continue it; and before anything
\* has arrived, which is when that is sure, it is where his inputs have brought him.
ShowsOwnPlayer ==
  /\ shown.gameState[LocalPlayer] = m_gamesStates[Slot(m_tickNum)].gameState[LocalPlayer]
  /\ shown.playerInputs[LocalPlayer] =
       IF m_tickNum = 0 THEN None ELSE UserInput[LocalPlayer][m_tickNum - 1]
  /\ (\A q \in Remote : ~HasValue(known[q])) =>
       shown.gameState[LocalPlayer] = BestKnownState(LocalPlayer, m_tickNum)

\* Every frame shows the own player as he is now and the others exactly as many
\* ticks in the past as the delay says, without a trace of predictions that are
\* known to be wrong.  Of the others this says nothing for the longest delay that
\* the keys can set: then the slot after the head is shown, which is scratch space.
ShowsDelayedTick ==
  [][\A n \in 0 .. MaxTicks :
       Update(n) => /\ ShowsOwnPlayer'
                    /\ m_delay < MaxTicks - 1 => ShowsTick(PresentOr(m_delay))']_vars

=============================================================================
