------------------------------ MODULE LocalInput ------------------------------
(***************************************************************************)
(* How what a player does with keys and mouse becomes the inputs of ticks: *)
(* CPlayerComponent gathers engine events, CGamePlugin::MainUpdate samples *)
(* them frame by frame, CGameStateManager::Update (module FrameTicks)      *)
(* makes ticks of frames.                                                  *)
(*                                                                         *)
(* Outside the code are the engine, which calls these handlers in any      *)
(* order and as often as it likes, and the network client, whose start     *)
(* time and player number arrive when they do (module Lobby).              *)
(***************************************************************************)
EXTENDS FrameTicks

CONSTANTS
  Keys,       \* the flags of EInputFlag
  Start,      \* the time at which the server starts the game
  Leftovers,  \* what the memory of a time that no constructor sets may hold
  MaxTime,    \* bound on the clock
  MaxFrame,   \* bound on the length of a frame
  MouseStep,  \* how far one mouse event moves
  MaxMouse    \* bound on the sum of these

ASSUME LocalInputAssumption ==
  /\ Start \in Nat \ {0}
  /\ Leftovers \subseteq Nat
  /\ MaxTime \in Nat /\ MaxFrame \in Nat
  /\ MouseStep \in Nat /\ MaxMouse \in Nat

VARIABLES
  held,                  \* the keys that are down
  m_inputFlags,
  m_mouseDeltaRotation,
  hasEntity,             \* the engine has created the local player's entity
  m_isAlive,
  m_rollbackInitialised, \* also IsRollbackControlled
  startTime,             \* StartTime() of the network client, 0 before it is known
  hasNumber,             \* LocalPlayerNumber() is not -1
  now,                   \* QueryPerformanceCounter
  m_lastUpdateTime,
  clock,                 \* the accumulators of CGameStateManager
  made,                  \* the ticks that the last frame made
  began,                 \* m_lastUpdateTime when the rollback began
  seen,                  \* keys that were set at some time since the last tick
  sampled,               \* keys that some frame since the last tick brought along
  moved, sent, lost,     \* mouse movement since the rollback began; what ticks
                         \* got; what nothing can get any more
  skipped,               \* the time of the frames that Update refused
  disturbed              \* there was such a frame, or the player was revived

keyVars    == <<held, m_inputFlags, seen>>
lifeVars   == <<hasEntity, m_isAlive>>
startVars  == <<startTime, hasNumber>>
tickVars   == <<m_rollbackInitialised, now, m_lastUpdateTime, clock, made, began, sampled,
                skipped>>
mouseVars  == <<m_mouseDeltaRotation, moved, sent, lost, disturbed>>
vars == <<keyVars, lifeVars, startVars, tickVars, mouseVars>>

Init ==
  /\ held = {} /\ m_inputFlags = {} /\ m_mouseDeltaRotation = 0
  /\ hasEntity = FALSE /\ m_isAlive = FALSE
  /\ m_rollbackInitialised = FALSE
  /\ startTime \in Leftovers /\ hasNumber = TRUE
  /\ now = 0 /\ m_lastUpdateTime \in Leftovers
  /\ clock = NewClock /\ made = NoTicks
  /\ began = 0
  /\ seen = {} /\ sampled = {}
  /\ moved = 0 /\ sent = [mouse |-> 0, rounded |-> 0] /\ lost = 0
  /\ skipped = 0 /\ disturbed = FALSE

-----------------------------------------------------------------------------
(* Keys and mouse.                                                         *)

\* Fault: EInputFlagType::Toggle instead.
HandleInputFlagChangeToggle(flags, released) ==
  /\ m_inputFlags' = IF released THEN (m_inputFlags \ flags) \cup (flags \ m_inputFlags)
                     ELSE m_inputFlags
  /\ seen' = seen \cup m_inputFlags'

\* HandleInputFlagChange of the local client, with EInputFlagType::Hold.
HandleInputFlagChange(flags, released) ==
  /\ m_inputFlags' = IF released THEN m_inputFlags \ flags ELSE m_inputFlags \cup flags
  /\ seen' = seen \cup m_inputFlags'

\* A key goes down, or is reported to be still down.
PressOrHold(key) ==
  /\ hasEntity
  /\ held' = held \cup {key}
  /\ HandleInputFlagChange({key}, FALSE)
  /\ UNCHANGED <<lifeVars, startVars, tickVars, mouseVars>>

Release(key) ==
  /\ key \in held
  /\ held' = held \ {key}
  /\ HandleInputFlagChange({key}, TRUE)
  /\ UNCHANGED <<lifeVars, startVars, tickVars, mouseVars>>

\* The mouse_rotateyaw and mouse_rotatepitch actions.
MoveMouse ==
  /\ hasEntity
  /\ moved + MouseStep <= MaxMouse
  /\ m_mouseDeltaRotation' = m_mouseDeltaRotation + MouseStep
  /\ moved' = moved + MouseStep
  /\ UNCHANGED <<keyVars, lifeVars, startVars, tickVars, sent, lost, disturbed>>

-----------------------------------------------------------------------------
(* The player's life.                                                      *)

\* The engine's server, which runs in the same process, creates the entity of
\* the player (OnClientConnectionReceived).
CreateEntity ==
  /\ ~hasEntity
  /\ hasEntity' = TRUE
  /\ UNCHANGED <<keyVars, m_isAlive, startVars, tickVars, mouseVars>>

\* It revives the player whenever it is told that the client is ready for
\* gameplay, whatever keys are down.
Revive ==
  /\ hasEntity
  /\ m_isAlive' = TRUE
  /\ m_inputFlags' = {}
  /\ m_mouseDeltaRotation' = 0
  /\ IF m_rollbackInitialised
     THEN lost' = lost + m_mouseDeltaRotation /\ disturbed' = TRUE
     ELSE UNCHANGED <<lost, disturbed>>
  /\ UNCHANGED <<held, hasEntity, startVars, tickVars, moved, sent, seen>>

\* ProcessEvent(Reset), when game mode begins or ends.
ResetEvent ==
  /\ hasEntity
  /\ m_isAlive' \in BOOLEAN
  /\ UNCHANGED <<keyVars, hasEntity, startVars, tickVars, mouseVars>>

-----------------------------------------------------------------------------
(* The frame.                                                              *)

(***************************************************************************)
(* The replies of the rollback server, in the network client.  The number  *)
(* is that of a seat from the start, and -1 once the server has said that  *)
(* it is full; what comes of that later in the game is in module Lobby.    *)
(***************************************************************************)
ServerIsFull ==
  /\ hasNumber /\ ~m_rollbackInitialised
  /\ hasNumber' = FALSE
  /\ UNCHANGED <<keyVars, lifeVars, startTime, tickVars, mouseVars>>

StartArrives ==
  /\ startTime # Start
  /\ startTime' = Start
  /\ UNCHANGED <<keyVars, lifeVars, hasNumber, tickVars, mouseVars>>

\* ProcessEvent(Update): as long as the player is not controlled by the rollback,
\* UpdateLookDirectionRequest and UpdateCamera use up the mouse movement.
UpdateEvent ==
  /\ ~m_rollbackInitialised /\ m_isAlive
  /\ m_mouseDeltaRotation' = 0
  /\ UNCHANGED <<keyVars, lifeVars, startVars, tickVars, moved, sent, lost, disturbed>>

\* The rollback cannot begin yet.
MustWait == ~m_isAlive \/ m_lastUpdateTime = 0

\* TryInitialiseRollback
TryInitialiseRollback ==
  \/ /\ ~hasEntity
     /\ UNCHANGED <<m_rollbackInitialised, m_lastUpdateTime, began, moved>>
  \/ /\ hasEntity /\ MustWait
     /\ m_lastUpdateTime' = IF startTime > 0 THEN startTime ELSE m_lastUpdateTime
     /\ UNCHANGED <<m_rollbackInitialised, began, moved>>
  \/ /\ hasEntity /\ ~MustWait
     /\ m_rollbackInitialised' = hasNumber
     /\ began' = IF hasNumber THEN m_lastUpdateTime ELSE began
     /\ moved' = IF hasNumber THEN m_mouseDeltaRotation ELSE moved
     /\ UNCHANGED m_lastUpdateTime

\* Fault: GetInput leaves the mouse movement where it is.
MouseLeft == m_mouseDeltaRotation

\* m_mouseDeltaRotation after GetInput, whatever Update makes of the frame.
MouseTaken == 0

\* The rest of MainUpdate: a frame of the length frameTime.
PlayFrame(frameTime) ==
  LET input == [mouse |-> m_mouseDeltaRotation, actions |-> m_inputFlags]
      next  == Advanced(clock, frameTime, input)
  IN  /\ m_mouseDeltaRotation' = MouseTaken
      /\ IF Refused(clock, frameTime)
         THEN /\ skipped' = skipped + frameTime
              /\ lost' = lost + m_mouseDeltaRotation
              /\ disturbed' = TRUE
              /\ UNCHANGED <<clock, made, sent, seen, sampled>>
         ELSE /\ clock' = next.clock
              /\ made' = next.made
              /\ sent' = [mouse   |-> sent.mouse + made'.count * made'.mouse,
                          rounded |-> sent.rounded + made'.rounded]
              /\ seen'    = IF made'.count > 0 THEN m_inputFlags ELSE seen
              /\ sampled' = IF made'.count > 0 THEN {} ELSE sampled \cup m_inputFlags
              /\ UNCHANGED <<skipped, lost, disturbed>>

\* MainUpdate, after d units of time.
MainUpdate(d) ==
  /\ now + d <= MaxTime
  /\ now' = now + d
  /\ \/ /\ ~m_rollbackInitialised
        /\ TryInitialiseRollback
        /\ UNCHANGED <<m_mouseDeltaRotation, clock, made, sent, lost, skipped, disturbed,
                       seen, sampled>>
     \/ /\ m_rollbackInitialised
        /\ m_lastUpdateTime > now'
        /\ UNCHANGED <<m_rollbackInitialised, m_lastUpdateTime, began, clock, made, skipped,
                       mouseVars, seen, sampled>>
     \/ /\ m_rollbackInitialised
        /\ m_lastUpdateTime <= now'
        /\ m_lastUpdateTime' = now'
        /\ PlayFrame(now' - m_lastUpdateTime)
        /\ UNCHANGED <<m_rollbackInitialised, began, moved>>
  /\ UNCHANGED <<held, m_inputFlags, lifeVars, startVars>>

Next == \/ \E key \in Keys : PressOrHold(key) \/ Release(key)
        \/ MoveMouse
        \/ CreateEntity \/ Revive \/ ResetEvent
        \/ ServerIsFull \/ StartArrives
        \/ UpdateEvent
        \/ \E d \in 0 .. MaxFrame : MainUpdate(d)

Spec == Init /\ [][Next]_vars

-----------------------------------------------------------------------------
(* Properties.                                                             *)

\* Each variable has its type.
TypeOK ==
  /\ held \in SUBSET Keys /\ m_inputFlags \in SUBSET held
  /\ m_mouseDeltaRotation \in Nat
  /\ hasEntity \in BOOLEAN /\ m_isAlive \in BOOLEAN
  /\ m_rollbackInitialised \in BOOLEAN
  /\ startTime \in {Start} \cup Leftovers /\ hasNumber \in BOOLEAN
  /\ now \in 0 .. MaxTime /\ m_lastUpdateTime \in {Start} \cup Leftovers \cup 0 .. MaxTime
  /\ clock \in [tickNum : Nat, remaining : Nat, mouse : Nat, actions : SUBSET Keys]
  /\ made \in [count : Nat, mouse : Nat, actions : SUBSET Keys, rounded : Nat]
  /\ began \in {0, Start} \cup Leftovers
  /\ seen \in SUBSET Keys /\ sampled \in SUBSET Keys
  /\ moved \in Nat /\ sent \in [mouse : Nat, rounded : Nat] /\ lost \in Nat
  /\ skipped \in Nat /\ disturbed \in BOOLEAN

Playing == m_rollbackInitialised /\ clock.tickNum <= GameDuration

\* Every client makes tick t when the same time has passed since the start of
\* the game, wherever the borders of its frames are: it is behind only by the
\* frames that Update refused, each longer than MaxTicks ticks (GamePlugin.cpp
\* moves m_lastUpdateTime on all the same), and never ahead.  The start is the
\* server's, or what memory held for one of the two times that nobody sets; 0
\* there does no harm.  No frame makes more ticks than the ring of inputs holds,
\* although the time left over from the frame before comes on top of the longest
\* frame.
TicksFollowClock ==
  Playing =>
    /\ made.count <= MaxTicks
    /\ m_lastUpdateTime - began = TickDuration * clock.tickNum + clock.remaining + skipped
    /\ clock.remaining < TickDuration
    /\ skipped > 0 => skipped > TickDuration * MaxTicks
    /\ began \in {Start} \cup (Leftovers \ {0})

\* All mouse movement since the rollback took over, and what was left from
\* before, is in some tick, in an accumulator, or lost, and each movement only in
\* one of them.  Rounding loses less than a unit a tick; more is lost only when
\* Update refuses a frame, an empty one or one after the end of the game too,
\* whose movement GetInput has taken already, and when the player is revived in
\* the middle of the game.
MouseKept ==
  /\ m_rollbackInitialised =>
       moved = m_mouseDeltaRotation + clock.mouse + sent.mouse + sent.rounded + lost
  /\ sent.rounded <= clock.tickNum
  /\ ~disturbed => lost = 0

\* What ticks that are made now have for keys.
KeysOfTicks ==
  /\ made'.actions = sampled \cup m_inputFlags
  /\ made'.actions \subseteq seen

\* The ticks of a frame have exactly the keys that were set when some frame since
\* the last tick was sampled, this one included, in however many frames without
\* ticks; so a key pressed and released again between two ticks is not lost if a
\* frame that Update did not refuse saw it, and none goes on after the tick.
KeysTrue ==
  [][clock'.tickNum # clock.tickNum => KeysOfTicks]_vars

-----------------------------------------------------------------------------
(***************************************************************************)
(* The same flags in the engine's own copies of a player on other          *)
(* machines, which the rollback game does not read.  NetSerialize, when it *)
(* reads, computes pressedKeys and releasedKeys alike, as the keys that    *)
(* were set before and are not any more: the first call of                 *)
(* HandleInputFlagChange sets them again, the second one clears them.      *)
(***************************************************************************)

\* Fault: only the first of the two calls is made.
NetSerializePressedOnly(previous, flags) == flags \cup (previous \ flags)

\* m_inputFlags after NetSerialize has read flags where previous were set.
NetSerialize(previous, flags) ==
  LET changed  == (previous \ flags) \cup (flags \ previous)
      pressed  == changed \cap previous
      released == changed \cap previous
  IN  IF released = {} THEN flags \cup pressed ELSE (flags \cup pressed) \ pressed

\* Although a press is never seen as one, the flags become those that were sent.
FlagsAreTaken ==
  \A previous, flags \in SUBSET Keys : NetSerialize(previous, flags) = flags
=============================================================================
