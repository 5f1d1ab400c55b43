------------------------------ MODULE FrameTicks ------------------------------
(***************************************************************************)
(* What CGameStateManager::Update makes of the time and the input of one   *)
(* frame: a number of whole ticks with the same input, and a rest of time  *)
(* and mouse movement that is kept for the next frame.  The code computes  *)
(* in floats, this module in integers: what a division drops is counted    *)
(* as rounded.                                                             *)
(***************************************************************************)
EXTENDS Integers

CONSTANTS
  TickDuration,  \* m_tickDuration
  MaxTicks,      \* MAX_TICKS_TO_TRANSMIT
  GameDuration   \* MAX_GAME_DURATION_TICKS

ASSUME FrameTicksAssumption ==
  /\ TickDuration \in Nat \ {0}
  /\ MaxTicks \in Nat \ {0}
  /\ GameDuration \in Nat

\* The members of CGameStateManager that Update keeps from frame to frame.
NewClock == [tickNum |-> 0, remaining |-> 0, mouse |-> 0, actions |-> {}]

NoTicks == [count |-> 0, mouse |-> 0, actions |-> {}, rounded |-> 0]

\* Fault: a frame as long as the ring and one tick more is let through.
RefusedLate(clock, frameTime) ==
  \/ clock.tickNum > GameDuration
  \/ frameTime > TickDuration * (MaxTicks + 1)
  \/ frameTime <= 0

\* The early returns: the game is over, or the frame is too long or empty.
Refused(clock, frameTime) ==
  \/ clock.tickNum > GameDuration
  \/ frameTime > TickDuration * MaxTicks
  \/ frameTime <= 0

\* What is left of an amount when the whole ticks of total have had their share.
Remainder(amount, total) == (amount * (total % TickDuration)) \div total

\* Fault: the rest of the time is forgotten.
RemainingForgotten(total) == 0

\* ticksRemaining
Remaining(total) == total % TickDuration

\* Fault: the keys of the latest frame are all.
KeysOfFrame(actions, flags) == flags

\* m_inputAccumulator.playerActions |= localPayerInput.playerActions
KeysGathered(actions, flags) == actions \cup flags

\* Update for a frame that is not refused: the accumulators afterwards, and the
\* ticks that are handed to EnqueueTick.
Advanced(clock, frameTime, input) ==
  LET total     == clock.remaining + frameTime
      count     == total \div TickDuration
      mouse     == clock.mouse + input.mouse
      actions   == KeysGathered(clock.actions, input.actions)
      remainder == Remainder(mouse, total)
      perTick   == (mouse - remainder) \div count
  IN  IF count = 0
      THEN [clock |-> [clock EXCEPT !.remaining = total, !.mouse = mouse,
                                    !.actions = actions],
            made  |-> NoTicks]
      ELSE [clock |-> [tickNum |-> clock.tickNum + count, remaining |-> Remaining(total),
                       mouse |-> remainder, actions |-> {}],
            made  |-> [count |-> count, mouse |-> perTick, actions |-> actions,
                       rounded |-> mouse - remainder - count * perTick]]
=============================================================================
