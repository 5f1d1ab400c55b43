------------------------------ MODULE FrameTests ------------------------------
(***************************************************************************)
(* The repository's tests of CGameStateManager::Update, over the operators *)
(* of FrameTicks.  A tick lasts a second, which has 100 units; 1.0 of      *)
(* mouse movement has 10000.                                               *)
(***************************************************************************)
EXTENDS Integers

\* Update with the tests' CGameStateManager(1.0f).
Frames ==
  INSTANCE FrameTicks WITH TickDuration <- 100, MaxTicks <- 256, GameDuration <- 921600

Input(mouse, action) == [mouse |-> mouse, actions |-> {action}]

\* What the tests look at in the packet: the ticks, and the last tick's number.
MakesTicks(frame, lastTick, mouse, action) ==
  /\ frame.clock.tickNum = lastTick + 1
  /\ frame.made.mouse = mouse
  /\ frame.made.actions = {action}

CreatesNoInputsForShortFrame ==
  Frames!Advanced(Frames!NewClock, 50, Input(10000, "forward")).made = Frames!NoTicks

SendsSingleInput ==
  LET frame == Frames!Advanced(Frames!NewClock, 100, Input(10000, "forward"))
  IN  frame.made.count = 1 /\ MakesTicks(frame, 0, 10000, "forward")

CreatesMultipleInputs ==
  LET frame == Frames!Advanced(Frames!NewClock, 200, Input(10000, "forward"))
  IN  frame.made.count = 2 /\ MakesTicks(frame, 1, 5000, "forward")

CreatesMultipleInputsWithMisalignedTick ==
  LET first  == Frames!Advanced(Frames!NewClock, 250, Input(10000, "forward"))
      second == Frames!Advanced(first.clock, 50, Input(20000, "backward"))
      third  == Frames!Advanced(second.clock, 1, Input(20000, "backward"))
  IN  /\ first.made.count = 2 /\ MakesTicks(first, 1, 4000, "forward")
      /\ second.made.count = 1 /\ MakesTicks(second, 2, 22000, "backward")
      /\ third.made = Frames!NoTicks

\* What the repository's tests assert of Update.
FrameTestsPass ==
  /\ CreatesNoInputsForShortFrame
  /\ SendsSingleInput
  /\ CreatesMultipleInputs
  /\ CreatesMultipleInputsWithMisalignedTick
=============================================================================
