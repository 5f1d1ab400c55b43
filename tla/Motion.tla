-------------------------------- MODULE Motion --------------------------------
(***************************************************************************)
(* The arithmetic of what is shown: CSimulation::Next along one axis,      *)
(* ApplyResycSmoothing along one axis and about one, and the MovingAverage *)
(* filter of the mouse.  Floats are integers here: lengths, angles and     *)
(* times are multiples of a unit, and a smoothing step is applied to a     *)
(* multiple of a second's units, so that its product is exact.             *)
(***************************************************************************)
EXTENDS Integers

CONSTANTS
  Acceleration,      \* ACCELERATION
  MaxVelocity,       \* MAX_VELOCITY
  HalfTurn,          \* gf_PI
  Second,            \* units of time in a second
  MaxFrameSeconds,   \* MAX_TICKS_TO_TRANSMIT / TICKS_PER_SECOND
  SamplesCount       \* SAMPLES_COUNT of a MovingAverage

ASSUME MotionAssumption ==
  /\ Acceleration \in Nat \ {0} /\ MaxVelocity \in Nat
  /\ HalfTurn \in Nat \ {0}
  /\ Second \in Nat \ {0} /\ MaxFrameSeconds \in Nat
  /\ SamplesCount \in Nat \ {0}

Abs(x)  == IF x < 0 THEN -x ELSE x
Sign(x) == IF x < 0 THEN -1 ELSE IF x > 0 THEN 1 ELSE 0
Clamped(x, low, high) == IF x < low THEN low ELSE IF x > high THEN high ELSE x

-----------------------------------------------------------------------------
(* CSimulation.                                                            *)

\* Fault: half turns are counted instead of whole ones.
WrapHalfTurns(value) == value - ((value + HalfTurn) \div HalfTurn) * HalfTurn

WrapRadians(value) ==
  value - ((value + HalfTurn) \div (2 * HalfTurn)) * (2 * HalfTurn)

\* The pitch.
Pitch(value) == Clamped(value, -(HalfTurn \div 2), HalfTurn \div 2)

Actions == {"forward", "backward"}

\* Opposite keys cancel out.
Direction(actions) == (IF "forward"  \in actions THEN 1 ELSE 0)
                    - (IF "backward" \in actions THEN 1 ELSE 0)

\* Fault: braking goes on through zero.
BrakesToRestNever(dt, velocity) == FALSE

\* velocity^2 <= (ACCELERATION * dt)^2
BrakesToRest(dt, velocity) == Abs(velocity) <= Acceleration * dt

\* One player for dt.  Without keys the player brakes, and stays where he is in
\* the step that brings him to rest.
SimulationNext(dt, previous, actions) ==
  LET direction == IF actions = {} THEN -Sign(previous.velocity) ELSE Direction(actions)
      velocity  == Clamped(previous.velocity + direction * Acceleration * dt,
                           -MaxVelocity, MaxVelocity)
  IN  IF actions = {} /\ BrakesToRest(dt, previous.velocity)
      THEN [previous EXCEPT !.velocity = 0]
      ELSE [position |-> previous.position + velocity * dt, velocity |-> velocity]

-----------------------------------------------------------------------------
(* ApplyResycSmoothing.                                                    *)

\* An error of error seconds' worth, after Lerp by deltaTime seconds.  Lerp does
\* not clamp its amount: past a second it overshoots.
Lerp(error, amount, deltaTime) == error * (Second - amount * deltaTime)

\* Fault: no check for the end.
ConstantInterpolatePast(error, constant) == error - Sign(error) * constant

\* What is left of an error when it is made smaller by constant, at most to
\* nothing; RotateTowards does the same to an angle.
ConstantInterpolate(error, constant) ==
  IF constant >= Abs(error) THEN 0 ELSE error - Sign(error) * constant

\* The position's error after a frame: lep_amount is 1, constant_amount is
\* constant for each unit of time.
PositionError(error, constant, deltaTime) ==
  ConstantInterpolate(Lerp(error, 1, deltaTime), constant * deltaTime)

\* Fault: the turn is made without the constant part.
AngleErrorSlerpOnly(error, deltaTime) == WrapRadians(Lerp(error, 5, deltaTime) \div Second)

\* An angle's error after a frame: slerp_amount is 5, and so is sconstant_amount,
\* in radians each second; an error of more than half a turn is one the other way.
AngleError(error, deltaTime) ==
  ConstantInterpolate(WrapRadians(Lerp(error, 5, deltaTime) \div Second),
                      (5 * HalfTurn * deltaTime * 100) \div (314 * Second))

-----------------------------------------------------------------------------
(* MovingAverage.                                                          *)

Samples == 0 .. SamplesCount - 1

\* The sum of a function on Samples.
Sum(f) == LET sum[n \in 0 .. SamplesCount] == IF n = 0 THEN 0 ELSE sum[n - 1] + f[n - 1]
          IN  sum[SamplesCount]

NewAverage == [values |-> [k \in Samples |-> 0], cursor |-> SamplesCount, accumulator |-> 0]

\* Fault: the value that is overwritten stays in the accumulator.
KeepOverwritten(average, value) == average.accumulator + value

\* m_accumulator -= m_values[m_cursor], then += value
Accumulated(average, value) == average.accumulator - average.values[average.cursor] + value

\* The first value after a reset fills the filter.
Push(average, value) ==
  IF average.cursor = SamplesCount
  THEN [values |-> [k \in Samples |-> value], cursor |-> 0,
        accumulator |-> Sum([k \in Samples |-> value])]
  ELSE [values      |-> [average.values EXCEPT ![average.cursor] = value],
        accumulator |-> Accumulated(average, value),
        cursor      |-> (average.cursor + 1) % SamplesCount]

Reset(average) == [average EXCEPT !.cursor = SamplesCount]

-----------------------------------------------------------------------------
(* Properties.                                                             *)

\* A player without keys is at rest after as many ticks as the braking takes,
\* and on the way is never pushed back the way he came; no step of any length
\* makes him faster than MaxVelocity.
ComesToRest ==
  \A velocity \in -MaxVelocity .. MaxVelocity, dt \in 1 .. MaxVelocity :
    LET steps == MaxVelocity \div (Acceleration * dt) + 1
        path[i \in 0 .. steps] ==
          IF i = 0 THEN [position |-> 0, velocity |-> velocity]
          ELSE SimulationNext(dt, path[i - 1], {})
    IN  /\ path[steps].velocity = 0
        /\ \A i \in 1 .. steps :
             (path[i].position - path[i - 1].position) * Sign(velocity) >= 0
        /\ \A actions \in SUBSET Actions :
             Abs(SimulationNext(dt, path[0], actions).velocity) <= MaxVelocity

\* WrapRadians gives the same direction, within half a turn either way.
WrapsToSameDirection ==
  \A value \in -5 * HalfTurn .. 5 * HalfTurn :
    /\ WrapRadians(value) \in -HalfTurn .. HalfTurn - 1
    /\ (value - WrapRadians(value)) % (2 * HalfTurn) = 0

\* The pitch stays within a quarter turn either way and never goes the other way
\* than the mouse; and however Update divides a movement of the mouse between two
\* ticks, the player looks in the same direction afterwards, in yaw as in pitch.
TurnsAddUp ==
  /\ \A pitch \in -(HalfTurn \div 2) .. HalfTurn \div 2, sign \in {-1, 1} :
       \A first, second \in 0 .. HalfTurn :
         LET turned == Pitch(pitch + sign * first)
         IN  /\ turned \in -(HalfTurn \div 2) .. HalfTurn \div 2
             /\ sign * (turned - pitch) >= 0
             /\ Pitch(turned + sign * second) = Pitch(pitch + sign * first + sign * second)
  /\ \A yaw \in -HalfTurn .. HalfTurn - 1, first, second \in -HalfTurn .. HalfTurn :
       WrapRadians(WrapRadians(yaw + first) + second) = WrapRadians(yaw + first + second)

\* Lerp and SetSlerp overshoot in long frames, but in every frame that Update
\* lets through smoothing brings the shown player nearer to where he is, in
\* position as in angle, whatever the error.
SmoothingApproaches ==
  \A deltaTime \in 1 .. MaxFrameSeconds * Second :
    /\ \A error \in -3 * Second .. 3 * Second :
         error # 0 => Abs(PositionError(error, 1, deltaTime)) < Abs(error) * Second
    /\ \A error \in -HalfTurn .. HalfTurn - 1 :
         error # 0 => Abs(AngleError(error, deltaTime)) < Abs(error)

\* Whatever has been pushed since the last reset, Get is the average of the
\* last SamplesCount values, the first one standing in for those that lack.
AverageOfLast ==
  \A n \in 1 .. 2 * SamplesCount + 1 :
    \A pushed \in [1 .. n -> {0, 1, 5}], old \in {NewAverage, Reset(Push(NewAverage, 7))} :
      LET after[i \in 0 .. n] == IF i = 0 THEN old ELSE Push(after[i - 1], pushed[i])
          back(k) == IF n - k < 1 THEN pushed[1] ELSE pushed[n - k]
      IN  after[n].accumulator = Sum([k \in Samples |-> back(k)])

=============================================================================
