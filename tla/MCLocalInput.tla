----------------------------- MODULE MCLocalInput -----------------------------
(***************************************************************************)
(* A small instance of LocalInput, in which the keys are interchangeable.  *)
(* What the operators of FrameTicks and Motion compute is checked along    *)
(* with it.                                                                *)
(***************************************************************************)
EXTENDS LocalInput, Motion, TLC

KeySymmetry == Permutations(Keys)

\* Nothing below depends on the state: it is evaluated before anything happens.
AtStart == now = 0 /\ ~hasEntity /\ startTime = 0 /\ m_lastUpdateTime = 0 /\ hasNumber

\* The simulation is stable and keeps its ranges (ComesToRest, WrapsToSameDirection
\* and TurnsAddUp of Motion).
SimulationStable == AtStart => ComesToRest /\ WrapsToSameDirection /\ TurnsAddUp

\* Smoothing never moves the shown player away (SmoothingApproaches of Motion).
SmoothingStable == AtStart => SmoothingApproaches

\* CPlayerComponent's copies of flags and its filter of the mouse are true to what
\* they are given (FlagsAreTaken of LocalInput, AverageOfLast of Motion).
CopiesAreTrue == AtStart => FlagsAreTaken /\ AverageOfLast
=============================================================================
