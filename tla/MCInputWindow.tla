---------------------------- MODULE MCInputWindow ----------------------------
(***************************************************************************)
(* A small instance of InputWindow.  What does not depend on its state is  *)
(* evaluated with it, once, in an initial state: the repository's tests,   *)
(* and how packets get into datagrams, in their true sizes.                *)
(***************************************************************************)
EXTENDS InputWindow, UnitTests, FrameTests, FlatBuffer

\* One of the initial states.
AtStart == Init /\ ~own /\ inOrder

\* What the unit tests of PlayerInputsSynchronizer, NetworkClient, NetworkServer
\* and GameStateManager assert holds of the operators that the models are built
\* from.
TestsAgree == AtStart => UnitTestsPass /\ FrameTestsPass

\* Packets with windows of any length get through the builder, the verifier and
\* the two DoWork (UpdatesGetThrough of FlatBuffer).
DatagramsGetThrough == AtStart => UpdatesGetThrough

\* A reply that could not be built is not taken for inputs (RootlessRepliesIgnored
\* of FlatBuffer).
UnbuiltRepliesIgnored == AtStart => RootlessRepliesIgnored
=============================================================================
