------------------------- MODULE MCGameStateManager -------------------------
(***************************************************************************)
(* Small instances of GameStateManager.  The input of a tick is named      *)
(* after its player and tick, so that no two are mistaken for each other.  *)
(***************************************************************************)
EXTENDS GameStateManager

CONSTANT Rest  \* an input that no user makes

MCInputs == (Players \X Ticks) \cup {None, Rest}
MCLeftover == [input \in MCInputs \cup {NoInput} |-> Rest]
MCUserInput == [p \in Players |-> [t \in Ticks |-> <<p, t>>]]
=============================================================================
