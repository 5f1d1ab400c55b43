----------------------------- MODULE InputStream -----------------------------
(***************************************************************************)
(* What the relay of inputs is for, without windows, packets or a server:  *)
(* every player's inputs form a stream that grows by one input per tick,   *)
(* and each other client holds a prefix of that stream, which only grows.  *)
(***************************************************************************)
EXTENDS Integers

CONSTANTS Players, Ticks, UserInput

VARIABLE stream  \* stream[p][q]: the <<tick, input>> of q that client p holds

\* The inputs of player q in its first n ticks.
Prefix(q, n) == {<<t, UserInput[q][t]>> : t \in 0 .. n - 1}

Init == stream = [p \in Players |-> [q \in Players |-> {}]]

\* The user of q plays one more tick.
Produce(q) ==
  \E n \in Ticks : /\ stream[q][q] = Prefix(q, n)
                   /\ stream' = [stream EXCEPT ![q][q] = Prefix(q, n + 1)]

\* Client p learns of some more ticks of q, without leaving one out.
Deliver(p, q) ==
  \E n \in Ticks : /\ stream[p][q] \subseteq Prefix(q, n)
                   /\ Prefix(q, n) \subseteq stream[q][q]
                   /\ stream' = [stream EXCEPT ![p][q] = Prefix(q, n)]

Next == \/ \E q \in Players : Produce(q)
        \/ \E p, q \in Players : p # q /\ Deliver(p, q)

Spec == Init /\ [][Next]_stream
=============================================================================
