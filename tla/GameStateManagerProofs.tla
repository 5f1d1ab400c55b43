------------------------ MODULE GameStateManagerProofs ------------------------
(***************************************************************************)
(* Theorems about GameStateManager: for every ring size, game length,      *)
(* delay step and number of players, and for every bound on the lateness   *)
(* of inputs that the ring allows.                                         *)
(***************************************************************************)
EXTENDS GameStateManager, InputSyncProofs

-----------------------------------------------------------------------------
(* Arithmetic of the ring.                                                 *)

\* The remainder is determined by the equation.
LEMMA ModUnique ==
  ASSUME NEW N \in Nat \ {0}, NEW a \in Nat, NEW k \in Int, NEW r \in 0 .. N - 1, a = N * k + r
  PROVE  a % N = r
<1> DEFINE d == (a \div N) - k
           e == k - (a \div N)
<1>1. a % N \in 0 .. N - 1 /\ a \div N \in Int /\ a = N * (a \div N) + (a % N)
  BY DivMod
<1>2. d \in Int /\ e \in Int /\ N * d = r - (a % N) /\ N * e = (a % N) - r
  BY <1>1
<1> HIDE DEF d, e
<1>3. CASE r > a % N
  <2>1. N * d > 0
    BY <1>1, <1>2, <1>3
  <2>2. N * d >= N
    BY <1>2, <2>1, PositiveMultiple
  <2> QED BY <1>1, <1>2, <2>2
<1>4. CASE r < a % N
  <2>1. N * e > 0
    BY <1>1, <1>2, <1>4
  <2>2. N * e >= N
    BY <1>2, <2>1, PositiveMultiple
  <2> QED BY <1>1, <1>2, <2>2
<1> QED BY <1>1, <1>3, <1>4

\* Ticks less than a ring apart that share a slot are the same.
LEMMA SlotsEqual ==
  ASSUME NEW a \in Nat, NEW b \in Nat, a < b + MaxTicks, b < a + MaxTicks, Slot(a) = Slot(b)
  PROVE  a = b
<1>1. CASE a < b
  BY <1>1, SlotsDiffer
<1>2. CASE b < a
  BY <1>2, SlotsDiffer
<1> QED BY <1>1, <1>2

\* RingBuffer::PeakNext is the slot of the next tick.
LEMMA NextSlot ==
  ASSUME NEW t \in Nat
  PROVE  Slot(t + 1) = IF Slot(t) + 1 = MaxTicks THEN 0 ELSE Slot(t) + 1
<1> DEFINE N == MaxTicks
           k == t \div N
           r == t % N
<1>1. N \in Nat \ {0}
  BY InputSyncAssumption
<1> HIDE DEF N
<1>2. r \in 0 .. N - 1 /\ k \in Int /\ t = N * k + r
  BY <1>1, DivMod
<1> HIDE DEF k, r
<1>3. CASE r + 1 = N
  <2>1. t + 1 = N * (k + 1) + 0 /\ k + 1 \in Int /\ 0 \in 0 .. N - 1 /\ t + 1 \in Nat
    BY <1>1, <1>2, <1>3
  <2>2. (t + 1) % N = 0
    BY <1>1, <2>1, ModUnique
  <2> QED BY <1>3, <2>2 DEF Slot, N, r
<1>4. CASE r + 1 # N
  <2>1. t + 1 = N * k + (r + 1) /\ r + 1 \in 0 .. N - 1 /\ t + 1 \in Nat
    BY <1>1, <1>2, <1>4
  <2>2. (t + 1) % N = r + 1
    BY <1>1, <1>2, <2>1, ModUnique
  <2> QED BY <1>4, <2>2 DEF Slot, N, r
<1> QED BY <1>3, <1>4

\* A ring further on, the slot is the same.
LEMMA SlotAgain ==
  ASSUME NEW t \in Nat
  PROVE  Slot(t + MaxTicks) = Slot(t)
<1> DEFINE N == MaxTicks
           k == t \div N
           r == t % N
<1>1. N \in Nat \ {0}
  BY InputSyncAssumption
<1> HIDE DEF N
<1>2. r \in 0 .. N - 1 /\ k \in Int /\ t = N * k + r
  BY <1>1, DivMod
<1> HIDE DEF k, r
<1>3. t + N = N * (k + 1) + r /\ k + 1 \in Int /\ t + N \in Nat
  BY <1>1, <1>2
<1>4. (t + N) % N = r
  BY <1>1, <1>2, <1>3, ModUnique
<1> QED BY <1>4 DEF Slot, N, r

-----------------------------------------------------------------------------
(* The loops.                                                              *)

\* The ring and the tick as the first turn of the loop of Update finds them.
Now == [m_gamesStates |-> m_gamesStates, m_bufferHead |-> m_bufferHead, m_tickNum |-> m_tickNum]

\* The loop of Update: each turn is ProcessTick of what the turn before it left.
LEMMA ProcessedLoop ==
  ASSUME NEW n \in Nat
  PROVE  \E loop : /\ loop[0] = Now
                   /\ \A i \in 0 .. n - 1 : loop[i + 1] = ProcessTick(loop[i])
                   /\ Processed(n) = loop[n]
<1> DEFINE S == {k \in Nat : \E f : f = [i \in 0 .. k |-> IF i = 0 THEN Now
                                                        ELSE ProcessTick(f[i - 1])]}
<1>1. 0 \in S
  <2> DEFINE f == [i \in 0 .. 0 |-> Now]
  <2>1. f = [i \in 0 .. 0 |-> IF i = 0 THEN Now ELSE ProcessTick(f[i - 1])]
    OBVIOUS
  <2> QED BY <2>1
<1>2. ASSUME NEW k \in 0 .. n - 1, k \in S
      PROVE  k + 1 \in S
  <2>1. PICK f : f = [i \in 0 .. k |-> IF i = 0 THEN Now ELSE ProcessTick(f[i - 1])]
    BY <1>2
  <2> DEFINE g == [i \in 0 .. k + 1 |-> IF i = k + 1 THEN ProcessTick(f[k]) ELSE f[i]]
  <2>2. \A i \in 0 .. k + 1 : g[i] = IF i = 0 THEN Now ELSE ProcessTick(g[i - 1])
    BY <2>1
  <2>3. g = [i \in 0 .. k + 1 |-> IF i = 0 THEN Now ELSE ProcessTick(g[i - 1])]
    BY <2>2
  <2> HIDE DEF g
  <2>4. \E h : h = [i \in 0 .. k + 1 |-> IF i = 0 THEN Now ELSE ProcessTick(h[i - 1])]
    BY <2>3
  <2> QED BY <2>4
<1>3. n \in S
  <2> HIDE DEF S
  <2> QED BY <1>1, <1>2, InductionUpTo
<1> DEFINE loop[i \in 0 .. n] == IF i = 0 THEN Now ELSE ProcessTick(loop[i - 1])
<1>4. loop = [i \in 0 .. n |-> IF i = 0 THEN Now ELSE ProcessTick(loop[i - 1])]
  BY <1>3 DEF loop
<1>5. Processed(n) = loop[n]
  BY DEF Processed, Now
<1> HIDE DEF loop
<1>6. loop[0] = Now /\ \A i \in 0 .. n - 1 : loop[i + 1] = ProcessTick(loop[i])
  BY <1>4
<1> QED BY <1>5, <1>6

\* The last loop of DoRollback: each turn simulates the next tick.
LEMMA ResimulatedLoop ==
  ASSUME NEW g, NEW first \in Nat, m_tickNum \in Nat, first <= m_tickNum
  PROVE  \E loop : /\ loop[first] = g
                   /\ \A i \in first .. m_tickNum : loop[i + 1] = SimulateTick(loop[i], i + 1)
                   /\ Resimulated(g, first) = loop[m_tickNum + 1]
<1> DEFINE n == m_tickNum + 1 - first
           S == {k \in Nat : \E f : f = [i \in first .. first + k |->
                                          IF i = first THEN g ELSE SimulateTick(f[i - 1], i)]}
<1>1. 0 \in S
  <2> DEFINE f == [i \in first .. first + 0 |-> g]
  <2>1. f = [i \in first .. first + 0 |-> IF i = first THEN g ELSE SimulateTick(f[i - 1], i)]
    OBVIOUS
  <2> QED BY <2>1
<1>2. ASSUME NEW k \in 0 .. n - 1, k \in S
      PROVE  k + 1 \in S
  <2>1. PICK f : f = [i \in first .. first + k |->
                        IF i = first THEN g ELSE SimulateTick(f[i - 1], i)]
    BY <1>2
  <2> DEFINE last == first + (k + 1)
             h    == [i \in first .. last |-> IF i = last THEN SimulateTick(f[last - 1], last)
                                              ELSE f[i]]
  <2>2. /\ last \in Nat /\ last # first
        /\ \A i \in first .. last : \/ i = last /\ i - 1 \in first .. first + k /\ i - 1 # last
                                    \/ i # last /\ i \in first .. first + k /\ i - 1 # last
    OBVIOUS
  <2>3. \A i \in first .. first + k : i - 1 \in first .. first + k \/ i = first
    OBVIOUS
  <2> HIDE DEF last
  <2>4. \A i \in first .. last : h[i] = IF i = first THEN g ELSE SimulateTick(h[i - 1], i)
    <3>1. ASSUME NEW i \in first .. last, i = last
          PROVE  h[i] = IF i = first THEN g ELSE SimulateTick(h[i - 1], i)
      <4>1. i - 1 \in first .. last /\ i - 1 # last /\ i # first
        BY <2>2, <3>1
      <4> QED BY <3>1, <4>1
    <3>2. ASSUME NEW i \in first .. last, i # last
          PROVE  h[i] = IF i = first THEN g ELSE SimulateTick(h[i - 1], i)
      <4>1. i \in first .. first + k
        BY <2>2, <3>2
      <4>2. h[i] = f[i] /\ (i # first => h[i - 1] = f[i - 1])
        <5>1. i # first => i - 1 \in first .. last /\ i - 1 # last
          BY <2>2, <2>3, <4>1
        <5> QED BY <3>2, <5>1
      <4> HIDE DEF h
      <4> QED BY <2>1, <4>1, <4>2
    <3> QED BY <3>1, <3>2
  <2>5. h = [i \in first .. last |-> IF i = first THEN g ELSE SimulateTick(h[i - 1], i)]
    BY <2>4
  <2> HIDE DEF h
  <2>6. \E e : e = [i \in first .. last |-> IF i = first THEN g ELSE SimulateTick(e[i - 1], i)]
    BY <2>5
  <2> QED BY <2>6 DEF last
<1>3. n \in S
  <2>1. n \in Nat
    OBVIOUS
  <2> HIDE DEF S, n
  <2> QED BY <1>1, <1>2, <2>1, InductionUpTo
<1>4. first + n = m_tickNum + 1
  OBVIOUS
<1> DEFINE loop[i \in first .. m_tickNum + 1] == IF i = first THEN g
                                                ELSE SimulateTick(loop[i - 1], i)
<1>5. loop = [i \in first .. m_tickNum + 1 |-> IF i = first THEN g
                                               ELSE SimulateTick(loop[i - 1], i)]
  <2> HIDE DEF n
  <2> QED BY <1>3, <1>4 DEF loop
<1>6. Resimulated(g, first) = loop[m_tickNum + 1]
  BY DEF Resimulated
<1> HIDE DEF loop
<1>7. /\ loop[first] = g
      /\ \A i \in first .. m_tickNum : loop[i + 1] = SimulateTick(loop[i], i + 1)
  BY <1>5
<1> QED BY <1>6, <1>7

-----------------------------------------------------------------------------
(* Types.                                                                  *)

\* The type of the state, with the bounds on ticks that it depends on: the inputs
\* a client stores are those of ticks that exist.
TypeInv ==
  /\ TypeOK
  /\ m_tickNum <= GameDuration + MaxTicks
  /\ \A q \in Remote : known[q] \in Ticks \cup {NoTick}

RingType == [m_gamesStates : [Slots -> CTick], m_bufferHead : Slots, m_tickNum : Nat]

\* Slots are not empty, and the ticks of the game are ticks.
LEMMA SmallTypes ==
  /\ MaxTicks \in Nat \ {0} /\ 0 \in Slots /\ MaxTicks - 1 \in Slots
  /\ Ticks \subseteq Nat
  /\ \A t \in Nat : t <= GameDuration + MaxTicks => t \in Ticks
  /\ \A p \in Players, t \in Ticks : UserInput[p][t] \in Inputs
  /\ \A input \in Inputs \cup {NoInput} : Leftover[input] \in Inputs \cup {NoInput}
  /\ LocalPlayer \in Players
<1>1. MaxTicks \in Nat \ {0} /\ GameDuration \in Nat /\ Ahead \in Nat
  BY InputSyncAssumption, GameStateManagerAssumption
<1>2. 0 \in Slots /\ MaxTicks - 1 \in Slots
  BY <1>1 DEF Slots
<1>3. Ticks \subseteq Nat /\ \A t \in Nat : t <= GameDuration + MaxTicks => t \in Ticks
  BY <1>1 DEF Ticks
<1> QED BY <1>1, <1>2, <1>3, GameStateManagerAssumption

\* A step of the simulation makes states of states.
LEMMA SimulationNextType ==
  ASSUME NEW s \in GameState, NEW inputs \in [Players -> Inputs \cup {NoInput}]
  PROVE  SimulationNext(s, inputs) \in GameState
<1>1. \A q \in Players : Append(s[q], inputs[q]) \in PlayerState
  BY DEF GameState, PlayerState
<1> QED BY <1>1 DEF SimulationNext, GameState

\* What the constructor leaves are ticks.
LEMMA FirstTickType == FirstTick \in CTick /\ UnsetTick \in CTick
<1>1. <<>> \in PlayerState /\ <<NoInput>> \in PlayerState
  BY DEF PlayerState
<1> QED BY <1>1, GameStateManagerAssumption DEF FirstTick, UnsetTick, CTick, GameState

\* The initial state has its type.
LEMMA InitTypeInv == Init => TypeInv
<1> SUFFICES ASSUME Init PROVE TypeInv
  OBVIOUS
<1>1. m_tickNum = 0 /\ m_bufferHead = 0 /\ earliest = NoTick /\ m_delay = 0
      /\ shown \in CTick /\ known \in [Remote -> OptTick]
  BY FirstTickType DEF Init, OptTick
<1>2. m_gamesStates \in [Slots -> CTick]
  BY FirstTickType DEF Init
<1>3. m_tickNum <= GameDuration + MaxTicks
  BY <1>1, InputSyncAssumption, GameStateManagerAssumption
<1>4. \A q \in Remote : known[q] \in Ticks \cup {NoTick}
  BY DEF Init
<1>5. earliest \in OptTick
  BY <1>1 DEF OptTick
<1> QED BY <1>1, <1>2, <1>3, <1>4, <1>5, SmallTypes DEF TypeInv, TypeOK

\* A turn of the loop of Update, field by field.
LEMMA ProcessTickFields ==
  ASSUME NEW r \in RingType, r.m_tickNum \in Ticks
  PROVE  LET s      == ProcessTick(r)
             last   == r.m_gamesStates[r.m_bufferHead]
             inputs == [last.playerInputs EXCEPT ![LocalPlayer] =
                          UserInput[LocalPlayer][r.m_tickNum]]
         IN  /\ s \in RingType
             /\ s.m_tickNum = r.m_tickNum + 1
             /\ s.m_bufferHead = PeakNext(r)
             /\ s.m_gamesStates[PeakNext(r)].playerInputs = inputs
             /\ s.m_gamesStates[PeakNext(r)].gameState = SimulationNext(last.gameState, inputs)
             /\ \A k \in Slots \ {PeakNext(r)} : s.m_gamesStates[k] = r.m_gamesStates[k]
<1> DEFINE last   == r.m_gamesStates[r.m_bufferHead]
           inputs == [last.playerInputs EXCEPT ![LocalPlayer] =
                        UserInput[LocalPlayer][r.m_tickNum]]
           next   == [gameState    |-> SimulationNext(last.gameState, inputs),
                      playerInputs |-> inputs]
           s      == [m_gamesStates |-> [r.m_gamesStates EXCEPT ![PeakNext(r)] = next],
                      m_bufferHead  |-> PeakNext(r),
                      m_tickNum     |-> r.m_tickNum + 1]
<1>1. ProcessTick(r) = s
  BY DEF ProcessTick, PeakHead, Predicted
<1>2. r.m_gamesStates \in [Slots -> CTick] /\ r.m_bufferHead \in Slots /\ r.m_tickNum \in Nat
  BY DEF RingType
<1>3. PeakNext(r) \in Slots
  BY <1>2, InputSyncAssumption DEF PeakNext, Slots
<1>4. last.gameState \in GameState /\ last.playerInputs \in [Players -> Inputs \cup {NoInput}]
  BY <1>2 DEF CTick
<1> HIDE DEF last
<1>5. inputs \in [Players -> Inputs \cup {NoInput}]
  BY <1>4, SmallTypes
<1> HIDE DEF inputs
<1>6. next \in CTick
  BY <1>4, <1>5, SimulationNextType DEF CTick
<1>7. next.gameState = SimulationNext(last.gameState, inputs) /\ next.playerInputs = inputs
  OBVIOUS
<1> HIDE DEF next
<1>8. s \in RingType
  BY <1>2, <1>3, <1>6 DEF RingType
<1>9. /\ s.m_tickNum = r.m_tickNum + 1
      /\ s.m_bufferHead = PeakNext(r)
      /\ s.m_gamesStates[PeakNext(r)] = next
      /\ \A k \in Slots \ {PeakNext(r)} : s.m_gamesStates[k] = r.m_gamesStates[k]
  BY <1>2, <1>3
<1> HIDE DEF s
<1> QED BY <1>1, <1>7, <1>8, <1>9 DEF last, inputs

\* What Update starts from.
LEMMA NowType ==
  ASSUME TypeInv
  PROVE  /\ Now \in RingType
         /\ Now.m_gamesStates = m_gamesStates /\ Now.m_bufferHead = m_bufferHead
         /\ Now.m_tickNum = m_tickNum
BY DEF TypeInv, TypeOK, RingType, Now

\* The loop of Update leaves a ring, as many ticks later as it has turns, with the
\* head at the last of them.
LEMMA ProcessedType ==
  ASSUME TypeInv, NEW n \in 0 .. MaxTicks, m_tickNum <= GameDuration
  PROVE  /\ Processed(n) \in RingType /\ Processed(n).m_tickNum = m_tickNum + n
         /\ m_bufferHead = Slot(m_tickNum) => Processed(n).m_bufferHead = Slot(m_tickNum + n)
<1>1. n \in Nat /\ m_tickNum \in Nat /\ GameDuration \in Nat /\ MaxTicks \in Nat
  BY InputSyncAssumption, GameStateManagerAssumption DEF TypeInv, TypeOK
<1>2. PICK loop : /\ loop[0] = Now
                  /\ \A i \in 0 .. n - 1 : loop[i + 1] = ProcessTick(loop[i])
                  /\ Processed(n) = loop[n]
  BY <1>1, ProcessedLoop
<1> DEFINE HeadThere(r) == m_bufferHead = Slot(m_tickNum) => r.m_bufferHead = Slot(r.m_tickNum)
           S == {i \in Nat : /\ loop[i] \in RingType /\ loop[i].m_tickNum = m_tickNum + i
                             /\ HeadThere(loop[i])}
<1>3. 0 \in S
  BY <1>1, <1>2, NowType
<1>4. ASSUME NEW i \in 0 .. n - 1, i \in S
      PROVE  i + 1 \in S
  <2> DEFINE r == loop[i]
             s == loop[i + 1]
  <2>1. r \in RingType /\ r.m_tickNum = m_tickNum + i /\ HeadThere(r) /\ i \in Nat
    BY <1>4
  <2>2. s = ProcessTick(r)
    BY <1>2
  <2> HIDE DEF r, s
  <2>3. r.m_tickNum \in Ticks /\ r.m_tickNum \in Nat
    BY <1>1, <2>1, SmallTypes
  <2>4. s \in RingType /\ s.m_tickNum = r.m_tickNum + 1 /\ s.m_bufferHead = PeakNext(r)
    BY <2>1, <2>2, <2>3, ProcessTickFields
  <2>5. s.m_tickNum = m_tickNum + (i + 1)
    BY <1>1, <2>1, <2>4
  <2>6. HeadThere(s)
    BY <2>1, <2>3, <2>4, NextSlot DEF PeakNext
  <2> HIDE DEF HeadThere
  <2> QED BY <2>1, <2>4, <2>5, <2>6 DEF s
<1>5. n \in S
  <2> HIDE DEF S
  <2> QED BY <1>1, <1>3, <1>4, InductionUpTo
<1> QED BY <1>2, <1>5

\* The rest of the input changes nothing but inputs of the slot after the head.
LEMMA WithRemainderFields ==
  ASSUME NEW r \in RingType, r.m_tickNum \in Ticks, NEW n \in Nat
  PROVE  LET g == WithRemainder(r, n)
         IN  /\ g \in [Slots -> CTick]
             /\ \A k \in Slots : g[k].gameState = r.m_gamesStates[k].gameState
             /\ \A k \in Slots \ {PeakNext(r)} : g[k] = r.m_gamesStates[k]
<1>1. r.m_gamesStates \in [Slots -> CTick] /\ r.m_bufferHead \in Slots
  BY DEF RingType
<1>2. PeakNext(r) \in Slots
  BY <1>1, InputSyncAssumption DEF PeakNext, Slots
<1> DEFINE ring2  == r.m_gamesStates
           next   == PeakNext(r)
           last   == ring2[r.m_bufferHead].playerInputs
           old    == ring2[next].playerInputs
           more   == IF n > 0 THEN [last EXCEPT ![LocalPlayer] = Leftover[@]]
                     ELSE [old EXCEPT ![LocalPlayer] = UserInput[LocalPlayer][r.m_tickNum]]
           g      == [ring2 EXCEPT ![next].playerInputs = more]
<1>3. WithRemainder(r, n) = g
  <2>1. next \in DOMAIN ring2
    BY <1>1, <1>2
  <2> QED BY <2>1 DEF WithRemainder, PeakHead
<1>4. /\ last \in [Players -> Inputs \cup {NoInput}]
      /\ old \in [Players -> Inputs \cup {NoInput}]
  BY <1>1, <1>2 DEF CTick
<1> HIDE DEF last, old
<1>5. more \in [Players -> Inputs \cup {NoInput}]
  <2>1. Leftover[last[LocalPlayer]] \in Inputs \cup {NoInput}
    BY <1>4, SmallTypes
  <2>2. UserInput[LocalPlayer][r.m_tickNum] \in Inputs
    BY SmallTypes
  <2> QED BY <1>4, <2>1, <2>2
<1> HIDE DEF more, next, ring2
<1>6. ring2 \in [Slots -> CTick] /\ next \in Slots
  BY <1>1, <1>2 DEF ring2, next
<1>7. /\ g \in [Slots -> CTick]
      /\ \A k \in Slots : g[k].gameState = ring2[k].gameState
      /\ \A k \in Slots \ {next} : g[k] = ring2[k]
  BY <1>5, <1>6 DEF CTick
<1> QED BY <1>3, <1>7 DEF ring2, next

\* What the two loops of DoRollback write: inputs of q and nothing else, and into a
\* tick that no later one shares the slot with, the input of that tick.
LEMMA WrittenFields ==
  ASSUME TypeInv, NEW q \in Remote, NEW first \in Nat, NEW size \in Nat \ {0},
         first + size - 1 \in Ticks
  PROVE  LET g      == Written(m_gamesStates, q, first, size)
             last   == first + size - 1
             latest == IF m_tickNum > last THEN m_tickNum ELSE last
         IN  /\ g \in [Slots -> CTick]
             /\ \A k \in Slots : /\ g[k].gameState = m_gamesStates[k].gameState
                              /\ \A p \in Players \ {q} :
                                   g[k].playerInputs[p] = m_gamesStates[k].playerInputs[p]
             /\ \A t \in Nat : t <= latest /\ latest < t + MaxTicks =>
                  g[Slot(t)].playerInputs[q] =
                    IF t < first THEN m_gamesStates[Slot(t)].playerInputs[q]
                    ELSE UserInput[q][IF t > last THEN last ELSE t]
<1> DEFINE old       == m_gamesStates
           last      == first + size - 1
           latest    == IF m_tickNum > last THEN m_tickNum ELSE last
           InSlot(k) == {t \in first .. latest : Slot(t) = k}
           Latest(k) == CHOOSE u \in InSlot(k) : \A v \in InSlot(k) : v <= u
           Input(k)  == UserInput[q][IF Latest(k) > last THEN last ELSE Latest(k)]
           g         == Written(old, q, first, size)
<1>1. /\ old \in [Slots -> CTick] /\ m_tickNum \in Nat /\ q \in Players
      /\ m_tickNum <= GameDuration + MaxTicks
  BY DEF TypeInv, TypeOK, Remote
<1>2. g = [k \in Slots |-> IF InSlot(k) = {} THEN old[k]
                           ELSE [old[k] EXCEPT !.playerInputs[q] = Input(k)]]
  BY DEF Written
<1>3. last \in Nat /\ last \in Ticks /\ latest \in Nat /\ last <= latest /\ first <= last
  BY <1>1
<1> HIDE DEF g, last, latest, old
<1>4. \A t \in first .. last : t \in Ticks
  BY <1>3, InputSyncAssumption, GameStateManagerAssumption DEF Ticks
<1>5. ASSUME NEW k, InSlot(k) # {}
      PROVE  Latest(k) \in InSlot(k) /\ \A v \in InSlot(k) : v <= Latest(k)
  <2>1. InSlot(k) \subseteq 0 .. latest
    BY <1>3
  <2> HIDE DEF InSlot
  <2>2. \E u \in InSlot(k) : \A v \in InSlot(k) : v <= u
    BY <1>3, <1>5, <2>1, GreatestNumber
  <2> QED BY <2>2
<1>6. ASSUME NEW k, InSlot(k) # {}
      PROVE  Input(k) \in Inputs
  <2>1. Latest(k) \in first .. latest
    BY <1>5, <1>6
  <2> HIDE DEF Latest
  <2>2. (IF Latest(k) > last THEN last ELSE Latest(k)) \in Ticks
    BY <1>3, <1>4, <2>1
  <2> QED BY <1>1, <2>2, SmallTypes
<1> HIDE DEF Input
<1>7. ASSUME NEW k \in Slots
      PROVE  /\ g[k] \in CTick
             /\ g[k].gameState = old[k].gameState
             /\ \A p \in Players \ {q} : g[k].playerInputs[p] = old[k].playerInputs[p]
             /\ g[k].playerInputs[q] = IF InSlot(k) = {} THEN old[k].playerInputs[q] ELSE Input(k)
  <2>1. old[k] \in CTick /\ old[k].playerInputs \in [Players -> Inputs \cup {NoInput}]
    BY <1>1 DEF CTick
  <2>2. CASE InSlot(k) = {}
    BY <1>2, <2>1, <2>2
  <2>3. CASE InSlot(k) # {}
    <3>1. g[k] = [old[k] EXCEPT !.playerInputs[q] = Input(k)]
      BY <1>2, <2>3
    <3>2. Input(k) \in Inputs
      BY <1>6, <2>3
    <3> HIDE DEF InSlot
    <3> QED BY <1>1, <2>1, <2>3, <3>1, <3>2 DEF CTick
  <2> QED BY <2>2, <2>3
<1>8. g \in [Slots -> CTick]
  BY <1>2, <1>7
<1>9. ASSUME NEW t \in Nat, t <= latest, latest < t + MaxTicks
      PROVE  g[Slot(t)].playerInputs[q] = IF t < first THEN old[Slot(t)].playerInputs[q]
                                          ELSE UserInput[q][IF t > last THEN last ELSE t]
  <2>1. \A v \in first .. latest : v >= t /\ Slot(v) = Slot(t) => v = t
    <3>1. ASSUME NEW v \in first .. latest, v >= t, Slot(v) = Slot(t) PROVE v = t
      <4>1. v \in Nat /\ v < t + MaxTicks /\ t < v + MaxTicks
        BY <1>3, <1>9, <3>1, InputSyncAssumption
      <4> QED BY <3>1, <4>1, SlotsEqual
    <3> QED BY <3>1
  <2>2. Slot(t) \in Slots
    BY SlotType
  <2>3. CASE t < first
    <3>1. InSlot(Slot(t)) = {}
      <4>1. \A v \in first .. latest : v > t
        BY <1>3, <2>3
      <4> QED BY <1>3, <2>1, <2>3, <4>1
    <3> QED BY <1>7, <2>2, <2>3, <3>1
  <2>4. CASE t >= first
    <3>1. t \in InSlot(Slot(t))
      BY <1>3, <1>9, <2>4
    <3>2. Latest(Slot(t)) = t
      <4>1. Latest(Slot(t)) \in InSlot(Slot(t)) /\ t <= Latest(Slot(t))
        BY <1>5, <3>1
      <4> HIDE DEF Latest
      <4> QED BY <2>1, <4>1
    <3> HIDE DEF Latest, InSlot
    <3>3. g[Slot(t)].playerInputs[q] = Input(Slot(t))
      BY <1>7, <2>2, <3>1
    <3> QED BY <1>3, <2>4, <3>2, <3>3 DEF Input
  <2> QED BY <1>3, <2>3, <2>4
<1> QED BY <1>7, <1>8, <1>9 DEF g, last, latest, old

\* A turn of the last loop of DoRollback, slot by slot.
LEMMA SimulateTickFields ==
  ASSUME NEW g \in [Slots -> CTick], NEW i \in Nat \ {0}
  PROVE  LET h == SimulateTick(g, i)
         IN  /\ h \in [Slots -> CTick]
             /\ \A k \in Slots : h[k].playerInputs = g[k].playerInputs
             /\ \A k \in Slots \ {Slot(i)} : h[k] = g[k]
             /\ h[Slot(i)].gameState = SimulationNext(g[Slot(i - 1)].gameState,
                                                      g[Slot(i - 1)].playerInputs)
<1> DEFINE s == SimulationNext(g[Slot(i - 1)].gameState, g[Slot(i - 1)].playerInputs)
           k == Slot(i)
<1>1. k \in Slots /\ Slot(i - 1) \in Slots
  BY SlotType
<1>2. s \in GameState
  BY <1>1, SimulationNextType DEF CTick
<1>3. SimulateTick(g, i) = [g EXCEPT ![k].gameState = s]
  BY DEF SimulateTick
<1> HIDE DEF s, k
<1>4. LET h == [g EXCEPT ![k].gameState = s]
      IN  /\ h \in [Slots -> CTick]
          /\ \A j \in Slots : h[j].playerInputs = g[j].playerInputs
          /\ \A j \in Slots \ {k} : h[j] = g[j]
          /\ h[k].gameState = s
  BY <1>1, <1>2 DEF CTick
<1> QED BY <1>3, <1>4 DEF s, k

\* Simulating again changes states only.
LEMMA ResimulatedType ==
  ASSUME NEW g \in [Slots -> CTick], NEW first \in Nat, m_tickNum \in Nat
  PROVE  /\ Resimulated(g, first) \in [Slots -> CTick]
         /\ \A k \in Slots : Resimulated(g, first)[k].playerInputs = g[k].playerInputs
<1>1. CASE first > m_tickNum
  BY <1>1 DEF Resimulated
<1>2. CASE first <= m_tickNum
  <2>1. PICK loop : /\ loop[first] = g
                    /\ \A i \in first .. m_tickNum : loop[i + 1] = SimulateTick(loop[i], i + 1)
                    /\ Resimulated(g, first) = loop[m_tickNum + 1]
    BY <1>2, ResimulatedLoop
  <2> DEFINE n == m_tickNum + 1 - first
             S == {i \in Nat : /\ loop[first + i] \in [Slots -> CTick]
                               /\ \A k \in Slots :
                                    loop[first + i][k].playerInputs = g[k].playerInputs}
  <2>2. n \in Nat /\ first + n = m_tickNum + 1
    BY <1>2
  <2>3. 0 \in S
    BY <2>1
  <2>4. ASSUME NEW i \in 0 .. n - 1, i \in S
        PROVE  i + 1 \in S
    <3> DEFINE j == first + i
    <3>1. /\ j \in first .. m_tickNum /\ j + 1 \in Nat \ {0} /\ first + (i + 1) = j + 1
          /\ i + 1 \in Nat
      BY <1>2
    <3>2. loop[j] \in [Slots -> CTick] /\ \A k \in Slots : loop[j][k].playerInputs = g[k].playerInputs
      BY <2>4
    <3> HIDE DEF j
    <3>3. /\ SimulateTick(loop[j], j + 1) \in [Slots -> CTick]
          /\ \A k \in Slots : SimulateTick(loop[j], j + 1)[k].playerInputs = loop[j][k].playerInputs
      BY <3>1, <3>2, SimulateTickFields
    <3>4. loop[j + 1] = SimulateTick(loop[j], j + 1)
      BY <2>1, <3>1
    <3> QED BY <3>1, <3>2, <3>3, <3>4
  <2>5. n \in S
    <3> HIDE DEF S, n
    <3> QED BY <2>2, <2>3, <2>4, InductionUpTo
  <2> QED BY <2>1, <2>2, <2>5
<1> QED BY <1>1, <1>2

-----------------------------------------------------------------------------
(* Type correctness.                                                       *)

\* The state that is shown is a tick of the ring.
LEMMA DelayTickType ==
  ASSUME NEW g \in [Slots -> CTick], NEW head \in Slots, NEW tick \in Nat, m_delay \in Nat
  PROVE  LET d == g[Slot(DelayTickNum(tick, m_delay))]
             s == DelayTick(g, head, tick)
         IN  /\ s \in CTick
             /\ \A q \in Players \ {LocalPlayer} : /\ s.gameState[q] = d.gameState[q]
                                                   /\ s.playerInputs[q] = d.playerInputs[q]
             /\ s.gameState[LocalPlayer] = g[head].gameState[LocalPlayer]
             /\ s.playerInputs[LocalPlayer] = g[head].playerInputs[LocalPlayer]
<1> DEFINE k    == Slot(DelayTickNum(tick, m_delay))
           d    == g[k]
           last == g[head]
<1>1. k \in Slots
  <2>1. DelayTickNum(tick, m_delay) \in Nat
    BY DEF DelayTickNum
  <2> QED BY <2>1, SlotType
<1> HIDE DEF k
<1>2. d \in CTick /\ last \in CTick
  BY <1>1
<1> HIDE DEF d, last
<1> DEFINE s == [gameState    |-> [d.gameState    EXCEPT ![LocalPlayer] = last.gameState[LocalPlayer]],
                 playerInputs |-> [d.playerInputs EXCEPT ![LocalPlayer] = last.playerInputs[LocalPlayer]]]
<1>3. DelayTick(g, head, tick) = s
  BY DEF DelayTick, d, last, k
<1>4. /\ d.gameState \in [Players -> PlayerState]
      /\ last.gameState \in [Players -> PlayerState]
      /\ d.playerInputs \in [Players -> Inputs \cup {NoInput}]
      /\ last.playerInputs \in [Players -> Inputs \cup {NoInput}]
  BY <1>2 DEF CTick, GameState
<1>5. /\ s.gameState \in [Players -> PlayerState]
      /\ s.playerInputs \in [Players -> Inputs \cup {NoInput}]
      /\ \A q \in Players \ {LocalPlayer} : /\ s.gameState[q] = d.gameState[q]
                                            /\ s.playerInputs[q] = d.playerInputs[q]
      /\ s.gameState[LocalPlayer] = last.gameState[LocalPlayer]
      /\ s.playerInputs[LocalPlayer] = last.playerInputs[LocalPlayer]
  BY <1>4, SmallTypes
<1>6. s \in CTick
  BY <1>5 DEF CTick, GameState
<1> HIDE DEF s
<1> QED BY <1>3, <1>5, <1>6 DEF d, k, last

\* What a turn of the first loop of DoRollback takes in is of ticks that exist.
LEMMA TakeUpdateTicks ==
  ASSUME TypeInv, NEW q \in Remote, NEW size \in 1 .. MaxTicks, TakeUpdate(q, size)
  PROVE  /\ known[q] + 1 \in Nat /\ size \in Nat \ {0}
         /\ known[q] + 1 + size - 1 \in Ticks
         /\ known[q] + size \in Ticks
         /\ known[q] + size <= m_tickNum + Ahead
         /\ known' = [known EXCEPT ![q] = known[q] + size]
         /\ earliest' = EarliestUpdated(known[q] + 1)
         /\ m_gamesStates' = Written(m_gamesStates, q, known[q] + 1, size)
         /\ UNCHANGED <<m_tickNum, m_bufferHead, m_delay, shown>>
<1>1. known[q] \in OptTick /\ size \in Nat \ {0}
  BY InputSyncAssumption DEF TypeInv, TypeOK
<1>2. known[q] + 1 \in Nat /\ known[q] + 1 + size - 1 = known[q] + size
  BY <1>1 DEF OptTick, NoTick
<1> QED BY <1>1, <1>2 DEF TakeUpdate

\* Every step keeps the type.
LEMMA NextTypeInv == TypeInv /\ [Next]_vars => TypeInv'
<1> SUFFICES ASSUME TypeInv, [Next]_vars PROVE TypeInv'
  OBVIOUS
<1>1. /\ m_tickNum \in Nat /\ m_gamesStates \in [Slots -> CTick] /\ m_bufferHead \in Slots
      /\ earliest \in OptTick /\ m_delay \in Slots /\ shown \in CTick
      /\ known \in [Remote -> OptTick] /\ m_tickNum <= GameDuration + MaxTicks
      /\ \A q \in Remote : known[q] \in Ticks \cup {NoTick}
  BY DEF TypeInv, TypeOK
<1>2. ASSUME NEW q \in Remote, NEW size \in 1 .. MaxTicks, TakeUpdate(q, size)
      PROVE  TypeInv'
  <2> DEFINE first == known[q] + 1
  <2>1. /\ first \in Nat /\ size \in Nat \ {0} /\ first + size - 1 \in Ticks
        /\ known[q] + size \in Ticks
        /\ known' = [known EXCEPT ![q] = known[q] + size]
        /\ earliest' = EarliestUpdated(first)
        /\ m_gamesStates' = Written(m_gamesStates, q, first, size)
        /\ UNCHANGED <<m_tickNum, m_bufferHead, m_delay, shown>>
    BY <1>2, TakeUpdateTicks
  <2> HIDE DEF first
  <2>2. m_gamesStates' \in [Slots -> CTick]
    BY <2>1, WrittenFields
  <2>3. earliest' \in OptTick
    BY <1>1, <2>1 DEF EarliestUpdated, OptTick
  <2>4. known' \in [Remote -> OptTick] /\ \A r \in Remote : known'[r] \in Ticks \cup {NoTick}
    BY <1>1, <2>1, SmallTypes DEF OptTick
  <2> QED BY <1>1, <2>1, <2>2, <2>3, <2>4 DEF TypeInv, TypeOK
<1>3. CASE Resimulate
  <2>1. /\ HasValue(earliest) /\ m_gamesStates' = Resimulated(m_gamesStates, earliest)
        /\ earliest' = NoTick /\ UNCHANGED <<m_tickNum, m_bufferHead, m_delay, shown, known>>
    BY <1>3 DEF Resimulate
  <2>2. earliest \in Nat
    BY <1>1, <2>1 DEF OptTick, HasValue
  <2>3. m_gamesStates' \in [Slots -> CTick]
    BY <1>1, <2>1, <2>2, ResimulatedType
  <2> QED BY <1>1, <2>1, <2>3 DEF TypeInv, TypeOK, OptTick
<1>4. ASSUME NEW n \in 0 .. MaxTicks, Update(n)
      PROVE  TypeInv'
  <2> DEFINE r == Processed(n)
             g == WithRemainder(r, n)
  <2>1. /\ m_tickNum <= GameDuration /\ m_gamesStates' = g
        /\ m_bufferHead' = r.m_bufferHead /\ m_tickNum' = r.m_tickNum
        /\ shown' = DelayTick(g, r.m_bufferHead, r.m_tickNum)
        /\ UNCHANGED <<earliest, m_delay, known>>
    BY <1>4 DEF Update
  <2>2. r \in RingType /\ r.m_tickNum = m_tickNum + n
    BY <2>1, ProcessedType
  <2> HIDE DEF r
  <2>3. /\ n \in Nat /\ m_tickNum + n \in Nat
        /\ m_tickNum + n <= GameDuration + MaxTicks
    BY <1>1, <2>1, InputSyncAssumption, GameStateManagerAssumption
  <2>4. r.m_tickNum \in Ticks
    BY <2>2, <2>3, SmallTypes
  <2>5. g \in [Slots -> CTick]
    BY <2>2, <2>3, <2>4, WithRemainderFields
  <2> HIDE DEF g
  <2>6. r.m_bufferHead \in Slots /\ r.m_tickNum \in Nat /\ m_delay \in Nat
    BY <1>1, <2>2, InputSyncAssumption DEF RingType, Slots
  <2>7. shown' \in CTick
    BY <2>1, <2>5, <2>6, DelayTickType
  <2> QED BY <1>1, <2>1, <2>2, <2>3, <2>5, <2>6, <2>7 DEF TypeInv, TypeOK
<1>5. ASSUME NEW d \in {DelayStep, -DelayStep}, OnAction(d)
      PROVE  TypeInv'
  <2>1. m_delay' \in Slots
    BY <1>1, <1>5, InputSyncAssumption, GameStateManagerAssumption DEF OnAction, Clamp, Slots
  <2>2. UNCHANGED <<m_tickNum, m_gamesStates, m_bufferHead, earliest, shown, known>>
    BY <1>5 DEF OnAction, ring
  <2> QED BY <1>1, <2>1, <2>2 DEF TypeInv, TypeOK
<1>6. CASE UNCHANGED vars
  BY <1>6 DEF TypeInv, TypeOK, vars, ring
<1> QED BY <1>2, <1>3, <1>4, <1>5, <1>6 DEF Next

\* Invariant: whatever arrives when, and however late, m_tickNum, the ring and its
\* head, the earliest tick to simulate again, the delay and the state that is shown
\* keep their types: no read or write leaves the ring.
THEOREM TypeCorrect == Spec => []TypeOK
<1>1. TypeInv => TypeOK
  BY DEF TypeInv
<1> QED BY <1>1, InitTypeInv, NextTypeInv, PTL DEF Spec

-----------------------------------------------------------------------------
(* What is known of a player.                                              *)

\* One more step of the simulation with what is known of the tick.
LEMMA BestKnownNext ==
  ASSUME NEW q, NEW t \in Nat
  PROVE  Append(BestKnownState(q, t), BestKnownInput(q, t)) = BestKnownState(q, t + 1)
<1> DEFINE Input(i) == BestKnownInput(q, i)
           S        == {Input(i - 1) : i \in 1 .. t + 1}
           s        == [i \in 1 .. t |-> Input(i - 1)]
           u        == [i \in 1 .. t + 1 |-> Input(i - 1)]
<1>1. Input(t) \in S /\ \A i \in 1 .. t + 1 : Input(i - 1) \in S
  OBVIOUS
<1> HIDE DEF Input, S
<1>2. s \in Seq(S) /\ Len(s) = t
  BY <1>1
<1>3. u \in Seq(S) /\ Len(u) = t + 1
  BY <1>1
<1>4. Append(s, Input(t)) = u
  BY <1>1, <1>2, <1>3
<1> QED BY <1>4 DEF BestKnownState, Input

\* A player of whom the last that is known is not after tick t is believed to do
\* in the tick after t what he is believed to do in t.
LEMMA BestKnownRepeats ==
  ASSUME NEW q \in Remote, NEW t \in Nat, known[q] \in OptTick, known[q] <= t
  PROVE  BestKnownInput(q, t + 1) = BestKnownInput(q, t)
<1>1. q # LocalPlayer
  BY DEF Remote
<1>2. CASE known[q] = NoTick
  BY <1>1, <1>2 DEF BestKnownInput, HasValue
<1>3. CASE known[q] \in Nat
  BY <1>1, <1>3 DEF BestKnownInput, HasValue
<1> QED BY <1>2, <1>3 DEF OptTick

\* A step that changes nothing of what is known of q.
LEMMA BestKnownSame ==
  ASSUME NEW q, q = LocalPlayer \/ known'[q] = known[q], NEW t
  PROVE  /\ BestKnownInput(q, t)' = BestKnownInput(q, t)
         /\ BestKnownState(q, t)' = BestKnownState(q, t)
BY DEF BestKnownInput, BestKnownState

\* A step that makes more of q known changes nothing up to what was known before.
LEMMA BestKnownGrows ==
  ASSUME NEW q \in Remote, known[q] \in OptTick, known'[q] \in Nat, known[q] <= known'[q]
  PROVE  /\ \A t \in Nat : t <= known[q] => BestKnownInput(q, t)' = BestKnownInput(q, t)
         /\ \A t \in Nat : t <= known[q] + 1 => BestKnownState(q, t)' = BestKnownState(q, t)
         /\ \A t \in Nat : BestKnownInput(q, t)' =
                             UserInput[q][IF t <= known'[q] THEN t ELSE known'[q]]
<1>1. q # LocalPlayer /\ known'[q] # NoTick
  BY DEF Remote, NoTick
<1>2. \A t \in Nat : BestKnownInput(q, t)' =
                       UserInput[q][IF t <= known'[q] THEN t ELSE known'[q]]
  BY <1>1 DEF BestKnownInput, HasValue
<1>3. ASSUME NEW t \in Nat, t <= known[q]
      PROVE  BestKnownInput(q, t)' = BestKnownInput(q, t)
  <2>1. known[q] # NoTick /\ t <= known'[q]
    BY <1>3 DEF NoTick, OptTick
  <2> QED BY <1>1, <1>3, <2>1 DEF BestKnownInput, HasValue
<1>4. ASSUME NEW t \in Nat, t <= known[q] + 1
      PROVE  BestKnownState(q, t)' = BestKnownState(q, t)
  <2>1. \A i \in 1 .. t : i - 1 \in Nat /\ i - 1 <= known[q]
    BY <1>4 DEF OptTick, NoTick
  <2>2. \A i \in 1 .. t : BestKnownInput(q, i - 1)' = BestKnownInput(q, i - 1)
    BY <1>3, <2>1
  <2>3. BestKnownState(q, t)' = [i \in 1 .. t |-> BestKnownInput(q, i - 1)']
    BY DEF BestKnownState
  <2> QED BY <2>2, <2>3 DEF BestKnownState
<1> QED BY <1>2, <1>3, <1>4

-----------------------------------------------------------------------------
(* New ticks.                                                              *)

\* The ring r shows q truly, as far as it is known, in the ticks that it holds.
RingExact(r, q) ==
  /\ r.m_bufferHead = Slot(r.m_tickNum)
  /\ \A t \in 0 .. r.m_tickNum : t > r.m_tickNum + 1 - MaxTicks =>
       /\ r.m_gamesStates[Slot(t)].gameState[q] = BestKnownState(q, t)
       /\ q # LocalPlayer =>
            r.m_gamesStates[Slot(t)].playerInputs[q] = BestKnownInput(q, t)

\* A turn of the loop of Update: the oldest tick leaves the ring, its slot keeps
\* the state of the tick before the oldest that is left.
LEMMA ProcessTickExact ==
  ASSUME MaxTicks >= 2, NEW r \in RingType, r.m_tickNum \in Ticks, NEW q \in Players,
         q # LocalPlayer => known[q] \in OptTick /\ known[q] <= r.m_tickNum,
         RingExact(r, q)
  PROVE  LET s == ProcessTick(r)
         IN  /\ RingExact(s, q)
             /\ \A t \in 0 .. s.m_tickNum : t >= s.m_tickNum + 1 - MaxTicks =>
                  s.m_gamesStates[Slot(t)].gameState[q] = BestKnownState(q, t)
<1> DEFINE T      == r.m_tickNum
           last   == r.m_gamesStates[r.m_bufferHead]
           inputs == [last.playerInputs EXCEPT ![LocalPlayer] = UserInput[LocalPlayer][T]]
           s      == ProcessTick(r)
<1>1. /\ s \in RingType
      /\ s.m_tickNum = T + 1
      /\ s.m_bufferHead = PeakNext(r)
      /\ s.m_gamesStates[PeakNext(r)].playerInputs = inputs
      /\ s.m_gamesStates[PeakNext(r)].gameState = SimulationNext(last.gameState, inputs)
      /\ \A k \in Slots \ {PeakNext(r)} : s.m_gamesStates[k] = r.m_gamesStates[k]
  BY ProcessTickFields
<1>2. T \in Nat /\ MaxTicks \in Nat
  BY InputSyncAssumption DEF RingType
<1>3. r.m_bufferHead = Slot(T)
  BY DEF RingExact
<1>4. PeakNext(r) = Slot(T + 1)
  BY <1>2, <1>3, NextSlot DEF PeakNext
<1>5. last \in CTick
  BY <1>2, <1>3, SlotType DEF RingType
<1>6. /\ last.gameState[q] = BestKnownState(q, T)
      /\ q # LocalPlayer => last.playerInputs[q] = BestKnownInput(q, T)
  BY <1>2, <1>3 DEF RingExact
<1> HIDE DEF last
<1>7. inputs[q] = BestKnownInput(q, T)
  BY <1>5, <1>6 DEF CTick, BestKnownInput
<1>8. q # LocalPlayer => inputs[q] = BestKnownInput(q, T + 1)
  <2>1. ASSUME q # LocalPlayer PROVE BestKnownInput(q, T + 1) = BestKnownInput(q, T)
    BY <1>2, <2>1, BestKnownRepeats DEF Remote
  <2> QED BY <1>7, <2>1
<1> HIDE DEF inputs, s
<1>9. SimulationNext(last.gameState, inputs)[q] = BestKnownState(q, T + 1)
  BY <1>2, <1>6, <1>7, BestKnownNext DEF SimulationNext
<1>10. ASSUME NEW t \in 0 .. T, t >= T + 2 - MaxTicks
       PROVE  s.m_gamesStates[Slot(t)] = r.m_gamesStates[Slot(t)]
  <2>1. t \in Nat /\ T + 1 \in Nat /\ t < T + 1 /\ T + 1 < t + MaxTicks
    BY <1>2, <1>10
  <2> QED BY <1>1, <1>4, <2>1, SlotsDiffer, SlotType
<1>11. ASSUME NEW t \in 0 .. T + 1, t >= T + 2 - MaxTicks
       PROVE  /\ s.m_gamesStates[Slot(t)].gameState[q] = BestKnownState(q, t)
              /\ q # LocalPlayer =>
                   s.m_gamesStates[Slot(t)].playerInputs[q] = BestKnownInput(q, t)
  <2>1. CASE t = T + 1
    BY <1>1, <1>4, <1>8, <1>9, <2>1
  <2>2. CASE t # T + 1
    <3>1. t \in 0 .. T /\ t > T + 1 - MaxTicks
      BY <1>2, <1>11, <2>2
    <3>2. s.m_gamesStates[Slot(t)] = r.m_gamesStates[Slot(t)]
      BY <1>10, <1>11, <3>1
    <3> QED BY <3>1, <3>2 DEF RingExact
  <2> QED BY <2>1, <2>2
<1>12. \A t \in 0 .. s.m_tickNum : t >= s.m_tickNum + 1 - MaxTicks =>
           t \in 0 .. T + 1 /\ t >= T + 2 - MaxTicks
  BY <1>1, <1>2
<1>13. s.m_bufferHead = Slot(s.m_tickNum)
  BY <1>1, <1>4
<1>14. \A t \in 0 .. s.m_tickNum : t > s.m_tickNum + 1 - MaxTicks =>
           t >= s.m_tickNum + 1 - MaxTicks
  BY <1>1, <1>2
<1> QED BY <1>11, <1>12, <1>13, <1>14 DEF RingExact, s

\* The loop of Update.
LEMMA ProcessedExact ==
  ASSUME TypeInv, MaxTicks >= 2, NEW n \in 0 .. MaxTicks, m_tickNum <= GameDuration,
         NEW q \in Players, q # LocalPlayer => known[q] <= m_tickNum, RingExact(Now, q)
  PROVE  LET r == Processed(n)
         IN  /\ RingExact(r, q)
             /\ n > 0 => \A t \in 0 .. r.m_tickNum : t >= r.m_tickNum + 1 - MaxTicks =>
                           r.m_gamesStates[Slot(t)].gameState[q] = BestKnownState(q, t)
<1>1. n \in Nat /\ m_tickNum \in Nat /\ GameDuration \in Nat /\ MaxTicks \in Nat
  BY InputSyncAssumption, GameStateManagerAssumption DEF TypeInv, TypeOK
<1>2. q # LocalPlayer => known[q] \in OptTick
  BY DEF TypeInv, TypeOK, Remote
<1>3. PICK loop : /\ loop[0] = Now
                  /\ \A i \in 0 .. n - 1 : loop[i + 1] = ProcessTick(loop[i])
                  /\ Processed(n) = loop[n]
  BY <1>1, ProcessedLoop
<1> DEFINE Held(r) == \A t \in 0 .. r.m_tickNum : t >= r.m_tickNum + 1 - MaxTicks =>
                           r.m_gamesStates[Slot(t)].gameState[q] = BestKnownState(q, t)
           S == {i \in Nat : /\ loop[i] \in RingType /\ loop[i].m_tickNum = m_tickNum + i
                             /\ RingExact(loop[i], q)
                             /\ i > 0 => Held(loop[i])}
<1>4. 0 \in S
  BY <1>1, <1>3, NowType
<1>5. ASSUME NEW i \in 0 .. n - 1, i \in S
      PROVE  i + 1 \in S
  <2>1. loop[i].m_tickNum \in Ticks
    BY <1>1, <1>5, SmallTypes
  <2>2. q # LocalPlayer => known[q] \in OptTick /\ known[q] <= loop[i].m_tickNum
    BY <1>1, <1>2, <1>5 DEF OptTick, NoTick
  <2>3. /\ loop[i] \in RingType /\ loop[i].m_tickNum = m_tickNum + i
        /\ RingExact(loop[i], q) /\ i \in Nat
    BY <1>5
  <2>4. loop[i + 1] = ProcessTick(loop[i])
    BY <1>3
  <2>5. RingExact(loop[i + 1], q) /\ Held(loop[i + 1])
    BY <2>1, <2>2, <2>3, <2>4, ProcessTickExact
  <2>6. loop[i + 1] \in RingType /\ loop[i + 1].m_tickNum = loop[i].m_tickNum + 1
    BY <2>1, <2>3, <2>4, ProcessTickFields
  <2>7. loop[i + 1].m_tickNum = m_tickNum + (i + 1)
    BY <1>1, <2>3, <2>6
  <2> HIDE DEF Held
  <2> QED BY <2>3, <2>5, <2>6, <2>7
<1>6. n \in S
  <2> HIDE DEF S
  <2> QED BY <1>1, <1>4, <1>5, InductionUpTo
<1> QED BY <1>3, <1>6

\* What a frame of n ticks changes.
LEMMA UpdateFields ==
  ASSUME TypeInv, NEW n \in 0 .. MaxTicks, Update(n), m_bufferHead = Slot(m_tickNum)
  PROVE  /\ earliest = NoTick /\ m_tickNum <= GameDuration
         /\ m_tickNum' = m_tickNum + n /\ m_bufferHead' = Slot(m_tickNum')
         /\ Processed(n) \in RingType /\ Processed(n).m_tickNum = m_tickNum'
         /\ \A q \in Remote : m_tickNum' - (known[q] + 1) <= MaxLag
         /\ UNCHANGED <<earliest, m_delay, known>>
         /\ shown' = DelayTick(m_gamesStates', m_bufferHead', m_tickNum')
         /\ \A k \in Slots : m_gamesStates'[k].gameState = Processed(n).m_gamesStates[k].gameState
         /\ \A k \in Slots \ {Slot(m_tickNum' + 1)} :
              m_gamesStates'[k] = Processed(n).m_gamesStates[k]
         /\ n = 0 => \A k \in Slots : m_gamesStates'[k].gameState = m_gamesStates[k].gameState
<1> DEFINE r == Processed(n)
           g == WithRemainder(r, n)
<1>1. /\ earliest = NoTick /\ m_tickNum <= GameDuration
      /\ \A q \in Remote : m_tickNum + n - (known[q] + 1) <= MaxLag
      /\ m_gamesStates' = g
      /\ m_bufferHead' = r.m_bufferHead /\ m_tickNum' = r.m_tickNum
      /\ shown' = DelayTick(g, r.m_bufferHead, r.m_tickNum)
      /\ UNCHANGED <<earliest, m_delay, known>>
  BY DEF Update
<1>2. /\ r \in RingType /\ r.m_tickNum = m_tickNum + n
      /\ r.m_bufferHead = Slot(m_tickNum + n)
  BY <1>1, ProcessedType
<1>3. n = 0 => r.m_gamesStates = m_gamesStates
  <2>1. n \in Nat
    OBVIOUS
  <2> QED BY <2>1, ProcessedLoop, NowType
<1> HIDE DEF r
<1>4. n \in Nat /\ m_tickNum + n \in Nat /\ m_tickNum + n <= GameDuration + MaxTicks
  BY <1>1, InputSyncAssumption, GameStateManagerAssumption DEF TypeInv, TypeOK
<1>5. r.m_tickNum \in Ticks
  BY <1>2, <1>4, SmallTypes
<1>6. PeakNext(r) = Slot(m_tickNum' + 1)
  BY <1>1, <1>2, <1>4, NextSlot DEF PeakNext
<1>7. /\ \A k \in Slots : g[k].gameState = r.m_gamesStates[k].gameState
      /\ \A k \in Slots \ {PeakNext(r)} : g[k] = r.m_gamesStates[k]
  BY <1>2, <1>4, <1>5, WithRemainderFields
<1> HIDE DEF g
<1>8. n = 0 => \A k \in Slots : m_gamesStates'[k].gameState = m_gamesStates[k].gameState
  BY <1>1, <1>3, <1>7
<1>9. shown' = DelayTick(m_gamesStates', m_bufferHead', m_tickNum')
  BY <1>1
<1>10. /\ \A k \in Slots : m_gamesStates'[k].gameState = r.m_gamesStates[k].gameState
       /\ \A k \in Slots \ {Slot(m_tickNum' + 1)} : m_gamesStates'[k] = r.m_gamesStates[k]
  BY <1>1, <1>6, <1>7
<1>11. /\ m_tickNum' = m_tickNum + n /\ m_bufferHead' = Slot(m_tickNum')
       /\ r.m_tickNum = m_tickNum'
       /\ \A q \in Remote : m_tickNum' - (known[q] + 1) <= MaxLag
  <2>1. r.m_tickNum = m_tickNum' /\ m_tickNum' = m_tickNum + n
    BY <1>1, <1>2, Zenon
  <2>2. m_bufferHead' = Slot(m_tickNum')
    <3>1. Slot(m_tickNum') = Slot(m_tickNum + n)
      BY <2>1
    <3> QED BY <1>1, <1>2, <3>1, Zenon
  <2>3. ASSUME NEW q \in Remote PROVE m_tickNum' - (known[q] + 1) <= MaxLag
    <3>1. m_tickNum + n - (known[q] + 1) <= MaxLag
      BY <1>1
    <3>2. m_tickNum' = m_tickNum + n
      BY <2>1
    <3>3. known[q] \in Int /\ m_tickNum \in Nat /\ n \in Nat /\ MaxLag \in Nat
      BY <1>4, GameStateManagerAssumption DEF TypeInv, TypeOK, OptTick, NoTick
    <3> QED BY <3>1, <3>2, <3>3
  <2> QED BY <2>1, <2>2, <2>3
<1> QED BY <1>1, <1>2, <1>8, <1>9, <1>10, <1>11 DEF r

\* A frame leaves the ring true to what is known.
LEMMA UpdateExact ==
  ASSUME TypeInv, MaxTicks >= 2, NEW n \in 0 .. MaxTicks, Update(n),
         NEW q \in Players, q # LocalPlayer => known[q] <= m_tickNum, RingExact(Now, q)
  PROVE  /\ \A t \in HeldTicks' :
              /\ m_gamesStates'[Slot(t)].gameState[q] = BestKnownState(q, t)
              /\ q # LocalPlayer => m_gamesStates'[Slot(t)].playerInputs[q] = BestKnownInput(q, t)
         /\ n > 0 => \A t \in 0 .. m_tickNum' : t >= m_tickNum' + 1 - MaxTicks =>
              m_gamesStates'[Slot(t)].gameState[q] = BestKnownState(q, t)
<1> DEFINE r == Processed(n)
<1>1. m_bufferHead = Slot(m_tickNum)
  BY NowType DEF RingExact
<1>2. /\ m_tickNum <= GameDuration
      /\ r \in RingType /\ r.m_tickNum = m_tickNum'
      /\ \A k \in Slots : m_gamesStates'[k].gameState = r.m_gamesStates[k].gameState
      /\ \A k \in Slots \ {Slot(m_tickNum' + 1)} : m_gamesStates'[k] = r.m_gamesStates[k]
  BY <1>1, UpdateFields
<1>3. /\ RingExact(r, q)
      /\ n > 0 => \A t \in 0 .. r.m_tickNum : t >= r.m_tickNum + 1 - MaxTicks =>
                    r.m_gamesStates[Slot(t)].gameState[q] = BestKnownState(q, t)
  BY <1>2, ProcessedExact
<1>4. m_tickNum' \in Nat /\ MaxTicks \in Nat
  BY <1>2, InputSyncAssumption DEF RingType
<1> HIDE DEF r
<1>5. ASSUME NEW t \in HeldTicks'
      PROVE  /\ m_gamesStates'[Slot(t)].gameState[q] = BestKnownState(q, t)
             /\ q # LocalPlayer => m_gamesStates'[Slot(t)].playerInputs[q] = BestKnownInput(q, t)
  <2>1. t \in 0 .. m_tickNum' /\ t > m_tickNum' + 1 - MaxTicks
    BY DEF HeldTicks
  <2>2. t \in Nat /\ m_tickNum' + 1 \in Nat /\ t < m_tickNum' + 1 /\ m_tickNum' + 1 < t + MaxTicks
    <3> DEFINE m == m_tickNum'
    <3>1. m \in Nat /\ t \in 0 .. m /\ t > m + 1 - MaxTicks
      BY <1>4, <2>1
    <3> HIDE DEF m
    <3>2. t \in Nat /\ m + 1 \in Nat /\ t < m + 1 /\ m + 1 < t + MaxTicks
      BY <1>4, <3>1
    <3> QED BY <3>2 DEF m
  <2>3. Slot(t) \in Slots \ {Slot(m_tickNum' + 1)}
    BY <2>2, SlotsDiffer, SlotType
  <2>4. m_gamesStates'[Slot(t)] = r.m_gamesStates[Slot(t)]
    BY <1>2, <2>3
  <2> QED BY <1>2, <1>3, <2>1, <2>4 DEF RingExact
<1>6. ASSUME n > 0, NEW t \in 0 .. m_tickNum', t >= m_tickNum' + 1 - MaxTicks
      PROVE  m_gamesStates'[Slot(t)].gameState[q] = BestKnownState(q, t)
  <2>1. Slot(t) \in Slots
    BY <1>4, SlotType
  <2> QED BY <1>2, <1>3, <1>6, <2>1
<1> QED BY <1>5, <1>6

-----------------------------------------------------------------------------
(* The client's own player.                                                *)

\* As long as nothing has arrived there is nothing to simulate again, and the
\* client's own player is as its inputs made it.
OwnInv ==
  /\ m_bufferHead = Slot(m_tickNum)
  /\ (\A q \in Remote : ~HasValue(known[q])) =>
       /\ earliest = NoTick
       /\ \A t \in HeldTicks :
            m_gamesStates[Slot(t)].gameState[LocalPlayer] = BestKnownState(LocalPlayer, t)

\* The first tick is in the first slot.
LEMMA FirstSlot == Slot(0) = 0
<1>1. 0 = MaxTicks * 0 + 0 /\ 0 \in 0 .. MaxTicks - 1
  BY InputSyncAssumption
<1> QED BY <1>1, InputSyncAssumption, ModUnique DEF Slot

\* At the start the only tick is the first, before any input.
LEMMA InitStates ==
  ASSUME Init
  PROVE  /\ m_bufferHead = Slot(m_tickNum)
         /\ \A t \in HeldTicks, q \in Players :
              /\ t = 0
              /\ m_gamesStates[Slot(t)].gameState[q] = BestKnownState(q, t)
              /\ m_gamesStates[Slot(t)].playerInputs[q] = None
<1>1. m_tickNum = 0 /\ m_bufferHead = 0 /\ m_gamesStates[0] = FirstTick
  BY SmallTypes DEF Init
<1>2. ASSUME NEW t \in HeldTicks, NEW q \in Players
      PROVE  /\ t = 0
             /\ m_gamesStates[Slot(t)].gameState[q] = BestKnownState(q, t)
             /\ m_gamesStates[Slot(t)].playerInputs[q] = None
  <2>1. t = 0
    BY <1>1 DEF HeldTicks
  <2>2. m_gamesStates[Slot(t)] = FirstTick
    BY <1>1, <2>1, FirstSlot
  <2>3. BestKnownState(q, 0) = <<>>
    BY DEF BestKnownState
  <2> QED BY <2>1, <2>2, <2>3 DEF FirstTick
<1> QED BY <1>1, <1>2, FirstSlot

\* Initially it holds.
LEMMA InitOwnInv == Init => OwnInv
<1> SUFFICES ASSUME Init PROVE OwnInv
  OBVIOUS
<1>1. earliest = NoTick
  BY DEF Init
<1> QED BY <1>1, InitStates, SmallTypes DEF OwnInv

\* Every step keeps it.
LEMMA NextOwnInv == TypeInv /\ OwnInv /\ [Next]_vars => OwnInv'
<1> SUFFICES ASSUME TypeInv, OwnInv, [Next]_vars PROVE OwnInv'
  OBVIOUS
<1>1. /\ m_bufferHead = Slot(m_tickNum) /\ m_tickNum \in Nat /\ MaxTicks \in Nat \ {0}
      /\ known \in [Remote -> OptTick] /\ LocalPlayer \in Players
  BY SmallTypes DEF OwnInv, TypeInv, TypeOK
<1>2. ASSUME NEW q \in Remote, NEW size \in 1 .. MaxTicks, TakeUpdate(q, size)
      PROVE  OwnInv'
  <2>1. /\ known[q] + size \in Ticks /\ known' = [known EXCEPT ![q] = known[q] + size]
        /\ UNCHANGED <<m_tickNum, m_bufferHead>>
    BY <1>2, TakeUpdateTicks
  <2>2. HasValue(known'[q])
    BY <1>1, <2>1, SmallTypes DEF HasValue, NoTick
  <2> QED BY <1>1, <2>1, <2>2 DEF OwnInv
<1>3. CASE Resimulate
  <2>1. HasValue(earliest) /\ UNCHANGED <<m_tickNum, m_bufferHead, known>>
    BY <1>3 DEF Resimulate
  <2> QED BY <1>1, <2>1 DEF OwnInv, HasValue
<1>4. ASSUME NEW n \in 0 .. MaxTicks, Update(n)
      PROVE  OwnInv'
  <2>1. /\ m_bufferHead' = Slot(m_tickNum') /\ m_tickNum' = m_tickNum + n
        /\ earliest = NoTick /\ UNCHANGED <<earliest, known>>
    BY <1>1, <1>4, UpdateFields
  <2>2. ASSUME \A q \in Remote : ~HasValue(known[q]), NEW t \in HeldTicks'
        PROVE  m_gamesStates'[Slot(t)].gameState[LocalPlayer] = BestKnownState(LocalPlayer, t)
    <3>1. MaxTicks >= 2
      BY <1>1, <2>1 DEF HeldTicks
    <3>2. RingExact(Now, LocalPlayer)
      BY <1>1, <2>2, NowType DEF OwnInv, RingExact, HeldTicks
    <3> QED BY <1>1, <1>4, <2>2, <3>1, <3>2, UpdateExact
  <2>3. \A t : BestKnownState(LocalPlayer, t)' = BestKnownState(LocalPlayer, t)
    BY BestKnownSame
  <2> QED BY <2>1, <2>2, <2>3 DEF OwnInv
<1>5. ASSUME NEW d \in {DelayStep, -DelayStep}, OnAction(d)
      PROVE  OwnInv'
  <2>1. UNCHANGED <<m_tickNum, m_gamesStates, m_bufferHead, earliest, known>>
    BY <1>5 DEF OnAction, ring
  <2> QED BY <2>1 DEF OwnInv, HeldTicks, BestKnownState, BestKnownInput
<1>6. CASE UNCHANGED vars
  <2>1. UNCHANGED <<m_tickNum, m_gamesStates, m_bufferHead, earliest, known>>
    BY <1>6 DEF vars, ring
  <2> QED BY <2>1 DEF OwnInv, HeldTicks, BestKnownState, BestKnownInput
<1> QED BY <1>2, <1>3, <1>4, <1>5, <1>6 DEF Next

\* The type and the own player together, for every ring and however late inputs are.
LEMMA OwnInvariant == Spec => [](TypeInv /\ OwnInv)
<1>1. Init => TypeInv /\ OwnInv
  BY InitTypeInv, InitOwnInv
<1>2. TypeInv /\ OwnInv /\ [Next]_vars => TypeInv' /\ OwnInv'
  BY NextTypeInv, NextOwnInv
<1> QED BY <1>1, <1>2, PTL DEF Spec

\* Invariant: before anything has arrived, Update alone keeps the client's own player
\* in each tick of the ring as the simulation of all its inputs, although the rest of
\* the input is written to the slot after the head.
THEOREM OwnStatesAlone == Spec => []OwnStatesAreExactAlone
<1>1. TypeInv /\ OwnInv => OwnStatesAreExactAlone
  BY DEF OwnInv, OwnStatesAreExactAlone, OwnStatesAreExact
<1> QED BY <1>1, OwnInvariant, PTL

-----------------------------------------------------------------------------
(* The other players.                                                      *)

\* The ring is long enough for the rollback that late inputs cause: the oldest
\* tick that may be missing is still held, or, with one other player, has only just
\* left and is the only one that has.  Nothing comes before its tick.
RingSuffices ==
  /\ Ahead = 0 /\ MaxTicks >= 2
  /\ \/ MaxLag + 2 <= MaxTicks
     \/ NumPlayers <= 2 /\ MaxLag + 1 <= MaxTicks

\* The tick that has just left the ring: its state is still in the slot after the head.
Oldest == m_tickNum + 1 - MaxTicks

\* How late and how early the inputs are.
CountersInv ==
  /\ m_bufferHead = Slot(m_tickNum)
  /\ \A q \in Remote : known[q] <= m_tickNum /\ m_tickNum - (known[q] + 1) <= MaxLag

\* The ring can be simulated again, and once it has been nothing older can come.
EarliestInv ==
  HasValue(earliest) =>
    /\ earliest <= m_tickNum /\ earliest >= Oldest
    /\ \A q \in Remote : known[q] + 1 > Oldest

\* The ring shows the state in which q begins tick t, and what q does in it.
StateExact(q, t) == m_gamesStates[Slot(t)].gameState[q] = BestKnownState(q, t)
InputExact(q, t) == m_gamesStates[Slot(t)].playerInputs[q] = BestKnownInput(q, t)

\* Inputs are always those that are known, or repeated from the last that is.
InputsExact == \A q \in Remote, t \in HeldTicks : InputExact(q, t)

\* In the middle of DoRollback the states are right up to the earliest tick that
\* has changed.
StatesExact ==
  \A q \in Remote, t \in HeldTicks : (HasValue(earliest) => t <= earliest) => StateExact(q, t)

\* The tick that has just left is still whole if it is where an update begins.
OldestExact ==
  Oldest >= 0 => \A q \in Remote :
    /\ ~HasValue(earliest) /\ known[q] + 1 = Oldest => StateExact(q, Oldest)
    /\ earliest = Oldest => StateExact(q, Oldest) /\ InputExact(q, Oldest)

RollbackInv == CountersInv /\ EarliestInv /\ InputsExact /\ StatesExact /\ OldestExact

\* Numbers, for every step.
LEMMA RollbackTypes ==
  ASSUME TypeInv
  PROVE  /\ m_tickNum \in Nat /\ MaxTicks \in Nat \ {0} /\ MaxLag \in Nat /\ Oldest \in Int
         /\ \A q \in Remote : known[q] \in OptTick /\ known[q] \in Int
         /\ known \in [Remote -> OptTick]
         /\ earliest \in OptTick
         /\ HasValue(earliest) => earliest \in Nat
         /\ Remote \subseteq Players /\ LocalPlayer \notin Remote
         /\ m_gamesStates \in [Slots -> CTick]
  BY InputSyncAssumption, GameStateManagerAssumption
     DEF TypeInv, TypeOK, OptTick, NoTick, HasValue, Oldest, Remote

\* Initially it holds.
LEMMA InitRollbackInv == RingSuffices /\ Init => RollbackInv
<1> SUFFICES ASSUME RingSuffices, Init PROVE RollbackInv
  OBVIOUS
<1>1. TypeInv
  BY InitTypeInv
<1>2. m_tickNum = 0 /\ earliest = NoTick /\ \A q \in Remote : known[q] = NoTick
  BY DEF Init
<1>3. CountersInv
  BY <1>2, InitStates, GameStateManagerAssumption DEF CountersInv, NoTick
<1>4. EarliestInv
  BY <1>2 DEF EarliestInv, HasValue
<1>5. InputsExact /\ StatesExact
  BY <1>2, InitStates DEF InputsExact, StatesExact, InputExact, StateExact, BestKnownInput,
                          HasValue, Remote
<1>6. ~(Oldest >= 0)
  BY <1>1, <1>2, RollbackTypes DEF Oldest, RingSuffices
<1> QED BY <1>3, <1>4, <1>5, <1>6 DEF RollbackInv, OldestExact

\* An update begins with a tick that the ring holds; or with the one that has just
\* left it, and then there is no other player but the one it is of.
LEMMA UpdateInRing ==
  ASSUME RingSuffices, TypeInv, CountersInv, NEW q \in Remote
  PROVE  /\ known[q] + 1 >= Oldest
         /\ \A r \in Remote : r = q \/ known[r] + 1 > Oldest
         /\ known[q] + 1 = Oldest => \A r \in Remote : r = q
<1>1. /\ m_tickNum \in Nat /\ MaxTicks \in Nat \ {0} /\ MaxLag \in Nat
      /\ \A r \in Remote : known[r] \in Int
  BY RollbackTypes
<1>2. \A r \in Remote : m_tickNum - (known[r] + 1) <= MaxLag
  BY DEF CountersInv
<1>3. CASE MaxLag + 2 <= MaxTicks
  BY <1>1, <1>2, <1>3 DEF Oldest
<1>4. CASE NumPlayers <= 2 /\ MaxLag + 1 <= MaxTicks
  <2>1. \A r \in Remote : r = q
    BY <1>4, GameStateManagerAssumption DEF Remote, Players
  <2> QED BY <1>1, <1>2, <1>4, <2>1 DEF Oldest
<1> QED BY <1>3, <1>4 DEF RingSuffices

\* A turn of the first loop of DoRollback: whatever is wrong now is after earliest.
LEMMA TakeUpdateRollbackInv ==
  ASSUME RingSuffices, TypeInv, RollbackInv, NEW q \in Remote, NEW size \in 1 .. MaxTicks,
         TakeUpdate(q, size)
  PROVE  RollbackInv'
<1> DEFINE first == known[q] + 1
           last  == known[q] + size
           g     == m_gamesStates'
<1>1. /\ m_tickNum \in Nat /\ MaxTicks \in Nat \ {0} /\ MaxLag \in Nat /\ Oldest \in Int
      /\ known \in [Remote -> OptTick] /\ earliest \in OptTick
      /\ \A r \in Remote : known[r] \in OptTick /\ known[r] \in Int
      /\ HasValue(earliest) => earliest \in Nat
      /\ Remote \subseteq Players
  BY RollbackTypes
<1>2. /\ first \in Nat /\ size \in Nat \ {0} /\ first + size - 1 \in Ticks
      /\ known' = [known EXCEPT ![q] = last]
      /\ earliest' = EarliestUpdated(first)
      /\ g = Written(m_gamesStates, q, first, size)
      /\ m_tickNum' = m_tickNum /\ m_bufferHead' = m_bufferHead
      /\ last \in Nat /\ last <= m_tickNum
  <2>1. /\ known[q] + 1 \in Nat /\ size \in Nat \ {0} /\ known[q] + 1 + size - 1 \in Ticks
        /\ known[q] + size \in Ticks /\ known[q] + size <= m_tickNum + Ahead
        /\ known' = [known EXCEPT ![q] = known[q] + size]
        /\ earliest' = EarliestUpdated(known[q] + 1)
        /\ m_gamesStates' = Written(m_gamesStates, q, known[q] + 1, size)
        /\ m_tickNum' = m_tickNum /\ m_bufferHead' = m_bufferHead
    BY TakeUpdateTicks
  <2>2. last \in Nat /\ last <= m_tickNum
    BY <1>1, <2>1, SmallTypes DEF RingSuffices
  <2> QED BY <2>1, <2>2
<1>3. /\ first + size - 1 = last /\ first <= last /\ known[q] = first - 1 /\ known'[q] = last
      /\ \A r \in Remote \ {q} : known'[r] = known[r]
  BY <1>1, <1>2
<1>4. /\ first >= Oldest
      /\ \A r \in Remote : r = q \/ known[r] + 1 > Oldest
      /\ first = Oldest => \A r \in Remote : r = q
  BY UpdateInRing DEF RollbackInv
<1>5. /\ \A k \in Slots : /\ g[k].gameState = m_gamesStates[k].gameState
                          /\ \A p \in Players \ {q} :
                               g[k].playerInputs[p] = m_gamesStates[k].playerInputs[p]
      /\ \A t \in Nat : t <= m_tickNum /\ m_tickNum < t + MaxTicks =>
           g[Slot(t)].playerInputs[q] =
             IF t < first THEN m_gamesStates[Slot(t)].playerInputs[q]
             ELSE UserInput[q][IF t > last THEN last ELSE t]
  <2>1. (IF m_tickNum > last THEN m_tickNum ELSE last) = m_tickNum
    BY <1>1, <1>2
  <2>2. first \in Nat /\ size \in Nat \ {0} /\ first + size - 1 \in Ticks
    BY <1>2
  <2>3. LET h      == Written(m_gamesStates, q, first, size)
            end    == first + size - 1
            latest == IF m_tickNum > end THEN m_tickNum ELSE end
        IN  /\ \A k \in Slots : /\ h[k].gameState = m_gamesStates[k].gameState
                                /\ \A p \in Players \ {q} :
                                     h[k].playerInputs[p] = m_gamesStates[k].playerInputs[p]
            /\ \A t \in Nat : t <= latest /\ latest < t + MaxTicks =>
                 h[Slot(t)].playerInputs[q] =
                   IF t < first THEN m_gamesStates[Slot(t)].playerInputs[q]
                   ELSE UserInput[q][IF t > end THEN end ELSE t]
    <3> HIDE DEF first
    <3> QED BY <2>2, WrittenFields
  <2> HIDE DEF first, last, g
  <2>4. ASSUME NEW k \in Slots
        PROVE  /\ g[k].gameState = m_gamesStates[k].gameState
               /\ \A p \in Players \ {q} :
                    g[k].playerInputs[p] = m_gamesStates[k].playerInputs[p]
    BY <1>2, <2>3
  <2>5. ASSUME NEW t \in Nat, t <= m_tickNum, m_tickNum < t + MaxTicks
        PROVE  g[Slot(t)].playerInputs[q] =
                 IF t < first THEN m_gamesStates[Slot(t)].playerInputs[q]
                 ELSE UserInput[q][IF t > last THEN last ELSE t]
    BY <1>2, <1>3, <2>1, <2>3, <2>5
  <2> QED BY <2>4, <2>5
<1>6. /\ \A t \in Nat : t < first => BestKnownInput(q, t)' = BestKnownInput(q, t)
      /\ \A t \in Nat : t <= first => BestKnownState(q, t)' = BestKnownState(q, t)
      /\ \A t \in Nat : BestKnownInput(q, t)' = UserInput[q][IF t <= last THEN t ELSE last]
  <2>1. known[q] <= known'[q] /\ known'[q] \in Nat
    BY <1>1, <1>2, <1>3
  <2>2. /\ \A t \in Nat : t <= known[q] => BestKnownInput(q, t)' = BestKnownInput(q, t)
        /\ \A t \in Nat : t <= known[q] + 1 => BestKnownState(q, t)' = BestKnownState(q, t)
        /\ \A t \in Nat : BestKnownInput(q, t)' =
                            UserInput[q][IF t <= known'[q] THEN t ELSE known'[q]]
    BY <1>1, <2>1, BestKnownGrows
  <2>3. \A t \in Nat : t < first => t <= known[q]
    BY <1>1
  <2> QED BY <1>3, <2>2, <2>3
<1>7. \A r \in Remote \ {q}, t \in Nat : /\ BestKnownInput(r, t)' = BestKnownInput(r, t)
                                         /\ BestKnownState(r, t)' = BestKnownState(r, t)
  BY <1>3, BestKnownSame
<1> HIDE DEF first, last, g
\* Inputs.
<1>8. ASSUME NEW r \in Remote, NEW t \in Nat, t <= m_tickNum, m_tickNum < t + MaxTicks,
             InputExact(r, t) \/ (r = q /\ t >= first)
      PROVE  InputExact(r, t)'
  <2>1. Slot(t) \in Slots
    BY SlotType
  <2>2. CASE r # q
    BY <1>1, <1>5, <1>7, <1>8, <2>1, <2>2 DEF InputExact, g
  <2>3. CASE r = q /\ t >= first
    <3>1. (IF t > last THEN last ELSE t) = (IF t <= last THEN t ELSE last) /\ ~(t < first)
      BY <1>2, <2>3
    <3> QED BY <1>5, <1>6, <1>8, <2>3, <3>1 DEF InputExact, g
  <2>4. CASE r = q /\ t < first
    <3>1. InputExact(q, t)
      BY <1>2, <1>8, <2>4
    <3> QED BY <1>5, <1>6, <1>8, <2>4, <3>1 DEF InputExact, g
  <2> QED BY <1>2, <2>2, <2>3, <2>4
\* States.
<1>9. ASSUME NEW r \in Remote, NEW t \in Nat, t <= first, StateExact(r, t)
      PROVE  StateExact(r, t)'
  <2>1. g[Slot(t)].gameState = m_gamesStates[Slot(t)].gameState
    BY <1>5, SlotType
  <2>2. BestKnownState(r, t)' = BestKnownState(r, t)
    BY <1>6, <1>7, <1>9
  <2> QED BY <1>9, <2>1, <2>2 DEF StateExact, g
<1>10. /\ HasValue(earliest') /\ earliest' \in Nat /\ earliest' <= first /\ earliest' >= Oldest
       /\ earliest' <= m_tickNum
       /\ HasValue(earliest) => earliest' <= earliest
       /\ earliest' = first \/ (HasValue(earliest) /\ earliest' = earliest)
  <2>1. HasValue(earliest) => earliest >= Oldest
    BY DEF RollbackInv, EarliestInv
  <2>2. earliest' = IF HasValue(earliest) /\ earliest < first THEN earliest ELSE first
    BY <1>2 DEF EarliestUpdated
  <2>3. first \in Nat /\ first <= m_tickNum /\ first >= Oldest /\ HasValue(first)
    BY <1>1, <1>2, <1>3, <1>4 DEF HasValue, NoTick
  <2>4. CASE HasValue(earliest) /\ earliest < first
    <3>1. earliest' = earliest /\ earliest \in Nat
      BY <1>1, <2>2, <2>4
    <3> HIDE DEF HasValue
    <3> QED BY <1>1, <2>1, <2>3, <2>4, <3>1
  <2>5. CASE ~(HasValue(earliest) /\ earliest < first)
    <3>1. earliest' = first
      BY <2>2, <2>5
    <3>2. HasValue(earliest) => first <= earliest
      BY <1>1, <2>3, <2>5
    <3>3. first \in Nat /\ HasValue(first) /\ first <= m_tickNum /\ first >= Oldest /\ first <= first
      BY <2>3
    <3> QED BY <3>1, <3>2, <3>3, Zenon
  <2> QED BY <2>4, <2>5
<1>11. HeldTicks' = HeldTicks /\ Oldest' = Oldest
  BY <1>2 DEF HeldTicks, Oldest
<1>12. \A t \in HeldTicks : t \in Nat /\ t <= m_tickNum /\ m_tickNum < t + MaxTicks
  BY <1>1 DEF HeldTicks
<1>13. CountersInv'
  <2>1. m_bufferHead' = Slot(m_tickNum')
    BY <1>2 DEF RollbackInv, CountersInv
  <2>2. \A r \in Remote : known[r] <= m_tickNum /\ m_tickNum - (known[r] + 1) <= MaxLag
    BY DEF RollbackInv, CountersInv
  <2>3. \A r \in Remote : known'[r] <= m_tickNum /\ m_tickNum - (known'[r] + 1) <= MaxLag
    BY <1>1, <1>2, <1>3, <2>2
  <2> QED BY <1>2, <2>1, <2>3 DEF CountersInv
<1>14. EarliestInv'
  <2>1. \A r \in Remote : known'[r] + 1 > Oldest
    BY <1>1, <1>2, <1>3, <1>4
  <2> QED BY <1>2, <1>10, <1>11, <2>1 DEF EarliestInv
<1>15. InputsExact'
  BY <1>8, <1>11, <1>12 DEF RollbackInv, InputsExact
<1>16. StatesExact'
  <2>1. ASSUME NEW r \in Remote, NEW t \in HeldTicks, t <= earliest'
        PROVE  StateExact(r, t)'
    <3>1. t \in Nat /\ t <= first /\ (HasValue(earliest) => t <= earliest)
      BY <1>1, <1>2, <1>10, <1>12, <2>1
    <3>2. StateExact(r, t)
      BY <3>1 DEF RollbackInv, StatesExact
    <3> QED BY <1>9, <3>1, <3>2
  <2> QED BY <1>10, <1>11, <2>1 DEF StatesExact
<1>17. OldestExact'
  <2>1. ASSUME NEW r \in Remote, earliest' = Oldest, Oldest >= 0
        PROVE  StateExact(r, Oldest)' /\ InputExact(r, Oldest)'
    <3> DEFINE t == Oldest
    <3>1. t \in Nat /\ t <= first /\ t <= m_tickNum /\ m_tickNum < t + MaxTicks
      BY <1>1, <1>2, <1>4, <2>1 DEF Oldest
    <3>2. CASE HasValue(earliest) /\ earliest = Oldest
      <4>1. StateExact(r, t) /\ InputExact(r, t)
        BY <2>1, <3>2 DEF RollbackInv, OldestExact
      <4> QED BY <1>8, <1>9, <1>11, <3>1, <4>1 DEF StateExact, InputExact
    <3>3. CASE first = Oldest
      <4>1. ~HasValue(earliest)
        BY <1>1, <1>3, <3>3 DEF RollbackInv, EarliestInv
      <4>2. r = q
        BY <1>4, <3>3
      <4>3. StateExact(r, t)
        BY <1>1, <1>3, <2>1, <3>3, <4>1, <4>2 DEF RollbackInv, OldestExact
      <4>4. r = q /\ t >= first
        BY <3>1, <3>3, <4>2
      <4> QED BY <1>8, <1>9, <1>11, <3>1, <4>3, <4>4 DEF StateExact, InputExact
    <3> QED BY <1>10, <2>1, <3>2, <3>3
  <2> QED BY <1>10, <1>11, <2>1 DEF OldestExact
<1> QED BY <1>13, <1>14, <1>15, <1>16, <1>17 DEF RollbackInv

\* The last loop of DoRollback: it corrects the states after earliest, each from the
\* one before it and the inputs of that tick.
LEMMA ResimulateExact ==
  ASSUME RingSuffices, TypeInv, RollbackInv, HasValue(earliest)
  PROVE  \A q \in Remote, t \in HeldTicks :
           Resimulated(m_gamesStates, earliest)[Slot(t)].gameState[q] = BestKnownState(q, t)
<1> DEFINE old == m_gamesStates
           e   == earliest
           m   == m_tickNum
           n   == m - e
<1>1. /\ m \in Nat /\ MaxTicks \in Nat \ {0} /\ e \in Nat /\ Remote \subseteq Players
      /\ old \in [Slots -> CTick] /\ MaxTicks >= 2
  BY RollbackTypes DEF RingSuffices
<1>2. e <= m /\ e >= m + 1 - MaxTicks
  BY DEF RollbackInv, EarliestInv, Oldest
<1>3. n \in Nat /\ e + n = m
  BY <1>1, <1>2
<1> DEFINE Whole(t) == t \in e .. m \/ t \in HeldTicks
<1>4. ASSUME NEW t, Whole(t)
      PROVE  t \in Nat /\ t <= m /\ m < t + MaxTicks
  BY <1>1, <1>2, <1>4 DEF HeldTicks
<1>5. ASSUME NEW q \in Remote, NEW t, Whole(t)
      PROVE  /\ old[Slot(t)].playerInputs[q] = BestKnownInput(q, t)
             /\ t <= e => old[Slot(t)].gameState[q] = BestKnownState(q, t)
  <2>1. t \in Nat /\ t <= m /\ m < t + MaxTicks
    BY <1>4, <1>5
  <2>2. CASE t \in HeldTicks
    BY <2>2 DEF RollbackInv, InputsExact, StatesExact, InputExact, StateExact
  <2>3. CASE t \notin HeldTicks
    <3>1. t = Oldest /\ Oldest >= 0 /\ e = Oldest
      BY <1>1, <1>2, <1>5, <2>1, <2>3 DEF HeldTicks, Oldest
    <3> QED BY <3>1 DEF RollbackInv, OldestExact, InputExact, StateExact
  <2> QED BY <2>2, <2>3
<1>6. PICK loop : /\ loop[e] = old
                  /\ \A i \in e .. m : loop[i + 1] = SimulateTick(loop[i], i + 1)
                  /\ Resimulated(old, e) = loop[m + 1]
  BY <1>1, <1>2, ResimulatedLoop
<1> DEFINE Right(g, i) == \A q \in Remote : \A t :
                            Whole(t) /\ t <= i => g[Slot(t)].gameState[q] = BestKnownState(q, t)
           Ring(g)     == /\ g \in [Slots -> CTick]
                          /\ \A k \in Slots : g[k].playerInputs = old[k].playerInputs
           S == {i \in Nat : Ring(loop[e + i]) /\ Right(loop[e + i], e + i)}
<1> HIDE DEF old, e, m, n, Whole
<1>7. e + 0 = e
  BY <1>1
<1>8. 0 \in S
  BY <1>1, <1>5, <1>6, <1>7
\* One turn.
<1>9. ASSUME NEW i \in 0 .. n, i \in S
      PROVE  /\ Ring(loop[e + i + 1])
             /\ \A k \in Slots \ {Slot(e + i + 1)} : loop[e + i + 1][k] = loop[e + i][k]
             /\ \A q \in Remote :
                  loop[e + i + 1][Slot(e + i + 1)].gameState[q] = BestKnownState(q, e + i + 1)
  <2> DEFINE j == e + i
             g == loop[j]
             h == loop[j + 1]
  <2>1. j \in Nat /\ j + 1 \in Nat \ {0} /\ j + 1 - 1 = j /\ j \in e .. m
    BY <1>1, <1>3
  <2>2. g \in [Slots -> CTick] /\ \A k \in Slots : g[k].playerInputs = old[k].playerInputs
    BY <1>9
  <2>3. Right(g, j)
    BY <1>9
  <2>4. h = SimulateTick(g, j + 1)
    BY <1>6, <2>1
  <2>5. Whole(j) /\ j <= j
    BY <2>1 DEF Whole
  <2>6. \A q \in Remote : /\ g[Slot(j)].gameState[q] = BestKnownState(q, j)
                          /\ g[Slot(j)].playerInputs[q] = BestKnownInput(q, j)
    BY <1>5, <2>1, <2>2, <2>3, <2>5, SlotType
  <2> HIDE DEF j, g, h, Right
  <2>7. /\ h \in [Slots -> CTick]
        /\ \A k \in Slots : h[k].playerInputs = g[k].playerInputs
        /\ \A k \in Slots \ {Slot(j + 1)} : h[k] = g[k]
        /\ h[Slot(j + 1)].gameState = SimulationNext(g[Slot(j)].gameState, g[Slot(j)].playerInputs)
    <3> DEFINE i1 == j + 1
    <3>1. i1 \in Nat \ {0} /\ i1 - 1 = j
      BY <2>1
    <3>2. h = SimulateTick(g, i1)
      BY <2>4
    <3> HIDE DEF i1
    <3>3. /\ h \in [Slots -> CTick]
          /\ \A k \in Slots : h[k].playerInputs = g[k].playerInputs
          /\ \A k \in Slots \ {Slot(i1)} : h[k] = g[k]
          /\ h[Slot(i1)].gameState = SimulationNext(g[Slot(i1 - 1)].gameState,
                                                   g[Slot(i1 - 1)].playerInputs)
      BY <2>2, <3>1, <3>2, SimulateTickFields
    <3> QED BY <3>1, <3>3 DEF i1
  <2>8. ASSUME NEW q \in Remote
        PROVE  h[Slot(j + 1)].gameState[q] = BestKnownState(q, j + 1)
    <3>1. q \in Players
      BY <1>1
    <3>2. h[Slot(j + 1)].gameState[q] = Append(g[Slot(j)].gameState[q], g[Slot(j)].playerInputs[q])
      BY <2>7, <3>1 DEF SimulationNext
    <3> QED BY <2>1, <2>6, <3>2, BestKnownNext
  <2>9. Ring(h)
    BY <2>2, <2>7
  <2> HIDE DEF Ring
  <2> QED BY <2>7, <2>8, <2>9 DEF j, g, h
\* A later turn leaves the slots of the ticks before it alone.
<1>10. ASSUME NEW i \in 0 .. n, i \in S, NEW q \in Remote, NEW t, Whole(t), t <= e + i,
              t # e + i + 1 - MaxTicks
       PROVE  loop[e + i + 1][Slot(t)].gameState[q] = BestKnownState(q, t)
  <2>1. t \in Nat /\ m < t + MaxTicks
    BY <1>4, <1>10
  <2>2. e + i + 1 \in Nat /\ t < e + i + 1 /\ e + i + 1 < t + MaxTicks
    BY <1>1, <1>3, <1>10, <2>1
  <2>3. Slot(t) \in Slots \ {Slot(e + i + 1)}
    BY <2>1, <2>2, SlotsDiffer, SlotType
  <2>4. loop[e + i + 1][Slot(t)] = loop[e + i][Slot(t)]
    BY <1>9, <1>10, <2>3
  <2>5. loop[e + i][Slot(t)].gameState[q] = BestKnownState(q, t)
    BY <1>10
  <2> QED BY <2>4, <2>5
<1>11. ASSUME NEW i \in 0 .. n - 1, i \in S
       PROVE  i + 1 \in S
  <2> DEFINE j == e + i + 1
  <2>1. i \in 0 .. n /\ i + 1 \in Nat /\ e + (i + 1) = j /\ j \in Nat /\ j <= m
    BY <1>1, <1>3
  <2>2. Ring(loop[j]) /\ \A q \in Remote : loop[j][Slot(j)].gameState[q] = BestKnownState(q, j)
    BY <1>9, <1>11, <2>1
  <2>3. ASSUME NEW q \in Remote, NEW t, Whole(t), t <= j
        PROVE  loop[j][Slot(t)].gameState[q] = BestKnownState(q, t)
    <3>1. t \in Nat /\ m < t + MaxTicks
      BY <1>4, <2>3
    <3>2. CASE t = j
      BY <2>2, <3>2
    <3>3. CASE t # j
      <4>1. t <= e + i /\ t # e + i + 1 - MaxTicks
        BY <1>1, <2>1, <2>3, <3>1, <3>3
      <4> QED BY <1>10, <1>11, <2>1, <2>3, <4>1
    <3> QED BY <3>2, <3>3
  <2>4. Right(loop[j], j)
    BY <2>3
  <2> HIDE DEF j, Ring, Right
  <2> QED BY <2>1, <2>2, <2>4
<1>12. n \in S
  <2> HIDE DEF S
  <2> QED BY <1>3, <1>8, <1>11, InductionUpTo
<1>13. ASSUME NEW q \in Remote, NEW t \in HeldTicks
       PROVE  Resimulated(old, e)[Slot(t)].gameState[q] = BestKnownState(q, t)
  <2>1. Whole(t)
    BY DEF Whole
  <2>2. t \in Nat /\ t <= m /\ t > m + 1 - MaxTicks
    BY <1>1 DEF HeldTicks, m
  <2>3. t <= e + n /\ t # e + n + 1 - MaxTicks /\ n \in 0 .. n /\ e + n + 1 = m + 1
    BY <1>1, <1>3, <2>2
  <2> HIDE DEF S
  <2> QED BY <1>6, <1>10, <1>12, <2>1, <2>3
<1> QED BY <1>13 DEF old, e

\* The end of DoRollback.
LEMMA ResimulateRollbackInv ==
  ASSUME RingSuffices, TypeInv, RollbackInv, Resimulate
  PROVE  RollbackInv'
<1>1. /\ m_tickNum \in Nat /\ MaxTicks \in Nat \ {0} /\ Oldest \in Int
      /\ \A r \in Remote : known[r] \in Int
      /\ earliest \in Nat
      /\ m_gamesStates \in [Slots -> CTick]
  BY RollbackTypes DEF Resimulate
<1>2. /\ HasValue(earliest)
      /\ m_gamesStates' = Resimulated(m_gamesStates, earliest) /\ earliest' = NoTick
      /\ m_tickNum' = m_tickNum /\ m_bufferHead' = m_bufferHead /\ known' = known
  BY DEF Resimulate
<1>3. \A q, t : /\ BestKnownInput(q, t)' = BestKnownInput(q, t)
                /\ BestKnownState(q, t)' = BestKnownState(q, t)
  BY <1>2, BestKnownSame
<1>4. HeldTicks' = HeldTicks /\ Oldest' = Oldest
  BY <1>2 DEF HeldTicks, Oldest
<1>5. \A t \in HeldTicks : t \in Nat
  BY <1>1 DEF HeldTicks
<1>6. CountersInv'
  BY <1>2 DEF RollbackInv, CountersInv
<1>7. EarliestInv'
  BY <1>2 DEF EarliestInv, HasValue
<1>8. InputsExact'
  <2>1. \A k \in Slots : m_gamesStates'[k].playerInputs = m_gamesStates[k].playerInputs
    BY <1>1, <1>2, ResimulatedType
  <2>2. ASSUME NEW q \in Remote, NEW t \in HeldTicks
        PROVE  m_gamesStates'[Slot(t)].playerInputs[q] = BestKnownInput(q, t)'
    <3>1. m_gamesStates[Slot(t)].playerInputs[q] = BestKnownInput(q, t)
      BY DEF RollbackInv, InputsExact, InputExact
    <3> QED BY <1>3, <1>5, <2>1, <3>1, SlotType
  <2> QED BY <1>4, <2>2 DEF InputsExact, InputExact
<1>9. StatesExact'
  <2>1. \A q \in Remote, t \in HeldTicks :
          m_gamesStates'[Slot(t)].gameState[q] = BestKnownState(q, t)
    BY <1>2, ResimulateExact
  <2> QED BY <1>3, <1>4, <2>1 DEF StatesExact, StateExact
<1>10. OldestExact'
  <2>1. \A q \in Remote : known'[q] + 1 # Oldest
    BY <1>1, <1>2 DEF RollbackInv, EarliestInv
  <2>2. Oldest >= 0 => earliest' # Oldest
    BY <1>1, <1>2 DEF NoTick
  <2> QED BY <1>4, <2>1, <2>2 DEF OldestExact
<1> QED BY <1>6, <1>7, <1>8, <1>9, <1>10 DEF RollbackInv

\* A frame.
LEMMA UpdateRollbackInv ==
  ASSUME RingSuffices, TypeInv, RollbackInv, NEW n \in 0 .. MaxTicks, Update(n)
  PROVE  RollbackInv'
<1>1. /\ m_tickNum \in Nat /\ MaxTicks \in Nat \ {0} /\ Oldest \in Int /\ n \in Nat
      /\ \A r \in Remote : known[r] \in Int
      /\ Remote \subseteq Players
      /\ LocalPlayer \notin Remote
  BY RollbackTypes
<1>2. m_bufferHead = Slot(m_tickNum)
  BY DEF RollbackInv, CountersInv
<1>3. /\ earliest = NoTick /\ earliest' = NoTick
      /\ m_tickNum' = m_tickNum + n /\ m_bufferHead' = Slot(m_tickNum')
      /\ known' = known
      /\ \A q \in Remote : m_tickNum' - (known[q] + 1) <= MaxLag
      /\ n = 0 => \A k \in Slots : m_gamesStates'[k].gameState = m_gamesStates[k].gameState
  BY <1>2, UpdateFields
<1>4. \A q, t : /\ BestKnownInput(q, t)' = BestKnownInput(q, t)
                /\ BestKnownState(q, t)' = BestKnownState(q, t)
  BY <1>3, BestKnownSame
<1>5. \A q \in Remote : known[q] <= m_tickNum
  BY DEF RollbackInv, CountersInv
<1>6. ASSUME NEW q \in Remote
      PROVE  /\ \A t \in HeldTicks' :
                  /\ m_gamesStates'[Slot(t)].gameState[q] = BestKnownState(q, t)
                  /\ m_gamesStates'[Slot(t)].playerInputs[q] = BestKnownInput(q, t)
             /\ n > 0 => \A t \in 0 .. m_tickNum' : t >= m_tickNum' + 1 - MaxTicks =>
                  m_gamesStates'[Slot(t)].gameState[q] = BestKnownState(q, t)
  <2>1. RingExact(Now, q)
    <3>1. \A t \in HeldTicks : /\ m_gamesStates[Slot(t)].gameState[q] = BestKnownState(q, t)
                               /\ m_gamesStates[Slot(t)].playerInputs[q] = BestKnownInput(q, t)
      BY <1>3 DEF RollbackInv, StatesExact, InputsExact, StateExact, InputExact, HasValue
    <3> QED BY <1>2, <3>1, NowType DEF RingExact, HeldTicks
  <2>2. q # LocalPlayer /\ q \in Players /\ MaxTicks >= 2
    BY <1>1 DEF RingSuffices
  <2> QED BY <1>5, <2>1, <2>2, UpdateExact
<1>7. CountersInv'
  <2>1. \A q \in Remote : known[q] <= m_tickNum'
    BY <1>1, <1>3, <1>5
  <2> QED BY <1>3, <2>1 DEF CountersInv
<1>8. EarliestInv'
  BY <1>3 DEF EarliestInv, HasValue
<1>9. InputsExact' /\ StatesExact'
  BY <1>4, <1>6 DEF InputsExact, StatesExact, InputExact, StateExact
<1>10. OldestExact'
  <2>1. Oldest' = m_tickNum' + 1 - MaxTicks
    BY DEF Oldest
  <2>2. ASSUME Oldest' >= 0, NEW q \in Remote, known[q] + 1 = Oldest'
        PROVE  StateExact(q, Oldest)'
    <3> DEFINE t == Oldest'
    <3>1. m_tickNum' \in Nat /\ t \in 0 .. m_tickNum' /\ t >= m_tickNum' + 1 - MaxTicks
      BY <1>1, <1>3, <2>1, <2>2
    <3>2. m_gamesStates'[Slot(t)].gameState[q] = BestKnownState(q, t)
      <4>1. CASE n > 0
        BY <1>6, <3>1, <4>1
      <4>2. CASE n = 0
        <5>1. t = Oldest /\ Oldest >= 0
          BY <1>1, <1>3, <2>1, <2>2, <4>2 DEF Oldest
        <5>2. StateExact(q, Oldest)
          BY <1>3, <2>2, <5>1 DEF RollbackInv, OldestExact, HasValue
        <5>3. Slot(Oldest) \in Slots
          BY <1>1, <5>1, SlotType
        <5> QED BY <1>3, <4>2, <5>1, <5>2, <5>3 DEF StateExact
      <4> QED BY <1>1, <4>1, <4>2
    <3> QED BY <1>3, <3>2 DEF StateExact, BestKnownState, BestKnownInput
  <2>3. Oldest' >= 0 => earliest' # Oldest'
    BY <1>1, <1>3, <2>1 DEF NoTick
  <2> QED BY <1>3, <2>2, <2>3 DEF OldestExact
<1> QED BY <1>7, <1>8, <1>9, <1>10 DEF RollbackInv

\* Every step keeps it.
LEMMA NextRollbackInv ==
  RingSuffices /\ TypeInv /\ RollbackInv /\ [Next]_vars => RollbackInv'
<1> SUFFICES ASSUME RingSuffices, TypeInv, RollbackInv, [Next]_vars PROVE RollbackInv'
  OBVIOUS
<1>1. ASSUME UNCHANGED <<m_tickNum, m_gamesStates, m_bufferHead, earliest, known>>
      PROVE  RollbackInv'
  <2>1. \A q, t : /\ BestKnownInput(q, t)' = BestKnownInput(q, t)
                  /\ BestKnownState(q, t)' = BestKnownState(q, t)
    BY <1>1, BestKnownSame
  <2>2. HeldTicks' = HeldTicks /\ Oldest' = Oldest
    BY <1>1 DEF HeldTicks, Oldest
  <2>3. \A q, t : (StateExact(q, t)' <=> StateExact(q, t)) /\ (InputExact(q, t)' <=> InputExact(q, t))
    BY <1>1, <2>1 DEF StateExact, InputExact
  <2>4. CountersInv' /\ EarliestInv'
    BY <1>1, <2>2 DEF RollbackInv, CountersInv, EarliestInv
  <2>5. InputsExact' /\ StatesExact'
    BY <1>1, <2>2, <2>3 DEF RollbackInv, InputsExact, StatesExact
  <2>6. OldestExact'
    <3>1. \A q : /\ StateExact(q, Oldest)' <=> StateExact(q, Oldest)
                 /\ InputExact(q, Oldest)' <=> InputExact(q, Oldest)
      BY <1>1, <2>1, <2>2 DEF StateExact, InputExact, BestKnownState, BestKnownInput
    <3> QED BY <1>1, <2>2, <3>1 DEF RollbackInv, OldestExact
  <2> QED BY <2>4, <2>5, <2>6 DEF RollbackInv
<1>2. ASSUME NEW d \in {DelayStep, -DelayStep}, OnAction(d)
      PROVE  RollbackInv'
  BY <1>1, <1>2 DEF OnAction, ring
<1>3. CASE UNCHANGED vars
  BY <1>1, <1>3 DEF vars, ring
<1> QED BY <1>2, <1>3, TakeUpdateRollbackInv, ResimulateRollbackInv, UpdateRollbackInv DEF Next

\* The inductive invariant of rollback: within DoRollback and between frames, which
\* inputs and which states of the ring are what they should be.
THEOREM RollbackInvariant ==
  ASSUME RingSuffices
  PROVE  Spec => [](TypeInv /\ RollbackInv)
<1>1. Init => TypeInv /\ RollbackInv
  BY InitTypeInv, InitRollbackInv
<1>2. TypeInv /\ RollbackInv /\ [Next]_vars => TypeInv' /\ RollbackInv'
  BY NextTypeInv, NextRollbackInv
<1> QED BY <1>1, <1>2, PTL DEF Spec

\* Invariant: between frames, DoRollback and Update together have made every tick of
\* the ring what the simulation makes of all that is known of the other players,
\* for every order in which their inputs arrive and every delay that the ring bridges.
THEOREM RollbackExact ==
  ASSUME RingSuffices
  PROVE  Spec => []RemoteStatesAreBestKnown
<1>1. RollbackInv => RemoteStatesAreBestKnown
  BY DEF RollbackInv, StatesExact, StateExact, RemoteStatesAreBestKnown, HasValue
<1> QED BY <1>1, RollbackInvariant, PTL

\* The tick at the head has the input of the client's own player.
HeadInput(r) ==
  r.m_gamesStates[r.m_bufferHead].playerInputs[LocalPlayer] =
    IF r.m_tickNum = 0 THEN None ELSE UserInput[LocalPlayer][r.m_tickNum - 1]

\* It stays so over the loop of Update.
LEMMA ProcessedInput ==
  ASSUME TypeInv, HeadInput(Now), NEW n \in 0 .. MaxTicks, m_tickNum <= GameDuration
  PROVE  HeadInput(Processed(n))
<1>1. n \in Nat /\ m_tickNum \in Nat /\ GameDuration \in Nat /\ MaxTicks \in Nat
  BY InputSyncAssumption, GameStateManagerAssumption DEF TypeInv, TypeOK
<1>2. PICK loop : /\ loop[0] = Now
                  /\ \A i \in 0 .. n - 1 : loop[i + 1] = ProcessTick(loop[i])
                  /\ Processed(n) = loop[n]
  BY <1>1, ProcessedLoop
<1> DEFINE S == {i \in Nat : /\ loop[i] \in RingType /\ loop[i].m_tickNum = m_tickNum + i
                             /\ HeadInput(loop[i])}
<1>3. 0 \in S
  BY <1>1, <1>2, NowType
<1>4. ASSUME NEW i \in 0 .. n - 1, i \in S
      PROVE  i + 1 \in S
  <2> DEFINE r == loop[i]
             s == loop[i + 1]
             t == r.m_tickNum
  <2>1. r \in RingType /\ t = m_tickNum + i /\ s = ProcessTick(r) /\ i \in Nat
    BY <1>2, <1>4
  <2>2. t \in Nat /\ t \in Ticks /\ t + 1 = m_tickNum + (i + 1)
    BY <1>1, <2>1, SmallTypes
  <2> HIDE DEF r, s
  <2>3. /\ s \in RingType /\ s.m_tickNum = t + 1
        /\ s.m_gamesStates[s.m_bufferHead].playerInputs =
             [r.m_gamesStates[r.m_bufferHead].playerInputs EXCEPT ![LocalPlayer] =
                UserInput[LocalPlayer][t]]
    BY <2>1, <2>2, ProcessTickFields
  <2>4. r.m_gamesStates[r.m_bufferHead].playerInputs \in [Players -> Inputs \cup {NoInput}]
    BY <2>1 DEF RingType, CTick
  <2>5. s.m_gamesStates[s.m_bufferHead].playerInputs[LocalPlayer] = UserInput[LocalPlayer][t]
    BY <2>3, <2>4, SmallTypes
  <2>6. s.m_tickNum # 0 /\ s.m_tickNum - 1 = t
    BY <2>2, <2>3
  <2> HIDE DEF t
  <2>7. HeadInput(s)
    BY <2>5, <2>6 DEF HeadInput
  <2> QED BY <2>1, <2>2, <2>3, <2>7 DEF s
<1>5. n \in S
  <2> HIDE DEF S
  <2> QED BY <1>1, <1>3, <1>4, InductionUpTo
<1> QED BY <1>2, <1>5

\* A frame leaves it so, although it writes into the slot after the head.
LEMMA UpdateInput ==
  ASSUME TypeInv, MaxTicks >= 2, m_bufferHead = Slot(m_tickNum), HeadInput(Now),
         NEW n \in 0 .. MaxTicks, Update(n)
  PROVE  HeadInput(Now)'
<1> DEFINE r == Processed(n)
<1>1. /\ m_tickNum <= GameDuration /\ m_bufferHead' = Slot(m_tickNum')
      /\ r \in RingType /\ r.m_tickNum = m_tickNum'
      /\ \A k \in Slots \ {Slot(m_tickNum' + 1)} : m_gamesStates'[k] = r.m_gamesStates[k]
  BY UpdateFields
<1>2. r.m_bufferHead = m_bufferHead'
  BY DEF Update
<1>3. HeadInput(r)
  BY <1>1, ProcessedInput
<1> HIDE DEF r
<1>4. m_tickNum' \in Nat
  BY <1>1 DEF RingType
<1>5. m_bufferHead' \in Slots \ {Slot(m_tickNum' + 1)}
  <2>1. \A m \in Nat : Slot(m) \in Slots \ {Slot(m + 1)}
    <3> SUFFICES ASSUME NEW m \in Nat PROVE Slot(m) \in Slots \ {Slot(m + 1)}
      OBVIOUS
    <3>1. m + 1 \in Nat /\ m < m + 1 /\ m + 1 < m + MaxTicks
      BY SmallTypes
    <3> QED BY <3>1, SlotsDiffer, SlotType
  <2> QED BY <1>1, <1>4, <2>1
<1>6. m_gamesStates'[m_bufferHead'] = r.m_gamesStates[r.m_bufferHead]
  BY <1>1, <1>2, <1>5
<1>7. /\ Now' = [m_gamesStates |-> m_gamesStates', m_bufferHead |-> m_bufferHead',
                 m_tickNum |-> m_tickNum']
      /\ HeadInput(Now)' <=>
           Now'.m_gamesStates[Now'.m_bufferHead].playerInputs[LocalPlayer] =
             IF Now'.m_tickNum = 0 THEN None ELSE UserInput[LocalPlayer][Now'.m_tickNum - 1]
  BY DEF Now, HeadInput
<1> QED BY <1>1, <1>3, <1>6, <1>7 DEF HeadInput

\* Invariant: in the newest tick the input of the client's own player is that of the
\* tick before, whatever has arrived, because DoRollback does not write his inputs.
LEMMA HeadInputInvariant ==
  ASSUME MaxTicks >= 2
  PROVE  Spec => []HeadInput(Now)
<1> DEFINE Inv == TypeInv /\ OwnInv /\ HeadInput(Now)
<1>1. ASSUME Init PROVE HeadInput(Now)
  <2>1. m_tickNum = 0 /\ m_bufferHead = 0 /\ m_gamesStates[0] = FirstTick
    BY <1>1, SmallTypes DEF Init
  <2> QED BY <2>1, SmallTypes DEF HeadInput, Now, FirstTick
<1>2. ASSUME TypeInv, OwnInv, HeadInput(Now), [Next]_vars PROVE HeadInput(Now)'
  <2>1. ASSUME /\ UNCHANGED <<m_tickNum, m_bufferHead>>
               /\ \A k \in Slots : m_gamesStates'[k].playerInputs[LocalPlayer]
                                     = m_gamesStates[k].playerInputs[LocalPlayer]
        PROVE  HeadInput(Now)'
    <3>1. m_bufferHead \in Slots
      BY <1>2 DEF TypeInv, TypeOK
    <3> QED BY <1>2, <2>1, <3>1 DEF HeadInput, Now
  <2>2. ASSUME NEW q \in Remote, NEW size \in 1 .. MaxTicks, TakeUpdate(q, size)
        PROVE  HeadInput(Now)'
    <3> DEFINE first == known[q] + 1
    <3>1. /\ first \in Nat /\ size \in Nat \ {0} /\ first + size - 1 \in Ticks
          /\ m_gamesStates' = Written(m_gamesStates, q, first, size)
          /\ UNCHANGED <<m_tickNum, m_bufferHead>>
      BY <1>2, <2>2, TakeUpdateTicks
    <3> HIDE DEF first
    <3>2. LocalPlayer \in Players \ {q}
      BY SmallTypes DEF Remote
    <3>3. \A k \in Slots : m_gamesStates'[k].playerInputs[LocalPlayer]
                             = m_gamesStates[k].playerInputs[LocalPlayer]
      BY <1>2, <3>1, <3>2, WrittenFields
    <3> QED BY <2>1, <3>1, <3>3
  <2>3. CASE Resimulate
    <3>1. /\ m_gamesStates' = Resimulated(m_gamesStates, earliest)
          /\ UNCHANGED <<m_tickNum, m_bufferHead>>
      BY <2>3 DEF Resimulate
    <3>2. m_gamesStates \in [Slots -> CTick] /\ earliest \in Nat /\ m_tickNum \in Nat
      BY <1>2, <2>3 DEF Resimulate, TypeInv, TypeOK, OptTick, HasValue
    <3>3. \A k \in Slots : m_gamesStates'[k].playerInputs = m_gamesStates[k].playerInputs
      BY <3>1, <3>2, ResimulatedType
    <3> QED BY <2>1, <3>1, <3>3
  <2>4. ASSUME NEW n \in 0 .. MaxTicks, Update(n) PROVE HeadInput(Now)'
    BY <1>2, <2>4, UpdateInput DEF OwnInv
  <2>5. ASSUME NEW d \in {DelayStep, -DelayStep}, OnAction(d) PROVE HeadInput(Now)'
    BY <2>1, <2>5 DEF OnAction, ring
  <2>6. CASE UNCHANGED vars
    BY <2>1, <2>6 DEF vars, ring
  <2> QED BY <1>2, <2>2, <2>3, <2>4, <2>5, <2>6 DEF Next
<1>3. Init => Inv
  BY <1>1, InitTypeInv, InitOwnInv
<1>4. Inv /\ [Next]_vars => Inv'
  BY <1>2, NextTypeInv, NextOwnInv
<1> QED BY <1>3, <1>4, PTL DEF Spec

\* What Update hands out of the client's own player, for every delay.
LEMMA ShownOwnPlayer ==
  ASSUME TypeInv, OwnInv, TypeInv', OwnInv', HeadInput(Now)',
         NEW n \in 0 .. MaxTicks, Update(n), MaxTicks >= 2
  PROVE  ShowsOwnPlayer'
<1>1. /\ m_delay' = m_delay /\ m_bufferHead' = Slot(m_tickNum')
      /\ shown' = DelayTick(m_gamesStates', m_bufferHead', m_tickNum')
  BY UpdateFields DEF OwnInv
<1>2. /\ m_tickNum' \in Nat /\ m_gamesStates' \in [Slots -> CTick] /\ m_bufferHead' \in Slots
      /\ m_delay \in Nat /\ MaxTicks \in Nat
  BY InputSyncAssumption DEF TypeInv, TypeOK, Slots
<1> DEFINE g    == m_gamesStates'
           head == m_bufferHead'
           m    == m_tickNum'
<1>3. /\ shown'.gameState[LocalPlayer] = g[head].gameState[LocalPlayer]
      /\ shown'.playerInputs[LocalPlayer] = g[head].playerInputs[LocalPlayer]
  <2>1. g \in [Slots -> CTick] /\ head \in Slots /\ m \in Nat /\ shown' = DelayTick(g, head, m)
    BY <1>1, <1>2
  <2> HIDE DEF g, head, m
  <2> QED BY <1>2, <2>1, DelayTickType
<1>4. g[head].playerInputs[LocalPlayer] = IF m = 0 THEN None ELSE UserInput[LocalPlayer][m - 1]
  BY DEF HeadInput, Now
<1>5. (\A q \in Remote : ~HasValue(known'[q])) =>
        g[Slot(m)].gameState[LocalPlayer] = BestKnownState(LocalPlayer, m_tickNum)'
  <2>1. m_tickNum' \in HeldTicks'
    <3>1. \A k \in Nat : k \in 0 .. k /\ k > k + 1 - MaxTicks
      BY <1>2
    <3> QED BY <1>2, <3>1 DEF HeldTicks
  <2> QED BY <2>1 DEF OwnInv, BestKnownState, BestKnownInput
<1> QED BY <1>1, <1>3, <1>4, <1>5 DEF ShowsOwnPlayer, BestKnownState, BestKnownInput

\* What Update hands out after a frame, for a delay shorter than the longest.
LEMMA ShownTick ==
  ASSUME TypeInv, RollbackInv, TypeInv', RollbackInv',
         NEW n \in 0 .. MaxTicks, Update(n), m_delay < MaxTicks - 1
  PROVE  ShowsTick(PresentOr(m_delay))'
<1>1. /\ earliest' = NoTick /\ m_delay' = m_delay
      /\ m_bufferHead' = Slot(m_tickNum')
      /\ shown' = DelayTick(m_gamesStates', m_bufferHead', m_tickNum')
  <2>1. m_bufferHead = Slot(m_tickNum)
    BY DEF RollbackInv, CountersInv
  <2> QED BY <2>1, UpdateFields
<1>2. /\ m_tickNum' \in Nat /\ m_gamesStates' \in [Slots -> CTick] /\ m_bufferHead' \in Slots
      /\ m_delay \in Nat /\ MaxTicks \in Nat
  BY InputSyncAssumption DEF TypeInv, TypeOK, Slots
<1>3. PICK m \in Nat : m = m_tickNum'
  BY <1>2
<1>4. PICK t \in Nat : t = DelayTickNum(m, m_delay)
  <2>1. DelayTickNum(m, m_delay) \in Nat
    BY <1>2 DEF DelayTickNum
  <2> QED BY <2>1
<1>5. t <= m /\ t > m + 1 - MaxTicks /\ t = IF m > m_delay THEN m - m_delay ELSE 0
  BY <1>2, <1>4 DEF DelayTickNum
<1>6. t \in HeldTicks'
  <2>1. HeldTicks' = {u \in 0 .. m : u > m + 1 - MaxTicks}
    BY <1>3 DEF HeldTicks
  <2> QED BY <1>2, <1>5, <2>1
<1>7. PresentOr(m_delay)' = t
  BY <1>1, <1>3, <1>5 DEF PresentOr
<1>8. ASSUME NEW q \in Remote
      PROVE  /\ shown'.gameState[q] = m_gamesStates'[Slot(t)].gameState[q]
             /\ shown'.playerInputs[q] = m_gamesStates'[Slot(t)].playerInputs[q]
  <2> DEFINE g == m_gamesStates'
             head == m_bufferHead'
  <2>1. g \in [Slots -> CTick] /\ head \in Slots /\ m_delay \in Nat
        /\ q \in Players \ {LocalPlayer} /\ shown' = DelayTick(g, head, m)
    BY <1>1, <1>2, <1>3 DEF Remote
  <2> HIDE DEF g, head
  <2>2. /\ DelayTick(g, head, m).gameState[q] = g[Slot(t)].gameState[q]
        /\ DelayTick(g, head, m).playerInputs[q] = g[Slot(t)].playerInputs[q]
    BY <1>4, <2>1, DelayTickType
  <2> QED BY <2>1, <2>2 DEF g
<1>9. ASSUME NEW q \in Remote
      PROVE  /\ m_gamesStates'[Slot(t)].gameState[q] = BestKnownState(q, t)'
             /\ m_gamesStates'[Slot(t)].playerInputs[q] = BestKnownInput(q, t)'
  <2>1. StateExact(q, t)' /\ InputExact(q, t)'
    BY <1>1, <1>6 DEF RollbackInv, StatesExact, InputsExact, HasValue
  <2> QED BY <2>1 DEF StateExact, InputExact
<1>10. ShowsTick(t)'
  BY <1>8, <1>9 DEF ShowsTick
<1> QED BY <1>7, <1>10 DEF ShowsTick, BestKnownState, BestKnownInput

\* Action property: every frame, and not only some frame in the end, shows the own
\* player in the newest tick, with his exact input, for every delay, and the others in
\* the tick that lies as far back as the delay says, as it is known by then, for every
\* delay but the longest.
THEOREM ShownInThePast ==
  ASSUME RingSuffices
  PROVE  Spec => ShowsDelayedTick
<1> DEFINE Inv == TypeInv /\ RollbackInv /\ OwnInv /\ HeadInput(Now)
<1>1. MaxTicks >= 2
  BY DEF RingSuffices
<1>2. Spec => [](TypeInv /\ RollbackInv) /\ [](TypeInv /\ OwnInv) /\ []HeadInput(Now)
  BY <1>1, RollbackInvariant, OwnInvariant, HeadInputInvariant
<1>3. Inv /\ Inv' =>
        [\A n \in 0 .. MaxTicks :
           Update(n) => /\ ShowsOwnPlayer'
                        /\ m_delay < MaxTicks - 1 => ShowsTick(PresentOr(m_delay))']_vars
  BY <1>1, ShownTick, ShownOwnPlayer
<1> QED BY <1>2, <1>3, PTL DEF ShowsDelayedTick

\* What the inputs that are known of q make of him, by the beginning of tick t: his own
\* inputs in the ticks before, in their order, each once.
Played(q, t) == [i \in 1 .. t |-> UserInput[q][i - 1]]

\* Between frames, in every tick of the ring up to which the inputs of q are known, q is
\* where his own inputs have brought him, whatever had been predicted.
KnownIsPlayed ==
  earliest = NoTick =>
    \A q \in Remote : \A t \in HeldTicks :
      t <= known[q] + 1 => m_gamesStates[Slot(t)].gameState[q] = Played(q, t)

\* Invariant: Played does not mention this client, so any two clients that know the inputs
\* of a third up to tick t, and have rolled back, show him in the same state in tick t:
\* DoRollback makes the simulations agree.
THEOREM ClientsAgree ==
  ASSUME RingSuffices
  PROVE  Spec => []KnownIsPlayed
<1>1. ASSUME TypeInv, RollbackInv PROVE KnownIsPlayed
  <2> SUFFICES ASSUME earliest = NoTick, NEW q \in Remote, NEW t \in HeldTicks, t <= known[q] + 1
               PROVE  m_gamesStates[Slot(t)].gameState[q] = Played(q, t)
    BY DEF KnownIsPlayed
  <2>1. m_gamesStates[Slot(t)].gameState[q] = BestKnownState(q, t)
    BY <1>1 DEF RollbackInv, StatesExact, StateExact, HasValue
  <2>2. t \in Nat /\ known[q] \in OptTick /\ known[q] \in Int /\ q # LocalPlayer
    BY <1>1, RollbackTypes DEF HeldTicks, Remote
  <2>3. \A i \in 1 .. t : BestKnownInput(q, i - 1) = UserInput[q][i - 1]
    <3> SUFFICES ASSUME NEW i \in 1 .. t
                 PROVE  BestKnownInput(q, i - 1) = UserInput[q][i - 1]
      OBVIOUS
    <3>1. i - 1 <= known[q] /\ known[q] # NoTick
      BY <2>2 DEF NoTick
    <3> QED BY <2>2, <3>1 DEF BestKnownInput, HasValue
  <2> QED BY <2>1, <2>3 DEF BestKnownState, Played
<1> QED BY <1>1, RollbackInvariant, PTL
=============================================================================
