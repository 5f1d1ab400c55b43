--------------------------- MODULE LocalInputProofs ---------------------------
(***************************************************************************)
(* Ticks follow the clock, and no key and no movement of the mouse is lost *)
(* or doubled, for any length of a tick, of frames and of the game; the    *)
(* simulation along one axis is stable.                                    *)
(***************************************************************************)
EXTENDS MCLocalInput, TLAPS, WellFoundedInduction

\* What is assumed of the constants.
LEMMA Durations ==
  /\ TickDuration \in Nat \ {0} /\ MaxTicks \in Nat /\ GameDuration \in Nat
  /\ Start \in Nat /\ Start > 0 /\ Leftovers \subseteq Nat /\ MouseStep \in Nat
  /\ MaxTime \in Nat /\ MaxFrame \in Nat
BY FrameTicksAssumption, LocalInputAssumption

\* A product does not get smaller with a factor.
LEMMA ProductMonotonic ==
  ASSUME NEW a \in Nat, NEW b \in Nat, NEW c \in Nat, a <= b
  PROVE  c * a <= c * b
OBVIOUS

\* Division with remainder.
LEMMA Division ==
  ASSUME NEW a \in Nat, NEW b \in Nat \ {0}
  PROVE  /\ a \div b \in Nat /\ a % b \in 0 .. b - 1
         /\ a = b * (a \div b) + (a % b)
OBVIOUS

\* A quotient is at most a number that the dividend is below the next multiple of.
LEMMA QuotientBound ==
  ASSUME NEW a \in Nat, NEW b \in Nat \ {0}, NEW n \in Nat, a < b * n + b
  PROVE  a \div b <= n
OBVIOUS

\* What is left of an amount is no more than the amount.
LEMMA RemainderBound ==
  ASSUME NEW amount \in Nat, NEW total \in Nat \ {0}
  PROVE  Remainder(amount, total) \in Nat /\ Remainder(amount, total) <= amount
<1> DEFINE r == total % TickDuration
           a == amount * r
<1>1. r \in Nat /\ r <= total
  <2>1. /\ r \in 0 .. TickDuration - 1 /\ total \div TickDuration \in Nat
        /\ total = TickDuration * (total \div TickDuration) + r
    BY Durations, Division
  <2> DEFINE q == total \div TickDuration
  <2> HIDE DEF r, q
  <2>2. TickDuration * q \in Nat
    BY <2>1, Durations DEF q
  <2> QED BY <2>1, <2>2, Durations DEF q
<1> HIDE DEF r
<1>2. a \in Nat /\ a <= amount * total
  BY <1>1, ProductMonotonic
<1>3. amount * total \in Nat /\ amount * total = total * amount
  OBVIOUS
<1> HIDE DEF a
<1>4. a < total * amount + total
  BY <1>2, <1>3
<1>5. a \div total \in Nat /\ a \div total <= amount
  BY <1>2, <1>4, Division, QuotientBound
<1> QED BY <1>5 DEF Remainder, a, r

\* What Update makes of a frame that it does not refuse: the time of the frame and
\* what was left of the last one go into whole ticks and a rest that is shorter
\* than a tick; so does the mouse movement, except for what a division drops, less
\* than one for each tick; and the keys go into the ticks as soon as there is one.
FrameMade(c, frameTime, mouse, flags, c1, made1) ==
  /\ c1 \in [tickNum : Nat, remaining : Nat, mouse : Nat, actions : SUBSET Keys]
  /\ made1 \in [count : Nat, mouse : Nat, actions : SUBSET Keys, rounded : Nat]
  /\ c1.tickNum = c.tickNum + made1.count
  /\ c.remaining + frameTime = TickDuration * made1.count + c1.remaining
  /\ c1.remaining < TickDuration
  /\ made1.count <= MaxTicks
  /\ c.mouse + mouse = c1.mouse + made1.count * made1.mouse + made1.rounded
  /\ made1.rounded <= made1.count
  /\ made1.count = 0 => c1.actions = c.actions \cup flags
  /\ made1.count > 0 => c1.actions = {} /\ made1.actions = c.actions \cup flags

\* So it does.
LEMMA AdvancedFrame ==
  ASSUME NEW c \in [tickNum : Nat, remaining : Nat, mouse : Nat, actions : SUBSET Keys],
         NEW frameTime \in Int, NEW mouse \in Nat, NEW flags \in SUBSET Keys,
         c.remaining < TickDuration, ~Refused(c, frameTime)
  PROVE  LET next == Advanced(c, frameTime, [mouse |-> mouse, actions |-> flags])
         IN  FrameMade(c, frameTime, mouse, flags, next.clock, next.made)
<1> DEFINE input     == [mouse |-> mouse, actions |-> flags]
           next      == Advanced(c, frameTime, input)
           total     == c.remaining + frameTime
           count     == total \div TickDuration
           all       == c.mouse + mouse
           remainder == Remainder(all, total)
           perTick   == (all - remainder) \div count
<1>1. /\ frameTime \in Nat /\ frameTime > 0 /\ frameTime <= TickDuration * MaxTicks
      /\ TickDuration * MaxTicks \in Nat
  BY Durations DEF Refused
<1>2. /\ c.tickNum \in Nat /\ c.remaining \in Nat /\ c.mouse \in Nat
      /\ c.actions \in SUBSET Keys
  OBVIOUS
<1>3. total \in Nat \ {0} /\ total < TickDuration * MaxTicks + TickDuration
  BY <1>1, <1>2, Durations
<1>4. all \in Nat
  BY <1>2
<1> HIDE DEF total
<1>5. /\ count \in Nat /\ Remaining(total) \in 0 .. TickDuration - 1
      /\ total = TickDuration * count + Remaining(total)
  BY <1>3, Durations, Division DEF Remaining
<1>6. count <= MaxTicks
  BY <1>3, Durations, QuotientBound
<1>7. remainder \in Nat /\ remainder <= all
  BY <1>3, <1>4, RemainderBound
<1> HIDE DEF count, all, remainder
<1>8. all = c.mouse + mouse
  BY DEF all
<1>9. next = IF count = 0
             THEN [clock |-> [c EXCEPT !.remaining = total, !.mouse = all,
                                       !.actions = c.actions \cup flags],
                   made  |-> NoTicks]
             ELSE [clock |-> [tickNum |-> c.tickNum + count, remaining |-> Remaining(total),
                              mouse |-> remainder, actions |-> {}],
                   made  |-> [count |-> count, mouse |-> perTick,
                              actions |-> c.actions \cup flags,
                              rounded |-> all - remainder - count * perTick]]
  BY DEF Advanced, KeysGathered, total, count, all, remainder
<1> HIDE DEF next, perTick
<1> DEFINE c1    == next.clock
           made1 == next.made
<1>10. CASE count = 0
  <2>1. /\ c1 = [c EXCEPT !.remaining = total, !.mouse = all, !.actions = c.actions \cup flags]
        /\ made1 = NoTicks
    BY <1>9, <1>10
  <2>2. TickDuration * 0 = 0 /\ total < TickDuration /\ total \in Nat
    BY <1>5, <1>10, Durations
  <2> HIDE DEF c1, made1
  <2>3. /\ c1 \in [tickNum : Nat, remaining : Nat, mouse : Nat, actions : SUBSET Keys]
        /\ c1.tickNum = c.tickNum /\ c1.remaining = total /\ c1.mouse = all
        /\ c1.actions = c.actions \cup flags
    BY <1>2, <1>4, <2>1, <2>2
  <2>4. /\ made1 \in [count : Nat, mouse : Nat, actions : SUBSET Keys, rounded : Nat]
        /\ made1.count = 0 /\ made1.mouse = 0 /\ made1.rounded = 0
    BY <2>1 DEF NoTicks
  <2>5. c.remaining + frameTime = total
    BY DEF total
  <2>6. FrameMade(c, frameTime, mouse, flags, c1, made1)
    BY <1>2, <1>8, <2>2, <2>3, <2>4, <2>5, Durations DEF FrameMade
  <2> QED BY <2>6 DEF c1, made1, next
<1>11. CASE count # 0
  <2>1. /\ c1 = [tickNum |-> c.tickNum + count, remaining |-> Remaining(total),
                 mouse |-> remainder, actions |-> {}]
        /\ made1 = [count |-> count, mouse |-> perTick, actions |-> c.actions \cup flags,
                    rounded |-> all - remainder - count * perTick]
    BY <1>9, <1>11
  <2> DEFINE rounded == (all - remainder) % count
  <2>2. /\ perTick \in Nat /\ rounded \in 0 .. count - 1
        /\ all - remainder = count * perTick + rounded
    <3>1. all - remainder \in Nat /\ count \in Nat \ {0}
      BY <1>4, <1>5, <1>7, <1>11
    <3> QED BY <3>1, Division DEF perTick
  <2> HIDE DEF c1, made1, rounded
  <2>3. count * perTick \in Nat
    BY <1>5, <2>2
  <2>4. all - remainder - count * perTick = rounded /\ all = remainder + count * perTick + rounded
    BY <1>4, <1>7, <2>2, <2>3
  <2>5. /\ c1 \in [tickNum : Nat, remaining : Nat, mouse : Nat, actions : SUBSET Keys]
        /\ c1.tickNum = c.tickNum + count /\ c1.remaining = Remaining(total)
        /\ c1.mouse = remainder /\ c1.actions = {}
    BY <1>2, <1>5, <1>7, <2>1, Durations
  <2>6. /\ made1 \in [count : Nat, mouse : Nat, actions : SUBSET Keys, rounded : Nat]
        /\ made1.count = count /\ made1.mouse = perTick /\ made1.rounded = rounded
        /\ made1.actions = c.actions \cup flags
    BY <1>2, <1>5, <2>1, <2>2, <2>4
  <2>7. c.remaining + frameTime = total /\ Remaining(total) < TickDuration /\ rounded <= count
    BY <1>5, <2>2, Durations DEF total
  <2>8. FrameMade(c, frameTime, mouse, flags, c1, made1)
    BY <1>5, <1>6, <1>8, <1>11, <2>4, <2>5, <2>6, <2>7 DEF FrameMade
  <2> QED BY <2>8 DEF c1, made1, next
<1> QED BY <1>10, <1>11

-----------------------------------------------------------------------------
(* The inductive invariant.                                                *)

\* Before the rollback begins nothing has been made of any frame, and a time that
\* is set is the start time, or was in memory.
Waiting ==
  ~m_rollbackInitialised =>
    /\ clock = NewClock /\ made = NoTicks /\ sent = [mouse |-> 0, rounded |-> 0]
    /\ sampled = {} /\ lost = 0 /\ skipped = 0 /\ ~disturbed
    /\ startTime \in {Start} \cup Leftovers
    /\ m_lastUpdateTime \in {Start} \cup Leftovers

\* What is set now, or waits for a tick, has been seen since the last tick; and what
\* waits is what frames have brought along.
KeysSeen ==
  /\ m_inputFlags \subseteq seen /\ clock.actions \subseteq seen
  /\ sampled = clock.actions

LocalInputInv == TypeOK /\ TicksFollowClock /\ MouseKept /\ Waiting /\ KeysSeen

\* Nothing has happened at first.
LEMMA InitInv ==
  ASSUME Init
  PROVE  LocalInputInv
<1>1. /\ NewClock \in [tickNum : Nat, remaining : Nat, mouse : Nat, actions : SUBSET Keys]
      /\ NoTicks \in [count : Nat, mouse : Nat, actions : SUBSET Keys, rounded : Nat]
      /\ NewClock.tickNum = 0 /\ NewClock.actions = {}
  BY DEF NewClock, NoTicks
<1>2. TypeOK
  <2>1. [mouse |-> 0, rounded |-> 0] \in [mouse : Nat, rounded : Nat]
    OBVIOUS
  <2>2. 0 \in 0 .. MaxTime
    BY Durations
  <2> QED BY <1>1, <2>1, <2>2, Durations DEF Init, TypeOK
<1>3. TicksFollowClock /\ MouseKept /\ Waiting /\ KeysSeen
  BY <1>1 DEF Init, TicksFollowClock, Playing, MouseKept, Waiting, KeysSeen
<1> QED BY <1>2, <1>3 DEF LocalInputInv

\* Keys change between frames without touching the ticks.
LEMMA KeyInv ==
  ASSUME LocalInputInv, NEW key \in Keys, PressOrHold(key) \/ Release(key)
  PROVE  LocalInputInv'
<1>1. TypeOK /\ TicksFollowClock /\ MouseKept /\ Waiting /\ KeysSeen
  BY DEF LocalInputInv
<1>2. /\ UNCHANGED <<lifeVars, startVars, tickVars, mouseVars>>
      /\ seen' = seen \cup m_inputFlags'
      /\ \/ held' = held \cup {key} /\ m_inputFlags' = m_inputFlags \cup {key}
         \/ held' = held \ {key} /\ m_inputFlags' = m_inputFlags \ {key}
  BY DEF PressOrHold, Release, HandleInputFlagChange
<1>3. TypeOK'
  BY <1>1, <1>2 DEF TypeOK, lifeVars, startVars, tickVars, mouseVars
<1>4. TicksFollowClock' /\ MouseKept' /\ Waiting'
  BY <1>1, <1>2 DEF TicksFollowClock, Playing, MouseKept, Waiting,
                    startVars, tickVars, mouseVars
<1>5. KeysSeen'
  BY <1>1, <1>2 DEF KeysSeen, tickVars
<1> QED BY <1>3, <1>4, <1>5 DEF LocalInputInv

\* What the engine and the network client do to the player between frames.
PlayerEvent ==
  CreateEntity \/ ResetEvent \/ ServerIsFull \/ StartArrives

\* What else happens between frames.
LEMMA EventInv ==
  ASSUME LocalInputInv, MoveMouse \/ Revive \/ UpdateEvent \/ PlayerEvent
  PROVE  LocalInputInv'
<1>1. TypeOK /\ TicksFollowClock /\ MouseKept /\ Waiting /\ KeysSeen
  BY DEF LocalInputInv
<1>2. UNCHANGED tickVars /\ sent' = sent /\ seen' = seen
  BY DEF MoveMouse, Revive, CreateEntity, ResetEvent, ServerIsFull, StartArrives,
         UpdateEvent, PlayerEvent, keyVars, mouseVars
<1>3. TicksFollowClock'
  BY <1>1, <1>2 DEF TicksFollowClock, Playing, tickVars
<1>4. CASE MoveMouse
  <2>1. /\ UNCHANGED <<keyVars, lifeVars, startVars, sent, lost, disturbed>>
        /\ m_mouseDeltaRotation' = m_mouseDeltaRotation + MouseStep
        /\ moved' = moved + MouseStep
    BY <1>4 DEF MoveMouse
  <2>2. TypeOK'
    BY <1>1, <1>2, <2>1, Durations DEF TypeOK, keyVars, lifeVars, startVars, tickVars
  <2>3. MouseKept'
    <3>1. /\ clock.mouse \in Nat /\ sent.mouse \in Nat /\ sent.rounded \in Nat
          /\ moved \in Nat /\ m_mouseDeltaRotation \in Nat /\ lost \in Nat
      BY <1>1 DEF TypeOK
    <3> QED BY <1>1, <1>2, <2>1, <3>1, Durations DEF MouseKept, tickVars
  <2>4. Waiting' /\ KeysSeen'
    BY <1>1, <1>2, <2>1 DEF Waiting, KeysSeen, keyVars, startVars, tickVars
  <2> QED BY <1>3, <2>2, <2>3, <2>4 DEF LocalInputInv
<1>5. CASE Revive
  <2>1. /\ UNCHANGED <<held, hasEntity, startVars, moved, sent, seen>>
        /\ m_isAlive' = TRUE /\ m_inputFlags' = {} /\ m_mouseDeltaRotation' = 0
        /\ IF m_rollbackInitialised
           THEN lost' = lost + m_mouseDeltaRotation /\ disturbed' = TRUE
           ELSE UNCHANGED <<lost, disturbed>>
    BY <1>5 DEF Revive
  <2>2. /\ clock.mouse \in Nat /\ sent.mouse \in Nat /\ sent.rounded \in Nat
        /\ moved \in Nat /\ m_mouseDeltaRotation \in Nat /\ lost \in Nat
    BY <1>1 DEF TypeOK
  <2>3. TypeOK'
    <3>1. lost' \in Nat /\ disturbed' \in BOOLEAN
      <4>1. disturbed \in BOOLEAN
        BY <1>1 DEF TypeOK
      <4>2. CASE m_rollbackInitialised
        BY <2>1, <2>2, <4>2
      <4>3. CASE ~m_rollbackInitialised
        BY <2>1, <2>2, <4>1, <4>3, Zenon
      <4> QED BY <4>2, <4>3
    <3> QED BY <1>1, <1>2, <2>1, <3>1 DEF TypeOK, startVars, tickVars
  <2>4. MouseKept'
    BY <1>1, <1>2, <2>1, <2>2 DEF MouseKept, tickVars
  <2>5. Waiting' /\ KeysSeen'
    BY <1>1, <1>2, <2>1 DEF Waiting, KeysSeen, startVars, tickVars
  <2> QED BY <1>3, <2>3, <2>4, <2>5 DEF LocalInputInv
<1>6. CASE PlayerEvent
  <2>1. /\ UNCHANGED <<keyVars, mouseVars>>
        /\ startTime' \in {startTime, Start} /\ hasNumber' \in {hasNumber, FALSE}
        /\ hasEntity' \in {hasEntity, TRUE} /\ m_isAlive' \in {m_isAlive} \cup BOOLEAN
    BY <1>6 DEF PlayerEvent, CreateEntity, ResetEvent, ServerIsFull, StartArrives,
                lifeVars, startVars
  <2>2. TypeOK'
    BY <1>1, <1>2, <2>1 DEF TypeOK, keyVars, tickVars, mouseVars
  <2>3. MouseKept' /\ Waiting' /\ KeysSeen'
    BY <1>1, <1>2, <2>1 DEF MouseKept, Waiting, KeysSeen, keyVars, tickVars, mouseVars
  <2> QED BY <1>3, <2>2, <2>3 DEF LocalInputInv
<1>7. CASE UpdateEvent
  <2>1. /\ UNCHANGED <<keyVars, lifeVars, startVars, moved, sent, lost, disturbed>>
        /\ ~m_rollbackInitialised /\ m_mouseDeltaRotation' = 0
    BY <1>7 DEF UpdateEvent
  <2>2. TypeOK'
    BY <1>1, <1>2, <2>1 DEF TypeOK, keyVars, lifeVars, startVars, tickVars
  <2>3. MouseKept' /\ Waiting' /\ KeysSeen'
    BY <1>1, <1>2, <2>1 DEF MouseKept, Waiting, KeysSeen, keyVars, startVars, tickVars
  <2> QED BY <1>3, <2>2, <2>3 DEF LocalInputInv
<1> QED BY <1>4, <1>5, <1>6, <1>7

\* The rollback begins: from now on the last update was at the start time.
LEMMA TryInitialiseRollbackInv ==
  ASSUME LocalInputInv, NEW d \in 0 .. MaxFrame, MainUpdate(d), ~m_rollbackInitialised
  PROVE  /\ LocalInputInv'
         /\ clock' = clock
<1>1. TypeOK /\ MouseKept /\ Waiting /\ KeysSeen
  BY DEF LocalInputInv
<1>2. /\ now' \in 0 .. MaxTime
      /\ TryInitialiseRollback
      /\ UNCHANGED <<m_mouseDeltaRotation, clock, made, sent, lost, skipped, disturbed,
                     seen, sampled, held, m_inputFlags, lifeVars, startVars>>
  BY <1>1, Durations DEF MainUpdate, TypeOK
<1>3. /\ m_lastUpdateTime' \in {Start} \cup Leftovers
      /\ m_rollbackInitialised' =>
           began' = m_lastUpdateTime' /\ m_lastUpdateTime' # 0
      /\ began' \in {0, Start} \cup Leftovers
      /\ m_rollbackInitialised' \in BOOLEAN /\ moved' \in Nat
      /\ m_rollbackInitialised' => moved' = m_mouseDeltaRotation
  BY <1>1, <1>2 DEF TryInitialiseRollback, MustWait, Waiting, TypeOK
<1>4. /\ clock.tickNum = 0 /\ clock.remaining = 0 /\ clock.mouse = 0 /\ made.count = 0
      /\ skipped = 0 /\ sent.mouse = 0 /\ sent.rounded = 0 /\ lost = 0 /\ ~disturbed
  BY <1>1 DEF Waiting, NewClock, NoTicks
<1>5. TypeOK'
  BY <1>1, <1>2, <1>3, Durations DEF TypeOK, lifeVars, startVars
<1>6. Waiting' /\ KeysSeen'
  BY <1>1, <1>2, <1>3 DEF Waiting, KeysSeen, startVars
<1>7. TicksFollowClock'
  <2> SUFFICES ASSUME m_rollbackInitialised' PROVE TicksFollowClock'
    BY DEF TicksFollowClock, Playing
  <2>1. began' = m_lastUpdateTime' /\ m_lastUpdateTime' # 0
    BY <1>3, Zenon
  <2>2. m_lastUpdateTime' \in Nat /\ began' \in {Start} \cup (Leftovers \ {0})
    BY <1>3, <2>1, Durations
  <2>3. m_lastUpdateTime' - began' = 0
    <3>1. \A a \in Nat : a - a = 0
      OBVIOUS
    <3> QED BY <2>1, <2>2, <3>1, Zenon
  <2>4. /\ clock'.tickNum = 0 /\ clock'.remaining = 0 /\ made'.count = 0 /\ skipped' = 0
    BY <1>2, <1>4
  <2>5. TickDuration * 0 + 0 + 0 = 0 /\ 0 <= MaxTicks /\ 0 < TickDuration /\ ~(0 > 0)
    BY Durations
  <2>6. /\ made'.count <= MaxTicks
        /\ m_lastUpdateTime' - began'
             = TickDuration * clock'.tickNum + clock'.remaining + skipped'
        /\ clock'.remaining < TickDuration
        /\ skipped' > 0 => skipped' > TickDuration * MaxTicks
    BY <2>3, <2>4, <2>5, Zenon
  <2> QED BY <2>2, <2>6, Zenon DEF TicksFollowClock
<1>8. MouseKept'
  <2>1. m_mouseDeltaRotation \in Nat
    BY <1>1 DEF TypeOK
  <2> QED BY <1>2, <1>3, <1>4, <2>1 DEF MouseKept
<1> QED BY <1>2, <1>5, <1>6, <1>7, <1>8 DEF LocalInputInv

\* A frame of the rollback.
LEMMA PlayFrameInv ==
  ASSUME LocalInputInv, NEW d \in 0 .. MaxFrame, MainUpdate(d), m_rollbackInitialised
  PROVE  /\ LocalInputInv'
         /\ clock'.tickNum # clock.tickNum => KeysOfTicks
<1> DEFINE frameTime == now' - m_lastUpdateTime
           input == [mouse |-> m_mouseDeltaRotation, actions |-> m_inputFlags]
           next  == Advanced(clock, frameTime, input)
<1>1. TypeOK /\ TicksFollowClock /\ MouseKept /\ KeysSeen
  BY DEF LocalInputInv
<1>2. /\ now' \in 0 .. MaxTime
      /\ UNCHANGED <<m_rollbackInitialised, began, moved, held, m_inputFlags, lifeVars,
                     startVars>>
      /\ m_lastUpdateTime > now' =>
           UNCHANGED <<m_lastUpdateTime, clock, made, skipped, mouseVars, seen, sampled>>
      /\ ~(m_lastUpdateTime > now') => m_lastUpdateTime' = now' /\ PlayFrame(frameTime)
  <2>1. now' \in 0 .. MaxTime
    BY <1>1, Durations DEF MainUpdate, TypeOK
  <2>2. /\ UNCHANGED <<held, m_inputFlags, lifeVars, startVars>>
        /\ \/ /\ m_lastUpdateTime > now'
              /\ UNCHANGED <<m_rollbackInitialised, m_lastUpdateTime, began, clock, made,
                             skipped, mouseVars, seen, sampled>>
           \/ /\ m_lastUpdateTime <= now'
              /\ m_lastUpdateTime' = now'
              /\ PlayFrame(frameTime)
              /\ UNCHANGED <<m_rollbackInitialised, began, moved>>
    BY Zenon DEF MainUpdate
  <2>3. m_lastUpdateTime <= now' <=> ~(m_lastUpdateTime > now')
    BY <1>1, <2>1, Durations DEF TypeOK
  <2> QED BY <2>1, <2>2, <2>3, Zenon DEF mouseVars
<1>3. /\ clock \in [tickNum : Nat, remaining : Nat, mouse : Nat, actions : SUBSET Keys]
      /\ clock.tickNum \in Nat /\ clock.remaining \in Nat /\ clock.mouse \in Nat
      /\ made \in [count : Nat, mouse : Nat, actions : SUBSET Keys, rounded : Nat]
      /\ made.count \in Nat /\ skipped \in Nat /\ moved \in Nat /\ lost \in Nat
      /\ m_mouseDeltaRotation \in Nat /\ m_inputFlags \in SUBSET Keys
      /\ sent \in [mouse : Nat, rounded : Nat] /\ sent.mouse \in Nat /\ sent.rounded \in Nat
      /\ m_lastUpdateTime \in Nat /\ began \in Nat /\ now \in Nat
  BY <1>1, Durations DEF TypeOK
<1>4. Waiting'
  BY <1>2 DEF Waiting
<1>5. TickDuration * MaxTicks \in Nat /\ TickDuration * clock.tickNum \in Nat
  BY <1>3, Durations
<1>6. CASE m_lastUpdateTime > now'
  <2>1. UNCHANGED <<m_lastUpdateTime, clock, made, skipped, mouseVars, seen, sampled>>
    BY <1>2, <1>6
  <2>2. TypeOK' /\ TicksFollowClock' /\ MouseKept' /\ KeysSeen'
    BY <1>1, <1>2, <2>1 DEF TypeOK, TicksFollowClock, Playing, MouseKept, KeysSeen,
                            lifeVars, startVars, mouseVars
  <2> QED BY <1>4, <2>1, <2>2 DEF LocalInputInv
<1>7. CASE ~(m_lastUpdateTime > now')
  <2>1. m_lastUpdateTime' = now' /\ PlayFrame(frameTime)
    BY <1>2, <1>7
  <2>2. frameTime \in Nat /\ now' \in Nat /\ now' = m_lastUpdateTime + frameTime
    <3>1. now' \in Nat
      BY <1>2, Durations
    <3>2. m_lastUpdateTime \in Nat
      BY <1>3
    <3>3. \A a, b \in Nat : ~(a > b) => b - a \in Nat /\ b = a + (b - a)
      OBVIOUS
    <3> QED BY <1>7, <3>1, <3>2, <3>3
  <2>3. m_mouseDeltaRotation' = 0
    BY <2>1 DEF PlayFrame, MouseTaken
  <2> HIDE DEF frameTime
  <2>4. CASE Refused(clock, frameTime)
    <3>1. /\ skipped' = skipped + frameTime /\ disturbed' = TRUE
          /\ lost' = lost + m_mouseDeltaRotation
          /\ UNCHANGED <<clock, made, sent, seen, sampled>>
      BY <2>1, <2>4 DEF PlayFrame
    <3>2. TypeOK'
      BY <1>1, <1>2, <1>3, <2>1, <2>2, <2>3, <3>1 DEF TypeOK, lifeVars, startVars
    <3>3. MouseKept' /\ KeysSeen'
      BY <1>1, <1>2, <1>3, <2>3, <3>1 DEF MouseKept, KeysSeen
    <3>4. TicksFollowClock'
      <4> SUFFICES ASSUME clock.tickNum <= GameDuration PROVE TicksFollowClock'
        BY <3>1 DEF TicksFollowClock, Playing
      <4>1. /\ made.count <= MaxTicks
            /\ m_lastUpdateTime - began
                 = TickDuration * clock.tickNum + clock.remaining + skipped
            /\ clock.remaining < TickDuration
            /\ skipped > 0 => skipped > TickDuration * MaxTicks
            /\ began \in {Start} \cup (Leftovers \ {0})
        BY <1>1 DEF TicksFollowClock, Playing
      <4>2. frameTime > TickDuration * MaxTicks \/ frameTime = 0
        BY <1>3, <2>2, <2>4, Durations DEF Refused
      <4>3. now' - began = TickDuration * clock.tickNum + clock.remaining + (skipped + frameTime)
        BY <1>3, <1>5, <2>2, <4>1, Durations
      <4>4. skipped + frameTime > 0 => skipped + frameTime > TickDuration * MaxTicks
        BY <1>3, <1>5, <2>2, <4>1, <4>2
      <4> QED BY <1>2, <2>1, <3>1, <4>1, <4>3, <4>4 DEF TicksFollowClock
    <3> QED BY <1>4, <3>1, <3>2, <3>3, <3>4 DEF LocalInputInv
  <2>5. CASE ~Refused(clock, frameTime)
    <3> DEFINE n == made'.count
               m == made'.mouse
    <3>1. /\ clock' = next.clock /\ made' = next.made
          /\ sent' = [mouse |-> sent.mouse + n * m, rounded |-> sent.rounded + made'.rounded]
          /\ seen' = IF n > 0 THEN m_inputFlags ELSE seen
          /\ sampled' = IF n > 0 THEN {} ELSE sampled \cup m_inputFlags
          /\ UNCHANGED <<skipped, lost, disturbed>>
      BY <2>1, <2>5 DEF PlayFrame
    <3>2. clock.tickNum <= GameDuration
      BY <1>3, <2>5, Durations DEF Refused
    <3>3. /\ made.count <= MaxTicks
          /\ m_lastUpdateTime - began
               = TickDuration * clock.tickNum + clock.remaining + skipped
          /\ clock.remaining < TickDuration
          /\ skipped > 0 => skipped > TickDuration * MaxTicks
          /\ began \in {Start} \cup (Leftovers \ {0})
      BY <1>1, <3>2 DEF TicksFollowClock, Playing
    <3>4. /\ clock' \in [tickNum : Nat, remaining : Nat, mouse : Nat, actions : SUBSET Keys]
          /\ made' \in [count : Nat, mouse : Nat, actions : SUBSET Keys, rounded : Nat]
          /\ clock'.tickNum = clock.tickNum + n
          /\ clock.remaining + frameTime = TickDuration * n + clock'.remaining
          /\ clock'.remaining < TickDuration
          /\ n <= MaxTicks
          /\ clock.mouse + m_mouseDeltaRotation = clock'.mouse + n * m + made'.rounded
          /\ made'.rounded <= n
          /\ n = 0 => clock'.actions = clock.actions \cup m_inputFlags
          /\ n > 0 => /\ clock'.actions = {}
                      /\ made'.actions = clock.actions \cup m_inputFlags
      <4>1. FrameMade(clock, frameTime, m_mouseDeltaRotation, m_inputFlags, clock', made')
        BY <1>3, <2>2, <2>5, <3>1, <3>3, AdvancedFrame
      <4> QED BY <4>1 DEF FrameMade
    <3>5. /\ n \in Nat /\ m \in Nat /\ made'.rounded \in Nat
          /\ clock'.tickNum \in Nat /\ clock'.remaining \in Nat /\ clock'.mouse \in Nat
      BY <3>4
    <3> HIDE DEF n, m
    <3>6. n * m \in Nat /\ TickDuration * n \in Nat /\ TickDuration * clock'.tickNum \in Nat
      BY <3>5, Durations
    <3>7. TypeOK'
      <4>1. sent' \in [mouse : Nat, rounded : Nat]
        BY <1>3, <3>1, <3>5, <3>6
      <4>2. seen' \in SUBSET Keys /\ sampled' \in SUBSET Keys
        BY <1>1, <1>3, <3>1 DEF TypeOK
      <4> QED BY <1>1, <1>2, <2>1, <2>3, <3>1, <3>4, <4>1, <4>2 DEF TypeOK, lifeVars, startVars
    <3>8. TicksFollowClock'
      <4>1. TickDuration * clock'.tickNum = TickDuration * clock.tickNum + TickDuration * n
        BY <1>3, <3>4, <3>5, Durations
      <4>2. now' - began = TickDuration * clock'.tickNum + clock'.remaining + skipped
        BY <1>3, <1>5, <2>2, <3>3, <3>4, <3>5, <3>6, <4>1, Durations
      <4> QED BY <1>2, <2>1, <3>1, <3>3, <3>4, <4>2 DEF TicksFollowClock, n
    <3>9. MouseKept'
      <4>1. sent'.mouse = sent.mouse + n * m /\ sent'.rounded = sent.rounded + made'.rounded
        BY <3>1
      <4>2. /\ sent.rounded <= clock.tickNum
            /\ moved = m_mouseDeltaRotation + clock.mouse + sent.mouse + sent.rounded + lost
            /\ ~disturbed => lost = 0
        BY <1>1 DEF MouseKept
      <4>3. sent'.rounded <= clock'.tickNum
        BY <1>3, <3>4, <3>5, <4>1, <4>2
      <4>4. moved = 0 + clock'.mouse + sent'.mouse + sent'.rounded + lost
        BY <1>3, <3>4, <3>5, <3>6, <4>1, <4>2
      <4> QED BY <1>2, <2>3, <3>1, <4>2, <4>3, <4>4 DEF MouseKept
    <3>10. KeysSeen'
      <4>1. m_inputFlags' = m_inputFlags
        BY <1>2
      <4>2. CASE n = 0
        BY <1>1, <3>1, <3>4, <4>1, <4>2 DEF KeysSeen
      <4>3. CASE n > 0
        BY <3>1, <3>4, <4>1, <4>3 DEF KeysSeen
      <4> QED BY <3>5, <4>2, <4>3
    <3>11. clock'.tickNum # clock.tickNum => KeysOfTicks
      <4> SUFFICES ASSUME n > 0 PROVE KeysOfTicks
        BY <1>3, <3>4, <3>5
      <4> QED BY <1>1, <3>4 DEF KeysSeen, KeysOfTicks
    <3> QED BY <1>4, <3>7, <3>8, <3>9, <3>10, <3>11 DEF LocalInputInv
  <2> QED BY <2>4, <2>5
<1> QED BY <1>6, <1>7

\* Every step keeps the invariant, and ticks are made with the keys of their time.
LEMMA NextInv ==
  ASSUME LocalInputInv, [Next]_vars
  PROVE  /\ LocalInputInv'
         /\ clock'.tickNum # clock.tickNum => KeysOfTicks
<1>1. ASSUME NEW key \in Keys, PressOrHold(key) \/ Release(key)
      PROVE  LocalInputInv' /\ clock' = clock
  <2>1. clock' = clock
    BY <1>1 DEF PressOrHold, Release, tickVars
  <2> QED BY <1>1, <2>1, KeyInv
<1>2. ASSUME MoveMouse \/ Revive \/ UpdateEvent \/ PlayerEvent
      PROVE  LocalInputInv' /\ clock' = clock
  <2>1. clock' = clock
    BY <1>2 DEF MoveMouse, Revive, UpdateEvent, PlayerEvent, CreateEntity, ResetEvent,
                ServerIsFull, StartArrives, tickVars
  <2> QED BY <1>2, <2>1, EventInv
<1>3. ASSUME NEW d \in 0 .. MaxFrame, MainUpdate(d)
      PROVE  /\ LocalInputInv'
             /\ clock'.tickNum # clock.tickNum => KeysOfTicks
  <2>1. CASE m_rollbackInitialised
    BY <1>3, <2>1, PlayFrameInv
  <2>2. CASE ~m_rollbackInitialised
    BY <1>3, <2>2, TryInitialiseRollbackInv
  <2> QED BY <2>1, <2>2
<1>4. CASE UNCHANGED vars
  <2>1. /\ UNCHANGED <<held, m_inputFlags, hasEntity, m_isAlive, startTime, hasNumber>>
        /\ UNCHANGED <<m_rollbackInitialised, now, m_lastUpdateTime, clock, made, began>>
        /\ UNCHANGED <<skipped, disturbed, m_mouseDeltaRotation, moved, sent, lost, seen,
                       sampled>>
    BY <1>4 DEF vars, keyVars, lifeVars, startVars, tickVars, mouseVars
  <2>2. TypeOK' <=> TypeOK
    BY <2>1 DEF TypeOK
  <2>3. /\ TicksFollowClock' <=> TicksFollowClock
        /\ MouseKept' <=> MouseKept
        /\ Waiting' <=> Waiting
        /\ KeysSeen' <=> KeysSeen
    BY <2>1 DEF TicksFollowClock, Playing, MouseKept, Waiting, KeysSeen
  <2> QED BY <2>1, <2>2, <2>3 DEF LocalInputInv
<1> QED BY <1>1, <1>2, <1>3, <1>4 DEF Next, PlayerEvent

-----------------------------------------------------------------------------
(* The theorems.                                                           *)

\* The inductive invariant: the clock, the mouse and the keys, and what holds of
\* CGamePlugin before and after the rollback begins.
THEOREM LocalInputInvariant == Spec => []LocalInputInv
<1>1. Init => LocalInputInv
  BY InitInv
<1>2. LocalInputInv /\ [Next]_vars => LocalInputInv'
  BY NextInv
<1> QED BY <1>1, <1>2, PTL DEF Spec

\* Every variable of input and time keeps its type.
THEOREM TypeSafe == Spec => []TypeOK
<1>1. LocalInputInv => TypeOK
  BY DEF LocalInputInv
<1> QED BY <1>1, LocalInputInvariant, PTL

\* CGameStateManager::Update makes the ticks of the time that has passed since the
\* start, less the frames that it refused, and never more at once than the ring
\* holds.
THEOREM ClockFollowed == Spec => []TicksFollowClock
<1>1. LocalInputInv => TicksFollowClock
  BY DEF LocalInputInv
<1> QED BY <1>1, LocalInputInvariant, PTL

\* All mouse movement since the rollback began, in whatever frames, is in a tick, in
\* an accumulator, or accounted for as lost, and nothing is counted twice; it is lost
\* only in rounding, less than a unit a tick, in frames that Update refuses, and when
\* the player is revived.
THEOREM MouseConserved == Spec => []MouseKept
<1>1. LocalInputInv => MouseKept
  BY DEF LocalInputInv
<1> QED BY <1>1, LocalInputInvariant, PTL

\* The ticks of a frame have exactly the keys that were set when one of the frames
\* since the tick before was sampled, except for frames that Update refused.
THEOREM KeysKept == Spec => KeysTrue
<1>1. LocalInputInv /\ [Next]_vars =>
        [clock'.tickNum # clock.tickNum => KeysOfTicks]_vars
  BY NextInv
<1> QED BY <1>1, LocalInputInvariant, PTL DEF Spec, KeysTrue

-----------------------------------------------------------------------------
(* CSimulation along one axis.                                             *)

\* Induction up to a number.
LEMMA Induction ==
  ASSUME NEW n \in Nat, NEW S, 0 \in S, \A i \in 0 .. n - 1 : i \in S => i + 1 \in S
  PROVE  n \in S
<1> DEFINE T == {i \in 0 .. n : i \notin S}
<1> SUFFICES ASSUME n \notin S PROVE FALSE
  OBVIOUS
<1>1. T \subseteq Nat /\ T # {}
  OBVIOUS
<1>2. PICK m \in T : \A i \in T : <<i, m>> \notin OpToRel(<, Nat)
  <2> HIDE DEF T
  <2> QED BY <1>1, NatLessThanWellFounded, WFMin
<1>3. \A i \in T : ~(i < m)
  BY <1>1, <1>2 DEF OpToRel
<1>4. m # 0 /\ m - 1 \in 0 .. n - 1 /\ m - 1 + 1 = m
  BY <1>3
<1>5. m - 1 \in S
  BY <1>3, <1>4
<1> QED BY <1>3, <1>4, <1>5

MotionState == [position : Int, velocity : -MaxVelocity .. MaxVelocity]

\* The path of a player without keys is a function: its equation has a solution.
LEMMA BrakingPath ==
  ASSUME NEW dt \in Nat, NEW start \in MotionState, NEW n \in Nat
  PROVE  \E path : \A i \in 0 .. n : path[i] = IF i = 0 THEN start
                                               ELSE SimulationNext(dt, path[i - 1], {})
<1> DEFINE Step(s) == SimulationNext(dt, s, {})
           S == {k \in Nat : \E f : f = [i \in 0 .. k |-> IF i = 0 THEN start
                                                        ELSE Step(f[i - 1])]}
<1> HIDE DEF Step
<1>1. 0 \in S
  <2> DEFINE f == [i \in 0 .. 0 |-> start]
  <2>1. f = [i \in 0 .. 0 |-> IF i = 0 THEN start ELSE Step(f[i - 1])]
    OBVIOUS
  <2> QED BY <2>1
<1>2. ASSUME NEW k \in 0 .. n - 1, k \in S
      PROVE  k + 1 \in S
  <2>1. PICK f : f = [i \in 0 .. k |-> IF i = 0 THEN start ELSE Step(f[i - 1])]
    BY <1>2
  <2> DEFINE g == [i \in 0 .. k + 1 |-> IF i = k + 1 THEN Step(f[k]) ELSE f[i]]
  <2>2. \A i \in 0 .. k + 1 : g[i] = IF i = 0 THEN start ELSE Step(g[i - 1])
    BY <2>1
  <2>3. g = [i \in 0 .. k + 1 |-> IF i = 0 THEN start ELSE Step(g[i - 1])]
    BY <2>2
  <2> HIDE DEF g
  <2>4. \E h : h = [i \in 0 .. k + 1 |-> IF i = 0 THEN start ELSE Step(h[i - 1])]
    BY <2>3
  <2> QED BY <2>4
<1>3. n \in S
  <2> HIDE DEF S
  <2> QED BY <1>1, <1>2, Induction
<1>4. PICK f : f = [i \in 0 .. n |-> IF i = 0 THEN start ELSE Step(f[i - 1])]
  BY <1>3
<1>5. \A i \in 0 .. n : f[i] = IF i = 0 THEN start ELSE Step(f[i - 1])
  BY <1>4
<1> HIDE DEF S
<1> QED BY <1>5 DEF Step

\* One step of braking: by as much as Acceleration allows, but not through rest.
LEMMA BrakingStep ==
  ASSUME NEW dt \in Nat, NEW s \in MotionState
  PROVE  LET c == Acceleration * dt
             t == SimulationNext(dt, s, {})
         IN  /\ t \in MotionState
             /\ s.velocity <= c /\ -c <= s.velocity => t.velocity = 0 /\ t.position = s.position
             /\ s.velocity > c  => /\ t.velocity = s.velocity - c
                                   /\ t.position = s.position + t.velocity * dt
             /\ s.velocity < -c => /\ t.velocity = s.velocity + c
                                   /\ t.position = s.position + t.velocity * dt
<1> DEFINE c == Acceleration * dt
           v == s.velocity
           t == SimulationNext(dt, s, {})
           u == Clamped(v + (-Sign(v)) * Acceleration * dt, -MaxVelocity, MaxVelocity)
<1>1. /\ c \in Nat /\ v \in Int /\ MaxVelocity \in Nat /\ -MaxVelocity <= v /\ v <= MaxVelocity
      /\ s.position \in Int /\ s = [position |-> s.position, velocity |-> v]
  BY MotionAssumption DEF MotionState
<1>2. BrakesToRest(dt, v) <=> v <= c /\ -c <= v
  <2> HIDE DEF c, v
  <2>1. BrakesToRest(dt, v) <=> Abs(v) <= c
    BY DEF BrakesToRest, c
  <2> QED BY <1>1, <2>1 DEF Abs
<1>3. t = IF BrakesToRest(dt, v) THEN [s EXCEPT !.velocity = 0]
          ELSE [position |-> s.position + u * dt, velocity |-> u]
  BY DEF SimulationNext
<1>4. CASE v <= c /\ -c <= v
  <2>1. t = [s EXCEPT !.velocity = 0]
    BY <1>2, <1>3, <1>4
  <2>2. t = [position |-> s.position, velocity |-> 0]
    BY <1>1, <2>1
  <2> HIDE DEF c, v, t
  <2> QED BY <1>1, <1>4, <2>2 DEF MotionState, c, v, t
<1>5. CASE v > c
  <2>1. (-Sign(v)) * Acceleration * dt = -c
    <3>1. Sign(v) = 1
      BY <1>1, <1>5 DEF Sign
    <3> QED BY <3>1, MotionAssumption
  <2>2. Clamped(v - c, -MaxVelocity, MaxVelocity) = v - c
    <3> HIDE DEF c, v
    <3> QED BY <1>1, <1>5 DEF Clamped
  <2>3. v + (-Sign(v)) * Acceleration * dt = v - c
    <3> DEFINE p == (-Sign(v)) * Acceleration * dt
    <3>1. p = -c
      BY <2>1
    <3> HIDE DEF c, v, p
    <3>2. v + p = v - c
      BY <1>1, <3>1
    <3> QED BY <3>2 DEF p
  <2>4. t = [position |-> s.position + (v - c) * dt, velocity |-> v - c]
    <3>1. u = v - c
      BY <2>2, <2>3
    <3>2. ~BrakesToRest(dt, v)
      BY <1>1, <1>2, <1>5
    <3> HIDE DEF c, v, t, u
    <3> QED BY <1>3, <3>1, <3>2
  <2> HIDE DEF c, v, t
  <2> QED BY <1>1, <1>5, <2>4 DEF MotionState, c, v, t
<1>6. CASE v < -c
  <2>1. (-Sign(v)) * Acceleration * dt = c
    <3>1. Sign(v) = -1
      BY <1>1, <1>6 DEF Sign
    <3> QED BY <3>1, MotionAssumption
  <2>2. Clamped(v + c, -MaxVelocity, MaxVelocity) = v + c
    <3> HIDE DEF c, v
    <3> QED BY <1>1, <1>6 DEF Clamped
  <2>3. v + (-Sign(v)) * Acceleration * dt = v + c
    <3> DEFINE p == (-Sign(v)) * Acceleration * dt
    <3>1. p = c
      BY <2>1
    <3> HIDE DEF c, v, p
    <3>2. v + p = v + c
      BY <1>1, <3>1
    <3> QED BY <3>2 DEF p
  <2>4. t = [position |-> s.position + (v + c) * dt, velocity |-> v + c]
    <3>1. u = v + c
      BY <2>2, <2>3
    <3>2. ~BrakesToRest(dt, v)
      BY <1>1, <1>2, <1>6
    <3> HIDE DEF c, v, t, u
    <3> QED BY <1>3, <3>1, <3>2
  <2> HIDE DEF c, v, t
  <2> QED BY <1>1, <1>6, <2>4 DEF MotionState, c, v, t
<1> QED
  <2> HIDE DEF c, v
  <2> QED BY <1>1, <1>4, <1>5, <1>6 DEF c, v

\* The velocity after i steps of braking from v.
Braked(v, c, i) == IF v > i * c THEN v - i * c ELSE IF v < -(i * c) THEN v + i * c ELSE 0

\* Each step of the path is a step of braking.
LEMMA BrakedStep ==
  ASSUME NEW v \in Int, NEW c \in Nat, NEW i \in Nat
  PROVE  LET b == Braked(v, c, i)
         IN  /\ b \in Int /\ (v >= 0 => b >= 0) /\ (v <= 0 => b <= 0)
             /\ Braked(v, c, i + 1) = IF b > c THEN b - c ELSE IF b < -c THEN b + c ELSE 0
<1> DEFINE k == i * c
<1>1. k \in Nat /\ (i + 1) * c = k + c
  OBVIOUS
<1>2. Braked(v, c, i) = IF v > k THEN v - k ELSE IF v < -k THEN v + k ELSE 0
  BY DEF Braked
<1>3. Braked(v, c, i + 1) = IF v > k + c THEN v - (k + c)
                            ELSE IF v < -(k + c) THEN v + (k + c) ELSE 0
  BY <1>1 DEF Braked
<1> HIDE DEF k
<1> QED BY <1>1, <1>2, <1>3

\* No action makes a player faster than MaxVelocity.
LEMMA VelocityBound ==
  ASSUME NEW dt \in Nat, NEW v \in Int, NEW actions
  PROVE  Abs(SimulationNext(dt, [position |-> 0, velocity |-> v], actions).velocity) <= MaxVelocity
<1> DEFINE s == [position |-> 0, velocity |-> v]
           d == IF actions = {} THEN -Sign(v) ELSE Direction(actions)
           u == Clamped(v + d * Acceleration * dt, -MaxVelocity, MaxVelocity)
<1>1. /\ SimulationNext(dt, s, actions) =
           IF actions = {} /\ BrakesToRest(dt, v) THEN [s EXCEPT !.velocity = 0]
           ELSE [position |-> 0 + u * dt, velocity |-> u]
      /\ [s EXCEPT !.velocity = 0] = [position |-> 0, velocity |-> 0]
  BY DEF SimulationNext
<1>2. d * Acceleration * dt \in Int
  <2>1. d \in Int
    BY DEF Sign, Direction
  <2> HIDE DEF d
  <2> QED BY <2>1, MotionAssumption
<1>3. u \in -MaxVelocity .. MaxVelocity
  <2> DEFINE x == v + d * Acceleration * dt
  <2>1. x \in Int
    BY <1>2
  <2> HIDE DEF x
  <2>2. Clamped(x, -MaxVelocity, MaxVelocity) \in -MaxVelocity .. MaxVelocity
    BY <2>1, MotionAssumption DEF Clamped
  <2> QED BY <2>2 DEF x
<1>4. SimulationNext(dt, s, actions).velocity \in {0, u}
  <2> HIDE DEF s, u
  <2> QED BY <1>1
<1> HIDE DEF s, u
<1> QED BY <1>3, <1>4, MotionAssumption DEF Abs, s

\* A player without keys comes to rest, on the way he came (CSimulation::Next).
LEMMA RestInTime == ComesToRest
<1> SUFFICES ASSUME NEW velocity \in -MaxVelocity .. MaxVelocity, NEW dt \in 1 .. MaxVelocity
             PROVE  LET steps == MaxVelocity \div (Acceleration * dt) + 1
                        path[i \in 0 .. steps] ==
                          IF i = 0 THEN [position |-> 0, velocity |-> velocity]
                          ELSE SimulationNext(dt, path[i - 1], {})
                    IN  /\ path[steps].velocity = 0
                        /\ \A i \in 1 .. steps :
                             (path[i].position - path[i - 1].position) * Sign(velocity) >= 0
                        /\ \A actions \in SUBSET Actions :
                             Abs(SimulationNext(dt, path[0], actions).velocity) <= MaxVelocity
  BY DEF ComesToRest
<1> DEFINE c     == Acceleration * dt
           steps == MaxVelocity \div (Acceleration * dt) + 1
           origin == [position |-> 0, velocity |-> velocity]
           path[i \in 0 .. steps] == IF i = 0 THEN origin
                                     ELSE SimulationNext(dt, path[i - 1], {})
<1>1. /\ MaxVelocity \in Nat /\ velocity \in Int /\ dt \in Nat /\ dt > 0 /\ c \in Nat \ {0}
      /\ -MaxVelocity <= velocity /\ velocity <= MaxVelocity
  BY MotionAssumption
<1>2. steps \in Nat /\ steps * c > MaxVelocity
  <2> DEFINE q == MaxVelocity \div c
  <2> HIDE DEF c
  <2>1. q \in Nat /\ MaxVelocity = c * q + (MaxVelocity % c) /\ MaxVelocity % c \in 0 .. c - 1
    BY <1>1, Division
  <2>2. (q + 1) * c = c * q + c /\ c * q \in Nat
    BY <1>1, <2>1
  <2> HIDE DEF q
  <2>3. q + 1 \in Nat /\ (q + 1) * c > MaxVelocity
    BY <1>1, <2>1, <2>2
  <2> QED BY <2>3 DEF q, c
<1> HIDE DEF steps
<1>3. path[0] = origin /\ \A i \in 0 .. steps - 1 : path[i + 1] = SimulationNext(dt, path[i], {})
  <2>1. origin \in MotionState
    BY <1>1 DEF MotionState
  <2> HIDE DEF origin
  <2>2. PICK p : \A i \in 0 .. steps : p[i] = IF i = 0 THEN origin
                                              ELSE SimulationNext(dt, p[i - 1], {})
    BY <1>1, <1>2, <2>1, BrakingPath
  <2> DEFINE f == [i \in 0 .. steps |-> p[i]]
  <2>3. \A i \in 0 .. steps : i # 0 => i - 1 \in 0 .. steps
    BY <1>2
  <2>4. f = [i \in 0 .. steps |-> IF i = 0 THEN origin ELSE SimulationNext(dt, f[i - 1], {})]
    BY <2>2, <2>3
  <2> HIDE DEF f
  <2>5. path = [i \in 0 .. steps |-> IF i = 0 THEN origin
                                     ELSE SimulationNext(dt, path[i - 1], {})]
    BY <2>4 DEF path
  <2> HIDE DEF path
  <2> QED BY <1>2, <2>3, <2>5
<1> HIDE DEF path
<1> DEFINE Right(i) == path[i] \in MotionState /\ path[i].velocity = Braked(velocity, c, i)
<1> HIDE DEF c
<1>4. Right(0)
  <2>1. Braked(velocity, c, 0) = velocity
    <3>1. 0 * c = 0
      BY <1>1
    <3> QED BY <1>1, <3>1 DEF Braked
  <2> QED BY <1>1, <1>3, <2>1 DEF MotionState
<1>5. ASSUME NEW i \in 0 .. steps - 1, Right(i)
      PROVE  Right(i + 1) /\ (path[i + 1].position - path[i].position) * Sign(velocity) >= 0
  <2> DEFINE b == Braked(velocity, c, i)
             s == path[i]
             t == path[i + 1]
  <2>1. /\ b \in Int /\ (velocity >= 0 => b >= 0) /\ (velocity <= 0 => b <= 0)
        /\ Braked(velocity, c, i + 1) = IF b > c THEN b - c ELSE IF b < -c THEN b + c ELSE 0
    BY <1>1, <1>2, BrakedStep
  <2>2. s \in MotionState /\ s.velocity = b /\ t = SimulationNext(dt, s, {})
    BY <1>3, <1>5
  <2>3. /\ t \in MotionState
        /\ b <= c /\ -c <= b => t.velocity = 0 /\ t.position = s.position
        /\ b > c  => t.velocity = b - c /\ t.position = s.position + t.velocity * dt
        /\ b < -c => t.velocity = b + c /\ t.position = s.position + t.velocity * dt
    <3> HIDE DEF b, s, t
    <3> QED BY <1>1, <2>2, BrakingStep DEF c
  <2>4. s.position \in Int /\ t.position \in Int /\ t.velocity \in Int
    <3> HIDE DEF b, s, t
    <3> QED BY <1>1, <2>2, <2>3 DEF MotionState
  <2>5. t.velocity = IF b > c THEN b - c ELSE IF b < -c THEN b + c ELSE 0
    <3> HIDE DEF b, s, t
    <3> QED BY <1>1, <2>1, <2>3
  <2>6. Right(i + 1)
    BY <2>1, <2>3, <2>5
  <2> DEFINE m == t.velocity * dt
  <2>7. /\ m \in Int /\ (t.velocity >= 0 => m >= 0) /\ (t.velocity <= 0 => m <= 0)
    <3> DEFINE w == t.velocity
    <3>1. w \in Int
      BY <2>4
    <3> HIDE DEF w
    <3>2. w * dt \in Int /\ (w >= 0 => w * dt >= 0) /\ (w <= 0 => w * dt <= 0)
      <4>1. CASE w >= 0
        BY <1>1, <3>1, <4>1
      <4>2. CASE w <= 0
        <5>1. -w \in Nat /\ (-w) * dt \in Nat
          BY <1>1, <3>1, <4>2
        <5>2. (-w) * dt = -(w * dt)
          BY <1>1, <3>1
        <5>3. w * dt \in Int
          BY <1>1, <3>1
        <5>4. w = 0 => w * dt = 0
          BY <1>1
        <5> QED BY <3>1, <4>2, <5>1, <5>2, <5>3, <5>4
      <4> QED BY <3>1, <4>1, <4>2
    <3> QED BY <3>2 DEF w
  <2> HIDE DEF m, b, s, t
  <2>8. t.position - s.position \in {0, m}
    BY <1>1, <2>1, <2>3, <2>4, <2>7 DEF m
  <2>9. CASE velocity > 0
    <3>1. Sign(velocity) = 1 /\ m >= 0
      BY <1>1, <2>1, <2>5, <2>7, <2>9 DEF Sign
    <3> QED BY <2>6, <2>7, <2>8, <3>1 DEF s, t
  <2>10. CASE velocity < 0
    <3>1. Sign(velocity) = -1 /\ m <= 0
      BY <1>1, <2>1, <2>5, <2>7, <2>10 DEF Sign
    <3> QED BY <2>6, <2>7, <2>8, <3>1 DEF s, t
  <2>11. CASE velocity = 0
    <3>1. Sign(velocity) = 0
      BY <1>1, <2>11 DEF Sign
    <3> QED BY <2>6, <2>7, <2>8, <3>1 DEF s, t
  <2> QED BY <1>1, <2>9, <2>10, <2>11
<1>6. ASSUME NEW n \in 0 .. steps
      PROVE  Right(n)
  <2> DEFINE S == {i \in 0 .. steps : Right(i)}
  <2> HIDE DEF Right
  <2>1. 0 \in S /\ \A i \in 0 .. n - 1 : i \in S => i + 1 \in S
    BY <1>2, <1>4, <1>5
  <2>2. n \in S
    <3> HIDE DEF S
    <3> QED BY <1>2, <2>1, Induction
  <2> QED BY <2>2
<1>7. path[steps].velocity = 0
  <2>1. path[steps].velocity = Braked(velocity, c, steps)
    BY <1>2, <1>6
  <2> DEFINE k == steps * c
  <2>2. k \in Int /\ k > MaxVelocity
    BY <1>1, <1>2 DEF c
  <2>3. Braked(velocity, c, steps) = IF velocity > k THEN velocity - k
                                     ELSE IF velocity < -k THEN velocity + k ELSE 0
    BY DEF Braked
  <2> HIDE DEF k
  <2> QED BY <1>1, <2>1, <2>2, <2>3
<1>8. \A i \in 1 .. steps : (path[i].position - path[i - 1].position) * Sign(velocity) >= 0
  <2> SUFFICES ASSUME NEW i \in 1 .. steps
               PROVE  (path[i].position - path[i - 1].position) * Sign(velocity) >= 0
    OBVIOUS
  <2>1. i - 1 \in 0 .. steps - 1 /\ i - 1 \in 0 .. steps /\ i - 1 + 1 = i
    BY <1>2
  <2>2. Right(i - 1)
    BY <1>6, <2>1
  <2> HIDE DEF Right
  <2> QED BY <1>5, <2>1, <2>2
<1>9. \A actions \in SUBSET Actions :
        Abs(SimulationNext(dt, path[0], actions).velocity) <= MaxVelocity
  BY <1>1, <1>3, VelocityBound
<1> QED BY <1>7, <1>8, <1>9 DEF path, steps, origin

\* An angle is within half a turn of zero and the same direction as before.
LEMMA WrappedAngle == WrapsToSameDirection
<1> SUFFICES ASSUME NEW value \in -5 * HalfTurn .. 5 * HalfTurn
             PROVE  /\ WrapRadians(value) \in -HalfTurn .. HalfTurn - 1
                    /\ (value - WrapRadians(value)) % (2 * HalfTurn) = 0
  BY DEF WrapsToSameDirection
<1> DEFINE N == 2 * HalfTurn
           q == (value + HalfTurn) \div N
<1>1. HalfTurn \in Nat \ {0} /\ value \in Int /\ N \in Nat \ {0}
  BY MotionAssumption
<1>2. WrapRadians(value) = value - q * N
  BY DEF WrapRadians
<1>3. /\ q \in Int /\ q * N \in Int
      /\ q * N <= value + HalfTurn /\ value + HalfTurn < q * N + N
  <2> DEFINE a == value + HalfTurn
  <2>1. a \in Int
    BY <1>1
  <2> HIDE DEF a, N
  <2>2. a \div N \in Int /\ N * (a \div N) <= a /\ a < N * (a \div N) + N
    BY <1>1, <2>1
  <2>3. (a \div N) * N = N * (a \div N)
    BY <1>1, <2>2
  <2>4. (a \div N) * N \in Int
    BY <1>1, <2>2
  <2> QED BY <2>2, <2>3, <2>4 DEF a
<1>4. (q * N) % N = 0
  <2> HIDE DEF q, N
  <2> QED BY <1>1, <1>3
<1> DEFINE p == q * N
<1>5. WrapRadians(value) \in -HalfTurn .. HalfTurn - 1 /\ value - WrapRadians(value) = p
  <2>1. p \in Int /\ p <= value + HalfTurn /\ value + HalfTurn < p + 2 * HalfTurn
    BY <1>3
  <2>2. WrapRadians(value) = value - p
    BY <1>2
  <2> HIDE DEF p
  <2> QED BY <1>1, <2>1, <2>2
<1> QED BY <1>4, <1>5

\* A multiple of a number that is less than one such multiple away from zero is zero.
LEMMA SmallMultiple ==
  ASSUME NEW k \in Int, NEW n \in Nat \ {0}, k * n < n, -(k * n) < n
  PROVE  k = 0
<1>1. CASE k >= 1
  <2>1. n * k >= n * 1
    BY <1>1
  <2> QED BY <2>1
<1>2. CASE k <= -1
  <2>1. n * k <= n * (-1)
    BY <1>2
  <2> QED BY <2>1
<1> QED BY <1>1, <1>2

\* WrapRadians takes off a number of whole turns.
LEMMA WholeTurns ==
  ASSUME NEW value \in Int
  PROVE  /\ WrapRadians(value) \in -HalfTurn .. HalfTurn - 1
         /\ \E q \in Int : WrapRadians(value) = value - q * (2 * HalfTurn)
<1> DEFINE N == 2 * HalfTurn
           a == value + HalfTurn
           q == a \div N
<1>1. HalfTurn \in Nat \ {0} /\ N \in Nat \ {0} /\ a \in Int
  BY MotionAssumption
<1>2. WrapRadians(value) = value - q * N
  BY DEF WrapRadians
<1> DEFINE p == q * N
<1>3. q \in Int /\ p \in Int /\ p <= a /\ a < p + N
  <2> HIDE DEF a, N
  <2>1. q \in Int /\ N * q <= a /\ a < N * q + N
    BY <1>1
  <2> HIDE DEF q
  <2>2. N * q = q * N /\ q * N \in Int
    BY <1>1, <2>1
  <2> QED BY <2>1, <2>2
<1>4. WrapRadians(value) \in -HalfTurn .. HalfTurn - 1
  <2>1. WrapRadians(value) = value - p
    BY <1>2
  <2> HIDE DEF p, q
  <2> QED BY <1>1, <1>3, <2>1
<1> HIDE DEF q
<1> QED BY <1>2, <1>3, <1>4

\* Two turns to either side after each other are one.
LEMMA YawsAddUp ==
  ASSUME NEW x \in Int, NEW second \in Int
  PROVE  WrapRadians(WrapRadians(x) + second) = WrapRadians(x + second)
<1> DEFINE N == 2 * HalfTurn
           y == WrapRadians(x)
           u == WrapRadians(y + second)
           v == WrapRadians(x + second)
<1>1. HalfTurn \in Nat \ {0} /\ N \in Nat \ {0} /\ N = 2 * HalfTurn
  BY MotionAssumption
<1>0. \A value \in Int : /\ WrapRadians(value) \in -HalfTurn .. HalfTurn - 1
                         /\ \E q \in Int : WrapRadians(value) = value - q * N
  BY WholeTurns
<1> HIDE DEF N, u, v
<1>2. PICK i \in Int : y = x - i * N
  BY <1>0
<1>3. y \in Int
  BY <1>0, <1>1
<1>4. u \in -HalfTurn .. HalfTurn - 1 /\ \E j \in Int : u = (y + second) - j * N
  <2> DEFINE z == y + second
  <2>1. z \in Int
    BY <1>3
  <2> HIDE DEF z
  <2>2. /\ WrapRadians(z) \in -HalfTurn .. HalfTurn - 1
        /\ \E j \in Int : WrapRadians(z) = z - j * N
    BY <1>0, <2>1
  <2> QED BY <2>2 DEF u, z
<1>5. PICK j \in Int : u = (y + second) - j * N
  BY <1>4
<1>6. v \in -HalfTurn .. HalfTurn - 1 /\ \E k \in Int : v = (x + second) - k * N
  <2> DEFINE z == x + second
  <2>1. z \in Int
    OBVIOUS
  <2> HIDE DEF z
  <2>2. /\ WrapRadians(z) \in -HalfTurn .. HalfTurn - 1
        /\ \E k \in Int : WrapRadians(z) = z - k * N
    BY <1>0, <2>1
  <2> QED BY <2>2 DEF v, z
<1>7. PICK k \in Int : v = (x + second) - k * N
  BY <1>6
<1> HIDE DEF y
<1>8. i * N \in Int /\ j * N \in Int /\ k * N \in Int
  BY <1>1
<1> DEFINE m == k - i - j
<1>9. m \in Int /\ m * N = k * N - i * N - j * N
  BY <1>1
<1> HIDE DEF m
<1>10. u - v = m * N
  BY <1>2, <1>3, <1>5, <1>7, <1>8, <1>9
<1>11. u \in Int /\ v \in Int /\ u - v < N /\ v - u < N
  BY <1>1, <1>4, <1>6
<1>12. m = 0
  <2>1. m * N < N /\ -(m * N) < N
    BY <1>10, <1>11
  <2> QED BY <1>1, <1>9, <2>1, SmallMultiple
<1>13. m * N = 0
  BY <1>1, <1>12
<1>14. u = v
  BY <1>10, <1>11, <1>13
<1> QED BY <1>14 DEF u, v, y

\* Two turns up, or two turns down, are one, the limit included.
LEMMA PitchesAddUp ==
  ASSUME NEW limit \in Nat, NEW pitch \in -limit .. limit, NEW sign \in {-1, 1},
         NEW first \in Nat, NEW second \in Nat
  PROVE  LET turned == Clamped(pitch + sign * first, -limit, limit)
         IN  /\ turned \in -limit .. limit
             /\ sign * (turned - pitch) >= 0
             /\ Clamped(turned + sign * second, -limit, limit)
                  = Clamped(pitch + sign * first + sign * second, -limit, limit)
<1>1. CASE sign = 1
  <2>1. sign * first = first /\ sign * second = second
    BY <1>1
  <2> QED BY <1>1, <2>1 DEF Clamped
<1>2. CASE sign = -1
  <2>1. sign * first = -first /\ sign * second = -second
    BY <1>2
  <2> QED BY <1>2, <2>1 DEF Clamped
<1> QED BY <1>1, <1>2

\* So a movement of the mouse turns the player the same way however it is divided.
LEMMA TurnsTrue == TurnsAddUp
<1> DEFINE limit == HalfTurn \div 2
<1>1. HalfTurn \in Nat /\ limit \in Nat
  BY MotionAssumption
<1>2. \A value : Pitch(value) = Clamped(value, -limit, limit)
  BY DEF Pitch
<1> HIDE DEF limit
<1>3. ASSUME NEW pitch \in -limit .. limit, NEW sign \in {-1, 1},
             NEW first \in 0 .. HalfTurn, NEW second \in 0 .. HalfTurn
      PROVE  LET turned == Pitch(pitch + sign * first)
             IN  /\ turned \in -limit .. limit
                 /\ sign * (turned - pitch) >= 0
                 /\ Pitch(turned + sign * second)
                      = Pitch(pitch + sign * first + sign * second)
  <2>1. first \in Nat /\ second \in Nat
    BY <1>1
  <2> QED BY <1>1, <1>2, <2>1, PitchesAddUp
<1>4. ASSUME NEW yaw \in -HalfTurn .. HalfTurn - 1,
             NEW first \in -HalfTurn .. HalfTurn, NEW second \in -HalfTurn .. HalfTurn
      PROVE  WrapRadians(WrapRadians(yaw + first) + second)
               = WrapRadians(yaw + first + second)
  <2>1. yaw + first \in Int /\ second \in Int
    BY <1>1
  <2> QED BY <2>1, YawsAddUp
<1> QED BY <1>3, <1>4 DEF TurnsAddUp, limit

\* CSimulation::Next brings a player without keys to rest in the ticks that the
\* braking takes, never pushes him back the way he came, makes nobody faster than
\* MAX_VELOCITY, wraps angles to the same direction, keeps the pitch in its range, and
\* turns the player the same way however a movement of the mouse is divided among
\* ticks, for any acceleration, any top speed and any unit of length, angle and time.
THEOREM Stable == Spec => []SimulationStable
<1>1. SimulationStable
  BY RestInTime, WrappedAngle, TurnsTrue DEF SimulationStable
<1> QED BY <1>1, PTL

-----------------------------------------------------------------------------
(* MovingAverage.                                                          *)

\* The number of samples, and the slots.
LEMMA SamplesRange ==
  SamplesCount \in Nat \ {0} /\ 0 \in Samples /\ SamplesCount - 1 \in Samples
BY MotionAssumption DEF Samples

\* Partial sums are a function: their equation has a solution.
LEMMA PartialSums ==
  ASSUME NEW f \in [Samples -> Int], NEW n \in Nat, n <= SamplesCount
  PROVE  \E sum : \A i \in 0 .. n : sum[i] = IF i = 0 THEN 0 ELSE sum[i - 1] + f[i - 1]
<1> DEFINE S == {i \in 0 .. n : \E h : \A j \in 0 .. i :
                                  h[j] = IF j = 0 THEN 0 ELSE h[j - 1] + f[j - 1]}
<1>1. 0 \in S
  <2> DEFINE h == [j \in 0 .. 0 |-> 0]
  <2>1. \A j \in 0 .. 0 : h[j] = IF j = 0 THEN 0 ELSE h[j - 1] + f[j - 1]
    OBVIOUS
  <2> HIDE DEF h
  <2> QED BY <2>1
<1>2. ASSUME NEW i \in 0 .. n - 1, i \in S
      PROVE  i + 1 \in S
  <2>1. PICK h : \A j \in 0 .. i : h[j] = IF j = 0 THEN 0 ELSE h[j - 1] + f[j - 1]
    BY <1>2
  <2> DEFINE g == [j \in 0 .. i + 1 |-> IF j = i + 1 THEN h[i] + f[i] ELSE h[j]]
  <2>2. \A j \in 0 .. i + 1 : g[j] = IF j = 0 THEN 0 ELSE g[j - 1] + f[j - 1]
    BY <2>1
  <2> HIDE DEF g
  <2> QED BY <2>2
<1> HIDE DEF S
<1>3. n \in S
  BY <1>1, <1>2, Induction
<1> QED BY <1>3 DEF S

\* Sum is the last of the partial sums.
LEMMA SumIsPartial ==
  ASSUME NEW f \in [Samples -> Int]
  PROVE  \E sum : /\ sum[0] = 0
                  /\ \A i \in 0 .. SamplesCount - 1 : sum[i + 1] = sum[i] + f[i]
                  /\ \A i \in 0 .. SamplesCount : sum[i] \in Int
                  /\ Sum(f) = sum[SamplesCount]
<1> DEFINE sum[n \in 0 .. SamplesCount] == IF n = 0 THEN 0 ELSE sum[n - 1] + f[n - 1]
<1>1. sum = [n \in 0 .. SamplesCount |-> IF n = 0 THEN 0 ELSE sum[n - 1] + f[n - 1]]
  <2> DEFINE Partial(h) == \A i \in 0 .. SamplesCount :
                             h[i] = IF i = 0 THEN 0 ELSE h[i - 1] + f[i - 1]
  <2>0. SamplesCount \in Nat /\ SamplesCount <= SamplesCount
    BY SamplesRange
  <2>1. PICK h : Partial(h)
    BY <2>0, PartialSums, Zenon
  <2> DEFINE g == [i \in 0 .. SamplesCount |-> h[i]]
  <2>2. g = [n \in 0 .. SamplesCount |-> IF n = 0 THEN 0 ELSE g[n - 1] + f[n - 1]]
    BY <2>1, SamplesRange
  <2> HIDE DEF g
  <2> QED BY <2>2 DEF sum
<1>2. Sum(f) = sum[SamplesCount]
  BY DEF Sum, sum
<1> HIDE DEF sum
<1>3. sum[0] = 0 /\ \A i \in 0 .. SamplesCount - 1 : sum[i + 1] = sum[i] + f[i]
  BY <1>1, SamplesRange
<1>4. ASSUME NEW n \in 0 .. SamplesCount
      PROVE  sum[n] \in Int
  <2> DEFINE S == {i \in 0 .. n : sum[i] \in Int}
  <2>1. 0 \in S
    BY <1>3
  <2>2. ASSUME NEW i \in 0 .. n - 1, i \in S
        PROVE  i + 1 \in S
    <3>1. f[i] \in Int /\ sum[i + 1] = sum[i] + f[i]
      BY <1>3, SamplesRange DEF Samples
    <3> QED BY <2>2, <3>1
  <2> HIDE DEF S
  <2>3. n \in S
    BY <2>1, <2>2, Induction
  <2> QED BY <2>3 DEF S
<1> QED BY <1>2, <1>3, <1>4

\* When values move up by one slot and a new one comes in, the sum changes by the
\* new one and by the one that is gone.
LEMMA ShiftedSum ==
  ASSUME NEW f \in [Samples -> Int], NEW g \in [Samples -> Int],
         \A k \in 1 .. SamplesCount - 1 : g[k] = f[k - 1]
  PROVE  Sum(f) \in Int /\ Sum(g) = Sum(f) - f[SamplesCount - 1] + g[0]
<1>1. PICK a : /\ a[0] = 0
               /\ \A i \in 0 .. SamplesCount - 1 : a[i + 1] = a[i] + f[i]
               /\ \A i \in 0 .. SamplesCount : a[i] \in Int
               /\ Sum(f) = a[SamplesCount]
  BY SumIsPartial
<1>2. PICK b : /\ b[0] = 0
               /\ \A i \in 0 .. SamplesCount - 1 : b[i + 1] = b[i] + g[i]
               /\ \A i \in 0 .. SamplesCount : b[i] \in Int
               /\ Sum(g) = b[SamplesCount]
  BY SumIsPartial
<1> DEFINE last == SamplesCount - 1
           S == {i \in 0 .. last : b[i + 1] = a[i] + g[0]}
<1>3. last \in Nat /\ last \in Samples /\ last + 1 = SamplesCount
  BY SamplesRange
<1>4. g[0] \in Int /\ f[last] \in Int
  BY <1>3, SamplesRange
<1>5. 0 \in S
  BY <1>1, <1>2, <1>3, <1>4
<1>6. ASSUME NEW i \in 0 .. last - 1, i \in S
      PROVE  i + 1 \in S
  <2>1. i + 1 \in 1 .. last /\ i \in 0 .. last /\ i + 1 \in 0 .. last /\ i \in Samples
    BY <1>3 DEF Samples
  <2>2. /\ b[i + 1] = a[i] + g[0] /\ b[(i + 1) + 1] = b[i + 1] + g[i + 1]
        /\ a[i + 1] = a[i] + f[i] /\ g[i + 1] = f[i] /\ f[i] \in Int /\ a[i] \in Int
    BY <1>1, <1>2, <1>3, <1>6, <2>1
  <2> QED BY <1>4, <2>1, <2>2
<1> HIDE DEF S
<1>7. last \in S
  BY <1>3, <1>5, <1>6, Induction
<1>8. b[SamplesCount] = a[last] + g[0] /\ a[SamplesCount] = a[last] + f[last]
  BY <1>1, <1>3, <1>7 DEF S
<1>9. a[last] \in Int
  BY <1>1, <1>3
<1> QED BY <1>1, <1>2, <1>4, <1>8, <1>9

\* The slot of the value that was pushed k values ago.
SlotBack(cursor, k) == IF k < cursor THEN cursor - 1 - k ELSE cursor - 1 - k + SamplesCount

\* The values that should be in the filter after i of pushed, the last one first.
Back(pushed, i) == [k \in Samples |-> IF i - k < 1 THEN pushed[1] ELSE pushed[i - k]]

\* The filter holds them, the oldest at the cursor, and their sum.
HoldsLast(average, pushed, i) ==
  /\ average.cursor \in Samples
  /\ average.values \in [Samples -> Int]
  /\ \A k \in Samples : average.values[SlotBack(average.cursor, k)] = Back(pushed, i)[k]
  /\ average.accumulator = Sum(Back(pushed, i))

\* It does after the first value,
LEMMA FirstPush ==
  ASSUME NEW average, average.cursor = SamplesCount,
         NEW n \in Nat \ {0}, NEW pushed \in [1 .. n -> Int]
  PROVE  HoldsLast(Push(average, pushed[1]), pushed, 1)
<1> DEFINE next == Push(average, pushed[1])
<1>1. next = [values |-> [k \in Samples |-> pushed[1]], cursor |-> 0,
              accumulator |-> Sum([k \in Samples |-> pushed[1]])]
  BY DEF Push
<1>2. pushed[1] \in Int
  OBVIOUS
<1>3. Back(pushed, 1) = [k \in Samples |-> pushed[1]]
  <2>1. \A k \in Samples : (IF 1 - k < 1 THEN pushed[1] ELSE pushed[1 - k]) = pushed[1]
    BY SamplesRange DEF Samples
  <2> QED BY <2>1 DEF Back
<1>4. \A k \in Samples : SlotBack(0, k) \in Samples
  BY SamplesRange DEF SlotBack, Samples
<1> HIDE DEF next
<1>5. /\ next.cursor = 0 /\ next.values = [k \in Samples |-> pushed[1]]
      /\ next.accumulator = Sum(Back(pushed, 1))
  BY <1>1, <1>3
<1>6. \A k \in Samples : next.values[SlotBack(next.cursor, k)] = Back(pushed, 1)[k]
  BY <1>3, <1>4, <1>5
<1>7. next.values \in [Samples -> Int] /\ next.cursor \in Samples
  BY <1>2, <1>5, SamplesRange
<1>8. HoldsLast(next, pushed, 1)
  BY <1>5, <1>6, <1>7 DEF HoldsLast
<1> QED BY <1>8 DEF next

\* and after each one that follows.
LEMMA NextPush ==
  ASSUME NEW n \in Nat \ {0}, NEW pushed \in [1 .. n -> Int], NEW i \in 1 .. n - 1,
         NEW average, HoldsLast(average, pushed, i)
  PROVE  HoldsLast(Push(average, pushed[i + 1]), pushed, i + 1)
<1> DEFINE next  == Push(average, pushed[i + 1])
           c     == average.cursor
           d     == (c + 1) % SamplesCount
           value == pushed[i + 1]
           f     == Back(pushed, i)
           g     == Back(pushed, i + 1)
<1>1. c \in Samples /\ c # SamplesCount /\ value \in Int
  BY SamplesRange DEF HoldsLast, Samples
<1>2. d = IF c = SamplesCount - 1 THEN 0 ELSE c + 1
  <2>1. CASE c = SamplesCount - 1
    BY <2>1, SamplesRange
  <2>2. CASE c # SamplesCount - 1
    <3>1. c + 1 \in Nat /\ c + 1 < SamplesCount
      BY <1>1, <2>2, SamplesRange DEF Samples
    <3> HIDE DEF c
    <3> QED BY <2>2, <3>1, SamplesRange
  <2> QED BY <2>1, <2>2
<1> HIDE DEF d
<1>3. /\ next.cursor = d /\ next.values = [average.values EXCEPT ![c] = value]
      /\ next.accumulator = average.accumulator - average.values[c] + value
  BY <1>1 DEF Push, Accumulated, d
<1> HIDE DEF next
<1>4. f \in [Samples -> Int] /\ g \in [Samples -> Int]
  BY SamplesRange DEF Back, Samples
<1>5. g[0] = value /\ \A k \in 1 .. SamplesCount - 1 : g[k] = f[k - 1]
  BY SamplesRange DEF Back, Samples
<1>6. /\ average.values \in [Samples -> Int] /\ average.accumulator = Sum(f)
      /\ \A k \in Samples : average.values[SlotBack(c, k)] = f[k]
  BY DEF HoldsLast
<1>7. average.values[c] = f[SamplesCount - 1]
  <2>1. SlotBack(c, SamplesCount - 1) = c
    BY <1>1, SamplesRange DEF SlotBack, Samples
  <2> QED BY <1>6, <2>1, SamplesRange
<1> HIDE DEF f, g, c, value
<1>8. next.accumulator = Sum(g)
  <2>1. Sum(f) \in Int /\ Sum(g) = Sum(f) - f[SamplesCount - 1] + g[0]
    BY <1>4, <1>5, ShiftedSum
  <2> QED BY <1>3, <1>5, <1>6, <1>7, <2>1
<1>9. d \in Samples
  BY <1>1, <1>2, SamplesRange DEF Samples
<1>10. next.values \in [Samples -> Int]
  BY <1>1, <1>3, <1>6
<1>11. ASSUME NEW k \in Samples
       PROVE  next.values[SlotBack(d, k)] = g[k]
  <2>1. CASE k = 0
    <3>1. SlotBack(d, k) = c
      BY <1>1, <1>2, <2>1, SamplesRange DEF SlotBack, Samples
    <3> QED BY <1>1, <1>3, <1>5, <1>6, <2>1, <3>1
  <2>2. CASE k # 0
    <3>1. k \in 1 .. SamplesCount - 1 /\ k - 1 \in Samples
      BY <2>2, SamplesRange DEF Samples
    <3>2. /\ SlotBack(d, k) = SlotBack(c, k - 1) /\ SlotBack(d, k) # c
          /\ SlotBack(d, k) \in Samples
      BY <1>1, <1>2, <3>1, SamplesRange DEF SlotBack, Samples
    <3>3. next.values[SlotBack(d, k)] = average.values[SlotBack(d, k)]
      BY <1>1, <1>3, <1>6, <3>2
    <3>4. average.values[SlotBack(c, k - 1)] = f[k - 1]
      BY <1>6, <3>1
    <3> QED BY <1>5, <3>1, <3>2, <3>3, <3>4
  <2> QED BY <2>1, <2>2
<1>12. HoldsLast(next, pushed, i + 1)
  BY <1>3, <1>8, <1>9, <1>10, <1>11 DEF HoldsLast, g
<1> QED BY <1>12 DEF next, value

\* Whatever numbers are pushed into a filter that is new or reset, and however
\* many, the accumulator is the sum of the last SamplesCount of them.
LEMMA AccumulatorIsSum ==
  ASSUME NEW n \in Nat \ {0}, NEW pushed \in [1 .. n -> Int],
         NEW old, old.cursor = SamplesCount
  PROVE  LET after[i \in 0 .. n] == IF i = 0 THEN old ELSE Push(after[i - 1], pushed[i])
         IN  after[n].accumulator = Sum(Back(pushed, n))
<1>0. \E h : \A i \in 0 .. n : h[i] = IF i = 0 THEN old ELSE Push(h[i - 1], pushed[i])
  <2> DEFINE S == {i \in 0 .. n : \E h : \A j \in 0 .. i :
                                    h[j] = IF j = 0 THEN old ELSE Push(h[j - 1], pushed[j])}
  <2>1. 0 \in S
    <3> DEFINE h == [j \in 0 .. 0 |-> old]
    <3>1. \A j \in 0 .. 0 : h[j] = IF j = 0 THEN old ELSE Push(h[j - 1], pushed[j])
      OBVIOUS
    <3> HIDE DEF h
    <3> QED BY <3>1
  <2>2. ASSUME NEW i \in 0 .. n - 1, i \in S
        PROVE  i + 1 \in S
    <3>1. PICK h : \A j \in 0 .. i : h[j] = IF j = 0 THEN old ELSE Push(h[j - 1], pushed[j])
      BY <2>2
    <3> DEFINE g == [j \in 0 .. i + 1 |-> IF j = i + 1 THEN Push(h[i], pushed[i + 1]) ELSE h[j]]
    <3>2. \A j \in 0 .. i + 1 : g[j] = IF j = 0 THEN old ELSE Push(g[j - 1], pushed[j])
      <4> SUFFICES ASSUME NEW j \in 0 .. i + 1
                   PROVE  g[j] = IF j = 0 THEN old ELSE Push(g[j - 1], pushed[j])
        OBVIOUS
      <4>1. CASE j = i + 1
        <5>1. j # 0 /\ j - 1 = i /\ i # i + 1 /\ i \in 0 .. i + 1
          BY <4>1
        <5>2. g[j] = Push(h[i], pushed[j]) /\ g[i] = h[i]
          BY <4>1, <5>1
        <5> HIDE DEF g
        <5> QED BY <5>1, <5>2
      <4>2. CASE j \in 0 .. i
        <5>1. g[j] = h[j] /\ (j # 0 => g[j - 1] = h[j - 1])
          BY <4>2
        <5> HIDE DEF g
        <5> QED BY <3>1, <4>2, <5>1
      <4> QED BY <4>1, <4>2
    <3> HIDE DEF g
    <3> QED BY <3>2
  <2> HIDE DEF S
  <2>3. n \in S
    BY <2>1, <2>2, Induction
  <2> QED BY <2>3 DEF S
<1> DEFINE after[i \in 0 .. n] == IF i = 0 THEN old ELSE Push(after[i - 1], pushed[i])
<1>1. after = [i \in 0 .. n |-> IF i = 0 THEN old ELSE Push(after[i - 1], pushed[i])]
  <2>1. PICK h : \A i \in 0 .. n : h[i] = IF i = 0 THEN old ELSE Push(h[i - 1], pushed[i])
    BY <1>0
  <2> DEFINE g == [i \in 0 .. n |-> h[i]]
  <2>2. \A i \in 0 .. n : g[i] = IF i = 0 THEN old ELSE Push(g[i - 1], pushed[i])
    <3> SUFFICES ASSUME NEW i \in 0 .. n
                 PROVE  g[i] = IF i = 0 THEN old ELSE Push(g[i - 1], pushed[i])
      OBVIOUS
    <3>1. g[i] = h[i] /\ (i # 0 => g[i - 1] = h[i - 1])
      OBVIOUS
    <3> HIDE DEF g
    <3> QED BY <2>1, <3>1
  <2>3. g = [i \in 0 .. n |-> g[i]]
    OBVIOUS
  <2> HIDE DEF g
  <2>4. g = [i \in 0 .. n |-> IF i = 0 THEN old ELSE Push(g[i - 1], pushed[i])]
    BY <2>2, <2>3
  <2> QED BY <2>4 DEF after
<1> HIDE DEF after
<1>2. after[0] = old /\ \A i \in 0 .. n - 1 : after[i + 1] = Push(after[i], pushed[i + 1])
  <2>1. after[0] = old
    BY <1>1
  <2>2. ASSUME NEW i \in 0 .. n - 1
        PROVE  after[i + 1] = Push(after[i], pushed[i + 1])
    <3>1. i + 1 \in 0 .. n /\ i + 1 # 0 /\ (i + 1) - 1 = i
      OBVIOUS
    <3> QED BY <1>1, <3>1
  <2> QED BY <2>1, <2>2
<1> DEFINE S == {i \in 0 .. n - 1 : HoldsLast(after[i + 1], pushed, i + 1)}
<1>3. 0 \in S
  <2>1. after[1] = Push(old, pushed[1])
    BY <1>2
  <2>2. HoldsLast(after[1], pushed, 1)
    BY <2>1, FirstPush
  <2> QED BY <2>2
<1>4. ASSUME NEW i \in 0 .. (n - 1) - 1, i \in S
      PROVE  i + 1 \in S
  <2>1. HoldsLast(after[i + 1], pushed, i + 1)
    BY <1>4
  <2>2. i + 1 \in 1 .. n - 1 /\ i + 1 \in 0 .. n - 1
    OBVIOUS
  <2> DEFINE j == i + 1
  <2> HIDE DEF j
  <2>3. j \in 1 .. n - 1 /\ j \in 0 .. n - 1 /\ HoldsLast(after[j], pushed, j)
    BY <2>1, <2>2 DEF j
  <2>4. HoldsLast(Push(after[j], pushed[j + 1]), pushed, j + 1)
    BY <2>3, NextPush
  <2>5. HoldsLast(after[j + 1], pushed, j + 1)
    BY <1>2, <2>3, <2>4
  <2> QED BY <2>3, <2>5 DEF j
<1> HIDE DEF S
<1>5. n - 1 \in S
  BY <1>3, <1>4, Induction
<1>6. HoldsLast(after[n], pushed, n)
  BY <1>5 DEF S
<1>7. after[n].accumulator = Sum(Back(pushed, n))
  BY <1>6 DEF HoldsLast
<1> QED BY <1>7 DEF after

\* So Get is the average of the last values.
LEMMA AverageTrue == AverageOfLast
<1> SUFFICES ASSUME NEW n \in 1 .. 2 * SamplesCount + 1, NEW pushed \in [1 .. n -> {0, 1, 5}],
                    NEW old \in {NewAverage, Reset(Push(NewAverage, 7))}
             PROVE  LET after[i \in 0 .. n] == IF i = 0 THEN old
                                               ELSE Push(after[i - 1], pushed[i])
                        back(k) == IF n - k < 1 THEN pushed[1] ELSE pushed[n - k]
                    IN  after[n].accumulator = Sum([k \in Samples |-> back(k)])
  BY DEF AverageOfLast
<1>1. n \in Nat \ {0} /\ pushed \in [1 .. n -> Int]
  BY SamplesRange
<1>2. old.cursor = SamplesCount
  <2>1. NewAverage.cursor = SamplesCount
    BY DEF NewAverage
  <2>2. Push(NewAverage, 7) = [values |-> [k \in Samples |-> 7], cursor |-> 0,
                               accumulator |-> Sum([k \in Samples |-> 7])]
    BY <2>1 DEF Push
  <2>3. Reset(Push(NewAverage, 7)).cursor = SamplesCount
    BY <2>2 DEF Reset
  <2> QED BY <2>1, <2>3
<1> DEFINE after[i \in 0 .. n] == IF i = 0 THEN old ELSE Push(after[i - 1], pushed[i])
<1>3. after[n].accumulator = Sum(Back(pushed, n))
  BY <1>1, <1>2, AccumulatorIsSum
<1> HIDE DEF after
<1>4. after[n].accumulator = Sum([k \in Samples |-> IF n - k < 1 THEN pushed[1]
                                                                ELSE pushed[n - k]])
  BY <1>3 DEF Back
<1> QED BY <1>4 DEF after

\* The other machines' copies of the flags are the flags, for any set of keys.
LEMMA FlagsTrue == FlagsAreTaken
BY DEF FlagsAreTaken, NetSerialize

\* The copies that CPlayerComponent keeps are true: NetSerialize leaves the flags
\* that were sent, for any set of keys, and the filter of the mouse holds the sum
\* of the last values since its reset, for any number of samples.
THEOREM CopiesTrue == Spec => []CopiesAreTrue
<1>1. CopiesAreTrue
  BY FlagsTrue, AverageTrue DEF CopiesAreTrue
<1> QED BY <1>1, PTL

-----------------------------------------------------------------------------
(* Smoothing.                                                              *)

\* The units are fine enough for rounding not to matter, and no frame is longer
\* than two seconds: MAX_TICKS_TO_TRANSMIT is twice TICKS_PER_SECOND
\* (GameState.h:11-16).
FineUnits ==
  /\ MaxFrameSeconds <= 2
  /\ HalfTurn >= 7
  /\ 314 * Second <= 500 * HalfTurn

\* The size of a product.
LEMMA AbsProduct ==
  ASSUME NEW x \in Int, NEW y \in Int
  PROVE  Abs(x * y) = Abs(x) * Abs(y)
<1>1. CASE x < 0 /\ y < 0
  <2>1. x * y > 0 /\ (-x) * (-y) = x * y
    BY <1>1
  <2> QED BY <1>1, <2>1 DEF Abs
<1>2. CASE x < 0 /\ y >= 0
  <2>1. x * y <= 0 /\ (-x) * y = -(x * y)
    BY <1>2
  <2> QED BY <1>2, <2>1 DEF Abs
<1>3. CASE x >= 0 /\ y < 0
  <2>1. x * y <= 0 /\ x * (-y) = -(x * y)
    BY <1>3
  <2> QED BY <1>3, <2>1 DEF Abs
<1>4. CASE x >= 0 /\ y >= 0
  <2>1. x * y >= 0
    BY <1>4
  <2> QED BY <1>4, <2>1 DEF Abs
<1> QED BY <1>1, <1>2, <1>3, <1>4

\* What the constant part takes off an error.
LEMMA Interpolated ==
  ASSUME NEW error \in Int, NEW constant \in Nat, NEW bound \in Nat \ {0},
         Abs(error) < bound + constant
  PROVE  Abs(ConstantInterpolate(error, constant)) < bound
BY DEF ConstantInterpolate, Abs, Sign

\* The position: in two seconds Lerp overshoots by at most the error itself.
LEMMA PositionApproaches ==
  ASSUME FineUnits, NEW deltaTime \in 1 .. MaxFrameSeconds * Second,
         NEW error \in Int, error # 0
  PROVE  Abs(PositionError(error, 1, deltaTime)) < Abs(error) * Second
<1> DEFINE a == Abs(error)
           m == Abs(Second - deltaTime)
           l == error * (Second - 1 * deltaTime)
<1>1. Second \in Nat \ {0} /\ deltaTime \in Nat /\ deltaTime >= 1 /\ deltaTime <= 2 * Second
  <2>1. Second \in Nat \ {0} /\ MaxFrameSeconds \in {0, 1, 2}
    BY MotionAssumption DEF FineUnits
  <2>2. MaxFrameSeconds * Second <= 2 * Second
    BY <2>1
  <2> QED BY <2>1, <2>2
<1>2. a \in Nat \ {0} /\ m \in Nat /\ m <= Second
  BY <1>1 DEF Abs
<1>3. Abs(l) = a * m
  <2>1. Second - 1 * deltaTime = Second - deltaTime /\ Second - deltaTime \in Int
    BY <1>1
  <2> QED BY <2>1, AbsProduct
<1>4. a * m <= a * Second /\ a * m \in Nat /\ a * Second \in Nat \ {0}
  <2> HIDE DEF a, m
  <2> QED BY <1>1, <1>2, ProductMonotonic
<1>5. l \in Int
  BY <1>1
<1> HIDE DEF a, m, l
<1>6. Abs(l) < a * Second + deltaTime
  BY <1>1, <1>3, <1>4
<1>7. Abs(ConstantInterpolate(l, deltaTime)) < a * Second
  BY <1>1, <1>4, <1>5, <1>6, Interpolated
<1>8. PositionError(error, 1, deltaTime) = ConstantInterpolate(l, 1 * deltaTime)
  BY DEF PositionError, Lerp, l
<1>9. 1 * deltaTime = deltaTime
  BY <1>1
<1> QED BY <1>7, <1>8, <1>9 DEF a

\* A division with a sign rounds by less than one.
LEMMA RoundedQuotient ==
  ASSUME NEW x \in Int, NEW b \in Nat \ {0}
  PROVE  /\ x \div b \in Int /\ Abs(x \div b) \in Nat /\ Abs(x \div b) * b \in Nat
         /\ Abs(x \div b) * b < Abs(x) + b
<1> DEFINE q == x \div b
<1>1. q \in Int /\ b * q <= x /\ x < b * q + b
  OBVIOUS
<1> HIDE DEF q
<1>2. Abs(q) * b = Abs(b * q)
  <2>1. b * q = q * b /\ Abs(b) = b
    BY <1>1 DEF Abs
  <2> QED BY <1>1, <2>1, AbsProduct
<1> DEFINE p == b * q
<1>3. p \in Int
  BY <1>1
<1>4. p <= x /\ x < p + b
  BY <1>1
<1> HIDE DEF p
<1>5. Abs(p) \in Nat /\ Abs(p) < Abs(x) + b
  BY <1>3, <1>4 DEF Abs
<1>6. Abs(q) \in Nat
  BY <1>1 DEF Abs
<1> QED BY <1>1, <1>2, <1>5, <1>6 DEF p, q

\* The size of a wrapped angle: half a turn at most, and that of the angle if it has
\* no more; one of less than three half turns is turned back by one turn.
LEMMA WrappedSize ==
  ASSUME NEW p \in Int
  PROVE  /\ WrapRadians(p) \in Int
         /\ Abs(WrapRadians(p)) <= HalfTurn
         /\ Abs(p) < 3 * HalfTurn =>
              /\ Abs(p) <= HalfTurn => Abs(WrapRadians(p)) = Abs(p)
              /\ Abs(p) > HalfTurn  => Abs(WrapRadians(p)) = Abs(2 * HalfTurn - Abs(p))
<1> DEFINE n == 2 * HalfTurn
           q == (p + HalfTurn) \div n
<1>1. HalfTurn \in Nat \ {0} /\ n \in Nat \ {0} /\ n = 2 * HalfTurn
  BY MotionAssumption
<1>3. q \in Int /\ n * q <= p + HalfTurn /\ p + HalfTurn < n * q + n
  <2> DEFINE x == p + HalfTurn
  <2>1. x \in Int
    BY <1>1
  <2> HIDE DEF x, n
  <2>2. x \div n \in Int /\ n * (x \div n) <= x /\ x < n * (x \div n) + n
    BY <1>1, <2>1
  <2> QED BY <2>2 DEF x
<1>4. WrapRadians(p) = p - q * n
  BY DEF WrapRadians
<1>5. WrapRadians(p) \in Int /\ Abs(WrapRadians(p)) <= HalfTurn
  <2> DEFINE r == n * q
  <2>1. r \in Int /\ q * n = r /\ r <= p + HalfTurn /\ p + HalfTurn < r + n
    <3> HIDE DEF n, q
    <3> QED BY <1>1, <1>3
  <2> HIDE DEF n, q, r
  <2>2. WrapRadians(p) = p - r /\ r <= p + HalfTurn /\ p + HalfTurn < r + 2 * HalfTurn
    BY <1>1, <1>4, <2>1
  <2> QED BY <1>1, <2>1, <2>2 DEF Abs
<1> SUFFICES ASSUME Abs(p) < 3 * HalfTurn
             PROVE  /\ Abs(p) <= HalfTurn => Abs(WrapRadians(p)) = Abs(p)
                    /\ Abs(p) > HalfTurn  => Abs(WrapRadians(p)) = Abs(2 * HalfTurn - Abs(p))
  BY <1>5
<1>2. -(3 * HalfTurn) < p /\ p < 3 * HalfTurn
  BY <1>1 DEF Abs
<1> HIDE DEF n, q
<1>9. q \in {-1, 0, 1}
  <2>1. q <= 1
    <3>1. SUFFICES ASSUME q >= 2 PROVE FALSE
      BY <1>3
    <3>2. n * q >= n * 2
      BY <1>1, <1>3, <3>1
    <3> QED BY <1>1, <1>2, <1>3, <3>2
  <2>2. q >= -1
    <3>1. SUFFICES ASSUME q <= -2 PROVE FALSE
      BY <1>3
    <3>2. n * q <= n * (-2)
      BY <1>1, <1>3, <3>1
    <3> QED BY <1>1, <1>2, <1>3, <3>2
  <2> QED BY <1>3, <2>1, <2>2
<1>6. CASE q = 0
  <2>1. WrapRadians(p) = p /\ -HalfTurn <= p /\ p < HalfTurn
    BY <1>1, <1>3, <1>4, <1>6
  <2> QED BY <1>1, <2>1 DEF Abs
<1>7. CASE q = 1
  <2>1. WrapRadians(p) = p - 2 * HalfTurn /\ p >= HalfTurn
    BY <1>1, <1>3, <1>4, <1>7
  <2> QED BY <1>1, <1>2, <2>1 DEF Abs
<1>8. CASE q = -1
  <2>1. WrapRadians(p) = p + 2 * HalfTurn /\ p < -HalfTurn
    BY <1>1, <1>3, <1>4, <1>8
  <2> QED BY <1>1, <1>2, <2>1 DEF Abs
<1> QED BY <1>6, <1>7, <1>8, <1>9

\* A factor that both sides have can be cancelled.
LEMMA LessFactor ==
  ASSUME NEW x \in Nat, NEW y \in Nat, NEW S \in Nat \ {0}, x * S < y * S
  PROVE  x < y
<1>1. SUFFICES ASSUME y <= x PROVE FALSE
  OBVIOUS
<1>2. S * y <= S * x
  BY <1>1, ProductMonotonic
<1> QED BY <1>2

\* The bound that an angle stays under: with a the error, c the constant part, q the
\* angle that is left of a after the turn, H half a turn, and the time in units of
\* S a second, where am = a * Abs(S - 5 * t) and Ht = H * t.  It overshoots if t is
\* more than two fifths of a second, and then the constant part makes up for it; in
\* 0.628 seconds the constant part is half a turn.
LEMMA AngleArithmetic ==
  ASSUME NEW H \in Nat, H >= 7, NEW S \in Nat \ {0}, 314 * S <= 500 * H,
         NEW t \in Nat \ {0}, NEW a \in Nat \ {0}, a <= H,
         NEW c \in Nat, 500 * (H * t) < 314 * (c * S) + 314 * S,
         500 * (H * t) >= 314 * (c * S),
         NEW q \in Nat, q * S < a * Abs(S - 5 * t) + S,
         NEW w \in Nat, w <= H,
         q < 3 * H => (q <= H => w = q) /\ (q > H => w = Abs(2 * H - q))
  PROVE  w < a + c
<1> DEFINE m  == Abs(S - 5 * t)
           am == a * m
           aS == a * S
           cS == c * S
           qS == q * S
           HS == H * S
           Ht == H * t
<1>1. /\ am \in Nat /\ aS \in Nat /\ cS \in Nat /\ qS \in Nat /\ HS \in Nat /\ Ht \in Nat
      /\ m \in Nat
  <2>1. m \in Nat
    BY DEF Abs
  <2> HIDE DEF m
  <2> QED BY <2>1
<1>2. /\ 500 * Ht < 314 * cS + 314 * S /\ 500 * Ht >= 314 * cS /\ qS < am + S
  OBVIOUS
<1>3. c >= 1 /\ cS >= S
  <2>1. 500 * Ht >= 500 * H
    <3>1. H * 1 <= H * t
      BY ProductMonotonic
    <3> QED BY <3>1
  <2>2. c # 0
    <3>1. SUFFICES ASSUME c = 0 PROVE FALSE
      OBVIOUS
    <3>2. cS = 0
      BY <3>1
    <3> HIDE DEF Ht, cS
    <3> QED BY <1>1, <1>2, <2>1, <3>2
  <2>3. S * 1 <= S * c
    BY <2>2, ProductMonotonic
  <2> QED BY <2>2, <2>3
<1>4. (a + c) * S = aS + cS /\ (a + 1) * S = aS + S /\ (c + 1) * S = cS + S
  OBVIOUS
<1>5. ASSUME w * S < aS + cS
      PROVE  w < a + c
  BY <1>4, <1>5, LessFactor
<1>6. CASE 5 * t <= 2 * S
  <2>1. m <= S
    BY <1>6 DEF Abs
  <2> HIDE DEF m
  <2>2. am <= aS
    BY <1>1, <2>1, ProductMonotonic
  <2>3. qS < aS + S
    <3> HIDE DEF am, aS, qS
    <3> QED BY <1>1, <1>2, <2>2
  <2>4. q < a + 1
    BY <1>4, <2>3, LessFactor
  <2>5. w = q
    BY <2>4
  <2> QED BY <1>3, <2>4, <2>5
<1>7. CASE 500 * t >= 314 * S
  <2>1. 500 * Ht >= 314 * HS
    <3>1. H * (314 * S) <= H * (500 * t)
      BY <1>7, ProductMonotonic
    <3> QED BY <3>1
  <2>2. HS < cS + S
    <3> HIDE DEF Ht, HS, cS
    <3> QED BY <1>1, <1>2, <2>1
  <2>3. H < c + 1
    BY <1>4, <2>2, LessFactor
  <2> QED BY <2>3
<1>8. CASE 5 * t > 2 * S /\ 500 * t < 314 * S
  <2> DEFINE Hm == H * m
  <2>1. m = 5 * t - S /\ m > S /\ 100 * m < 214 * S
    BY <1>8 DEF Abs
  <2> HIDE DEF m
  <2>2. Hm \in Nat /\ 500 * Ht = 100 * Hm + 100 * HS
    BY <1>1, <2>1
  <2>3. am <= Hm /\ HS <= Hm
    <3>1. m * a <= m * H /\ H * S <= H * m
      BY <1>1, <2>1, ProductMonotonic
    <3> QED BY <1>1, <3>1
  <2>4. 100 * am <= 214 * aS /\ 100 * Hm <= 214 * HS
    <3>1. a * (100 * m) <= a * (214 * S) /\ H * (100 * m) <= H * (214 * S)
      BY <1>1, <2>1, ProductMonotonic
    <3> QED BY <1>1, <3>1
  <2>5. 7 * S <= HS
    <3>1. S * 7 <= S * H
      BY ProductMonotonic
    <3> QED BY <3>1
  <2>6. am - aS <= Hm - HS
    <3>1. m - S \in Nat
      BY <1>1, <2>1
    <3>2. (m - S) * a <= (m - S) * H
      BY <3>1, ProductMonotonic
    <3> QED BY <1>1, <3>2
  <2>7. q < 3 * H
    <3>1. qS < 3 * HS
      <4> HIDE DEF Ht, HS, Hm, am, aS, cS, qS
      <4> QED BY <1>1, <1>2, <2>2, <2>3, <2>4, <2>5
    <3>2. (3 * H) * S = 3 * HS
      OBVIOUS
    <3> QED BY <3>1, <3>2, LessFactor
  <2>8. CASE q <= H
    <3>1. w = q /\ w * S = qS
      BY <2>7, <2>8
    <3>2. CASE 10 * m <= 14 * S
      <4>1. 10 * Hm <= 14 * HS
        <5>1. H * (10 * m) <= H * (14 * S)
          BY <1>1, <3>2, ProductMonotonic
        <5> QED BY <1>1, <5>1
      <4>2. qS < aS + cS
        <5> HIDE DEF Ht, HS, Hm, am, aS, cS, qS
        <5> QED BY <1>1, <1>2, <2>2, <2>5, <2>6, <4>1
      <4> QED BY <1>5, <3>1, <4>2
    <3>3. CASE 10 * m > 14 * S
      <4>1. 10 * Hm >= 14 * HS
        <5>1. H * (14 * S) <= H * (10 * m)
          BY <1>1, <3>3, ProductMonotonic
        <5> QED BY <1>1, <5>1
      <4>2. qS <= HS
        <5>1. S * q <= S * H
          BY <2>8, ProductMonotonic
        <5> QED BY <5>1
      <4>3. qS < aS + cS
        <5> HIDE DEF Ht, HS, Hm, am, aS, cS, qS
        <5> QED BY <1>1, <1>2, <2>2, <2>4, <2>5, <4>1, <4>2
      <4> QED BY <1>5, <3>1, <4>3
    <3> QED BY <1>1, <3>2, <3>3
  <2>9. CASE q > H
    <3>1. HS < am
      <4>1. S * (H + 1) <= S * q
        BY <2>9, ProductMonotonic
      <4>2. HS + S <= qS
        BY <4>1
      <4> HIDE DEF HS, am, qS
      <4> QED BY <1>1, <1>2, <4>2
    <3>2. w = Abs(2 * H - q)
      BY <2>7, <2>9
    <3>3. CASE q <= 2 * H
      <4>1. w < H
        BY <2>9, <3>2, <3>3 DEF Abs
      <4>2. HS < aS + cS + S
        <5> HIDE DEF Ht, HS, Hm, am, aS, cS, qS
        <5> QED BY <1>1, <1>2, <2>2, <2>3, <2>4, <3>1
      <4>3. (a + c + 1) * S = aS + cS + S
        OBVIOUS
      <4>4. H < a + c + 1
        BY <4>2, <4>3, LessFactor
      <4> QED BY <4>1, <4>4
    <3>4. CASE q > 2 * H
      <4>1. w = q - 2 * H /\ w * S = qS - 2 * HS
        BY <3>2, <3>4 DEF Abs
      <4>2. qS - 2 * HS < aS + cS
        <5> HIDE DEF Ht, HS, Hm, am, aS, cS, qS
        <5> QED BY <1>1, <1>2, <1>3, <2>2, <2>3, <2>4, <3>1
      <4> QED BY <1>5, <4>1, <4>2
    <3> QED BY <3>3, <3>4
  <2> QED BY <2>8, <2>9
<1> QED BY <1>6, <1>7, <1>8

\* The angle.
LEMMA AngleApproaches ==
  ASSUME FineUnits, NEW deltaTime \in Nat \ {0},
         NEW error \in -HalfTurn .. HalfTurn - 1, error # 0
  PROVE  Abs(AngleError(error, deltaTime)) < Abs(error)
<1> DEFINE a == Abs(error)
           m == Abs(Second - 5 * deltaTime)
           x == error * (Second - 5 * deltaTime)
           p == x \div Second
           w == WrapRadians(p)
           y == 5 * HalfTurn * deltaTime * 100
           b == 314 * Second
           c == y \div b
           Ht == HalfTurn * deltaTime
<1>1. /\ HalfTurn \in Nat /\ HalfTurn >= 7 /\ Second \in Nat \ {0}
      /\ 314 * Second <= 500 * HalfTurn
  BY MotionAssumption DEF FineUnits
<1>2. a \in Nat \ {0} /\ a <= HalfTurn
  BY <1>1 DEF Abs
<1>3. x \in Int /\ Abs(x) = a * m
  <2> DEFINE k == Second - 5 * deltaTime
  <2>1. k \in Int /\ error \in Int
    BY <1>1
  <2> HIDE DEF k
  <2>2. error * k \in Int /\ Abs(error * k) = Abs(error) * Abs(k)
    BY <2>1, AbsProduct
  <2> QED BY <2>2 DEF k
<1>4. y = 500 * Ht /\ y \in Nat /\ Ht \in Nat /\ b \in Nat \ {0}
  BY <1>1
<1>5. c \in Nat /\ y >= 314 * (c * Second) /\ y < 314 * (c * Second) + 314 * Second
  <2> HIDE DEF y, b, Ht
  <2>0. y \in Nat /\ b \in Nat \ {0}
    BY <1>4
  <2>1. /\ c \in Nat /\ y % b \in 0 .. b - 1 /\ y = b * c + (y % b)
    BY <2>0, Division
  <2> DEFINE d == b * c
  <2>2. d \in Nat
    BY <1>4, <2>1
  <2>3. d = 314 * (c * Second)
    BY <1>1, <2>1 DEF b
  <2> HIDE DEF d, c
  <2>4. y >= d /\ y < d + b
    BY <1>4, <2>1, <2>2 DEF d
  <2> QED BY <2>1, <2>3, <2>4 DEF b
<1>6. p \in Int /\ Abs(p) \in Nat /\ Abs(p) * Second < a * m + Second
  <2> HIDE DEF x, a, m
  <2> QED BY <1>1, <1>3, RoundedQuotient
<1>7. /\ w \in Int /\ Abs(w) \in Nat /\ Abs(w) <= HalfTurn
      /\ Abs(p) < 3 * HalfTurn =>
           /\ Abs(p) <= HalfTurn => Abs(w) = Abs(p)
           /\ Abs(p) > HalfTurn  => Abs(w) = Abs(2 * HalfTurn - Abs(p))
  <2> HIDE DEF p
  <2>1. w \in Int
    BY <1>6, WrappedSize
  <2>2. Abs(w) \in Nat
    BY <2>1 DEF Abs
  <2> QED BY <1>6, <2>1, <2>2, WrappedSize
<1> DEFINE q == Abs(p)
           v == Abs(w)
<1>8. v < a + c
  <2>1. /\ 500 * (HalfTurn * deltaTime) < 314 * (c * Second) + 314 * Second
        /\ 500 * (HalfTurn * deltaTime) >= 314 * (c * Second)
    BY <1>4, <1>5
  <2>2. q \in Nat /\ q * Second < a * Abs(Second - 5 * deltaTime) + Second
    BY <1>6
  <2>3. /\ v \in Nat /\ v <= HalfTurn
        /\ q < 3 * HalfTurn => /\ q <= HalfTurn => v = q
                               /\ q > HalfTurn => v = Abs(2 * HalfTurn - q)
    BY <1>7
  <2> HIDE DEF q, v, a, c
  <2> QED BY <1>1, <1>2, <1>5, <2>1, <2>2, <2>3, AngleArithmetic
<1>9. Abs(ConstantInterpolate(w, c)) < a
  <2> HIDE DEF w, a, c
  <2> QED BY <1>2, <1>5, <1>7, <1>8, Interpolated
<1> QED BY <1>9 DEF AngleError, Lerp

\* In every frame that Update lets through, smoothing brings the shown player nearer
\* to where he is, whatever the error, if the units are fine.
LEMMA SmoothingTrue ==
  ASSUME FineUnits
  PROVE  SmoothingApproaches
<1>1. ASSUME NEW deltaTime \in 1 .. MaxFrameSeconds * Second
      PROVE  deltaTime \in Nat \ {0}
  BY MotionAssumption
<1>2. ASSUME NEW deltaTime \in 1 .. MaxFrameSeconds * Second,
             NEW error \in -3 * Second .. 3 * Second, error # 0
      PROVE  Abs(PositionError(error, 1, deltaTime)) < Abs(error) * Second
  <2>1. error \in Int
    OBVIOUS
  <2> QED BY <1>2, <2>1, PositionApproaches
<1>3. ASSUME NEW deltaTime \in 1 .. MaxFrameSeconds * Second,
             NEW error \in -HalfTurn .. HalfTurn - 1, error # 0
      PROVE  Abs(AngleError(error, deltaTime)) < Abs(error)
  BY <1>1, <1>3, AngleApproaches
<1> QED BY <1>2, <1>3 DEF SmoothingApproaches

\* ApplyResycSmoothing never moves the shown player away from where he is, in
\* position or in angle, in any frame that Update lets through, although Lerp and
\* SetSlerp overshoot in long ones: for any units that are fine enough for their
\* rounding not to matter.
THEOREM SmoothingConverges ==
  ASSUME FineUnits
  PROVE  Spec => []SmoothingStable
<1>1. SmoothingStable
  BY SmoothingTrue DEF SmoothingStable
<1> QED BY <1>1, PTL
=============================================================================
