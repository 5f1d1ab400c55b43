# Verification of the rollback netcode

This directory holds a TLA+ specification of the game's netcode (`src/Code`), the
TLC configurations that model-check it on small instances, and proofs, checked by
TLAPS, of its most important safety properties for every value of its constants.

The game is a first-person shooter on CryEngine in which every client simulates
the whole world. Players exchange nothing but their inputs, tick by tick, through
a server that stores and repeats them. A client predicts the inputs it does not
have, and rolls back and simulates again when they arrive.

## 1. Inventory

| Part | Source | State | Operations | Module |
|---|---|---|---|---|
| Input window | `Net/PlayerInputsSynchronizer.*`, `RingBuffer` and `OptInt` in `Rollback/GameState.h` | last acked tick, last tick, ring of the last `MAX_TICKS_TO_TRANSMIT` inputs | `Enqueue`, `Ack`, `GetPaket`, `ParsePaket`, `UpdateFromPacket` | `InputSync`, `InputWindow` |
| Datagram format | `Net/ClientToServerUpdate*`, the parts of `flatbuffers/` it uses | buffer, vtables | build, verify, read | `FlatBuffer` |
| Network client | `NetworkClient.*` | `m_tickNum` (atomic), one window per player, player number, start time, queue of received inputs | main thread: `EnqueueTick`, `SendTicks`, `GetInputUpdates`; network thread: `Start`, `DoWork` | `InputRelay`, `Lobby` |
| Network server | `NetworkServer.*` | seats, counter, one window per player | `DoWork` (`UpdateServerData`, `BuildResponsePacket`) | `InputRelay`, `Lobby` |
| Input queue | `lib/readerwritercircularbuffer.h`, `LightweightSemaphore` in `lib/atomicops.h` | ring, two indices, two counts and kernel semaphores | `try_`/`wait_`/`wait_..._timed` enqueue and dequeue, `try_pop`, `peek` | `CircularBuffer`, `BoundedFifo` |
| UDP | sockets in `NetworkClient.cpp`, `NetworkServer.cpp` | datagrams | lose, repeat, reorder | `InputRelay`, `Lobby` |
| Game state manager | `Rollback/GameStateManager.*` | `m_tickNum`, ring of ticks (states and inputs) and its head; accumulators of time and input | `DoRollback`, `Update` | `GameStateManager`, `FrameTicks` |
| Simulation | `Rollback/Simulation.*` | none | `Next` | symbolic in `GameStateManager`, one axis in `Motion` |
| Main loop | `GamePlugin.cpp` | delay, `m_rollbackInitialised`, `m_lastUpdateTime` | `MainUpdate`, `OnAction`, `TryInitialiseRollback` | `LocalInput`, `GameStateManager`, `Lobby` |
| Resync smoothing | `GamePlugin.cpp` | shown positions and angles | `ApplyResycSmoothing` | `Motion` |
| Player component | `Components/Player.*` | input flags, mouse movement, filter | input handlers, `Revive`, `GetInput`, `NetSerialize`, `MovingAverage` | `LocalInput`, `Motion` |
| Threads | `ThreadRunner.*` | stop flag, never set | `Start`, then `DoWork` for ever | fairness of `InputRelay` and `Lobby` |
| Tests | `GamePlugin.cpp` | `CTestNetUdp` | | `UnitTests`, `FrameTests` |
| `RollbackPlayer`, bullets, spawn points, assets, unused vendored headers | | | | not modelled |

How they interact:

- In each frame the main thread of a client samples keys and mouse, calls
  `DoRollback`, which takes every update out of the queue, and then `Update`, which
  simulates the ticks that are due, calls `EnqueueTick` for each and `SendTicks` once.
- The network thread of a client receives a datagram at a time, puts the inputs of
  the other players into the queue (waiting if it is full) and acks every window.
  The main thread and the network thread share the windows and `m_tickNum`
  without a lock.
- The server answers each request with the inputs of every player that come after
  the last tick of that player that the request names.
- Nothing is repeated by a timer. What is lost is sent again because the window
  still holds it, and the window moves only on acks. The handshake is sent once.

What is hard here: two unsynchronised threads in each client, datagrams that are
lost, repeated and reordered, a ring that wraps under indices computed at both
ends, windows and queues at their limits, updates that come late or early for a
ring of past ticks, frames that do not end where ticks do, and a start that reads
what another thread (or nobody) has written. The list with source lines is `hazards`
in `PROJECT.json`.

What makes each part correct:

- *window*: a receiver gets exactly the inputs it lacks, each under its own tick,
  also when the two threads of the sender are in the middle of it;
- *format*: what is written is what is read, and no kind of message is taken for
  another;
- *queue*: a bounded first-in first-out queue that neither loses a wakeup nor lets
  both threads at one slot;
- *relay*: nobody's input is lost, shifted, or given to somebody else; an ack never
  runs ahead of the hand-over; neither fatal error can happen; nothing blocks;
- *rollback*: between frames the states in the ring are those of the best known
  inputs, whatever arrived when, and the state shown is as old as the delay says;
- *input*: tick `t` is made when `t` ticks' time has passed since the start, and every
  key and movement goes into a tick once;
- *start*: every player begins, once all are there, under a number of its own.

## 2. Modules

```
InputSync ─┬─ InputWindow ─── MCInputWindow   (UnitTests, FrameTests, FlatBuffer)
           │                    ├─ InputWindowProofs
           │                    └─ FlatBufferProofs
           ├─ InputRelay ──┬─ MCInputRelay         InputStream (abstract)
           │               └─ InputRelayProofs
           ├─ GameStateManager ─┬─ MCGameStateManager
           │                    └─ GameStateManagerProofs
           └─ InputSyncProofs   (the lemmas of the proof modules above)
CircularBuffer ── CircularBufferProofs             BoundedFifo (abstract)
FrameTicks ── LocalInput ── MCLocalInput (Motion) ── LocalInputProofs
Lobby ── LobbyProofs
```

**InputSync** has the operations of `CPlayerInputsSynchronizer` as operators on a
record, and the packet as a record of its fields. `OptInt`'s `INT_MIN` is `-1`: like
`INT_MIN` it is below every tick, and the code only compares it and tests it.
A vector is an array of `MaxTicks` inputs and a count. `GetPaket` returning false is
`CanGetPaket`.

**InputWindow** is one window of a client, word by word. `m_lastTickAcked` and
`m_tickNum` are plain `int`s that the main thread reads and writes in `Enqueue` and
`GetPaket` while the network thread writes them in `Ack`. Each action is one access to
one of these words, in program order, except that the two stores of `Ack` may come in
either order. The window is the client's own, whose packets the server takes in, or its
copy of another player's, which it only sends acks from (`own`). A word is read and
written whole. The undefined behaviour that a data race is by the letter of C++ is
taken as what the compilers make of it.

**UnitTests** and **FrameTests** are the repository's own tests, assertion for
assertion, over the operators of `InputSync` and `FrameTicks`, so that the models are
held against the same expectations as the code. The second packet of
`TestNetworkServerHandlesFirstTwoPackets` has one input: the test lists two, but tells
`CreateVectorOfStructs` that there is one (`GamePlugin.cpp:1652`). What the server makes of
both, `ServerHandlesListedInputs` says besides.

**FlatBuffer** is the datagram with inputs: what the builder writes (from the end of the
buffer, with alignment and shared vtables), what the generated `Verify` accepts and what
the accessors read. Cells stand for what one call writes; sizes and addresses are in
bytes and true.

**InputRelay** composes the windows of all clients and of the server, with the two
threads of each client, the queue and the network.

| Action | Code |
|---|---|
| `DequeueInputs(p)` | one turn of the `while` in `DoRollback`, up to the writing of the inputs |
| `EnqueueTick(p)` | one tick in `Update`: `m_tickNum`, `Enqueue` |
| `SendTicks(p)` | `SendTicks` at the end of `Update` |
| `ReceiveReply(p)` | `Receive` in `DoWork` |
| `ReceiveNumber(p)` | the branch of `DoWork` for `'p'`, on a reply that could not be built |
| `HandleSync(p)` | one turn of the loop over the players in `DoWork`: `ParsePaket`, `wait_enqueue`, `Ack` |
| `ServerDoWork(p)` | `DoWork` of the server on a request of `p`: all windows are updated, then the reply is built |
| `LoseRequest`, `LoseReply`, `OvertakeReply` | the network; repetition is a receive that does not remove the datagram |

A client's `frame` counts the ticks of the current frame: 0 while `DoRollback` runs, which
includes the last look at the queue: an update that is queued between it and the first tick
waits for the next frame either way.
Threads interleave between these actions, whose insides are `InputWindow` and
`CircularBuffer`. A fatal error (`CryFatalError`) stops the client. Requests are a set,
so they overtake each other freely; replies are a sequence, reordered only if
`RepliesReorder`. `SendTicks` reads all windows in one step, although an `Ack` may come
between two of them; the entries of a request are about different players and are taken one
by one.

A reply that `BuildResponsePacket` could not build is sent all the same. No client takes
inputs from it (`UnbuiltRepliesIgnored`), but if it begins with `'p'` its receiver sets
`m_playerNumber` to its second byte. The constant operator `NumberRead` says which number
that is, if any, for the packets that had been built; `rootless` keeps these numbers, so that
such a reply may come at any later time, any number of times, or never. The client goes on
under the number: it takes the inputs of that player for its own, stores its own there, and
is followed no further if there is no such player. `NoneMisread` says that no client has been
sent another number than its own. The properties of the clients hold until that ends; that
of the server, `ServerNeverForgets`, holds throughout.

**InputStream** is the abstract specification: each player's inputs form a stream,
and what every other client holds is a growing prefix of it. `InputRelay!StreamSpec`
states the refinement, with `received` (what `DoRollback` has written) as the
mapping. It has no windows, packets, threads or server.

**CircularBuffer** is the queue between the threads in steps of one atomic operation: the
count of each `LightweightSemaphore`, the spinning, the semaphore of the kernel with its
timeout, the two indices that wrap at the end of `size_t`, and the slots. All functions of
the interface are there, also those the game does not call. **BoundedFifo** is what it
promises; the refinement mapping reads the buffered items off the ring.

**GameStateManager** has the ring of ticks of one client. An update of `size` ticks is
taken in by `TakeUpdate`, `Resimulate` is the last loop of `DoRollback`, `Update(n)` a
whole frame of `n` ticks including the remainder and the choice of the state to show,
`OnAction` the delay keys. `CSimulation::Next` is symbolic: the state of a player is
the sequence of inputs applied to it. Two states that are equal here are equal for
every deterministic step that treats players separately, which `CSimulation::Next`
does.

**FrameTicks** is the arithmetic of `Update`: from the time and the input of a frame to
ticks and a remainder. **LocalInput** drives it: key and mouse handlers of
`CPlayerComponent` in any order, the creation of the entity, `Revive` at any time and
as often as the engine likes, the reset of game mode, and `MainUpdate` with frames of
any length, before and after `TryInitialiseRollback`. The start time and
`m_lastUpdateTime`, which no constructor sets, begin as any of the constant `Leftovers`.
Time is in whole units, so what the code's floating point division drops is counted
as `rounded`.

**Motion** is what can be said in integers of `CSimulation::Next` (one axis, the
wrapping of the yaw and the limits of the pitch), of `ApplyResycSmoothing` (one position
axis, one angle) and of
the mouse's `MovingAverage`.

**Lobby** is the handshake: `'c'`, `'p'`, `'s'`, and `TryInitialiseRollback`. A behaviour
is `good` or has `faults` left: datagrams the network loses, repeats or reorders, and
(if `JunkTimes`) clients whose start time or `m_lastUpdateTime` was junk from the
beginning, because no constructor sets them.

Definitions whose comment begins with "Fault" are wrong versions of the definition
that follows. No specification uses them; they document which mistake in the code
each property notices (`mutants` in `PROJECT.json`).

## 3. What is checked

### Window and format

`InputWindow` (ticks 0 to 4, a ring of 3, replies of the server in any order): every slot is
overwritten and every alignment of window and ring occurs, and `Ack` falls between any
two accesses of `Enqueue` and `GetPaket`.

- `TornPacketsIgnored`: the words that `GetPaket` reads need not belong together. Every
  packet that is not true because of this is one that the server ignores.
- `ServerHoldsPlayed`: so what the server stores is what was played.
- `NeverUninitialized`: `value()` after `has_value()` does not end the process, as long as
  replies keep their order. If they do not, `Ack` can take a value away between the two.
- `PacketRoundTrip`: for every position of sender and receiver, what is parsed from a
  packet is what the receiver lacks, and the ring written at once (as `InputSync` does) is
  the one the loop leaves.
- `TestsAgree`: the repository's tests of the synchronizer, the client, the server and
  `Update` hold of the operators, that of two packets also with both inputs it lists.
- `DatagramsGetThrough`: with the code's own 2 players and 256 ticks, a datagram with
  windows of any shape fits the buffers, is not mistaken for another message, is accepted
  by the verifier, and is read as it was written. Whether two tables share a vtable
  depends on their shapes, so these are combined: no tick, no inputs, 1, 2, 3 and 256.
- `UnbuiltRepliesIgnored`: a reply that could not be built is not taken for inputs. It starts
  with the byte of the message with the player's number for 7, 71, 135 and 199 inputs, and
  the number is then 0, 3, 6 or 9.

The last three do not depend on the state; they are evaluated once, in an initial state.

### Queue

`CircularBuffer`: capacity 3, 4 slots, indices that wrap at 8. So the capacity is not the
allocated size, which is a power of two, and both kinds of wrapping occur. Two items are
enough to see a swap. `AccessSound` says that the threads never meet in a slot, `OneWakeup`
that the kernel's semaphore is posted exactly for who waits, `BufferInv` is the inductive
invariant, `FifoSpec` the refinement of `BoundedFifo`, `FailureIsTrue` that calls fail only
on a queue that is empty or full. Liveness assumes that the scheduler lets both
threads go on within a call (`FairSpec`), and nothing about when they call:
`TimedCallsReturn`, and `WaitersAreServed` once there is room or an item.

### Relay

Every input carries its player and tick, so an input that is shifted, mixed up or
stale is seen at once.

| Run | Bounds | Shows |
|---|---|---|
| `RelayInOrder` | 2 clients, ring 2, 2 ticks each, 2 datagrams per socket, queue of 1; what one client sends and is sent is lost and repeated | `AckedInputsDelivered`, and that the relay implements `InputStream`, so no gap is ever left in what a client has been given |
| `RelayReordered` | 3 and 1 ticks, 2 datagrams per socket, which overtake each other, are lost and come again; every reply that could not be built is read as a number | `WindowNeverSkipsServer`, `NoFatalError`, `ReceivedInputsExact`, `ServerNeverForgets` |
| `RelayLiveness` | the whole game of up to 3 ticks each, 1 datagram per socket, nothing received twice | `TypeOK`; a client that is more than a window ahead of the server, or behind another player, stays cut off (`CutOffForGood`, `DeafForGood`); `ReplyWorkedThrough`, `AckedInputsApplied` under fairness |
| `RelayReorderedGap` | as `RelayInOrder`, but replies overtake each other; one client reads its replies | `AckedInputsDelivered` **fails** |

Each run is as wide as its question needs and the time of a check allows, and narrow
elsewhere; the proofs of section 4 have none of these bounds, and together the runs have
every action. `RelayReorderedGap` is `RelayInOrder` with replies that overtake each other (and
fewer of them read): one tick would not do in either, for a gap needs a reply that starts
after a tick which its receiver lacks, and so two acks and two replies in flight. `RelayReordered` needs a client with 3
ticks in a ring of 2: the other one receives them in windows that overlap, after the ring
has wrapped. In `RelayLiveness` both clients play as many ticks as overflow the window.

`MaxTicksOf0`, `MaxTicksOf1` and `MaxTotalTicks` bound the ticks as a state constraint; they
are no part of `InputRelay`, nor are the narrower searches of `MCInputRelay`. `OneTickFrames`
is frames of one tick. `AcksOf0`: player 0 reads only replies without inputs of player 1
(the ticks it needs are those that player 1 receives). `OneReader`: it reads none.
`RequestsOf0Once`: the server answers a request of player 0 once. `QuietNetwork`: besides, no
datagram from or to player 0 is lost, but at a full socket, or read twice; those of
player 1, who receives the inputs, are. The specification treats players alike, so these
stand for the same with the players exchanged. `MCNumberRead` computes what a client reads
with `FlatBuffer`; as windows of a ring of 2 are too short to begin with `'p'`,
`RelayReordered` has `MCNumberEach`, which takes every reply without a root for a number, 0
or 1. `GameDuration` is a constant of the code; `Ticks` goes `MaxTicks` past it because
`Update` tests it once per frame. Two players are the code's `NUM_PLAYERS`.

The liveness run has no state constraint: the game ends by itself. It leaves out that a
datagram is received twice (`NoRepeats`), which no thread depends on. Fairness is assumed of
the main thread (the engine calls `MainUpdate` every frame) and of the network thread
(`CThreadRunner` loops for ever), separately and weakly. Nothing is assumed of the
network or of the server, so only what a client owes itself can be promised: a
datagram that is being worked through is finished although the queue may be full, and
an acked input is written into its tick.

### Rollback

`Rollback`: 2 players, a ring of 4 that wraps twice (7 to 10 ticks), frames of 0 to 4
ticks, updates of 1 to 4 ticks at any moment, a lag of up to 3 ticks, every delay.
`TypeOK`, `RemoteStatesAreBestKnown`, `OwnStatesAreExactAlone` and `ShowsDelayedTick` hold.
`MaxLag` and `Ahead` are assumptions about arrival times, which nothing in the code
enforces. With `MaxLag` one longer `RemoteStatesAreBestKnown` fails, because an input
for a tick that has left the ring is written into the slot of another tick; `RollbackAhead`
is the run that goes one past `Ahead` (below). With three players, when one `DoRollback`
gets updates of two, the lag has to be one tick shorter. `ShowsDelayedTick` is about the own
player for every delay: his state is that of the newest tick, with the input he gave in it,
and where his inputs have brought him as long as nothing has arrived (after a rollback it
need not be, finding 2). Of the others it leaves out the longest delay that the keys can
set, `MAX_TICKS_TO_TRANSMIT - 1`: the slot it shows is the scratch slot after the head.

### Input

`LocalInput`: ticks of 3 units, a ring of 2, frames of 0 to 7 units (from none to one that
`Update` refuses), 18 units in all, which is past the end of the game of 4 to 5 ticks, two keys
that are interchangeable, mouse movement that does not divide evenly, and memory that held 0 or
4 where a start time of 2 belongs.

- `TicksFollowClock`: a client is at tick `t` when `t` ticks' time has passed since the
  start, less the frames that `Update` refused; no frame makes more ticks than the
  ring holds. That refused frames are lost, so that a client falls behind the others for
  good, is how the code is: the property says that nothing else is. The start is the
  server's, unless memory that no constructor sets held something else.
- `MouseKept`: each movement goes into ticks once, over frames with no tick and with several,
  or is counted as lost. It is lost in a frame that `Update` refuses, an empty one too, because
  `GetInput` has taken it already, and when the player is revived in the middle of the game
  (`disturbed`); otherwise only rounding loses anything, less than a unit a tick.
- `KeysTrue`: the ticks of a frame have exactly the keys that were set when one of the frames
  since the last tick was sampled (`sampled`, and the flags now). A key that is set only
  between two frames, or in refused ones, is in no tick.
- `SimulationStable`, `SmoothingStable`, `CopiesAreTrue` are about operators of `Motion` and
  `NetSerialize`, over all arguments in a range, and are evaluated in the first state: a
  player comes to rest and never swings back, angles wrap to the same direction, the pitch
  stays in its range, a turn is the same however it is divided among ticks (`TurnsAddUp`),
  smoothing never moves the shown player away in any frame that `Update` lets through, copies
  of flags are true and the filter averages what it was given.

What the model shows about the code, without a text that says otherwise: a player who is
revived more than two seconds (`MAX_TICKS_TO_TRANSMIT` ticks) after the start begins with a
refused frame, and lags from the start; mouse movement during the countdown goes into the
first ticks; a key that is tapped within a frame is never seen; opposite keys coast
without friction; the partial step that is shown, when it brakes a player to rest, leaves
him where the last whole tick was.

### Start

`Lobby`: 3 clients for 2 seats, sockets of 2 datagrams, one fault. In good conditions
`PlaysInOwnSeat`, and `GameStarts` under fairness of the threads and of the engine, which
is taken to revive its player. In any conditions `TypeOK` and `NumberIsOwn`. `GameStarts`
cannot hold with faults: nothing is sent again. One fault is enough for each kind:
a lost, repeated or overtaken datagram, or a client with junk times. `LobbyLostNumber` has no
junk (`JunkTimes = FALSE`), so that its fault is one of the network.

### Where code and claims disagree

Each is a run that TLC ends with a violation; the texts that are contradicted are quoted
under `findings` in `PROJECT.json`.

1. `RelayReorderedGap`. `Ack` takes whatever tick the last reply to arrive carries. An
   older reply that comes late moves the ack back; then a reply that starts after the
   newer tick is "too short", is discarded, and is acked. Its inputs never come again.
2. `RollbackOwn`. `Update` simulates tick `k` with the own input stored in slot `k + 1`,
   `DoRollback` with that in slot `k`: after a rollback the own player has been given
   one input twice and its newest not at all.
3. `RollbackAhead`. An input that arrives before its tick is simulated is overwritten
   by the prediction.
4. `LobbyLostNumber`. A client whose `'s'` overtakes its `'p'` (or whose `'p'` is lost) begins
   as player 0, next to player 0.

The format showed one more thing. When `GetPaket` fails, `DoWork` finishes the builder
without a root; the library's assertion against this is in debug builds only. The root
of such a datagram is its own end, so the verifier rejects it as inputs. But if it
repeats 7, 71, 135 or 199 inputs of the player before the one whose window did not fit, its first byte
is `'p'`, and the client takes its second byte for its player number: 0, 3, 6 or 9.
From then on it sends its inputs as those of player 0, or writes outside its windows. `InputRelay` has this; what its properties
say ends there (`NoneMisread`).

## 4. What is proved

`InputSyncProofs` has lemmas about the operators: the types of their results, that two
of at most `MaxTicks` consecutive ticks never share a slot (from the definition of `%`),
what a parse returns, and what `EnqueueAll` leaves in each slot. It also has induction over
numbers in the form the provers can use: a set that contains 0, and with each number below
`n` the next one, contains `n` (`InductionUpTo`, from the well-foundedness of `<`). With it
the loops of the code, recursive functions and a fold here, have values: first such a set
shows that a function with the loop's equation exists, then another one that its turns do
what the loop is for.

### Window

`InputWindowProofs` proves, for any ring, any number of ticks and replies in any order
(`InputSyncAssumption`, and `InputWindowAssumption`: the tick numbers are among the inputs):

| Theorem | Property |
|---|---|
| `WindowInvariant` | the inductive invariant `WindowInv` |
| `TornIgnored` | `TornPacketsIgnored` |
| `HoldsPlayed` | `ServerHoldsPlayed` |
| `Initialized` | `NeverUninitialized` |
| `RoundTrip` | `PacketRoundTrip` |
| `TestsHold` | `TestsAgree`, if the ring has room for two inputs |

`WindowInv` keeps apart the two sources of a word. It holds a tick from a reply, which
the server then has already (`ServerInv`), or the own player's last tick, up to which the
ring is right, but for the slot that `Enqueue` is about to write (`WordsInv`, `RingInv`).
`GetPaket` names its packet by a last read of `m_tickNum`. If that gives a tick from a reply,
the packet is old, whatever is in it. Otherwise it gives the tick that the inputs were
copied up to (`LabelInv`), because only the main thread raises `m_tickNum` beyond the
replies, and then they are true and begin where the server has them (`RequestInv`).
`UpdateHolds` says that the server may take in either kind. `ValuesInv` is about
`has_value()` and `value()`: the own player's replies always carry a tick, and replies in
order do once one has.

`RoundTrip` needs more of the words between two calls: the own window's ack is that of the
last reply, and its end is there or at the last tick played, but for a store of `Ack` that is
still to come (`SettledInv`). So a sender at rest and a receiver that is not ahead of it agree
on the first tick that the receiver lacks (`ParsedIsMeant`). That the loop of
`UpdateFromPacket` leaves the ring that `EnqueueAll` describes at once is `EnqueueLoop`, by
induction over its turns: at most `MaxTicks` of them, so none writes over another.

`TestsHold` is about the repository's tests, which TLC evaluates with a ring of 3, and about
the packet with both of the listed inputs. Most are calculations. Two of them fill the ring, or overfill it by one, and hold for every size, the
256 of the program among them, by induction over the inputs (`FilledIs`).

### Relay

`InputRelayProofs` proves, for any number of players, any ring, queue and socket size,
any game length, any user input, and whether or not replies are reordered:

| Theorem | Property |
|---|---|
| `TypeSafe` | `TypeOK` |
| `RelayCorrect` | the inductive invariant `RelayInv` |
| `NeverFatal` | `NoFatalError` |
| `ReceivedExact` | `ReceivedInputsExact` |
| `NumbersStay` | `NumbersKept`: every client has the number it was given |
| `ServerKeepsWindow` | `ServerHoldsWindow` |
| `NothingSkipped` | `WindowNeverSkipsServer` |
| `NeverForgets` | `ServerNeverForgets` |
| `NoWayBack` | `CutOffForGood` |
| `NoReplyAnyMore` | `DeafForGood` |

Assumptions: `InputSyncAssumption` (`MaxTicks` positive, `NoInput` not an input) and
`InputRelayAssumption` (types of the other constants).

All but the first and `NeverForgets` have the condition `NoneMisread`, in the property or in
the theorem. Once a number has been sent that may be misread it never ends to be so
(`MisreadStays`), so the invariant need not hold from then on.

*The types* (`TypeInv`) need the bound on ticks (`TickInv`): what `EnqueueTick` stores is
`UserInput[p][t]`, an input only if `t` is a tick of the game, and `Update` tests the
end of the game once per frame.

*The invariant.* `NoFatalError` says that the server never knows more of a player than
the player's network thread sees in `m_tickNum`. By itself it is not inductive: it
depends on everything that is on its way. `RelayInv` says of each place that data can be
in that it is true and how far it may reach:

- the server's window holds the real inputs, and ends at most at the player's tick;
- a client's own window holds its real inputs; its ack is at most the server's tick;
  it ends at its newest tick, or at its ack if the network thread acked between
  `EnqueueTick` and `SendTicks`;
- of the others a client has only an ack, of a tick that the server has, so its
  requests carry no inputs of others;
- a request is true of its sender and starts no later than the server's next tick, so
  that the server never finds it too short and never skips an input;
- replies, queued updates and received inputs are true, and of ticks the server has.

"True" is `Exact`: input `i` of a packet is what that player did in the tick that the
position stands for. Server ticks only grow, so "at most the server's tick" stays true
while a datagram is delayed or repeated, which is why the order of replies does not
matter to these properties.

Each action has a lemma that it preserves the invariant. `GetPaketExact`,
`ParsePaketExact`, `EnqueueHoldsWindow` and `UpdateFromPacketExact` say what the
operations of the window mean for truth, once, and the lemmas of the actions cite them.

The second half of the module proves, for the same constants and until a number may be
misread, but with replies in order (`~RepliesReorder`):

| Theorem | Property |
|---|---|
| `HandOverComplete` | the inductive invariant `Ordered` |
| `AcksDelivered` | `AckedInputsDelivered` |
| `RelayIsStream` | `StreamSpec`, if `[]NoneMisread`: every step is a step of `InputStream` or a stutter |
| `UpdatesNotEmpty` | `NoEmptyUpdates`: no update in a queue is without inputs (in any order of replies) |
| `RelayFeedsRollback` | `FeedsRollback`: what a client's rollback is given |

Here the truth of what is taken is not enough: nothing may be left out. The hypothesis is
needed, as finding 1 shows, and it is all that is assumed of the network, which may still
lose and repeat replies and reorder requests. `OrderInv` says why a client's ack never
passes a gap: no request names a tick that the client does not have (`RequestsKnown`); the
replies under way come in the order of their ticks, and each of them goes on from the ack
as it is now (`RepliesInOrder`), as does the one that is being worked through
(`ReplyFirst`). The ack grows, but only up to the tick of the reply that moves it, so the
replies behind still go on from it when their turn comes. `HandOverInv` says of each
client and each other player that what it has written into its ring is a prefix of that
player's stream, that each entry of the queue goes on where the entries before it end, and
that with the last of them the prefix reaches the ack. So `DequeueInputs` is
`InputStream`'s step, and every other action a stutter.

`RelayFeedsRollback` joins the two halves of a client. `GameStateManager` has no network: its
`TakeUpdate` takes updates from an environment that it describes. `FeedsRollback` says of each
`DequeueInputs` of the relay that its update is of another player, goes on where the last one
of that player ended, has between one and `MaxTicks` inputs, and that these are what
that player did. So the environment is what the relay delivers. Only its lag and `Ahead` are
left as assumptions, because nothing in the code enforces them.

### Rollback

`GameStateManagerProofs` proves, for any number of players, any ring, game length, lag and
user input:

| Theorem | Property | Hypothesis |
|---|---|---|
| `TypeCorrect` | `TypeOK` | |
| `OwnStatesAlone` | `OwnStatesAreExactAlone` | |
| `RollbackInvariant` | the inductive invariant `RollbackInv` | `RingSuffices` |
| `RollbackExact` | `RemoteStatesAreBestKnown` | `RingSuffices` |
| `ShownInThePast` | `ShowsDelayedTick` | `RingSuffices` |
| `ClientsAgree` | `KnownIsPlayed` | `RingSuffices` |

`RingSuffices` is what section 3 shows to be needed: no input comes before its tick
(`Ahead = 0`, otherwise finding 3), the ring has room for two ticks, and the lag is at least two ticks
shorter than the ring, or one tick shorter if there are only two players, as in the code
(`NUM_PLAYERS`, 256 ticks). With the constants of the code this says that the inputs of the
other player arrive less than two seconds late. That nothing in the code enforces it is said in
section 3; the theorem says that nothing else is needed.

*The invariant.* `RemoteStatesAreBestKnown` speaks of the time between frames, and of the
ticks in the ring. Two more things keep it true. Within `DoRollback`, inputs are always
those that are known or are repeated from the last one known (`InputsExact`), while states
are right up to the earliest tick that has changed (`StatesExact`), from which the last loop
simulates again. And an update may begin with the tick that has just left the ring: its slot,
the one after the head, has been given the remainder of the input, but its state is still
whole, and simulating again starts from it (`OldestExact`). With three players, an update of one
of them could write that slot before another's needs it, hence the stronger hypothesis
there. `EarliestInv` says that the tick to start from is in the ring or is that one.

`ClientsAgree` is what rollback is for. "Best known" includes predictions, which differ from
client to client. `KnownIsPlayed` leaves them out: in a tick up to which another player's inputs
are known, he is where his own inputs have brought him, and nothing on the right-hand side
belongs to this client. Two clients that know the same inputs show him in the same state.

`ShownInThePast` has a second, smaller invariant for the own player (`HeadInput`): the tick at
the head has his input of the tick before, since `DoRollback` never writes his inputs, and the
remainder goes into the slot after the head.

The loops of `Update` and `DoRollback` are taken by induction over their turns:
`ProcessedLoop` and `ResimulatedLoop` say that turns follow each other, and what is kept by one turn is
kept by all of them. The slots that `Written` fills are those of different ticks as long as
the update and what follows it fit the ring.

### Datagrams

`FlatBufferProofs` proves, for any number of players, any inputs and any window lengths up to
`MaxTicksToTransmit`:

| Theorem | Property | Hypothesis |
|---|---|---|
| `EveryUpdateGetsThrough` | `GetsThrough` of every update | `BuffersSuffice` |
| `DatagramsTrue` | `DatagramsGetThrough` | `BuffersSuffice` |
| `RootlessRejected` | the verifier rejects what is finished without a root | |
| `RootlessIgnored` | `UnbuiltRepliesIgnored` | `BuffersSuffice` |

`BuffersSuffice` says that the longest windows of all players fit `BUFFER_SIZE`: at most
2 * (12 * 256 + 30) + 32 = 6236 bytes of 10000 in the code. (The run's windows of up to 3
inputs are to be no longer than the longest one, hence its other part.) TLC tries a few
shapes of windows for two players; the theorem is about all of them, and so about every
way in which tables can share vtables.

The builder names what it has written by its distance from the end, and never writes over it:
`WellBuilt` bounds all places by the size and says that each place taken for a vtable holds
one, and `Keeps` says that one builder goes on from another. Every call of the
builder keeps both, and leaves a new fact about places: a table with a vtable that
describes it, new or shared (`HasTable`); a packet with its vector and inputs (`HasPacket`); the
vector of offsets (`HasVector`); the update (`HasUpdate`). The loops over the packets and
over the offsets go by induction over their turns. These facts outlast all later calls, so
they are still true when `Finish` has written the root. The second part of the proof is about the
reader alone: an address is the size less the place, everything is aligned and
within the buffer, and what the accessors read through the vtables is what was written.
The first byte is that of the root's offset, which is 4 to 14 and so none of the letters.

A reply without a root has its own size as root, so the verifier looks behind its end
(`RootlessIs`), and this is all that keeps it from being taken for inputs. Its first byte is the
lowest of its size, which for one packet with `n` inputs is exactly `12 n + 28` (`RootlessSize`):
`FirstBytes` is the arithmetic of when that is the letter of the player's number, and
`SecondByte` of which number follows.

### Queue

`CircularBufferProofs` proves, for any capacity, any allocated size that is not smaller, and
any word size it divides (`CircularBufferAssumption`):

| Theorem | Property |
|---|---|
| `BufferCorrect` | the inductive invariant `BufferInv` |
| `NoSlotShared` | `AccessSound` |
| `SlotsKept` | `SlotsConserved` |
| `WakeupsMatch` | `OneWakeup` |
| `AssertionHolds` | `AtMostOneWaits`, the assertion in `signal` |
| `BufferIsFifo` | `FifoSpec`: every step is a step of `BoundedFifo` or a stutter |
| `FailuresTrue` | `FailureIsTrue` |

`BufferInv` has a part for each thing the atomic operations rely on. `SlotsConserved`: the
two counts, with what threads hold in the middle of a call, always add up to the capacity.
`OneWakeup`: the kernel's semaphore is posted exactly for a thread that has gone to wait
and has been signalled, also while its timeout is being undone; without it a count of `-1`
could mean a waiter that nobody will wake. `ClaimsCovered`: what a thread has seen or been
promised is there until it uses it, because the other thread only adds to it.
`RingAligned`: the living elements lie from `nextItem` up to `nextSlot`, modulo the ring; that
the indices wrap at the word size without harm is the congruence `CellCongruent`, the reason
for the assumption that the size divides it. From these, the slot that the
producer fills is never the one that the consumer reads.

### Input

`LocalInputProofs` proves, for any length of a tick, any ring, any frame times and any order of
key, mouse and life (`FrameTicksAssumption`, `LocalInputAssumption`):

| Theorem | Property |
|---|---|
| `LocalInputInvariant` | the inductive invariant `LocalInputInv` |
| `TypeSafe` | `TypeOK` |
| `ClockFollowed` | `TicksFollowClock` |
| `MouseConserved` | `MouseKept` |
| `KeysKept` | `KeysTrue` |
| `Stable` | `SimulationStable` |
| `CopiesTrue` | `CopiesAreTrue` |
| `SmoothingConverges` | `SmoothingStable`, if `FineUnits` |

`AdvancedFrame` says what `Update` makes of a frame, from the division with remainder: time
and movement go into the ticks, or are kept, or are the rounding, and their sum
is that of before and of the frame. That the kept movement is never more than all of it is
`RemainderBound`. The invariant adds what is true before `TryInitialiseRollback`
(`Waiting`), that no flag is set that has not been seen, and that the accumulator has
exactly the keys that frames have brought along since the last tick (`KeysSeen`).

`Stable` is about `CSimulation::Next` alone, for any acceleration, top speed and units
(`MotionAssumption`). After `i` steps of braking the velocity is the initial one less `i` times
what a step takes off, or nothing (`Braked`, by induction over the path); `steps` times that is
more than the top speed. `WrapRadians` subtracts whole turns, by division with remainder, so
turns add up, and a limit that is reached in one direction stays reached (`TurnsTrue`).

`CopiesTrue` follows the filter's accumulator through any number of samples, by induction: it is
the sum of the samples in its window, because each sample is taken off again
when it is overwritten (`AccumulatorIsSum`).

`SmoothingConverges` is about `ApplyResycSmoothing`, for any error, any frame that `Update`
lets through and any units with `FineUnits`. Frames last at most two seconds, since `Update` refuses
those of more than `MAX_TICKS_TO_TRANSMIT` ticks, which is twice `TICKS_PER_SECOND`; longer
ones would let the interpolation of the position overshoot. A half turn has at least 7 units,
and the constant part of a frame's turn is not rounded down to nothing. With coarse units the
rounding down of a wrapped angle can leave it further away than before. The units of the
run satisfy `FineUnits`, as floating point does by far.

### Start

`LobbyProofs` proves, for any finite set of clients, any number of seats, any socket size
and any number of faults (`LobbyAssumption`):

| Theorem | Property |
|---|---|
| `LobbyInvariant` | the inductive invariant `LobbyInv` |
| `TypeSafe` | `TypeOK` |
| `NumbersOwn` | `NumberIsOwn` |
| `PlaysOwnSeat` | `PlaysInOwnSeat` |

`NumberInv` says of each number, in a client's member or in a datagram on its way, that
the client has that seat; a seat is never taken back, so this stays true of a datagram
that is late, repeated or overtaken. `GoodInv` says, for good conditions, where each client
is on its way into the game (`OrderlyClient`): nothing is sent to one that the server has
not heard of; one with a seat has its number and perhaps the signal still to come, or has
read the number (`Told`), and the signal is behind the number and exists only when every
seat is taken (`Signalled`). The last is why the main thread, which tests only the start time,
finds the right number: a small socket may lose the signal but never the number before it.

### Only model-checked

- `GameStarts`, `ReplyWorkedThrough`, `AckedInputsApplied`, `TimedCallsReturn`,
  `WaitersAreServed`: liveness under fairness needs `ENABLED`, which is out of the prover's reach.
- The findings: TLC shows a counterexample.

## 5. What is not modelled

- Most lines of the repository are vendored headers that nothing of the game includes or
  calls: `lib/optional.h`, `lib/readerwriterqueue.h`, and `flexbuffers.h`, `idl.h`,
  `reflection*.h`, `minireflect.h`, `util.h`, `grpc.h`, `registry.h` and others in `flatbuffers/`.
  Of `flatbuffers/` the modules cover what `ClientToServerUpdate_generated.h` calls, without
  the growth of its memory (`FlatBufferBuilder` doubles a buffer; a datagram that is
  too long for the receiver is what matters, and is checked) and without the text
  form that the server writes to its log.
- A restart of the server. It keeps nothing, and the protocol has no way back: it hands
  out numbers from 0 again, and finds the packets of clients that play on too short for
  its empty windows, for ever. No property of the system holds after it.
- Floating point: rounding, `acos` of more than 1, three dimensions.
- The engine: entities, physics, animation, its own replication of the player component
  apart from the flags, spawning, bullets; `CRollbackPlayer`, which holds four values.
- Setting up and closing sockets, logging, assets, build files.
- Datagrams to or from other programs.

## 6. Plan

What is left: a game in which two clients play one player (finding 4), in
`InputRelay`; three clients' windows in `GameStateManager` with two updates in a frame.
