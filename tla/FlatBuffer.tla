------------------------------ MODULE FlatBuffer ------------------------------
(***************************************************************************)
(* The datagrams with inputs as FlatBuffers: what SendTicks and            *)
(* BuildResponsePacket have the builder write, what the verifier accepts   *)
(* and what the generated accessors read.                                  *)
(*                                                                         *)
(* A buffer grows from its end towards its beginning, and the builder      *)
(* names a place by its distance from the end.  A cell is what one call    *)
(* writes at its place: a scalar, one PlayerInput, or a whole vtable.      *)
(* Readers see addresses, which count from the beginning.                  *)
(***************************************************************************)
EXTENDS Integers, SequencesExt

CONSTANTS
  MaxTicksToTransmit,  \* MAX_TICKS_TO_TRANSMIT
  NumPlayers           \* NUM_PLAYERS

ASSUME FlatBufferAssumption == MaxTicksToTransmit \in Nat /\ NumPlayers \in Nat \ {0}

\* A tick_num without a value.
Unset == -1

-----------------------------------------------------------------------------
(* The builder.                                                            *)

NewBuilder == [size     |-> 0,
               cells    |-> << >>,  \* what is written, by its place
               minalign |-> 1,
               fields   |-> << >>,  \* the places of the open table's fields
               vtables  |-> {}]     \* the places of the vtables so far

\* f where g says nothing else.
Under(f, g) == [x \in DOMAIN f \cup DOMAIN g |-> IF x \in DOMAIN g THEN g[x] ELSE f[x]]
Set(f, x, value) == Under(f, [y \in {x} |-> value])

Put(b, length, value) ==
  [b EXCEPT !.size = @ + length, !.cells = Set(@, b.size + length, value)]

PaddingBytes(size, alignment) == (-size) % alignment

TrackMinAlign(b, alignment) == [b EXCEPT !.minalign = Max({@, alignment})]

\* Align is PreAlign of nothing.
Padded(b, length, alignment) ==
  [TrackMinAlign(b, alignment) EXCEPT !.size = @ + PaddingBytes(b.size + length, alignment)]
Align(b, alignment) == Padded(b, 0, alignment)
PreAlign(b, length, alignment) == IF length = 0 THEN b ELSE Padded(b, length, alignment)

PushElement(b, length, value) == Put(Align(b, length), length, value)

\* Fault: an offset counts from the place where it was computed.
ReferToBefore(b, place) == b.size - place

\* How far the next four bytes are from place.
ReferTo(b, place) == b.size - place + 4

PushOffset(b, place) == LET a == Align(b, 4) IN Put(a, 4, ReferTo(a, place))

TrackField(b, field) == [b EXCEPT !.fields = Set(@, field, b.size)]

AddElement(b, field, value, default) ==
  IF value = default THEN b ELSE TrackField(PushElement(b, 4, value), field)
AddOffset(b, field, place) ==
  IF place = 0 THEN b ELSE TrackField(PushOffset(b, place), field)
AddStruct(b, field, length, value) ==
  TrackField(Put(Align(b, 4), length, value), field)

\* A vtable of a table that starts at start and ends at place: its own size, the
\* table's size and where the fields are in the table, each in two bytes.
VTable(fields, start, place) ==
  LET size == IF fields = << >> THEN 4 ELSE Max(DOMAIN fields) + 2
  IN  [k \in 1 .. size \div 2 |->
         CASE k = 1 -> size
           [] k = 2 -> place - start
           [] OTHER -> IF 2 * (k - 1) \in DOMAIN fields THEN place - fields[2 * (k - 1)] ELSE 0]

\* Fault: vtables of the same size are taken to be the same.
SameSizeVTables(b, vtable) == {p \in b.vtables : b.cells[p][1] = vtable[1]}

SameVTables(b, vtable) == {p \in b.vtables : b.cells[p] = vtable}

\* The table's place is the size before its vtable, and the table refers to a
\* vtable like its own, if there is one.
EndTable(b, start) ==
  LET place   == PushElement(b, 4, 0).size
      vtable  == VTable(b.fields, start, place)
      same    == SameVTables(b, vtable)
      closed  == [PushElement(b, 4, 0) EXCEPT !.fields = << >>]
      written == Put(closed, vtable[1], vtable)
      shared  == CHOOSE p \in same : TRUE
  IN  [at      |-> place,
       builder |-> IF same = {}
                   THEN [written EXCEPT !.cells[place] = vtable[1],
                                        !.vtables = @ \cup {written.size}]
                   ELSE [closed EXCEPT !.cells[place] = shared - place]]

\* Structs keep their order, offsets are pushed the last one first.
CreateVectorOfStructs(b, inputs) ==
  LET n == Len(inputs)
      a == PreAlign(b, (3 * n) * 12, 4)
      pushed == [p \in {a.size + 12 * k : k \in 1 .. n} |->
                   inputs[n + 1 - (p - a.size) \div 12]]
  IN  PushElement([a EXCEPT !.size = @ + 12 * n, !.cells = Under(@, pushed)], 4, n)
CreateVector(b, places) ==
  LET n == Len(places)
      pushed[i \in 0 .. n] == IF i = 0 THEN PreAlign(b, 4 * n, 4)
                              ELSE PushOffset(pushed[i - 1], places[n + 1 - i])
  IN  PushElement(pushed[n], 4, n)

Finish(b, root) == PushOffset(PreAlign(b, 4, b.minalign), root)

-----------------------------------------------------------------------------
(* The schema, and the two places that build datagrams.                    *)

VT_TICK_NUM == 4
VT_INPUTS == 6
VT_PLAYER_NUM == 4
VT_PLAYER_SYNCHRONIZERS == 6

\* A synchronizer's packet, as GetPaket builds it: without a vector if it has no
\* tick.
CreatePlayerInputsSynchronizer(b, packet) ==
  LET v == IF packet.tickNum = Unset THEN b ELSE CreateVectorOfStructs(b, packet.inputs)
      t == AddOffset(v, VT_INPUTS, IF packet.tickNum = Unset THEN 0 ELSE v.size)
  IN  EndTable(AddStruct(t, VT_TICK_NUM, 4, packet.tickNum), v.size)

\* The packets of the players, one after the other, and their places.
AddPacket(with, packet) ==
  LET made == CreatePlayerInputsSynchronizer(with.builder, packet)
  IN  [builder |-> made.builder, places |-> Append(with.places, made.at)]
WithPackets(packets) ==
  FoldLeft(AddPacket, [builder |-> NewBuilder, places |-> << >>], packets)

CreateClientToServerUpdate(update) ==
  LET with == WithPackets(update.packets)
      v == CreateVector(with.builder, with.places)
      t == AddOffset(v, VT_PLAYER_SYNCHRONIZERS, v.size)
  IN  EndTable(AddElement(t, VT_PLAYER_NUM, update.playerNum, 0), v.size)

\* What SendTicks sends, and the server when BuildResponsePacket has succeeded.
Encoded(update) ==
  LET made == CreateClientToServerUpdate(update) IN Finish(made.builder, made.at)

\* What the server sends when GetPaket has failed after these packets: DoWork
\* finishes the builder all the same, with a root that was never set.
EncodedWithoutRoot(packets) == Finish(WithPackets(packets).builder, 0)

-----------------------------------------------------------------------------
(* Reading.                                                                *)

Read(b, address) == b.cells[b.size - address]
FirstByte(b) == Read(b, 0) % 256
Root(b) == Read(b, 0)

\* buf[1], which becomes m_playerNumber if the first byte is 'p'.
NumberIn(b) == (Read(b, 0) \div 256) % 256

VTableOf(b, table) == Read(b, table - Read(b, table))
FieldOffset(b, table, field) ==
  LET vtable == VTableOf(b, table)
  IN  IF field < vtable[1] THEN vtable[field \div 2 + 1] ELSE 0

Null == 0
GetField(b, table, field, default) ==
  LET f == FieldOffset(b, table, field) IN IF f = 0 THEN default ELSE Read(b, table + f)
Indirect(b, address) == address + Read(b, address)
GetPointer(b, table, field) ==
  LET f == FieldOffset(b, table, field) IN IF f = 0 THEN Null ELSE Indirect(b, table + f)

\* Vector::Get of offsets and of structs.
GetTable(b, vector, i)  == Indirect(b, vector + 4 + 4 * i)
GetStruct(b, vector, i) == Read(b, vector + 4 + 12 * i)

DecodedPacket(b, table) ==
  LET inputs == GetPointer(b, table, VT_INPUTS)
  IN  [tickNum |-> GetField(b, table, VT_TICK_NUM, Unset),
       inputs  |-> IF inputs = Null THEN << >>
                   ELSE [k \in 1 .. Read(b, inputs) |-> GetStruct(b, inputs, k - 1)]]
Decoded(b) ==
  LET vector == GetPointer(b, Root(b), VT_PLAYER_SYNCHRONIZERS)
  IN  [playerNum |-> GetField(b, Root(b), VT_PLAYER_NUM, 0),
       packets   |-> [i \in 1 .. NumPlayers |-> DecodedPacket(b, GetTable(b, vector, i - 1))]]

-----------------------------------------------------------------------------
(* The verifier.                                                           *)

\* MAX_TICKS_TO_TRANSMIT of each player, and 10; FLATBUFFERS_MIN_BUFFER_SIZE.
MaxTables == NumPlayers * MaxTicksToTransmit + 10
MinBufferSize == 12

VerifyRange(b, address, length) == length < b.size /\ address <= b.size - length
VerifyAligned(b, address, length) ==
  address % length = 0 /\ VerifyRange(b, address, length)

VerifyOffset(b, address) ==
  /\ VerifyAligned(b, address, 4)
  /\ Read(b, address) > 0
  /\ VerifyRange(b, Indirect(b, address), 1)

VerifyField(b, table, field) ==
  LET f == FieldOffset(b, table, field) IN f = 0 \/ VerifyAligned(b, table + f, 4)
VerifyPointer(b, table, field) ==
  LET f == FieldOffset(b, table, field) IN f = 0 \/ VerifyOffset(b, table + f)

VerifyVector(b, vector, length) ==
  vector = Null \/ /\ VerifyAligned(b, vector, 4)
                   /\ VerifyRange(b, vector, 4 + length * Read(b, vector))

VerifyTableStart(b, table) ==
  /\ VerifyAligned(b, table, 4)
  /\ VerifyAligned(b, table - Read(b, table), 2)
  /\ VTableOf(b, table)[1] % 2 = 0
  /\ VerifyRange(b, table - Read(b, table), VTableOf(b, table)[1])

VerifySynchronizer(b, table) ==
  /\ VerifyTableStart(b, table)
  /\ VerifyField(b, table, VT_TICK_NUM)
  /\ VerifyPointer(b, table, VT_INPUTS)
  /\ VerifyVector(b, GetPointer(b, table, VT_INPUTS), 12)

\* ClientToServerUpdate::Verify; its own table counts for MaxTables, too.
VerifyUpdate(b, table) ==
  LET vector == GetPointer(b, table, VT_PLAYER_SYNCHRONIZERS)
  IN  /\ VerifyTableStart(b, table)
      /\ VerifyField(b, table, VT_PLAYER_NUM)
      /\ VerifyPointer(b, table, VT_PLAYER_SYNCHRONIZERS)
      /\ VerifyVector(b, vector, 4)
      /\ vector # Null =>
           /\ 1 + Read(b, vector) <= MaxTables
           /\ \A i \in 0 .. Read(b, vector) - 1 : VerifySynchronizer(b, GetTable(b, vector, i))

VerifyBuffer(b) ==
  /\ b.size >= MinBufferSize
  /\ VerifyOffset(b, 0)
  /\ VerifyUpdate(b, Root(b))

-----------------------------------------------------------------------------
(* Properties.                                                             *)

BufferSize == 10000  \* BUFFER_SIZE
Char(c) == CASE c = "c" -> 99 [] c = "p" -> 112 [] c = "s" -> 115

Window(from, n) == [tickNum |-> from + n - 1, inputs |-> [k \in 1 .. n |-> from + k - 1]]
AbsentWindow == [tickNum |-> Unset, inputs |-> << >>]

\* A buffer brings an update: it is not larger than the buffers of DoWork, its first
\* byte is none of those by which the two DoWork tell the other messages, the
\* verifier accepts it, and what is read is what was written.
Brings(b, update) ==
  /\ b.size <= BufferSize
  /\ FirstByte(b) \notin {Char("c"), Char("p"), Char("s")}
  /\ VerifyBuffer(b)
  /\ Decoded(b) = update
GetsThrough(update) == Brings(Encoded(update), update)

\* This holds with and without a player number, whether two tables share a vtable
\* or not, for windows that are empty, absent, short, or as long as they get.
UpdatesGetThrough ==
  LET Packets == {AbsentWindow}
                   \cup {Window(from, n) : from \in {0, 7}, n \in {0, 1, 2, 3, MaxTicksToTransmit}}
  IN  \A playerNum \in {-1} \cup 0 .. NumPlayers - 1, packets \in [1 .. NumPlayers -> Packets] :
        GetsThrough([playerNum |-> playerNum, packets |-> packets])

\* A reply without a root is never taken for inputs: its root is the end of the
\* buffer.  But it is taken for the message that tells a client its number if
\* it repeats 7, 71, 135 or 199 inputs of the player before the one whose window
\* did not fit, and the numbers are 0, 3, 6 and 9.
RootlessRepliesIgnored ==
  LET Rootless(n) == EncodedWithoutRoot(<<Window(0, n)>>)
  IN  /\ \A n \in 0 .. MaxTicksToTransmit :
           /\ FirstByte(Rootless(n)) # Char("s")
           /\ FirstByte(Rootless(n)) = Char("p") <=> n % 64 = 7
           /\ n % 64 = 7 => NumberIn(Rootless(n)) = 3 * (n \div 64)
      /\ \A n \in 0 .. MaxTicksToTransmit : ~VerifyBuffer(Rootless(n))
      /\ ~VerifyBuffer(EncodedWithoutRoot(<< >>))
=============================================================================
