-------------------------- MODULE FlatBufferProofs --------------------------
(***************************************************************************)
(* Theorems about FlatBuffer, for any players, inputs and window lengths   *)
(* that the buffers of DoWork suffice for: every datagram with inputs gets *)
(* through, and a reply that could not be built is not taken for one.      *)
(*                                                                         *)
(* A builder never writes over what it has written (WellBuilt, Keeps), so  *)
(* what a call leaves, a table, a vector or a packet at its place, is      *)
(* still there when the buffer is finished.  What the verifier checks and  *)
(* the accessors read follows from these facts about places.               *)
(***************************************************************************)
EXTENDS MCInputWindow, InputSyncProofs, SequenceTheorems

-----------------------------------------------------------------------------
(* The builder: what it promises after each call.                          *)

\* b is a record with a builder's fields.
IsBuilder(b) ==
  b = [size |-> b.size, cells |-> b.cells, minalign |-> b.minalign,
       fields |-> b.fields, vtables |-> b.vtables]

\* What is written lies within the size and is never written over; a vtable is that
\* of a table with at most two fields.
WellBuilt(b) ==
  /\ IsBuilder(b)
  /\ b.size \in Nat /\ b.size % 2 = 0
  /\ b.minalign \in {1, 4}
  /\ \A p \in DOMAIN b.cells : p \in 1 .. b.size
  /\ \A p \in b.vtables : /\ p \in DOMAIN b.cells /\ p % 2 = 0
                          /\ b.cells[p][1] \in {6, 8} /\ b.cells[p][1] <= p

\* c is built on b.
Keeps(b, c) ==
  /\ b.size <= c.size
  /\ \A p \in DOMAIN b.cells : p \in DOMAIN c.cells /\ c.cells[p] = b.cells[p]

\* Only the size, the alignment and what is open differ.
SameCells(b, c) == c.cells = b.cells /\ c.vtables = b.vtables

\* Setting one place sets no other.
LEMMA SetIs ==
  \A f, x, v :
         /\ DOMAIN Set(f, x, v) = DOMAIN f \cup {x}
         /\ Set(f, x, v)[x] = v
         /\ \A y \in DOMAIN f : y # x => Set(f, x, v)[y] = f[y]
BY DEF Set, Under

\* The next multiple of four.
Up(n) == n + PaddingBytes(n, 4)

\* Up to two bytes bring an even number to a multiple of four.
LEMMA UpIs ==
  ASSUME NEW n \in Nat, n % 2 = 0
  PROVE  /\ Up(n) \in {n, n + 2} /\ Up(n) \in Nat /\ Up(n) % 4 = 0 /\ Up(n) % 2 = 0
         /\ (n % 4 = 0 => Up(n) = n)
BY DEF Up, PaddingBytes

\* Four bytes more or less keep a multiple of four one.
LEMMA Divisible ==
  ASSUME NEW n \in Int, n % 4 = 0
  PROVE  n % 2 = 0 /\ (n + 4) % 4 = 0 /\ (n - 4) % 4 = 0 /\ (n + 4) % 2 = 0
OBVIOUS

\* Align writes nothing and makes the size a multiple of four.
LEMMA AlignIs ==
  ASSUME NEW b, WellBuilt(b)
  PROVE  LET c == Align(b, 4)
         IN  /\ WellBuilt(c) /\ Keeps(b, c) /\ SameCells(b, c)
             /\ c.size = Up(b.size) /\ c.minalign = 4 /\ c.fields = b.fields
<1> DEFINE c == Align(b, 4)
<1>1. /\ b = [size |-> b.size, cells |-> b.cells, minalign |-> b.minalign,
              fields |-> b.fields, vtables |-> b.vtables]
      /\ b.size \in Nat /\ b.size % 2 = 0 /\ b.minalign \in {1, 4}
  BY DEF WellBuilt, IsBuilder
<1>2. Max({b.minalign, 4}) = 4
  <2> DEFINE n == b.minalign
  <2> HIDE DEF n
  <2>1. n \in {1, 4}
    BY <1>1 DEF n
  <2>2. Max({n, 4}) = CHOOSE x \in {n, 4} : \A y \in {n, 4} : x >= y
    BY DEF Max
  <2>3. \A x \in {n, 4} : (\A y \in {n, 4} : x >= y) <=> x = 4
    BY <2>1
  <2> QED BY <2>2, <2>3 DEF n
<1>3. TrackMinAlign(b, 4) = [size |-> b.size, cells |-> b.cells, minalign |-> 4,
                             fields |-> b.fields, vtables |-> b.vtables]
  BY <1>1, <1>2 DEF TrackMinAlign
<1>4. b.size + 0 = b.size
  BY <1>1
<1>5. c = [size |-> Up(b.size), cells |-> b.cells, minalign |-> 4,
           fields |-> b.fields, vtables |-> b.vtables]
  BY <1>3, <1>4 DEF Align, Padded, Up
<1>6. /\ Up(b.size) \in Nat /\ Up(b.size) >= b.size /\ Up(b.size) % 2 = 0
  BY <1>1, UpIs
<1> HIDE DEF c
<1>7. IsBuilder(c) /\ SameCells(b, c)
  BY <1>5 DEF IsBuilder, SameCells
<1>8. \A p \in DOMAIN c.cells : p \in 1 .. c.size
  BY <1>1, <1>5, <1>6 DEF WellBuilt
<1>9. WellBuilt(c) /\ Keeps(b, c)
  BY <1>1, <1>5, <1>6, <1>7, <1>8 DEF WellBuilt, Keeps, SameCells
<1> QED BY <1>5, <1>7, <1>9 DEF c

\* Put writes one cell above all others.
LEMMA PutIs ==
  ASSUME NEW b, WellBuilt(b), NEW length \in Nat, length > 0, length % 2 = 0, NEW value
  PROVE  LET c == Put(b, length, value)
         IN  /\ WellBuilt(c) /\ Keeps(b, c)
             /\ c.size = b.size + length /\ c.minalign = b.minalign
             /\ c.fields = b.fields /\ c.vtables = b.vtables
             /\ DOMAIN c.cells = DOMAIN b.cells \cup {c.size}
             /\ c.cells[c.size] = value
<1> DEFINE c == Put(b, length, value)
           n == b.size + length
<1>1. /\ b = [size |-> b.size, cells |-> b.cells, minalign |-> b.minalign,
              fields |-> b.fields, vtables |-> b.vtables]
      /\ b.size \in Nat /\ b.size % 2 = 0 /\ b.minalign \in {1, 4}
      /\ \A p \in DOMAIN b.cells : p \in 1 .. b.size
  BY DEF WellBuilt, IsBuilder
<1>2. c = [size |-> n, cells |-> Set(b.cells, n, value), minalign |-> b.minalign,
           fields |-> b.fields, vtables |-> b.vtables]
  <2>1. c = [b EXCEPT !.size = b.size + length, !.cells = Set(b.cells, b.size + length, value)]
    BY DEF Put
  <2> DEFINE s == b.size + length
             f == Set(b.cells, s, value)
  <2> HIDE DEF c, s, f
  <2>2. c = [b EXCEPT !.size = s, !.cells = f]
    BY <2>1 DEF s, f
  <2>3. c = [size |-> s, cells |-> f, minalign |-> b.minalign,
             fields |-> b.fields, vtables |-> b.vtables]
    BY <1>1, <2>2
  <2> QED BY <2>3 DEF s, f, n
<1>3. n \in Nat /\ n > b.size /\ n % 2 = 0
  BY <1>1
<1> HIDE DEF n, c
<1>4. n \notin DOMAIN b.cells
  BY <1>1, <1>3
<1>5. /\ DOMAIN c.cells = DOMAIN b.cells \cup {n} /\ c.cells[n] = value
      /\ \A p \in DOMAIN b.cells : c.cells[p] = b.cells[p]
  <2>1. c.cells = Set(b.cells, n, value)
    BY <1>2
  <2>2. DOMAIN Set(b.cells, n, value) = DOMAIN b.cells \cup {n}
    BY SetIs
  <2>3. Set(b.cells, n, value)[n] = value
    BY SetIs
  <2>4. \A p \in DOMAIN b.cells : p # n => Set(b.cells, n, value)[p] = b.cells[p]
    BY SetIs
  <2> QED BY <1>4, <2>1, <2>2, <2>3, <2>4
<1>6. /\ IsBuilder(c) /\ c.size = n /\ c.minalign = b.minalign /\ c.fields = b.fields
      /\ c.vtables = b.vtables
  BY <1>2 DEF IsBuilder
<1>7. \A p \in DOMAIN c.cells : p \in 1 .. c.size
  BY <1>1, <1>3, <1>5, <1>6
<1>8. WellBuilt(c)
  BY <1>1, <1>3, <1>5, <1>6, <1>7 DEF WellBuilt
<1>9. Keeps(b, c)
  BY <1>1, <1>3, <1>5, <1>6 DEF Keeps
<1> QED BY <1>5, <1>6, <1>8, <1>9 DEF c, n

\* PushElement writes four bytes, and ends at a multiple of four.
LEMMA PushElementIs ==
  ASSUME NEW b, WellBuilt(b), NEW value
  PROVE  LET c == PushElement(b, 4, value)
         IN  /\ WellBuilt(c) /\ Keeps(b, c)
             /\ c.size = Up(b.size) + 4 /\ c.size \in Nat /\ c.size % 4 = 0
             /\ c.minalign = 4 /\ c.fields = b.fields /\ c.vtables = b.vtables
             /\ DOMAIN c.cells = DOMAIN b.cells \cup {c.size}
             /\ c.cells[c.size] = value
<1> DEFINE a == Align(b, 4)
           c == Put(a, 4, value)
<1>1. /\ WellBuilt(a) /\ Keeps(b, a) /\ SameCells(b, a)
      /\ a.size = Up(b.size) /\ a.minalign = 4 /\ a.fields = b.fields
  BY AlignIs
<1> HIDE DEF a
<1>2. /\ WellBuilt(c) /\ Keeps(a, c)
      /\ c.size = a.size + 4 /\ c.minalign = a.minalign
      /\ c.fields = a.fields /\ c.vtables = a.vtables
      /\ DOMAIN c.cells = DOMAIN a.cells \cup {c.size}
      /\ c.cells[c.size] = value
  BY <1>1, PutIs
<1> HIDE DEF c
<1>3. b.size \in Nat /\ b.size % 2 = 0 /\ a.size \in Nat
  BY <1>1 DEF WellBuilt
<1>4. a.size % 4 = 0
  <2> DEFINE n == b.size
  <2> HIDE DEF n
  <2>1. Up(n) % 4 = 0
    BY <1>3, UpIs DEF n
  <2> QED BY <1>1, <2>1 DEF n
<1>5. c.size \in Nat /\ c.size % 4 = 0
  <2> DEFINE n == a.size
  <2> HIDE DEF n
  <2>1. (n + 4) % 4 = 0 /\ n + 4 \in Nat
    BY <1>3, <1>4, Divisible DEF n
  <2> QED BY <1>2, <2>1 DEF n
<1>6. Keeps(b, c)
  BY <1>1, <1>2, <1>3, <1>5 DEF Keeps, WellBuilt
<1>7. PushElement(b, 4, value) = c
  BY DEF PushElement, c, a
<1>8. a.cells = b.cells /\ a.vtables = b.vtables
  BY <1>1 DEF SameCells
<1>9. /\ DOMAIN c.cells = DOMAIN b.cells \cup {c.size} /\ c.vtables = b.vtables
      /\ c.size = Up(b.size) + 4 /\ c.minalign = 4 /\ c.fields = b.fields
  BY <1>1, <1>2, <1>8
<1> QED BY <1>2, <1>5, <1>6, <1>7, <1>9

\* Where a vtable says that a field of its table is, as an accessor reads it.
FieldIn(vtable, field) == IF field < vtable[1] THEN vtable[field \div 2 + 1] ELSE 0

\* A vtable with the fields of a table at a place.
Describes(vtable, place, fields) ==
  /\ vtable[1] \in {6, 8}
  /\ FieldIn(vtable, 4) = IF 4 \in DOMAIN fields THEN place - fields[4] ELSE 0
  /\ FieldIn(vtable, 6) = IF 6 \in DOMAIN fields THEN place - fields[6] ELSE 0

\* Both tables have fields 4 and 6; which of them are written depends on the values.
FieldSets == {{4}, {6}, {4, 6}}

\* A vtable describes the table for which it was made.
LEMMA VTableIs ==
  \A fields, start, place :
    DOMAIN fields \in FieldSets => Describes(VTable(fields, start, place), place, fields)
<1> SUFFICES ASSUME NEW fields, NEW start, NEW place, DOMAIN fields \in FieldSets
             PROVE  Describes(VTable(fields, start, place), place, fields)
  OBVIOUS
<1> DEFINE size == IF 6 \in DOMAIN fields THEN 8 ELSE 6
           v == VTable(fields, start, place)
<1>1. Max(DOMAIN fields) = IF 6 \in DOMAIN fields THEN 6 ELSE 4
  <2>1. Max({4}) = 4 /\ Max({6}) = 6 /\ Max({4, 6}) = 6
    <3>1. Max({4}) = CHOOSE x \in {4} : \A y \in {4} : x >= y
      BY DEF Max
    <3>2. Max({6}) = CHOOSE x \in {6} : \A y \in {6} : x >= y
      BY DEF Max
    <3>3. Max({4, 6}) = CHOOSE x \in {4, 6} : \A y \in {4, 6} : x >= y
      BY DEF Max
    <3> QED BY <3>1, <3>2, <3>3
  <2>2. DOMAIN fields = {4} \/ DOMAIN fields = {6} \/ DOMAIN fields = {4, 6}
    BY DEF FieldSets
  <2> QED BY <2>1, <2>2
<1>2. fields # << >>
  BY DEF FieldSets
<1>3. v = [k \in 1 .. size \div 2 |->
             CASE k = 1 -> size
               [] k = 2 -> place - start
               [] OTHER -> IF 2 * (k - 1) \in DOMAIN fields THEN place - fields[2 * (k - 1)]
                           ELSE 0]
  <2>1. Max(DOMAIN fields) + 2 = size
    BY <1>1
  <2> QED BY <1>2, <2>1 DEF VTable
<1>4. size \in {6, 8} /\ (size = 6 => size \div 2 = 3) /\ (size = 8 => size \div 2 = 4)
  OBVIOUS
<1> HIDE DEF v
<1>5. v[1] = size
  <2>1. 1 \in 1 .. size \div 2
    BY <1>4
  <2> QED BY <1>3, <2>1
<1>6. v[3] = IF 4 \in DOMAIN fields THEN place - fields[4] ELSE 0
  <2>1. 3 \in 1 .. size \div 2 /\ 2 * (3 - 1) = 4
    BY <1>4
  <2> QED BY <1>3, <2>1
<1>7. size = 8 => v[4] = IF 6 \in DOMAIN fields THEN place - fields[6] ELSE 0
  <2>1. size = 8 => 4 \in 1 .. size \div 2 /\ 2 * (4 - 1) = 6
    BY <1>4
  <2> QED BY <1>3, <2>1
<1>8. 4 \div 2 + 1 = 3 /\ 6 \div 2 + 1 = 4
  OBVIOUS
<1>9. FieldIn(v, 4) = v[3]
  BY <1>4, <1>5, <1>8 DEF FieldIn
<1>10. FieldIn(v, 6) = IF size = 8 THEN v[4] ELSE 0
  BY <1>4, <1>5, <1>8 DEF FieldIn
<1>11. FieldIn(v, 6) = IF 6 \in DOMAIN fields THEN place - fields[6] ELSE 0
  BY <1>7, <1>10
<1>12. Describes(v, place, fields)
  BY <1>4, <1>5, <1>6, <1>9, <1>11 DEF Describes
<1> QED BY <1>12 DEF v

\* A table at a place, with a vtable that describes it.
HasTable(b, place, fields) ==
  /\ place \in DOMAIN b.cells /\ place \in Nat /\ place % 4 = 0
  /\ \E vt \in DOMAIN b.cells :
       /\ vt \in Nat /\ vt % 2 = 0 /\ b.cells[place] = vt - place
       /\ b.cells[vt][1] <= vt
       /\ Describes(b.cells[vt], place, fields)

\* EndTable leaves a table with a vtable that describes it, its own or one written before;
\* the first table has its own.
LEMMA EndTableIs ==
  ASSUME NEW b, WellBuilt(b), b.size % 4 = 0, DOMAIN b.fields \in FieldSets, NEW start
  PROVE  LET c == EndTable(b, start).builder
         IN  /\ EndTable(b, start).at = b.size + 4
             /\ WellBuilt(c) /\ Keeps(b, c)
             /\ c.size \in {b.size + 4, b.size + 10, b.size + 12}
             /\ c.minalign = 4 /\ c.fields = << >>
             /\ HasTable(c, b.size + 4, b.fields)
             /\ b.vtables = {} => c.size # b.size + 4
<1> DEFINE pushed  == PushElement(b, 4, 0)
           place   == pushed.size
           vtable  == VTable(b.fields, start, place)
           same    == SameVTables(b, vtable)
           closed  == [pushed EXCEPT !.fields = << >>]
           written == Put(closed, vtable[1], vtable)
           shared  == CHOOSE p \in same : TRUE
           added   == [written EXCEPT !.cells[place] = vtable[1],
                                      !.vtables = @ \cup {written.size}]
           reused  == [closed EXCEPT !.cells[place] = shared - place]
           c       == EndTable(b, start).builder
<1>1. /\ WellBuilt(pushed) /\ Keeps(b, pushed)
      /\ pushed.size = b.size + 4 /\ pushed.size \in Nat /\ pushed.size % 4 = 0
      /\ pushed.minalign = 4 /\ pushed.vtables = b.vtables
      /\ DOMAIN pushed.cells = DOMAIN b.cells \cup {place}
  <2>1. b.size \in Nat /\ b.size % 2 = 0 /\ b.size % 4 = 0
    BY DEF WellBuilt
  <2>2. Up(b.size) = b.size
    <3> DEFINE n == b.size
    <3>1. n \in Nat /\ n % 2 = 0 /\ n % 4 = 0
      BY <2>1
    <3> HIDE DEF n
    <3>2. Up(n) = n
      BY <3>1, UpIs
    <3> QED BY <3>2 DEF n
  <2> QED BY <2>2, PushElementIs
<1>2. EndTable(b, start).at = place /\ c = IF same = {} THEN added ELSE reused
  BY DEF EndTable
<1> HIDE DEF pushed, c
<1>3. closed = [size |-> place, cells |-> pushed.cells, minalign |-> 4, fields |-> << >>,
                vtables |-> b.vtables]
  <2>1. pushed = [size |-> pushed.size, cells |-> pushed.cells, minalign |-> pushed.minalign,
                  fields |-> pushed.fields, vtables |-> pushed.vtables]
    BY <1>1 DEF WellBuilt, IsBuilder
  <2> QED BY <1>1, <2>1
<1> HIDE DEF closed
<1>4. WellBuilt(closed)
  BY <1>1, <1>3 DEF WellBuilt, IsBuilder
<1>5. Describes(vtable, place, b.fields)
  BY VTableIs
<1>6. vtable[1] \in {6, 8}
  BY <1>5 DEF Describes
<1> HIDE DEF vtable
<1>7. /\ WellBuilt(written) /\ Keeps(closed, written)
      /\ written.size = place + vtable[1] /\ written.minalign = 4
      /\ written.fields = << >> /\ written.vtables = b.vtables
      /\ DOMAIN written.cells = DOMAIN closed.cells \cup {written.size}
      /\ written.cells[written.size] = vtable
  <2>1. vtable[1] \in Nat /\ vtable[1] > 0 /\ vtable[1] % 2 = 0
    BY <1>6
  <2> QED BY <1>3, <1>4, <2>1, PutIs
<1> HIDE DEF written, place
<1>8. place \in Nat /\ place = b.size + 4 /\ place % 4 = 0 /\ place % 2 = 0
  BY <1>1 DEF place
<1>9. /\ b.size \in Nat /\ place \notin DOMAIN b.cells
      /\ \A p \in DOMAIN b.cells : p \in 1 .. b.size
      /\ \A p \in b.vtables : /\ p \in DOMAIN b.cells /\ p % 2 = 0
                              /\ b.cells[p][1] \in {6, 8} /\ b.cells[p][1] <= p
  BY <1>8 DEF WellBuilt
<1>10. /\ DOMAIN closed.cells = DOMAIN b.cells \cup {place}
       /\ \A p \in DOMAIN b.cells : closed.cells[p] = b.cells[p]
  BY <1>1, <1>3 DEF Keeps
<1>11. CASE same = {}
  <2> DEFINE end == written.size
  <2>1. written = [size |-> end, cells |-> written.cells, minalign |-> 4,
                   fields |-> << >>, vtables |-> b.vtables]
    BY <1>7 DEF WellBuilt, IsBuilder
  <2> HIDE DEF end
  <2>2. end \in Nat /\ end = place + vtable[1] /\ end % 2 = 0 /\ end > place
    <3>1. end = place + vtable[1]
      BY <1>7 DEF end
    <3>2. vtable[1] = 6 \/ vtable[1] = 8
      BY <1>6
    <3> QED BY <1>8, <3>1, <3>2
  <2> DEFINE cells == [written.cells EXCEPT ![place] = vtable[1]]
  <2>3. c = [size |-> end, cells |-> cells, minalign |-> 4, fields |-> << >>,
             vtables |-> b.vtables \cup {end}]
    <3>1. c = added
      BY <1>2, <1>11
    <3>2. added = [written EXCEPT !.cells = cells, !.vtables = written.vtables \cup {end}]
      BY DEF end
    <3>3. written.vtables = b.vtables
      BY <1>7
    <3> DEFINE vtables == b.vtables \cup {end}
    <3> HIDE DEF cells, added, vtables
    <3>4. added = [written EXCEPT !.cells = cells, !.vtables = vtables]
      BY <3>2, <3>3 DEF vtables
    <3>5. [written EXCEPT !.cells = cells, !.vtables = vtables]
            = [size |-> end, cells |-> cells, minalign |-> 4, fields |-> << >>,
               vtables |-> vtables]
      <4> DEFINE w == [written EXCEPT !.cells = cells]
      <4>1. w = [size |-> end, cells |-> cells, minalign |-> 4, fields |-> << >>,
                 vtables |-> b.vtables]
        BY <2>1
      <4>2. [written EXCEPT !.cells = cells, !.vtables = vtables]
              = [w EXCEPT !.vtables = vtables]
        OBVIOUS
      <4> HIDE DEF w
      <4>3. [w EXCEPT !.vtables = vtables]
              = [size |-> end, cells |-> cells, minalign |-> 4, fields |-> << >>,
                 vtables |-> vtables]
        BY <4>1
      <4> QED BY <4>2, <4>3
    <3>6. c = [size |-> end, cells |-> cells, minalign |-> 4, fields |-> << >>,
               vtables |-> vtables]
      BY <3>1, <3>4, <3>5
    <3> QED BY <3>6 DEF vtables
  <2>4. /\ DOMAIN cells = DOMAIN b.cells \cup {place, end}
        /\ cells[place] = vtable[1] /\ cells[end] = vtable
        /\ \A p \in DOMAIN b.cells : cells[p] = b.cells[p]
    <3>1. DOMAIN written.cells = DOMAIN b.cells \cup {place, end}
      BY <1>7, <1>10 DEF end
    <3>2. DOMAIN cells = DOMAIN written.cells /\ cells[place] = vtable[1]
      BY <3>1
    <3>3. cells[end] = vtable
      BY <1>7, <2>2, <3>1 DEF end
    <3>4. ASSUME NEW p \in DOMAIN b.cells
          PROVE  cells[p] = b.cells[p]
      <4>1. p # place /\ p \in DOMAIN closed.cells /\ p \in DOMAIN written.cells
        BY <1>9, <1>10, <3>1
      <4>2. written.cells[p] = b.cells[p]
        BY <1>7, <1>10, <4>1 DEF Keeps
      <4> QED BY <4>1, <4>2
    <3> HIDE DEF cells
    <3> QED BY <3>1, <3>2, <3>3, <3>4
  <2> HIDE DEF cells
  <2>5. /\ c.size = end /\ c.cells = cells /\ c.minalign = 4 /\ c.fields = << >>
        /\ c.vtables = b.vtables \cup {end} /\ IsBuilder(c)
    BY <2>3 DEF IsBuilder
  <2>6. Keeps(b, c)
    BY <1>8, <1>9, <2>2, <2>4, <2>5 DEF Keeps
  <2>7. \A p \in DOMAIN c.cells : p \in 1 .. c.size
    BY <1>8, <1>9, <2>2, <2>4, <2>5
  <2>8. ASSUME NEW p \in c.vtables
        PROVE  /\ p \in DOMAIN c.cells /\ p % 2 = 0
               /\ c.cells[p][1] \in {6, 8} /\ c.cells[p][1] <= p
    <3>1. CASE p \in b.vtables
      BY <1>9, <2>4, <2>5, <3>1
    <3>2. CASE p = end
      <4>1. vtable[1] <= end
        BY <1>6, <1>8, <2>2
      <4> QED BY <1>6, <2>2, <2>4, <2>5, <3>2, <4>1
    <3> QED BY <2>5, <3>1, <3>2
  <2>9. WellBuilt(c)
    BY <2>2, <2>5, <2>7, <2>8 DEF WellBuilt
  <2>10. HasTable(c, place, b.fields)
    <3>1. end - place = vtable[1] /\ vtable[1] <= end
      BY <1>6, <1>8, <2>2
    <3> QED BY <1>5, <1>8, <2>2, <2>4, <2>5, <3>1 DEF HasTable
  <2>11. c.size \in {b.size + 4, b.size + 10, b.size + 12}
    BY <1>6, <1>8, <1>9, <2>2, <2>5
  <2>12. HasTable(c, b.size + 4, b.fields)
    BY <1>8, <2>10
  <2>13. EndTable(b, start).at = b.size + 4
    BY <1>2, <1>8
  <2>14. c.minalign = 4 /\ c.fields = << >>
    BY <2>5
  <2>15. c.size # b.size + 4
    BY <1>8, <2>2, <2>5
  <2> QED BY <2>6, <2>9, <2>11, <2>12, <2>13, <2>14, <2>15 DEF c
<1>12. CASE same # {}
  <2>1. shared \in b.vtables /\ b.cells[shared] = vtable
    BY <1>12 DEF SameVTables
  <2> HIDE DEF shared
  <2>2. /\ shared \in DOMAIN b.cells /\ shared % 2 = 0 /\ shared \in Nat /\ shared # place
        /\ vtable[1] <= shared
    BY <1>9, <2>1
  <2> DEFINE cells == [pushed.cells EXCEPT ![place] = shared - place]
  <2>3. c = [size |-> place, cells |-> cells, minalign |-> 4, fields |-> << >>,
             vtables |-> b.vtables]
    <3>1. c = reused
      BY <1>2, <1>12
    <3>2. reused = [closed EXCEPT !.cells = [closed.cells EXCEPT ![place] = shared - place]]
      OBVIOUS
    <3>3. closed.cells = pushed.cells
      BY <1>3
    <3>4. reused = [closed EXCEPT !.cells = cells]
      BY <3>2, <3>3
    <3> HIDE DEF cells, reused
    <3> QED BY <1>3, <3>1, <3>4
  <2>4. /\ DOMAIN cells = DOMAIN b.cells \cup {place}
        /\ cells[place] = shared - place
        /\ \A p \in DOMAIN b.cells : cells[p] = b.cells[p]
    <3>1. DOMAIN pushed.cells = DOMAIN b.cells \cup {place}
      BY <1>1
    <3>2. \A p \in DOMAIN b.cells : p # place /\ pushed.cells[p] = b.cells[p]
      BY <1>1, <1>9 DEF Keeps
    <3> QED BY <3>1, <3>2
  <2> HIDE DEF cells
  <2>5. /\ c.size = place /\ c.cells = cells /\ c.minalign = 4 /\ c.fields = << >>
        /\ c.vtables = b.vtables /\ IsBuilder(c)
    BY <2>3 DEF IsBuilder
  <2>6. Keeps(b, c)
    BY <1>8, <1>9, <2>4, <2>5 DEF Keeps
  <2>7. \A p \in DOMAIN c.cells : p \in 1 .. c.size
    BY <1>8, <1>9, <2>4, <2>5
  <2>8. \A p \in c.vtables : /\ p \in DOMAIN c.cells /\ p % 2 = 0
                             /\ c.cells[p][1] \in {6, 8} /\ c.cells[p][1] <= p
    BY <1>9, <2>4, <2>5
  <2>9. WellBuilt(c)
    BY <1>8, <2>5, <2>7, <2>8 DEF WellBuilt
  <2>10. HasTable(c, place, b.fields)
    BY <1>5, <1>8, <2>1, <2>2, <2>4, <2>5 DEF HasTable
  <2>11. c.size \in {b.size + 4, b.size + 10, b.size + 12}
    BY <1>8, <2>5
  <2>12. HasTable(c, b.size + 4, b.fields)
    BY <1>8, <2>10
  <2>13. EndTable(b, start).at = b.size + 4
    BY <1>2, <1>8
  <2>14. c.minalign = 4 /\ c.fields = << >>
    BY <2>5
  <2> QED BY <2>1, <2>6, <2>9, <2>11, <2>12, <2>13, <2>14 DEF c
<1> QED BY <1>11, <1>12

\* PushOffset writes how far it is from the next four bytes to a place.
LEMMA PushOffsetIs ==
  ASSUME NEW b, WellBuilt(b), NEW place \in Int
  PROVE  LET c == PushOffset(b, place)
         IN  /\ WellBuilt(c) /\ Keeps(b, c)
             /\ c.size = Up(b.size) + 4 /\ c.size \in Nat /\ c.size % 4 = 0
             /\ c.minalign = 4 /\ c.fields = b.fields /\ c.vtables = b.vtables
             /\ DOMAIN c.cells = DOMAIN b.cells \cup {c.size}
             /\ c.cells[c.size] = c.size - place
<1> DEFINE a == Align(b, 4)
           value == ReferTo(a, place)
           c == PushElement(b, 4, value)
           d == PushOffset(b, place)
<1>1. /\ WellBuilt(a) /\ a.size = Up(b.size)
  BY AlignIs
<1>2. /\ WellBuilt(c) /\ Keeps(b, c)
      /\ c.size = Up(b.size) + 4 /\ c.size \in Nat /\ c.size % 4 = 0
      /\ c.minalign = 4 /\ c.fields = b.fields /\ c.vtables = b.vtables
      /\ DOMAIN c.cells = DOMAIN b.cells \cup {c.size}
      /\ c.cells[c.size] = value
  BY PushElementIs
<1>3. d = c
  BY DEF PushOffset, PushElement
<1>4. value = c.size - place
  <2>1. a.size \in Nat /\ c.size = a.size + 4
    BY <1>1, <1>2 DEF WellBuilt
  <2>2. value = a.size - place + 4
    BY DEF ReferTo
  <2> HIDE DEF a, value, c
  <2> QED BY <2>1, <2>2
<1> HIDE DEF c, d, value
<1>5. d.cells[d.size] = d.size - place
  BY <1>2, <1>3, <1>4
<1> QED BY <1>2, <1>3, <1>5 DEF d

\* TrackField remembers the size as the place of a field, and writes nothing.
LEMMA TrackFieldIs ==
  ASSUME NEW b, WellBuilt(b), NEW field
  PROVE  LET c == TrackField(b, field)
         IN  /\ WellBuilt(c) /\ SameCells(b, c) /\ c.size = b.size /\ c.minalign = b.minalign
             /\ c.fields = Set(b.fields, field, b.size)
<1> DEFINE c == TrackField(b, field)
           f == Set(b.fields, field, b.size)
<1>1. c = [b EXCEPT !.fields = f]
  BY DEF TrackField
<1> HIDE DEF f
<1>2. b = [size |-> b.size, cells |-> b.cells, minalign |-> b.minalign,
           fields |-> b.fields, vtables |-> b.vtables]
  BY DEF WellBuilt, IsBuilder
<1>3. c = [size |-> b.size, cells |-> b.cells, minalign |-> b.minalign,
           fields |-> f, vtables |-> b.vtables]
  BY <1>1, <1>2
<1> HIDE DEF c
<1>4. /\ IsBuilder(c) /\ c.size = b.size /\ c.cells = b.cells /\ c.minalign = b.minalign
      /\ c.fields = f /\ c.vtables = b.vtables
  BY <1>3 DEF IsBuilder
<1>5. WellBuilt(c)
  BY <1>4 DEF WellBuilt
<1> QED BY <1>4, <1>5 DEF SameCells, f, c

\* A field of four bytes: it is written, and its place is remembered.
LEMMA AddedIs ==
  ASSUME NEW b, WellBuilt(b), NEW field, NEW value
  PROVE  LET c == TrackField(PushElement(b, 4, value), field)
         IN  /\ WellBuilt(c) /\ Keeps(b, c)
             /\ c.size = Up(b.size) + 4 /\ c.size \in Nat /\ c.size % 4 = 0
             /\ c.minalign = 4 /\ c.fields = Set(b.fields, field, c.size)
             /\ c.size \in DOMAIN c.cells /\ c.cells[c.size] = value
             /\ c.vtables = b.vtables
<1> DEFINE a == PushElement(b, 4, value)
           c == TrackField(a, field)
<1>1. /\ WellBuilt(a) /\ Keeps(b, a)
      /\ a.size = Up(b.size) + 4 /\ a.size \in Nat /\ a.size % 4 = 0
      /\ a.minalign = 4 /\ a.fields = b.fields /\ a.vtables = b.vtables
      /\ DOMAIN a.cells = DOMAIN b.cells \cup {a.size}
      /\ a.cells[a.size] = value
  BY PushElementIs
<1> HIDE DEF a
<1>2. /\ WellBuilt(c) /\ SameCells(a, c) /\ c.size = a.size /\ c.minalign = a.minalign
      /\ c.fields = Set(a.fields, field, a.size)
  BY <1>1, TrackFieldIs
<1> HIDE DEF c
<1>3. c.cells = a.cells /\ c.vtables = a.vtables
  BY <1>2 DEF SameCells
<1>4. Keeps(b, c)
  BY <1>1, <1>2, <1>3 DEF Keeps
<1>5. /\ c.size = Up(b.size) + 4 /\ c.size \in Nat /\ c.size % 4 = 0
      /\ c.minalign = 4 /\ c.fields = Set(b.fields, field, c.size)
      /\ c.size \in DOMAIN c.cells /\ c.cells[c.size] = value
      /\ c.vtables = b.vtables
  BY <1>1, <1>2, <1>3
<1> QED BY <1>2, <1>4, <1>5 DEF c, a

\* PreAlign of a multiple of four aligns as Align does, and of nothing does nothing.
LEMMA PreAlignIs ==
  ASSUME NEW b, WellBuilt(b), NEW m \in Nat, m % 4 = 0
  PROVE  PreAlign(b, m, 4) = IF m = 0 THEN b ELSE Align(b, 4)
<1>1. CASE m = 0
  BY <1>1 DEF PreAlign
<1>2. CASE m # 0
  <2> DEFINE n == b.size
  <2>1. n \in Nat
    BY DEF WellBuilt
  <2> HIDE DEF n
  <2>2. PaddingBytes(n + m, 4) = PaddingBytes(n + 0, 4)
    BY <2>1 DEF PaddingBytes
  <2>3. Padded(b, m, 4) = Padded(b, 0, 4)
    BY <2>2 DEF Padded, n
  <2> QED BY <1>2, <2>3 DEF PreAlign, Align
<1> QED BY <1>1, <1>2

\* A vector of structs is its length at its place, and the structs in order below it.
LEMMA VectorOfStructsIs ==
  ASSUME NEW b, WellBuilt(b), NEW X, NEW inputs \in Seq(X)
  PROVE  LET c == CreateVectorOfStructs(b, inputs)
             n == Len(inputs)
         IN  /\ WellBuilt(c) /\ Keeps(b, c)
             /\ c.size \in Nat /\ c.size % 4 = 0 /\ c.minalign = 4 /\ c.fields = b.fields
             /\ c.vtables = b.vtables
             /\ 12 * n + 4 <= c.size /\ c.size <= b.size + 2 + 12 * n + 4
             /\ c.size \in DOMAIN c.cells /\ c.cells[c.size] = n
             /\ \A k \in 1 .. n : /\ c.size + 8 - 12 * k \in DOMAIN c.cells
                                  /\ c.cells[c.size + 8 - 12 * k] = inputs[k]
<1> DEFINE n == Len(inputs)
           a == PreAlign(b, (3 * n) * 12, 4)
           new == {a.size + 12 * k : k \in 1 .. n}
           pushed == [p \in new |-> inputs[n + 1 - (p - a.size) \div 12]]
           filled == [a EXCEPT !.size = @ + 12 * n, !.cells = Under(@, pushed)]
           c == CreateVectorOfStructs(b, inputs)
<1>1. n \in Nat /\ b.size \in Nat /\ b.size % 2 = 0
  BY DEF WellBuilt
<1>2. /\ WellBuilt(a) /\ Keeps(b, a) /\ SameCells(b, a) /\ a.fields = b.fields
      /\ b.size <= a.size /\ a.size <= b.size + 2 /\ (n # 0 => a.size % 4 = 0)
  <2>1. (3 * n) * 12 \in Nat /\ ((3 * n) * 12) % 4 = 0 /\ ((3 * n) * 12 = 0 <=> n = 0)
    <3> HIDE DEF n
    <3> QED BY <1>1
  <2>2. a = IF n = 0 THEN b ELSE Align(b, 4)
    <3> DEFINE m == (3 * n) * 12
    <3>1. m \in Nat /\ m % 4 = 0 /\ (m = 0 <=> n = 0)
      BY <2>1
    <3> HIDE DEF m
    <3>2. PreAlign(b, m, 4) = IF m = 0 THEN b ELSE Align(b, 4)
      BY <3>1, PreAlignIs
    <3> QED BY <3>1, <3>2 DEF m
  <2> HIDE DEF a
  <2>3. CASE n = 0
    BY <1>1, <2>2, <2>3 DEF Keeps, SameCells
  <2>4. CASE n # 0
    <3> DEFINE e == Align(b, 4)
    <3>1. /\ WellBuilt(e) /\ Keeps(b, e) /\ SameCells(b, e) /\ e.fields = b.fields
          /\ e.size = Up(b.size)
      BY AlignIs
    <3> HIDE DEF e
    <3>2. Up(b.size) \in {b.size, b.size + 2} /\ Up(b.size) % 4 = 0
      BY <1>1, UpIs
    <3>3. a = e
      BY <2>2, <2>4 DEF e
    <3> QED BY <1>1, <3>1, <3>2, <3>3
  <2> QED BY <2>3, <2>4
<1>3. c = PushElement(filled, 4, n)
  BY DEF CreateVectorOfStructs
<1> HIDE DEF a, c
<1> DEFINE s == a.size
           cells == Under(a.cells, pushed)
<1>4. s \in Nat /\ s % 2 = 0
  BY <1>2 DEF WellBuilt
<1>5. filled = [size |-> s + 12 * n, cells |-> cells, minalign |-> a.minalign,
                fields |-> a.fields, vtables |-> a.vtables]
  <2>1. a = [size |-> a.size, cells |-> a.cells, minalign |-> a.minalign,
             fields |-> a.fields, vtables |-> a.vtables]
    BY <1>2 DEF WellBuilt, IsBuilder
  <2> DEFINE z == s + 12 * n
             w == [a EXCEPT !.size = z]
  <2>2. filled = [a EXCEPT !.size = z, !.cells = cells]
    OBVIOUS
  <2> HIDE DEF cells, z, n, filled
  <2>3. w = [size |-> z, cells |-> a.cells, minalign |-> a.minalign,
             fields |-> a.fields, vtables |-> a.vtables]
    BY <2>1
  <2>4. filled = [w EXCEPT !.cells = cells]
    BY <2>2
  <2> HIDE DEF w
  <2>5. [w EXCEPT !.cells = cells]
          = [size |-> z, cells |-> cells, minalign |-> a.minalign,
             fields |-> a.fields, vtables |-> a.vtables]
    BY <2>3
  <2>6. filled = [size |-> z, cells |-> cells, minalign |-> a.minalign,
                  fields |-> a.fields, vtables |-> a.vtables]
    BY <2>4, <2>5
  <2> QED BY <2>6 DEF z
<1>6. /\ \A p \in DOMAIN a.cells : p \in 1 .. s
      /\ \A p \in a.vtables : /\ p \in DOMAIN a.cells /\ p % 2 = 0
                              /\ a.cells[p][1] \in {6, 8} /\ a.cells[p][1] <= p
      /\ a.minalign \in {1, 4}
  BY <1>2 DEF WellBuilt
<1> HIDE DEF filled, n
<1>7. \A p \in new : p \in Nat /\ p > s /\ p <= s + 12 * n
  <2> HIDE DEF s
  <2>1. new = {s + 12 * k : k \in 1 .. n}
    BY DEF s
  <2> HIDE DEF new
  <2> QED BY <1>1, <1>4, <2>1
<1>8. /\ DOMAIN cells = DOMAIN a.cells \cup new
      /\ \A p \in new : cells[p] = pushed[p]
      /\ \A p \in DOMAIN a.cells : cells[p] = a.cells[p]
  <2>1. \A p \in DOMAIN a.cells : p \notin new
    <3> HIDE DEF new, s
    <3> QED BY <1>4, <1>6, <1>7
  <2>2. DOMAIN pushed = new
    OBVIOUS
  <2> HIDE DEF new, pushed
  <2>3. cells = [x \in DOMAIN a.cells \cup DOMAIN pushed |->
                   IF x \in DOMAIN pushed THEN pushed[x] ELSE a.cells[x]]
    BY DEF Under
  <2> QED BY <2>1, <2>2, <2>3
<1>9. \A k \in 1 .. n : /\ s + 12 * (n + 1 - k) \in new
                        /\ pushed[s + 12 * (n + 1 - k)] = inputs[k]
  <2> SUFFICES ASSUME NEW k \in 1 .. n
               PROVE  /\ s + 12 * (n + 1 - k) \in new
                      /\ pushed[s + 12 * (n + 1 - k)] = inputs[k]
    OBVIOUS
  <2> DEFINE j == n + 1 - k
             p == s + 12 * j
  <2>1. j \in 1 .. n /\ n + 1 - j = k
    BY <1>1
  <2>2. (p - s) \div 12 = j
    <3> HIDE DEF s, j
    <3>1. p - s = 12 * j
      BY <1>4, <2>1
    <3>2. (12 * j) \div 12 = j
      BY <2>1
    <3> QED BY <3>1, <3>2
  <2> HIDE DEF j
  <2>3. p \in new
    BY <2>1
  <2>4. pushed[p] = inputs[n + 1 - (p - s) \div 12]
    BY <2>3
  <2>5. pushed[p] = inputs[k]
    BY <2>1, <2>2, <2>4
  <2> QED BY <2>3, <2>5 DEF j
<1> HIDE DEF cells, pushed, s, new
<1>10. /\ IsBuilder(filled) /\ filled.size = s + 12 * n /\ filled.cells = cells
       /\ filled.fields = b.fields /\ filled.vtables = a.vtables
       /\ filled.minalign = a.minalign
  BY <1>2, <1>5 DEF IsBuilder
<1>11. WellBuilt(filled)
  <2>1. filled.size \in Nat /\ filled.size % 2 = 0 /\ filled.size >= s
    BY <1>1, <1>4, <1>10
  <2>2. \A p \in DOMAIN cells : p \in 1 .. filled.size
    BY <1>4, <1>6, <1>7, <1>8, <1>10, <2>1
  <2>3. \A p \in a.vtables : /\ p \in DOMAIN cells /\ p % 2 = 0
                             /\ cells[p][1] \in {6, 8} /\ cells[p][1] <= p
    BY <1>6, <1>8
  <2> QED BY <1>6, <1>10, <2>1, <2>2, <2>3 DEF WellBuilt
<1>12. Keeps(b, filled)
  <2>1. a.cells = b.cells /\ b.size <= s
    BY <1>2 DEF SameCells, s
  <2> QED BY <1>1, <1>4, <1>8, <1>10, <2>1 DEF Keeps
<1>13. /\ WellBuilt(c) /\ Keeps(filled, c)
       /\ c.size = Up(filled.size) + 4 /\ c.size \in Nat /\ c.size % 4 = 0
       /\ c.minalign = 4 /\ c.fields = filled.fields /\ c.vtables = filled.vtables
       /\ DOMAIN c.cells = DOMAIN filled.cells \cup {c.size}
       /\ c.cells[c.size] = n
  BY <1>3, <1>11, PushElementIs
<1>14. Keeps(b, c)
  <2>1. filled.size \in Nat
    BY <1>11 DEF WellBuilt
  <2> QED BY <1>1, <1>12, <1>13, <2>1 DEF Keeps
<1>15. /\ n # 0 => c.size = s + 12 * n + 4
       /\ n = 0 => c.size = Up(s) + 4 /\ s = b.size
  <2>1. CASE n # 0
    <3> DEFINE z == s + 12 * n
    <3>1. s % 4 = 0 /\ s \in Nat
      BY <1>2, <1>4, <2>1 DEF s
    <3>2. z \in Nat /\ z % 4 = 0 /\ z % 2 = 0
      BY <1>1, <3>1
    <3> HIDE DEF z
    <3>3. Up(z) = z
      BY <3>2, UpIs
    <3> QED BY <1>10, <1>13, <2>1, <3>2, <3>3 DEF z
  <2>2. CASE n = 0
    <3>1. filled.size = s
      BY <1>4, <1>10, <2>2
    <3>2. s = b.size
      <4>1. a = b
        <5>1. (3 * n) * 12 = 0 /\ 0 % 4 = 0
          BY <2>2
        <5> QED BY <5>1 DEF a, PreAlign
      <4> QED BY <4>1 DEF s
    <3> QED BY <1>13, <2>2, <3>1, <3>2
  <2> QED BY <2>1, <2>2
<1>16. 12 * n + 4 <= c.size /\ c.size <= b.size + 2 + 12 * n + 4
  <2>1. CASE n # 0
    <3>1. s <= b.size + 2
      BY <1>2 DEF s
    <3> QED BY <1>1, <1>4, <1>15, <2>1, <3>1
  <2>2. CASE n = 0
    <3>1. Up(s) \in {s, s + 2}
      BY <1>4, UpIs
    <3> QED BY <1>1, <1>4, <1>15, <2>2, <3>1
  <2> QED BY <2>1, <2>2
<1>17. ASSUME NEW k \in 1 .. n
       PROVE  /\ c.size + 8 - 12 * k \in DOMAIN c.cells
              /\ c.cells[c.size + 8 - 12 * k] = inputs[k]
  <2> DEFINE p == s + 12 * (n + 1 - k)
  <2>1. c.size + 8 - 12 * k = p
    BY <1>1, <1>4, <1>15
  <2>2. p \in new /\ pushed[p] = inputs[k]
    BY <1>9
  <2> HIDE DEF p
  <2>3. p \in DOMAIN filled.cells /\ filled.cells[p] = inputs[k]
    BY <1>8, <1>10, <2>2
  <2>4. p \in DOMAIN c.cells /\ c.cells[p] = inputs[k]
    BY <1>13, <2>3 DEF Keeps
  <2> QED BY <2>1, <2>4
<1>18. c.size \in DOMAIN c.cells /\ c.fields = b.fields /\ c.vtables = b.vtables
  <2>1. a.vtables = b.vtables
    BY <1>2 DEF SameCells
  <2> QED BY <1>10, <1>13, <2>1
<1> QED BY <1>13, <1>14, <1>16, <1>17, <1>18 DEF c, n

-----------------------------------------------------------------------------
(* Packets.                                                                *)

\* What is built on what is built on b is built on b.
LEMMA KeepsTransitive ==
  \A a, b, c : /\ a.size \in Nat /\ b.size \in Nat /\ c.size \in Nat
               /\ Keeps(a, b) /\ Keeps(b, c)
               => Keeps(a, c)
BY DEF Keeps

\* What is built later leaves a table as it is.
LEMMA KeepsTable ==
  \A b, c, place, fields : Keeps(b, c) /\ HasTable(b, place, fields) => HasTable(c, place, fields)
BY DEF Keeps, HasTable

\* A packet: as GetPaket builds it, without a vector if it has no tick.
IsPacket(packet, X) ==
  /\ packet \in [tickNum : Int, inputs : Seq(X)]
  /\ packet.tickNum = Unset => packet.inputs = << >>
  /\ Len(packet.inputs) <= MaxTicksToTransmit

\* Where the fields of a packet's table are.
PacketFields(packet, place) ==
  [field \in IF packet.tickNum = Unset THEN {4} ELSE {4, 6} |->
     IF field = 4 THEN place - 4 ELSE place - 8]

\* The table of a packet, its fields and the vector.
HasPacket(b, place, packet) ==
  /\ HasTable(b, place, PacketFields(packet, place))
  /\ place - 4 \in DOMAIN b.cells /\ b.cells[place - 4] = packet.tickNum
  /\ packet.tickNum # Unset =>
       /\ place - 8 \in DOMAIN b.cells /\ b.cells[place - 8] = 4
       /\ place - 12 \in DOMAIN b.cells /\ b.cells[place - 12] = Len(packet.inputs)
       /\ 12 * Len(packet.inputs) + 16 <= place
       /\ \A k \in 1 .. Len(packet.inputs) :
            /\ place - 4 - 12 * k \in DOMAIN b.cells
            /\ b.cells[place - 4 - 12 * k] = packet.inputs[k]

\* What is built later leaves a packet as it is.
LEMMA KeepsPacket ==
  \A b, c, place, packet : Keeps(b, c) /\ HasPacket(b, place, packet) => HasPacket(c, place, packet)
<1> SUFFICES ASSUME NEW b, NEW c, NEW place, NEW packet, Keeps(b, c), HasPacket(b, place, packet)
             PROVE  HasPacket(c, place, packet)
  OBVIOUS
<1>1. HasTable(b, place, PacketFields(packet, place))
  BY DEF HasPacket
<1>2. HasTable(c, place, PacketFields(packet, place))
  BY <1>1, KeepsTable
<1> QED BY <1>2 DEF HasPacket, Keeps

\* With its fields written, the table of a packet is ready for its end.
ReadyFor(u, b, packet) ==
  LET n == Len(packet.inputs)
  IN  /\ WellBuilt(u) /\ Keeps(b, u) /\ u.size \in Nat /\ u.size % 4 = 0
      /\ DOMAIN u.fields \in FieldSets
      /\ u.fields = PacketFields(packet, u.size + 4)
      /\ u.size \in DOMAIN u.cells /\ u.cells[u.size] = packet.tickNum
      /\ u.vtables = b.vtables
      /\ u.size > b.size /\ u.size <= b.size + 12 * n + 14
      /\ packet.tickNum # Unset =>
           /\ u.size - 4 \in DOMAIN u.cells /\ u.cells[u.size - 4] = 4
           /\ u.size - 8 \in DOMAIN u.cells /\ u.cells[u.size - 8] = n
           /\ 12 * n + 12 <= u.size
           /\ \A k \in 1 .. n : /\ u.size - 12 * k \in DOMAIN u.cells
                                /\ u.cells[u.size - 12 * k] = packet.inputs[k]

\* The struct tick_num is written as a field of four bytes.
LEMMA TickNumIs ==
  \A t, tickNum : AddStruct(t, VT_TICK_NUM, 4, tickNum) = TrackField(PushElement(t, 4, tickNum), 4)
BY DEF AddStruct, PushElement, VT_TICK_NUM

\* One field, and a second one, as functions.
LEMMA FieldsAre ==
  \A x, y, field :
    /\ Set(<< >>, field, x) = [f \in {field} |-> x]
    /\ Set(Set(<< >>, 6, x), 4, y) = [f \in {4, 6} |-> IF f = 4 THEN y ELSE x]
<1> SUFFICES ASSUME NEW x, NEW y, NEW field
             PROVE  /\ Set(<< >>, field, x) = [f \in {field} |-> x]
                    /\ Set(Set(<< >>, 6, x), 4, y) = [f \in {4, 6} |-> IF f = 4 THEN y ELSE x]
  OBVIOUS
<1>1. \A i : Set(<< >>, i, x) = [f \in {i} |-> x]
  BY DEF Set, Under
<1> DEFINE old == [f \in {6} |-> x]
           new == [f \in {4} |-> y]
<1>2. Set(Set(<< >>, 6, x), 4, y) = Under(old, new)
  BY <1>1 DEF Set
<1>3. DOMAIN old = {6} /\ old[6] = x /\ DOMAIN new = {4} /\ new[4] = y
  OBVIOUS
<1> HIDE DEF old, new
<1>4. Under(old, new) = [f \in {4, 6} |-> IF f \in {4} THEN new[f] ELSE old[f]]
  <2>1. {6} \cup {4} = {4, 6}
    OBVIOUS
  <2> QED BY <1>3, <2>1 DEF Under
<1>5. [f \in {4, 6} |-> IF f \in {4} THEN new[f] ELSE old[f]]
        = [f \in {4, 6} |-> IF f = 4 THEN y ELSE x]
  BY <1>3
<1> QED BY <1>1, <1>2, <1>4, <1>5

\* A field with the offset of the vector that was just written.
LEMMA VectorFieldIs ==
  ASSUME NEW v, WellBuilt(v), v.size % 4 = 0, v.size # 0, v.fields = << >>, NEW field
  PROVE  LET t == AddOffset(v, field, v.size)
             s == v.size
         IN  /\ WellBuilt(t) /\ Keeps(v, t) /\ t.size = s + 4 /\ t.size % 4 = 0
             /\ t.fields = Set(<< >>, field, s + 4)
             /\ s + 4 \in DOMAIN t.cells /\ t.cells[s + 4] = 4
             /\ t.vtables = v.vtables
<1> DEFINE s == v.size
           o == PushOffset(v, s)
           t == AddOffset(v, field, s)
<1>1. s \in Nat /\ s % 4 = 0
  BY DEF WellBuilt
<1>2. t = TrackField(o, field)
  BY DEF AddOffset
<1> HIDE DEF t, o
<1>3. s % 2 = 0 /\ (s + 4) % 4 = 0 /\ s + 4 \in Nat
  <2> HIDE DEF s
  <2> QED BY <1>1, Divisible
<1>4. Up(s) = s
  <2> HIDE DEF s
  <2> QED BY <1>1, <1>3, UpIs
<1>5. /\ WellBuilt(o) /\ Keeps(v, o) /\ o.size = s + 4 /\ o.fields = << >>
      /\ o.vtables = v.vtables
      /\ o.size \in DOMAIN o.cells /\ o.cells[o.size] = o.size - s
  <2>1. /\ WellBuilt(o) /\ Keeps(v, o) /\ o.size = Up(v.size) + 4
        /\ o.fields = v.fields /\ o.vtables = v.vtables /\ DOMAIN o.cells = DOMAIN v.cells \cup {o.size}
        /\ o.cells[o.size] = o.size - s
    <3>1. s \in Int
      BY <1>1
    <3> QED BY <3>1, PushOffsetIs DEF o
  <2>2. o.size = s + 4
    BY <1>4, <2>1
  <2> QED BY <2>1, <2>2
<1> HIDE DEF s
<1>6. WellBuilt(t) /\ t.size = s + 4 /\ t.cells = o.cells /\ t.fields = Set(<< >>, field, s + 4)
      /\ t.vtables = v.vtables
  <2>1. WellBuilt(t) /\ SameCells(o, t) /\ t.size = o.size /\ t.fields = Set(o.fields, field, o.size)
    BY <1>2, <1>5, TrackFieldIs
  <2> QED BY <1>5, <2>1 DEF SameCells
<1>7. s + 4 \in DOMAIN o.cells /\ o.cells[s + 4] = 4
  <2>1. s + 4 \in DOMAIN o.cells /\ o.cells[s + 4] = (s + 4) - s
    BY <1>5
  <2>2. (s + 4) - s = 4
    BY <1>1
  <2> QED BY <2>1, <2>2
<1>8. Keeps(v, t)
  <2>1. t.size = o.size
    BY <1>5, <1>6
  <2> QED BY <1>5, <1>6, <2>1 DEF Keeps
<1> QED BY <1>3, <1>6, <1>7, <1>8 DEF t, s

\* A packet without a tick has no vector.
LEMMA AbsentReady ==
  ASSUME NEW b, WellBuilt(b), b.fields = << >>, NEW X, NEW packet, IsPacket(packet, X),
         packet.tickNum = Unset
  PROVE  ReadyFor(AddStruct(b, VT_TICK_NUM, 4, packet.tickNum), b, packet)
<1> DEFINE u == AddStruct(b, VT_TICK_NUM, 4, packet.tickNum)
           s == b.size
           z == u.size
           n == Len(packet.inputs)
<1>1. s \in Nat /\ s % 2 = 0
  BY DEF WellBuilt
<1>2. packet.inputs = << >>
  BY DEF IsPacket
<1>3. n = 0
  BY <1>2
<1>4. u = TrackField(PushElement(b, 4, packet.tickNum), 4)
  BY TickNumIs
<1> HIDE DEF u, n, s
<1>5. /\ WellBuilt(u) /\ Keeps(b, u) /\ u.size \in Nat /\ u.size % 4 = 0
      /\ u.size = Up(b.size) + 4 /\ u.fields = Set(b.fields, 4, u.size)
      /\ u.size \in DOMAIN u.cells /\ u.cells[u.size] = packet.tickNum
      /\ u.vtables = b.vtables
  BY <1>4, AddedIs
<1>6. Up(s) \in {s, s + 2}
  BY <1>1, UpIs
<1>7. z = s + 4 \/ z = s + 6
  BY <1>1, <1>5, <1>6 DEF s
<1>8. z > s /\ z <= s + 12 * n + 14
  <2> HIDE DEF z
  <2> QED BY <1>1, <1>3, <1>7
<1>9. u.fields = PacketFields(packet, u.size + 4)
  <2> DEFINE place == u.size + 4
  <2>1. place - 4 = u.size
    BY <1>5
  <2>2. u.fields = Set(<< >>, 4, place - 4)
    BY <1>5, <2>1
  <2> HIDE DEF place
  <2>3. Set(<< >>, 4, place - 4) = [field \in {4} |-> place - 4]
    BY FieldsAre
  <2>4. PacketFields(packet, place) = [field \in {4} |-> IF field = 4 THEN place - 4 ELSE place - 8]
    BY DEF PacketFields
  <2>5. [field \in {4} |-> IF field = 4 THEN place - 4 ELSE place - 8] = [field \in {4} |-> place - 4]
    OBVIOUS
  <2>6. u.fields = PacketFields(packet, place)
    BY <2>2, <2>3, <2>4, <2>5
  <2> QED BY <2>6 DEF place
<1>10. DOMAIN u.fields \in FieldSets
  BY <1>9 DEF FieldSets, PacketFields
<1> QED BY <1>5, <1>8, <1>9, <1>10 DEF ReadyFor, u, n, s

\* A packet with a tick has a vector below its table, which may be empty.
LEMMA PresentReady ==
  ASSUME NEW b, WellBuilt(b), b.fields = << >>, NEW X, NEW packet, IsPacket(packet, X),
         packet.tickNum # Unset
  PROVE  LET v == CreateVectorOfStructs(b, packet.inputs)
             t == AddOffset(v, VT_INPUTS, v.size)
         IN  ReadyFor(AddStruct(t, VT_TICK_NUM, 4, packet.tickNum), b, packet)
<1> DEFINE inputs == packet.inputs
           n == Len(inputs)
           v == CreateVectorOfStructs(b, inputs)
           s == v.size
           t == AddOffset(v, VT_INPUTS, s)
           u == AddStruct(t, VT_TICK_NUM, 4, packet.tickNum)
           z == u.size
           d == b.size
<1>1. d \in Nat /\ d % 2 = 0
  BY DEF WellBuilt
<1>2. inputs \in Seq(X)
  BY DEF IsPacket
<1>3. n \in Nat
  BY <1>2
<1>4. u = TrackField(PushElement(t, 4, packet.tickNum), 4)
  BY TickNumIs
<1> HIDE DEF inputs, v, d
<1>5. /\ WellBuilt(v) /\ Keeps(b, v)
      /\ s \in Nat /\ s % 4 = 0 /\ v.minalign = 4 /\ v.fields = << >>
      /\ 12 * n + 4 <= s /\ s <= d + 2 + 12 * n + 4
      /\ s \in DOMAIN v.cells /\ v.cells[s] = n /\ v.vtables = b.vtables
      /\ \A k \in 1 .. n : /\ s + 8 - 12 * k \in DOMAIN v.cells
                           /\ v.cells[s + 8 - 12 * k] = inputs[k]
  BY <1>2, VectorOfStructsIs DEF v, d
<1> HIDE DEF s, n, u
<1>6. s # 0
  BY <1>3, <1>5
<1>7. /\ WellBuilt(t) /\ Keeps(v, t) /\ t.size = s + 4 /\ (s + 4) % 4 = 0
      /\ t.fields = Set(<< >>, 6, s + 4)
      /\ s + 4 \in DOMAIN t.cells /\ t.cells[s + 4] = 4 /\ t.vtables = v.vtables
  <2>1. v.size % 4 = 0 /\ v.size # 0
    BY <1>5, <1>6 DEF s
  <2> QED BY <1>5, <2>1, VectorFieldIs DEF s, VT_INPUTS
<1> HIDE DEF t
<1>8. (s + 4) % 2 = 0 /\ s + 4 \in Nat
  BY <1>5, <1>7, Divisible
<1>9. /\ WellBuilt(u) /\ Keeps(t, u) /\ u.size \in Nat /\ u.size % 4 = 0
       /\ u.size = Up(t.size) + 4 /\ u.fields = Set(t.fields, 4, u.size)
       /\ u.size \in DOMAIN u.cells /\ u.cells[u.size] = packet.tickNum
       /\ u.vtables = t.vtables
  BY <1>4, <1>7, AddedIs
<1>10. z = s + 8
  <2>1. Up(s + 4) = s + 4
    BY <1>7, <1>8, UpIs
  <2>2. z = s + 4 + 4
    BY <1>7, <1>9, <2>1
  <2> HIDE DEF z
  <2> QED BY <1>5, <2>2
<1>11. \A p \in DOMAIN t.cells : p \in DOMAIN u.cells /\ u.cells[p] = t.cells[p]
  BY <1>9 DEF Keeps
<1>12. \A p \in DOMAIN v.cells : p \in DOMAIN u.cells /\ u.cells[p] = v.cells[p]
  BY <1>7, <1>11 DEF Keeps
<1>13. s + 4 \in DOMAIN u.cells /\ u.cells[s + 4] = 4
  BY <1>7, <1>11
<1>14. d <= s
  BY <1>5 DEF Keeps, d, s
<1>15. Keeps(b, u)
  <2>1. \A p \in DOMAIN b.cells : p \in DOMAIN u.cells /\ u.cells[p] = b.cells[p]
    BY <1>5, <1>12 DEF Keeps
  <2>2. d <= z
    <3> HIDE DEF z
    <3> QED BY <1>1, <1>5, <1>10, <1>14
  <2> QED BY <2>1, <2>2 DEF Keeps, d
<1>16. u.fields = PacketFields(packet, z + 4)
  <2>1. u.fields = Set(Set(<< >>, 6, s + 4), 4, s + 8)
    BY <1>7, <1>9, <1>10
  <2>2. u.fields = [x \in {4, 6} |-> IF x = 4 THEN s + 8 ELSE s + 4]
    BY <2>1, FieldsAre
  <2> DEFINE place == z + 4
  <2>3. place - 4 = s + 8 /\ place - 8 = s + 4
    <3> HIDE DEF z
    <3> QED BY <1>5, <1>10
  <2> HIDE DEF place
  <2>4. PacketFields(packet, place) = [x \in {4, 6} |-> IF x = 4 THEN place - 4 ELSE place - 8]
    BY DEF PacketFields
  <2>5. u.fields = PacketFields(packet, place)
    BY <2>2, <2>3, <2>4
  <2> QED BY <2>5 DEF place
<1>17. DOMAIN u.fields \in FieldSets
  BY <1>16 DEF FieldSets, PacketFields
<1> HIDE DEF z
<1>18. z > d /\ z <= d + 12 * n + 14 /\ 12 * n + 12 <= z
  BY <1>1, <1>3, <1>5, <1>10, <1>14
<1>19. z - 4 = s + 4 /\ z - 8 = s
  BY <1>5, <1>10
<1>20. s \in DOMAIN u.cells /\ u.cells[s] = n
  BY <1>5, <1>12
<1>21. ASSUME NEW k \in 1 .. n
       PROVE  z - 12 * k \in DOMAIN u.cells /\ u.cells[z - 12 * k] = inputs[k]
  <2> DEFINE p == s + 8 - 12 * k
  <2>1. z - 12 * k = p
    BY <1>3, <1>5, <1>10
  <2>2. p \in DOMAIN v.cells /\ v.cells[p] = inputs[k]
    BY <1>5
  <2> HIDE DEF p
  <2> QED BY <1>12, <2>1, <2>2
<1>22. u.vtables = b.vtables
  BY <1>5, <1>7, <1>9
<1>23. ReadyFor(u, b, packet)
  BY <1>9, <1>13, <1>15, <1>16, <1>17, <1>18, <1>19, <1>20, <1>21, <1>22
  DEF ReadyFor, z, d, n, inputs
<1> QED BY <1>23 DEF u, t, s, v, inputs

\* CreatePlayerInputsSynchronizer leaves the packet at the place that it returns, and
\* writes no more than the packet needs; how much exactly, if it is the first one.
LEMMA SynchronizerIs ==
  ASSUME NEW b, WellBuilt(b), b.fields = << >>, NEW X, NEW packet, IsPacket(packet, X)
  PROVE  LET made == CreatePlayerInputsSynchronizer(b, packet)
             c == made.builder
         IN  /\ WellBuilt(c) /\ Keeps(b, c) /\ c.minalign = 4 /\ c.fields = << >>
             /\ HasPacket(c, made.at, packet)
             /\ made.at \in Nat /\ made.at > b.size /\ made.at <= c.size
             /\ c.size <= b.size + 12 * Len(packet.inputs) + 26
             /\ b.vtables = {} => /\ made.at % 4 = 0 /\ c.size \in {made.at + 6, made.at + 8}
                                 /\ made.at <= b.size + 12 * Len(packet.inputs) + 18
<1> DEFINE made == CreatePlayerInputsSynchronizer(b, packet)
           c == made.builder
           n == Len(packet.inputs)
           unset == packet.tickNum = Unset
           v == IF unset THEN b ELSE CreateVectorOfStructs(b, packet.inputs)
           t == AddOffset(v, VT_INPUTS, IF unset THEN 0 ELSE v.size)
           u == AddStruct(t, VT_TICK_NUM, 4, packet.tickNum)
           z == u.size
           d == b.size
<1>1. d \in Nat
  BY DEF WellBuilt
<1>2. n \in Nat
  <2>1. packet.inputs \in Seq(X)
    BY DEF IsPacket
  <2> QED BY <2>1
<1>3. made = EndTable(u, v.size)
  BY DEF CreatePlayerInputsSynchronizer
<1>4. ReadyFor(u, b, packet)
  <2>1. CASE unset
    <3>1. t = b
      BY <2>1 DEF AddOffset
    <3> QED BY <2>1, <3>1, AbsentReady
  <2>2. CASE ~unset
    BY <2>2, PresentReady
  <2> QED BY <2>1, <2>2
<1> HIDE DEF made, u, d, n, v
<1>5. /\ WellBuilt(u) /\ Keeps(b, u) /\ z \in Nat /\ z % 4 = 0
      /\ DOMAIN u.fields \in FieldSets
      /\ u.fields = PacketFields(packet, z + 4)
      /\ z \in DOMAIN u.cells /\ u.cells[z] = packet.tickNum
      /\ z > d /\ z <= d + 12 * n + 14 /\ u.vtables = b.vtables
      /\ ~unset =>
           /\ z - 4 \in DOMAIN u.cells /\ u.cells[z - 4] = 4
           /\ z - 8 \in DOMAIN u.cells /\ u.cells[z - 8] = n
           /\ 12 * n + 12 <= z
           /\ \A k \in 1 .. n : /\ z - 12 * k \in DOMAIN u.cells
                                /\ u.cells[z - 12 * k] = packet.inputs[k]
  BY <1>4 DEF ReadyFor, n, d
<1> DEFINE place == z + 4
<1>6. /\ made.at = place /\ WellBuilt(c) /\ Keeps(u, c)
      /\ c.size \in {place, z + 10, z + 12}
      /\ c.minalign = 4 /\ c.fields = << >> /\ HasTable(c, place, u.fields)
      /\ u.vtables = {} => c.size # z + 4
  BY <1>3, <1>5, EndTableIs
<1> HIDE DEF c, unset, z
<1>7. place \in Nat /\ place > d /\ place <= c.size /\ c.size <= d + 12 * n + 26
  BY <1>1, <1>2, <1>5, <1>6
<1>8. Keeps(b, c)
  <2>1. c.size \in Nat /\ u.size \in Nat /\ b.size \in Nat
    BY <1>1, <1>5, <1>6 DEF WellBuilt, d
  <2> QED BY <1>5, <1>6, <2>1, KeepsTransitive
<1>9. HasPacket(c, place, packet)
  <2>1. HasTable(c, place, PacketFields(packet, place))
    BY <1>5, <1>6
  <2>2. \A p \in DOMAIN u.cells : p \in DOMAIN c.cells /\ c.cells[p] = u.cells[p]
    BY <1>6 DEF Keeps
  <2>3. place - 4 = z /\ place - 8 = z - 4 /\ place - 12 = z - 8
    BY <1>5
  <2>4. place - 4 \in DOMAIN c.cells /\ c.cells[place - 4] = packet.tickNum
    BY <1>5, <2>2, <2>3
  <2>5. ASSUME ~unset
        PROVE  /\ place - 8 \in DOMAIN c.cells /\ c.cells[place - 8] = 4
               /\ place - 12 \in DOMAIN c.cells /\ c.cells[place - 12] = n
    BY <1>5, <2>2, <2>3, <2>5
  <2>6. ASSUME ~unset
        PROVE  12 * n + 16 <= place
    BY <1>2, <1>5, <2>6
  <2>7. ASSUME ~unset, NEW k \in 1 .. n
        PROVE  /\ place - 4 - 12 * k \in DOMAIN c.cells
               /\ c.cells[place - 4 - 12 * k] = packet.inputs[k]
    <3>1. place - 4 - 12 * k = z - 12 * k
      BY <1>2, <1>5
    <3>2. z - 12 * k \in DOMAIN u.cells /\ u.cells[z - 12 * k] = packet.inputs[k]
      BY <1>5, <2>7
    <3> QED BY <2>2, <3>1, <3>2
  <2> HIDE DEF place
  <2> QED BY <2>1, <2>4, <2>5, <2>6, <2>7 DEF HasPacket, unset, n
<1>13. ASSUME b.vtables = {}
       PROVE  /\ place % 4 = 0 /\ c.size \in {place + 6, place + 8}
              /\ place <= d + 12 * n + 18
  <2>1. c.size # z + 4
    BY <1>5, <1>6, <1>13
  <2> HIDE DEF d
  <2> QED BY <1>1, <1>2, <1>5, <1>6, <2>1
<1> HIDE DEF place
<1>10. WellBuilt(c) /\ Keeps(b, c) /\ c.minalign = 4 /\ c.fields = << >>
  BY <1>6, <1>8
<1>11. HasPacket(c, made.at, packet)
  BY <1>6, <1>9
<1>12. made.at \in Nat /\ made.at > d /\ made.at <= c.size /\ c.size <= d + 12 * n + 26
  BY <1>6, <1>7
<1>14. b.vtables = {} => /\ made.at % 4 = 0 /\ c.size \in {made.at + 6, made.at + 8}
                         /\ made.at <= d + 12 * n + 18
  BY <1>6, <1>13
<1> QED BY <1>10, <1>11, <1>12, <1>14 DEF c, d, n, made

\* A new builder.
LEMMA NewBuilderIs == WellBuilt(NewBuilder) /\ NewBuilder.fields = << >> /\ NewBuilder.size = 0
<1>1. DOMAIN NewBuilder.cells = {}
  BY DEF NewBuilder
<1>2. IsBuilder(NewBuilder)
  BY DEF NewBuilder, IsBuilder
<1> QED BY <1>1, <1>2 DEF NewBuilder, WellBuilt

\* The first i packets are written.
HasPackets(with, packets, i) ==
  /\ WellBuilt(with.builder) /\ with.builder.fields = << >>
  /\ i > 0 => with.builder.minalign = 4
  /\ with.builder.size <= i * (12 * MaxTicksToTransmit + 26)
  /\ with.places \in Seq(Nat) /\ Len(with.places) = i
  /\ \A j \in 1 .. i : /\ with.places[j] <= with.builder.size
                       /\ HasPacket(with.builder, with.places[j], packets[j])

\* One turn of the loop over the packets.
LEMMA AddPacketIs ==
  ASSUME NEW X, NEW packets, NEW n \in Nat, \A j \in 1 .. n : IsPacket(packets[j], X),
         NEW i \in 0 .. n - 1, NEW with, HasPackets(with, packets, i)
  PROVE  HasPackets(AddPacket(with, packets[i + 1]), packets, i + 1)
<1> DEFINE packet == packets[i + 1]
           b == with.builder
           places == with.places
           made == CreatePlayerInputsSynchronizer(b, packet)
           c == made.builder
           place == made.at
           next == AddPacket(with, packet)
           d == b.size
           e == c.size
           l == Len(packet.inputs)
<1>1. /\ WellBuilt(b) /\ b.fields = << >>
      /\ d <= i * (12 * MaxTicksToTransmit + 26)
      /\ places \in Seq(Nat) /\ Len(places) = i
      /\ \A j \in 1 .. i : places[j] <= d /\ HasPacket(b, places[j], packets[j])
  BY DEF HasPackets
<1>2. i + 1 \in 1 .. n /\ IsPacket(packet, X)
  BY DEF packet
<1>3. next = [builder |-> c, places |-> Append(places, place)]
  BY DEF AddPacket
<1> HIDE DEF next, b, places, packet
<1>4. /\ WellBuilt(c) /\ Keeps(b, c) /\ c.minalign = 4 /\ c.fields = << >>
      /\ HasPacket(c, place, packet) /\ place \in Nat /\ place <= e /\ e <= d + 12 * l + 26
  BY <1>1, <1>2, SynchronizerIs
<1> HIDE DEF made
<1>5. d \in Nat /\ e \in Nat /\ d <= e
  BY <1>1, <1>4 DEF WellBuilt, Keeps
<1>6. l \in Nat /\ l <= MaxTicksToTransmit
  <2>1. packet.inputs \in Seq(X)
    BY <1>2 DEF IsPacket
  <2> QED BY <1>2, <2>1 DEF IsPacket
<1>7. next.builder = c /\ next.places = Append(places, place)
  BY <1>3
<1>8. next.places \in Seq(Nat) /\ Len(next.places) = i + 1 /\ next.places[i + 1] = place
      /\ \A j \in 1 .. i : next.places[j] = places[j]
  BY <1>1, <1>4, <1>7
<1>9. e <= (i + 1) * (12 * MaxTicksToTransmit + 26)
  <2> DEFINE m == 12 * MaxTicksToTransmit + 26
  <2> HIDE DEF d, e, l, c
  <2>1. e <= d + m /\ m \in Nat
    BY <1>4, <1>5, <1>6, FlatBufferAssumption
  <2> HIDE DEF m
  <2>2. (i + 1) * m = i * m + m /\ i * m \in Nat
    BY <2>1
  <2>3. d <= i * m
    BY <1>1 DEF m
  <2>4. e <= (i + 1) * m
    BY <1>5, <2>1, <2>2, <2>3
  <2> QED BY <2>4 DEF m
<1>10. ASSUME NEW j \in 1 .. i + 1
       PROVE  next.places[j] <= e /\ HasPacket(c, next.places[j], packets[j])
  <2>1. CASE j = i + 1
    BY <1>4, <1>8, <2>1 DEF packet
  <2>2. CASE j \in 1 .. i
    <3>1. next.places[j] = places[j] /\ places[j] \in Nat /\ places[j] <= d
          /\ HasPacket(b, places[j], packets[j])
      BY <1>1, <1>8, <2>2
    <3>2. HasPacket(c, places[j], packets[j])
      BY <1>4, <3>1, KeepsPacket
    <3>3. places[j] <= e
      BY <1>5, <3>1
    <3> QED BY <3>1, <3>2, <3>3
  <2> QED BY <2>1, <2>2
<1>11. HasPackets(next, packets, i + 1)
  BY <1>4, <1>7, <1>8, <1>9, <1>10 DEF HasPackets
<1> QED BY <1>11 DEF next, packet

\* The largest of some of the numbers up to k + 1, and what is left without it.
LEMMA LargestOf ==
  ASSUME NEW k \in Nat, NEW s \in SUBSET (1 .. k + 1)
  PROVE  /\ k + 1 \in s => Max(s) = k + 1 /\ s \ {Max(s)} \in SUBSET (1 .. k)
         /\ k + 1 \notin s => s \in SUBSET (1 .. k)
<1>1. k + 1 \notin s => s \in SUBSET (1 .. k)
  OBVIOUS
<1>2. ASSUME k + 1 \in s
      PROVE  Max(s) = k + 1
  <2>1. \A y \in s : k + 1 >= y
    OBVIOUS
  <2>2. \A x : (x \in s /\ \A y \in s : x >= y) => x = k + 1
    <3> SUFFICES ASSUME NEW x \in s, \A y \in s : x >= y
                 PROVE  x = k + 1
      OBVIOUS
    <3>1. x >= k + 1 /\ x \in 1 .. k + 1
      BY <1>2
    <3> QED BY <3>1
  <2> QED BY <1>2, <2>1, <2>2 DEF Max
<1>3. ASSUME k + 1 \in s
      PROVE  s \ {k + 1} \in SUBSET (1 .. k)
  OBVIOUS
<1> QED BY <1>1, <1>2, <1>3

\* The loop over the packets: the fold goes from the set of all indices down to the
\* empty one, and meets the ranges that start with 1.
LEMMA PacketsLoop ==
  ASSUME NEW n \in Nat, NEW packets, DOMAIN packets = 1 .. n
  PROVE  \E with : /\ with[0] = [builder |-> NewBuilder, places |-> << >>]
                   /\ \A i \in 0 .. n - 1 : with[i + 1] = AddPacket(with[i], packets[i + 1])
                   /\ WithPackets(packets) = with[n]
<1> DEFINE start == [builder |-> NewBuilder, places |-> << >>]
           Step(h, s) == IF s = {} THEN start
                         ELSE AddPacket(h[s \ {Max(s)}], packets[Max(s)])
           S == {i \in 0 .. n : \E h : \A s \in SUBSET (1 .. i) : h[s] = Step(h, s)}
           iter[s \in SUBSET (1 .. n)] == Step(iter, s)
<1>1. WithPackets(packets) = iter[1 .. n]
  BY DEF WithPackets, FoldLeft, MapThenFoldSet
<1> HIDE DEF start
<1>2. 0 \in S
  <2> DEFINE h == [s \in {{}} |-> start]
  <2>1. \A s \in SUBSET (1 .. 0) : h[s] = Step(h, s)
    OBVIOUS
  <2> HIDE DEF h, Step
  <2>2. 0 \in 0 .. n
    OBVIOUS
  <2> QED BY <2>1, <2>2
<1>3. ASSUME NEW i \in 0 .. n - 1, i \in S
      PROVE  i + 1 \in S
  <2>1. PICK h : \A s \in SUBSET (1 .. i) : h[s] = Step(h, s)
    BY <1>3
  <2> DEFINE g == [s \in SUBSET (1 .. i + 1) |->
                     IF i + 1 \in s THEN AddPacket(h[s \ {Max(s)}], packets[Max(s)]) ELSE h[s]]
  <2>2. \A s \in SUBSET (1 .. i) : s \in SUBSET (1 .. i + 1) /\ i + 1 \notin s
    OBVIOUS
  <2>3. \A s \in SUBSET (1 .. i) : g[s] = h[s]
    BY <2>2
  <2>4. ASSUME NEW s \in SUBSET (1 .. i + 1)
        PROVE  g[s] = Step(g, s)
    <3>1. CASE i + 1 \in s
      <4>1. s \ {Max(s)} \in SUBSET (1 .. i) /\ s # {}
        <5>1. i \in Nat
          OBVIOUS
        <5> HIDE DEF g, S, Step
        <5> QED BY <3>1, <5>1, LargestOf
      <4>2. g[s] = AddPacket(h[s \ {Max(s)}], packets[Max(s)])
        BY <3>1
      <4> HIDE DEF g
      <4>3. g[s \ {Max(s)}] = h[s \ {Max(s)}]
        BY <2>3, <4>1
      <4> QED BY <4>1, <4>2, <4>3
    <3>2. CASE i + 1 \notin s
      <4>1. s \in SUBSET (1 .. i)
        BY <3>2, LargestOf
      <4> HIDE DEF g
      <4>2. g[s] = h[s] /\ h[s] = Step(h, s)
        BY <2>1, <2>3, <4>1
      <4>3. g[s \ {Max(s)}] = h[s \ {Max(s)}]
        <5>1. s \ {Max(s)} \in SUBSET (1 .. i)
          BY <4>1
        <5> QED BY <2>3, <5>1
      <4> QED BY <4>2, <4>3
    <3> QED BY <3>1, <3>2
  <2> HIDE DEF g, Step
  <2>5. i + 1 \in 0 .. n
    OBVIOUS
  <2> QED BY <2>4, <2>5
<1>4. PICK h : \A s \in SUBSET (1 .. n) : h[s] = Step(h, s)
  <2> HIDE DEF S
  <2>1. n \in S
    BY <1>2, <1>3, InductionUpTo
  <2> QED BY <2>1 DEF S
<1>5. iter = [s \in SUBSET (1 .. n) |-> Step(iter, s)]
  <2> DEFINE g == [s \in SUBSET (1 .. n) |-> h[s]]
  <2>1. ASSUME NEW s \in SUBSET (1 .. n)
        PROVE  g[s] = Step(g, s)
    <3>1. s \ {Max(s)} \in SUBSET (1 .. n)
      OBVIOUS
    <3>2. g[s] = h[s] /\ g[s \ {Max(s)}] = h[s \ {Max(s)}]
      BY <3>1
    <3> HIDE DEF g
    <3> QED BY <1>4, <3>2
  <2>2. g = [s \in SUBSET (1 .. n) |-> g[s]]
    OBVIOUS
  <2> HIDE DEF g
  <2>3. g = [s \in SUBSET (1 .. n) |-> Step(g, s)]
    BY <2>1, <2>2
  <2> QED BY <2>3 DEF iter
<1> HIDE DEF iter
<1> DEFINE with == [i \in 0 .. n |-> iter[1 .. i]]
<1>6. with[0] = start
  <2>1. 1 .. 0 = {} /\ {} \in SUBSET (1 .. n)
    OBVIOUS
  <2>2. iter[{}] = start
    BY <1>5, <2>1
  <2> QED BY <2>1, <2>2
<1>7. ASSUME NEW i \in 0 .. n - 1
      PROVE  with[i + 1] = AddPacket(with[i], packets[i + 1])
  <2>1. /\ 1 .. i + 1 \in SUBSET (1 .. n)
        /\ 1 .. i + 1 # {}
        /\ (1 .. i + 1) \ {i + 1} = 1 .. i
        /\ i + 1 \in 1 .. i + 1
    OBVIOUS
  <2>2. Max(1 .. i + 1) = i + 1
    BY <2>1, LargestOf
  <2>3. iter[1 .. i + 1] = AddPacket(iter[1 .. i], packets[i + 1])
    BY <1>5, <2>1, <2>2
  <2>4. with[i + 1] = iter[1 .. i + 1] /\ with[i] = iter[1 .. i]
    OBVIOUS
  <2> HIDE DEF with
  <2> QED BY <2>3, <2>4
<1>8. with[n] = iter[1 .. n]
  OBVIOUS
<1> HIDE DEF with
<1> QED BY <1>1, <1>6, <1>7, <1>8 DEF start

\* After the loop, all packets are written.
LEMMA WithPacketsIs ==
  ASSUME NEW X, NEW n \in Nat, NEW packets, DOMAIN packets = 1 .. n,
         \A j \in 1 .. n : IsPacket(packets[j], X)
  PROVE  HasPackets(WithPackets(packets), packets, n)
<1>1. PICK with : /\ with[0] = [builder |-> NewBuilder, places |-> << >>]
                  /\ \A i \in 0 .. n - 1 : with[i + 1] = AddPacket(with[i], packets[i + 1])
                  /\ WithPackets(packets) = with[n]
  BY PacketsLoop
<1> DEFINE S == {i \in 0 .. n : HasPackets(with[i], packets, i)}
<1>2. 0 \in S
  <2>1. HasPackets([builder |-> NewBuilder, places |-> << >>], packets, 0)
    BY NewBuilderIs, FlatBufferAssumption DEF HasPackets
  <2> QED BY <1>1, <2>1
<1>3. ASSUME NEW i \in 0 .. n - 1, i \in S
      PROVE  i + 1 \in S
  <2>1. HasPackets(with[i], packets, i)
    BY <1>3
  <2>2. HasPackets(AddPacket(with[i], packets[i + 1]), packets, i + 1)
    BY <2>1, AddPacketIs
  <2>3. HasPackets(with[i + 1], packets, i + 1)
    BY <1>1, <2>2
  <2> QED BY <2>3
<1> HIDE DEF S
<1>4. n \in S
  BY <1>2, <1>3, InductionUpTo
<1> QED BY <1>1, <1>4 DEF S

-----------------------------------------------------------------------------
(* Updates.                                                                *)

\* The loop over the places.
LEMMA VectorLoop ==
  \A b, places :
    LET n == Len(places)
    IN  n \in Nat =>
          \E pushed : /\ pushed[0] = PreAlign(b, 4 * n, 4)
                      /\ \A i \in 0 .. n - 1 : pushed[i + 1] = PushOffset(pushed[i], places[n - i])
                      /\ CreateVector(b, places) = PushElement(pushed[n], 4, n)
<1> SUFFICES ASSUME NEW b, NEW places, NEW n \in Nat, n = Len(places)
             PROVE  \E pushed : /\ pushed[0] = PreAlign(b, 4 * n, 4)
                                /\ \A i \in 0 .. n - 1 :
                                     pushed[i + 1] = PushOffset(pushed[i], places[n - i])
                                /\ CreateVector(b, places) = PushElement(pushed[n], 4, n)
  OBVIOUS
<1> DEFINE start == PreAlign(b, 4 * n, 4)
           S == {i \in 0 .. n : \E h : \A j \in 0 .. i :
                   h[j] = IF j = 0 THEN start ELSE PushOffset(h[j - 1], places[n + 1 - j])}
<1> HIDE DEF start
<1>1. 0 \in S
  <2> DEFINE h == [j \in 0 .. 0 |-> start]
  <2>1. \A j \in 0 .. 0 : h[j] = IF j = 0 THEN start ELSE PushOffset(h[j - 1], places[n + 1 - j])
    OBVIOUS
  <2> HIDE DEF h
  <2> QED BY <2>1
<1>2. ASSUME NEW i \in 0 .. n - 1, i \in S
      PROVE  i + 1 \in S
  <2>1. PICK h : \A j \in 0 .. i :
                   h[j] = IF j = 0 THEN start ELSE PushOffset(h[j - 1], places[n + 1 - j])
    BY <1>2
  <2> DEFINE g == [j \in 0 .. i + 1 |->
                     IF j = i + 1 THEN PushOffset(h[i], places[n + 1 - (i + 1)]) ELSE h[j]]
  <2>2. ASSUME NEW j \in 0 .. i + 1
        PROVE  g[j] = IF j = 0 THEN start ELSE PushOffset(g[j - 1], places[n + 1 - j])
    <3>1. CASE j = i + 1
      <4>1. j # 0 /\ j - 1 = i /\ i # i + 1 /\ i \in 0 .. i + 1
        BY <3>1
      <4>2. g[j] = PushOffset(h[i], places[n + 1 - j]) /\ g[i] = h[i]
        BY <3>1, <4>1
      <4> HIDE DEF g
      <4> QED BY <4>1, <4>2
    <3>2. CASE j \in 0 .. i
      <4>1. g[j] = h[j] /\ (j # 0 => g[j - 1] = h[j - 1])
        BY <3>2
      <4> HIDE DEF g
      <4> QED BY <2>1, <3>2, <4>1
    <3> QED BY <3>1, <3>2
  <2> HIDE DEF g
  <2> QED BY <2>2
<1>3. \E h : \A j \in 0 .. n :
        h[j] = IF j = 0 THEN start ELSE PushOffset(h[j - 1], places[n + 1 - j])
  <2> HIDE DEF S
  <2>1. n \in S
    BY <1>1, <1>2, InductionUpTo
  <2> QED BY <2>1 DEF S
<1> DEFINE pushed[i \in 0 .. n] == IF i = 0 THEN start
                                   ELSE PushOffset(pushed[i - 1], places[n + 1 - i])
<1>4. pushed = [i \in 0 .. n |-> IF i = 0 THEN start
                                 ELSE PushOffset(pushed[i - 1], places[n + 1 - i])]
  <2>1. PICK h : \A j \in 0 .. n :
                   h[j] = IF j = 0 THEN start ELSE PushOffset(h[j - 1], places[n + 1 - j])
    BY <1>3
  <2> DEFINE g == [i \in 0 .. n |-> h[i]]
  <2>2. ASSUME NEW i \in 0 .. n
        PROVE  g[i] = IF i = 0 THEN start ELSE PushOffset(g[i - 1], places[n + 1 - i])
    <3>1. g[i] = h[i] /\ (i # 0 => g[i - 1] = h[i - 1])
      OBVIOUS
    <3> HIDE DEF g
    <3> QED BY <2>1, <3>1
  <2>3. g = [i \in 0 .. n |-> g[i]]
    OBVIOUS
  <2> HIDE DEF g
  <2>4. g = [i \in 0 .. n |-> IF i = 0 THEN start
                              ELSE PushOffset(g[i - 1], places[n + 1 - i])]
    BY <2>2, <2>3
  <2> QED BY <2>4 DEF pushed
<1>5. CreateVector(b, places) = PushElement(pushed[n], 4, n)
  BY DEF CreateVector, start
<1> HIDE DEF pushed
<1>6. pushed[0] = start
  BY <1>4
<1>7. ASSUME NEW i \in 0 .. n - 1
      PROVE  pushed[i + 1] = PushOffset(pushed[i], places[n - i])
  <2>1. i + 1 \in 0 .. n /\ i + 1 # 0 /\ (i + 1) - 1 = i /\ n + 1 - (i + 1) = n - i
    OBVIOUS
  <2> QED BY <1>4, <2>1
<1> QED BY <1>5, <1>6, <1>7 DEF start

\* The last i offsets are pushed on a.
HasOffsets(p, a, places, i) ==
  LET n == Len(places)
  IN  /\ WellBuilt(p) /\ Keeps(a, p) /\ p.fields = a.fields
      /\ p.size = a.size + 4 * i /\ p.size \in Nat /\ p.size % 4 = 0
      /\ \A j \in 1 .. i : LET x == a.size + 4 * j
                           IN  x \in DOMAIN p.cells /\ p.cells[x] = x - places[n + 1 - j]

\* One turn of the loop over the places.
LEMMA NextOffset ==
  ASSUME NEW a, WellBuilt(a), NEW n \in Nat, NEW places \in Seq(Nat), Len(places) = n,
         NEW i \in 0 .. n - 1, NEW p, HasOffsets(p, a, places, i)
  PROVE  HasOffsets(PushOffset(p, places[n - i]), a, places, i + 1)
<1> DEFINE q == PushOffset(p, places[n - i])
           s == a.size
           d == p.size
           e == q.size
           place == places[n - i]
<1>1. /\ WellBuilt(p) /\ Keeps(a, p) /\ p.fields = a.fields
      /\ d = s + 4 * i /\ d \in Nat /\ d % 4 = 0
      /\ \A j \in 1 .. i : /\ s + 4 * j \in DOMAIN p.cells
                           /\ p.cells[s + 4 * j] = (s + 4 * j) - places[n + 1 - j]
  BY DEF HasOffsets
<1>2. s \in Nat
  BY DEF WellBuilt
<1>3. place \in Nat
  BY DEF place
<1> HIDE DEF s, d, place
<1>4. Up(d) = d /\ d + 4 \in Nat /\ (d + 4) % 4 = 0
  <2>1. d % 2 = 0 /\ (d + 4) % 4 = 0
    BY <1>1, Divisible
  <2> QED BY <1>1, <2>1, UpIs
<1>5. /\ WellBuilt(q) /\ Keeps(p, q) /\ e = d + 4 /\ q.fields = p.fields
      /\ e \in DOMAIN q.cells /\ q.cells[e] = e - place
  <2>1. /\ WellBuilt(q) /\ Keeps(p, q) /\ e = Up(d) + 4 /\ q.fields = p.fields
        /\ DOMAIN q.cells = DOMAIN p.cells \cup {e} /\ q.cells[e] = e - place
    <3>1. WellBuilt(p) /\ place \in Int
      BY <1>1, <1>3
    <3>2. q = PushOffset(p, place)
      BY DEF place
    <3> HIDE DEF q
    <3> QED BY <3>1, <3>2, PushOffsetIs DEF d
  <2> HIDE DEF q, e
  <2> QED BY <1>4, <2>1
<1> HIDE DEF q
<1>6. Keeps(a, q)
  <2>1. a.size \in Nat /\ p.size \in Nat /\ q.size \in Nat
    BY <1>1, <1>5 DEF WellBuilt
  <2> QED BY <1>1, <1>5, <2>1, KeepsTransitive
<1> HIDE DEF e
<1>7. e = s + 4 * (i + 1) /\ e \in Nat /\ e % 4 = 0
  BY <1>1, <1>2, <1>4, <1>5
<1>8. ASSUME NEW j \in 1 .. i + 1
      PROVE  /\ s + 4 * j \in DOMAIN q.cells
             /\ q.cells[s + 4 * j] = (s + 4 * j) - places[n + 1 - j]
  <2>1. CASE j = i + 1
    <3>1. s + 4 * j = e /\ n + 1 - j = n - i
      BY <1>7, <2>1
    <3> QED BY <1>5, <3>1 DEF place
  <2>2. CASE j \in 1 .. i
    <3> DEFINE x == s + 4 * j
    <3>1. x \in DOMAIN p.cells /\ p.cells[x] = x - places[n + 1 - j]
      BY <1>1, <2>2
    <3> HIDE DEF x
    <3>2. x \in DOMAIN q.cells /\ q.cells[x] = x - places[n + 1 - j]
      BY <1>5, <3>1 DEF Keeps
    <3> QED BY <3>2 DEF x
  <2> QED BY <2>1, <2>2
<1>9. HasOffsets(q, a, places, i + 1)
  <2>1. q.fields = a.fields
    BY <1>1, <1>5
  <2> QED BY <1>5, <1>6, <1>7, <1>8, <2>1 DEF HasOffsets, s, e
<1> QED BY <1>9 DEF q

\* A vector of offsets to places below it.
HasVector(c, v, places) ==
  /\ v \in DOMAIN c.cells /\ c.cells[v] = Len(places)
  /\ \A k \in 1 .. Len(places) : /\ v - 4 * k \in DOMAIN c.cells
                                 /\ c.cells[v - 4 * k] = (v - 4 * k) - places[k]
                                 /\ places[k] < v - 4 * k

\* What is built later leaves a vector as it is.
LEMMA KeepsVector ==
  \A b, c, v, places : Keeps(b, c) /\ HasVector(b, v, places) => HasVector(c, v, places)
BY DEF Keeps, HasVector

\* CreateVector leaves a vector of the offsets to the places.
LEMMA VectorIs ==
  ASSUME NEW b, WellBuilt(b), NEW n \in Nat, NEW places \in Seq(Nat), Len(places) = n,
         \A k \in 1 .. n : places[k] <= b.size
  PROVE  LET c == CreateVector(b, places)
             v == c.size
         IN  /\ WellBuilt(c) /\ Keeps(b, c) /\ c.fields = b.fields /\ c.minalign = 4
             /\ v \in Nat /\ v % 4 = 0 /\ b.size < v
             /\ 4 * n + 4 <= v /\ v <= b.size + 4 * n + 6
             /\ HasVector(c, v, places)
<1> DEFINE c == CreateVector(b, places)
           v == c.size
           d == b.size
           a == PreAlign(b, 4 * n, 4)
           s == a.size
<1>1. d \in Nat /\ d % 2 = 0
  BY DEF WellBuilt
<1>2. PICK pushed : /\ pushed[0] = a
                    /\ \A i \in 0 .. n - 1 : pushed[i + 1] = PushOffset(pushed[i], places[n - i])
                    /\ c = PushElement(pushed[n], 4, n)
  <2>1. \E pushed : /\ pushed[0] = PreAlign(b, 4 * n, 4)
                    /\ \A i \in 0 .. n - 1 : pushed[i + 1] = PushOffset(pushed[i], places[n - i])
                    /\ CreateVector(b, places) = PushElement(pushed[n], 4, n)
    <3> HIDE DEF c, v, d, a, s
    <3> QED BY VectorLoop
  <2> QED BY <2>1
<1> DEFINE p == pushed[n]
           z == p.size
<1>3. a = IF n = 0 THEN b ELSE Align(b, 4)
  <2>1. 4 * n \in Nat /\ (4 * n) % 4 = 0 /\ (4 * n = 0 <=> n = 0)
    OBVIOUS
  <2> QED BY <2>1, PreAlignIs
<1> HIDE DEF c, a, d
<1>4. Up(d) \in {d, d + 2} /\ Up(d) % 4 = 0 /\ Up(d) \in Nat
  BY <1>1, UpIs
<1>5. CASE n = 0
  <2>1. c = PushElement(b, 4, n)
    BY <1>2, <1>3, <1>5
  <2>2. /\ WellBuilt(c) /\ Keeps(b, c) /\ c.fields = b.fields /\ c.minalign = 4
        /\ v = Up(d) + 4 /\ v \in Nat /\ v % 4 = 0
        /\ v \in DOMAIN c.cells /\ c.cells[v] = n
    BY <2>1, PushElementIs DEF d
  <2> HIDE DEF v
  <2>3. d < v /\ 4 * n + 4 <= v /\ v <= d + 4 * n + 6
    BY <1>1, <1>4, <1>5, <2>2
  <2>4. HasVector(c, v, places)
    BY <1>5, <2>2 DEF HasVector
  <2> QED BY <2>2, <2>3, <2>4 DEF c, v, d
<1>6. CASE n # 0
  <2>1. /\ WellBuilt(a) /\ Keeps(b, a) /\ s = Up(d) /\ a.fields = b.fields
    BY <1>3, <1>6, AlignIs DEF d
  <2> DEFINE S == {i \in 0 .. n : HasOffsets(pushed[i], a, places, i)}
  <2>2. 0 \in S
    <3>1. a.size + 4 * 0 = a.size /\ a.size \in Nat /\ a.size % 4 = 0
      BY <1>4, <2>1
    <3>2. Keeps(a, a)
      BY <3>1 DEF Keeps
    <3>3. HasOffsets(a, a, places, 0)
      BY <2>1, <3>1, <3>2 DEF HasOffsets
    <3> QED BY <1>2, <3>3
  <2>3. ASSUME NEW i \in 0 .. n - 1, i \in S
        PROVE  i + 1 \in S
    <3>1. HasOffsets(pushed[i], a, places, i)
      BY <2>3
    <3>2. HasOffsets(PushOffset(pushed[i], places[n - i]), a, places, i + 1)
      BY <2>1, <3>1, NextOffset
    <3>3. HasOffsets(pushed[i + 1], a, places, i + 1)
      BY <1>2, <3>2
    <3> QED BY <3>3
  <2> HIDE DEF S
  <2>4. n \in S
    BY <2>2, <2>3, InductionUpTo
  <2>5. HasOffsets(p, a, places, n)
    BY <2>4 DEF S
  <2> HIDE DEF p
  <2>6. /\ WellBuilt(p) /\ Keeps(a, p) /\ p.fields = a.fields
        /\ z = s + 4 * n /\ z \in Nat /\ z % 4 = 0
        /\ \A j \in 1 .. n : /\ s + 4 * j \in DOMAIN p.cells
                             /\ p.cells[s + 4 * j] = (s + 4 * j) - places[n + 1 - j]
    BY <2>5 DEF HasOffsets
  <2> HIDE DEF z, s
  <2>7. Up(z) = z
    <3>1. z % 2 = 0
      BY <2>6, Divisible
    <3> QED BY <2>6, <3>1, UpIs
  <2>8. /\ WellBuilt(c) /\ Keeps(p, c) /\ c.fields = b.fields /\ c.minalign = 4
        /\ v = z + 4 /\ v \in Nat /\ v % 4 = 0
        /\ v \in DOMAIN c.cells /\ c.cells[v] = n
    <3>1. /\ WellBuilt(c) /\ Keeps(p, c) /\ c.fields = p.fields /\ c.minalign = 4
          /\ v = Up(z) + 4 /\ v \in Nat /\ v % 4 = 0
          /\ DOMAIN c.cells = DOMAIN p.cells \cup {v} /\ c.cells[v] = n
      <4>1. c = PushElement(p, 4, n)
        BY <1>2 DEF p
      <4> QED BY <2>6, <4>1, PushElementIs DEF z
    <3> HIDE DEF v
    <3> QED BY <2>1, <2>6, <2>7, <3>1
  <2>9. Keeps(b, c)
    <3>1. a.size \in Nat /\ b.size \in Nat /\ c.size \in Nat /\ p.size \in Nat
      BY <2>1, <2>6, <2>8 DEF WellBuilt
    <3>2. Keeps(a, c)
      BY <2>6, <2>8, <3>1, KeepsTransitive
    <3> QED BY <2>1, <3>1, <3>2, KeepsTransitive
  <2> HIDE DEF v
  <2>10. s \in Nat /\ d <= s /\ s <= d + 2
    BY <1>1, <1>4, <2>1
  <2>11. d < v /\ 4 * n + 4 <= v /\ v <= d + 4 * n + 6
    BY <1>1, <2>6, <2>8, <2>10
  <2>12. ASSUME NEW k \in 1 .. n
         PROVE  /\ v - 4 * k \in DOMAIN c.cells
                /\ c.cells[v - 4 * k] = (v - 4 * k) - places[k]
                /\ places[k] < v - 4 * k
    <3> DEFINE j == n + 1 - k
               x == s + 4 * j
    <3>1. j \in 1 .. n /\ n + 1 - j = k
      OBVIOUS
    <3> HIDE DEF j
    <3>2. x \in DOMAIN p.cells /\ p.cells[x] = x - places[k]
      BY <2>6, <3>1
    <3>3. x = v - 4 * k
      <4>1. j = n + 1 - k
        BY DEF j
      <4> QED BY <2>6, <2>8, <2>10, <4>1
    <3>4. d < x
      BY <1>1, <2>10, <3>1
    <3> HIDE DEF x
    <3>5. x \in DOMAIN c.cells /\ c.cells[x] = x - places[k]
      BY <2>8, <3>2 DEF Keeps
    <3>6. places[k] \in Nat /\ places[k] <= d
      BY DEF d
    <3>7. x \in Nat
      BY <1>1, <2>10, <3>1 DEF x
    <3>8. places[k] < x
      BY <1>1, <3>4, <3>6, <3>7
    <3> QED BY <3>3, <3>5, <3>8
  <2>13. HasVector(c, v, places)
    BY <2>8, <2>12 DEF HasVector
  <2> QED BY <2>8, <2>9, <2>11, <2>13 DEF c, v, d
<1> QED BY <1>5, <1>6

\* Where the fields of an update's table are.
UpdateFields(playerNum, place) ==
  [field \in IF playerNum = 0 THEN {6} ELSE {4, 6} |->
     IF field = 4 \/ playerNum = 0 THEN place - 4 ELSE place - 8]

\* The table of an update, its fields, the vector and the packets.
HasUpdate(b, place, update) ==
  LET f == UpdateFields(update.playerNum, place)[6]
  IN  /\ HasTable(b, place, UpdateFields(update.playerNum, place))
      /\ update.playerNum # 0 =>
           place - 4 \in DOMAIN b.cells /\ b.cells[place - 4] = update.playerNum
      /\ f \in DOMAIN b.cells /\ b.cells[f] = 4
      /\ \E places \in Seq(Nat) :
           /\ Len(places) = Len(update.packets)
           /\ 4 * Len(places) + 8 <= f
           /\ HasVector(b, f - 4, places)
           /\ \A j \in 1 .. Len(places) : HasPacket(b, places[j], update.packets[j])

\* What is built later leaves an update as it is.
LEMMA KeepsUpdate ==
  \A b, c, place, update : Keeps(b, c) /\ HasUpdate(b, place, update) => HasUpdate(c, place, update)
<1> SUFFICES ASSUME NEW b, NEW c, NEW place, NEW update, Keeps(b, c), HasUpdate(b, place, update)
             PROVE  HasUpdate(c, place, update)
  OBVIOUS
<1> DEFINE fields == UpdateFields(update.playerNum, place)
           f == fields[6]
<1>1. HasTable(c, place, fields)
  BY KeepsTable DEF HasUpdate
<1>2. /\ update.playerNum # 0 =>
           place - 4 \in DOMAIN c.cells /\ c.cells[place - 4] = update.playerNum
      /\ f \in DOMAIN c.cells /\ c.cells[f] = 4
  BY DEF HasUpdate, Keeps
<1>3. PICK places \in Seq(Nat) :
           /\ Len(places) = Len(update.packets)
           /\ 4 * Len(places) + 8 <= f
           /\ HasVector(b, f - 4, places)
           /\ \A j \in 1 .. Len(places) : HasPacket(b, places[j], update.packets[j])
  BY DEF HasUpdate
<1> HIDE DEF fields, f
<1>4. HasVector(c, f - 4, places)
  BY <1>3, KeepsVector
<1>5. \A j \in 1 .. Len(places) : HasPacket(c, places[j], update.packets[j])
  BY <1>3, KeepsPacket
<1> QED BY <1>1, <1>2, <1>3, <1>4, <1>5 DEF HasUpdate, f, fields

\* Finish writes the offset of the root last, at the first address.
LEMMA FinishIs ==
  ASSUME NEW b, WellBuilt(b), b.minalign = 4, NEW root \in Int
  PROVE  LET c == Finish(b, root)
         IN  /\ WellBuilt(c) /\ Keeps(b, c)
             /\ c.size = Up(b.size) + 4 /\ c.size \in Nat /\ c.size % 4 = 0
             /\ c.size \in DOMAIN c.cells /\ c.cells[c.size] = c.size - root
<1> DEFINE a == Align(b, 4)
           c == Finish(b, root)
           d == b.size
<1>1. PreAlign(b, 4, 4) = a
  <2>1. 4 % 4 = 0 /\ 4 \in Nat /\ 4 # 0
    OBVIOUS
  <2> QED BY <2>1, PreAlignIs
<1>2. c = PushOffset(a, root)
  BY <1>1 DEF Finish
<1> HIDE DEF a, c
<1>3. WellBuilt(a) /\ Keeps(b, a) /\ a.size = Up(d)
  BY AlignIs DEF a
<1>4. /\ WellBuilt(c) /\ Keeps(a, c) /\ c.size = Up(a.size) + 4
      /\ c.size \in Nat /\ c.size % 4 = 0
      /\ DOMAIN c.cells = DOMAIN a.cells \cup {c.size} /\ c.cells[c.size] = c.size - root
  BY <1>2, <1>3, PushOffsetIs
<1>5. d \in Nat /\ d % 2 = 0
  BY DEF WellBuilt
<1> HIDE DEF d
<1>6. Up(Up(d)) = Up(d) /\ Up(d) \in Nat
  <2> DEFINE m == Up(d)
  <2>1. m \in Nat /\ m % 4 = 0 /\ m % 2 = 0
    BY <1>5, UpIs
  <2> HIDE DEF m
  <2>2. Up(m) = m
    BY <2>1, UpIs
  <2> QED BY <2>1, <2>2 DEF m
<1>7. Keeps(b, c)
  <2>1. b.size \in Nat /\ a.size \in Nat /\ c.size \in Nat
    BY <1>3, <1>4, <1>5, <1>6 DEF d
  <2> QED BY <1>3, <1>4, <2>1, KeepsTransitive
<1>8. c.size = Up(d) + 4
  BY <1>3, <1>4, <1>6
<1> QED BY <1>4, <1>7, <1>8 DEF c, d

\* With its fields written, the table of an update is ready for its end.
UpdateReady(u, v, playerNum) ==
  LET s == v.size
  IN  /\ WellBuilt(u) /\ Keeps(v, u) /\ u.size \in {s + 4, s + 8} /\ u.size % 4 = 0
      /\ DOMAIN u.fields \in FieldSets
      /\ u.fields = UpdateFields(playerNum, u.size + 4)
      /\ UpdateFields(playerNum, u.size + 4)[6] = s + 4
      /\ s + 4 \in DOMAIN u.cells /\ u.cells[s + 4] = 4
      /\ playerNum # 0 => u.size \in DOMAIN u.cells /\ u.cells[u.size] = playerNum

\* AddOffset of the vector and AddElement of the player's number make an update's table
\* ready for its end; the number is left out if it is 0.
LEMMA NumberReady ==
  ASSUME NEW v, WellBuilt(v), v.size % 4 = 0, v.size # 0, v.fields = << >>, NEW playerNum
  PROVE  UpdateReady(AddElement(AddOffset(v, VT_PLAYER_SYNCHRONIZERS, v.size),
                                VT_PLAYER_NUM, playerNum, 0), v, playerNum)
<1> DEFINE s == v.size
           t == AddOffset(v, VT_PLAYER_SYNCHRONIZERS, s)
           u == AddElement(t, VT_PLAYER_NUM, playerNum, 0)
           z == u.size
           place == z + 4
<1>1. s \in Nat /\ s % 4 = 0
  BY DEF WellBuilt
<1>2. /\ WellBuilt(t) /\ Keeps(v, t) /\ t.size = s + 4 /\ t.size % 4 = 0
      /\ t.fields = Set(<< >>, 6, s + 4)
      /\ s + 4 \in DOMAIN t.cells /\ t.cells[s + 4] = 4
  BY VectorFieldIs DEF VT_PLAYER_SYNCHRONIZERS
<1>3. u = IF playerNum = 0 THEN t ELSE TrackField(PushElement(t, 4, playerNum), 4)
  BY DEF AddElement, VT_PLAYER_NUM
<1> HIDE DEF u, t
<1>4. CASE playerNum = 0
  <2>1. u = t
    BY <1>3, <1>4
  <2>2. u.fields = [f \in {6} |-> s + 4]
    BY <1>2, <2>1, FieldsAre
  <2>3. place - 4 = s + 4
    <3>1. z = s + 4
      BY <1>2, <2>1
    <3> HIDE DEF z
    <3> QED BY <1>1, <3>1
  <2> HIDE DEF place
  <2>4. UpdateFields(playerNum, place) = [f \in {6} |-> place - 4]
    <3>1. UpdateFields(playerNum, place)
            = [f \in {6} |-> IF f = 4 \/ playerNum = 0 THEN place - 4 ELSE place - 8]
      BY <1>4 DEF UpdateFields
    <3> QED BY <1>4, <3>1
  <2>5. u.fields = UpdateFields(playerNum, place) /\ UpdateFields(playerNum, place)[6] = s + 4
        /\ DOMAIN u.fields \in FieldSets
    BY <2>2, <2>3, <2>4 DEF FieldSets
  <2> QED BY <1>2, <1>4, <2>1, <2>5 DEF UpdateReady, place, u, t, s
<1>5. CASE playerNum # 0
  <2>1. /\ WellBuilt(u) /\ Keeps(t, u) /\ z % 4 = 0 /\ z = Up(t.size) + 4
        /\ u.fields = Set(t.fields, 4, z)
        /\ z \in DOMAIN u.cells /\ u.cells[z] = playerNum
    BY <1>2, <1>3, <1>5, AddedIs
  <2> HIDE DEF s, z
  <2>2. z = s + 8
    <3>1. s + 4 \in Nat /\ (s + 4) % 4 = 0 /\ (s + 4) % 2 = 0
      BY <1>1, <1>2, Divisible
    <3>2. Up(s + 4) = s + 4
      BY <3>1, UpIs
    <3> QED BY <1>1, <1>2, <2>1, <3>2
  <2>3. u.fields = [f \in {4, 6} |-> IF f = 4 THEN s + 8 ELSE s + 4]
    <3>1. u.fields = Set(Set(<< >>, 6, s + 4), 4, s + 8)
      BY <1>2, <2>1, <2>2
    <3> QED BY <3>1, FieldsAre
  <2>4. place - 4 = s + 8 /\ place - 8 = s + 4
    BY <1>1, <2>2
  <2> HIDE DEF place
  <2>5. UpdateFields(playerNum, place) = [f \in {4, 6} |-> IF f = 4 THEN place - 4 ELSE place - 8]
    <3>1. UpdateFields(playerNum, place)
            = [f \in {4, 6} |-> IF f = 4 \/ playerNum = 0 THEN place - 4 ELSE place - 8]
      BY <1>5 DEF UpdateFields
    <3> QED BY <1>5, <3>1
  <2>6. u.fields = UpdateFields(playerNum, place) /\ UpdateFields(playerNum, place)[6] = s + 4
        /\ DOMAIN u.fields \in FieldSets
    BY <2>3, <2>4, <2>5 DEF FieldSets
  <2>7. s + 4 \in DOMAIN u.cells /\ u.cells[s + 4] = 4
    BY <1>2, <2>1 DEF Keeps
  <2>8. Keeps(v, u)
    <3>1. v.size \in Nat /\ t.size \in Nat /\ u.size \in Nat
      BY <1>2, <2>1 DEF WellBuilt
    <3> QED BY <1>2, <2>1, <3>1, KeepsTransitive
  <2>9. z \in {s + 4, s + 8}
    BY <2>2
  <2> QED BY <2>1, <2>6, <2>7, <2>8, <2>9 DEF UpdateReady, place, z, u, t, s
<1> QED BY <1>4, <1>5

\* CreateClientToServerUpdate leaves the update at the place that it returns, within the
\* bytes that the longest windows need.
LEMMA UpdateIs ==
  ASSUME NEW X, NEW n \in Nat, NEW update,
         DOMAIN update.packets = 1 .. n, Len(update.packets) = n,
         \A j \in 1 .. n : IsPacket(update.packets[j], X)
  PROVE  LET made == CreateClientToServerUpdate(update)
             c == made.builder
         IN  /\ WellBuilt(c) /\ c.minalign = 4
             /\ made.at \in Nat /\ made.at % 4 = 0
             /\ made.at <= c.size /\ c.size <= made.at + 8
             /\ c.size <= n * (12 * MaxTicksToTransmit + 26) + 4 * n + 26
             /\ HasUpdate(c, made.at, update)
<1> DEFINE packets == update.packets
           playerNum == update.playerNum
           with == WithPackets(packets)
           b == with.builder
           places == with.places
           v == CreateVector(b, places)
           s == v.size
           t == AddOffset(v, VT_PLAYER_SYNCHRONIZERS, s)
           u == AddElement(t, VT_PLAYER_NUM, playerNum, 0)
           made == CreateClientToServerUpdate(update)
           c == made.builder
           d == b.size
           m == n * (12 * MaxTicksToTransmit + 26)
           z == u.size
           place == z + 4
<1>1. HasPackets(with, packets, n)
  BY WithPacketsIs
<1>2. made = EndTable(u, s)
  BY DEF CreateClientToServerUpdate
<1> HIDE DEF with, made
<1>3. /\ WellBuilt(b) /\ b.fields = << >> /\ d <= m
      /\ places \in Seq(Nat) /\ Len(places) = n
      /\ \A j \in 1 .. n : places[j] <= b.size /\ HasPacket(b, places[j], packets[j])
  BY <1>1 DEF HasPackets
<1> HIDE DEF b, places
<1>4. /\ WellBuilt(v) /\ Keeps(b, v) /\ v.fields = << >>
      /\ s \in Nat /\ s % 4 = 0 /\ b.size < s
      /\ 4 * n + 4 <= s /\ s <= b.size + 4 * n + 6
      /\ HasVector(v, s, places)
  BY <1>3, VectorIs
<1> HIDE DEF v
<1>5. s # 0
  <2> HIDE DEF s
  <2> QED BY <1>4
<1>6. UpdateReady(u, v, playerNum)
  BY <1>4, <1>5, NumberReady
<1> HIDE DEF u
<1>7. /\ WellBuilt(u) /\ Keeps(v, u) /\ z \in {s + 4, s + 8} /\ z % 4 = 0
      /\ DOMAIN u.fields \in FieldSets
      /\ u.fields = UpdateFields(playerNum, place)
      /\ UpdateFields(playerNum, place)[6] = s + 4
      /\ s + 4 \in DOMAIN u.cells /\ u.cells[s + 4] = 4
      /\ playerNum # 0 => z \in DOMAIN u.cells /\ u.cells[z] = playerNum
  BY <1>6 DEF UpdateReady
<1>8. /\ made.at = place /\ WellBuilt(c) /\ Keeps(u, c)
      /\ c.size \in {place, z + 10, z + 12} /\ c.minalign = 4
      /\ HasTable(c, place, u.fields)
  BY <1>2, <1>7, EndTableIs
<1> HIDE DEF c, z, s, m
<1>9. d \in Nat /\ m \in Nat
  <2>1. m \in Nat
    <3>1. 12 * MaxTicksToTransmit + 26 \in Nat
      BY FlatBufferAssumption
    <3> QED BY <3>1 DEF m
  <2> QED BY <1>3, <2>1 DEF WellBuilt
<1>10. /\ place \in Nat /\ place % 4 = 0
       /\ place <= c.size /\ c.size <= place + 8 /\ c.size <= m + 4 * n + 26
  <2>1. z \in Nat
    BY <1>4, <1>7
  <2>2. place % 4 = 0
    BY <1>7, <2>1, Divisible
  <2> HIDE DEF d
  <2>3. s <= d + 4 * n + 6
    BY <1>4 DEF d
  <2> QED BY <1>3, <1>4, <1>7, <1>8, <1>9, <2>1, <2>2, <2>3
<1>11. Keeps(b, c) /\ Keeps(v, c)
  <2>1. b.size \in Nat /\ v.size \in Nat /\ u.size \in Nat /\ c.size \in Nat
    BY <1>3, <1>4, <1>7, <1>8 DEF WellBuilt
  <2>2. Keeps(v, c)
    BY <1>7, <1>8, <2>1, KeepsTransitive
  <2> QED BY <1>4, <2>1, <2>2, KeepsTransitive
<1>12. HasUpdate(c, place, update)
  <2> DEFINE fields == UpdateFields(playerNum, place)
             f == fields[6]
  <2>1. HasTable(c, place, fields)
    BY <1>7, <1>8
  <2>2. place - 4 = z
    BY <1>4, <1>7
  <2> HIDE DEF place
  <2>3. playerNum # 0 => place - 4 \in DOMAIN c.cells /\ c.cells[place - 4] = playerNum
    BY <1>7, <1>8, <2>2 DEF Keeps
  <2>4. f = s + 4 /\ s + 4 \in DOMAIN c.cells /\ c.cells[s + 4] = 4
    BY <1>7, <1>8 DEF Keeps
  <2>5. f - 4 = s /\ 4 * n + 8 <= f
    <3> HIDE DEF f
    <3> QED BY <1>4, <2>4
  <2>6. HasVector(c, s, places)
    BY <1>4, <1>11, KeepsVector
  <2>7. \A j \in 1 .. n : HasPacket(c, places[j], packets[j])
    BY <1>3, <1>11, KeepsPacket
  <2>8. f \in DOMAIN c.cells /\ c.cells[f] = 4
    BY <2>4
  <2> HIDE DEF f, packets
  <2>9. \E x \in Seq(Nat) : /\ Len(x) = Len(packets) /\ 4 * Len(x) + 8 <= f
                            /\ HasVector(c, f - 4, x)
                            /\ \A j \in 1 .. Len(x) : HasPacket(c, x[j], packets[j])
    <3>1. Len(packets) = n
      BY DEF packets
    <3> QED BY <1>3, <2>5, <2>6, <2>7, <3>1
  <2> QED BY <2>1, <2>3, <2>8, <2>9, Zenon DEF HasUpdate, f, packets
<1> HIDE DEF place
<1> QED BY <1>8, <1>10, <1>12 DEF c, m, made

-----------------------------------------------------------------------------
(* Reading: an address is the size less the place.                         *)

\* A buffer whose size is a multiple of four and at least the smallest one.
Finished(e) == WellBuilt(e) /\ e.size % 4 = 0 /\ e.size >= MinBufferSize

\* What is read at an address is what was written at its place.
LEMMA ReadIs ==
  ASSUME NEW e, e.size \in Nat, NEW p \in Int
  PROVE  Read(e, e.size - p) = e.cells[p]
<1> DEFINE n == e.size
<1>1. n - (n - p) = p
  OBVIOUS
<1> HIDE DEF n
<1>2. Read(e, n - p) = e.cells[n - (n - p)]
  BY DEF Read, n
<1> QED BY <1>1, <1>2 DEF n

\* A place that is a multiple of four, as an address.
LEMMA AddressIs ==
  ASSUME NEW e, Finished(e), NEW p \in Int, p % 4 = 0, NEW length \in Nat,
         length <= p, length < e.size
  PROVE  /\ e.size - p \in Int /\ (e.size - p) % 4 = 0
         /\ VerifyRange(e, e.size - p, length)
         /\ length = 4 => VerifyAligned(e, e.size - p, length)
<1> DEFINE n == e.size
           a == n - p
<1>1. n \in Nat /\ n % 4 = 0
  BY DEF Finished, WellBuilt
<1> HIDE DEF n
<1>2. a \in Int /\ a % 4 = 0
  BY <1>1
<1>3. a <= n - length /\ length < n
  BY <1>1 DEF n
<1> HIDE DEF a
<1>4. VerifyRange(e, a, length)
  BY <1>3 DEF VerifyRange, n
<1>5. length = 4 => VerifyAligned(e, a, length)
  BY <1>2, <1>4 DEF VerifyAligned
<1> QED BY <1>2, <1>4, <1>5 DEF a, n

\* The verifier accepts a table, and its vtable says where the fields are.
LEMMA TableIs ==
  ASSUME NEW e, Finished(e), NEW place, NEW fields, HasTable(e, place, fields)
  PROVE  LET table == e.size - place
         IN  /\ place \in Nat /\ place % 4 = 0 /\ place >= 4 /\ place <= e.size
             /\ VerifyTableStart(e, table)
             /\ FieldOffset(e, table, 4) = IF 4 \in DOMAIN fields THEN place - fields[4] ELSE 0
             /\ FieldOffset(e, table, 6) = IF 6 \in DOMAIN fields THEN place - fields[6] ELSE 0
<1> DEFINE n == e.size
           table == n - place
<1>1. /\ n \in Nat /\ n % 4 = 0 /\ n >= 12
      /\ \A p \in DOMAIN e.cells : p \in 1 .. n
  BY DEF Finished, WellBuilt, MinBufferSize
<1>2. place \in DOMAIN e.cells /\ place \in Nat /\ place % 4 = 0
  BY DEF HasTable
<1>3. PICK vt \in DOMAIN e.cells :
        /\ vt \in Nat /\ vt % 2 = 0 /\ e.cells[place] = vt - place
        /\ e.cells[vt][1] <= vt
        /\ Describes(e.cells[vt], place, fields)
  BY DEF HasTable
<1> DEFINE vtable == e.cells[vt]
           start == n - vt
<1>4. /\ vtable[1] \in {6, 8}
      /\ FieldIn(vtable, 4) = IF 4 \in DOMAIN fields THEN place - fields[4] ELSE 0
      /\ FieldIn(vtable, 6) = IF 6 \in DOMAIN fields THEN place - fields[6] ELSE 0
  BY <1>3 DEF Describes
<1>5. place >= 4 /\ place <= n
  <2>1. place \in 1 .. n
    BY <1>1, <1>2
  <2> HIDE DEF n
  <2> QED BY <1>1, <1>2, <2>1
<1>6. Read(e, table) = vt - place
  BY <1>1, <1>2, <1>3, ReadIs
<1>7. table - Read(e, table) = start
  <2>1. (n - place) - (vt - place) = n - vt
    BY <1>1, <1>2, <1>3
  <2> QED BY <1>6, <2>1
<1>8. VTableOf(e, table) = vtable
  <2>1. Read(e, start) = vtable
    BY <1>1, <1>3, ReadIs
  <2> QED BY <1>7, <2>1 DEF VTableOf
<1> HIDE DEF vtable
<1>9. VerifyTableStart(e, table)
  <2>1. VerifyAligned(e, table, 4)
    BY <1>1, <1>2, <1>5, AddressIs
  <2>2. VerifyAligned(e, start, 2)
    <3>1. vt >= 2 /\ start % 2 = 0 /\ start <= n - 2 /\ 2 < n
      <4>1. vt >= 6
        BY <1>3, <1>4 DEF vtable
      <4> HIDE DEF n
      <4>2. n % 2 = 0
        BY <1>1, Divisible
      <4> QED BY <1>1, <1>3, <4>1, <4>2
    <3> HIDE DEF start
    <3> QED BY <3>1 DEF VerifyAligned, VerifyRange
  <2>3. vtable[1] % 2 = 0
    BY <1>4
  <2>4. VerifyRange(e, start, vtable[1])
    <3> DEFINE l == vtable[1]
    <3>1. l <= vt /\ l \in {6, 8}
      BY <1>3, <1>4 DEF vtable
    <3> HIDE DEF l
    <3>2. l < n /\ start <= n - l
      <4> HIDE DEF n
      <4> QED BY <1>1, <1>3, <3>1
    <3> HIDE DEF start
    <3>3. VerifyRange(e, start, l)
      BY <3>2 DEF VerifyRange
    <3> QED BY <3>3 DEF l
  <2> QED BY <1>7, <1>8, <2>1, <2>2, <2>3, <2>4 DEF VerifyTableStart
<1>10. /\ FieldOffset(e, table, 4) = FieldIn(vtable, 4)
       /\ FieldOffset(e, table, 6) = FieldIn(vtable, 6)
  BY <1>8 DEF FieldOffset, FieldIn
<1> QED BY <1>2, <1>4, <1>5, <1>9, <1>10

\* The verifier accepts a packet, and the accessors read what was written.
LEMMA PacketRead ==
  ASSUME NEW e, Finished(e), NEW X, NEW packet, IsPacket(packet, X), NEW place,
         HasPacket(e, place, packet)
  PROVE  /\ VerifySynchronizer(e, e.size - place)
         /\ DecodedPacket(e, e.size - place) = packet
<1> DEFINE n == e.size
           table == n - place
           fields == PacketFields(packet, place)
           l == Len(packet.inputs)
           vector == n - (place - 12)
           unset == packet.tickNum = Unset
<1>1. /\ n \in Nat /\ n % 4 = 0 /\ n >= 12
      /\ \A p \in DOMAIN e.cells : p \in 1 .. n
  BY DEF Finished, WellBuilt, MinBufferSize
<1>2. /\ HasTable(e, place, fields)
      /\ place - 4 \in DOMAIN e.cells /\ e.cells[place - 4] = packet.tickNum
      /\ ~unset =>
           /\ place - 8 \in DOMAIN e.cells /\ e.cells[place - 8] = 4
           /\ place - 12 \in DOMAIN e.cells /\ e.cells[place - 12] = l
           /\ 12 * l + 16 <= place
           /\ \A k \in 1 .. l :
                /\ place - 4 - 12 * k \in DOMAIN e.cells
                /\ e.cells[place - 4 - 12 * k] = packet.inputs[k]
  BY DEF HasPacket
<1>3. /\ packet = [tickNum |-> packet.tickNum, inputs |-> packet.inputs]
      /\ packet.inputs \in Seq(X)
      /\ unset => packet.inputs = << >>
  BY DEF IsPacket
<1>4. l \in Nat
  BY <1>3
<1> HIDE DEF l
<1>5. /\ place \in Nat /\ place % 4 = 0 /\ place >= 4 /\ place <= n
      /\ VerifyTableStart(e, table)
      /\ FieldOffset(e, table, 4) = IF 4 \in DOMAIN fields THEN place - fields[4] ELSE 0
      /\ FieldOffset(e, table, 6) = IF 6 \in DOMAIN fields THEN place - fields[6] ELSE 0
  BY <1>2, TableIs
<1>6. FieldOffset(e, table, 4) = 4 /\ FieldOffset(e, table, 6) = IF unset THEN 0 ELSE 8
  <2>1. /\ 4 \in DOMAIN fields /\ fields[4] = place - 4
        /\ 6 \in DOMAIN fields <=> ~unset
        /\ ~unset => fields[6] = place - 8
    BY DEF PacketFields
  <2> HIDE DEF fields
  <2>2. place - (place - 4) = 4 /\ place - (place - 8) = 8
    BY <1>5
  <2> QED BY <1>5, <2>1, <2>2
<1> HIDE DEF n, unset
<1>7. place >= 8 /\ (place - 4) % 4 = 0 /\ place - 4 \in Int
  <2>1. place - 4 \in 1 .. n
    BY <1>1, <1>2
  <2> QED BY <1>1, <1>5, <2>1
<1>8. table + 4 = n - (place - 4)
  BY <1>1, <1>5
<1>9. VerifyField(e, table, VT_TICK_NUM)
  <2>1. VerifyAligned(e, n - (place - 4), 4)
    <3>1. 4 <= place - 4 /\ 4 < n
      BY <1>1, <1>5, <1>7
    <3> QED BY <1>7, <3>1, AddressIs DEF n
  <2> HIDE DEF table
  <2> QED BY <1>6, <1>8, <2>1 DEF VerifyField, VT_TICK_NUM
<1>10. GetField(e, table, VT_TICK_NUM, Unset) = packet.tickNum
  <2>1. Read(e, n - (place - 4)) = packet.tickNum
    BY <1>1, <1>2, <1>7, ReadIs DEF n
  <2> HIDE DEF table
  <2> QED BY <1>6, <1>8, <2>1 DEF GetField, VT_TICK_NUM
<1>11. CASE unset
  <2> HIDE DEF table
  <2>1. VerifyPointer(e, table, VT_INPUTS) /\ GetPointer(e, table, VT_INPUTS) = Null
    BY <1>6, <1>11 DEF VerifyPointer, GetPointer, VT_INPUTS, Null
  <2>2. VerifyVector(e, Null, 12)
    BY DEF VerifyVector
  <2>3. VerifySynchronizer(e, table)
    BY <1>5, <1>9, <2>1, <2>2 DEF VerifySynchronizer
  <2>4. DecodedPacket(e, table) = [tickNum |-> packet.tickNum, inputs |-> << >>]
    BY <1>10, <2>1 DEF DecodedPacket
  <2> QED BY <1>3, <1>11, <2>3, <2>4 DEF table, n
<1>12. CASE ~unset
  <2>1. /\ place - 8 \in DOMAIN e.cells /\ e.cells[place - 8] = 4
        /\ place - 12 \in DOMAIN e.cells /\ e.cells[place - 12] = l
        /\ 12 * l + 16 <= place
        /\ \A k \in 1 .. l :
             /\ place - 4 - 12 * k \in DOMAIN e.cells
             /\ e.cells[place - 4 - 12 * k] = packet.inputs[k]
    BY <1>2, <1>12
  <2>2. /\ place >= 16 /\ (place - 8) % 4 = 0 /\ place - 8 \in Int
        /\ (place - 12) % 4 = 0 /\ place - 12 \in Int /\ place - 12 <= n - 12
    BY <1>1, <1>4, <1>5, <2>1
  <2>3. table + 8 = n - (place - 8) /\ (n - (place - 8)) + 4 = vector
    BY <1>1, <1>5
  <2>4. Read(e, n - (place - 8)) = 4 /\ Read(e, vector) = l
    <3>1. Read(e, n - (place - 8)) = 4
      BY <1>1, <2>1, <2>2, ReadIs DEF n
    <3>2. Read(e, vector) = l
      BY <1>1, <2>1, <2>2, ReadIs DEF n
    <3> QED BY <3>1, <3>2
  <2>5. vector # Null /\ VerifyRange(e, vector, 1)
    <3>1. vector # 0
      BY <1>1, <2>2
    <3>2. VerifyRange(e, vector, 1)
      <4>1. 1 <= place - 12 /\ 1 < n
        BY <1>1, <1>5, <2>2
      <4> QED BY <2>2, <4>1, AddressIs DEF n
    <3> QED BY <3>1, <3>2 DEF Null
  <2>6. VerifyAligned(e, n - (place - 8), 4) /\ VerifyAligned(e, vector, 4)
    <3>1. 4 <= place - 8 /\ 4 <= place - 12 /\ 4 < n
      BY <1>1, <1>5, <2>2
    <3>2. VerifyAligned(e, n - (place - 8), 4)
      BY <2>2, <3>1, AddressIs DEF n
    <3>3. VerifyAligned(e, vector, 4)
      BY <2>2, <3>1, AddressIs DEF n
    <3> QED BY <3>2, <3>3
  <2>7. VerifyRange(e, vector, 4 + 12 * l)
    <3> DEFINE m == 4 + 12 * l
    <3>1. m \in Nat /\ m <= place - 12 /\ m < n
      BY <1>1, <1>4, <1>5, <2>1
    <3> HIDE DEF m
    <3>2. VerifyRange(e, vector, m)
      BY <2>2, <3>1, AddressIs DEF n
    <3> QED BY <3>2 DEF m
  <2>8. ASSUME NEW k \in 1 .. l
        PROVE  GetStruct(e, vector, k - 1) = packet.inputs[k]
    <3> DEFINE p == place - 4 - 12 * k
    <3>1. vector + 4 + 12 * (k - 1) = n - p /\ p \in Int
      BY <1>1, <1>4, <1>5
    <3>2. e.cells[p] = packet.inputs[k]
      BY <2>1
    <3> HIDE DEF p, vector
    <3>3. Read(e, n - p) = packet.inputs[k]
      BY <1>1, <3>1, <3>2, ReadIs DEF n
    <3> QED BY <3>1, <3>3 DEF GetStruct
  <2> HIDE DEF vector, table
  <2>9. GetPointer(e, table, VT_INPUTS) = vector
    BY <1>6, <1>12, <2>3, <2>4 DEF GetPointer, VT_INPUTS, Indirect
  <2>10. VerifyPointer(e, table, VT_INPUTS)
    <3>1. VerifyOffset(e, n - (place - 8))
      <4>1. Indirect(e, n - (place - 8)) = vector
        BY <2>3, <2>4 DEF Indirect
      <4> QED BY <2>4, <2>5, <2>6, <4>1 DEF VerifyOffset
    <3> QED BY <1>6, <1>12, <2>3, <3>1 DEF VerifyPointer, VT_INPUTS
  <2>11. VerifyVector(e, vector, 12)
    BY <2>4, <2>6, <2>7 DEF VerifyVector
  <2>12. VerifySynchronizer(e, table)
    BY <1>5, <1>9, <2>9, <2>10, <2>11 DEF VerifySynchronizer
  <2>13. [k \in 1 .. l |-> GetStruct(e, vector, k - 1)] = packet.inputs
    <3>1. packet.inputs = [k \in 1 .. l |-> packet.inputs[k]]
      BY <1>3 DEF l
    <3>2. [k \in 1 .. l |-> GetStruct(e, vector, k - 1)] = [k \in 1 .. l |-> packet.inputs[k]]
      BY <2>8
    <3> QED BY <3>1, <3>2
  <2>14. DecodedPacket(e, table) = [tickNum |-> packet.tickNum, inputs |-> packet.inputs]
    BY <1>10, <2>4, <2>5, <2>9, <2>13 DEF DecodedPacket
  <2> QED BY <1>3, <2>12, <2>14 DEF table, n
<1> QED BY <1>11, <1>12 DEF n

\* An update with a packet for each player.
IsUpdate(update, X) ==
  /\ update \in [playerNum : Int, packets : [1 .. NumPlayers -> [tickNum : Int, inputs : Seq(X)]]]
  /\ \A j \in 1 .. NumPlayers : IsPacket(update.packets[j], X)

\* Its packets are a sequence.
LEMMA UpdateHasAll ==
  ASSUME NEW X, NEW update, IsUpdate(update, X)
  PROVE  DOMAIN update.packets = 1 .. NumPlayers /\ Len(update.packets) = NumPlayers
<1> DEFINE packets == update.packets
<1>1. packets \in [1 .. NumPlayers -> [tickNum : Int, inputs : Seq(X)]] /\ NumPlayers \in Nat
  BY FlatBufferAssumption DEF IsUpdate
<1> HIDE DEF packets
<1>2. packets \in Seq([tickNum : Int, inputs : Seq(X)]) /\ DOMAIN packets = 1 .. NumPlayers
  <2> DEFINE S == [tickNum : Int, inputs : Seq(X)]
  <2>1. packets \in [1 .. NumPlayers -> S] /\ NumPlayers \in Nat
    BY <1>1
  <2> HIDE DEF S
  <2>2. packets \in Seq(S) /\ DOMAIN packets = 1 .. NumPlayers
    BY <2>1, SeqDef
  <2> QED BY <2>2 DEF S
<1>3. Len(packets) \in Nat /\ DOMAIN packets = 1 .. Len(packets)
  BY <1>2
<1>4. Len(packets) = NumPlayers
  BY <1>1, <1>2, <1>3
<1> QED BY <1>2, <1>4 DEF packets

\* The verifier accepts a finished update, and the accessors read what was written.
LEMMA UpdateRead ==
  ASSUME NEW e, Finished(e), NEW X, NEW update, IsUpdate(update, X), NEW place \in Int,
         place < e.size,
         HasUpdate(e, place, update), e.cells[e.size] = e.size - place, MaxTicksToTransmit # 0
  PROVE  VerifyBuffer(e) /\ Decoded(e) = update
<1> DEFINE n == e.size
           N == NumPlayers
           table == n - place
           playerNum == update.playerNum
           fields == UpdateFields(playerNum, place)
           f == fields[6]
           w == f - 4
           vector == n - w
<1>1. /\ n \in Nat /\ n % 4 = 0 /\ n >= 12
      /\ \A p \in DOMAIN e.cells : p \in 1 .. n
  BY DEF Finished, WellBuilt, MinBufferSize
<1>2. N \in Nat /\ Len(update.packets) = N
  BY UpdateHasAll, FlatBufferAssumption
<1>3. PICK places \in Seq(Nat) :
        /\ Len(places) = N
        /\ 4 * N + 8 <= f
        /\ HasVector(e, w, places)
        /\ \A j \in 1 .. N : HasPacket(e, places[j], update.packets[j])
  BY <1>2 DEF HasUpdate
<1>4. /\ HasTable(e, place, fields)
      /\ playerNum # 0 => place - 4 \in DOMAIN e.cells /\ e.cells[place - 4] = playerNum
      /\ f \in DOMAIN e.cells /\ e.cells[f] = 4
  BY DEF HasUpdate
<1>5. /\ place \in Nat /\ place % 4 = 0 /\ place >= 4 /\ place <= n
      /\ VerifyTableStart(e, table)
      /\ FieldOffset(e, table, 4) = IF 4 \in DOMAIN fields THEN place - fields[4] ELSE 0
      /\ FieldOffset(e, table, 6) = IF 6 \in DOMAIN fields THEN place - fields[6] ELSE 0
  BY <1>4, TableIs
<1>6. /\ FieldOffset(e, table, 4) = IF playerNum = 0 THEN 0 ELSE 4
      /\ FieldOffset(e, table, 6) = place - f
      /\ f \in {place - 4, place - 8}
  <2>1. /\ 4 \in DOMAIN fields <=> playerNum # 0
        /\ playerNum # 0 => fields[4] = place - 4
        /\ 6 \in DOMAIN fields /\ fields[6] \in {place - 4, place - 8}
    BY DEF UpdateFields
  <2> HIDE DEF fields, table
  <2>2. place - (place - 4) = 4
    BY <1>5
  <2> QED BY <1>5, <2>1, <2>2
<1> HIDE DEF n, f
<1>7. /\ f \in Int /\ f % 4 = 0 /\ 8 <= f /\ f <= n
      /\ w \in Int /\ w % 4 = 0 /\ 4 * N + 4 <= w /\ w <= n - 4
      /\ place - f # 0
  <2>1. f \in Int /\ f % 4 = 0 /\ f <= n - 0 /\ place - f # 0
    BY <1>1, <1>5, <1>6
  <2>2. w % 4 = 0
    BY <2>1, Divisible
  <2>3. f \in 1 .. n
    BY <1>1, <1>4
  <2>4. N \in Nat /\ n \in Nat /\ 4 * N + 8 <= f
    BY <1>1, <1>2, <1>3
  <2>5. 8 <= f /\ f <= n /\ w \in Int /\ 4 * N + 4 <= w /\ w <= n - 4
    BY <2>1, <2>3, <2>4
  <2> QED BY <2>1, <2>2, <2>5
<1>8. /\ w \in DOMAIN e.cells /\ e.cells[w] = N
      /\ \A k \in 1 .. N : /\ w - 4 * k \in DOMAIN e.cells
                           /\ e.cells[w - 4 * k] = (w - 4 * k) - places[k]
                           /\ places[k] < w - 4 * k
  BY <1>3 DEF HasVector
<1> HIDE DEF w
<1>9. Root(e) = table
  <2>1. n - 0 = n
    BY <1>1
  <2> QED BY <2>1 DEF Root, Read, n
<1>10. VerifyOffset(e, 0)
  <2>1. Read(e, 0) = table
    BY <1>9 DEF Root
  <2>2. VerifyAligned(e, 0, 4)
    <3>1. n - n = 0 /\ 4 <= n /\ 4 < n
      BY <1>1
    <3>2. VerifyAligned(e, n - n, 4)
      BY <1>1, <3>1, AddressIs DEF n
    <3> QED BY <3>1, <3>2
  <2>3. Indirect(e, 0) = table
    BY <1>1, <1>5, <2>1 DEF Indirect
  <2>4. VerifyRange(e, table, 1)
    <3>1. 1 <= place /\ 1 < n
      BY <1>1, <1>5
    <3> QED BY <1>5, <3>1, AddressIs DEF n
  <2>5. table > 0
    BY <1>1, <1>5 DEF n
  <2> HIDE DEF table
  <2> QED BY <2>1, <2>2, <2>3, <2>4, <2>5 DEF VerifyOffset
<1>11. VerifyField(e, table, VT_PLAYER_NUM) /\ GetField(e, table, VT_PLAYER_NUM, 0) = playerNum
  <2>1. CASE playerNum = 0
    <3> HIDE DEF table
    <3> QED BY <1>6, <2>1 DEF VerifyField, GetField, VT_PLAYER_NUM
  <2>2. CASE playerNum # 0
    <3>1. /\ place - 4 \in DOMAIN e.cells /\ e.cells[place - 4] = playerNum
          /\ FieldOffset(e, table, 4) = 4
      BY <1>4, <1>6, <2>2
    <3>2. (place - 4) % 4 = 0 /\ place - 4 \in Int /\ 4 <= place - 4 /\ 4 < n
      <4>1. place - 4 \in 1 .. n
        BY <1>1, <3>1
      <4> QED BY <1>1, <1>5, <4>1
    <3>3. VerifyAligned(e, n - (place - 4), 4) /\ Read(e, n - (place - 4)) = playerNum
      <4>1. VerifyAligned(e, n - (place - 4), 4)
        BY <3>2, AddressIs DEF n
      <4>2. Read(e, n - (place - 4)) = playerNum
        BY <1>1, <3>1, <3>2, ReadIs DEF n
      <4> QED BY <4>1, <4>2
    <3>4. table + 4 = n - (place - 4)
      BY <1>1, <1>5
    <3> HIDE DEF table
    <3> QED BY <3>1, <3>3, <3>4 DEF VerifyField, GetField, VT_PLAYER_NUM
  <2> QED BY <2>1, <2>2
<1>12. table + (place - f) = n - f /\ (n - f) + 4 = vector
  <2>1. w = f - 4
    BY DEF w
  <2> QED BY <1>1, <1>5, <1>7, <2>1
<1>13. Read(e, n - f) = 4 /\ Read(e, vector) = N
  <2>1. Read(e, n - f) = 4
    BY <1>1, <1>4, <1>7, ReadIs DEF n
  <2>2. Read(e, vector) = N
    BY <1>1, <1>7, <1>8, ReadIs DEF n
  <2> QED BY <2>1, <2>2
<1>14. VerifyAligned(e, n - f, 4) /\ VerifyAligned(e, vector, 4) /\ VerifyRange(e, vector, 1)
  <2>1. 4 <= f /\ 4 <= w /\ 1 <= w /\ 4 < n /\ 1 < n
    BY <1>1, <1>2, <1>7
  <2>2. VerifyAligned(e, n - f, 4)
    BY <1>7, <2>1, AddressIs DEF n
  <2>3. VerifyAligned(e, vector, 4)
    BY <1>7, <2>1, AddressIs DEF n
  <2>4. VerifyRange(e, vector, 1)
    BY <1>7, <2>1, AddressIs DEF n
  <2> QED BY <2>2, <2>3, <2>4
<1>15. VerifyRange(e, vector, 4 + 4 * N)
  <2> DEFINE m == 4 + 4 * N
  <2>1. m \in Nat /\ m <= w /\ m < n
    BY <1>1, <1>2, <1>7
  <2> HIDE DEF m
  <2>2. VerifyRange(e, vector, m)
    BY <1>7, <2>1, AddressIs DEF n
  <2> QED BY <2>2 DEF m
<1>16. vector # Null
  BY <1>1, <1>7 DEF Null
<1>17. ASSUME NEW i \in 0 .. N - 1
       PROVE  GetTable(e, vector, i) = n - places[i + 1]
  <2> DEFINE x == w - 4 * (i + 1)
             p == places[i + 1]
  <2>1. i + 1 \in 1 .. N
    BY <1>2
  <2>2. e.cells[x] = x - p
    BY <1>8, <2>1
  <2>3. vector + 4 + 4 * i = n - x /\ x \in Int
    BY <1>1, <1>2, <1>7
  <2>4. p \in Nat
    BY <1>3, <2>1
  <2> HIDE DEF x, p, vector
  <2>5. Read(e, n - x) = x - p
    BY <1>1, <2>2, <2>3, ReadIs DEF n
  <2>6. (n - x) + (x - p) = n - p
    BY <1>1, <2>3, <2>4
  <2> QED BY <2>3, <2>5, <2>6 DEF GetTable, Indirect, p
<1>18. ASSUME NEW i \in 0 .. N - 1
       PROVE  /\ VerifySynchronizer(e, GetTable(e, vector, i))
              /\ DecodedPacket(e, GetTable(e, vector, i)) = update.packets[i + 1]
  <2>1. i + 1 \in 1 .. N
    BY <1>2
  <2> DEFINE j == i + 1
  <2> HIDE DEF j
  <2>2. j \in 1 .. N
    BY <2>1 DEF j
  <2>3. HasPacket(e, places[j], update.packets[j]) /\ IsPacket(update.packets[j], X)
    BY <1>3, <2>2 DEF IsUpdate
  <2>4. /\ VerifySynchronizer(e, n - places[j])
        /\ DecodedPacket(e, n - places[j]) = update.packets[j]
    BY <2>3, PacketRead DEF n
  <2> QED BY <1>17, <2>4 DEF j
<1>19. 1 + N <= MaxTables
  <2> DEFINE m == N * MaxTicksToTransmit
  <2>1. m >= N
    <3>1. MaxTicksToTransmit \in Nat \ {0}
      BY FlatBufferAssumption
    <3> QED BY <1>2, <3>1
  <2>2. m \in Nat
    BY <1>2, FlatBufferAssumption
  <2> HIDE DEF m
  <2>3. 1 + N <= m + 10
    BY <1>2, <2>1, <2>2
  <2> QED BY <2>3 DEF MaxTables, m
<1> HIDE DEF table, vector
<1>20. GetPointer(e, table, VT_PLAYER_SYNCHRONIZERS) = vector
  BY <1>6, <1>7, <1>12, <1>13 DEF GetPointer, VT_PLAYER_SYNCHRONIZERS, Indirect
<1>21. VerifyPointer(e, table, VT_PLAYER_SYNCHRONIZERS)
  <2>1. Indirect(e, n - f) = vector
    BY <1>12, <1>13 DEF Indirect
  <2>2. VerifyOffset(e, n - f)
    BY <1>13, <1>14, <2>1 DEF VerifyOffset
  <2> QED BY <1>6, <1>12, <2>2 DEF VerifyPointer, VT_PLAYER_SYNCHRONIZERS
<1>22. VerifyVector(e, vector, 4)
  BY <1>13, <1>14, <1>15 DEF VerifyVector
<1>23. VerifyUpdate(e, table)
  BY <1>5, <1>11, <1>13, <1>18, <1>19, <1>20, <1>21, <1>22 DEF VerifyUpdate
<1>24. VerifyBuffer(e)
  <2>1. e.size >= MinBufferSize
    BY DEF Finished
  <2> QED BY <1>9, <1>10, <1>23, <2>1 DEF VerifyBuffer
<1>25. Decoded(e) = update
  <2> DEFINE packets == update.packets
  <2>1. /\ update = [playerNum |-> playerNum, packets |-> packets]
        /\ packets = [j \in 1 .. N |-> packets[j]]
    BY DEF IsUpdate
  <2> HIDE DEF packets
  <2>2. [j \in 1 .. N |-> DecodedPacket(e, GetTable(e, vector, j - 1))]
          = [j \in 1 .. N |-> packets[j]]
    <3>1. ASSUME NEW j \in 1 .. N
          PROVE  DecodedPacket(e, GetTable(e, vector, j - 1)) = packets[j]
      <4>1. j - 1 \in 0 .. N - 1 /\ (j - 1) + 1 = j
        BY <1>2
      <4> QED BY <1>18, <4>1 DEF packets
    <3> QED BY <3>1
  <2>3. Decoded(e) = [playerNum |-> playerNum,
                      packets   |-> [j \in 1 .. N |-> DecodedPacket(e, GetTable(e, vector, j - 1))]]
    BY <1>9, <1>11, <1>20 DEF Decoded
  <2> QED BY <2>1, <2>2, <2>3
<1> QED BY <1>24, <1>25

-----------------------------------------------------------------------------
(* Datagrams.                                                              *)

\* The windows are as the models have them, and the longest ones of all players fit the
\* buffers: 2 * (12 * 256 + 30) + 32 is 6236 in the code.
BuffersSuffice ==
  /\ MaxTicksToTransmit >= 3
  /\ NumPlayers * (12 * MaxTicksToTransmit + 30) + 32 <= BufferSize

\* The first bytes of the other messages.
LEMMA CharsAre == Char("c") = 99 /\ Char("p") = 112 /\ Char("s") = 115
BY DEF Char

\* What SendTicks, or the server when BuildResponsePacket has succeeded, sends gets
\* through: whatever the players, their inputs and the lengths of their windows are, the
\* datagram fits the buffers of DoWork, is not mistaken for another message, is accepted by
\* the verifier, and is read as it was written.
THEOREM EveryUpdateGetsThrough ==
  ASSUME BuffersSuffice, NEW X, NEW update, IsUpdate(update, X)
  PROVE  GetsThrough(update)
<1> DEFINE N == NumPlayers
           M == MaxTicksToTransmit
           made == CreateClientToServerUpdate(update)
           c == made.builder
           place == made.at
           e == Finish(c, place)
           n == e.size
           d == c.size
<1>1. /\ DOMAIN update.packets = 1 .. N /\ Len(update.packets) = N
      /\ N \in Nat /\ M \in Nat /\ M >= 3
  BY UpdateHasAll, FlatBufferAssumption DEF BuffersSuffice
<1>2. \A j \in 1 .. N : IsPacket(update.packets[j], X)
  BY DEF IsUpdate
<1>3. Encoded(update) = e
  BY DEF Encoded
<1> HIDE DEF made
<1>4. /\ WellBuilt(c) /\ c.minalign = 4
      /\ place \in Nat /\ place % 4 = 0 /\ place <= d /\ d <= place + 8
      /\ d <= N * (12 * M + 26) + 4 * N + 26
      /\ HasUpdate(c, place, update)
  BY <1>1, <1>2, UpdateIs DEF made
<1> HIDE DEF c, place
<1>5. /\ WellBuilt(e) /\ Keeps(c, e) /\ n = Up(d) + 4 /\ n \in Nat /\ n % 4 = 0
      /\ n \in DOMAIN e.cells /\ e.cells[n] = n - place
  <2>1. WellBuilt(c) /\ c.minalign = 4 /\ place \in Int
    BY <1>4
  <2>2. /\ WellBuilt(e) /\ Keeps(c, e)
        /\ e.size = Up(c.size) + 4 /\ e.size \in Nat /\ e.size % 4 = 0
        /\ e.size \in DOMAIN e.cells /\ e.cells[e.size] = e.size - place
    BY <2>1, FinishIs
  <2> HIDE DEF e
  <2> QED BY <2>2
<1> HIDE DEF e
<1>6. d \in Nat /\ d % 2 = 0
  BY <1>4 DEF WellBuilt
<1> HIDE DEF d, n
<1>7. n = d + 4 \/ n = d + 6
  <2>1. Up(d) \in {d, d + 2}
    BY <1>6, UpIs
  <2> QED BY <1>5, <1>6, <2>1
<1>8. place >= 12
  <2> DEFINE f == UpdateFields(update.playerNum, place)[6]
  <2>1. f = place - 4 \/ f = place - 8
    BY DEF UpdateFields
  <2>2. PICK places \in Seq(Nat) : 4 * Len(places) + 8 <= f
    BY <1>4 DEF HasUpdate
  <2> HIDE DEF f
  <2>3. Len(places) \in Nat
    OBVIOUS
  <2> QED BY <1>4, <2>1, <2>2, <2>3
<1>9. n >= 16 /\ place < n /\ n - place \in 4 .. 14
  BY <1>4, <1>6, <1>7, <1>8
<1>10. Finished(e)
  BY <1>5, <1>9 DEF Finished, MinBufferSize, n
<1>11. HasUpdate(e, place, update)
  BY <1>4, <1>5, KeepsUpdate
<1>12. VerifyBuffer(e) /\ Decoded(e) = update
  <2>1. place < e.size /\ e.cells[e.size] = e.size - place /\ place \in Int
    BY <1>4, <1>5, <1>9 DEF n
  <2>2. MaxTicksToTransmit # 0
    BY <1>1
  <2> QED BY <1>10, <1>11, <2>1, <2>2, UpdateRead
<1>13. n <= BufferSize
  <2> DEFINE a == N * (12 * M + 26)
             m == N * (12 * M + 30)
  <2>1. m + 32 <= BufferSize
    BY DEF BuffersSuffice
  <2>2. m = a + 4 * N /\ a \in Nat
    <3> DEFINE k == 12 * M
    <3>1. k \in Nat
      BY <1>1
    <3> HIDE DEF k
    <3>2. N * (k + 30) = N * (k + 26) + 4 * N /\ N * (k + 26) \in Nat
      BY <1>1, <3>1
    <3> QED BY <3>2 DEF k
  <2>3. d <= a + 4 * N + 26
    BY <1>4
  <2> HIDE DEF a, m
  <2>4. BufferSize \in Nat
    BY DEF BufferSize
  <2> QED BY <1>1, <1>6, <1>7, <2>1, <2>2, <2>3, <2>4
<1>14. FirstByte(e) \notin {Char("c"), Char("p"), Char("s")}
  <2> DEFINE r == n - place
  <2>1. r \in 4 .. 14
    BY <1>9
  <2>2. Read(e, 0) = r
    <3>1. n - 0 = n
      BY <1>5
    <3> QED BY <1>5, <3>1 DEF Read, n
  <2> HIDE DEF r
  <2>3. r % 256 = r
    BY <2>1
  <2>4. FirstByte(e) = r
    BY <2>2, <2>3 DEF FirstByte
  <2> QED BY <2>1, <2>4, CharsAre
<1>15. e.size <= BufferSize
  BY <1>13 DEF n
<1> QED BY <1>3, <1>12, <1>14, <1>15 DEF GetsThrough, Brings

\* The packets that the models send are packets.
LEMMA WindowsArePackets ==
  ASSUME BuffersSuffice
  PROVE  /\ IsPacket(AbsentWindow, Int)
         /\ \A from \in Nat : \A n \in 0 .. MaxTicksToTransmit :
              from + n > 0 \/ n = 0 => IsPacket(Window(from, n), Int)
<1>1. MaxTicksToTransmit \in Nat
  BY FlatBufferAssumption
<1>2. << >> \in Seq(Int) /\ Len(<< >>) = 0
  OBVIOUS
<1>3. IsPacket(AbsentWindow, Int)
  BY <1>1, <1>2 DEF IsPacket, AbsentWindow, Unset
<1>4. ASSUME NEW from \in Nat, NEW n \in 0 .. MaxTicksToTransmit,
             from + n > 0 \/ n = 0
      PROVE  IsPacket(Window(from, n), Int)
  <2> DEFINE inputs == [k \in 1 .. n |-> from + k - 1]
  <2>1. n \in Nat /\ from + n - 1 \in Int
    BY <1>1
  <2>2. inputs \in [1 .. n -> Int]
    BY <2>1
  <2>3. inputs \in Seq(Int) /\ Len(inputs) = n
    BY <2>1, <2>2
  <2>4. n = 0 => inputs = << >>
    BY <2>3
  <2>5. from + n - 1 = Unset => inputs = << >>
    BY <1>4, <2>1, <2>4 DEF Unset
  <2>6. Window(from, n) = [tickNum |-> from + n - 1, inputs |-> inputs]
    BY DEF Window
  <2> HIDE DEF inputs
  <2>7. n <= MaxTicksToTransmit
    BY <1>1
  <2> QED BY <2>1, <2>3, <2>5, <2>6, <2>7 DEF IsPacket
<1> QED BY <1>3, <1>4

\* The datagrams that the run checks are among those of EveryUpdateGetsThrough.
THEOREM DatagramsTrue ==
  ASSUME BuffersSuffice
  PROVE  Spec => []DatagramsGetThrough
<1>1. UpdatesGetThrough
  <2> DEFINE Packets == {AbsentWindow}
                   \cup {Window(from, n) : from \in {0, 7}, n \in {0, 1, 2, 3, MaxTicksToTransmit}}
  <2>1. \A packet \in Packets : IsPacket(packet, Int)
    <3>1. ASSUME NEW from \in {0, 7}, NEW n \in {0, 1, 2, 3, MaxTicksToTransmit}
          PROVE  IsPacket(Window(from, n), Int)
      <4>1. from \in Nat /\ n \in 0 .. MaxTicksToTransmit
        BY FlatBufferAssumption DEF BuffersSuffice
      <4>2. from + n > 0 \/ n = 0
        BY <4>1
      <4> QED BY <4>1, <4>2, WindowsArePackets
    <3> QED BY <3>1, WindowsArePackets
  <2> HIDE DEF Packets
  <2>2. ASSUME NEW playerNum \in {-1} \cup 0 .. NumPlayers - 1,
               NEW packets \in [1 .. NumPlayers -> Packets]
        PROVE  GetsThrough([playerNum |-> playerNum, packets |-> packets])
    <3> DEFINE update == [playerNum |-> playerNum, packets |-> packets]
    <3>1. playerNum \in Int
      BY FlatBufferAssumption
    <3>2. \A j \in 1 .. NumPlayers : IsPacket(packets[j], Int)
      BY <2>1
    <3>3. packets \in [1 .. NumPlayers -> [tickNum : Int, inputs : Seq(Int)]]
      BY <3>2 DEF IsPacket
    <3>4. update = [playerNum |-> playerNum, packets |-> packets] /\ update.packets = packets
      OBVIOUS
    <3>5. update \in [playerNum : Int, packets : [1 .. NumPlayers -> [tickNum : Int, inputs : Seq(Int)]]]
      BY <3>1, <3>3
    <3> HIDE DEF update
    <3>6. IsUpdate(update, Int)
      BY <3>2, <3>4, <3>5 DEF IsUpdate
    <3>7. GetsThrough(update)
      BY <3>6, EveryUpdateGetsThrough
    <3> QED BY <3>7 DEF update
  <2>3. UpdatesGetThrough
          = (\A playerNum \in {-1} \cup 0 .. NumPlayers - 1, packets \in [1 .. NumPlayers -> Packets] :
               GetsThrough([playerNum |-> playerNum, packets |-> packets]))
    BY DEF UpdatesGetThrough, Packets
  <2> QED BY <2>2, <2>3
<1>2. DatagramsGetThrough
  BY <1>1 DEF DatagramsGetThrough
<1> QED BY <1>2, PTL

-----------------------------------------------------------------------------
(* A reply that could not be built.                                        *)

\* Without packets, the builder is finished as it was new.
LEMMA NothingIs ==
  LET e == Finish(NewBuilder, 0)
  IN  /\ WellBuilt(e) /\ e.size = 4 /\ e.cells[e.size] = e.size
<1> DEFINE b == NewBuilder
           e == Finish(b, 0)
<1>1. /\ WellBuilt(b) /\ b.size = 0
      /\ b = [size |-> 0, cells |-> << >>, minalign |-> 1, fields |-> << >>, vtables |-> {}]
  BY NewBuilderIs DEF NewBuilder
<1> HIDE DEF b
<1>2. TrackMinAlign(b, 1) = b
  <2>1. Max({1, 1}) = 1
    <3>1. Max({1, 1}) = CHOOSE x \in {1, 1} : \A y \in {1, 1} : x >= y
      BY DEF Max
    <3>2. \A x \in {1, 1} : (\A y \in {1, 1} : x >= y) <=> x = 1
      OBVIOUS
    <3> QED BY <3>1, <3>2
  <2>2. TrackMinAlign(b, 1) = [b EXCEPT !.minalign = 1]
    BY <1>1, <2>1 DEF TrackMinAlign
  <2> QED BY <1>1, <2>2
<1>3. PreAlign(b, 4, 1) = b
  <2>1. PaddingBytes(b.size + 4, 1) = 0
    BY <1>1 DEF PaddingBytes
  <2>2. PreAlign(b, 4, 1) = [b EXCEPT !.size = 0]
    BY <1>1, <1>2, <2>1 DEF PreAlign, Padded
  <2> QED BY <1>1, <2>2
<1>4. e = PushOffset(b, 0)
  BY <1>1, <1>3 DEF Finish
<1> HIDE DEF e
<1>5. /\ WellBuilt(e) /\ e.size = Up(b.size) + 4 /\ e.cells[e.size] = e.size
  <2>1. 0 \in Int
    OBVIOUS
  <2>2. /\ WellBuilt(e) /\ e.size = Up(b.size) + 4 /\ e.size \in Nat
        /\ e.cells[e.size] = e.size - 0
    BY <1>1, <1>4, <2>1, PushOffsetIs
  <2> QED BY <2>2
<1>6. Up(0) = 0
  BY DEF Up, PaddingBytes
<1>7. e.size = 4
  BY <1>1, <1>5, <1>6
<1> QED BY <1>5, <1>7 DEF e, b

\* The root of a reply without a root is the end of the buffer.
LEMMA RootlessIs ==
  ASSUME NEW X, NEW n \in Nat, NEW packets, DOMAIN packets = 1 .. n,
         \A j \in 1 .. n : IsPacket(packets[j], X)
  PROVE  LET e == EncodedWithoutRoot(packets)
         IN  e.size \in Nat /\ e.size % 2 = 0 /\ Read(e, 0) = e.size
<1> DEFINE with == WithPackets(packets)
           b == with.builder
           e == Finish(b, 0)
<1>1. EncodedWithoutRoot(packets) = e
  BY DEF EncodedWithoutRoot
<1>2. HasPackets(with, packets, n)
  BY WithPacketsIs
<1>3. WellBuilt(e) /\ e.cells[e.size] = e.size
  <2>1. CASE n > 0
    <3>1. WellBuilt(b) /\ b.minalign = 4 /\ 0 \in Int
      BY <1>2, <2>1 DEF HasPackets
    <3>2. WellBuilt(e) /\ e.cells[e.size] = e.size - 0 /\ e.size \in Nat
      BY <3>1, FinishIs
    <3> HIDE DEF e
    <3> QED BY <3>2
  <2>2. CASE n = 0
    <3>1. with = [builder |-> NewBuilder, places |-> << >>]
      BY <2>2, PacketsLoop
    <3>2. b = NewBuilder
      BY <3>1
    <3> QED BY <3>2, NothingIs
  <2> QED BY <2>1, <2>2
<1> HIDE DEF e
<1>4. e.size \in Nat /\ e.size % 2 = 0 /\ Read(e, 0) = e.size
  <2>1. e.size \in Nat /\ e.size % 2 = 0
    BY <1>3 DEF WellBuilt
  <2>2. e.size - 0 = e.size
    BY <2>1
  <2> QED BY <1>3, <2>1, <2>2 DEF Read
<1> QED BY <1>1, <1>4

\* What the server sends when GetPaket has failed is never taken for inputs, whatever
\* packets it had built before: the verifier rejects a root that was never set.
THEOREM RootlessRejected ==
  ASSUME NEW X, NEW n \in Nat, NEW packets, DOMAIN packets = 1 .. n,
         \A j \in 1 .. n : IsPacket(packets[j], X)
  PROVE  ~VerifyBuffer(EncodedWithoutRoot(packets))
<1> DEFINE e == EncodedWithoutRoot(packets)
           m == e.size
<1>1. m \in Nat /\ Read(e, 0) = m
  BY RootlessIs
<1> HIDE DEF e
<1>2. Indirect(e, 0) = m
  <2> HIDE DEF m
  <2>1. 0 + m = m
    BY <1>1
  <2> QED BY <1>1, <2>1 DEF Indirect
<1>3. ~VerifyRange(e, Indirect(e, 0), 1)
  <2>1. ~(m <= m - 1)
    <3> HIDE DEF m
    <3> QED BY <1>1
  <2> QED BY <1>2, <2>1 DEF VerifyRange
<1> QED BY <1>3 DEF VerifyBuffer, VerifyOffset, e

\* The size of a reply with one packet, which is twelve bytes for each input and 28.
LEMMA RootlessSize ==
  ASSUME NEW X, NEW packet, IsPacket(packet, X)
  PROVE  LET m == EncodedWithoutRoot(<<packet>>).size
             l == Len(packet.inputs)
         IN  /\ m \in Nat /\ m <= 12 * l + 30
             /\ packet.tickNum # Unset => m = 12 * l + 28
<1> DEFINE packets == <<packet>>
           made == CreatePlayerInputsSynchronizer(NewBuilder, packet)
           c == made.builder
           place == made.at
           l == Len(packet.inputs)
           d == c.size
<1>1. l \in Nat
  <2>1. packet.inputs \in Seq(X)
    BY DEF IsPacket
  <2> QED BY <2>1
<1>2. DOMAIN packets = 1 .. 1 /\ packets[1] = packet
  OBVIOUS
<1> HIDE DEF packets
<1>3. WithPackets(packets).builder = c
  <2>1. WithPackets(packets)
          = AddPacket([builder |-> NewBuilder, places |-> << >>], packet)
    <3>1. PICK with : /\ with[0] = [builder |-> NewBuilder, places |-> << >>]
                      /\ \A i \in 0 .. 1 - 1 : with[i + 1] = AddPacket(with[i], packets[i + 1])
                      /\ WithPackets(packets) = with[1]
      <4> DEFINE n == 1
      <4>1. n \in Nat /\ DOMAIN packets = 1 .. n
        BY <1>2
      <4> HIDE DEF n
      <4>2. \E with : /\ with[0] = [builder |-> NewBuilder, places |-> << >>]
                      /\ \A i \in 0 .. n - 1 : with[i + 1] = AddPacket(with[i], packets[i + 1])
                      /\ WithPackets(packets) = with[n]
        BY <4>1, PacketsLoop
      <4> QED BY <4>2 DEF n
    <3>2. with[0 + 1] = AddPacket(with[0], packets[0 + 1])
      BY <3>1
    <3>3. 0 + 1 = 1
      OBVIOUS
    <3> QED BY <1>2, <3>1, <3>2, <3>3
  <2> QED BY <2>1 DEF AddPacket
<1> HIDE DEF l, made
<1>4. /\ WellBuilt(c) /\ c.minalign = 4 /\ HasPacket(c, place, packet)
      /\ place \in Nat /\ place <= d /\ d <= 12 * l + 26
      /\ place % 4 = 0 /\ d \in {place + 6, place + 8} /\ place <= 12 * l + 18
  <2>1. NewBuilder.size = 0 /\ NewBuilder.vtables = {} /\ NewBuilder.fields = << >>
        /\ WellBuilt(NewBuilder)
    BY NewBuilderIs DEF NewBuilder
  <2>2. /\ WellBuilt(c) /\ c.minalign = 4 /\ HasPacket(c, place, packet)
        /\ place \in Nat /\ place <= d /\ d <= 0 + 12 * l + 26
        /\ place % 4 = 0 /\ d \in {place + 6, place + 8} /\ place <= 0 + 12 * l + 18
    BY <2>1, SynchronizerIs DEF made, l
  <2> HIDE DEF c, d, place
  <2> QED BY <1>1, <2>2
<1> HIDE DEF c, place
<1> DEFINE e == Finish(c, 0)
           m == e.size
<1>5. m = Up(d) + 4
  <2>1. 0 \in Int
    OBVIOUS
  <2> QED BY <1>4, <2>1, FinishIs
<1> HIDE DEF e
<1>6. EncodedWithoutRoot(packets) = e
  BY <1>3 DEF EncodedWithoutRoot, e
<1> HIDE DEF d, m
<1>7. d \in Nat /\ d % 2 = 0 /\ Up(d) = place + 8
  <2>1. d \in Nat /\ d % 2 = 0
    BY <1>4
  <2>2. Up(d) \in {d, d + 2} /\ Up(d) % 4 = 0
    BY <2>1, UpIs
  <2> QED BY <1>4, <2>1, <2>2
<1>8. m \in Nat /\ m <= 12 * l + 30
  BY <1>1, <1>4, <1>5, <1>7
<1>9. ASSUME packet.tickNum # Unset
      PROVE  m = 12 * l + 28
  <2>1. 12 * l + 16 <= place
    BY <1>9, <1>4 DEF HasPacket, l
  <2>2. place = 12 * l + 16
    BY <1>1, <1>4, <2>1
  <2> QED BY <1>1, <1>5, <1>7, <2>2
<1> QED BY <1>6, <1>8, <1>9 DEF m, l, packets

\* The remainders that make the first byte the one of the message with a player's number.
LEMMA FirstBytes ==
  ASSUME NEW n \in Nat
  PROVE  /\ (12 * n + 28) % 256 = 112 <=> n % 64 = 7
         /\ n % 64 = 7 => (12 * n + 28) \div 256 = 3 * (n \div 64)
<1> DEFINE q == n \div 64
           r == n % 64
           x == 12 * r + 28
<1>1. q \in Nat /\ r \in 0 .. 63 /\ n = 64 * q + r
  OBVIOUS
<1> HIDE DEF q, r
<1>2. 12 * n + 28 = 768 * q + x
  BY <1>1
<1>3. x \in Nat
  BY <1>1
<1> HIDE DEF x
<1>4. (768 * q + x) % 256 = x % 256
  BY <1>1, <1>3
<1>5. x % 256 = 112 <=> r = 7
  BY <1>1 DEF x
<1>6. r = 7 => (12 * n + 28) \div 256 = 3 * q
  <2>1. r = 7 => 12 * n + 28 = 256 * (3 * q) + 112
    BY <1>1
  <2>2. 3 * q \in Nat
    BY <1>1
  <2> DEFINE k == 3 * q
  <2> HIDE DEF k
  <2>3. k \in Nat => (256 * k + 112) \div 256 = k
    OBVIOUS
  <2> QED BY <2>1, <2>2, <2>3 DEF k
<1> QED BY <1>2, <1>4, <1>5, <1>6 DEF q, r

\* The size of a buffer takes two bytes.
LEMMA SecondByte ==
  ASSUME NEW x \in Nat, x <= 10000
  PROVE  (x \div 256) % 256 = x \div 256
<1> DEFINE k == x \div 256
<1>1. k \in Nat /\ 256 * k <= x
  OBVIOUS
<1> HIDE DEF k
<1>2. k < 256
  BY <1>1
<1>3. k % 256 = k
  BY <1>1, <1>2
<1> QED BY <1>3 DEF k

\* One window is smaller than a buffer.
LEMMA WindowFits ==
  ASSUME BuffersSuffice
  PROVE  12 * MaxTicksToTransmit + 30 <= BufferSize
<1> DEFINE N == NumPlayers
           w == 12 * MaxTicksToTransmit + 30
<1>1. N \in Nat \ {0} /\ w \in Nat /\ N * w + 32 <= BufferSize /\ BufferSize \in Nat
  BY FlatBufferAssumption DEF BuffersSuffice, BufferSize
<1> HIDE DEF N, w
<1>2. N - 1 \in Nat /\ N * w = (N - 1) * w + w
  BY <1>1
<1>3. (N - 1) * w \in Nat
  BY <1>1, <1>2
<1> DEFINE rest == (N - 1) * w
<1> HIDE DEF rest
<1>4. rest \in Nat /\ rest + w + 32 <= BufferSize
  BY <1>1, <1>2, <1>3 DEF rest
<1>5. w <= BufferSize
  BY <1>1, <1>4
<1> QED BY <1>5 DEF w

\* Such a reply is never taken for inputs, and starts with the byte of the message with a
\* player's number for the window lengths that the run finds, and for no others; the
\* numbers are 0, 3, 6, ...
THEOREM RootlessIgnored ==
  ASSUME BuffersSuffice
  PROVE  Spec => []UnbuiltRepliesIgnored
<1>1. MaxTicksToTransmit \in Nat
  BY FlatBufferAssumption
<1>2. ASSUME NEW n \in 0 .. MaxTicksToTransmit
      PROVE  /\ FirstByte(EncodedWithoutRoot(<<Window(0, n)>>)) # Char("s")
             /\ FirstByte(EncodedWithoutRoot(<<Window(0, n)>>)) = Char("p") <=> n % 64 = 7
             /\ n % 64 = 7 => NumberIn(EncodedWithoutRoot(<<Window(0, n)>>)) = 3 * (n \div 64)
             /\ ~VerifyBuffer(EncodedWithoutRoot(<<Window(0, n)>>))
  <2> DEFINE packet == Window(0, n)
             packets == <<packet>>
             e == EncodedWithoutRoot(packets)
             m == e.size
  <2>1. n \in Nat
    BY <1>1
  <2>2. IsPacket(packet, Int)
    <3>1. 0 \in Nat
      OBVIOUS
    <3> QED BY <2>1, <3>1, WindowsArePackets
  <2>3. Len(packet.inputs) = n /\ packet.tickNum = 0 + n - 1
    <3>1. packet = [tickNum |-> 0 + n - 1, inputs |-> [k \in 1 .. n |-> 0 + k - 1]]
      BY DEF Window
    <3> HIDE DEF packet
    <3> QED BY <2>1, <3>1
  <2> HIDE DEF packet
  <2>4. DOMAIN packets = 1 .. 1 /\ \A j \in 1 .. 1 : IsPacket(packets[j], Int)
    BY <2>2
  <2>5. m \in Nat /\ m <= 12 * n + 30 /\ (packet.tickNum # Unset => m = 12 * n + 28)
    BY <2>2, <2>3, RootlessSize
  <2> HIDE DEF packets
  <2>6. m % 2 = 0 /\ Read(e, 0) = m
    BY <2>4, RootlessIs
  <2>7. ~VerifyBuffer(e)
    BY <2>4, RootlessRejected
  <2> HIDE DEF e
  <2>8. FirstByte(e) = m % 256 /\ NumberIn(e) = (m \div 256) % 256
    BY <2>6 DEF FirstByte, NumberIn
  <2> HIDE DEF m
  <2>9. m % 256 # 115
    BY <2>5, <2>6
  <2>10. m % 256 = 112 <=> n % 64 = 7
    <3>1. CASE n = 0
      <4>1. m \in 0 .. 30
        BY <2>5, <3>1
      <4>2. m % 256 = m /\ n % 64 = 0
        BY <3>1, <4>1
      <4> QED BY <4>1, <4>2
    <3>2. CASE n # 0
      <4>1. m = 12 * n + 28
        BY <2>1, <2>3, <2>5, <3>2 DEF Unset
      <4> QED BY <2>1, <4>1, FirstBytes
    <3> QED BY <3>1, <3>2
  <2>11. FirstByte(e) # Char("s") /\ (FirstByte(e) = Char("p") <=> n % 64 = 7)
    BY <2>8, <2>9, <2>10, CharsAre
  <2>12. ASSUME n % 64 = 7
         PROVE  NumberIn(e) = 3 * (n \div 64)
    <3>1. n # 0
      BY <2>12
    <3>2. m = 12 * n + 28
      BY <2>1, <2>3, <2>5, <3>1 DEF Unset
    <3>3. m \div 256 = 3 * (n \div 64)
      BY <2>1, <2>12, <3>2, FirstBytes
    <3>4. 12 * n + 30 <= 10000
      <4>1. n <= MaxTicksToTransmit
        BY <1>1
      <4>2. 12 * MaxTicksToTransmit + 30 <= 10000
        BY WindowFits DEF BufferSize
      <4> DEFINE w == MaxTicksToTransmit
      <4>3. n <= w /\ w \in Nat /\ 12 * w + 30 <= 10000
        BY <1>1, <4>1, <4>2
      <4> HIDE DEF w
      <4> QED BY <2>1, <4>3
    <3>5. m \in Nat /\ m <= 10000
      BY <2>1, <3>2, <3>4
    <3>6. (m \div 256) % 256 = m \div 256
      BY <3>5, SecondByte
    <3> QED BY <2>8, <3>3, <3>6
  <2> QED BY <2>7, <2>11, <2>12 DEF e, packets, packet
<1>3. ~VerifyBuffer(EncodedWithoutRoot(<< >>))
  <2> DEFINE packets == << >>
  <2>1. DOMAIN packets = 1 .. 0 /\ \A j \in 1 .. 0 : IsPacket(packets[j], Int)
    OBVIOUS
  <2> HIDE DEF packets
  <2>2. ~VerifyBuffer(EncodedWithoutRoot(packets))
    BY <2>1, RootlessRejected
  <2> QED BY <2>2 DEF packets
<1>4. RootlessRepliesIgnored
  BY <1>2, <1>3 DEF RootlessRepliesIgnored
<1>5. UnbuiltRepliesIgnored
  BY <1>4 DEF UnbuiltRepliesIgnored
<1> QED BY <1>5, PTL
=============================================================================
