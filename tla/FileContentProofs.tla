------------------------- MODULE FileContentProofs -------------------------
(***************************************************************************)
(* What the output files leave behind, and what an input makes of it.      *)
(*                                                                         *)
(* StreamIInv is an inductive invariant of OutputStream for every number   *)
(* of chunks, every set of places where the stream may have been and any   *)
(* number of faults.  Beside what StreamInv and TablesStored say it has    *)
(* what makes them last: the places of previews, tables and chunks do not  *)
(* overlap, currentPosition is right or unknown, chunks lie before the     *)
(* place where the next one goes, and there is room for the rest of them.  *)
(*                                                                         *)
(* YcaInv is an inductive invariant of RgbaYca for every width of the      *)
(* filters, every even height and any number of reads that fail.  It says  *)
(* what the two windows hold between calls: in the writer's the lines      *)
(* converted last, with the first line repeated before them, in the        *)
(* reader's the lines around the one read last.                            *)
(*                                                                         *)
(* TiledInv is an inductive invariant of TiledOutput for all numbers of    *)
(* levels, tiles, tile buffers and calls.  As long as no write has failed, *)
(* the tiles in an ordered file are exactly those before nextTileToWrite,  *)
(* so that the rank of the next one is the length of the file, and every   *)
(* turn in progress has a tile buffer of its own, with its tile in it.     *)
(***************************************************************************)
EXTENDS OutputStream, RgbaYca, TiledOutput, FiniteSetTheorems, TLAPS

(* OutputStream: lists of cells.                                           *)

\* What IsAt and Written say and do, of any file f with m cells.
Holds(f, m, place, data) ==
    \A i \in DOMAIN data : place + i - 1 < m /\ f[place + i - 1] = data[i]

Over(f, place, data) ==
    [n \in DOMAIN f |-> IF n \in place .. place + Len(data) - 1 THEN data[n - place + 1] ELSE f[n]]

\* The data of k cells.
Sized(data, k) == Len(data) = k /\ DOMAIN data = 1 .. k

\* A list that is given by its cells has their number for its length.
LEMMA SizedList ==
    ASSUME NEW k \in Nat, NEW g, g = [i \in 1 .. k |-> g[i]]
    PROVE  Sized(g, k) /\ g \in Seq({g[i] : i \in 1 .. k})
  <1>1. g \in [1 .. k -> {g[i] : i \in 1 .. k}]
    OBVIOUS
  <1>2. g \in Seq({g[i] : i \in 1 .. k})
    BY <1>1
  <1>3. DOMAIN g = 1 .. k
    OBVIOUS
  <1>4. Len(g) = k
    BY <1>2, <1>3
  <1>5. QED
    BY <1>2, <1>3, <1>4 DEF Sized

\* The beginning of a list.
LEMMA SizedCut ==
    ASSUME NEW k \in Nat, NEW S, NEW g \in Seq(S), Len(g) = k, NEW j \in 0 .. k
    PROVE  Sized(Cut(g, j), j)
  BY DEF Sized, Cut

\* What was written is there.
LEMMA HoldsWritten ==
    ASSUME NEW f, NEW m \in Nat, DOMAIN f = 0 .. m - 1,
           NEW place \in Nat, NEW k \in Nat, NEW data, Sized(data, k), place + k <= m
    PROVE  Holds(Over(f, place, data), m, place, data)
  BY DEF Holds, Over, Sized

\* What lies before or after it is still there.
LEMMA HoldsKept ==
    ASSUME NEW f, NEW m \in Nat, DOMAIN f = 0 .. m - 1,
           NEW place \in Nat, NEW k \in Nat, NEW data, Sized(data, k),
           NEW other \in Nat, NEW j \in Nat, NEW old, Sized(old, j),
           other + j <= place \/ place + k <= other,
           Holds(f, m, other, old)
    PROVE  Holds(Over(f, place, data), m, other, old)
  BY DEF Holds, Over, Sized

\* The arithmetic of n chunks of the same size.
LEMMA Factor == ASSUME NEW a \in Nat, NEW b \in Nat, NEW c \in Nat, a <= b
                PROVE  a * c <= b * c /\ (a + 1) * c = a * c + c /\ a * c \in Nat
  OBVIOUS

-----------------------------------------------------------------------------
(* The layout of the file.                                                  *)

\* A file has one part or two.
LEMMA PartShape ==
    ASSUME kind \in [{1} -> Kind] \cup [{1, 2} -> Kind]
    PROVE  /\ (Part = {1} /\ ~Multi) \/ (Part = {1, 2} /\ Multi)
           /\ Cardinality(Part) \in Nat
  <1>1. IsFiniteSet({1}) /\ Cardinality({1}) = 1
    BY FS_Singleton
  <1>2. Cardinality({1} \cup {2}) = Cardinality({1}) + 1
    BY <1>1, FS_AddElement
  <1>3. {1} \cup {2} = {1, 2}
    OBVIOUS
  <1>4. QED
    BY <1>1, <1>2, <1>3 DEF Part, Multi

\* How many cells a chunk takes, by the kind of its part.
LEMMA CellsOf ==
    ASSUME kind \in [{1} -> Kind] \cup [{1, 2} -> Kind], NEW p \in Part
    PROVE  Cells(p) \in Nat /\ Cells(p) >= 3 /\ Advance(p) = Cells(p)
  <1>1. kind[p] \in Kind
    BY DEF Part
  <1>2. CASE kind[p] = "scanline"
    BY <1>2 DEF Cells, Advance, Layout, ScanLine, One, Two
  <1>3. CASE kind[p] = "tiled"
    BY <1>3 DEF Cells, Advance, Layout, Tiled, One, Two
  <1>4. CASE kind[p] = "deepscanline"
    BY <1>4 DEF Cells, Advance, Layout, DeepScanLine, One, Two
  <1>5. CASE kind[p] = "deeptiled"
    BY <1>5 DEF Cells, Advance, Layout, DeepTiled, One, Two
  <1>6. QED
    BY <1>1, <1>2, <1>3, <1>4, <1>5 DEF Kind

\* The cells that all chunks take.
Room == NumChunks * Cells(1) + IF Multi THEN NumChunks * Cells(2) ELSE 0

\* What is known of the layout: the previews and tables lie one after the other before
\* the data, and the file has room for all chunks.
LEMMA Geometry ==
    ASSUME kind \in [{1} -> Kind] \cup [{1, 2} -> Kind], start \in Nat
    PROVE  /\ TableSize \in Nat /\ TableSize > 0
           /\ DataAt \in Nat /\ DataAt > 0 /\ DataAt >= start /\ End \in Nat
           /\ Room \in Nat /\ End = DataAt + Room
           /\ \A p \in Part :
                 /\ PreviewAt(p) \in Nat /\ TableAt(p) \in Nat
                 /\ PreviewAt(p) >= start
                 /\ TableAt(p) + TableSize <= DataAt
                 /\ \A q \in Part :
                       /\ PreviewAt(p) + PreviewSize <= TableAt(q)
                       /\ p # q => \/ PreviewAt(p) + PreviewSize <= PreviewAt(q)
                                   \/ PreviewAt(q) + PreviewSize <= PreviewAt(p)
                       /\ p # q => \/ TableAt(p) + TableSize <= TableAt(q)
                                   \/ TableAt(q) + TableSize <= TableAt(p)
  <1>1. TableSize \in Nat /\ TableSize > 0
    BY StreamAssumption DEF TableSize, Two
  <1>2. \A p \in Part : NumChunks * Cells(p) \in Nat
    <2> SUFFICES ASSUME NEW p \in Part PROVE NumChunks * Cells(p) \in Nat
      OBVIOUS
    <2>1. NumChunks \in Nat /\ Cells(p) \in Nat
      BY StreamAssumption, CellsOf
    <2>2. QED
      BY <2>1
  <1>3. CASE Part = {1} /\ ~Multi
    <2>1. Cardinality(Part) = 1
      BY <1>3, FS_Singleton
    <2>2. PreviewAt(1) = start /\ TableAt(1) = start + 2
      BY <1>1, <2>1 DEF PreviewAt, TableAt, PreviewSize
    <2>3. DataAt = start + 2 + TableSize
      BY <1>1, <2>1, <2>2 DEF DataAt
    <2>4. Room \in Nat /\ End = DataAt + Room
      BY <1>1, <1>2, <1>3, <2>3 DEF Room, End
    <2>5. QED
      BY <1>1, <1>3, <2>2, <2>3, <2>4 DEF PreviewSize
  <1>4. CASE Part = {1, 2} /\ Multi
    <2>1. Cardinality(Part) = 2
      <3>1. IsFiniteSet({1}) /\ Cardinality({1}) = 1
        BY FS_Singleton
      <3>2. Cardinality({1} \cup {2}) = Cardinality({1}) + 1
        BY <3>1, FS_AddElement
      <3>3. {1} \cup {2} = {1, 2}
        OBVIOUS
      <3>4. QED
        BY <1>4, <3>1, <3>2, <3>3
    <2>2. /\ PreviewAt(1) = start /\ PreviewAt(2) = start + 2
          /\ TableAt(1) = start + 4 /\ TableAt(2) = start + 4 + TableSize
      BY <1>1, <2>1 DEF PreviewAt, TableAt, PreviewSize
    <2>3. DataAt = start + 4 + TableSize + TableSize
      BY <1>1, <2>1, <2>2 DEF DataAt
    <2>4. Room \in Nat /\ End = DataAt + Room
      BY <1>1, <1>2, <1>4, <2>3 DEF Room, End
    <2>5. QED
      BY <1>1, <1>4, <2>2, <2>3, <2>4 DEF PreviewSize
  <1>5. QED
    BY <1>3, <1>4, PartShape

\* The layout does not change.
Still == kind' = kind /\ start' = start

\* So that all that depends on it stays.
LEMMA SameLayout ==
    ASSUME Still
    PROVE  /\ Part' = Part /\ Multi' = Multi /\ DataAt' = DataAt /\ End' = End /\ Room' = Room
           /\ \A p : /\ Cells(p)' = Cells(p) /\ PreviewAt(p)' = PreviewAt(p)
                     /\ TableAt(p)' = TableAt(p)
           /\ \A p, c : ChunkOf(p, c)' = ChunkOf(p, c)
  <1> USE DEF Still
  <1>1. Part' = Part /\ Multi' = Multi
    BY DEF Part, Multi
  <1>2. \A p : Cells(p)' = Cells(p)
    BY <1>1 DEF Cells, Layout
  <1>3. \A p : PreviewAt(p)' = PreviewAt(p) /\ TableAt(p)' = TableAt(p)
    BY <1>1 DEF PreviewAt, TableAt
  <1>4. DataAt' = DataAt
    BY <1>1 DEF DataAt, TableAt
  <1>5. End' = End /\ Room' = Room
    BY <1>1, <1>2, <1>4 DEF End, Room
  <1>6. \A p, c : ChunkOf(p, c)' = ChunkOf(p, c)
    BY <1>2 DEF ChunkOf
  <1>7. QED
    BY <1>1, <1>2, <1>3, <1>4, <1>5, <1>6

\* The sizes of what is written.
LEMMA Sizes ==
    ASSUME kind \in [{1} -> Kind] \cup [{1, 2} -> Kind], NEW p \in Part
    PROVE  /\ \A v : Sized(PreviewOf(p, v), PreviewSize)
           /\ \A tab : Sized(TableOf(p, tab), TableSize)
           /\ \A c : Sized(ChunkOf(p, c), Cells(p))
  <1>1. PreviewSize \in Nat /\ TableSize \in Nat /\ Cells(p) \in Nat
    BY StreamAssumption, CellsOf DEF PreviewSize, TableSize, Two
  <1>2. ASSUME NEW v PROVE Sized(PreviewOf(p, v), PreviewSize)
    <2>1. PreviewOf(p, v) = [i \in 1 .. PreviewSize |-> PreviewOf(p, v)[i]]
      BY DEF PreviewOf
    <2>2. QED
      BY <1>1, <2>1, SizedList
  <1>3. ASSUME NEW tab PROVE Sized(TableOf(p, tab), TableSize)
    <2>1. TableOf(p, tab) = [i \in 1 .. TableSize |-> TableOf(p, tab)[i]]
      BY DEF TableOf
    <2>2. QED
      BY <1>1, <2>1, SizedList
  <1>4. ASSUME NEW c PROVE Sized(ChunkOf(p, c), Cells(p))
    <2>1. ChunkOf(p, c) = [i \in 1 .. Cells(p) |-> ChunkOf(p, c)[i]]
      BY DEF ChunkOf
    <2>2. QED
      BY <1>1, <2>1, SizedList
  <1>5. QED
    BY <1>2, <1>3, <1>4
-----------------------------------------------------------------------------
(* The inductive invariant.                                                 *)

\* The types of the variables, apart from the bounds on places.
Shape ==
    /\ kind \in [{1} -> Kind] \cup [{1, 2} -> Kind] /\ start \in Start
    /\ DOMAIN file = 0 .. End - 1
    /\ pos \in Nat /\ current \in Nat
    /\ offsets \in [Part -> [Chunk -> Nat]]
    /\ parts \in [Part -> {"open", "closed", "lost"}]
    /\ failed \subseteq Part \X Chunk /\ broken \in BOOLEAN /\ faults \in 0 .. MaxFaults

\* The rest is said of any file f, position po, currentPosition cu, tables off, states of
\* the parts st and failed chunks fl, so that it can be said of those after a step.
Open(st) == \A p \in Part : st[p] = "open"

\* The parts have n chunks, and these take so many cells.
Counted(off, n) == \A p \in Part, c \in Chunk : off[p][c] # 0 <=> c <= n[p]
Taken(n) == n[1] * Cells(1) + IF Multi THEN n[2] * Cells(2) ELSE 0

\* The stream is not further than the chunks there are need: nothing goes beyond the end.
Reach(po, off) ==
    \E n \in [Part -> 0 .. NumChunks] : Counted(off, n) /\ po <= DataAt + Taken(n)

Placed(po, cu, off, st) ==
    /\ po <= End /\ cu <= End
    /\ \A p \in Part, c \in Chunk : off[p][c] <= End
    /\ Open(st) => cu <= po /\ DataAt <= po /\ Reach(po, off)

\* currentPosition is where the stream is, and all chunks are in the data before it.
Exact(po, cu, off, st, fl) ==
    /\ Open(st) /\ cu # 0 => cu = po
    /\ \A p \in Part, c \in Chunk : off[p][c] # 0 =>
          /\ DataAt <= off[p][c]
          /\ Open(st) /\ <<p, c>> \notin fl => off[p][c] + Cells(p) <= po

\* What FileIntact says.
Intact(f, off, st, fl) == \A p \in Part :
    /\ \A c \in Chunk : off[p][c] # 0 /\ <<p, c>> \notin fl =>
           Holds(f, End, off[p][c], ChunkOf(p, c))
    /\ \E v \in {0, 1} : Holds(f, End, PreviewAt(p), PreviewOf(p, v))
    /\ st[p] = "open" => Holds(f, End, TableAt(p), TableOf(p, NoOffsets))

\* What TablesStored says.
Tables(f, off, st) ==
    \A p \in Part : st[p] = "closed" => Holds(f, End, TableAt(p), TableOf(p, off[p]))

Regular == Multi \/ start = 0

PlacesInv ==
    /\ ~broken => Placed(pos, current, offsets, parts)
    /\ ~broken /\ Regular =>
          Exact(pos, current, offsets, parts, failed) /\ Intact(file, offsets, parts, failed)
    /\ Tables(file, offsets, parts)

StreamIInv == Shape /\ PlacesInv

\* What is said of the new values in the layout of the state before a step is the
\* invariant after the step.
LEMMA PrimedPlaces ==
    ASSUME Still,
           ~broken' => Placed(pos', current', offsets', parts'),
           ~broken' /\ Regular => /\ Exact(pos', current', offsets', parts', failed')
                                 /\ Intact(file', offsets', parts', failed'),
           Tables(file', offsets', parts')
    PROVE  PlacesInv'
  <1> USE SameLayout
  <1>1. \A n : Taken(n)' = Taken(n)
    BY DEF Taken
  <1>2. \A off, n : Counted(off, n)' <=> Counted(off, n)
    BY DEF Counted
  <1>3. \A po, off : Reach(po, off)' <=> Reach(po, off)
    BY <1>1, <1>2 DEF Reach
  <1>4. \A st : Open(st)' <=> Open(st)
    BY DEF Open
  <1>5. ~broken' => Placed(pos, current, offsets, parts)'
    BY <1>3, <1>4 DEF Placed
  <1>6. Regular' <=> Regular
    BY DEF Regular, Still
  <1>7. ~broken' /\ Regular => Exact(pos, current, offsets, parts, failed)'
    BY <1>4 DEF Exact
  <1>8. \A p, v : PreviewOf(p, v)' = PreviewOf(p, v)
    BY DEF PreviewOf
  <1>9. ~broken' /\ Regular => Intact(file, offsets, parts, failed)'
    BY <1>8 DEF Intact, Holds
  <1>10. Tables(file, offsets, parts)'
    BY DEF Tables, Holds
  <1>11. QED
    BY <1>5, <1>6, <1>7, <1>9, <1>10 DEF PlacesInv

-----------------------------------------------------------------------------
(* A write disturbs nothing but the place where it goes.                    *)

\* Where the chunks are that can be relied on.
Before(off, fl, limit) ==
    \A p \in Part, c \in Chunk : off[p][c] # 0 /\ <<p, c>> \notin fl =>
        off[p][c] \in Nat /\ off[p][c] + Cells(p) <= limit

\* And that they are none of the headers.
InData(off) ==
    \A p \in Part, c \in Chunk : off[p][c] # 0 => off[p][c] \in Nat /\ DataAt <= off[p][c]

\* A write after the chunks leaves all of the file intact.
LEMMA DataWrite ==
    ASSUME Shape, NEW place \in Nat, DataAt <= place, NEW k \in Nat, NEW data, Sized(data, k),
           NEW off, NEW st, NEW fl, Intact(file, off, st, fl), Before(off, fl, place)
    PROVE  Intact(Over(file, place, data), off, st, fl)
  <1>1. End \in Nat /\ DOMAIN file = 0 .. End - 1 /\ PreviewSize \in Nat /\ TableSize \in Nat
    BY Geometry, StreamAssumption DEF Shape, PreviewSize
  <1> SUFFICES ASSUME NEW p \in Part
               PROVE  /\ \A c \in Chunk : off[p][c] # 0 /\ <<p, c>> \notin fl =>
                              Holds(Over(file, place, data), End, off[p][c], ChunkOf(p, c))
                      /\ \E v \in {0, 1} :
                              Holds(Over(file, place, data), End, PreviewAt(p), PreviewOf(p, v))
                      /\ st[p] = "open" =>
                              Holds(Over(file, place, data), End, TableAt(p), TableOf(p, NoOffsets))
    BY DEF Intact
  <1>2. ASSUME NEW c \in Chunk, off[p][c] # 0 /\ <<p, c>> \notin fl
        PROVE  Holds(Over(file, place, data), End, off[p][c], ChunkOf(p, c))
    <2>1. Holds(file, End, off[p][c], ChunkOf(p, c))
      BY <1>2 DEF Intact
    <2>2. off[p][c] \in Nat /\ off[p][c] + Cells(p) <= place
      BY <1>2 DEF Before
    <2>3. Cells(p) \in Nat /\ Sized(ChunkOf(p, c), Cells(p))
      BY CellsOf, Sizes DEF Shape
    <2>4. QED
      BY <1>1, <2>1, <2>2, <2>3, HoldsKept
  <1>3. /\ PreviewAt(p) \in Nat /\ TableAt(p) \in Nat
        /\ PreviewAt(p) + PreviewSize <= place /\ TableAt(p) + TableSize <= place
    <2>1. /\ PreviewAt(p) \in Nat /\ TableAt(p) \in Nat /\ DataAt \in Nat /\ TableSize \in Nat
          /\ PreviewAt(p) + PreviewSize <= TableAt(p) /\ TableAt(p) + TableSize <= DataAt
      BY Geometry, StreamAssumption DEF Shape
    <2>2. QED
      BY <1>1, <2>1
  <1>4. \E v \in {0, 1} : Holds(Over(file, place, data), End, PreviewAt(p), PreviewOf(p, v))
    <2>1. PICK v \in {0, 1} : Holds(file, End, PreviewAt(p), PreviewOf(p, v))
      BY DEF Intact
    <2>2. Sized(PreviewOf(p, v), PreviewSize)
      BY Sizes DEF Shape
    <2>3. Holds(Over(file, place, data), End, PreviewAt(p), PreviewOf(p, v))
      BY <1>1, <1>3, <2>1, <2>2, HoldsKept
    <2>4. QED
      BY <2>3
  <1>5. ASSUME st[p] = "open"
        PROVE  Holds(Over(file, place, data), End, TableAt(p), TableOf(p, NoOffsets))
    <2>1. Holds(file, End, TableAt(p), TableOf(p, NoOffsets))
      BY <1>5 DEF Intact
    <2>2. Sized(TableOf(p, NoOffsets), TableSize)
      BY Sizes DEF Shape
    <2>3. QED
      BY <1>1, <1>3, <2>1, <2>2, HoldsKept
  <1>6. QED
    BY <1>2, <1>4, <1>5

\* A new preview image leaves the file intact.
LEMMA PreviewWrite ==
    ASSUME Shape, NEW q \in Part, NEW off, NEW st, NEW fl,
           Intact(file, off, st, fl), InData(off)
    PROVE  Intact(Over(file, PreviewAt(q), PreviewOf(q, 1)), off, st, fl)
  <1> DEFINE new == Over(file, PreviewAt(q), PreviewOf(q, 1))
  <1>1. /\ End \in Nat /\ DOMAIN file = 0 .. End - 1 /\ DataAt \in Nat /\ DataAt <= End
        /\ PreviewSize \in Nat /\ TableSize \in Nat
        /\ PreviewAt(q) \in Nat /\ Sized(PreviewOf(q, 1), PreviewSize)
    BY Geometry, Sizes, StreamAssumption DEF Shape, PreviewSize
  <1> SUFFICES ASSUME NEW p \in Part
               PROVE  /\ \A c \in Chunk : off[p][c] # 0 /\ <<p, c>> \notin fl =>
                              Holds(new, End, off[p][c], ChunkOf(p, c))
                      /\ \E v \in {0, 1} : Holds(new, End, PreviewAt(p), PreviewOf(p, v))
                      /\ st[p] = "open" => Holds(new, End, TableAt(p), TableOf(p, NoOffsets))
    BY DEF Intact
  <1>2. /\ PreviewAt(p) \in Nat /\ TableAt(p) \in Nat
        /\ PreviewAt(q) + PreviewSize <= TableAt(p) /\ PreviewAt(q) + PreviewSize <= DataAt
        /\ p # q => \/ PreviewAt(p) + PreviewSize <= PreviewAt(q)
                    \/ PreviewAt(q) + PreviewSize <= PreviewAt(p)
    <2>1. start \in Nat
      BY StreamAssumption DEF Shape
    <2>2. TableAt(q) + TableSize <= DataAt /\ TableAt(q) \in Nat
      BY <2>1, Geometry DEF Shape
    <2>3. /\ PreviewAt(p) \in Nat /\ TableAt(p) \in Nat
          /\ PreviewAt(q) + PreviewSize <= TableAt(p) /\ PreviewAt(q) + PreviewSize <= TableAt(q)
      BY <2>1, Geometry DEF Shape
    <2>4. p # q => \/ PreviewAt(p) + PreviewSize <= PreviewAt(q)
                   \/ PreviewAt(q) + PreviewSize <= PreviewAt(p)
      BY <2>1, Geometry DEF Shape
    <2>5. QED
      BY <1>1, <2>2, <2>3, <2>4
  <1>3. ASSUME NEW c \in Chunk, off[p][c] # 0 /\ <<p, c>> \notin fl
        PROVE  Holds(new, End, off[p][c], ChunkOf(p, c))
    <2>1. Holds(file, End, off[p][c], ChunkOf(p, c))
      BY <1>3 DEF Intact
    <2>2. off[p][c] \in Nat /\ PreviewAt(q) + PreviewSize <= off[p][c]
      BY <1>1, <1>2, <1>3 DEF InData
    <2>3. Cells(p) \in Nat /\ Sized(ChunkOf(p, c), Cells(p))
      BY CellsOf, Sizes DEF Shape
    <2>4. QED
      BY <1>1, <2>1, <2>2, <2>3, HoldsKept
  <1>4. \E v \in {0, 1} : Holds(new, End, PreviewAt(p), PreviewOf(p, v))
    <2>1. CASE p = q
      <3>1. PreviewAt(q) + PreviewSize <= End
        BY <1>1, <1>2
      <3>2. Holds(new, End, PreviewAt(q), PreviewOf(q, 1))
        BY <1>1, <3>1, HoldsWritten
      <3>3. QED
        BY <2>1, <3>2
    <2>2. CASE p # q
      <3>1. PICK v \in {0, 1} : Holds(file, End, PreviewAt(p), PreviewOf(p, v))
        BY DEF Intact
      <3>2. Sized(PreviewOf(p, v), PreviewSize)
        BY Sizes DEF Shape
      <3>3. Holds(new, End, PreviewAt(p), PreviewOf(p, v))
        BY <1>1, <1>2, <2>2, <3>1, <3>2, HoldsKept
      <3>4. QED
        BY <3>3
    <2>3. QED
      BY <2>1, <2>2
  <1>5. ASSUME st[p] = "open"
        PROVE  Holds(new, End, TableAt(p), TableOf(p, NoOffsets))
    <2>1. Holds(file, End, TableAt(p), TableOf(p, NoOffsets))
      BY <1>5 DEF Intact
    <2>2. Sized(TableOf(p, NoOffsets), TableSize)
      BY Sizes DEF Shape
    <2>3. QED
      BY <1>1, <1>2, <2>1, <2>2, HoldsKept
  <1>6. QED
    BY <1>3, <1>4, <1>5

\* What a table, or the beginning of one, is written over.
LEMMA TableWrite ==
    ASSUME Shape, NEW q \in Part, NEW k \in Nat, k <= TableSize, NEW data, Sized(data, k),
           NEW off, NEW st, NEW fl, NEW x, x # "open", NEW S, st \in [Part -> S],
           Intact(file, off, st, fl), InData(off)
    PROVE  Intact(Over(file, TableAt(q), data), off, [st EXCEPT ![q] = x], fl)
  <1> DEFINE new == Over(file, TableAt(q), data)
  <1>1. /\ End \in Nat /\ DOMAIN file = 0 .. End - 1 /\ DataAt \in Nat
        /\ PreviewSize \in Nat /\ TableSize \in Nat
        /\ TableAt(q) \in Nat /\ TableAt(q) + TableSize <= DataAt
    BY Geometry, StreamAssumption DEF Shape, PreviewSize
  <1> SUFFICES ASSUME NEW p \in Part
               PROVE  /\ \A c \in Chunk : off[p][c] # 0 /\ <<p, c>> \notin fl =>
                              Holds(new, End, off[p][c], ChunkOf(p, c))
                      /\ \E v \in {0, 1} : Holds(new, End, PreviewAt(p), PreviewOf(p, v))
                      /\ [st EXCEPT ![q] = x][p] = "open" =>
                              Holds(new, End, TableAt(p), TableOf(p, NoOffsets))
    BY DEF Intact
  <1>2. /\ PreviewAt(p) \in Nat /\ PreviewAt(p) + PreviewSize <= TableAt(q)
        /\ TableAt(p) \in Nat
        /\ p # q => \/ TableAt(p) + TableSize <= TableAt(q)
                    \/ TableAt(q) + TableSize <= TableAt(p)
    BY Geometry, StreamAssumption DEF Shape
  <1>3. ASSUME NEW c \in Chunk, off[p][c] # 0 /\ <<p, c>> \notin fl
        PROVE  Holds(new, End, off[p][c], ChunkOf(p, c))
    <2>1. Holds(file, End, off[p][c], ChunkOf(p, c))
      BY <1>3 DEF Intact
    <2>2. off[p][c] \in Nat /\ DataAt <= off[p][c]
      BY <1>3 DEF InData
    <2>3. Cells(p) \in Nat /\ Sized(ChunkOf(p, c), Cells(p))
      BY CellsOf, Sizes DEF Shape
    <2>4. TableAt(q) + k <= off[p][c]
      BY <1>1, <2>2
    <2>5. QED
      BY <1>1, <2>1, <2>2, <2>3, <2>4, HoldsKept
  <1>4. \E v \in {0, 1} : Holds(new, End, PreviewAt(p), PreviewOf(p, v))
    <2>1. PICK v \in {0, 1} : Holds(file, End, PreviewAt(p), PreviewOf(p, v))
      BY DEF Intact
    <2>2. Sized(PreviewOf(p, v), PreviewSize)
      BY Sizes DEF Shape
    <2>3. Holds(new, End, PreviewAt(p), PreviewOf(p, v))
      BY <1>1, <1>2, <2>1, <2>2, HoldsKept
    <2>4. QED
      BY <2>3
  <1>5. ASSUME [st EXCEPT ![q] = x][p] = "open"
        PROVE  Holds(new, End, TableAt(p), TableOf(p, NoOffsets))
    <2>1. p # q /\ st[p] = "open"
      BY <1>5
    <2>2. Holds(file, End, TableAt(p), TableOf(p, NoOffsets))
      BY <2>1 DEF Intact
    <2>3. Sized(TableOf(p, NoOffsets), TableSize)
      BY Sizes DEF Shape
    <2>4. TableAt(p) + TableSize <= TableAt(q) \/ TableAt(q) + k <= TableAt(p)
      BY <1>1, <1>2, <2>1
    <2>5. QED
      BY <1>1, <1>2, <2>2, <2>3, <2>4, HoldsKept
  <1>6. QED
    BY <1>3, <1>4, <1>5

-----------------------------------------------------------------------------
(* The room there is, and the beginning.                                    *)

\* The file is large enough for the chunks of all parts.
LEMMA TakenFits ==
    ASSUME Shape, NEW n \in [Part -> 0 .. NumChunks]
    PROVE  Taken(n) \in Nat /\ Taken(n) <= Room
  <1>1. NumChunks \in Nat
    BY StreamAssumption
  <1>2. \A p \in Part : n[p] * Cells(p) \in Nat /\ n[p] * Cells(p) <= NumChunks * Cells(p)
    <2> SUFFICES ASSUME NEW p \in Part
                 PROVE  n[p] * Cells(p) \in Nat /\ n[p] * Cells(p) <= NumChunks * Cells(p)
      OBVIOUS
    <2>1. Cells(p) \in Nat
      BY CellsOf DEF Shape
    <2>2. n[p] \in Nat /\ n[p] <= NumChunks
      BY <1>1
    <2>3. QED
      BY <1>1, <2>1, <2>2, Factor
  <1>3. (Part = {1} /\ ~Multi) \/ (Part = {1, 2} /\ Multi)
    BY PartShape DEF Shape
  <1>4. \A p \in Part : NumChunks * Cells(p) \in Nat
    <2> SUFFICES ASSUME NEW p \in Part PROVE NumChunks * Cells(p) \in Nat
      OBVIOUS
    <2>1. Cells(p) \in Nat
      BY CellsOf DEF Shape
    <2>2. QED
      BY <1>1, <2>1
  <1>5. QED
    BY <1>2, <1>3, <1>4 DEF Taken, Room

\* One more chunk, or a part of it: there is room.
LEMMA ReachMore ==
    ASSUME Shape, NEW off \in [Part -> [Chunk -> Nat]], NEW po \in Nat, Reach(po, off),
           NEW p \in Part, NEW c \in Chunk,
           off[p][c] = 0, \A d \in 1 .. c - 1 : off[p][d] # 0,
           NEW x \in Nat, x # 0, NEW k \in Nat, k <= Cells(p)
    PROVE  Reach(po + k, [off EXCEPT ![p][c] = x]) /\ po + k <= End
  <1>1. PICK n \in [Part -> 0 .. NumChunks] : Counted(off, n) /\ po <= DataAt + Taken(n)
    BY DEF Reach
  <1>2. NumChunks \in Nat /\ n[p] \in 0 .. NumChunks /\ c \in 1 .. NumChunks
    BY StreamAssumption DEF Chunk
  <1>3. n[p] = c - 1
    <2>1. n[p] < c
      BY <1>1, <1>2 DEF Counted
    <2>2. ASSUME n[p] < c - 1 PROVE FALSE
      <3>1. n[p] + 1 \in Chunk /\ n[p] + 1 \in 1 .. c - 1
        BY <1>2, <2>2 DEF Chunk
      <3>2. off[p][n[p] + 1] # 0
        BY <3>1
      <3>3. n[p] + 1 <= n[p]
        BY <1>1, <3>1, <3>2 DEF Counted
      <3>4. QED
        BY <1>2, <3>3
    <2>3. QED
      BY <1>2, <2>1, <2>2
  <1> DEFINE m == [n EXCEPT ![p] = c]
  <1>4. m \in [Part -> 0 .. NumChunks]
    BY <1>2
  <1>5. Counted([off EXCEPT ![p][c] = x], m)
    <2> SUFFICES ASSUME NEW q \in Part, NEW d \in Chunk
                 PROVE  [off EXCEPT ![p][c] = x][q][d] # 0 <=> d <= m[q]
      BY DEF Counted
    <2>1. off[q][d] # 0 <=> d <= n[q]
      BY <1>1 DEF Counted
    <2>2. d \in Nat
      BY DEF Chunk
    <2>3. QED
      BY <1>2, <1>3, <2>1, <2>2
  <1>6. Taken(m) = Taken(n) + Cells(p)
    <2>1. c * Cells(p) = n[p] * Cells(p) + Cells(p) /\ Cells(p) \in Nat /\ n[p] * Cells(p) \in Nat
      <3>1. Cells(p) \in Nat /\ n[p] \in Nat /\ c = n[p] + 1
        BY <1>2, <1>3, CellsOf DEF Shape
      <3>2. QED
        BY <3>1, Factor
    <2>2. \A q \in Part : n[q] * Cells(q) \in Nat
      <3> SUFFICES ASSUME NEW q \in Part PROVE n[q] * Cells(q) \in Nat
        OBVIOUS
      <3>1. Cells(q) \in Nat /\ n[q] \in Nat
        BY <1>2, CellsOf DEF Shape
      <3>2. QED
        BY <3>1
    <2>3. m[p] = c /\ \A q \in Part : q # p => m[q] = n[q]
      OBVIOUS
    <2>4. (Part = {1} /\ ~Multi) \/ (Part = {1, 2} /\ Multi)
      BY PartShape DEF Shape
    <2> HIDE DEF m
    <2>5. CASE Part = {1} /\ ~Multi
      <3>1. p = 1
        BY <2>5
      <3>2. QED
        BY <2>1, <2>2, <2>3, <2>5, <3>1 DEF Taken
    <2>6. CASE Part = {1, 2} /\ Multi /\ p = 1
      BY <2>1, <2>2, <2>3, <2>6 DEF Taken
    <2>7. CASE Part = {1, 2} /\ Multi /\ p = 2
      BY <2>1, <2>2, <2>3, <2>7 DEF Taken
    <2>8. QED
      BY <2>4, <2>5, <2>6, <2>7
  <1>7. /\ DataAt \in Nat /\ Room \in Nat /\ End = DataAt + Room /\ Cells(p) \in Nat
        /\ Taken(n) \in Nat /\ Taken(m) \in Nat /\ Taken(m) <= Room
    <2> HIDE DEF m
    <2>1. DataAt \in Nat /\ Room \in Nat /\ End = DataAt + Room
      BY Geometry, StreamAssumption DEF Shape
    <2>2. Cells(p) \in Nat
      BY CellsOf DEF Shape
    <2>3. QED
      BY <1>4, <2>1, <2>2, TakenFits
  <1> HIDE DEF m
  <1>8. po + k <= DataAt + Taken(m)
    BY <1>1, <1>6, <1>7
  <1>9. po + k <= End
    BY <1>7, <1>8
  <1>10. QED
    BY <1>4, <1>5, <1>8, <1>9 DEF Reach

\* The headers and empty tables are written, each at its place.
LEMMA StreamStarts == Init => StreamIInv
  <1> SUFFICES ASSUME Init PROVE StreamIInv
    OBVIOUS
  <1>1. Shape
    <2>1. DataAt \in Nat
      BY Geometry, StreamAssumption DEF Init
    <2>2. current \in Nat
      BY StreamAssumption DEF Init
    <2>3. offsets \in [Part -> [Chunk -> Nat]]
      BY DEF Init, NoOffsets
    <2>4. DOMAIN file = 0 .. End - 1
      BY DEF Init
    <2>5. pos \in Nat /\ parts \in [Part -> {"open", "closed", "lost"}]
      BY <2>1 DEF Init
    <2>6. /\ kind \in [{1} -> Kind] \cup [{1, 2} -> Kind] /\ start \in Start
          /\ failed \subseteq Part \X Chunk /\ broken \in BOOLEAN
      BY DEF Init
    <2>7. faults \in 0 .. MaxFaults
      BY StreamAssumption DEF Init
    <2>8. QED
      BY <2>2, <2>3, <2>4, <2>5, <2>6, <2>7 DEF Shape
  <1>2. /\ DataAt \in Nat /\ DataAt > 0 /\ start \in Nat /\ start <= DataAt
        /\ Room \in Nat /\ End \in Nat /\ End = DataAt + Room
    BY <1>1, Geometry, StreamAssumption DEF Shape
  <1>3. /\ pos = DataAt /\ current <= pos /\ current \in Nat
        /\ Regular => current = 0
        /\ \A p \in Part, c \in Chunk : offsets[p][c] = 0
        /\ \A p \in Part : parts[p] = "open"
    BY <1>2 DEF Init, Regular, NoOffsets
  <1>4. Reach(pos, offsets)
    <2> DEFINE n == [p \in Part |-> 0]
    <2>1. n \in [Part -> 0 .. NumChunks]
      BY StreamAssumption
    <2>2. Counted(offsets, n)
      BY <1>3 DEF Counted, Chunk
    <2>3. Taken(n) \in Nat
      BY <1>1, <2>1, TakenFits
    <2>4. pos <= DataAt + Taken(n)
      BY <1>2, <1>3, <2>3
    <2>5. QED
      BY <2>1, <2>2, <2>4 DEF Reach
  <1>5. Placed(pos, current, offsets, parts)
    BY <1>2, <1>3, <1>4 DEF Placed
  <1>6. Regular => Exact(pos, current, offsets, parts, failed)
    BY <1>3 DEF Exact
  <1> DEFINE Here(q, n) == \/ n \in PreviewAt(q) .. PreviewAt(q) + PreviewSize - 1
                           \/ n \in TableAt(q) .. TableAt(q) + TableSize - 1
  <1>7. /\ PreviewSize \in Nat /\ TableSize \in Nat
        /\ \A p \in Part : /\ PreviewAt(p) \in Nat /\ TableAt(p) \in Nat
                           /\ PreviewAt(p) >= start /\ TableAt(p) >= start
                           /\ TableAt(p) + TableSize <= DataAt
                           /\ PreviewAt(p) + PreviewSize <= DataAt
    <2>1. TableSize \in Nat /\ PreviewSize \in Nat
      BY Geometry, StreamAssumption DEF Init, PreviewSize
    <2> SUFFICES ASSUME NEW p \in Part
                 PROVE  /\ PreviewAt(p) \in Nat /\ TableAt(p) \in Nat
                        /\ PreviewAt(p) >= start /\ TableAt(p) >= start
                        /\ TableAt(p) + TableSize <= DataAt
                        /\ PreviewAt(p) + PreviewSize <= DataAt
      BY <2>1
    <2>2. /\ PreviewAt(p) \in Nat /\ TableAt(p) \in Nat
          /\ PreviewAt(p) >= start /\ PreviewAt(p) + PreviewSize <= TableAt(p)
          /\ TableAt(p) + TableSize <= DataAt
      BY <1>2, Geometry DEF Init
    <2>3. QED
      BY <1>2, <2>1, <2>2
  <1>8. ASSUME NEW p \in Part, NEW n \in Nat, Here(p, n)
        PROVE  /\ n \in 0 .. End - 1 /\ ~(n < start \/ n >= DataAt)
               /\ (CHOOSE q \in Part : Here(q, n)) = p
    <2>1. n >= start /\ n < DataAt
      BY <1>2, <1>7, <1>8
    <2>2. n \in 0 .. End - 1
      BY <1>2, <2>1
    <2>3. ASSUME NEW q \in Part, Here(q, n) PROVE q = p
      <3>1. /\ PreviewAt(p) + PreviewSize <= TableAt(q)
            /\ PreviewAt(q) + PreviewSize <= TableAt(p)
            /\ p # q => \/ PreviewAt(p) + PreviewSize <= PreviewAt(q)
                        \/ PreviewAt(q) + PreviewSize <= PreviewAt(p)
            /\ p # q => \/ TableAt(p) + TableSize <= TableAt(q)
                        \/ TableAt(q) + TableSize <= TableAt(p)
        BY <1>2, Geometry DEF Init
      <3>2. QED
        BY <1>7, <1>8, <2>3, <3>1
    <2> HIDE DEF Here
    <2>4. QED
      BY <1>2, <1>8, <2>1, <2>2, <2>3
  <1>9. ASSUME NEW n \in 0 .. End - 1
        PROVE  file[n] =
                   IF n < start \/ n >= DataAt THEN Nothing
                   ELSE LET p == CHOOSE q \in Part : Here(q, n)
                        IN IF n < TableAt(1) THEN PreviewOf(p, 0)[n - PreviewAt(p) + 1]
                           ELSE TableOf(p, NoOffsets)[n - TableAt(p) + 1]
    BY DEF Init
  <1>10. /\ 1 \in Part
         /\ \A p \in Part : PreviewAt(p) + PreviewSize <= TableAt(1) /\ TableAt(1) <= TableAt(p)
    <2>1. (Part = {1} /\ ~Multi) \/ (Part = {1, 2} /\ Multi)
      BY <1>1, PartShape DEF Shape
    <2>2. \A p \in Part : PreviewAt(p) + PreviewSize <= TableAt(1)
      BY <1>2, <2>1, Geometry DEF Init
    <2>3. TableAt(2) = TableAt(1) + TableSize
      <3>1. Cardinality(Part) \in Nat
        BY <1>1, PartShape DEF Shape
      <3>2. QED
        BY <1>2, <1>7, <3>1 DEF TableAt, PreviewSize
    <2>4. QED
      BY <1>7, <2>1, <2>2, <2>3
  <1>11. Intact(file, offsets, parts, failed)
    <2> SUFFICES ASSUME NEW p \in Part
                 PROVE  /\ Holds(file, End, PreviewAt(p), PreviewOf(p, 0))
                        /\ Holds(file, End, TableAt(p), TableOf(p, NoOffsets))
      BY <1>3 DEF Intact
    <2>1. /\ DOMAIN PreviewOf(p, 0) = 1 .. PreviewSize
          /\ DOMAIN TableOf(p, NoOffsets) = 1 .. TableSize
      BY <1>1, Sizes DEF Shape, Sized
    <2>2. ASSUME NEW i \in 1 .. PreviewSize
          PROVE  /\ PreviewAt(p) + i - 1 < End
                 /\ file[PreviewAt(p) + i - 1] = PreviewOf(p, 0)[i]
      <3> DEFINE n == PreviewAt(p) + i - 1
      <3>1. n \in Nat /\ Here(p, n) /\ n < TableAt(1) /\ n - PreviewAt(p) + 1 = i
        BY <1>7, <1>10
      <3>2. /\ n \in 0 .. End - 1 /\ ~(n < start \/ n >= DataAt)
            /\ (CHOOSE q \in Part : Here(q, n)) = p
        <4> HIDE DEF n, Here
        <4>1. QED
          BY <3>1, <1>8
      <3> HIDE DEF n, Here
      <3>3. file[n] = PreviewOf(p, 0)[n - PreviewAt(p) + 1]
        BY <1>9, <3>1, <3>2
      <3>4. file[n] = PreviewOf(p, 0)[i] /\ n < End
        BY <1>2, <3>1, <3>2, <3>3
      <3>5. QED
        BY <3>4 DEF n
    <2>3. ASSUME NEW i \in 1 .. TableSize
          PROVE  /\ TableAt(p) + i - 1 < End
                 /\ file[TableAt(p) + i - 1] = TableOf(p, NoOffsets)[i]
      <3> DEFINE n == TableAt(p) + i - 1
      <3>1. n \in Nat /\ Here(p, n) /\ ~(n < TableAt(1)) /\ n - TableAt(p) + 1 = i
        BY <1>7, <1>10
      <3>2. /\ n \in 0 .. End - 1 /\ ~(n < start \/ n >= DataAt)
            /\ (CHOOSE q \in Part : Here(q, n)) = p
        <4> HIDE DEF n, Here
        <4>1. QED
          BY <3>1, <1>8
      <3> HIDE DEF n, Here
      <3>3. file[n] = TableOf(p, NoOffsets)[n - TableAt(p) + 1]
        BY <1>9, <3>1, <3>2
      <3>4. file[n] = TableOf(p, NoOffsets)[i] /\ n < End
        BY <1>2, <3>1, <3>2, <3>3
      <3>5. QED
        BY <3>4 DEF n
    <2>4. QED
      BY <2>1, <2>2, <2>3 DEF Holds
  <1>12. Tables(file, offsets, parts)
    BY <1>3 DEF Tables
  <1>13. PlacesInv
    BY <1>5, <1>6, <1>11, <1>12 DEF PlacesInv
  <1>14. QED
    BY <1>1, <1>13 DEF StreamIInv

\* The tables of the parts that were closed before are still there.
LEMMA TablesKept ==
    ASSUME Shape, NEW q \in Part, NEW k \in Nat, k <= TableSize, NEW data, Sized(data, k),
           NEW off, NEW S, NEW st \in [Part -> S], NEW x, Tables(file, off, st),
           x = "closed" => data = TableOf(q, off[q]) /\ k = TableSize
    PROVE  Tables(Over(file, TableAt(q), data), off, [st EXCEPT ![q] = x])
  <1>1. /\ End \in Nat /\ DOMAIN file = 0 .. End - 1 /\ DataAt \in Nat /\ TableSize \in Nat
        /\ TableAt(q) \in Nat /\ TableAt(q) + TableSize <= DataAt /\ DataAt <= End
    BY Geometry, StreamAssumption DEF Shape
  <1> SUFFICES ASSUME NEW p \in Part, [st EXCEPT ![q] = x][p] = "closed"
               PROVE  Holds(Over(file, TableAt(q), data), End, TableAt(p), TableOf(p, off[p]))
    BY DEF Tables
  <1>2. CASE p = q
    <2>1. x = "closed"
      BY <1>2
    <2>2. TableAt(q) + k <= End
      BY <1>1
    <2>3. Holds(Over(file, TableAt(q), data), End, TableAt(q), data)
      BY <1>1, <2>2, HoldsWritten
    <2>4. QED
      BY <1>2, <2>1, <2>3
  <1>3. CASE p # q
    <2>1. Holds(file, End, TableAt(p), TableOf(p, off[p]))
      BY <1>3 DEF Tables
    <2>2. Sized(TableOf(p, off[p]), TableSize)
      BY Sizes DEF Shape
    <2>3. /\ TableAt(p) \in Nat
          /\ TableAt(p) + TableSize <= TableAt(q) \/ TableAt(q) + TableSize <= TableAt(p)
      BY <1>3, Geometry, StreamAssumption DEF Shape
    <2>4. TableAt(p) + TableSize <= TableAt(q) \/ TableAt(q) + k <= TableAt(p)
      BY <1>1, <2>3
    <2>5. QED
      BY <1>1, <2>1, <2>2, <2>3, <2>4, HoldsKept
  <1>4. QED
    BY <1>2, <1>3

\* The table of a part gets an entry: its chunk is there, or its write failed.
LEMMA NewChunk ==
    ASSUME Shape, NEW f, NEW off \in [Part -> [Chunk -> Nat]], NEW st, NEW fl, NEW fl2,
           NEW p \in Part, NEW c \in Chunk, NEW x,
           Intact(f, off, st, fl), fl \subseteq fl2,
           <<p, c>> \in fl2 \/ Holds(f, End, x, ChunkOf(p, c))
    PROVE  Intact(f, [off EXCEPT ![p][c] = x], st, fl2)
  <1> SUFFICES ASSUME NEW q \in Part
               PROVE  \A d \in Chunk :
                          [off EXCEPT ![p][c] = x][q][d] # 0 /\ <<q, d>> \notin fl2 =>
                              Holds(f, End, [off EXCEPT ![p][c] = x][q][d], ChunkOf(q, d))
    BY DEF Intact
  <1> SUFFICES ASSUME NEW d \in Chunk,
                      [off EXCEPT ![p][c] = x][q][d] # 0, <<q, d>> \notin fl2
               PROVE  Holds(f, End, [off EXCEPT ![p][c] = x][q][d], ChunkOf(q, d))
    OBVIOUS
  <1>1. CASE p = q /\ c = d
    <2>1. [off EXCEPT ![p][c] = x][q][d] = x
      BY <1>1
    <2>2. QED
      BY <1>1, <2>1
  <1>2. CASE p # q \/ c # d
    <2>1. [off EXCEPT ![p][c] = x][q][d] = off[q][d]
      BY <1>2
    <2>2. off[q][d] # 0 /\ <<q, d>> \notin fl
      BY <2>1
    <2>3. Holds(f, End, off[q][d], ChunkOf(q, d))
      BY <2>2 DEF Intact
    <2>4. QED
      BY <2>1, <2>3
  <1>3. QED
    BY <1>1, <1>2

-----------------------------------------------------------------------------
(* The steps.                                                               *)

\* What is known where a chunk goes.
LEMMA PlaceKnown ==
    ASSUME Shape, PlacesInv, AllOpen
    PROVE  /\ Place \in Nat /\ Open(parts)
           /\ \A off : Tables(file, off, parts)
           /\ ~broken => /\ Place # 0 /\ Place <= pos /\ pos <= End /\ current <= pos
                         /\ DataAt <= pos /\ DataAt \in Nat /\ Reach(pos, offsets)
           /\ ~broken /\ Regular => /\ Place = pos
                                    /\ Before(offsets, failed, pos) /\ InData(offsets)
                                    /\ Intact(file, offsets, parts, failed)
  <1>1. Open(parts) /\ \A p \in Part : parts[p] # "closed"
    BY DEF AllOpen, Open
  <1>2. pos \in Nat /\ current \in Nat /\ offsets \in [Part -> [Chunk -> Nat]]
    BY DEF Shape
  <1>3. DataAt \in Nat /\ DataAt > 0
    BY Geometry, StreamAssumption DEF Shape
  <1>4. ASSUME ~broken
        PROVE  current <= pos /\ pos <= End /\ DataAt <= pos /\ Reach(pos, offsets)
    BY <1>1, <1>4 DEF PlacesInv, Placed
  <1>5. ~broken => Place # 0 /\ Place <= pos
    BY <1>2, <1>3, <1>4 DEF Place
  <1>6. ASSUME ~broken, Regular
        PROVE  /\ Place = pos /\ Before(offsets, failed, pos) /\ InData(offsets)
               /\ Intact(file, offsets, parts, failed)
    <2>1. Exact(pos, current, offsets, parts, failed) /\ Intact(file, offsets, parts, failed)
      BY <1>6 DEF PlacesInv
    <2>2. Place = pos
      BY <1>1, <2>1 DEF Exact, Place
    <2>3. Before(offsets, failed, pos) /\ InData(offsets)
      BY <1>1, <1>2, <2>1 DEF Exact, Before, InData
    <2>4. QED
      BY <2>1, <2>2, <2>3
  <1>7. Place \in Nat
    BY <1>2 DEF Place
  <1>8. \A off : Tables(file, off, parts)
    BY <1>1 DEF Tables
  <1>9. QED
    BY <1>1, <1>3, <1>4, <1>5, <1>6, <1>7, <1>8

\* While all parts are open, no table has to be there.
LEMMA OpenTables ==
    ASSUME AllOpen, NEW f, NEW off PROVE Tables(f, off, parts)
  BY DEF AllOpen, Tables

\* The types after a step that leaves the layout alone.
LEMMA ShapeAgain ==
    ASSUME Shape, Still, DOMAIN file' = DOMAIN file, pos' \in Nat, current' \in Nat,
           offsets' \in [Part -> [Chunk -> Nat]],
           parts' \in [Part -> {"open", "closed", "lost"}],
           failed' \subseteq Part \X Chunk, broken' \in BOOLEAN, faults' \in 0 .. MaxFaults
    PROVE  Shape'
  <1>1. kind' \in [{1} -> Kind] \cup [{1, 2} -> Kind] /\ start' \in Start
    BY DEF Shape, Still
  <1>2. Part' = Part /\ End' = End
    BY SameLayout
  <1>3. DOMAIN file' = 0 .. End' - 1
    BY <1>2 DEF Shape
  <1>4. QED
    BY <1>1, <1>2, <1>3 DEF Shape

\* The k cells of data that are written for a chunk, all of them or not.
ChunkGoes(p, c, k, data) ==
    /\ k \in 0 .. Cells(p) /\ Sized(data, k)
    /\ file' = Over(file, pos, data) /\ pos' = pos + k
    /\ failed \subseteq failed' /\ failed' \subseteq Part \X Chunk
    /\ \/ data = ChunkOf(p, c) /\ k = Cells(p) /\ current' = Place + k /\ failed' = failed
       \/ <<p, c>> \in failed' /\ current' = 0
    /\ faults' \in 0 .. MaxFaults

\* A chunk, or a part of one, is written where the stream is.
LEMMA ChunkKeepsInv ==
    ASSUME StreamIInv, NEW p \in Part, NEW c \in Chunk, WriteChunk(p, c) \/ WriteFails(p, c)
    PROVE  StreamIInv'
  <1>1. Shape /\ PlacesInv
    BY DEF StreamIInv
  <1>2. AllOpen /\ NextOne(p, c)
    BY DEF WriteChunk, WriteFails
  <1>3. /\ Still /\ parts' = parts /\ broken' = broken
        /\ offsets' = [offsets EXCEPT ![p][c] = Place]
    BY DEF WriteChunk, WriteFails, Still
  <1>4. /\ Cells(p) \in Nat /\ Cells(p) >= 3 /\ Advance(p) = Cells(p)
        /\ Sized(ChunkOf(p, c), Cells(p))
    BY <1>1, CellsOf, Sizes DEF Shape
  <1>5. PICK k, data : ChunkGoes(p, c, k, data)
    <2>1. CASE WriteChunk(p, c)
      <3>1. file' = Over(file, pos, ChunkOf(p, c))
        BY <2>1 DEF WriteChunk, Written, Over
      <3>2. /\ pos' = pos + Cells(p) /\ current' = Place + Advance(p) /\ failed' = failed
            /\ faults' = faults
        BY <2>1 DEF WriteChunk
      <3>3. failed \subseteq Part \X Chunk /\ faults \in 0 .. MaxFaults
        BY <1>1 DEF Shape
      <3>4. Cells(p) \in 0 .. Cells(p)
        BY <1>4
      <3>5. ChunkGoes(p, c, Cells(p), ChunkOf(p, c))
        BY <1>4, <3>1, <3>2, <3>3, <3>4 DEF ChunkGoes
      <3>6. QED
        BY <3>5
    <2>2. CASE WriteFails(p, c)
      <3>1. PICK k \in {0, One, Cells(p) - 1} :
                file' = Written(pos, Cut(ChunkOf(p, c), k)) /\ pos' = pos + k
        BY <2>2 DEF WriteFails
      <3>2. k \in 0 .. Cells(p)
        BY <1>4 DEF One
      <3>3. Sized(Cut(ChunkOf(p, c), k), k)
        <4>1. ChunkOf(p, c) = [i \in 1 .. Cells(p) |-> ChunkOf(p, c)[i]]
          BY DEF ChunkOf
        <4>2. ChunkOf(p, c) \in Seq({ChunkOf(p, c)[i] : i \in 1 .. Cells(p)})
          BY <1>4, <4>1, SizedList
        <4>3. Len(ChunkOf(p, c)) = Cells(p)
          BY <1>4 DEF Sized
        <4>4. QED
          BY <1>4, <3>2, <4>2, <4>3, SizedCut
      <3>4. file' = Over(file, pos, Cut(ChunkOf(p, c), k))
        BY <3>1 DEF Written, Over
      <3>5. failed' = failed \cup {<<p, c>>} /\ current' = 0
        BY <2>2 DEF WriteFails
      <3>6. failed' \subseteq Part \X Chunk
        BY <1>1, <3>5 DEF Shape
      <3>7. faults' \in 0 .. MaxFaults
        BY <1>1, <2>2, StreamAssumption DEF WriteFails, Shape
      <3>8. ChunkGoes(p, c, k, Cut(ChunkOf(p, c), k))
        BY <3>1, <3>2, <3>3, <3>4, <3>5, <3>6, <3>7 DEF ChunkGoes
      <3>9. QED
        BY <3>8
    <2>3. QED
      BY <2>1, <2>2
  <1>6. /\ Place \in Nat /\ pos \in Nat /\ current' \in Nat /\ k \in Nat /\ k <= Cells(p)
        /\ offsets \in [Part -> [Chunk -> Nat]] /\ offsets' \in [Part -> [Chunk -> Nat]]
    BY <1>1, <1>2, <1>3, <1>4, <1>5, PlaceKnown DEF ChunkGoes, Shape
  <1>7. Shape'
    <2>1. DOMAIN file' = DOMAIN file
      BY <1>5 DEF ChunkGoes, Over
    <2>2. parts' \in [Part -> {"open", "closed", "lost"}] /\ broken' \in BOOLEAN
      BY <1>1, <1>3 DEF Shape
    <2>3. pos' \in Nat
      BY <1>5, <1>6 DEF ChunkGoes
    <2>4. QED
      BY <1>1, <1>3, <1>5, <1>6, <2>1, <2>2, <2>3, ShapeAgain DEF ChunkGoes
  <1>8. Open(parts') /\ Tables(file', offsets', parts')
    BY <1>1, <1>2, <1>3, PlaceKnown, OpenTables
  <1>9. ASSUME ~broken
        PROVE  /\ Placed(pos', current', offsets', parts')
               /\ pos' <= End
               /\ Regular => /\ Exact(pos', current', offsets', parts', failed')
                             /\ Intact(file', offsets', parts', failed')
    <2>1. /\ Place # 0 /\ Place <= pos /\ pos <= End /\ DataAt <= pos /\ DataAt \in Nat
          /\ Reach(pos, offsets)
      BY <1>1, <1>2, <1>9, PlaceKnown
    <2>2. Reach(pos', offsets') /\ pos' <= End
      <3>1. offsets[p][c] = 0 /\ \A d \in 1 .. c - 1 : offsets[p][d] # 0
        BY <1>2 DEF NextOne
      <3>2. Reach(pos + k, [offsets EXCEPT ![p][c] = Place]) /\ pos + k <= End
        BY <1>1, <1>6, <2>1, <3>1, ReachMore
      <3>3. QED
        BY <1>3, <1>5, <3>2 DEF ChunkGoes
    <2>3. End \in Nat
      BY <1>1, Geometry, StreamAssumption DEF Shape
    <2>4. pos' \in Nat /\ pos <= pos' /\ current' <= pos' /\ current' <= End /\ DataAt <= pos'
      BY <1>5, <1>6, <2>1, <2>2, <2>3 DEF ChunkGoes
    <2>5. \A q \in Part, d \in Chunk : offsets'[q][d] <= End
      <3>1. \A q \in Part, d \in Chunk : offsets[q][d] <= End
        BY <1>1, <1>9 DEF PlacesInv, Placed
      <3>2. Place <= End
        BY <1>6, <2>1, <2>3
      <3>3. QED
        BY <1>3, <1>6, <3>1, <3>2
    <2>6. Placed(pos', current', offsets', parts')
      BY <2>2, <2>4, <2>5 DEF Placed
    <2>7. ASSUME Regular
          PROVE  /\ Exact(pos', current', offsets', parts', failed')
                 /\ Intact(file', offsets', parts', failed')
      <3>1. Place = pos /\ Before(offsets, failed, pos) /\ InData(offsets)
            /\ Intact(file, offsets, parts, failed)
        BY <1>1, <1>2, <1>9, <2>7, PlaceKnown
      <3>2. current' # 0 => current' = pos'
        BY <1>5, <3>1 DEF ChunkGoes
      <3>3. ASSUME NEW q \in Part, NEW d \in Chunk, offsets'[q][d] # 0
            PROVE  /\ DataAt <= offsets'[q][d]
                   /\ <<q, d>> \notin failed' => offsets'[q][d] + Cells(q) <= pos'
        <4>1. CASE q = p /\ d = c
          <5>1. offsets'[q][d] = pos
            BY <1>3, <1>6, <3>1, <4>1
          <5>2. <<q, d>> \notin failed' => pos' = pos + Cells(p)
            BY <1>5, <4>1 DEF ChunkGoes
          <5>3. QED
            BY <1>4, <1>6, <2>1, <4>1, <5>1, <5>2
        <4>2. CASE q # p \/ d # c
          <5>1. offsets'[q][d] = offsets[q][d]
            BY <1>3, <1>6, <4>2
          <5>2. DataAt <= offsets[q][d]
            BY <3>1, <3>3, <5>1 DEF InData
          <5>3. <<q, d>> \notin failed' => offsets[q][d] + Cells(q) <= pos
            BY <1>5, <3>1, <3>3, <5>1 DEF ChunkGoes, Before
          <5>4. Cells(q) \in Nat /\ offsets[q][d] \in Nat
            BY <1>1, <1>6, CellsOf DEF Shape
          <5>5. QED
            BY <1>6, <2>4, <5>1, <5>2, <5>3, <5>4
        <4>3. QED
          BY <4>1, <4>2
      <3>4. Exact(pos', current', offsets', parts', failed')
        BY <3>2, <3>3 DEF Exact
      <3>5. Intact(Over(file, pos, data), offsets, parts, failed)
        BY <1>1, <1>5, <1>6, <2>1, <3>1, DataWrite DEF ChunkGoes
      <3>6. <<p, c>> \in failed' \/ Holds(file', End, Place, ChunkOf(p, c))
        <4>1. CASE <<p, c>> \in failed'
          BY <4>1
        <4>2. CASE data = ChunkOf(p, c) /\ k = Cells(p)
          <5>1. DOMAIN file = 0 .. End - 1 /\ pos + k <= End
            BY <1>1, <1>5, <2>2 DEF ChunkGoes, Shape
          <5>2. Holds(Over(file, pos, data), End, pos, data)
            BY <1>5, <1>6, <2>3, <5>1, HoldsWritten DEF ChunkGoes
          <5>3. QED
            BY <1>5, <3>1, <4>2, <5>2 DEF ChunkGoes
        <4>3. QED
          BY <1>5, <4>1, <4>2 DEF ChunkGoes
      <3>7. Intact(file', offsets, parts, failed) /\ failed \subseteq failed'
        BY <1>5, <3>5 DEF ChunkGoes
      <3>8. Intact(file', [offsets EXCEPT ![p][c] = Place], parts, failed')
        BY <1>1, <1>6, <3>6, <3>7, NewChunk
      <3>9. QED
        BY <1>3, <3>4, <3>8
    <2>8. QED
      BY <2>2, <2>6, <2>7
  <1>10. PlacesInv'
    BY <1>3, <1>8, <1>9, PrimedPlaces
  <1>11. QED
    BY <1>7, <1>10 DEF StreamIInv

\* Going to the preview and back disturbs nothing else.
LEMMA PreviewKeepsInv ==
    ASSUME StreamIInv, NEW p \in Part, UpdatePreview(p)
    PROVE  StreamIInv'
  <1>1. Shape /\ PlacesInv
    BY DEF StreamIInv
  <1>2. /\ Still /\ AllOpen /\ pos' = pos /\ current' = current /\ offsets' = offsets
        /\ parts' = parts /\ failed' = failed /\ broken' = broken /\ faults' = faults
    BY DEF UpdatePreview, Still
  <1>3. file' = Over(file, PreviewAt(p), PreviewOf(p, 1))
    BY DEF UpdatePreview, Written, Over
  <1>4. Shape'
    <2>1. DOMAIN file' = DOMAIN file
      BY <1>3 DEF Over
    <2>2. QED
      BY <1>1, <1>2, <2>1, ShapeAgain DEF Shape
  <1>5. ~broken => Placed(pos', current', offsets', parts')
    BY <1>1, <1>2 DEF PlacesInv
  <1>6. ASSUME ~broken, Regular
        PROVE  Exact(pos', current', offsets', parts', failed')
               /\ Intact(file', offsets', parts', failed')
    <2>1. InData(offsets) /\ Intact(file, offsets, parts, failed)
      BY <1>1, <1>2, <1>6, PlaceKnown
    <2>2. Intact(file', offsets, parts, failed)
      BY <1>1, <1>3, <2>1, PreviewWrite
    <2>3. QED
      BY <1>1, <1>2, <1>6, <2>2 DEF PlacesInv
  <1>7. Tables(file', offsets', parts')
    BY <1>2, OpenTables
  <1>8. PlacesInv'
    BY <1>2, <1>5, <1>6, <1>7, PrimedPlaces
  <1>9. QED
    BY <1>4, <1>8 DEF StreamIInv

\* After a preview that could not be written, or a chunk broken on purpose, only the
\* tables count.
LEMMA BreakingKeepsInv ==
    ASSUME StreamIInv, NEW p \in Part,
           PreviewFails(p) \/ \E c \in Chunk : BreakChunk(p, c)
    PROVE  StreamIInv'
  <1>1. Shape
    BY DEF StreamIInv
  <1>2. /\ Still /\ AllOpen /\ offsets' = offsets /\ parts' = parts /\ failed' = failed
        /\ broken' = TRUE /\ faults' = faults + 1 /\ faults < MaxFaults
    BY DEF PreviewFails, BreakChunk, Still
  <1>3. DOMAIN file' = DOMAIN file /\ pos' \in Nat /\ current' \in Nat
    <2>1. CASE PreviewFails(p)
      <3>1. PICK k \in 0 .. PreviewSize :
                /\ file' = Written(PreviewAt(p), Cut(PreviewOf(p, 1), k))
                /\ pos' = PreviewAt(p) + k
        BY <2>1 DEF PreviewFails
      <3>2. PreviewAt(p) \in Nat
        BY <1>1, Geometry, StreamAssumption DEF Shape
      <3>3. current' = current
        BY <2>1 DEF PreviewFails
      <3>4. QED
        BY <1>1, <3>1, <3>2, <3>3 DEF Written, PreviewSize, Shape
    <2>2. CASE \E c \in Chunk : BreakChunk(p, c)
      BY <1>1, <2>2 DEF BreakChunk, Written, Shape
    <2>3. QED
      BY <2>1, <2>2
  <1>4. faults' \in 0 .. MaxFaults
    BY <1>1, <1>2, StreamAssumption DEF Shape
  <1>5. Shape'
    BY <1>1, <1>2, <1>3, <1>4, ShapeAgain DEF Shape
  <1>6. Tables(file', offsets', parts')
    BY <1>2, OpenTables
  <1>7. PlacesInv'
    BY <1>2, <1>6, PrimedPlaces
  <1>8. QED
    BY <1>5, <1>7 DEF StreamIInv

\* The k cells of data that a destructor writes, and what the part is then.
TableGoes(p, k, data, x) ==
    /\ k \in 0 .. TableSize /\ x \in {"closed", "lost"}
    /\ Sized(data, k) /\ file' = Over(file, TableAt(p), data)
    /\ parts' = [parts EXCEPT ![p] = x]
    /\ x = "closed" => data = TableOf(p, offsets[p]) /\ k = TableSize
    /\ pos' \in Nat
    /\ pos' = pos \/ pos' <= TableAt(p) + TableSize
    /\ faults' \in 0 .. MaxFaults

\* A destructor writes over the empty table of its part, or the beginning of it.
LEMMA CloseKeepsInv ==
    ASSUME StreamIInv, NEW p \in Part, Close(p) \/ CloseFails(p)
    PROVE  StreamIInv'
  <1>1. Shape /\ PlacesInv
    BY DEF StreamIInv
  <1>2. /\ Still /\ current' = current /\ offsets' = offsets /\ failed' = failed
        /\ broken' = broken
    BY DEF Close, CloseFails, Still
  <1>3. /\ TableSize \in Nat /\ TableAt(p) \in Nat /\ DataAt \in Nat /\ End \in Nat
        /\ TableAt(p) + TableSize <= DataAt /\ DataAt <= End
    BY <1>1, Geometry, StreamAssumption DEF Shape
  <1>4. Sized(TableOf(p, offsets[p]), TableSize)
    BY <1>1, Sizes DEF Shape
  <1>5. PICK k, data, x : TableGoes(p, k, data, x)
    <2>1. CASE Close(p)
      <3>1. file' = Over(file, TableAt(p), TableOf(p, offsets[p]))
        BY <2>1 DEF Close, Written, Over
      <3>2. pos' = pos /\ parts' = [parts EXCEPT ![p] = "closed"] /\ faults' = faults
        BY <2>1 DEF Close
      <3>3. pos \in Nat /\ faults \in 0 .. MaxFaults /\ TableSize \in 0 .. TableSize
        BY <1>1, <1>3 DEF Shape
      <3>4. TableGoes(p, TableSize, TableOf(p, offsets[p]), "closed")
        BY <1>4, <3>1, <3>2, <3>3 DEF TableGoes
      <3>5. QED
        BY <3>4
    <2>2. CASE CloseFails(p)
      <3>1. PICK k \in 0 .. TableSize :
                /\ file' = Written(TableAt(p), Cut(TableOf(p, offsets[p]), k))
                /\ pos' = TableAt(p) + k
        BY <2>2 DEF CloseFails
      <3>2. Sized(Cut(TableOf(p, offsets[p]), k), k)
        <4>1. TableOf(p, offsets[p]) = [i \in 1 .. TableSize |-> TableOf(p, offsets[p])[i]]
          BY DEF TableOf
        <4>2. TableOf(p, offsets[p]) \in Seq({TableOf(p, offsets[p])[i] : i \in 1 .. TableSize})
          BY <1>3, <4>1, SizedList
        <4>3. Len(TableOf(p, offsets[p])) = TableSize
          BY <1>4 DEF Sized
        <4>4. QED
          BY <1>3, <4>2, <4>3, SizedCut
      <3>3. file' = Over(file, TableAt(p), Cut(TableOf(p, offsets[p]), k))
        BY <3>1 DEF Written, Over
      <3>4. parts' = [parts EXCEPT ![p] = "lost"]
        BY <2>2 DEF CloseFails
      <3>5. faults' \in 0 .. MaxFaults
        BY <1>1, <2>2, StreamAssumption DEF CloseFails, Shape
      <3>6. pos' \in Nat /\ pos' <= TableAt(p) + TableSize
        BY <1>3, <3>1
      <3>7. TableGoes(p, k, Cut(TableOf(p, offsets[p]), k), "lost")
        BY <3>2, <3>3, <3>4, <3>5, <3>6 DEF TableGoes
      <3>8. QED
        BY <3>7
    <2>3. QED
      BY <2>1, <2>2
  <1>6. parts \in [Part -> {"open", "closed", "lost"}]
    BY <1>1 DEF Shape
  <1>7. Shape'
    <2>1. DOMAIN file' = DOMAIN file
      BY <1>5 DEF TableGoes, Over
    <2>2. parts' \in [Part -> {"open", "closed", "lost"}]
      BY <1>5, <1>6 DEF TableGoes
    <2>3. QED
      BY <1>1, <1>2, <1>5, <2>1, <2>2, ShapeAgain DEF TableGoes, Shape
  <1>8. ~ Open(parts')
    BY <1>5, <1>6 DEF TableGoes, Open
  <1>9. ASSUME ~broken PROVE Placed(pos', current', offsets', parts')
    <2>1. /\ pos <= End /\ current <= End
          /\ \A q \in Part, c \in Chunk : offsets[q][c] <= End
      BY <1>1, <1>9 DEF PlacesInv, Placed
    <2>2. pos' <= End
      BY <1>3, <1>5, <2>1 DEF TableGoes
    <2>3. QED
      BY <1>2, <1>8, <2>1, <2>2 DEF Placed
  <1>10. ASSUME ~broken, Regular
         PROVE  /\ Exact(pos', current', offsets', parts', failed')
                /\ Intact(file', offsets', parts', failed')
    <2>1. Exact(pos, current, offsets, parts, failed) /\ Intact(file, offsets, parts, failed)
      BY <1>1, <1>10 DEF PlacesInv
    <2>2. offsets \in [Part -> [Chunk -> Nat]]
      BY <1>1 DEF Shape
    <2>3. InData(offsets)
      BY <2>1, <2>2 DEF Exact, InData
    <2>4. Exact(pos', current', offsets', parts', failed')
      BY <1>2, <1>8, <2>1 DEF Exact
    <2>5. k \in Nat /\ k <= TableSize /\ x # "open"
      BY <1>3, <1>5 DEF TableGoes
    <2>6. Intact(Over(file, TableAt(p), data), offsets, [parts EXCEPT ![p] = x], failed)
      BY <1>1, <1>5, <1>6, <2>1, <2>3, <2>5, TableWrite DEF TableGoes
    <2>7. QED
      BY <1>2, <1>5, <2>4, <2>6 DEF TableGoes
  <1>11. Tables(file', offsets', parts')
    <2>1. Tables(file, offsets, parts)
      BY <1>1 DEF PlacesInv
    <2>2. k \in Nat /\ k <= TableSize
      BY <1>3, <1>5 DEF TableGoes
    <2>3. Tables(Over(file, TableAt(p), data), offsets, [parts EXCEPT ![p] = x])
      BY <1>1, <1>5, <1>6, <2>1, <2>2, TablesKept DEF TableGoes
    <2>4. QED
      BY <1>2, <1>5, <2>3 DEF TableGoes
  <1>12. PlacesInv'
    BY <1>2, <1>9, <1>10, <1>11, PrimedPlaces
  <1>13. QED
    BY <1>7, <1>12 DEF StreamIInv

-----------------------------------------------------------------------------
(* What follows for every state.                                            *)

\* Every step keeps the invariant.
LEMMA StreamInductive == StreamIInv /\ [Next]_vars => StreamIInv'
  <1> SUFFICES ASSUME StreamIInv, [Next]_vars PROVE StreamIInv'
    OBVIOUS
  <1>1. CASE Next
    <2>1. PICK p \in Part :
              \/ \E c \in Chunk : WriteChunk(p, c) \/ WriteFails(p, c) \/ BreakChunk(p, c)
              \/ UpdatePreview(p) \/ PreviewFails(p)
              \/ Close(p) \/ CloseFails(p)
      BY <1>1 DEF Next
    <2>2. CASE \E c \in Chunk : WriteChunk(p, c) \/ WriteFails(p, c)
      BY <2>2, ChunkKeepsInv
    <2>3. CASE PreviewFails(p) \/ \E c \in Chunk : BreakChunk(p, c)
      BY <2>3, BreakingKeepsInv
    <2>4. CASE UpdatePreview(p)
      BY <2>4, PreviewKeepsInv
    <2>5. CASE Close(p) \/ CloseFails(p)
      BY <2>5, CloseKeepsInv
    <2>6. QED
      BY <2>1, <2>2, <2>3, <2>4, <2>5
  <1>2. CASE UNCHANGED vars
    <2>1. Shape /\ PlacesInv
      BY DEF StreamIInv
    <2>2. /\ Still /\ file' = file /\ pos' = pos /\ current' = current /\ offsets' = offsets
          /\ parts' = parts /\ failed' = failed /\ broken' = broken /\ faults' = faults
      BY <1>2 DEF vars, Still
    <2>3. Shape'
      BY <2>1, <2>2, ShapeAgain DEF Shape
    <2>4. PlacesInv'
      BY <2>1, <2>2, PrimedPlaces DEF PlacesInv
    <2>5. QED
      BY <2>3, <2>4 DEF StreamIInv
  <1>3. QED
    BY <1>1, <1>2

\* What the invariant says of the properties.
LEMMA StreamImplies == StreamIInv => StreamInv /\ TablesStored
  <1> SUFFICES ASSUME StreamIInv PROVE StreamInv /\ TablesStored
    OBVIOUS
  <1>1. Shape /\ PlacesInv
    BY DEF StreamIInv
  <1>2. ~broken => /\ pos <= End /\ current <= End
                   /\ \A p \in Part, c \in Chunk : offsets[p][c] <= End
    BY <1>1 DEF PlacesInv, Placed
  <1>3. TypeOK
    BY <1>1, <1>2 DEF Shape, TypeOK
  <1>4. \A place, data : IsAt(place, data) <=> Holds(file, End, place, data)
    BY DEF IsAt, Holds
  <1>5. FileIntact
    <2> SUFFICES ASSUME ~broken, Multi \/ start = 0
                 PROVE  \A p \in Part :
                          /\ \A c \in Chunk : offsets[p][c] # 0 /\ <<p, c>> \notin failed =>
                                 IsAt(offsets[p][c], ChunkOf(p, c))
                          /\ \E version \in {0, 1} : IsAt(PreviewAt(p), PreviewOf(p, version))
                          /\ parts[p] = "open" => IsAt(TableAt(p), TableOf(p, NoOffsets))
      BY DEF FileIntact
    <2>1. Intact(file, offsets, parts, failed)
      BY <1>1 DEF PlacesInv, Regular
    <2>2. QED
      BY <1>4, <2>1 DEF Intact
  <1>6. TablesStored
    BY <1>1, <1>4 DEF PlacesInv, Tables, TablesStored
  <1>7. QED
    BY <1>3, <1>5, <1>6 DEF StreamInv

(***************************************************************************)
(* For any number of chunks, any place where the stream was and any number *)
(* of failures: whatever the kinds of the one or two parts, in whatever    *)
(* order their chunks, previews and tables are written and whichever       *)
(* writes fail, the tables in memory point to whole chunks and the headers *)
(* are intact, with the exceptions that FileIntact names.                  *)
(***************************************************************************)
THEOREM StreamInvariant == Spec => []StreamInv
  <1>1. Spec => []StreamIInv
    BY StreamStarts, StreamInductive, PTL DEF Spec
  <1>2. QED
    BY <1>1, StreamImplies, PTL

(***************************************************************************)
(* A destructor that could write its table has it in the file for good:    *)
(* what the destructors of other parts write, or fail to write, and what   *)
(* happened to the stream before, does not matter.                         *)
(***************************************************************************)
THEOREM TablesAlwaysStored == Spec => []TablesStored
  <1>1. Spec => []StreamIInv
    BY StreamStarts, StreamInductive, PTL DEF Spec
  <1>2. QED
    BY <1>1, StreamImplies, PTL

-----------------------------------------------------------------------------
(* RgbaYca.                                                                 *)

\* A sequence, whatever is in it.
IsList(s) == \E S : s \in Seq(S)

\* Where the i-th line of the file was, counted from 0, and the lines that were given.
Turn(i) == InTurn(i + 1)
Given == IF order = "increasing" THEN scanLine ELSE height - 1 - scanLine

AtLeast0(i) == IF i < 0 THEN 0 ELSE i

\* The types of the variables.
YcaType ==
    /\ height \in Heights /\ order \in {"increasing", "decreasing"}
    /\ chroma \in BOOLEAN /\ side \in {"writer", "reader"}
    /\ ~chroma => side = "writer"
    /\ scanLine \in -1 .. height /\ converted \in Nat
    /\ IsList(written)
    /\ lastLine \in Line \cup {-N - 2} /\ todo \in Seq(Line)
    /\ mixed \in BOOLEAN

\* What the window of the writer holds after n lines: the last ones, and the first one
\* in place of those before it.  The rest was not written.
WindowHolds(b, n) ==
    \A k \in Window : k > N2 - n => b[k] = Turn(AtLeast0(n - N + k))

\* The lines in the file are right.
Right(w, i) ==
    /\ w.line = InTurn(i)
    /\ chroma /\ order = "increasing" /\ height > N2 /\ Even(InTurn(i)) =>
           w.taps = Around(InTurn(i))

WriterInv == 
    /\ \A i \in DOMAIN written : Right(written[i], i)
    /\ side = "reader" => written = <<>>
    /\ side = "writer" =>
         /\ Given \in 0 .. height
         /\ ~chroma => Len(written) = Given
         /\ chroma /\ Given = height => Len(written) = height
         /\ chroma /\ Given < height =>
               /\ converted = Given
               /\ Len(written) = IF Given > N2 THEN Given - N2 ELSE 0
               /\ Given > 0 => WindowHolds(buf, Given)

ReaderInv ==
    /\ ~mixed /\ lastLine # -N - 2 =>
          /\ \A k \in 0 .. N + 1 : buf1[k] = Clamped(lastLine - N2 - 1 + k)
          /\ buf2 = Expected(lastLine)
    /\ frame # <<>> /\ ~mixed => frame = <<lastLine, buf2>> /\ lastLine # -N - 2

YcaInv == YcaType /\ WriterInv /\ ReaderInv

-----------------------------------------------------------------------------
(* The width of the filter, lists and remainders.                           *)

\* The width of the filter is odd, and so is its half; heights are even.
LEMMA FilterWidth ==
    /\ N \in Nat /\ N2 \in Nat /\ N = 2 * N2 + 1 /\ N2 >= 1 /\ N2 % 2 = 1
    /\ \A h \in Heights : h \in Nat /\ h > 0 /\ h % 2 = 0
  BY FilterAssumption DEF N2

\* A place of a window is not wrapped around.
LEMMA Remainder ==
    ASSUME NEW n \in Nat, NEW a \in 0 .. n - 1
    PROVE  a % n = a
  OBVIOUS

\* The length and the elements of two lists in a row.
LEMMA Joined ==
    ASSUME NEW u, NEW v, IsList(u), IsList(v)
    PROVE  /\ IsList(u \o v) /\ Len(u \o v) = Len(u) + Len(v)
           /\ Len(u) \in Nat /\ Len(v) \in Nat
           /\ DOMAIN u = 1 .. Len(u) /\ DOMAIN v = 1 .. Len(v)
           /\ DOMAIN (u \o v) = 1 .. Len(u) + Len(v)
           /\ \A i \in 1 .. Len(u) + Len(v) :
                 (u \o v)[i] = IF i <= Len(u) THEN u[i] ELSE v[i - Len(u)]
  <1>1. PICK S, T : u \in Seq(S) /\ v \in Seq(T)
    BY DEF IsList
  <1>2. u \in Seq(S \cup T) /\ v \in Seq(S \cup T)
    BY <1>1
  <1>3. u \o v \in Seq(S \cup T)
    BY <1>2
  <1>4. QED
    BY <1>2, <1>3 DEF IsList

\* A list that is given by its elements.
LEMMA GivenList ==
    ASSUME NEW n \in Nat, NEW s, s = [i \in 1 .. n |-> s[i]]
    PROVE  IsList(s) /\ Len(s) = n
  <1>1. s \in [1 .. n -> {s[i] : i \in 1 .. n}]
    OBVIOUS
  <1>2. s \in Seq({s[i] : i \in 1 .. n}) /\ DOMAIN s = 1 .. n
    BY <1>1
  <1>3. Len(s) = n
    BY <1>2
  <1>4. QED
    BY <1>2, <1>3 DEF IsList

-----------------------------------------------------------------------------
(* The reader.                                                              *)

\* A line that is read is one of the file.
LEMMA ClampedType ==
    ASSUME height \in Heights, NEW y \in Int
    PROVE  Clamped(y) \in Line
  BY FilterWidth DEF Clamped, Line

\* The window after all missing lines were read.
LEMMA WindowRead ==
    ASSUME YcaType, NEW y \in Line,
           ~ Far(y) => \A k \in 0 .. N + 1 : buf1[k] = Clamped(lastLine - N2 - 1 + k)
    PROVE  \A k \in 0 .. N + 1 : Filled(y, Missing(y))[k] = Clamped(y - N2 - 1 + k)
  <1> SUFFICES ASSUME NEW k \in 0 .. N + 1
               PROVE  Filled(y, Missing(y))[k] = Clamped(y - N2 - 1 + k)
    OBVIOUS
  <1>1. N \in Nat /\ N2 \in Nat /\ height \in Nat
    BY FilterWidth DEF YcaType
  <1>2. y \in Int /\ lastLine \in Int /\ k \in Int
    BY <1>1 DEF YcaType, Line
  <1>3. Filled(y, Missing(y))[k] =
            IF k \in Places(y, Missing(y)) THEN Clamped(y - N2 - 1 + k) ELSE Kept(y)[k]
    BY DEF Filled
  <1>4. CASE k \in Places(y, Missing(y))
    BY <1>3, <1>4
  <1>5. CASE k \notin Places(y, Missing(y))
    <2>1. ~ Far(y) /\ Abs(y - lastLine) < N + 2 /\ y - lastLine + k \in 0 .. N + 1
      <3>1. CASE y < lastLine
        BY <1>1, <1>2, <1>5, <3>1 DEF Places, Missing, Smaller, Abs, Far
      <3>2. CASE ~(y < lastLine)
        BY <1>1, <1>2, <1>5, <3>2 DEF Places, Missing, Smaller, Abs, Far
      <3>3. QED
        BY <3>1, <3>2
    <2>2. Kept(y)[k] = buf1[(k + (y - lastLine)) % (N + 2)]
      BY <1>1, <2>1 DEF Kept, Turned
    <2>3. (k + (y - lastLine)) % (N + 2) = k + (y - lastLine)
      <3>1. k + (y - lastLine) \in 0 .. (N + 2) - 1 /\ N + 2 \in Nat
        BY <1>1, <1>2, <2>1
      <3>2. QED
        BY <3>1, Remainder
    <2>4. k + (y - lastLine) \in 0 .. N + 1
      BY <1>1, <1>2, <2>1
    <2>5. Kept(y)[k] = Clamped(lastLine - N2 - 1 + (k + (y - lastLine)))
      BY <2>1, <2>2, <2>3, <2>4
    <2>6. lastLine - N2 - 1 + (k + (y - lastLine)) = y - N2 - 1 + k
      BY <1>1, <1>2
    <2>7. QED
      BY <1>3, <1>5, <2>5, <2>6
  <1>6. QED
    BY <1>4, <1>5

\* The three lines around a line are made from the window.
LEMMA LinesMade ==
    ASSUME YcaType, NEW y \in Line, NEW b,
           \A k \in 0 .. N + 1 : b[k] = Clamped(y - N2 - 1 + k),
           Abs(y - lastLine) < 3 => buf2 = Expected(lastLine)
    PROVE  Made(y, b) = Expected(y)
  <1>1. N \in Nat /\ N2 \in Nat /\ N = 2 * N2 + 1 /\ height \in Nat
    BY FilterWidth DEF YcaType
  <1>2. y \in Int /\ lastLine \in Int
    BY <1>1 DEF YcaType, Line
  <1> SUFFICES ASSUME NEW i \in 0 .. 2 PROVE Made(y, b)[i] = Expected(y)[i]
    BY DEF Made, Expected
  <1> DEFINE dy == y - lastLine
             new == IF dy < 0 THEN i < Smaller(Abs(dy), 3) ELSE i > 2 - Smaller(Abs(dy), 3)
  <1>3. Made(y, b)[i] = IF new
                        THEN IF Even(y + i) THEN ReconstructChromaVert(b, i) ELSE Plain(b[N2 + i])
                        ELSE Turned2(y)[i]
    BY DEF Made
  <1>4. Expected(y)[i] = IF Even(y - 1 + i) THEN Plain(Clamped(y - 1 + i))
                         ELSE [line |-> Clamped(y - 1 + i),
                               taps |-> [k \in Taps |-> Clamped(y - 1 + i + k - N2)]]
    BY DEF Expected
  <1>5. Even(y + i) <=> ~ Even(y - 1 + i)
    BY <1>2 DEF Even
  <1>6. CASE new
    <2>1. b[N2 + i] = Clamped(y - 1 + i) /\ b[i + N2] = Clamped(y - 1 + i)
      <3>1. N2 + i \in 0 .. N + 1 /\ N2 + i = i + N2 /\ y - N2 - 1 + (N2 + i) = y - 1 + i
        BY <1>1, <1>2
      <3>2. b[N2 + i] = Clamped(y - N2 - 1 + (N2 + i))
        BY <3>1
      <3>3. QED
        BY <3>1, <3>2
    <2>2. \A k \in Taps : b[i + k] = Clamped(y - 1 + i + k - N2)
      <3> SUFFICES ASSUME NEW k \in Taps PROVE b[i + k] = Clamped(y - 1 + i + k - N2)
        OBVIOUS
      <3>1. k \in 0 .. N - 1
        BY DEF Taps, Window
      <3>2. i + k \in 0 .. N + 1 /\ y - N2 - 1 + (i + k) = y - 1 + i + k - N2
        BY <1>1, <1>2, <3>1
      <3>3. b[i + k] = Clamped(y - N2 - 1 + (i + k))
        BY <3>2
      <3>4. QED
        BY <3>2, <3>3
    <2>3. ReconstructChromaVert(b, i) = [line |-> Clamped(y - 1 + i),
                                         taps |-> [k \in Taps |-> Clamped(y - 1 + i + k - N2)]]
      BY <2>1, <2>2 DEF ReconstructChromaVert
    <2>4. QED
      BY <1>3, <1>4, <1>5, <1>6, <2>1, <2>3
  <1>7. CASE ~ new
    <2>1. Abs(dy) < 3 /\ i + dy \in 0 .. 2
      BY <1>2, <1>7 DEF Smaller, Abs
    <2>2. Turned2(y)[i] = buf2[(i + dy) % 3]
      BY <2>1 DEF Turned2, Turned
    <2>3. (i + dy) % 3 = i + dy
      BY <2>1
    <2>4. Turned2(y)[i] = Expected(lastLine)[i + dy]
      BY <2>1, <2>2, <2>3
    <2>5. lastLine - 1 + (i + dy) = y - 1 + i
      BY <1>2
    <2>6. Expected(lastLine)[i + dy] = Expected(y)[i]
      BY <1>4, <2>1, <2>5 DEF Expected
    <2>7. QED
      BY <1>3, <1>7, <2>4, <2>6
  <1>8. QED
    BY <1>6, <1>7

\* Only lines that have chroma are used for it.
LEMMA ExpectedEven ==
    ASSUME YcaType, NEW y \in Line
    PROVE  \A i \in 0 .. 2 : \A k \in DOMAIN Expected(y)[i].taps : Even(Expected(y)[i].taps[k])
  <1>1. /\ N \in Nat /\ N2 \in Nat /\ N2 % 2 = 1
        /\ height \in Nat /\ height > 0 /\ height % 2 = 0
    BY FilterWidth DEF YcaType
  <1> SUFFICES ASSUME NEW i \in 0 .. 2, NEW k \in DOMAIN Expected(y)[i].taps
               PROVE  Even(Expected(y)[i].taps[k])
    OBVIOUS
  <1>2. y \in Int /\ y - 1 + i \in Int
    BY <1>1 DEF Line
  <1>3. \A m \in Int : Even(m) => Even(Clamped(m))
    BY <1>1 DEF Even, Clamped
  <1>4. CASE Even(y - 1 + i)
    <2>1. Expected(y)[i] = Plain(Clamped(y - 1 + i))
      BY <1>4 DEF Expected
    <2>2. Expected(y)[i].taps = [j \in {N2} |-> Clamped(y - 1 + i)]
      BY <2>1 DEF Plain
    <2>3. Expected(y)[i].taps[k] = Clamped(y - 1 + i)
      BY <2>2
    <2>4. QED
      BY <1>2, <1>3, <1>4, <2>3
  <1>5. CASE ~ Even(y - 1 + i)
    <2>1. Expected(y)[i].taps = [j \in Taps |-> Clamped(y - 1 + i + j - N2)]
      BY <1>5 DEF Expected
    <2>2. k \in Taps /\ Expected(y)[i].taps[k] = Clamped(y - 1 + i + k - N2)
      BY <2>1
    <2>3. k \in Int /\ ~ Even(k - N2)
      BY <2>2 DEF Taps, Window
    <2>4. y - 1 + i + k - N2 \in Int /\ Even(y - 1 + i + k - N2)
      BY <1>1, <1>2, <1>5, <2>3 DEF Even
    <2>5. QED
      BY <1>3, <2>2, <2>4
  <1>6. QED
    BY <1>4, <1>5

\* What can be said of a line or of the window does not change with the calls.
LEMMA ImageKept ==
    ASSUME imageVars' = imageVars
    PROVE  /\ height' = height /\ order' = order /\ chroma' = chroma /\ side' = side
           /\ \A i : Turn(i)' = Turn(i)
           /\ \A w, i : Right(w, i)' <=> Right(w, i)
           /\ \A b, n : WindowHolds(b, n)' <=> WindowHolds(b, n)
  <1>1. height' = height /\ order' = order /\ chroma' = chroma /\ side' = side
    BY DEF imageVars
  <1>2. \A i : InTurn(i)' = InTurn(i) /\ Turn(i)' = Turn(i)
    BY <1>1 DEF InTurn, Turn
  <1>3. \A y : Around(y)' = Around(y)
    BY <1>1 DEF Around
  <1>4. \A w, i : Right(w, i)' <=> Right(w, i)
    BY <1>1, <1>2, <1>3 DEF Right
  <1>5. \A b, n : WindowHolds(b, n)' <=> WindowHolds(b, n)
    BY <1>2 DEF WindowHolds
  <1>6. QED
    BY <1>1, <1>2, <1>4, <1>5

\* What is left of the invariant's types after a step of the reader.
LEMMA ReaderType ==
    ASSUME YcaType, imageVars' = imageVars, toVars' = toVars,
           lastLine' \in Line \cup {-N - 2}, todo' \in Seq(Line), mixed' \in BOOLEAN
    PROVE  YcaType'
  <1>1. height' = height /\ order' = order /\ chroma' = chroma /\ side' = side
    BY DEF imageVars
  <1>2. buf' = buf /\ converted' = converted /\ scanLine' = scanLine /\ written' = written
    BY DEF toVars
  <1>3. Line' = Line
    BY <1>1 DEF Line
  <1>4. QED
    BY <1>1, <1>2, <1>3 DEF YcaType

\* The reader does not touch what the writer has.
LEMMA WriterKept ==
    ASSUME WriterInv, imageVars' = imageVars, toVars' = toVars
    PROVE  WriterInv'
  <1>1. height' = height /\ order' = order /\ chroma' = chroma /\ side' = side
    BY DEF imageVars
  <1>2. buf' = buf /\ converted' = converted /\ scanLine' = scanLine /\ written' = written
    BY DEF toVars
  <1>3. Given' = Given
    BY <1>1, <1>2 DEF Given
  <1>4. QED
    BY <1>1, <1>2, <1>3, ImageKept DEF WriterInv

\* A call only says which lines are to be read.
LEMMA CallKeepsInv ==
    ASSUME YcaInv, Call
    PROVE  YcaInv'
  <1>1. YcaType /\ WriterInv /\ ReaderInv
    BY DEF YcaInv
  <1>2. /\ imageVars' = imageVars /\ toVars' = toVars
        /\ buf1' = buf1 /\ buf2' = buf2 /\ lastLine' = lastLine /\ frame' = frame
        /\ mixed' = mixed /\ fails' = fails
    BY DEF Call
  <1>3. todo' \in Seq(Line)
    <2>1. PICK lo \in Line, hi \in Line :
              /\ lo <= hi
              /\ todo' = [i \in 1 .. hi - lo + 1 |->
                             IF order = "increasing" THEN lo + i - 1 ELSE hi - i + 1]
      BY DEF Call
    <2>2. height \in Nat
      BY <1>1, FilterWidth DEF YcaType
    <2>3. hi - lo + 1 \in Nat
      BY <2>1, <2>2 DEF Line
    <2>4. todo' \in [1 .. hi - lo + 1 -> Line]
      BY <2>1, <2>2 DEF Line
    <2>5. QED
      BY <2>3, <2>4
  <1>4. YcaType'
    BY <1>1, <1>2, <1>3, ReaderType DEF YcaType
  <1>5. WriterInv'
    BY <1>1, <1>2, WriterKept
  <1>6. height' = height
    BY <1>2 DEF imageVars
  <1>7. ReaderInv'
    BY <1>1, <1>2, <1>6 DEF ReaderInv, Clamped, Expected
  <1>8. QED
    BY <1>4, <1>5, <1>7 DEF YcaInv

\* What was in the window before, if it is used again, are the lines around the last one.
LEMMA ReadLineKeepsInv ==
    ASSUME YcaInv, ReadLine
    PROVE  YcaInv'
  <1>1. YcaType /\ WriterInv /\ ReaderInv
    BY DEF YcaInv
  <1> DEFINE y == Head(todo)
             b == Filled(y, Missing(y))
  <1>2. /\ imageVars' = imageVars /\ toVars' = toVars
        /\ buf1' = b /\ buf2' = Made(y, b) /\ frame' = <<y, Made(y, b)>>
        /\ lastLine' = y /\ todo' = Tail(todo) /\ mixed' = (mixed /\ ~Far(y))
    BY DEF ReadLine
  <1>3. todo # <<>> /\ todo \in Seq(Line)
    BY <1>1 DEF ReadLine, YcaType
  <1>4. y \in Line /\ Tail(todo) \in Seq(Line)
    BY <1>3
  <1>5. N \in Nat /\ N2 \in Nat /\ height \in Nat /\ y \in Int /\ lastLine \in Int
    BY <1>1, <1>4, FilterWidth DEF YcaType, Line
  <1> HIDE DEF y
  <1>6. YcaType'
    <2>1. (mixed /\ ~Far(y)) \in BOOLEAN
      OBVIOUS
    <2>2. QED
      BY <1>1, <1>2, <1>4, <2>1, ReaderType
  <1>7. WriterInv'
    BY <1>1, <1>2, WriterKept
  <1>8. ASSUME ~ mixed'
        PROVE  /\ \A k \in 0 .. N + 1 : b[k] = Clamped(y - N2 - 1 + k)
               /\ Made(y, b) = Expected(y)
    <2>1. ~ mixed \/ Far(y)
      BY <1>2, <1>8
    <2>2. lastLine = -N - 2 => Far(y)
      BY <1>4, <1>5 DEF Far, Abs, Line
    <2>3. ~ Far(y) => /\ \A k \in 0 .. N + 1 : buf1[k] = Clamped(lastLine - N2 - 1 + k)
                      /\ buf2 = Expected(lastLine)
      BY <1>1, <2>1, <2>2 DEF ReaderInv
    <2>4. Abs(y - lastLine) < 3 => ~ Far(y)
      BY <1>5, FilterWidth DEF Far, Abs
    <2>5. \A k \in 0 .. N + 1 : b[k] = Clamped(y - N2 - 1 + k)
      BY <1>1, <1>4, <2>3, WindowRead
    <2> HIDE DEF b
    <2>6. Made(y, b) = Expected(y)
      BY <1>1, <1>4, <2>3, <2>4, <2>5, LinesMade
    <2>7. QED
      BY <2>5, <2>6
  <1>9. ReaderInv'
    <2> HIDE DEF b
    <2>1. height' = height
      BY <1>2 DEF imageVars
    <2>2. \A z : Clamped(z)' = Clamped(z) /\ Expected(z)' = Expected(z)
      BY <2>1 DEF Clamped, Expected
    <2>3. y # -N - 2
      BY <1>4, <1>5 DEF Line
    <2>4. QED
      BY <1>2, <1>8, <2>2, <2>3 DEF ReaderInv
  <1>10. QED
    BY <1>6, <1>7, <1>9 DEF YcaInv

\* After a read that failed the window is mixed.
LEMMA ReadFailsKeepsInv ==
    ASSUME YcaInv, ReadFails
    PROVE  YcaInv'
  <1>1. YcaType /\ WriterInv /\ ReaderInv
    BY DEF YcaInv
  <1>2. /\ imageVars' = imageVars /\ toVars' = toVars
        /\ todo' = <<>> /\ mixed' = TRUE
        /\ lastLine' = lastLine /\ frame' = frame
    BY DEF ReadFails
  <1>3. YcaType'
    <2>1. <<>> \in Seq(Line)
      OBVIOUS
    <2>2. lastLine \in Line \cup {-N - 2}
      BY <1>1 DEF YcaType
    <2>3. QED
      BY <1>1, <1>2, <2>1, <2>2, ReaderType
  <1>4. WriterInv'
    BY <1>1, <1>2, WriterKept
  <1>5. ReaderInv'
    BY <1>2 DEF ReaderInv
  <1>6. QED
    BY <1>3, <1>4, <1>5 DEF YcaInv

-----------------------------------------------------------------------------
(* The writer.                                                              *)

\* The lines of an image, in the order of the file.
LEMMA TurnLine ==
    ASSUME YcaType, NEW i \in 0 .. height - 1
    PROVE  Turn(i) \in Int /\ Turn(i) = IF order = "increasing" THEN i ELSE height - 1 - i
  BY FilterWidth DEF YcaType, Turn, InTurn

\* One more line makes the window that of n + 1 lines; the first one is repeated.
LEMMA WindowMoves ==
    ASSUME YcaType, NEW n \in 0 .. height - 1, converted = n,
           n > 0 => WindowHolds(buf, n)
    PROVE  WindowHolds(Converted(Turn(n)), n + 1)
  <1>1. N \in Nat /\ N2 \in Nat /\ N = 2 * N2 + 1 /\ height \in Nat /\ n \in Int /\ N2 >= 1
    BY FilterWidth DEF YcaType
  <1> SUFFICES \A k \in Window :
                  k > N2 - (n + 1) => Converted(Turn(n))[k] = Turn(AtLeast0((n + 1) - N + k))
    BY Zenon DEF WindowHolds
  <1> SUFFICES ASSUME NEW k \in Window, k > N2 - (n + 1)
               PROVE  Converted(Turn(n))[k] = Turn(AtLeast0((n + 1) - N + k))
    OBVIOUS
  <1>2. k \in 0 .. N - 1 /\ k \in Int
    BY <1>1 DEF Window
  <1> DEFINE y == Turn(n)
  <1>3. \A j \in Window : Rotated(buf, y)[j] = IF j = N - 1 THEN y ELSE buf[j + 1]
    BY DEF Rotated
  <1> HIDE DEF y
  <1>4. CASE n = 0
    <2>1. Converted(y)[k] = Rotated(buf, y)[Smaller(k + N2, N - 1)]
      BY <1>4 DEF Converted, DuplicateLast
    <2>2. Smaller(k + N2, N - 1) = N - 1 /\ N - 1 \in Window
      BY <1>1, <1>2, <1>4 DEF Smaller, Window
    <2>3. Converted(y)[k] = y
      BY <1>3, <2>1, <2>2
    <2>4. AtLeast0((n + 1) - N + k) = 0
      BY <1>1, <1>2, <1>4 DEF AtLeast0
    <2>5. QED
      BY <1>4, <2>3, <2>4 DEF y
  <1>5. CASE n > 0
    <2>1. Converted(y)[k] = Rotated(buf, y)[k]
      BY <1>1, <1>5 DEF Converted
    <2>2. CASE k = N - 1
      <3>1. AtLeast0((n + 1) - N + k) = n
        BY <1>1, <1>5, <2>2 DEF AtLeast0
      <3>2. QED
        BY <1>3, <2>1, <2>2, <3>1 DEF y
    <2>3. CASE k # N - 1
      <3>1. k + 1 \in Window /\ k + 1 > N2 - n /\ n - N + (k + 1) = (n + 1) - N + k
        BY <1>1, <1>2, <2>3 DEF Window
      <3>2. buf[k + 1] = Turn(AtLeast0(n - N + (k + 1)))
        BY <1>5, <3>1 DEF WindowHolds
      <3>3. QED
        BY <1>3, <2>1, <2>3, <3>1, <3>2 DEF y
    <2>4. QED
      BY <2>2, <2>3
  <1>6. QED
    BY <1>1, <1>4, <1>5 DEF y

\* The line in the middle of the window, and the places the filter looks at.
LEMMA DecimatedIs ==
    ASSUME NEW b, NEW n
    PROVE  /\ Decimated(b, n).line = b[N2]
           /\ Even(n) => Decimated(b, n).taps = [k \in Taps \cup {N2} |-> b[k]]
  BY DEF Decimated, DecimateChromaVert, Plain

\* A line that is written from the middle of a window around it is right.
LEMMA RightLine ==
    ASSUME YcaType, NEW b, NEW i \in 1 .. height, NEW n \in Int,
           b[N2] = Turn(i - 1),
           height > N2 => n = i + N2,
           height > N2 => \A k \in Window :
               b[k] = Turn(IF i - 1 + k - N2 < 0 THEN 0
                           ELSE IF i - 1 + k - N2 >= height THEN height - 2
                           ELSE i - 1 + k - N2)
    PROVE  Right(Decimated(b, n), i)
  <1>1. /\ N \in Nat /\ N2 \in Nat /\ N = 2 * N2 + 1 /\ N2 % 2 = 1
        /\ height \in Nat /\ height > 0 /\ height % 2 = 0
    BY FilterWidth DEF YcaType
  <1>2. Decimated(b, n).line = InTurn(i)
    <2>1. i - 1 + 1 = i
      OBVIOUS
    <2>2. QED
      BY <2>1, DecimatedIs DEF Turn
  <1>3. ASSUME chroma, order = "increasing", height > N2, Even(InTurn(i))
        PROVE  Decimated(b, n).taps = Around(InTurn(i))
    <2>1. InTurn(i) = i - 1
      BY <1>3 DEF InTurn
    <2>2. Even(n)
      BY <1>1, <1>3, <2>1 DEF Even
    <2>3. Decimated(b, n).taps = [k \in Taps \cup {N2} |-> b[k]]
      BY <2>2, DecimatedIs
    <2>4. ASSUME NEW k \in Taps \cup {N2}
          PROVE  b[k] = LET m == i - 1 + k - N2
                        IN IF m < 0 THEN 0 ELSE IF m >= height THEN height - 2 ELSE m
      <3>1. k \in Window /\ k \in Int
        BY <1>1 DEF Taps, Window
      <3> DEFINE m == i - 1 + k - N2
                 z == IF m < 0 THEN 0 ELSE IF m >= height THEN height - 2 ELSE m
      <3>2. b[k] = Turn(z)
        BY <1>3, <3>1
      <3>3. z \in 0 .. height - 1
        BY <1>1, <3>1
      <3> HIDE DEF z
      <3>4. Turn(z) = z
        BY <1>3, <3>3, TurnLine
      <3>5. QED
        BY <3>2, <3>4 DEF z
    <2>5. QED
      BY <2>1, <2>3, <2>4 DEF Around
  <1>4. QED
    BY <1>2, <1>3 DEF Right

\* The window from which the last lines are written, in an image of more than N2 lines.
LEMMA LastWindow ==
    ASSUME YcaType, height > N2, NEW b, WindowHolds(b, height), NEW i \in 1 .. N2, NEW k \in Window
    PROVE  DuplicateLast(FirstAfterLast(b), i - 1)[k] =
               Turn(LET m == height - N2 + i - 1 + k - N2
                    IN IF m < 0 THEN 0 ELSE IF m >= height THEN height - 2 ELSE m)
  <1>1. /\ N \in Nat /\ N2 \in Nat /\ N = 2 * N2 + 1 /\ N2 >= 1
        /\ height \in Nat /\ height > 0 /\ height % 2 = 0
    BY FilterWidth DEF YcaType
  <1>2. k \in 0 .. N - 1
    BY DEF Window
  <1> DEFINE c == DuplicateLast(b, 0)
             d == FirstAfterLast(b)
             place == Smaller(k + (i - 1), N - 1)
  <1>3. \A j \in Window : c[j] = b[j]
    <2> SUFFICES ASSUME NEW j \in Window PROVE c[j] = b[j]
      OBVIOUS
    <2>1. Smaller(j + 0, N - 1) = j
      BY <1>1 DEF Window, Smaller
    <2>2. QED
      BY <2>1 DEF DuplicateLast
  <1>4. d = DuplicateSecondToLast(c)
    BY <1>1 DEF FirstAfterLast
  <1> HIDE DEF c, d
  <1>5. \A j \in Window : d[j] = IF j = N - 1 THEN c[N - 2] ELSE c[j + 1]
    BY <1>4 DEF DuplicateSecondToLast, Rotated
  <1>6. DuplicateLast(d, i - 1)[k] = d[place]
    BY DEF DuplicateLast
  <1>7. place \in Window
    BY <1>1, <1>2 DEF Smaller, Window
  <1>8. \A j \in Window : b[j] = Turn(AtLeast0(height - N + j))
    <2> SUFFICES ASSUME NEW j \in Window PROVE b[j] = Turn(AtLeast0(height - N + j))
      OBVIOUS
    <2>1. j > N2 - height
      BY <1>1 DEF Window
    <2>2. QED
      BY <2>1 DEF WindowHolds
  <1> DEFINE m == height - N2 + i - 1 + k - N2
  <1>9. CASE k + (i - 1) < N - 1
    <2>1. place = k + (i - 1) /\ place + 1 \in Window /\ place # N - 1 /\ place + 1 = k + i
      BY <1>1, <1>2, <1>9 DEF Smaller, Window
    <2>2. d[place] = b[k + i] /\ k + i \in Window
      BY <1>3, <1>5, <1>7, <2>1
    <2>3. AtLeast0(height - N + (k + i)) = (IF m < 0 THEN 0 ELSE IF m >= height THEN height - 2 ELSE m)
      BY <1>1, <1>2, <1>9 DEF AtLeast0
    <2>4. d[place] = Turn(AtLeast0(height - N + (k + i)))
      BY <1>8, <2>2
    <2>5. QED
      BY <1>6, <2>3, <2>4 DEF d
  <1>10. CASE ~ (k + (i - 1) < N - 1)
    <2>1. place = N - 1 /\ N - 2 \in Window
      BY <1>1, <1>2, <1>10 DEF Smaller, Window
    <2>2. d[place] = b[N - 2]
      BY <1>3, <1>5, <1>7, <2>1
    <2>3. AtLeast0(height - N + (N - 2)) = (IF m < 0 THEN 0 ELSE IF m >= height THEN height - 2 ELSE m)
      BY <1>1, <1>2, <1>10 DEF AtLeast0
    <2>4. d[place] = Turn(AtLeast0(height - N + (N - 2)))
      BY <1>8, <2>1, <2>2
    <2>5. QED
      BY <1>6, <2>3, <2>4 DEF d
  <1>11. QED
    BY <1>9, <1>10

\* The same for the middle of the window in an image of less lines.
LEMMA LastWindowShort ==
    ASSUME YcaType, ~ (height > N2), NEW b, WindowHolds(b, height), NEW i \in 1 .. height
    PROVE  DuplicateLast(FirstAfterLast(b), i - 1)[N2] = Turn(i - 1)
  <1>1. /\ N \in Nat /\ N2 \in Nat /\ N = 2 * N2 + 1 /\ N2 >= 1 /\ N2 % 2 = 1
        /\ height \in Nat /\ height > 0 /\ height % 2 = 0
    BY FilterWidth DEF YcaType
  <1> DEFINE short == N2 - height
             c == DuplicateLast(b, short)
             d == FirstAfterLast(b)
             place == Smaller(N2 + (i - 1), N - 1)
  <1>2. N2 > height /\ short \in Nat
    BY <1>1
  <1>3. d = DuplicateSecondToLast(c)
    BY <1>2 DEF FirstAfterLast
  <1>4. \A j \in Window : c[j] = b[Smaller(j + short, N - 1)]
    BY DEF DuplicateLast
  <1> HIDE DEF c, d
  <1>5. \A j \in Window : d[j] = IF j = N - 1 THEN c[N - 2] ELSE c[j + 1]
    BY <1>3 DEF DuplicateSecondToLast, Rotated
  <1>6. place = N2 + (i - 1) /\ place \in Window /\ place # N - 1 /\ place + 1 \in Window
    BY <1>1, <1>2 DEF Smaller, Window
  <1>7. N2 \in Window
    BY <1>1 DEF Window
  <1>8. DuplicateLast(d, i - 1)[N2] = d[place]
    BY <1>7 DEF DuplicateLast
  <1>9. d[place] = c[N2 + i]
    <2>1. place + 1 = N2 + i
      BY <1>1, <1>6
    <2>2. QED
      BY <1>5, <1>6, <2>1
  <1>10. /\ N2 + i \in Window /\ Smaller(N2 + i + short, N - 1) = N2 + i + short
         /\ N2 + i + short \in Window /\ N2 + i + short > N2 - height
    BY <1>1, <1>2 DEF Smaller, Window
  <1>11. c[N2 + i] = b[N2 + i + short]
    BY <1>4, <1>10
  <1>12. b[N2 + i + short] = Turn(AtLeast0(height - N + (N2 + i + short)))
    BY <1>10 DEF WindowHolds
  <1>13. AtLeast0(height - N + (N2 + i + short)) = i - 1
    BY <1>1, <1>2 DEF AtLeast0
  <1>14. QED
    BY <1>8, <1>9, <1>11, <1>12, <1>13 DEF d

\* What a step of the writer leaves alone.
LEMMA WriterFrame ==
    ASSUME YcaType, ReaderInv, imageVars' = imageVars, fromVars' = fromVars,
           scanLine' \in -1 .. height, converted' \in Nat, IsList(written')
    PROVE  YcaType' /\ ReaderInv'
  <1>1. height' = height /\ order' = order /\ chroma' = chroma /\ side' = side
    BY DEF imageVars
  <1>2. /\ buf1' = buf1 /\ buf2' = buf2 /\ lastLine' = lastLine /\ todo' = todo
        /\ frame' = frame /\ mixed' = mixed
    BY DEF fromVars
  <1>3. Line' = Line
    BY <1>1 DEF Line
  <1>4. IsList(written)'
    BY DEF IsList
  <1>5. YcaType'
    BY <1>1, <1>2, <1>3, <1>4 DEF YcaType
  <1>6. \A z : Clamped(z)' = Clamped(z) /\ Expected(z)' = Expected(z)
    BY <1>1 DEF Clamped, Expected
  <1>7. ReaderInv'
    BY <1>2, <1>6 DEF ReaderInv
  <1>8. QED
    BY <1>5, <1>7

\* The line that is next.
LEMMA NextLine ==
    ASSUME YcaType, scanLine \in Line, GoOn, imageVars' = imageVars
    PROVE  /\ Given \in 0 .. height - 1 /\ scanLine = Turn(Given)
           /\ Given' = Given + 1 /\ scanLine' \in -1 .. height
  <1>1. /\ height \in Nat /\ scanLine \in 0 .. height - 1 /\ order' = order /\ height' = height
        /\ order \in {"increasing", "decreasing"}
    BY FilterWidth DEF YcaType, Line, imageVars
  <1>2. Given \in 0 .. height - 1
    BY <1>1 DEF Given
  <1>3. scanLine = Turn(Given)
    BY <1>1, <1>2, TurnLine DEF Given
  <1>4. scanLine' = IF order = "increasing" THEN scanLine + 1 ELSE scanLine - 1
    BY <1>1 DEF GoOn
  <1>5. Given' = Given + 1
    BY <1>1, <1>4 DEF Given
  <1>6. QED
    BY <1>1, <1>2, <1>3, <1>4, <1>5

\* Lines that are right stay so when others follow.
LEMMA RightJoined ==
    ASSUME NEW u, NEW v, IsList(u), IsList(v),
           \A i \in DOMAIN u : Right(u[i], i),
           \A i \in 1 .. Len(v) : Right(v[i], Len(u) + i)
    PROVE  \A i \in DOMAIN (u \o v) : Right((u \o v)[i], i)
  <1> SUFFICES ASSUME NEW i \in DOMAIN (u \o v)
               PROVE  Right((u \o v)[i], i)
    OBVIOUS
  <1>1. /\ Len(u) \in Nat /\ Len(v) \in Nat /\ DOMAIN u = 1 .. Len(u)
        /\ i \in 1 .. Len(u) + Len(v)
        /\ (u \o v)[i] = IF i <= Len(u) THEN u[i] ELSE v[i - Len(u)]
    <2>1. DOMAIN (u \o v) = 1 .. Len(u) + Len(v)
      BY Joined
    <2>2. QED
      BY <2>1, Joined
  <1>2. CASE i <= Len(u)
    BY <1>1, <1>2
  <1>3. CASE ~ (i <= Len(u))
    <2>1. i - Len(u) \in 1 .. Len(v) /\ Len(u) + (i - Len(u)) = i
      BY <1>1, <1>3
    <2>2. Right(v[i - Len(u)], Len(u) + (i - Len(u)))
      BY <2>1
    <2>3. QED
      BY <1>1, <1>3, <2>1, <2>2
  <1>4. QED
    BY <1>2, <1>3

\* The line in the middle of the window after n lines, once there is one.
LEMMA RightInTurn ==
    ASSUME YcaType, NEW n \in N2 + 1 .. height, NEW b, WindowHolds(b, n)
    PROVE  Right(Decimated(b, n), n - N2)
  <1>1. N \in Nat /\ N2 \in Nat /\ N = 2 * N2 + 1 /\ height \in Nat /\ n \in Int
    BY FilterWidth DEF YcaType
  <1> DEFINE i == n - N2
  <1>2. i \in 1 .. height /\ n = i + N2 /\ i \in Int
    BY <1>1
  <1>3. ASSUME NEW k \in Window
        PROVE  b[k] = Turn(IF i - 1 + k - N2 < 0 THEN 0
                           ELSE IF i - 1 + k - N2 >= height THEN height - 2
                           ELSE i - 1 + k - N2)
    <2>1. k \in 0 .. N - 1 /\ k \in Int
      BY <1>1 DEF Window
    <2>2. k > N2 - n
      BY <1>1, <2>1
    <2>3. b[k] = Turn(AtLeast0(n - N + k))
      BY <2>2 DEF WindowHolds
    <2>4. AtLeast0(n - N + k) = IF i - 1 + k - N2 < 0 THEN 0
                                ELSE IF i - 1 + k - N2 >= height THEN height - 2
                                ELSE i - 1 + k - N2
      BY <1>1, <2>1 DEF AtLeast0
    <2>5. QED
      BY <2>3, <2>4
  <1>4. b[N2] = Turn(i - 1)
    <2>1. N2 \in Window /\ N2 > N2 - n
      BY <1>1 DEF Window
    <2>2. b[N2] = Turn(AtLeast0(n - N + N2))
      BY <2>1 DEF WindowHolds
    <2>3. AtLeast0(n - N + N2) = i - 1
      BY <1>1 DEF AtLeast0
    <2>4. QED
      BY <2>2, <2>3
  <1> HIDE DEF i
  <1>5. Right(Decimated(b, n), i)
    BY <1>1, <1>2, <1>3, <1>4, RightLine
  <1>6. QED
    BY <1>5 DEF i

\* The lines that are written after the last one was given.
LEMMA RestRight ==
    ASSUME YcaType, NEW b, WindowHolds(b, height)
    PROVE  LET out == Rest(b, height).out
               first == IF height > N2 THEN height - N2 ELSE 0
           IN /\ IsList(out) /\ Len(out) = height - first
              /\ \A i \in 1 .. Len(out) : Right(out[i], first + i)
  <1>1. /\ N \in Nat /\ N2 \in Nat /\ N = 2 * N2 + 1 /\ N2 >= 1 /\ N2 % 2 = 1
        /\ height \in Nat /\ height > 0 /\ height % 2 = 0
    BY FilterWidth DEF YcaType
  <1> DEFINE out == Rest(b, height).out
             first == IF height > N2 THEN height - N2 ELSE 0
             count == Smaller(height, N2)
             w(i) == DuplicateLast(FirstAfterLast(b), i - 1)
  <1>2. count \in Nat /\ count = height - first
    BY <1>1 DEF Smaller
  <1>3. out = [i \in 1 .. count |-> Decimated(w(i), height + i)]
    BY DEF Rest
  <1> HIDE DEF count, w
  <1>4. \A i \in 1 .. count : out[i] = Decimated(w(i), height + i)
    BY <1>3
  <1>5. out = [i \in 1 .. count |-> out[i]]
    BY <1>3, Zenon
  <1> HIDE DEF out
  <1>6. IsList(out) /\ Len(out) = count
    BY <1>2, <1>5, GivenList
  <1>7. ASSUME NEW i \in 1 .. count
        PROVE  Right(out[i], first + i)
    <2>1. CASE height > N2
      <3> DEFINE p == first + i
      <3>1. p = height - N2 + i /\ i \in 1 .. N2 /\ p \in 1 .. height /\ i \in Int
        BY <1>1, <1>2, <2>1
      <3> HIDE DEF p
      <3>2. height + i \in Int /\ height + i = p + N2 /\ p \in Int
        BY <1>1, <3>1
      <3>3. ASSUME NEW k \in Window
            PROVE  w(i)[k] = Turn(IF p - 1 + k - N2 < 0 THEN 0
                                  ELSE IF p - 1 + k - N2 >= height THEN height - 2
                                  ELSE p - 1 + k - N2)
        <4>1. k \in Int
          BY <1>1 DEF Window
        <4>2. w(i)[k] = Turn(LET m == height - N2 + i - 1 + k - N2
                             IN IF m < 0 THEN 0 ELSE IF m >= height THEN height - 2 ELSE m)
          BY <2>1, <3>1, LastWindow DEF w
        <4>3. height - N2 + i - 1 + k - N2 = p - 1 + k - N2
          BY <1>1, <3>1, <4>1
        <4>4. QED
          BY <4>2, <4>3
      <3>4. w(i)[N2] = Turn(p - 1)
        <4>1. N2 \in Window
          BY <1>1 DEF Window
        <4>2. p - 1 + N2 - N2 = p - 1 /\ ~ (p - 1 < 0) /\ ~ (p - 1 >= height)
          BY <1>1, <3>1, <3>2
        <4>3. QED
          BY <3>3, <4>1, <4>2
      <3>5. Right(Decimated(w(i), height + i), p)
        BY <3>1, <3>2, <3>3, <3>4, RightLine
      <3>6. QED
        BY <1>4, <3>5 DEF p
    <2>2. CASE ~ (height > N2)
      <3>1. first = 0 /\ i \in 1 .. height /\ first + i = i /\ height + i \in Int
        BY <1>1, <1>2, <2>2
      <3>2. w(i)[N2] = Turn(i - 1)
        BY <2>2, <3>1, LastWindowShort DEF w
      <3>3. Right(Decimated(w(i), height + i), i)
        BY <2>2, <3>1, <3>2, RightLine
      <3>4. QED
        BY <1>4, <3>1, <3>3
    <2>3. QED
      BY <2>1, <2>2
  <1>8. QED
    BY <1>2, <1>6, <1>7 DEF out

\* One more line of an image with chroma: it goes into the window, and the line in the
\* middle, or all that are left, to the file.
LEMMA ChromaKeepsInv ==
    ASSUME YcaInv, WriteChroma
    PROVE  YcaInv'
  <1> DEFINE n == Given
             b == Converted(scanLine)
             out == IF n + 1 > N2 THEN <<Decimated(b, n + 1)>> ELSE <<>>
             rest == Rest(b, n + 1)
             first == IF n + 1 > N2 THEN n + 1 - N2 ELSE 0
  <1>1. YcaType /\ WriterInv /\ ReaderInv
    BY DEF YcaInv
  <1>2. /\ side = "writer" /\ chroma /\ scanLine \in Line /\ GoOn
        /\ imageVars' = imageVars /\ fromVars' = fromVars
    BY DEF WriteChroma
  <1>3. N \in Nat /\ N2 \in Nat /\ N = 2 * N2 + 1 /\ height \in Nat
    BY <1>1, FilterWidth DEF YcaType
  <1>4. /\ n \in 0 .. height - 1 /\ scanLine = Turn(n) /\ Given' = n + 1
        /\ scanLine' \in -1 .. height
    BY <1>1, <1>2, NextLine
  <1>5. converted = n /\ Len(written) = (IF n > N2 THEN n - N2 ELSE 0)
        /\ (n > 0 => WindowHolds(buf, n))
    BY <1>1, <1>2, <1>3, <1>4 DEF WriterInv
  <1> HIDE DEF n
  <1>6. /\ written' = IF n + 1 >= height THEN written \o out \o rest.out ELSE written \o out
        /\ converted' = IF n + 1 >= height THEN rest.lines ELSE n + 1
        /\ ~ (n + 1 >= height) => buf' = b
    <2> DEFINE given(m) == IF m > N2 THEN <<Decimated(b, m)>> ELSE <<>>
    <2>1. /\ written' = IF converted + 1 >= height
                        THEN written \o given(converted + 1) \o Rest(b, converted + 1).out
                        ELSE written \o given(converted + 1)
          /\ converted' = IF converted + 1 >= height THEN Rest(b, converted + 1).lines
                          ELSE converted + 1
          /\ ~ (converted + 1 >= height) => buf' = b
      BY Zenon DEF WriteChroma
    <2>2. QED
      BY <1>5, <2>1, Zenon
  <1>7. WindowHolds(b, n + 1)
    BY <1>1, <1>4, <1>5, WindowMoves
  <1> HIDE DEF b
  <1>8. /\ IsList(out) /\ IsList(written)
        /\ Len(out) = first - Len(written)
        /\ \A i \in 1 .. Len(out) : Right(out[i], Len(written) + i)
    <2>1. IsList(written)
      BY <1>1 DEF YcaType
    <2>2. CASE n + 1 > N2
      <3>1. out = <<Decimated(b, n + 1)>>
        BY <2>2
      <3>2. IsList(out)
        <4>1. <<Decimated(b, n + 1)>> \in Seq({Decimated(b, n + 1)})
          OBVIOUS
        <4>2. QED
          BY <3>1, <4>1, Zenon DEF IsList
      <3>3. Len(out) = 1 /\ out[1] = Decimated(b, n + 1)
        BY <3>1
      <3>4. Len(written) = n - N2 /\ n + 1 \in N2 + 1 .. height /\ first = n + 1 - N2
            /\ Len(written) + 1 = (n + 1) - N2
        BY <1>3, <1>4, <1>5, <2>2
      <3>5. Right(Decimated(b, n + 1), (n + 1) - N2)
        BY <1>1, <1>7, <3>4, RightInTurn
      <3>6. first - Len(written) = 1
        BY <1>3, <1>4, <3>4
      <3> HIDE DEF out, first
      <3>7. \A i \in 1 .. Len(out) : i = 1
        BY <3>3
      <3>8. QED
        BY <2>1, <3>2, <3>3, <3>4, <3>5, <3>6, <3>7
    <2>3. CASE ~ (n + 1 > N2)
      <3>1. out = <<>> /\ first = 0 /\ Len(written) = 0
        BY <1>3, <1>4, <1>5, <2>3
      <3>2. IsList(out) /\ Len(out) = 0
        BY <3>1 DEF IsList
      <3> HIDE DEF out, first
      <3>3. QED
        BY <2>1, <3>1, <3>2
    <2>4. QED
      BY <2>2, <2>3
  <1> HIDE DEF out
  <1>9. /\ IsList(written \o out) /\ Len(written \o out) = first
        /\ \A i \in DOMAIN (written \o out) : Right((written \o out)[i], i)
    <2>1. first \in Int
      BY <1>3, <1>4
    <2> HIDE DEF first
    <2>2. \A i \in DOMAIN written : Right(written[i], i)
      BY <1>1 DEF WriterInv
    <2>3. \A i \in DOMAIN (written \o out) : Right((written \o out)[i], i)
      BY <1>8, <2>2, RightJoined
    <2>4. /\ IsList(written \o out) /\ Len(written \o out) = Len(written) + Len(out)
          /\ Len(written) \in Nat
      BY <1>8, Joined
    <2>5. QED
      BY <1>8, <2>1, <2>3, <2>4
  <1>10. CASE n + 1 < height
    <2>1. written' = written \o out /\ converted' = n + 1 /\ buf' = b
      <3>1. ~ (n + 1 >= height)
        BY <1>3, <1>4, <1>10
      <3>2. QED
        BY <1>6, <3>1, Zenon
    <2>2. YcaType' /\ ReaderInv'
      BY <1>1, <1>2, <1>3, <1>4, <1>9, <2>1, WriterFrame
    <2>3. /\ \A i \in DOMAIN written' : Right(written'[i], i)
          /\ Len(written') = IF n + 1 > N2 THEN n + 1 - N2 ELSE 0
          /\ Given' \in 0 .. height
          /\ ~ (Given' = height)
      BY <1>3, <1>4, <1>9, <1>10, <2>1
    <2>4. WriterInv'
      <3>1. WindowHolds(buf, Given)'
        <4>1. \A i : Turn(i)' = Turn(i)
          BY <1>2, ImageKept
        <4>2. QED
          BY <1>4, <1>7, <2>1, <4>1 DEF WindowHolds
      <3>2. side' = side /\ chroma' = chroma /\ height' = height
        BY <1>2, ImageKept
      <3>3. (\A i \in DOMAIN written : Right(written[i], i))'
        BY <1>2, <2>3, ImageKept
      <3>4. /\ converted' = Given' /\ ~ (Given' = height) /\ Given' \in 0 .. height
            /\ Len(written)' = IF Given' > N2 THEN Given' - N2 ELSE 0
        <4>1. n + 1 \in Int
          BY <1>3, <1>4
        <4> HIDE DEF first
        <4>2. converted' = Given'
          BY <1>4, <2>1
        <4>3. Len(written)' = IF Given' > N2 THEN Given' - N2 ELSE 0
          <5>1. CASE n + 1 > N2
            BY <1>3, <1>4, <2>3, <4>1, <5>1
          <5>2. CASE ~ (n + 1 > N2)
            BY <1>3, <1>4, <2>3, <4>1, <5>2
          <5>3. QED
            BY <5>1, <5>2
        <4>4. QED
          BY <2>3, <4>2, <4>3
      <3>5. QED
        BY <1>2, <3>1, <3>2, <3>3, <3>4, Zenon DEF WriterInv
    <2>5. QED
      BY <2>2, <2>4 DEF YcaInv
  <1>11. CASE ~ (n + 1 < height)
    <2>1. n + 1 = height /\ written' = written \o out \o rest.out /\ converted' = rest.lines
          /\ height > 0
      <3>1. n + 1 >= height /\ n + 1 = height /\ height > 0
        BY <1>3, <1>4, <1>11
      <3>2. QED
        BY <1>6, <3>1, Zenon
    <2>2. /\ IsList(rest.out) /\ Len(rest.out) = height - first
          /\ \A i \in 1 .. Len(rest.out) : Right(rest.out[i], first + i)
      <3>1. rest = Rest(b, height) /\ first = IF height > N2 THEN height - N2 ELSE 0
        <4>1. n + 1 = height /\ height \in Int /\ n \in Int
          BY <1>3, <1>4, <2>1
        <4>2. rest = Rest(b, n + 1) /\ first = IF n + 1 > N2 THEN n + 1 - N2 ELSE 0
          OBVIOUS
        <4> HIDE DEF rest, first
        <4>3. rest = Rest(b, height)
          BY <4>1, <4>2, Zenon
        <4>4. first = IF height > N2 THEN height - N2 ELSE 0
          BY <4>1, <4>2, <1>3
        <4>5. QED
          BY <4>3, <4>4
      <3>2. WindowHolds(b, height)
        BY <1>7, <2>1, Zenon
      <3> HIDE DEF rest, first
      <3>3. QED
        BY <1>1, <3>1, <3>2, RestRight
    <2>3. rest.lines \in Nat
      <3>1. rest.lines = n + 1 + Smaller(height, N2)
        BY DEF Rest
      <3>2. QED
        BY <1>3, <1>4, <3>1 DEF Smaller
    <2> HIDE DEF rest
    <2>4. \A i \in DOMAIN written' : Right(written'[i], i)
      BY <1>9, <2>1, <2>2, RightJoined
    <2>5. IsList(written') /\ Len(written') = height
      <3>1. first \in Int
        BY <1>3, <1>4
      <3>2. IsList(written') /\ Len(written') = Len(written \o out) + Len(rest.out)
        BY <1>9, <2>1, <2>2, Joined
      <3> HIDE DEF first
      <3>3. QED
        BY <1>3, <1>9, <2>2, <3>1, <3>2
    <2>6. YcaType' /\ ReaderInv'
      BY <1>1, <1>2, <1>4, <2>1, <2>3, <2>5, WriterFrame
    <2>7. Given' = height /\ Given' \in 0 .. height
      BY <1>3, <1>4, <2>1
    <2>8. WriterInv'
      BY <1>2, <2>4, <2>5, <2>7, <1>3, ImageKept DEF WriterInv
    <2>9. QED
      BY <2>6, <2>8 DEF YcaInv
  <1>12. QED
    BY <1>10, <1>11

\* One more line of an image without chroma.
LEMMA LuminanceKeepsInv ==
    ASSUME YcaInv, WriteLuminance
    PROVE  YcaInv'
  <1>1. YcaType /\ WriterInv /\ ReaderInv
    BY DEF YcaInv
  <1>2. /\ side = "writer" /\ ~ chroma /\ scanLine \in Line /\ GoOn
        /\ imageVars' = imageVars /\ fromVars' = fromVars
        /\ written' = Append(written, Plain(scanLine)) /\ converted' = converted + 1
    BY DEF WriteLuminance
  <1>3. /\ Given \in 0 .. height - 1 /\ scanLine = Turn(Given)
        /\ Given' = Given + 1 /\ scanLine' \in -1 .. height /\ height \in Nat
    BY <1>1, <1>2, NextLine, FilterWidth DEF YcaType
  <1>4. Len(written) = Given /\ \A i \in DOMAIN written : Right(written[i], i)
    BY <1>1, <1>2, <1>3 DEF WriterInv
  <1> DEFINE last == <<Plain(scanLine)>>
  <1>5. IsList(written) /\ IsList(last) /\ Len(last) = 1 /\ last[1] = Plain(scanLine)
    <2>1. last \in Seq({Plain(scanLine)})
      OBVIOUS
    <2>2. QED
      BY <1>1, <2>1 DEF IsList, YcaType
  <1>6. written' = written \o last
    <2>1. PICK S : written \in Seq(S)
      BY <1>5 DEF IsList
    <2>2. written \in Seq(S \cup {Plain(scanLine)})
      BY <2>1
    <2>3. QED
      BY <1>2, <2>2
  <1> HIDE DEF last
  <1>7. \A i \in 1 .. Len(last) : Right(last[i], Len(written) + i)
    <2>1. Right(Plain(scanLine), Given + 1)
      BY <1>2, <1>3 DEF Right, Plain, Turn
    <2>2. \A i \in 1 .. Len(last) : i = 1
      BY <1>5
    <2>3. QED
      BY <1>4, <1>5, <2>1, <2>2
  <1>8. \A i \in DOMAIN written' : Right(written'[i], i)
    BY <1>4, <1>5, <1>6, <1>7, RightJoined
  <1>9. IsList(written') /\ Len(written') = Given + 1
    <2>1. IsList(written \o last) /\ Len(written \o last) = Len(written) + Len(last)
      BY <1>5, Joined
    <2>2. QED
      BY <1>4, <1>5, <1>6, <2>1
  <1>10. converted' \in Nat
    BY <1>1, <1>2 DEF YcaType
  <1>11. YcaType' /\ ReaderInv'
    BY <1>1, <1>2, <1>3, <1>9, <1>10, WriterFrame
  <1>12. WriterInv'
    BY <1>2, <1>3, <1>8, <1>9, ImageKept DEF WriterInv
  <1>13. QED
    BY <1>11, <1>12 DEF YcaInv

-----------------------------------------------------------------------------
(* The invariant and the theorems.                                          *)

\* The new file.
LEMMA YcaStarts == YcaInit => YcaInv
  <1> SUFFICES ASSUME YcaInit PROVE YcaInv
    OBVIOUS
  <1>1. height \in Nat /\ height > 0 /\ N \in Nat /\ N2 \in Nat
    BY FilterWidth DEF YcaInit
  <1>2. IsList(written) /\ IsList(todo)
    <2>1. <<>> \in Seq({})
      OBVIOUS
    <2>2. QED
      BY <2>1 DEF YcaInit, IsList
  <1>3. YcaType
    <2>1. todo \in Seq(Line)
      BY DEF YcaInit
    <2>2. scanLine \in -1 .. height
      BY <1>1 DEF YcaInit
    <2>3. QED
      BY <1>2, <2>1, <2>2 DEF YcaInit, YcaType
  <1>4. Given = 0
    BY <1>1 DEF YcaInit, Given
  <1>5. written = <<>> /\ Len(written) = 0 /\ DOMAIN written = {} /\ converted = 0
    BY DEF YcaInit
  <1>6. WriterInv
    BY <1>1, <1>4, <1>5 DEF WriterInv
  <1>7. ReaderInv
    BY DEF YcaInit, ReaderInv
  <1>8. QED
    BY <1>3, <1>6, <1>7 DEF YcaInv

\* A step of something else.
LEMMA YcaStutters ==
    ASSUME YcaInv, UNCHANGED ycaVars
    PROVE  YcaInv'
  <1>1. imageVars' = imageVars /\ toVars' = toVars /\ fromVars' = fromVars
    BY DEF ycaVars, imageVars, toVars, fromVars
  <1>2. /\ buf1' = buf1 /\ buf2' = buf2 /\ lastLine' = lastLine /\ todo' = todo
        /\ frame' = frame /\ mixed' = mixed
    BY <1>1 DEF fromVars
  <1>3. YcaType /\ WriterInv /\ ReaderInv
    BY DEF YcaInv
  <1>4. YcaType'
    BY <1>1, <1>2, <1>3, ReaderType DEF YcaType
  <1>5. WriterInv'
    BY <1>1, <1>3, WriterKept
  <1>6. height' = height
    BY <1>1 DEF imageVars
  <1>7. ReaderInv'
    BY <1>2, <1>3, <1>6 DEF ReaderInv, Clamped, Expected
  <1>8. QED
    BY <1>4, <1>5, <1>7 DEF YcaInv

\* The invariant holds.
LEMMA YcaInductive == YcaSpec => []YcaInv
  <1>1. YcaInv /\ [YcaNext]_ycaVars => YcaInv'
    BY ChromaKeepsInv, LuminanceKeepsInv, CallKeepsInv, ReadLineKeepsInv, ReadFailsKeepsInv,
       YcaStutters DEF YcaNext
  <1>2. QED
    BY YcaStarts, <1>1, PTL DEF YcaSpec

(***************************************************************************)
(* For any width of the filters and any even height: after every line that *)
(* ToYca was given the lines in the file are the right ones, in the order  *)
(* of the file and with the chroma of the lines around, N2 lines behind    *)
(* the application, and all of them when the last line was given.          *)
(***************************************************************************)
THEOREM LinesAlwaysWritten == YcaSpec => []LinesWritten
  <1>1. YcaInv => LinesWritten
    <2> SUFFICES ASSUME YcaInv PROVE LinesWritten
      OBVIOUS
    <2>1. YcaType /\ WriterInv
      BY DEF YcaInv
    <2>2. \A i \in DOMAIN written : Right(written[i], i)
      BY <2>1 DEF WriterInv
    <2>3. ASSUME side = "writer"
          PROVE  Len(written) = IF Given = height \/ ~chroma THEN Given
                                ELSE IF Given > N2 THEN Given - N2 ELSE 0
      <3>1. height \in Nat /\ Given \in 0 .. height
        BY <2>1, <2>3, FilterWidth DEF YcaType, WriterInv
      <3>2. CASE ~ chroma
        BY <2>1, <2>3, <3>1, <3>2 DEF WriterInv
      <3>3. CASE chroma
        BY <2>1, <2>3, <3>1, <3>3 DEF WriterInv
      <3>4. QED
        BY <3>2, <3>3
    <2>4. QED
      BY <2>2, <2>3 DEF LinesWritten, Right, Given
  <1>2. QED
    BY YcaInductive, <1>1, PTL

(***************************************************************************)
(* For any width of the filters and any even height: a line that FromYca   *)
(* reads is made from the lines around it, whatever lines were read before *)
(* and in which order, and only from lines that have chroma, unless a read *)
(* failed and not all of the window was read again.                        *)
(***************************************************************************)
THEOREM LinesAlwaysRead == YcaSpec => []LinesRead
  <1>1. YcaInv => LinesRead
    <2> SUFFICES ASSUME YcaInv, frame # <<>>, ~ mixed
                 PROVE  /\ frame[2] = Expected(frame[1])
                        /\ \A i \in 0 .. 2 : \A k \in DOMAIN frame[2][i].taps :
                              Even(frame[2][i].taps[k])
      BY DEF LinesRead
    <2>1. frame = <<lastLine, buf2>> /\ lastLine # -N - 2 /\ buf2 = Expected(lastLine)
      BY DEF YcaInv, ReaderInv
    <2>2. frame[1] = lastLine /\ frame[2] = Expected(lastLine)
      BY <2>1
    <2>3. YcaType /\ lastLine \in Line
      BY <2>1 DEF YcaInv, YcaType
    <2>4. QED
      BY <2>2, <2>3, ExpectedEven
  <1>2. QED
    BY YcaInductive, <1>1, PTL

-----------------------------------------------------------------------------
(* TiledOutput.                                                             *)

\* The order of the file; the tiles that are in it.
Up == lineOrder = "INCREASING_Y"
Ordered == lineOrder # "RANDOM_Y"
Stored == {t \in Tile : tileOffsets[t] # 0}

\* Tile coordinates, also those beyond the last tile.
Coord == [dx : Int, dy : Int, lx : Nat, ly : Nat]

\* What is in the file.
FileInv ==
    /\ mode \in Modes
    /\ tileOffsets \in [Tile -> Nat]
    /\ chunks \in Seq([tile : Tile, data : Coord])
    /\ \A i \in 1 .. Len(chunks) :
          /\ Pixels(chunks[i].tile, chunks[i].data)
          /\ tileOffsets[chunks[i].tile] = i
          /\ Ordered => Rank(chunks[i].tile, Up) = i - 1
    /\ \A t \in Stored : tileOffsets[t] \in 1 .. Len(chunks) /\ chunks[tileOffsets[t]].tile = t
    /\ Cardinality(Stored) = Len(chunks)

\* What is in tileMap.
MapInv ==
    /\ DOMAIN tileMap \subseteq Tile
    /\ \A t \in DOMAIN tileMap : tileMap[t] \in Coord /\ Pixels(t, tileMap[t])

\* The tiles in the file are those before the next one, and there is a next one or these
\* are all.
OrderInv ==
    /\ next \in Coord
    /\ Ordered => /\ \A t \in Tile : t \in Stored <=> Precedes(t, next, Up)
                  /\ next \in Tile \/ \A t \in Tile : Precedes(t, next, Up)

\* A copy has as many tiles to go as are not in the file, and has one of these to go next.
CopyInv ==
    pc = "copying" =>
        /\ loop.tiles = Cardinality(Tile \ Stored) /\ loop.tiles > 0
        /\ next \in Tile \ Stored

TileBuffer == [sem : {0, 1}, task : BOOLEAN, tile : Coord, data : Coord, hasException : BOOLEAN]

\* The tile buffers: the one that a task uses is taken.
BufferInv ==
    /\ \E n \in Buffers : Slot = 0 .. n - 1
    /\ tileBuffers \in [Slot -> TileBuffer]
    /\ \A s \in Slot : tileBuffers[s].task => tileBuffers[s].sem = 0

Loop == [left : Nat, comp : Nat, write : Nat, x1 : Int, x2 : Int, yStart : Int,
         tiles : Nat, lx : Nat, ly : Nat]

\* How far a call of writeTiles is.
Progress ==
    /\ loop.write <= loop.comp /\ loop.write < loop.tiles
    /\ loop.comp <= loop.tiles /\ loop.comp <= loop.write + Cardinality(Slot)
    /\ pc = "adding" => /\ loop.left > 0 /\ loop.comp + loop.left <= loop.tiles
                        /\ loop.comp + loop.left <= loop.write + Cardinality(Slot)
                        /\ loop.comp + loop.left > loop.write
    /\ pc \in {"writing", "draining"} => loop.comp > loop.write

\* The turns of a call are tiles.
TurnsInv == \A i \in 0 .. loop.tiles - 1 : TurnOf(i) \in Tile

\* The tiles that were given to tasks and not taken from them lie in buffers of their own.
GivenInv ==
    \A i \in loop.write .. loop.comp - 1 :
        /\ tileBuffers[SlotOf(i)].tile = TurnOf(i)
        /\ ~tileBuffers[SlotOf(i)].task => Pixels(TurnOf(i), tileBuffers[SlotOf(i)].data)

CallInv ==
    /\ loop \in Loop
    /\ pc \in {"adding", "writing", "draining"} => Progress /\ TurnsInv /\ GivenInv
    /\ pc = "draining" => ~tileBuffers[CurrentSlot].task

\* Where the tiles are that were accepted.
HeldInv ==
    /\ accepted \subseteq Tile
    /\ ~Ordered => DOMAIN tileMap = {}
    /\ "mixed" \notin failures /\ pc # "closed" =>
          /\ accepted = Stored \cup DOMAIN tileMap
          /\ Stored \cap DOMAIN tileMap = {}
          /\ pc # "draining" => next \notin DOMAIN tileMap
          /\ pc = "copying" => DOMAIN tileMap = {}

TiledSound == FileInv /\ MapInv /\ OrderInv /\ CopyInv /\ BufferInv /\ CallInv /\ HeldInv

TiledInv == "write" \notin failures => TiledSound

-----------------------------------------------------------------------------
(* TiledOutput: division.                                                   *)

\* Multiples of b grow by b.
LEMMA MultiplesGrow ==
    ASSUME NEW b \in Nat \ {0}, NEW j \in Int, NEW k \in Int, j < k
    PROVE  j * b + b <= k * b
  OBVIOUS

\* Quotient and remainder.
LEMMA Divided ==
    ASSUME NEW b \in Nat \ {0}, NEW a \in Int
    PROVE  /\ a \div b \in Int /\ a % b \in 0 .. b - 1
           /\ a = (a \div b) * b + (a % b)
  OBVIOUS

\* Numbers fewer than b apart have different remainders.
LEMMA RemaindersDiffer ==
    ASSUME NEW b \in Nat \ {0}, NEW j \in Int, NEW k \in Int, j < k, k < j + b
    PROVE  j % b # k % b
  <1> SUFFICES ASSUME j % b = k % b PROVE FALSE
    OBVIOUS
  <1> DEFINE p == j \div b
             q == k \div b
  <1>1. /\ p \in Int /\ q \in Int /\ j % b \in Int
        /\ j = p * b + (j % b) /\ k = q * b + (j % b)
    BY Divided
  <1> HIDE DEF p, q
  <1>2. p * b \in Int /\ q * b \in Int
    BY <1>1
  <1>3. p < q => p * b + b <= q * b
    BY <1>1, MultiplesGrow
  <1>4. q < p => q * b + b <= p * b
    BY <1>1, MultiplesGrow
  <1>5. p = q => p * b = q * b
    OBVIOUS
  <1>6. QED
    BY <1>1, <1>2, <1>3, <1>4, <1>5

\* A number below a product has a quotient below the other factor.
LEMMA QuotientBelow ==
    ASSUME NEW w \in Nat \ {0}, NEW h \in Nat, NEW i \in 0 .. w * h - 1
    PROVE  i \div w \in 0 .. h - 1 /\ i % w \in 0 .. w - 1
  <1> DEFINE q == i \div w
  <1>1. q \in Int /\ i % w \in 0 .. w - 1 /\ i = q * w + (i % w) /\ i \in Int /\ w * h \in Int
        /\ 0 <= i /\ i < w * h
    BY Divided
  <1> HIDE DEF q
  <1>2. q * w \in Int /\ w * h = h * w
    BY <1>1
  <1>3. q < 0 => q * w + w <= 0 * w
    BY <1>1, MultiplesGrow
  <1>4. h < q => h * w + w <= q * w
    BY <1>1, MultiplesGrow
  <1>5. h = q => h * w = q * w
    OBVIOUS
  <1>6. q \in 0 .. h - 1
    BY <1>1, <1>2, <1>3, <1>4, <1>5
  <1>7. QED
    BY <1>1, <1>6 DEF q

-----------------------------------------------------------------------------
(* TiledOutput: levels and tiles.                                           *)

\* Each level has tiles.
LEMMA Levels ==
    ASSUME mode \in Modes
    PROVE  /\ numXLevels \in Nat \ {0} /\ numYLevels \in Nat \ {0}
           /\ \A l \in 0 .. numXLevels - 1 : numXTiles(l) \in Nat \ {0}
           /\ \A l \in 0 .. numYLevels - 1 : numYTiles(l) \in Nat \ {0}
           /\ mode = "ONE_LEVEL" => numXLevels = 1 /\ numYLevels = 1
           /\ mode \in {"ONE_LEVEL", "MIPMAP_LEVELS", "RIPMAP_LEVELS"}
  <1>1. /\ XTiles \in Seq(Nat \ {0}) /\ YTiles \in Seq(Nat \ {0})
        /\ Len(XTiles) \in Nat \ {0} /\ Len(YTiles) \in Nat \ {0}
    BY TiledAssumption
  <1>2. /\ numXLevels \in 1 .. Len(XTiles) /\ numYLevels \in 1 .. Len(YTiles)
        /\ mode = "ONE_LEVEL" => numXLevels = 1 /\ numYLevels = 1
    BY <1>1 DEF numXLevels, numYLevels
  <1>3. /\ \A i \in 1 .. Len(XTiles) : XTiles[i] \in Nat \ {0}
        /\ \A i \in 1 .. Len(YTiles) : YTiles[i] \in Nat \ {0}
    BY <1>1
  <1>4. \A l \in 0 .. numXLevels - 1 : l + 1 \in 1 .. Len(XTiles)
    BY <1>1, <1>2
  <1>5. \A l \in 0 .. numYLevels - 1 : l + 1 \in 1 .. Len(YTiles)
    BY <1>1, <1>2
  <1>6. /\ \A l \in 0 .. numXLevels - 1 : numXTiles(l) \in Nat \ {0}
        /\ \A l \in 0 .. numYLevels - 1 : numYTiles(l) \in Nat \ {0}
    BY <1>3, <1>4, <1>5 DEF numXTiles, numYTiles
  <1>7. QED
    BY <1>1, <1>2, <1>6, TiledAssumption

\* The coordinates of a tile.
LEMMA TileIs ==
    ASSUME mode \in Modes
    PROVE  \A t : t \in Tile <=>
              /\ t \in Coord
              /\ t.lx < numXLevels /\ t.ly < numYLevels
              /\ mode = "RIPMAP_LEVELS" \/ t.lx = t.ly
              /\ t.dx \in 0 .. numXTiles(t.lx) - 1 /\ t.dy \in 0 .. numYTiles(t.ly) - 1
  <1>1. numXLevels \in Nat /\ numYLevels \in Nat
    BY Levels
  <1> SUFFICES ASSUME NEW t
               PROVE  t \in Tile <=>
                         /\ t \in Coord
                         /\ t.lx < numXLevels /\ t.ly < numYLevels
                         /\ mode = "RIPMAP_LEVELS" \/ t.lx = t.ly
                         /\ t.dx \in 0 .. numXTiles(t.lx) - 1
                         /\ t.dy \in 0 .. numYTiles(t.ly) - 1
    OBVIOUS
  <1>2. ASSUME t \in Tile
        PROVE  /\ t \in Coord
               /\ t.lx < numXLevels /\ t.ly < numYLevels
               /\ mode = "RIPMAP_LEVELS" \/ t.lx = t.ly
               /\ t.dx \in 0 .. numXTiles(t.lx) - 1 /\ t.dy \in 0 .. numYTiles(t.ly) - 1
    <2>1. PICK l \in Level : \E dx \in 0 .. numXTiles(l[1]) - 1, dy \in 0 .. numYTiles(l[2]) - 1 :
              t = TileCoord(dx, dy, l[1], l[2])
      BY <1>2 DEF Tile
    <2>2. PICK dx \in 0 .. numXTiles(l[1]) - 1, dy \in 0 .. numYTiles(l[2]) - 1 :
              t = TileCoord(dx, dy, l[1], l[2])
      BY <2>1
    <2>3. /\ l[1] \in 0 .. numXLevels - 1 /\ l[2] \in 0 .. numYLevels - 1
          /\ mode = "RIPMAP_LEVELS" \/ l[1] = l[2]
      BY DEF Level
    <2>4. t.dx = dx /\ t.dy = dy /\ t.lx = l[1] /\ t.ly = l[2] /\ t \in Coord
      BY <1>1, <2>2, <2>3 DEF TileCoord, Coord
    <2>5. QED
      BY <1>1, <2>3, <2>4
  <1>3. ASSUME t \in Coord, t.lx < numXLevels, t.ly < numYLevels,
               mode = "RIPMAP_LEVELS" \/ t.lx = t.ly,
               t.dx \in 0 .. numXTiles(t.lx) - 1, t.dy \in 0 .. numYTiles(t.ly) - 1
        PROVE  t \in Tile
    <2> DEFINE l == <<t.lx, t.ly>>
    <2>1. l \in Level /\ l[1] = t.lx /\ l[2] = t.ly
      BY <1>1, <1>3 DEF Level, Coord
    <2>2. t = TileCoord(t.dx, t.dy, t.lx, t.ly)
      BY <1>3 DEF Coord, TileCoord
    <2> HIDE DEF l
    <2>3. t \in {TileCoord(dx, dy, l[1], l[2]) :
                    dx \in 0 .. numXTiles(l[1]) - 1, dy \in 0 .. numYTiles(l[2]) - 1}
      BY <1>3, <2>1, <2>2
    <2>4. QED
      BY <2>1, <2>3 DEF Tile
  <1>4. QED
    BY <1>2, <1>3

\* There are finitely many tiles.
LEMMA TilesFinite ==
    ASSUME mode \in Modes
    PROVE  IsFiniteSet(Tile)
  <1> DEFINE A(l) == 0 .. numXTiles(l[1]) - 1
             B(l) == 0 .. numYTiles(l[2]) - 1
             T(l) == {TileCoord(dx, dy, l[1], l[2]) : dx \in A(l), dy \in B(l)}
             g == [l \in Level |-> T(l)]
  <1>1. \A l \in Level : l[1] \in 0 .. numXLevels - 1 /\ l[2] \in 0 .. numYLevels - 1
    BY DEF Level
  <1>2. ASSUME NEW l \in Level PROVE IsFiniteSet(T(l))
    <2> DEFINE f == [p \in A(l) \X B(l) |-> TileCoord(p[1], p[2], l[1], l[2])]
    <2>1. numXTiles(l[1]) \in Nat /\ numYTiles(l[2]) \in Nat
      BY <1>1, Levels
    <2>2. 0 \in Int /\ numXTiles(l[1]) - 1 \in Int /\ numYTiles(l[2]) - 1 \in Int
      BY <2>1
    <2>3. IsFiniteSet(A(l))
      BY <2>2, FS_Interval
    <2>4. IsFiniteSet(B(l))
      BY <2>2, FS_Interval
    <2>5. IsFiniteSet(A(l) \X B(l))
      BY <2>3, <2>4, FS_Product
    <2>6. f \in Surjection(A(l) \X B(l), T(l))
      <3>1. f \in [A(l) \X B(l) -> T(l)]
        OBVIOUS
      <3>2. ASSUME NEW t \in T(l) PROVE \E p \in A(l) \X B(l) : f[p] = t
        <4>1. PICK dx \in A(l), dy \in B(l) : t = TileCoord(dx, dy, l[1], l[2])
          OBVIOUS
        <4>2. <<dx, dy>> \in A(l) \X B(l) /\ f[<<dx, dy>>] = t
          BY <4>1
        <4>3. QED
          BY <4>2
      <3> HIDE DEF f, T, A, B
      <3>3. QED
        BY <3>1, <3>2 DEF Surjection
    <2> HIDE DEF f, T, A, B
    <2>7. QED
      BY <2>5, <2>6, FS_Surjection
  <1>3. IsFiniteSet(Level)
    <2>1. numXLevels \in Nat /\ numYLevels \in Nat
      BY Levels
    <2>2. IsFiniteSet(0 .. numXLevels - 1) /\ IsFiniteSet(0 .. numYLevels - 1)
      BY <2>1, FS_Interval
    <2>3. IsFiniteSet((0 .. numXLevels - 1) \X (0 .. numYLevels - 1))
      BY <2>2, FS_Product
    <2>4. Level \in SUBSET ((0 .. numXLevels - 1) \X (0 .. numYLevels - 1))
      BY DEF Level
    <2>5. QED
      BY <2>3, <2>4, FS_Subset
  <1> DEFINE family == {T(l) : l \in Level}
  <1>4. Tile = UNION family
    BY DEF Tile
  <1>5. g \in Surjection(Level, family)
    <2> HIDE DEF T
    <2>1. g \in [Level -> family]
      OBVIOUS
    <2>2. \A t \in family : \E l \in Level : g[l] = t
      OBVIOUS
    <2> HIDE DEF g, family
    <2>3. QED
      BY <2>1, <2>2 DEF Surjection
  <1>6. \A t \in family : IsFiniteSet(t)
    <2> HIDE DEF T
    <2>1. QED
      BY <1>2
  <1> HIDE DEF g, family, T
  <1>7. IsFiniteSet(family)
    BY <1>3, <1>5, FS_Surjection
  <1>8. QED
    BY <1>4, <1>6, <1>7, FS_UNION

-----------------------------------------------------------------------------
(* TiledOutput: the order of the file.                                      *)

\* No tile comes before itself.
LEMMA NotBeforeItself ==
    ASSUME NEW t \in Coord
    PROVE  ~Precedes(t, t, Up)
  BY DEF Coord, Precedes

\* In a row that is not finished, the next tile is to the right.
LEMMA NextInRow ==
    ASSUME mode \in Modes, Ordered, NEW t \in Tile, t.dx + 1 < numXTiles(t.lx)
    PROVE  /\ nextTileCoord(t) \in Tile
           /\ \A u \in Tile : Precedes(u, nextTileCoord(t), Up) <=> Precedes(u, t, Up) \/ u = t
  <1> DEFINE n == [t EXCEPT !.dx = @ + 1]
  <1>1. /\ t \in Coord /\ t.lx < numXLevels /\ t.ly < numYLevels
        /\ mode = "RIPMAP_LEVELS" \/ t.lx = t.ly
        /\ t.dx \in 0 .. numXTiles(t.lx) - 1 /\ t.dy \in 0 .. numYTiles(t.ly) - 1
    BY TileIs
  <1>2. numXLevels \in Nat /\ numYLevels \in Nat
    BY Levels
  <1>3. t.lx \in 0 .. numXLevels - 1 /\ t.ly \in 0 .. numYLevels - 1
    BY <1>1, <1>2 DEF Coord
  <1>4. numXTiles(t.lx) \in Nat /\ numYTiles(t.ly) \in Nat
    BY <1>3, Levels
  <1>5. /\ n \in Coord
        /\ n.lx = t.lx /\ n.ly = t.ly /\ n.dy = t.dy /\ n.dx = t.dx + 1
        /\ n.dx \in 0 .. numXTiles(t.lx) - 1
    BY <1>1, <1>4 DEF Coord
  <1>6. nextTileCoord(t) = n
    BY DEF nextTileCoord
  <1> HIDE DEF n
  <1>7. n \in Tile
    BY <1>1, <1>5, TileIs
  <1>8. ASSUME NEW u \in Tile PROVE Precedes(u, n, Up) <=> Precedes(u, t, Up) \/ u = t
    <2>1. u \in Coord
      BY TileIs
    <2>2. u = t <=> u.dx = t.dx /\ u.dy = t.dy /\ u.lx = t.lx /\ u.ly = t.ly
      BY <1>1, <2>1 DEF Coord
    <2>3. QED
      BY <1>1, <1>5, <2>1, <2>2 DEF Coord, Precedes
  <1>9. QED
    BY <1>6, <1>7, <1>8

\* After a row, the next tile is the first one of the next row.
LEMMA NextRow ==
    ASSUME mode \in Modes, NEW t \in Tile, ~(t.dx + 1 < numXTiles(t.lx)),
           NEW row, row = IF lineOrder = "INCREASING_Y" THEN t.dy + 1 ELSE t.dy - 1,
           row \in 0 .. numYTiles(t.ly) - 1
    PROVE  /\ nextTileCoord(t) \in Tile
           /\ \A u \in Tile : Precedes(u, nextTileCoord(t), Up) <=> Precedes(u, t, Up) \/ u = t
  <1> DEFINE n == [t EXCEPT !.dx = 0, !.dy = row]
  <1>1. /\ t \in Coord /\ t.lx < numXLevels /\ t.ly < numYLevels
        /\ mode = "RIPMAP_LEVELS" \/ t.lx = t.ly
        /\ t.dx \in 0 .. numXTiles(t.lx) - 1 /\ t.dy \in 0 .. numYTiles(t.ly) - 1
    BY TileIs
  <1>2. numXLevels \in Nat /\ numYLevels \in Nat
    BY Levels
  <1>3. t.lx \in 0 .. numXLevels - 1 /\ t.ly \in 0 .. numYLevels - 1
    BY <1>1, <1>2 DEF Coord
  <1>4. numXTiles(t.lx) \in Nat \ {0} /\ numYTiles(t.ly) \in Nat \ {0}
    BY <1>3, Levels
  <1>5. /\ n \in Coord
        /\ n.lx = t.lx /\ n.ly = t.ly /\ n.dy = row /\ n.dx = 0
        /\ n.dx \in 0 .. numXTiles(t.lx) - 1
    <2>1. t.lx \in Nat /\ row \in Int /\ numYTiles(t.ly) \in Nat
      BY <1>1, <1>4 DEF Coord
    <2> DEFINE m == [t EXCEPT !.dx = 0]
    <2>2. n = [m EXCEPT !.dy = row]
      BY <1>1, <2>1 DEF Coord
    <2>3. m \in Coord /\ m.lx = t.lx /\ m.ly = t.ly /\ m.dx = 0
      BY <1>1 DEF Coord
    <2> HIDE DEF n, m
    <2>4. n \in Coord /\ n.lx = t.lx /\ n.ly = t.ly /\ n.dy = row /\ n.dx = 0
      BY <2>1, <2>2, <2>3 DEF Coord
    <2>5. QED
      BY <1>4, <2>4
  <1>6. nextTileCoord(t) = n
    BY DEF nextTileCoord
  <1> HIDE DEF n
  <1>7. n \in Tile
    BY <1>1, <1>5, TileIs
  <1>8. ASSUME NEW u \in Tile PROVE Precedes(u, n, Up) <=> Precedes(u, t, Up) \/ u = t
    <2>1. u \in Coord /\ u.dx \in 0 .. numXTiles(u.lx) - 1
      BY TileIs
    <2>2. u = t <=> u.dx = t.dx /\ u.dy = t.dy /\ u.lx = t.lx /\ u.ly = t.ly
      BY <1>1, <2>1 DEF Coord
    <2>3. u.lx = t.lx => 0 <= u.dx /\ u.dx <= t.dx
      BY <1>1, <1>4, <2>1
    <2>4. Up => (Precedes(u, n, Up) <=> Precedes(u, t, Up) \/ u = t)
      BY <1>1, <1>5, <2>1, <2>2, <2>3 DEF Coord, Precedes, Up
    <2>5. ~Up => (Precedes(u, n, Up) <=> Precedes(u, t, Up) \/ u = t)
      BY <1>1, <1>5, <2>1, <2>2, <2>3 DEF Coord, Precedes, Up
    <2>6. QED
      BY <2>4, <2>5
  <1>9. QED
    BY <1>6, <1>7, <1>8

\* The first tile of a level, and the tiles before it; all of them, if there is no such level.
LEMMA FirstOfLevel ==
    ASSUME mode \in Modes, NEW lx \in Nat, NEW ly \in Nat, mode = "RIPMAP_LEVELS" \/ lx = ly
    PROVE  /\ FirstOf(<<lx, ly>>) \in Coord
           /\ \A u \in Tile : Precedes(u, FirstOf(<<lx, ly>>), Up)
                                  <=> u.ly < ly \/ (u.ly = ly /\ u.lx < lx)
           /\ lx < numXLevels /\ ly < numYLevels => FirstOf(<<lx, ly>>) \in Tile
  <1> DEFINE n == FirstOf(<<lx, ly>>)
  <1>1. numXLevels \in Nat /\ numYLevels \in Nat
    BY Levels
  <1>2. /\ lx < numXLevels => numXTiles(lx) \in Nat \ {0}
        /\ ly < numYLevels => numYTiles(ly) \in Nat \ {0}
    <2>1. /\ lx < numXLevels => lx \in 0 .. numXLevels - 1
          /\ ly < numYLevels => ly \in 0 .. numYLevels - 1
      BY <1>1
    <2>2. QED
      BY <2>1, Levels
  <1>3. /\ n.dx = 0 /\ n.lx = lx /\ n.ly = ly /\ n \in Coord
        /\ Up => n.dy = 0
        /\ ~Up /\ ly < numYLevels => n.dy = numYTiles(ly) - 1
    <2>1. n = TileCoord(0, n.dy, lx, ly)
      BY DEF FirstOf, TileCoord
    <2>2. n.dy \in Int
      BY <1>2 DEF FirstOf, TileCoord
    <2>3. /\ Up => n.dy = 0
          /\ ~Up /\ ly < numYLevels => n.dy = numYTiles(ly) - 1
      BY DEF FirstOf, TileCoord, Up
    <2>4. QED
      BY <2>1, <2>2, <2>3 DEF TileCoord, Coord
  <1> HIDE DEF n
  <1>4. ASSUME NEW u \in Tile
        PROVE  Precedes(u, n, Up) <=> u.ly < ly \/ (u.ly = ly /\ u.lx < lx)
    <2>1. /\ u \in Coord /\ u.ly < numYLevels
          /\ u.dx \in 0 .. numXTiles(u.lx) - 1 /\ u.dy \in 0 .. numYTiles(u.ly) - 1
      BY TileIs
    <2>2. u.ly = ly => ly < numYLevels /\ numYTiles(ly) \in Nat /\ u.dy <= numYTiles(ly) - 1
      BY <1>2, <2>1 DEF Coord
    <2>3. u.dx >= 0 /\ u.dy >= 0
      BY <2>1 DEF Coord
    <2>4. QED
      BY <1>3, <2>1, <2>2, <2>3 DEF Precedes, Coord
  <1>5. ASSUME lx < numXLevels, ly < numYLevels PROVE n \in Tile
    <2>1. n.dx \in 0 .. numXTiles(lx) - 1 /\ n.dy \in 0 .. numYTiles(ly) - 1
      BY <1>2, <1>3, <1>5
    <2>2. QED
      BY <1>3, <1>5, <2>1, TileIs
  <1>6. QED
    BY <1>3, <1>4, <1>5 DEF n

\* After a level, the next tile is the first one of the next level, if there is one.
LEMMA NextLevelFirst ==
    ASSUME mode \in Modes, NEW t \in Tile, ~(t.dx + 1 < numXTiles(t.lx)),
           (IF lineOrder = "INCREASING_Y" THEN t.dy + 1 ELSE t.dy - 1)
               \notin 0 .. numYTiles(t.ly) - 1
    PROVE  /\ nextTileCoord(t) \in Coord
           /\ \A u \in Tile : Precedes(u, nextTileCoord(t), Up) <=> Precedes(u, t, Up) \/ u = t
           /\ \/ nextTileCoord(t) \in Tile
              \/ \A u \in Tile : Precedes(u, nextTileCoord(t), Up)
  <1>1. /\ t \in Coord /\ t.lx < numXLevels /\ t.ly < numYLevels
        /\ mode = "RIPMAP_LEVELS" \/ t.lx = t.ly
        /\ t.dx \in 0 .. numXTiles(t.lx) - 1 /\ t.dy \in 0 .. numYTiles(t.ly) - 1
    BY TileIs
  <1>2. numXLevels \in Nat /\ numYLevels \in Nat
    BY Levels
  <1>3. t.lx \in 0 .. numXLevels - 1 /\ t.ly \in 0 .. numYLevels - 1
    BY <1>1, <1>2 DEF Coord
  <1>4. numXTiles(t.lx) \in Nat \ {0} /\ numYTiles(t.ly) \in Nat \ {0}
    BY <1>3, Levels
  <1>5. /\ t.dx = numXTiles(t.lx) - 1
        /\ Up => t.dy = numYTiles(t.ly) - 1
        /\ ~Up => t.dy = 0
    BY <1>1, <1>4 DEF Up
  <1>6. ASSUME NEW u \in Tile
        PROVE  /\ u \in Coord /\ u.lx < numXLevels /\ u.ly < numYLevels
               /\ mode = "RIPMAP_LEVELS" \/ u.lx = u.ly
               /\ Precedes(u, t, Up) \/ u = t <=> u.ly < t.ly \/ (u.ly = t.ly /\ u.lx <= t.lx)
    <2>1. /\ u \in Coord /\ u.lx < numXLevels /\ u.ly < numYLevels
          /\ mode = "RIPMAP_LEVELS" \/ u.lx = u.ly
          /\ u.dx \in 0 .. numXTiles(u.lx) - 1 /\ u.dy \in 0 .. numYTiles(u.ly) - 1
      BY TileIs
    <2>2. u = t <=> u.dx = t.dx /\ u.dy = t.dy /\ u.lx = t.lx /\ u.ly = t.ly
      BY <1>1, <2>1 DEF Coord
    <2>3. u.lx = t.lx => u.dx <= t.dx
      BY <1>1, <1>4, <1>5, <2>1 DEF Coord
    <2>4. u.ly = t.ly => 0 <= u.dy /\ (Up => u.dy <= t.dy)
      BY <1>1, <1>4, <1>5, <2>1 DEF Coord
    <2>5. Precedes(u, t, Up) \/ u = t <=> u.ly < t.ly \/ (u.ly = t.ly /\ u.lx <= t.lx)
      BY <1>1, <1>5, <2>1, <2>2, <2>3, <2>4 DEF Coord, Precedes
    <2>6. QED
      BY <2>1, <2>5
  <1>7. nextTileCoord(t) = FirstOf(NextLevel(t))
    BY DEF nextTileCoord
  <1>8. CASE mode # "RIPMAP_LEVELS"
    <2>1. /\ t.lx = t.ly /\ t.lx + 1 \in Nat /\ t.ly + 1 \in Nat
          /\ NextLevel(t) = <<t.lx + 1, t.ly + 1>>
      BY <1>1, <1>8 DEF NextLevel, Coord
    <2> DEFINE n == FirstOf(<<t.lx + 1, t.ly + 1>>)
    <2>2. /\ n \in Coord
          /\ \A u \in Tile : Precedes(u, n, Up)
                                <=> u.ly < t.ly + 1 \/ (u.ly = t.ly + 1 /\ u.lx < t.lx + 1)
          /\ t.lx + 1 < numXLevels /\ t.ly + 1 < numYLevels => n \in Tile
      BY <2>1, FirstOfLevel
    <2> HIDE DEF n
    <2>3. \A u \in Tile : Precedes(u, n, Up) <=> Precedes(u, t, Up) \/ u = t
      BY <1>1, <1>6, <1>8, <2>1, <2>2 DEF Coord
    <2>4. n \in Tile \/ \A u \in Tile : Precedes(u, n, Up)
      BY <1>1, <1>2, <1>6, <1>8, <2>1, <2>2 DEF Coord
    <2>5. nextTileCoord(t) = n
      BY <1>7, <2>1 DEF n
    <2>6. QED
      BY <2>2, <2>3, <2>4, <2>5
  <1>9. CASE mode = "RIPMAP_LEVELS" /\ t.lx + 1 < numXLevels
    <2>1. /\ t.lx + 1 \in Nat /\ t.ly \in Nat
          /\ NextLevel(t) = <<t.lx + 1, t.ly>>
      BY <1>1, <1>9 DEF NextLevel, Coord
    <2> DEFINE n == FirstOf(<<t.lx + 1, t.ly>>)
    <2>2. /\ n \in Coord
          /\ \A u \in Tile : Precedes(u, n, Up)
                                <=> u.ly < t.ly \/ (u.ly = t.ly /\ u.lx < t.lx + 1)
          /\ n \in Tile
      BY <1>1, <1>9, <2>1, FirstOfLevel
    <2> HIDE DEF n
    <2>3. \A u \in Tile : Precedes(u, n, Up) <=> Precedes(u, t, Up) \/ u = t
      BY <1>1, <1>6, <2>2 DEF Coord
    <2>4. nextTileCoord(t) = n
      BY <1>7, <2>1 DEF n
    <2>5. QED
      BY <2>2, <2>3, <2>4
  <1>10. CASE mode = "RIPMAP_LEVELS" /\ ~(t.lx + 1 < numXLevels)
    <2>1. /\ 0 \in Nat /\ t.ly + 1 \in Nat
          /\ NextLevel(t) = <<0, t.ly + 1>>
      BY <1>1, <1>10 DEF NextLevel, Coord
    <2> DEFINE n == FirstOf(<<0, t.ly + 1>>)
    <2>2. /\ n \in Coord
          /\ \A u \in Tile : Precedes(u, n, Up)
                                <=> u.ly < t.ly + 1 \/ (u.ly = t.ly + 1 /\ u.lx < 0)
          /\ 0 < numXLevels /\ t.ly + 1 < numYLevels => n \in Tile
      BY <1>10, <2>1, FirstOfLevel
    <2> HIDE DEF n
    <2>3. \A u \in Tile : Precedes(u, n, Up) <=> Precedes(u, t, Up) \/ u = t
      BY <1>1, <1>2, <1>6, <1>10, <2>2 DEF Coord
    <2>4. n \in Tile \/ \A u \in Tile : Precedes(u, n, Up)
      BY <1>1, <1>2, <1>3, <1>6, <2>2 DEF Coord
    <2>5. nextTileCoord(t) = n
      BY <1>7, <2>1 DEF n
    <2>6. QED
      BY <2>2, <2>3, <2>4, <2>5
  <1>11. QED
    BY <1>8, <1>9, <1>10

\* The next tile comes after exactly the tiles up to this one; there is a next tile, or
\* this was the last one.
LEMMA NextTile ==
    ASSUME mode \in Modes, Ordered, NEW t \in Tile
    PROVE  /\ nextTileCoord(t) \in Coord
           /\ \A u \in Tile : Precedes(u, nextTileCoord(t), Up) <=> Precedes(u, t, Up) \/ u = t
           /\ \/ nextTileCoord(t) \in Tile
              \/ \A u \in Tile : Precedes(u, nextTileCoord(t), Up)
  <1>1. \A u \in Tile : u \in Coord
    BY TileIs
  <1> DEFINE dy == IF lineOrder = "INCREASING_Y" THEN t.dy + 1 ELSE t.dy - 1
  <1>2. CASE t.dx + 1 < numXTiles(t.lx)
    BY <1>1, <1>2, NextInRow
  <1>3. CASE ~(t.dx + 1 < numXTiles(t.lx)) /\ dy \in 0 .. numYTiles(t.ly) - 1
    BY <1>1, <1>3, NextRow
  <1>4. CASE ~(t.dx + 1 < numXTiles(t.lx)) /\ dy \notin 0 .. numYTiles(t.ly) - 1
    BY <1>4, NextLevelFirst
  <1>5. QED
    BY <1>2, <1>3, <1>4

\* The first tile of the file: nothing comes before it.
LEMMA FirstTile ==
    ASSUME mode \in Modes
    PROVE  /\ TileCoord(0, IF lineOrder = "INCREASING_Y" THEN 0 ELSE numYTiles(0) - 1, 0, 0) \in Tile
           /\ \A u \in Tile : ~Precedes(u, TileCoord(0, IF lineOrder = "INCREASING_Y" THEN 0
                                                        ELSE numYTiles(0) - 1, 0, 0), Up)
  <1>1. numXLevels \in Nat \ {0} /\ numYLevels \in Nat \ {0}
    BY Levels
  <1>2. /\ FirstOf(<<0, 0>>) \in Tile
        /\ \A u \in Tile : Precedes(u, FirstOf(<<0, 0>>), Up) <=> u.ly < 0 \/ (u.ly = 0 /\ u.lx < 0)
    BY <1>1, FirstOfLevel
  <1>3. \A u \in Tile : u.lx \in Nat /\ u.ly \in Nat
    BY TileIs DEF Coord
  <1>4. FirstOf(<<0, 0>>)
            = TileCoord(0, IF lineOrder = "INCREASING_Y" THEN 0 ELSE numYTiles(0) - 1, 0, 0)
    BY <1>1 DEF FirstOf
  <1>5. QED
    BY <1>2, <1>3, <1>4

-----------------------------------------------------------------------------
(* TiledOutput: the turns of a call and the tile buffers they use.          *)

\* The tile buffers are numbered.
LEMMA SlotsNumbered ==
    ASSUME NEW n \in Nat \ {0}, Slot = 0 .. n - 1
    PROVE  Cardinality(Slot) = n
  <1>1. 0 \in Int /\ n - 1 \in Int
    OBVIOUS
  <1>2. Cardinality(0 .. n - 1) = IF 0 > n - 1 THEN 0 ELSE (n - 1) - 0 + 1
    BY <1>1, FS_Interval
  <1>3. QED
    BY <1>2

\* Each turn has a tile buffer, and turns that overlap have different ones.
LEMMA Slots ==
    ASSUME \E n \in Buffers : Slot = 0 .. n - 1
    PROVE  /\ Cardinality(Slot) \in Nat \ {0}
           /\ \A i \in Int : SlotOf(i) \in Slot
           /\ \A i, j \in Int : i < j /\ j < i + Cardinality(Slot) => SlotOf(i) # SlotOf(j)
  <1>1. PICK n \in Buffers : Slot = 0 .. n - 1
    OBVIOUS
  <1>2. n \in Nat \ {0}
    BY TiledAssumption
  <1>3. Cardinality(Slot) = n
    BY <1>1, <1>2, SlotsNumbered
  <1>4. \A i \in Int : SlotOf(i) = i % n
    BY <1>3 DEF SlotOf
  <1>5. \A i \in Int : i % n \in 0 .. n - 1
    BY <1>2
  <1>6. \A i, j \in Int : i < j /\ j < i + n => i % n # j % n
    BY <1>2, RemaindersDiffer
  <1>7. QED
    BY <1>1, <1>2, <1>3, <1>4, <1>5, <1>6

\* The turns of a call for a range of tiles are the tiles of the range.
LEMMA RangeTiles ==
    ASSUME mode \in Modes, NEW l \in Level,
           NEW x1 \in 0 .. numXTiles(l[1]) - 1, NEW x2 \in 0 .. numXTiles(l[1]) - 1,
           NEW y1 \in 0 .. numYTiles(l[2]) - 1, NEW y2 \in 0 .. numYTiles(l[2]) - 1,
           x1 <= x2, y1 <= y2,
           NEW i \in 0 .. (x2 - x1 + 1) * (y2 - y1 + 1) - 1
    PROVE  /\ TileCoord(x1 + (i % (x2 - x1 + 1)), y2 - (i \div (x2 - x1 + 1)), l[1], l[2]) \in Tile
           /\ TileCoord(x1 + (i % (x2 - x1 + 1)), y1 + (i \div (x2 - x1 + 1)), l[1], l[2]) \in Tile
  <1>1. /\ l[1] \in 0 .. numXLevels - 1 /\ l[2] \in 0 .. numYLevels - 1
        /\ mode = "RIPMAP_LEVELS" \/ l[1] = l[2]
    BY DEF Level
  <1>2. numXLevels \in Nat /\ numYLevels \in Nat
    BY Levels
  <1>3. numXTiles(l[1]) \in Nat /\ numYTiles(l[2]) \in Nat
    BY <1>1, Levels
  <1> DEFINE w == x2 - x1 + 1
             h == y2 - y1 + 1
             q == i \div w
             r == i % w
  <1>4. w \in Nat \ {0} /\ h \in Nat
    BY <1>3
  <1>5. q \in 0 .. h - 1 /\ r \in 0 .. w - 1
    <2> HIDE DEF w, h
    <2>1. i \in 0 .. w * h - 1
      BY DEF w, h
    <2>2. QED
      BY <1>4, <2>1, QuotientBelow
  <1>6. /\ x1 + r \in 0 .. numXTiles(l[1]) - 1
        /\ y2 - q \in 0 .. numYTiles(l[2]) - 1 /\ y1 + q \in 0 .. numYTiles(l[2]) - 1
    <2> HIDE DEF q, r
    <2>1. QED
      BY <1>3, <1>5
  <1> HIDE DEF w, h, q, r
  <1>7. ASSUME NEW x \in 0 .. numXTiles(l[1]) - 1, NEW y \in 0 .. numYTiles(l[2]) - 1
        PROVE  TileCoord(x, y, l[1], l[2]) \in Tile
    <2>1. TileCoord(x, y, l[1], l[2]) \in
              {TileCoord(dx, dy, l[1], l[2]) :
                  dx \in 0 .. numXTiles(l[1]) - 1, dy \in 0 .. numYTiles(l[2]) - 1}
      OBVIOUS
    <2>2. QED
      BY <2>1 DEF Tile
  <1>8. QED
    BY <1>6, <1>7 DEF q, r, w

-----------------------------------------------------------------------------
(* TiledOutput: what a step leaves alone.                                   *)

\* The tiles depend on the level mode only.
LEMMA SameTiles ==
    ASSUME mode' = mode
    PROVE  Tile' = Tile
  BY DEF Tile, Level, numXLevels, numYLevels, numXTiles, numYTiles

\* Once the compressor threw, a chunk may hold a tile that was not compressed.
LEMMA PixelsKept ==
    ASSUME failures \subseteq failures', NEW t, NEW d, Pixels(t, d)
    PROVE  Pixels(t, d)'
  BY DEF Pixels

\* A tile's own data will always do.
LEMMA OwnPixels ==
    ASSUME NEW t
    PROVE  Pixels(t, t)
  BY DEF Pixels

LEMMA FileKept ==
    ASSUME FileInv, UNCHANGED <<mode, lineOrder, tileOffsets, chunks>>, failures \subseteq failures'
    PROVE  FileInv' /\ Stored' = Stored
  <1>1. Tile' = Tile
    BY SameTiles
  <1>2. Stored' = Stored
    BY <1>1 DEF Stored
  <1>3. /\ Ordered' = Ordered /\ Up' = Up
    BY DEF Ordered, Up
  <1>4. ASSUME NEW t, NEW up PROVE Rank(t, up)' = Rank(t, up)
    BY <1>1 DEF Rank
  <1>5. /\ mode' \in Modes
        /\ tileOffsets' \in [Tile' -> Nat]
        /\ chunks' \in Seq([tile : Tile', data : Coord])
        /\ Cardinality(Stored') = Len(chunks')
    BY <1>1, <1>2 DEF FileInv
  <1>6. ASSUME NEW i \in 1 .. Len(chunks)
        PROVE  /\ Pixels(chunks[i].tile, chunks[i].data)'
               /\ tileOffsets[chunks[i].tile] = i
               /\ Ordered => Rank(chunks[i].tile, Up)' = i - 1
    BY <1>3, <1>4, PixelsKept DEF FileInv
  <1>7. \A t \in Stored : tileOffsets[t] \in 1 .. Len(chunks) /\ chunks[tileOffsets[t]].tile = t
    BY DEF FileInv
  <1>8. QED
    BY <1>2, <1>3, <1>5, <1>6, <1>7 DEF FileInv

LEMMA MapKept ==
    ASSUME MapInv, UNCHANGED <<mode, tileMap>>, failures \subseteq failures'
    PROVE  MapInv'
  <1>1. Tile' = Tile
    BY SameTiles
  <1>2. \A t \in DOMAIN tileMap : Pixels(t, tileMap[t])'
    BY PixelsKept DEF MapInv
  <1>3. QED
    BY <1>1, <1>2 DEF MapInv

LEMMA OrderKept ==
    ASSUME OrderInv, UNCHANGED <<mode, lineOrder, next, tileOffsets>>
    PROVE  OrderInv'
  <1>1. Tile' = Tile
    BY SameTiles
  <1>2. Stored' = Stored /\ Ordered' = Ordered /\ Up' = Up
    BY <1>1 DEF Stored, Ordered, Up
  <1>3. QED
    BY <1>1, <1>2 DEF OrderInv

LEMMA BuffersKept ==
    ASSUME BufferInv, UNCHANGED tileBuffers
    PROVE  BufferInv'
  BY DEF BufferInv, Slot

LEMMA TurnsKept ==
    ASSUME loop'.x1 = loop.x1, loop'.x2 = loop.x2, loop'.yStart = loop.yStart,
           loop'.lx = loop.lx, loop'.ly = loop.ly, lineOrder' = lineOrder, NEW i
    PROVE  TurnOf(i)' = TurnOf(i)
  BY DEF TurnOf

\* A call that stays where it is, with the same tile buffers.
LEMMA CallKept ==
    ASSUME CallInv, UNCHANGED <<mode, lineOrder, tileBuffers, pc, loop>>, failures \subseteq failures'
    PROVE  CallInv'
  <1>1. Tile' = Tile
    BY SameTiles
  <1>2. Slot' = Slot /\ Cardinality(Slot)' = Cardinality(Slot)
    BY DEF Slot
  <1>3. ASSUME NEW i PROVE TurnOf(i)' = TurnOf(i) /\ SlotOf(i)' = SlotOf(i)
    BY <1>2, TurnsKept DEF SlotOf
  <1>4. Progress => Progress'
    BY <1>2 DEF Progress
  <1>5. TurnsInv => TurnsInv'
    BY <1>1, <1>3 DEF TurnsInv
  <1>6. ASSUME GivenInv PROVE GivenInv'
    <2>1. ASSUME NEW i \in loop.write .. loop.comp - 1
          PROVE  /\ tileBuffers[SlotOf(i)].tile = TurnOf(i)
                 /\ ~tileBuffers[SlotOf(i)].task => Pixels(TurnOf(i), tileBuffers[SlotOf(i)].data)'
      BY <1>3, <1>6 DEF GivenInv, Pixels
    <2>2. QED
      BY <1>3, <2>1 DEF GivenInv
  <1>7. CurrentSlot' = CurrentSlot
    BY <1>3 DEF CurrentSlot
  <1>8. QED
    BY <1>4, <1>5, <1>6, <1>7 DEF CallInv

\* Between the calls of writeTiles nothing is said of the turns.
LEMMA NoCall ==
    ASSUME loop' \in Loop, pc' \notin {"adding", "writing", "draining"}
    PROVE  CallInv'
  BY DEF CallInv

LEMMA NoCopy ==
    ASSUME pc' # "copying"
    PROVE  CopyInv'
  BY DEF CopyInv

\* The loop's locals when there is no call.
LEMMA NoLoopType == NoLoop \in Loop
  BY DEF NoLoop, Loop

\* The tiles accepted stay where they are, between two points of a call that are alike.
LEMMA HeldKept ==
    ASSUME HeldInv, UNCHANGED <<mode, lineOrder, tileOffsets, tileMap, next, accepted>>,
           failures \subseteq failures', pc # "closed", pc' # "copying",
           pc # "draining" \/ pc' = "draining" \/ next \notin DOMAIN tileMap
    PROVE  HeldInv'
  <1>1. Tile' = Tile
    BY SameTiles
  <1>2. Stored' = Stored /\ Ordered' = Ordered
    BY <1>1 DEF Stored, Ordered
  <1>3. QED
    BY <1>1, <1>2 DEF HeldInv

-----------------------------------------------------------------------------
(* TiledOutput: a tile goes to the file.                                    *)

\* In a file that is in order, the next tile has as many tiles before it as are in the file.
LEMMA RankOfNext ==
    ASSUME FileInv, OrderInv, Ordered
    PROVE  Rank(next, Up) = Len(chunks)
  <1>1. {u \in Tile : Precedes(u, next, Up)} = Stored
    BY DEF OrderInv, Stored
  <1>2. QED
    BY <1>1 DEF Rank, FileInv

LEMMA StoredFinite ==
    ASSUME FileInv
    PROVE  IsFiniteSet(Stored) /\ Stored \subseteq Tile
  <1>1. IsFiniteSet(Tile) /\ Stored \in SUBSET Tile
    BY TilesFinite DEF FileInv, Stored
  <1>2. QED
    BY <1>1, FS_Subset

LEMMA ElementOf ==
    ASSUME NEW S, NEW s \in Seq(S), NEW i \in 1 .. Len(s)
    PROVE  s[i] \in S
  OBVIOUS

LEMMA TileWritten ==
    ASSUME FileInv, UNCHANGED <<mode, lineOrder>>, failures \subseteq failures',
           NEW t \in Tile, t \notin Stored, NEW data \in Coord, Pixels(t, data),
           Ordered => Rank(t, Up) = Len(chunks),
           writeTileData(t, data)
    PROVE  FileInv' /\ Stored' = Stored \cup {t}
  <1>1. Tile' = Tile
    BY SameTiles
  <1> DEFINE n == Len(chunks)
  <1>2. /\ tileOffsets \in [Tile -> Nat] /\ chunks \in Seq([tile : Tile, data : Coord])
        /\ n \in Nat
    BY DEF FileInv
  <1>3. /\ tileOffsets' = [tileOffsets EXCEPT ![t] = n + 1]
        /\ chunks' = Append(chunks, [tile |-> t, data |-> data])
    BY DEF writeTileData
  <1>4. /\ tileOffsets' \in [Tile -> Nat]
        /\ tileOffsets'[t] = n + 1 /\ \A u \in Tile \ {t} : tileOffsets'[u] = tileOffsets[u]
    <2> HIDE DEF n
    <2>1. QED
      BY <1>2, <1>3
  <1>5. /\ chunks' \in Seq([tile : Tile, data : Coord]) /\ Len(chunks') = n + 1
        /\ chunks'[n + 1] = [tile |-> t, data |-> data]
        /\ \A i \in 1 .. n : chunks'[i] = chunks[i]
    BY <1>2, <1>3
  <1> HIDE DEF n
  <1>6. Stored' = Stored \cup {t}
    <2>1. \A u \in Tile : tileOffsets'[u] # 0 <=> tileOffsets[u] # 0 \/ u = t
      BY <1>2, <1>4
    <2>2. QED
      BY <1>1, <2>1 DEF Stored
  <1>7. Cardinality(Stored') = n + 1
    <2>1. Cardinality(Stored \cup {t}) = Cardinality(Stored) + 1
      BY StoredFinite, FS_AddElement
    <2>2. QED
      BY <1>6, <2>1 DEF FileInv, n
  <1>8. \A u, up : Rank(u, up)' = Rank(u, up)
    BY <1>1 DEF Rank
  <1>9. Ordered' = Ordered /\ Up' = Up
    BY DEF Ordered, Up
  <1>10. ASSUME NEW i \in 1 .. n + 1
         PROVE  /\ chunks'[i].tile \in Tile
                /\ Pixels(chunks[i].tile, chunks[i].data)'
                /\ tileOffsets'[chunks'[i].tile] = i
                /\ Ordered => Rank(chunks'[i].tile, Up) = i - 1
    <2>1. CASE i \in 1 .. n
      <3>1. /\ chunks[i].tile \in Tile /\ Pixels(chunks[i].tile, chunks[i].data)
            /\ tileOffsets[chunks[i].tile] = i
            /\ Ordered => Rank(chunks[i].tile, Up) = i - 1
        <4>1. chunks \in Seq([tile : Tile, data : Coord]) /\ i \in 1 .. Len(chunks)
          BY <1>2, <2>1 DEF n
        <4>2. chunks[i] \in [tile : Tile, data : Coord]
          BY <4>1, ElementOf
        <4>3. QED
          BY <4>1, <4>2 DEF FileInv
      <3>2. chunks[i].tile # t
        BY <2>1, <3>1 DEF Stored
      <3>3. Pixels(chunks[i].tile, chunks[i].data)'
        BY <1>5, <2>1, <3>1 DEF Pixels
      <3>4. QED
        BY <1>4, <1>5, <2>1, <3>1, <3>2, <3>3
    <2>2. CASE i = n + 1
      <3>1. chunks'[i].tile = t /\ chunks'[i].data = data
        BY <1>5, <2>2
      <3>2. Pixels(chunks[i].tile, chunks[i].data)'
        BY <3>1 DEF Pixels
      <3>3. QED
        BY <1>2, <1>4, <2>2, <3>1, <3>2 DEF n
    <2>3. QED
      BY <1>2, <2>1, <2>2
  <1>11. ASSUME NEW u \in Stored'
         PROVE  tileOffsets'[u] \in 1 .. n + 1 /\ chunks'[tileOffsets'[u]].tile = u
    <2>1. CASE u = t
      BY <1>2, <1>4, <1>5, <2>1
    <2>2. CASE u # t
      <3>1. /\ u \in Stored /\ u \in Tile
            /\ tileOffsets[u] \in 1 .. n /\ chunks[tileOffsets[u]].tile = u
        BY <1>6, <2>2 DEF FileInv, Stored, n
      <3>2. tileOffsets'[u] = tileOffsets[u]
        BY <1>4, <2>2, <3>1
      <3>3. QED
        BY <1>2, <1>5, <3>1, <3>2
    <2>3. QED
      BY <2>1, <2>2
  <1>12. mode' \in Modes
    BY DEF FileInv
  <1>13. FileInv'
    BY <1>1, <1>4, <1>5, <1>7, <1>8, <1>9, <1>10, <1>11, <1>12 DEF FileInv
  <1>14. QED
    BY <1>6, <1>13

\* After the next tile, the one after it is next.
LEMMA OrderMoves ==
    ASSUME FileInv, OrderInv, Ordered, UNCHANGED <<mode, lineOrder>>, next \in Tile,
           next' = nextTileCoord(next), Stored' = Stored \cup {next}
    PROVE  OrderInv'
  <1>1. Tile' = Tile /\ Up' = Up /\ Ordered
    BY SameTiles DEF Up
  <1>2. /\ next' \in Coord
        /\ \A u \in Tile : Precedes(u, next', Up) <=> Precedes(u, next, Up) \/ u = next
        /\ next' \in Tile \/ \A u \in Tile : Precedes(u, next', Up)
    BY NextTile DEF FileInv
  <1>3. \A u \in Tile : u \in Stored' <=> Precedes(u, next', Up)
    BY <1>2 DEF OrderInv
  <1>4. QED
    BY <1>1, <1>2, <1>3 DEF OrderInv

\* The next tile is not in the file.
LEMMA NextNotStored ==
    ASSUME OrderInv, Ordered
    PROVE  next \notin Stored
  <1>1. ~Precedes(next, next, Up)
    BY NotBeforeItself DEF OrderInv
  <1>2. QED
    BY <1>1 DEF OrderInv, Stored

-----------------------------------------------------------------------------
(* TiledOutput: tile buffers and turns.                                     *)

\* A turn in progress has a tile buffer of its own.
LEMMA OwnSlot ==
    ASSUME BufferInv, loop \in Loop, Progress
    PROVE  /\ CurrentSlot \in Slot
           /\ \A i \in loop.write + 1 .. loop.comp - 1 : SlotOf(i) \in Slot /\ SlotOf(i) # CurrentSlot
  <1>1. /\ loop.write \in Nat /\ loop.comp \in Nat
        /\ loop.comp <= loop.write + Cardinality(Slot)
    BY DEF Loop, Progress
  <1>2. /\ Cardinality(Slot) \in Nat
        /\ \A i \in Int : SlotOf(i) \in Slot
        /\ \A i, j \in Int : i < j /\ j < i + Cardinality(Slot) => SlotOf(i) # SlotOf(j)
    BY Slots DEF BufferInv
  <1>3. ASSUME NEW i \in loop.write + 1 .. loop.comp - 1
        PROVE  SlotOf(i) # SlotOf(loop.write)
    BY <1>1, <1>2
  <1>4. QED
    BY <1>1, <1>2, <1>3 DEF CurrentSlot

\* Taking or posting a tile buffer that no task uses.
LEMMA BufferTaken ==
    ASSUME BufferInv, NEW s \in Slot, tileBuffers' = [tileBuffers EXCEPT ![s].sem = 0]
    PROVE  BufferInv'
  <1>1. Slot' = Slot
    BY DEF Slot
  <1>2. tileBuffers \in [Slot -> TileBuffer]
    BY DEF BufferInv
  <1>3. tileBuffers' \in [Slot -> TileBuffer]
    BY <1>2 DEF TileBuffer
  <1>4. \A u \in Slot : tileBuffers'[u].task = tileBuffers[u].task /\ tileBuffers'[u].sem \in {0, tileBuffers[u].sem}
    BY <1>2 DEF TileBuffer
  <1>5. QED
    BY <1>1, <1>3, <1>4 DEF BufferInv

LEMMA BufferPosted ==
    ASSUME BufferInv, NEW s \in Slot, ~tileBuffers[s].task,
           tileBuffers' = [tileBuffers EXCEPT ![s].sem = 1]
    PROVE  BufferInv'
  <1>1. Slot' = Slot
    BY DEF Slot
  <1>2. tileBuffers \in [Slot -> TileBuffer]
    BY DEF BufferInv
  <1>3. tileBuffers' \in [Slot -> TileBuffer]
    BY <1>2 DEF TileBuffer
  <1>4. \A u \in Slot : /\ tileBuffers'[u].task = tileBuffers[u].task
                        /\ u # s => tileBuffers'[u] = tileBuffers[u]
    BY <1>2 DEF TileBuffer
  <1>5. QED
    BY <1>1, <1>3, <1>4 DEF BufferInv

\* A finished turn: the buffer goes back, and the call has another task to make, another
\* tile to wait for, or nothing more to do.
LEMMA TurnFinished ==
    ASSUME BufferInv, CallInv, pc \in {"writing", "draining"}, ~tileBuffers[CurrentSlot].task,
           TileDone, UNCHANGED <<mode, lineOrder>>, failures \subseteq failures'
    PROVE  BufferInv' /\ CallInv' /\ pc' \in {"finishing", "adding", "writing"}
  <1>1. loop \in Loop /\ Progress /\ TurnsInv /\ GivenInv
    BY DEF CallInv
  <1>2. /\ CurrentSlot \in Slot
        /\ \A i \in loop.write + 1 .. loop.comp - 1 : SlotOf(i) \in Slot /\ SlotOf(i) # CurrentSlot
    BY <1>1, OwnSlot
  <1>3. tileBuffers' = [tileBuffers EXCEPT ![CurrentSlot].sem = 1]
    BY DEF TileDone
  <1>4. BufferInv'
    BY <1>2, <1>3, BufferPosted
  <1>5. /\ loop' = [loop EXCEPT !.write = @ + 1, !.left = 1]
        /\ pc' = IF loop.write + 1 = loop.tiles THEN "finishing"
                 ELSE IF loop.comp < loop.tiles THEN "adding" ELSE "writing"
    BY DEF TileDone
  <1>6. /\ loop' \in Loop
        /\ loop'.write = loop.write + 1 /\ loop'.left = 1
        /\ loop'.comp = loop.comp /\ loop'.tiles = loop.tiles
        /\ loop'.x1 = loop.x1 /\ loop'.x2 = loop.x2 /\ loop'.yStart = loop.yStart
        /\ loop'.lx = loop.lx /\ loop'.ly = loop.ly
    <2> DEFINE m == [loop EXCEPT !.write = @ + 1]
    <2>1. loop' = [m EXCEPT !.left = 1]
      BY <1>1, <1>5 DEF Loop
    <2>2. /\ m \in Loop
          /\ m.write = loop.write + 1 /\ m.comp = loop.comp /\ m.tiles = loop.tiles
          /\ m.x1 = loop.x1 /\ m.x2 = loop.x2 /\ m.yStart = loop.yStart
          /\ m.lx = loop.lx /\ m.ly = loop.ly
      BY <1>1 DEF Loop
    <2> HIDE DEF m
    <2>3. QED
      BY <2>1, <2>2 DEF Loop
  <1>7. /\ Tile' = Tile /\ Slot' = Slot /\ Cardinality(Slot)' = Cardinality(Slot)
    BY <1>3, SameTiles DEF Slot
  <1>8. /\ loop.write \in Nat /\ loop.comp \in Nat /\ loop.tiles \in Nat
        /\ Cardinality(Slot) \in Nat
    BY <1>1, Slots DEF Loop, BufferInv
  <1>9. ASSUME NEW i PROVE TurnOf(i)' = TurnOf(i) /\ SlotOf(i)' = SlotOf(i)
    BY <1>6, <1>7, TurnsKept DEF SlotOf
  <1>10. pc' \in {"adding", "writing"} => Progress'
    BY <1>1, <1>5, <1>6, <1>7, <1>8 DEF Progress
  <1>11. TurnsInv'
    BY <1>1, <1>6, <1>7, <1>9 DEF TurnsInv
  <1>12. GivenInv'
    <2>1. \A s \in Slot : s # CurrentSlot => tileBuffers'[s] = tileBuffers[s]
      BY <1>2, <1>3 DEF BufferInv
    <2>2. ASSUME NEW i \in loop.write + 1 .. loop.comp - 1
          PROVE  /\ tileBuffers'[SlotOf(i)].tile = TurnOf(i)
                 /\ ~tileBuffers'[SlotOf(i)].task => Pixels(TurnOf(i), tileBuffers[SlotOf(i)].data)'
      <3>1. tileBuffers'[SlotOf(i)] = tileBuffers[SlotOf(i)]
        BY <1>2, <2>1
      <3>2. i \in loop.write .. loop.comp - 1
        BY <1>8
      <3>3. /\ tileBuffers[SlotOf(i)].tile = TurnOf(i)
            /\ ~tileBuffers[SlotOf(i)].task => Pixels(TurnOf(i), tileBuffers[SlotOf(i)].data)
        BY <1>1, <3>2 DEF GivenInv
      <3>4. QED
        BY <1>9, <3>1, <3>3 DEF Pixels
    <2>3. QED
      BY <1>6, <1>9, <2>2 DEF GivenInv
  <1>13. pc' \in {"finishing", "adding", "writing"}
    BY <1>5
  <1>14. CallInv'
    BY <1>6, <1>10, <1>11, <1>12, <1>13 DEF CallInv
  <1>15. QED
    BY <1>4, <1>13, <1>14

\* A new task takes a tile buffer that no turn in progress has.
LEMMA TaskAdded ==
    ASSUME FileInv, BufferInv, CallInv, AddTask
    PROVE  BufferInv' /\ CallInv'
  <1> DEFINE s == SlotOf(loop.comp)
             t == TurnOf(loop.comp)
             b == [tileBuffers[s] EXCEPT !.sem = 0, !.task = TRUE, !.tile = t]
  <1>1. /\ pc = "adding"
        /\ loop' = [loop EXCEPT !.comp = @ + 1, !.left = @ - 1]
        /\ pc' = IF loop.left = 1 THEN "writing" ELSE "adding"
        /\ mode' = mode /\ lineOrder' = lineOrder /\ failures' = failures
    BY DEF AddTask
  <1>2. loop \in Loop /\ Progress /\ TurnsInv /\ GivenInv
    BY <1>1 DEF CallInv
  <1>3. /\ loop.write \in Nat /\ loop.comp \in Nat /\ loop.tiles \in Nat /\ loop.left \in Nat \ {0}
        /\ Cardinality(Slot) \in Nat
        /\ loop.comp < loop.tiles /\ loop.comp < loop.write + Cardinality(Slot)
        /\ loop.write <= loop.comp
    BY <1>1, <1>2, Slots DEF Loop, BufferInv, Progress
  <1>4. /\ s \in Slot
        /\ \A i \in loop.write .. loop.comp - 1 : SlotOf(i) \in Slot /\ SlotOf(i) # s
    <2>1. /\ \A i \in Int : SlotOf(i) \in Slot
          /\ \A i, j \in Int : i < j /\ j < i + Cardinality(Slot) => SlotOf(i) # SlotOf(j)
      BY Slots DEF BufferInv
    <2>2. QED
      BY <1>3, <2>1
  <1>5. t \in Tile /\ t \in Coord
    <2>1. loop.comp \in 0 .. loop.tiles - 1
      BY <1>3
    <2>2. t \in Tile
      BY <1>2, <2>1 DEF TurnsInv
    <2>3. QED
      BY <2>2, TileIs DEF FileInv
  <1>6. tileBuffers \in [Slot -> TileBuffer]
    BY DEF BufferInv
  <1>7. tileBuffers' = [tileBuffers EXCEPT ![s] = b]
    <2>1. tileBuffers' = [tileBuffers EXCEPT ![s].sem = 0, ![s].task = TRUE, ![s].tile = t]
      BY DEF AddTask
    <2> HIDE DEF s, t
    <2>2. QED
      BY <1>4, <1>6, <2>1 DEF TileBuffer
  <1>8. b \in TileBuffer /\ b.sem = 0 /\ b.task /\ b.tile = t
    <2> DEFINE c == [tileBuffers[s] EXCEPT !.sem = 0]
               d == [c EXCEPT !.task = TRUE]
    <2> HIDE DEF s, t
    <2>1. c \in TileBuffer /\ c.sem = 0
      BY <1>4, <1>6 DEF TileBuffer
    <2>2. d \in TileBuffer /\ d.sem = 0 /\ d.task
      <3> HIDE DEF c
      <3>1. QED
        BY <2>1 DEF TileBuffer
    <2>3. b = [d EXCEPT !.tile = t]
      BY <1>4, <1>6 DEF TileBuffer
    <2> HIDE DEF d, b
    <2>4. QED
      BY <1>5, <2>2, <2>3 DEF TileBuffer
  <1> HIDE DEF b
  <1>9. /\ tileBuffers' \in [Slot -> TileBuffer] /\ Slot' = Slot
        /\ tileBuffers'[s] = b /\ \A u \in Slot : u # s => tileBuffers'[u] = tileBuffers[u]
    <2> HIDE DEF s
    <2>1. QED
      BY <1>4, <1>6, <1>7, <1>8 DEF Slot
  <1>10. BufferInv'
    <2> HIDE DEF s
    <2>1. \A u \in Slot : tileBuffers'[u].task => tileBuffers'[u].sem = 0
      BY <1>8, <1>9 DEF BufferInv
    <2>2. QED
      BY <1>9, <2>1 DEF BufferInv
  <1>11. /\ loop' \in Loop
         /\ loop'.comp = loop.comp + 1 /\ loop'.left = loop.left - 1
         /\ loop'.write = loop.write /\ loop'.tiles = loop.tiles
         /\ loop'.x1 = loop.x1 /\ loop'.x2 = loop.x2 /\ loop'.yStart = loop.yStart
         /\ loop'.lx = loop.lx /\ loop'.ly = loop.ly
    <2> DEFINE m == [loop EXCEPT !.comp = @ + 1]
    <2>1. loop' = [m EXCEPT !.left = @ - 1]
      BY <1>1, <1>2 DEF Loop
    <2>2. /\ m \in Loop /\ m.comp = loop.comp + 1 /\ m.left = loop.left
          /\ m.write = loop.write /\ m.tiles = loop.tiles
          /\ m.x1 = loop.x1 /\ m.x2 = loop.x2 /\ m.yStart = loop.yStart
          /\ m.lx = loop.lx /\ m.ly = loop.ly
      BY <1>2 DEF Loop
    <2> HIDE DEF m
    <2>3. QED
      BY <1>3, <2>1, <2>2 DEF Loop
  <1>12. Tile' = Tile /\ Cardinality(Slot)' = Cardinality(Slot)
    BY <1>1, <1>9, SameTiles
  <1>13. ASSUME NEW i PROVE TurnOf(i)' = TurnOf(i) /\ SlotOf(i)' = SlotOf(i)
    BY <1>1, <1>11, <1>12, TurnsKept DEF SlotOf
  <1>14. Progress'
    BY <1>1, <1>2, <1>3, <1>11, <1>12 DEF Progress
  <1>15. TurnsInv'
    BY <1>2, <1>11, <1>12, <1>13 DEF TurnsInv
  <1>16. GivenInv'
    <2>1. ASSUME NEW i \in loop.write .. loop.comp
          PROVE  /\ tileBuffers'[SlotOf(i)].tile = TurnOf(i)
                 /\ ~tileBuffers'[SlotOf(i)].task => Pixels(TurnOf(i), tileBuffers[SlotOf(i)].data)'
      <3>1. CASE i = loop.comp
        BY <1>8, <1>9, <3>1
      <3>2. CASE i \in loop.write .. loop.comp - 1
        <4> HIDE DEF s
        <4>1. tileBuffers'[SlotOf(i)] = tileBuffers[SlotOf(i)]
          BY <1>4, <1>9, <3>2
        <4>2. /\ tileBuffers[SlotOf(i)].tile = TurnOf(i)
              /\ ~tileBuffers[SlotOf(i)].task => Pixels(TurnOf(i), tileBuffers[SlotOf(i)].data)
          BY <1>2, <3>2 DEF GivenInv
        <4>3. QED
          BY <1>1, <1>13, <4>1, <4>2 DEF Pixels
      <3>3. QED
        BY <1>3, <3>1, <3>2
    <2>2. loop'.write .. loop'.comp - 1 = loop.write .. loop.comp
      BY <1>3, <1>11
    <2>3. QED
      BY <1>13, <2>1, <2>2 DEF GivenInv
  <1>17. pc' \in {"adding", "writing"}
    BY <1>1
  <1>18. QED
    BY <1>10, <1>11, <1>14, <1>15, <1>16, <1>17 DEF CallInv

\* A task that is done: its buffer holds the compressed tile, or says that it is not.
LEMMA TaskDone ==
    ASSUME FileInv, BufferInv, CallInv, NEW s \in Slot, Execute(s)
    PROVE  BufferInv' /\ CallInv' /\ failures \subseteq failures'
  <1>1. PICK throws \in BOOLEAN :
            /\ tileBuffers' = [tileBuffers EXCEPT ![s].task = FALSE, ![s].sem = 1,
                                   ![s].data = IF throws THEN Unfinished ELSE tileBuffers[s].tile,
                                   ![s].hasException = @ \/ throws]
            /\ failures' = IF throws THEN failures \cup {"compress"} ELSE failures
    BY DEF Execute
  <1> DEFINE data == IF throws THEN Unfinished ELSE tileBuffers[s].tile
             b == [tileBuffers[s] EXCEPT !.task = FALSE, !.sem = 1, !.data = data,
                                         !.hasException = @ \/ throws]
  <1>2. UNCHANGED <<mode, lineOrder, pc, loop>> /\ failures \subseteq failures'
    BY <1>1 DEF Execute
  <1>3. tileBuffers \in [Slot -> TileBuffer]
    BY DEF BufferInv
  <1>4. Unfinished \in Coord
    BY DEF Unfinished, TileCoord, Coord
  <1>5. data \in Coord /\ tileBuffers[s].tile \in Coord
    BY <1>3, <1>4 DEF TileBuffer
  <1>6. data = tileBuffers[s].tile \/ (data = Unfinished /\ "compress" \in failures')
    BY <1>1
  <1>7. tileBuffers' = [tileBuffers EXCEPT ![s] = b]
    <2> HIDE DEF data
    <2>1. tileBuffers' = [tileBuffers EXCEPT ![s].task = FALSE, ![s].sem = 1,
                                   ![s].data = data, ![s].hasException = @ \/ throws]
      BY <1>1 DEF data
    <2>2. QED
      BY <1>3, <2>1 DEF TileBuffer
  <1>8. b \in TileBuffer /\ ~b.task /\ b.data = data /\ b.tile = tileBuffers[s].tile
    <2> HIDE DEF data
    <2> DEFINE c == [tileBuffers[s] EXCEPT !.task = FALSE]
               d == [c EXCEPT !.sem = 1]
               e == [d EXCEPT !.data = data]
    <2>1. c \in TileBuffer /\ ~c.task /\ c.tile = tileBuffers[s].tile
      BY <1>3 DEF TileBuffer
    <2>2. d \in TileBuffer /\ ~d.task /\ d.tile = tileBuffers[s].tile
      <3> HIDE DEF c
      <3>1. QED
        BY <2>1 DEF TileBuffer
    <2>3. e \in TileBuffer /\ ~e.task /\ e.data = data /\ e.tile = tileBuffers[s].tile
      <3> HIDE DEF d
      <3>1. QED
        BY <1>5, <2>2 DEF TileBuffer
    <2>4. b = [e EXCEPT !.hasException = @ \/ throws]
      BY <1>3 DEF TileBuffer
    <2> HIDE DEF e, b
    <2>5. QED
      BY <2>3, <2>4 DEF TileBuffer
  <1> HIDE DEF b
  <1>9. /\ tileBuffers' \in [Slot -> TileBuffer] /\ Slot' = Slot
        /\ tileBuffers'[s] = b /\ \A u \in Slot : u # s => tileBuffers'[u] = tileBuffers[u]
    BY <1>3, <1>7, <1>8 DEF Slot
  <1>10. BufferInv'
    BY <1>8, <1>9 DEF BufferInv
  <1>11. Tile' = Tile /\ Cardinality(Slot)' = Cardinality(Slot)
    BY <1>2, <1>9, SameTiles
  <1>12. ASSUME NEW i PROVE TurnOf(i)' = TurnOf(i) /\ SlotOf(i)' = SlotOf(i)
    BY <1>2, <1>11, TurnsKept DEF SlotOf
  <1>13. Progress => Progress'
    BY <1>2, <1>11 DEF Progress
  <1>14. TurnsInv => TurnsInv'
    BY <1>2, <1>11, <1>12 DEF TurnsInv
  <1>15. ASSUME GivenInv, Progress, loop \in Loop PROVE GivenInv'
    <2>1. \A i \in loop.write .. loop.comp - 1 : SlotOf(i) \in Slot
      BY <1>15, Slots DEF BufferInv, Loop
    <2>2. ASSUME NEW i \in loop.write .. loop.comp - 1
          PROVE  /\ tileBuffers'[SlotOf(i)].tile = TurnOf(i)
                 /\ ~tileBuffers'[SlotOf(i)].task => Pixels(TurnOf(i), tileBuffers[SlotOf(i)].data)'
      <3>1. /\ tileBuffers[SlotOf(i)].tile = TurnOf(i)
            /\ ~tileBuffers[SlotOf(i)].task => Pixels(TurnOf(i), tileBuffers[SlotOf(i)].data)
        BY <1>15 DEF GivenInv
      <3>2. CASE SlotOf(i) = s
        <4>1. tileBuffers'[SlotOf(i)].tile = TurnOf(i) /\ tileBuffers'[SlotOf(i)].data = data
          BY <1>8, <1>9, <3>1, <3>2
        <4>2. data = TurnOf(i) \/ (data = Unfinished /\ "compress" \in failures')
          BY <1>6, <3>1, <3>2
        <4> HIDE DEF data
        <4>3. QED
          BY <1>12, <4>1, <4>2 DEF Pixels
      <3>3. CASE SlotOf(i) # s
        <4>1. tileBuffers'[SlotOf(i)] = tileBuffers[SlotOf(i)]
          BY <1>9, <2>1, <3>3
        <4>2. QED
          BY <1>2, <1>12, <3>1, <4>1 DEF Pixels
      <3>4. QED
        BY <3>2, <3>3
    <2>3. QED
      BY <1>2, <1>12, <2>2 DEF GivenInv
  <1>16. pc = "draining" /\ CurrentSlot \in Slot => ~tileBuffers'[CurrentSlot].task
    BY <1>8, <1>9 DEF CallInv
  <1>17. pc = "draining" => CurrentSlot \in Slot
    BY OwnSlot DEF CallInv
  <1>18. CurrentSlot' = CurrentSlot
    BY <1>2, <1>11, <1>12 DEF CurrentSlot
  <1>19. CallInv'
    BY <1>2, <1>13, <1>14, <1>15, <1>16, <1>17, <1>18 DEF CallInv
  <1>20. QED
    BY <1>2, <1>10, <1>19

\* A call starts with as many tasks as there are tile buffers, or fewer.
LEMMA CallStarts ==
    ASSUME FileInv, BufferInv, NEW l \in Level,
           NEW x1 \in 0 .. numXTiles(l[1]) - 1, NEW x2 \in 0 .. numXTiles(l[1]) - 1,
           NEW y1 \in 0 .. numYTiles(l[2]) - 1, NEW y2 \in 0 .. numYTiles(l[2]) - 1,
           x1 <= x2, y1 <= y2, WriteTiles(l, x1, x2, y1, y2)
    PROVE  CallInv'
  <1> DEFINE n == (x2 - x1 + 1) * (y2 - y1 + 1)
  <1>1. /\ l[1] \in Nat /\ l[2] \in Nat
        /\ x1 \in Int /\ x2 \in Int /\ y1 \in Int /\ y2 \in Int
        /\ n \in Nat \ {0}
    <2>1. /\ l[1] \in 0 .. numXLevels - 1 /\ l[2] \in 0 .. numYLevels - 1
          /\ numXLevels \in Nat /\ numYLevels \in Nat
      BY Levels DEF Level, FileInv
    <2>2. numXTiles(l[1]) \in Nat /\ numYTiles(l[2]) \in Nat
      BY <2>1, Levels DEF FileInv
    <2>3. x2 - x1 + 1 \in Nat \ {0} /\ y2 - y1 + 1 \in Nat \ {0}
      BY <2>2
    <2>4. \A a, b \in Nat \ {0} : a * b \in Nat /\ a * b >= 1 * b
      <3>1. ASSUME NEW a \in Nat \ {0}, NEW b \in Nat \ {0}
            PROVE  a * b \in Nat /\ a * b >= 1 * b
        <4>1. a = 1 \/ 1 * b + b <= a * b
          BY MultiplesGrow
        <4>2. a * b \in Nat
          OBVIOUS
        <4>3. QED
          BY <4>1, <4>2
      <3>2. QED
        BY <3>1
    <2>5. n \in Nat /\ n >= 1 * (y2 - y1 + 1)
      BY <2>3, <2>4
    <2>6. QED
      BY <2>1, <2>2, <2>3, <2>5
  <1> DEFINE lp == [left |-> Least(Cardinality(Slot), n), comp |-> 0, write |-> 0,
                    x1 |-> x1, x2 |-> x2, yStart |-> IF lineOrder = "DECREASING_Y" THEN y2 ELSE y1,
                    tiles |-> n, lx |-> l[1], ly |-> l[2]]
  <1>2. /\ loop' = lp /\ pc' = "adding"
        /\ mode' = mode /\ lineOrder' = lineOrder /\ tileBuffers' = tileBuffers
    <2> HIDE DEF lp
    <2>1. QED
      BY DEF WriteTiles, lp
  <1>3. Cardinality(Slot) \in Nat \ {0} /\ Cardinality(Slot)' = Cardinality(Slot)
    BY <1>2, Slots DEF BufferInv, Slot
  <1> DEFINE left == Least(Cardinality(Slot), n)
  <1>4. left \in Nat \ {0} /\ left <= n /\ left <= Cardinality(Slot)
    <2> HIDE DEF n
    <2>1. QED
      BY <1>1, <1>3 DEF Least
  <1>5. lp \in Loop
    <2> HIDE DEF n, left
    <2>1. Least(Cardinality(Slot), n) = left
      BY DEF left
    <2>2. QED
      BY <1>1, <1>4, <2>1 DEF Loop
  <1>6. /\ lp.left = left /\ lp.comp = 0 /\ lp.write = 0 /\ lp.tiles = n
        /\ lp.x1 = x1 /\ lp.x2 = x2 /\ lp.lx = l[1] /\ lp.ly = l[2]
        /\ lp.yStart = IF lineOrder = "DECREASING_Y" THEN y2 ELSE y1
    OBVIOUS
  <1>7. TurnsInv'
    <2>1. Tile' = Tile
      BY <1>2, SameTiles
    <2>2. ASSUME NEW i \in 0 .. n - 1 PROVE TurnOf(i)' \in Tile
      <3>1. /\ TileCoord(x1 + (i % (x2 - x1 + 1)), y2 - (i \div (x2 - x1 + 1)), l[1], l[2]) \in Tile
            /\ TileCoord(x1 + (i % (x2 - x1 + 1)), y1 + (i \div (x2 - x1 + 1)), l[1], l[2]) \in Tile
        BY RangeTiles DEF FileInv
      <3> HIDE DEF lp, n
      <3>2. CASE lineOrder = "DECREASING_Y"
        BY <1>2, <1>6, <3>1, <3>2 DEF TurnOf
      <3>3. CASE lineOrder # "DECREASING_Y"
        BY <1>2, <1>6, <3>1, <3>3 DEF TurnOf
      <3>4. QED
        BY <3>2, <3>3
    <2> HIDE DEF lp, n
    <2>3. QED
      BY <1>2, <1>6, <2>1, <2>2 DEF TurnsInv
  <1> HIDE DEF lp, n, left
  <1>8. Progress'
    BY <1>1, <1>2, <1>3, <1>4, <1>6 DEF Progress
  <1>9. GivenInv'
    BY <1>2, <1>6 DEF GivenInv
  <1>10. QED
    BY <1>2, <1>5, <1>7, <1>8, <1>9 DEF CallInv

-----------------------------------------------------------------------------
(* TiledOutput: each step keeps the invariant.                              *)

LEMMA ExecuteKeepsInv ==
    ASSUME TiledSound, NEW s \in Slot, Execute(s)
    PROVE  TiledSound'
  <1>1. FileInv /\ MapInv /\ OrderInv /\ CopyInv /\ BufferInv /\ CallInv /\ HeldInv
    BY DEF TiledSound
  <1>2. UNCHANGED <<mode, lineOrder, tileOffsets, tileMap, next, chunks, pc, loop, accepted>>
    BY DEF Execute
  <1>3. BufferInv' /\ CallInv' /\ failures \subseteq failures'
    BY <1>1, TaskDone
  <1>4. FileInv' /\ Stored' = Stored /\ MapInv' /\ OrderInv' /\ Tile' = Tile
    BY <1>1, <1>2, <1>3, FileKept, MapKept, OrderKept, SameTiles
  <1>5. CopyInv'
    BY <1>1, <1>2, <1>4 DEF CopyInv
  <1>6. HeldInv'
    BY <1>1, <1>2, <1>3, <1>4 DEF HeldInv, Ordered
  <1>7. QED
    BY <1>3, <1>4, <1>5, <1>6 DEF TiledSound

LEMMA WriteTilesKeepsInv ==
    ASSUME TiledSound, NEW l \in Level,
           NEW x1 \in 0 .. numXTiles(l[1]) - 1, NEW x2 \in 0 .. numXTiles(l[1]) - 1,
           NEW y1 \in 0 .. numYTiles(l[2]) - 1, NEW y2 \in 0 .. numYTiles(l[2]) - 1,
           x1 <= x2, y1 <= y2, WriteTiles(l, x1, x2, y1, y2)
    PROVE  TiledSound'
  <1>1. FileInv /\ MapInv /\ OrderInv /\ CopyInv /\ BufferInv /\ CallInv /\ HeldInv
    BY DEF TiledSound
  <1>2. /\ UNCHANGED <<mode, lineOrder, tileBuffers, tileOffsets, tileMap, next, chunks, accepted,
                       failures>>
        /\ pc = "idle" /\ pc' = "adding"
    BY DEF WriteTiles
  <1>3. CallInv'
    BY <1>1, CallStarts
  <1>4. FileInv' /\ MapInv' /\ OrderInv' /\ BufferInv'
    BY <1>1, <1>2, FileKept, MapKept, OrderKept, BuffersKept
  <1>5. CopyInv' /\ HeldInv'
    BY <1>1, <1>2, NoCopy, HeldKept
  <1>6. QED
    BY <1>3, <1>4, <1>5 DEF TiledSound

LEMMA AddTaskKeepsInv ==
    ASSUME TiledSound, AddTask
    PROVE  TiledSound'
  <1>1. FileInv /\ MapInv /\ OrderInv /\ CopyInv /\ BufferInv /\ CallInv /\ HeldInv
    BY DEF TiledSound
  <1>2. /\ UNCHANGED <<mode, lineOrder, tileOffsets, tileMap, next, chunks, accepted, failures>>
        /\ pc = "adding" /\ pc' \in {"adding", "writing"}
    BY DEF AddTask
  <1>3. BufferInv' /\ CallInv'
    BY <1>1, TaskAdded
  <1>4. FileInv' /\ MapInv' /\ OrderInv'
    BY <1>1, <1>2, FileKept, MapKept, OrderKept
  <1>5. CopyInv' /\ HeldInv'
    BY <1>1, <1>2, NoCopy, HeldKept
  <1>6. QED
    BY <1>3, <1>4, <1>5 DEF TiledSound

\* The tile whose turn it is, and its buffer.
LEMMA TurnReady ==
    ASSUME TiledSound, ReadyToWrite
    PROVE  /\ Current \in Tile /\ CurrentSlot \in Slot
           /\ ~tileBuffers[CurrentSlot].task
           /\ tileBuffers[CurrentSlot].data \in Coord
           /\ Pixels(Current, tileBuffers[CurrentSlot].data)
           /\ IsDuplicate <=> Current \in Stored \/ (Ordered /\ Current \in DOMAIN tileMap)
  <1>1. pc = "writing" /\ tileBuffers[CurrentSlot].sem = 1
    BY DEF ReadyToWrite
  <1>2. BufferInv /\ loop \in Loop /\ Progress /\ TurnsInv /\ GivenInv
    BY <1>1 DEF TiledSound, CallInv
  <1>3. /\ loop.write \in Nat /\ loop.comp \in Nat /\ loop.tiles \in Nat
        /\ loop.write < loop.tiles /\ loop.write < loop.comp
    BY <1>1, <1>2 DEF Loop, Progress
  <1>4. Current \in Tile
    BY <1>2, <1>3 DEF TurnsInv, Current
  <1>5. CurrentSlot \in Slot
    BY <1>2, OwnSlot
  <1>6. ~tileBuffers[CurrentSlot].task /\ tileBuffers[CurrentSlot].data \in Coord
    BY <1>1, <1>2, <1>5 DEF BufferInv, TileBuffer
  <1>7. Pixels(Current, tileBuffers[CurrentSlot].data)
    BY <1>2, <1>3, <1>6 DEF GivenInv, Current, CurrentSlot
  <1>8. IsDuplicate <=> Current \in Stored \/ (Ordered /\ Current \in DOMAIN tileMap)
    BY <1>4 DEF IsDuplicate, Stored, Ordered
  <1>9. QED
    BY <1>4, <1>5, <1>6, <1>7, <1>8

LEMMA DuplicateKeepsInv ==
    ASSUME TiledSound, Duplicate
    PROVE  TiledSound'
  <1>1. FileInv /\ MapInv /\ OrderInv /\ CopyInv /\ BufferInv /\ CallInv /\ HeldInv
    BY DEF TiledSound
  <1>2. /\ UNCHANGED <<mode, lineOrder, tileOffsets, tileMap, next, chunks, loop, accepted>>
        /\ failures \subseteq failures'
        /\ pc = "writing" /\ pc' = "unwinding" /\ tileBuffers' = Held
    BY DEF Duplicate, ReadyToWrite
  <1>3. BufferInv'
    <2>1. CurrentSlot \in Slot
      BY TurnReady DEF Duplicate
    <2>2. QED
      BY <1>1, <1>2, <2>1, BufferTaken DEF Held
  <1>4. CallInv'
    BY <1>1, <1>2, NoCall DEF CallInv
  <1>5. FileInv' /\ MapInv' /\ OrderInv'
    BY <1>1, <1>2, FileKept, MapKept, OrderKept
  <1>6. CopyInv' /\ HeldInv'
    BY <1>1, <1>2, NoCopy, HeldKept
  <1>7. QED
    BY <1>3, <1>4, <1>5, <1>6 DEF TiledSound

LEMMA KeepTileKeepsInv ==
    ASSUME TiledSound, KeepTile
    PROVE  TiledSound'
  <1> DEFINE t == Current
             d == tileBuffers[CurrentSlot].data
  <1>1. FileInv /\ MapInv /\ OrderInv /\ CopyInv /\ BufferInv /\ CallInv /\ HeldInv
    BY DEF TiledSound
  <1>2. /\ UNCHANGED <<mode, lineOrder, tileOffsets, next, chunks, failures>>
        /\ ReadyToWrite /\ pc = "writing" /\ ~IsDuplicate /\ Ordered /\ next # t /\ TileDone
        /\ tileMap' = [u \in DOMAIN tileMap \cup {t} |-> IF u = t THEN d ELSE tileMap[u]]
        /\ accepted' = accepted \cup {t}
    BY DEF KeepTile, ReadyToWrite, Ordered
  <1>3. /\ t \in Tile /\ ~tileBuffers[CurrentSlot].task /\ d \in Coord /\ Pixels(t, d)
        /\ t \notin Stored /\ t \notin DOMAIN tileMap
    BY <1>2, TurnReady
  <1> HIDE DEF t, d
  <1>4. BufferInv' /\ CallInv' /\ pc' \in {"finishing", "adding", "writing"}
    BY <1>1, <1>2, <1>3, TurnFinished
  <1>5. FileInv' /\ Stored' = Stored /\ OrderInv' /\ Tile' = Tile
    BY <1>1, <1>2, FileKept, OrderKept, SameTiles
  <1>6. MapInv'
    <2>1. DOMAIN tileMap' = DOMAIN tileMap \cup {t}
      BY <1>2
    <2>2. ASSUME NEW u \in DOMAIN tileMap'
          PROVE  tileMap'[u] \in Coord /\ Pixels(u, tileMap[u])'
      BY <1>1, <1>2, <1>3, <2>1, <2>2 DEF MapInv, Pixels
    <2>3. QED
      BY <1>1, <1>3, <1>5, <2>1, <2>2 DEF MapInv
  <1>7. CopyInv'
    BY <1>4, NoCopy
  <1>8. HeldInv'
    <2>1. DOMAIN tileMap' = DOMAIN tileMap \cup {t}
      BY <1>2
    <2>2. Ordered'
      BY <1>2 DEF Ordered
    <2>3. QED
      BY <1>1, <1>2, <1>3, <1>4, <1>5, <2>1, <2>2 DEF HeldInv
  <1>9. QED
    BY <1>4, <1>5, <1>6, <1>7, <1>8 DEF TiledSound

LEMMA WriteAtRandomKeepsInv ==
    ASSUME TiledSound, WriteAtRandom
    PROVE  TiledSound'
  <1> DEFINE t == Current
             d == tileBuffers[CurrentSlot].data
  <1>1. FileInv /\ MapInv /\ OrderInv /\ CopyInv /\ BufferInv /\ CallInv /\ HeldInv
    BY DEF TiledSound
  <1>2. /\ UNCHANGED <<mode, lineOrder, tileMap, next, failures>>
        /\ ReadyToWrite /\ pc = "writing" /\ ~IsDuplicate /\ ~Ordered /\ TileDone
        /\ writeTileData(t, d) /\ accepted' = accepted \cup {t}
    BY DEF WriteAtRandom, MayWrite, ReadyToWrite, Ordered
  <1>3. /\ t \in Tile /\ ~tileBuffers[CurrentSlot].task /\ d \in Coord /\ Pixels(t, d)
        /\ t \notin Stored
    BY <1>2, TurnReady
  <1> HIDE DEF t, d
  <1>4. BufferInv' /\ CallInv' /\ pc' \in {"finishing", "adding", "writing"}
    BY <1>1, <1>2, <1>3, TurnFinished
  <1>5. FileInv' /\ Stored' = Stored \cup {t}
    BY <1>1, <1>2, <1>3, TileWritten
  <1>6. Tile' = Tile /\ ~Ordered'
    BY <1>2, SameTiles DEF Ordered
  <1>7. MapInv' /\ OrderInv' /\ CopyInv'
    BY <1>1, <1>2, <1>4, <1>6, MapKept, NoCopy DEF OrderInv
  <1>8. HeldInv'
    BY <1>1, <1>2, <1>3, <1>4, <1>5, <1>6 DEF HeldInv
  <1>9. QED
    BY <1>4, <1>5, <1>7, <1>8 DEF TiledSound

LEMMA WriteInTurnKeepsInv ==
    ASSUME TiledSound, WriteInTurn
    PROVE  TiledSound'
  <1> DEFINE d == tileBuffers[CurrentSlot].data
  <1>1. FileInv /\ MapInv /\ OrderInv /\ CopyInv /\ BufferInv /\ CallInv /\ HeldInv
    BY DEF TiledSound
  <1>2. /\ UNCHANGED <<mode, lineOrder, tileMap, loop, failures>>
        /\ ReadyToWrite /\ pc = "writing" /\ ~IsDuplicate /\ Ordered /\ next = Current
        /\ writeTileData(next, d) /\ accepted' = accepted \cup {next}
        /\ next' = nextTileCoord(next) /\ tileBuffers' = Held /\ pc' = "draining"
    BY DEF WriteInTurn, MayWriteInTurn, ReadyToWrite, Ordered
  <1>3. /\ next \in Tile /\ CurrentSlot \in Slot
        /\ ~tileBuffers[CurrentSlot].task /\ d \in Coord /\ Pixels(next, d)
        /\ next \notin Stored /\ next \notin DOMAIN tileMap
    BY <1>2, TurnReady
  <1> HIDE DEF d
  <1>4. FileInv' /\ Stored' = Stored \cup {next}
    BY <1>1, <1>2, <1>3, RankOfNext, TileWritten
  <1>5. OrderInv'
    BY <1>1, <1>2, <1>3, <1>4, OrderMoves
  <1>6. Tile' = Tile /\ Ordered'
    BY <1>2, SameTiles DEF Ordered
  <1>7. MapInv' /\ CopyInv'
    BY <1>1, <1>2, MapKept, NoCopy
  <1>8. tileBuffers' = [tileBuffers EXCEPT ![CurrentSlot].sem = 0]
    BY <1>2 DEF Held
  <1>9. BufferInv'
    BY <1>1, <1>3, <1>8, BufferTaken
  <1>10. CallInv'
    <2>1. tileBuffers \in [Slot -> TileBuffer]
      BY <1>1 DEF BufferInv
    <2>2. /\ Slot' = Slot
          /\ \A s \in Slot : /\ tileBuffers'[s].task = tileBuffers[s].task
                             /\ tileBuffers'[s].tile = tileBuffers[s].tile
                             /\ tileBuffers'[s].data = tileBuffers[s].data
      BY <1>3, <1>8, <2>1 DEF Slot, TileBuffer
    <2>3. loop \in Loop /\ Progress /\ TurnsInv /\ GivenInv
      BY <1>1, <1>2 DEF CallInv
    <2>4. Cardinality(Slot)' = Cardinality(Slot)
      BY <2>2
    <2>5. ASSUME NEW i PROVE TurnOf(i)' = TurnOf(i) /\ SlotOf(i)' = SlotOf(i)
      BY <1>2, <2>4, TurnsKept DEF SlotOf
    <2>6. Progress'
      BY <1>2, <2>3, <2>4 DEF Progress
    <2>7. TurnsInv'
      BY <1>2, <1>6, <2>3, <2>5 DEF TurnsInv
    <2>8. GivenInv'
      <3>1. \A i \in loop.write .. loop.comp - 1 : SlotOf(i) \in Slot
        BY <1>1, <2>3, Slots DEF BufferInv, Loop
      <3>2. ASSUME NEW i \in loop.write .. loop.comp - 1
            PROVE  /\ tileBuffers'[SlotOf(i)].tile = TurnOf(i)
                   /\ ~tileBuffers'[SlotOf(i)].task
                          => Pixels(TurnOf(i), tileBuffers[SlotOf(i)].data)'
        <4>1. /\ tileBuffers[SlotOf(i)].tile = TurnOf(i)
              /\ ~tileBuffers[SlotOf(i)].task => Pixels(TurnOf(i), tileBuffers[SlotOf(i)].data)
          BY <2>3 DEF GivenInv
        <4>2. /\ tileBuffers'[SlotOf(i)].task = tileBuffers[SlotOf(i)].task
              /\ tileBuffers'[SlotOf(i)].tile = tileBuffers[SlotOf(i)].tile
              /\ tileBuffers'[SlotOf(i)].data = tileBuffers[SlotOf(i)].data
          BY <2>2, <3>1
        <4>3. QED
          BY <1>2, <2>5, <4>1, <4>2 DEF Pixels
      <3>3. QED
        BY <1>2, <2>5, <3>2 DEF GivenInv
    <2>9. ~tileBuffers'[CurrentSlot].task /\ CurrentSlot' = CurrentSlot
      BY <1>2, <1>3, <2>2, <2>5 DEF CurrentSlot
    <2>10. QED
      BY <1>2, <2>3, <2>6, <2>7, <2>8, <2>9 DEF CallInv
  <1>11. HeldInv'
    BY <1>1, <1>2, <1>3, <1>4, <1>6 DEF HeldInv
  <1>12. QED
    BY <1>4, <1>5, <1>7, <1>9, <1>10, <1>11 DEF TiledSound

LEMMA DrainKeepsInv ==
    ASSUME TiledSound, Drain
    PROVE  TiledSound'
  <1>1. FileInv /\ MapInv /\ OrderInv /\ CopyInv /\ BufferInv /\ CallInv /\ HeldInv
    BY DEF TiledSound
  <1>2. /\ UNCHANGED <<mode, lineOrder, tileBuffers, pc, loop, accepted, failures>>
        /\ pc = "draining" /\ next \in DOMAIN tileMap
        /\ writeTileData(next, tileMap[next])
        /\ tileMap' = [t \in DOMAIN tileMap \ {next} |-> tileMap[t]]
        /\ next' = nextTileCoord(next)
    BY DEF Drain
  <1>3. /\ Ordered /\ next \in Tile /\ next \notin Stored
        /\ tileMap[next] \in Coord /\ Pixels(next, tileMap[next])
    BY <1>1, <1>2, NextNotStored DEF HeldInv, MapInv
  <1>4. FileInv' /\ Stored' = Stored \cup {next}
    BY <1>1, <1>2, <1>3, RankOfNext, TileWritten
  <1>5. OrderInv'
    BY <1>1, <1>2, <1>3, <1>4, OrderMoves
  <1>6. Tile' = Tile /\ Ordered'
    BY <1>2, <1>3, SameTiles DEF Ordered
  <1>7. DOMAIN tileMap' = DOMAIN tileMap \ {next}
    BY <1>2
  <1>8. MapInv'
    BY <1>1, <1>2, <1>6, <1>7 DEF MapInv, Pixels
  <1>9. BufferInv' /\ CallInv' /\ CopyInv'
    BY <1>1, <1>2, BuffersKept, CallKept, NoCopy
  <1>10. HeldInv'
    BY <1>1, <1>2, <1>3, <1>4, <1>6, <1>7 DEF HeldInv
  <1>11. QED
    BY <1>4, <1>5, <1>8, <1>9, <1>10 DEF TiledSound

LEMMA DrainedKeepsInv ==
    ASSUME TiledSound, Drained
    PROVE  TiledSound'
  <1>1. FileInv /\ MapInv /\ OrderInv /\ CopyInv /\ BufferInv /\ CallInv /\ HeldInv
    BY DEF TiledSound
  <1>2. /\ UNCHANGED <<mode, lineOrder, tileOffsets, tileMap, next, chunks, accepted, failures>>
        /\ pc = "draining" /\ next \notin DOMAIN tileMap /\ TileDone
    BY DEF Drained
  <1>3. ~tileBuffers[CurrentSlot].task
    BY <1>1, <1>2 DEF CallInv
  <1>4. BufferInv' /\ CallInv' /\ pc' \in {"finishing", "adding", "writing"}
    BY <1>1, <1>2, <1>3, TurnFinished
  <1>5. FileInv' /\ MapInv' /\ OrderInv'
    BY <1>1, <1>2, FileKept, MapKept, OrderKept
  <1>6. CopyInv' /\ HeldInv'
    BY <1>1, <1>2, <1>4, NoCopy, HeldKept
  <1>7. QED
    BY <1>4, <1>5, <1>6 DEF TiledSound

LEMMA UnwindKeepsInv ==
    ASSUME TiledSound, Unwind
    PROVE  TiledSound'
  <1>1. FileInv /\ MapInv /\ OrderInv /\ CopyInv /\ BufferInv /\ CallInv /\ HeldInv
    BY DEF TiledSound
  <1>2. /\ UNCHANGED <<mode, lineOrder, tileBuffers, tileOffsets, tileMap, next, chunks, accepted,
                       failures>>
        /\ pc = "unwinding" /\ pc' = "idle" /\ loop' = NoLoop
    BY DEF Unwind
  <1>3. FileInv' /\ MapInv' /\ OrderInv' /\ BufferInv'
    BY <1>1, <1>2, FileKept, MapKept, OrderKept, BuffersKept
  <1>4. CallInv' /\ CopyInv'
    BY <1>2, NoLoopType, NoCall, NoCopy
  <1>5. HeldInv'
    BY <1>1, <1>2, HeldKept
  <1>6. QED
    BY <1>3, <1>4, <1>5 DEF TiledSound

LEMMA ReportKeepsInv ==
    ASSUME TiledSound, Report
    PROVE  TiledSound'
  <1>1. FileInv /\ MapInv /\ OrderInv /\ CopyInv /\ BufferInv /\ CallInv /\ HeldInv
    BY DEF TiledSound
  <1>2. /\ UNCHANGED <<mode, lineOrder, tileOffsets, tileMap, next, chunks, accepted, failures>>
        /\ pc = "finishing" /\ pc' = "idle" /\ loop' = NoLoop /\ NoTasks
        /\ tileBuffers' = [s \in Slot |-> [tileBuffers[s] EXCEPT !.hasException = FALSE]]
    BY DEF Report
  <1>3. BufferInv'
    <2>1. Slot' = Slot
      BY <1>2 DEF Slot
    <2>2. tileBuffers' \in [Slot -> TileBuffer]
      BY <1>1, <1>2 DEF BufferInv, TileBuffer
    <2>3. \A s \in Slot : ~tileBuffers'[s].task
      BY <1>1, <1>2 DEF NoTasks, BufferInv, TileBuffer
    <2>4. QED
      BY <1>1, <2>1, <2>2, <2>3 DEF BufferInv
  <1>4. FileInv' /\ MapInv' /\ OrderInv'
    BY <1>1, <1>2, FileKept, MapKept, OrderKept
  <1>5. CallInv' /\ CopyInv'
    BY <1>2, NoLoopType, NoCall, NoCopy
  <1>6. HeldInv'
    BY <1>1, <1>2, HeldKept
  <1>7. QED
    BY <1>3, <1>4, <1>5, <1>6 DEF TiledSound

LEMMA CopyPixelsKeepsInv ==
    ASSUME TiledSound, CopyPixels
    PROVE  TiledSound'
  <1>1. FileInv /\ MapInv /\ OrderInv /\ CopyInv /\ BufferInv /\ CallInv /\ HeldInv
    BY DEF TiledSound
  <1>2. /\ UNCHANGED <<mode, lineOrder, tileBuffers, tileOffsets, tileMap, chunks, accepted>>
        /\ pc = "idle" /\ pc' = "copying" /\ Unwritten = Tile
        /\ loop' = [NoLoop EXCEPT !.tiles = Cardinality(Tile)]
        /\ Ordered => next' = next
        /\ ~Ordered => next' \in Ends(Tile)
        /\ failures' = failures \cup (IF DOMAIN tileMap = {} THEN {} ELSE {"mixed"})
    BY DEF CopyPixels, Ordered
  <1>3. Stored = {} /\ Tile' = Tile
    BY <1>2, SameTiles DEF Stored, Unwritten
  <1>4. IsFiniteSet(Tile) /\ Tile # {} /\ Cardinality(Tile) \in Nat \ {0}
    <2>1. IsFiniteSet(Tile) /\ Tile # {}
      BY <1>1, TilesFinite, FirstTile DEF FileInv
    <2>2. QED
      BY <2>1, FS_CardinalityType, FS_EmptySet
  <1>5. next' \in Tile /\ (Ordered => next' = next)
    <2>1. Ordered => next \in Tile
      BY <1>1, <1>3, <1>4 DEF OrderInv
    <2>2. QED
      BY <1>2, <2>1 DEF Ends
  <1>6. FileInv' /\ Stored' = {} /\ MapInv' /\ BufferInv'
    BY <1>1, <1>2, <1>3, FileKept, MapKept, BuffersKept
  <1>7. OrderInv'
    <2>1. next' \in Coord
      BY <1>1, <1>5, TileIs DEF FileInv
    <2>2. CASE Ordered
      BY <1>1, <1>2, <1>5, <2>2, OrderKept
    <2>3. CASE ~Ordered
      BY <1>2, <2>1, <2>3 DEF OrderInv, Ordered
    <2>4. QED
      BY <2>2, <2>3
  <1>8. loop' \in Loop /\ loop'.tiles = Cardinality(Tile)
    <2> DEFINE n == Cardinality(Tile)
    <2>1. n \in Nat /\ loop' = [NoLoop EXCEPT !.tiles = n]
      BY <1>2, <1>4
    <2> HIDE DEF n
    <2>2. NoLoop \in Loop
      BY NoLoopType
    <2>3. loop' \in Loop /\ loop'.tiles = n
      BY <2>1, <2>2 DEF Loop
    <2>4. QED
      BY <2>3 DEF n
  <1>9. CallInv'
    BY <1>2, <1>8, NoCall
  <1>10. CopyInv'
    <2>1. Tile \ {} = Tile
      OBVIOUS
    <2>2. QED
      BY <1>3, <1>4, <1>5, <1>6, <1>8, <2>1 DEF CopyInv
  <1>11. HeldInv'
    BY <1>1, <1>2, <1>3, <1>6 DEF HeldInv, Ordered
  <1>12. QED
    BY <1>6, <1>7, <1>9, <1>10, <1>11 DEF TiledSound

LEMMA CopyTileKeepsInv ==
    ASSUME TiledSound, CopyTile
    PROVE  TiledSound'
  <1>1. FileInv /\ MapInv /\ OrderInv /\ CopyInv /\ BufferInv /\ CallInv /\ HeldInv
    BY DEF TiledSound
  <1>2. /\ UNCHANGED <<mode, lineOrder, tileBuffers, tileMap, failures>>
        /\ pc = "copying" /\ writeTileData(next, next) /\ accepted' = accepted \cup {next}
        /\ \/ loop.tiles = 1 /\ pc' = "idle" /\ loop' = NoLoop
           \/ /\ loop.tiles # 1 /\ pc' = "copying"
              /\ loop' = [loop EXCEPT !.tiles = @ - 1]
        /\ Ordered => next' = nextTileCoord(next)
        /\ ~Ordered /\ loop.tiles = 1 => next' = next
        /\ ~Ordered /\ loop.tiles # 1 => next' \in Ends(Unwritten \ {next})
    BY DEF CopyTile, Ordered
  <1>3. /\ next \in Tile /\ next \notin Stored /\ next \in Coord
        /\ loop.tiles = Cardinality(Tile \ Stored) /\ loop \in Loop
    BY <1>1, <1>2 DEF CopyInv, OrderInv, CallInv
  <1>4. FileInv' /\ Stored' = Stored \cup {next}
    BY <1>1, <1>2, <1>3, RankOfNext, OwnPixels, TileWritten
  <1>5. Tile' = Tile /\ Ordered' = Ordered
    BY <1>2, SameTiles DEF Ordered
  <1>6. MapInv' /\ BufferInv'
    BY <1>1, <1>2, MapKept, BuffersKept
  <1>7. /\ Cardinality(Tile \ Stored') = loop.tiles - 1
        /\ IsFiniteSet(Tile \ Stored') /\ loop.tiles \in Nat
    <2>1. IsFiniteSet(Tile)
      BY <1>1, TilesFinite DEF FileInv
    <2>2. Tile \ Stored \in SUBSET Tile /\ Tile \ Stored' \in SUBSET Tile
      OBVIOUS
    <2>3. IsFiniteSet(Tile \ Stored) /\ IsFiniteSet(Tile \ Stored')
      BY <2>1, <2>2, FS_Subset
    <2>4. Tile \ Stored' = (Tile \ Stored) \ {next} /\ next \in Tile \ Stored
      BY <1>3, <1>4
    <2>5. Cardinality((Tile \ Stored) \ {next}) = Cardinality(Tile \ Stored) - 1
      BY <2>3, <2>4, FS_RemoveElement
    <2>6. loop.tiles \in Nat
      BY <1>3 DEF Loop
    <2>7. QED
      BY <1>3, <2>3, <2>4, <2>5, <2>6
  <1>8. OrderInv'
    <2>1. CASE Ordered
      BY <1>1, <1>2, <1>3, <1>4, <2>1, OrderMoves
    <2>2. CASE ~Ordered
      <3>1. next' \in Tile
        BY <1>2, <1>3, <2>2 DEF Ends, Unwritten
      <3>2. QED
        BY <1>1, <1>5, <2>2, <3>1, TileIs DEF OrderInv, FileInv
    <2>3. QED
      BY <2>1, <2>2
  <1>9. CASE loop.tiles = 1
    <2>1. pc' = "idle" /\ loop' = NoLoop
      BY <1>2, <1>9
    <2>2. CallInv' /\ CopyInv'
      BY <2>1, NoLoopType, NoCall, NoCopy
    <2>3. HeldInv'
      <3>1. "mixed" \notin failures => DOMAIN tileMap = {} /\ accepted = Stored
        BY <1>1, <1>2 DEF HeldInv
      <3>2. QED
        BY <1>1, <1>2, <1>3, <1>4, <1>5, <2>1, <3>1 DEF HeldInv
    <2>4. QED
      BY <1>4, <1>6, <1>8, <2>2, <2>3 DEF TiledSound
  <1>10. CASE loop.tiles # 1
    <2>1. pc' = "copying" /\ loop' = [loop EXCEPT !.tiles = @ - 1]
      BY <1>2, <1>10
    <2>2. loop.tiles - 1 \in Nat \ {0}
      BY <1>1, <1>2, <1>7, <1>10 DEF CopyInv
    <2>3. loop' \in Loop /\ loop'.tiles = loop.tiles - 1
      BY <1>3, <2>1, <2>2 DEF Loop
    <2>4. CallInv'
      BY <2>1, <2>3, NoCall
    <2>5. next' \in Tile \ Stored'
      <3>1. Tile \ Stored' # {}
        BY <1>7, <2>2, FS_EmptySet
      <3>2. CASE Ordered
        <4>1. next' \notin Stored'
          <5>1. ~Precedes(next', next', Up')
            BY <1>8, NotBeforeItself DEF OrderInv, Precedes, Coord
          <5>2. QED
            BY <1>4, <1>5, <1>8, <3>2, <5>1 DEF OrderInv, FileInv, Stored
        <4>2. next' \in Tile
          BY <1>5, <1>8, <3>1, <3>2 DEF OrderInv
        <4>3. QED
          BY <4>1, <4>2
      <3>3. CASE ~Ordered
        <4>1. next' \in Unwritten \ {next}
          BY <1>2, <1>10, <3>3 DEF Ends
        <4>2. QED
          BY <1>4, <4>1 DEF Unwritten, Stored
      <3>4. QED
        BY <3>2, <3>3
    <2>6. CopyInv'
      BY <1>5, <1>7, <2>2, <2>3, <2>5 DEF CopyInv
    <2>7. HeldInv'
      <3>1. "mixed" \notin failures => DOMAIN tileMap = {} /\ accepted = Stored
        BY <1>1, <1>2 DEF HeldInv
      <3>2. QED
        BY <1>1, <1>2, <1>3, <1>4, <1>5, <2>1, <3>1 DEF HeldInv
    <2>8. QED
      BY <1>4, <1>6, <1>8, <2>4, <2>6, <2>7 DEF TiledSound
  <1>11. QED
    BY <1>9, <1>10

\* A copy that stops has written a part of a tile, or nothing.
LEMMA CopyStopsKeepsInv ==
    ASSUME TiledSound, CopyStops
    PROVE  TiledSound' \/ "write" \in failures'
  <1>1. FileInv /\ MapInv /\ OrderInv /\ CopyInv /\ BufferInv /\ CallInv /\ HeldInv
    BY DEF TiledSound
  <1>2. /\ UNCHANGED <<mode, lineOrder, tileBuffers, tileMap, next, stored, accepted>>
        /\ pc = "copying" /\ pc' = "idle" /\ loop' = NoLoop
        /\ \/ failures' = failures \cup {"read"} /\ UNCHANGED <<tileOffsets, chunks>>
           \/ PartlyWritten(next)
    BY DEF CopyStops
  <1>3. CASE PartlyWritten(next)
    BY <1>3 DEF PartlyWritten
  <1>4. CASE failures' = failures \cup {"read"} /\ UNCHANGED <<tileOffsets, chunks>>
    <2>1. FileInv' /\ MapInv' /\ OrderInv' /\ BufferInv'
      BY <1>1, <1>2, <1>4, FileKept, MapKept, OrderKept, BuffersKept
    <2>2. CallInv' /\ CopyInv'
      BY <1>2, NoLoopType, NoCall, NoCopy
    <2>3. HeldInv'
      BY <1>1, <1>2, <1>4, HeldKept
    <2>4. QED
      BY <2>1, <2>2, <2>3 DEF TiledSound
  <1>5. QED
    BY <1>2, <1>3, <1>4

LEMMA DestroyKeepsInv ==
    ASSUME TiledSound, Destroy
    PROVE  TiledSound'
  <1>1. FileInv /\ MapInv /\ OrderInv /\ CopyInv /\ BufferInv /\ CallInv /\ HeldInv
    BY DEF TiledSound
  <1>2. /\ UNCHANGED <<mode, lineOrder, tileBuffers, tileOffsets, next, chunks, loop, accepted,
                       failures>>
        /\ pc = "idle" /\ pc' = "closed"
        /\ tileMap' = [t \in {} |-> Unfinished]
    BY DEF Destroy
  <1>3. FileInv' /\ OrderInv' /\ BufferInv' /\ Tile' = Tile
    BY <1>1, <1>2, FileKept, OrderKept, BuffersKept, SameTiles
  <1>4. CallInv' /\ CopyInv'
    BY <1>1, <1>2, NoCall, NoCopy DEF CallInv
  <1>5. DOMAIN tileMap' = {}
    BY <1>2
  <1>6. MapInv' /\ HeldInv'
    BY <1>1, <1>2, <1>3, <1>5 DEF MapInv, HeldInv
  <1>7. QED
    BY <1>3, <1>4, <1>6 DEF TiledSound

LEMMA TiledStutters ==
    ASSUME TiledSound, UNCHANGED tiledVars
    PROVE  TiledSound'
  <1>1. FileInv /\ MapInv /\ OrderInv /\ CopyInv /\ BufferInv /\ CallInv /\ HeldInv
    BY DEF TiledSound
  <1>2. UNCHANGED <<mode, lineOrder, tileBuffers, tileOffsets, tileMap, next, chunks, pc, loop,
                    accepted, failures>>
    BY DEF tiledVars
  <1>3. /\ FileInv' /\ Stored' = Stored /\ MapInv' /\ OrderInv' /\ BufferInv' /\ CallInv'
        /\ Tile' = Tile
    BY <1>1, <1>2, FileKept, MapKept, OrderKept, BuffersKept, CallKept, SameTiles
  <1>4. CopyInv'
    BY <1>1, <1>2, <1>3 DEF CopyInv
  <1>5. HeldInv'
    BY <1>1, <1>2, <1>3 DEF HeldInv, Ordered
  <1>6. QED
    BY <1>3, <1>4, <1>5 DEF TiledSound

LEMMA TiledStarts ==
    ASSUME TiledInit
    PROVE  TiledSound
  <1>1. /\ mode \in Modes /\ tileOffsets = [t \in Tile |-> 0]
        /\ tileMap = [t \in {} |-> Unfinished] /\ chunks = <<>>
        /\ next = TileCoord(0, IF lineOrder = "INCREASING_Y" THEN 0 ELSE numYTiles(0) - 1, 0, 0)
        /\ pc = "idle" /\ loop = NoLoop /\ accepted = {}
    BY DEF TiledInit
  <1>2. Stored = {}
    BY <1>1 DEF Stored
  <1>3. FileInv
    <2>1. tileOffsets \in [Tile -> Nat]
      BY <1>1
    <2>2. chunks \in Seq([tile : Tile, data : Coord]) /\ Len(chunks) = 0
      BY <1>1
    <2>3. Cardinality(Stored) = Len(chunks)
      BY <1>2, <2>2, FS_EmptySet
    <2>4. QED
      BY <1>1, <1>2, <2>1, <2>2, <2>3 DEF FileInv
  <1>4. OrderInv
    <2>1. next \in Tile /\ \A u \in Tile : ~Precedes(u, next, Up)
      BY <1>1, FirstTile
    <2>2. next \in Coord
      BY <1>1, <2>1, TileIs
    <2>3. QED
      BY <1>2, <2>1, <2>2 DEF OrderInv
  <1>5. DOMAIN tileMap = {}
    BY <1>1
  <1>6. MapInv /\ HeldInv /\ CopyInv
    BY <1>1, <1>2, <1>5 DEF MapInv, HeldInv, CopyInv
  <1>7. CallInv
    BY <1>1, NoLoopType DEF CallInv
  <1>8. BufferInv
    <2>1. PICK n \in Buffers :
              tileBuffers = [s \in 0 .. n - 1 |->
                  [sem |-> 1, task |-> FALSE, tile |-> TileCoord(0, 0, 0, 0), data |-> Unfinished,
                   hasException |-> FALSE]]
      BY DEF TiledInit
    <2> DEFINE b == [sem |-> 1, task |-> FALSE, tile |-> TileCoord(0, 0, 0, 0),
                     data |-> Unfinished, hasException |-> FALSE]
    <2>2. TileCoord(0, 0, 0, 0) \in Coord /\ Unfinished \in Coord
      BY DEF TileCoord, Unfinished, Coord
    <2>3. b \in TileBuffer /\ ~b.task
      BY <2>2 DEF TileBuffer
    <2>4. Slot = 0 .. n - 1 /\ \A s \in Slot : tileBuffers[s] = b
      BY <2>1 DEF Slot
    <2> HIDE DEF b
    <2>5. tileBuffers \in [Slot -> TileBuffer]
      <3>1. tileBuffers = [s \in Slot |-> tileBuffers[s]]
        BY <2>1 DEF Slot
      <3>2. QED
        BY <2>3, <2>4, <3>1
    <2>6. QED
      BY <2>3, <2>4, <2>5 DEF BufferInv
  <1>9. QED
    BY <1>3, <1>4, <1>6, <1>7, <1>8 DEF TiledSound

\* A failed write stays known.
LEMMA FailureKept ==
    ASSUME [TiledNext]_tiledVars, "write" \in failures
    PROVE  "write" \in failures'
  <1>1. failures \subseteq failures'
    <2>1. CASE Writer
      BY <2>1 DEF Writer, AddTask, Duplicate, KeepTile, WriteAtRandom, WriteInTurn, TileFails,
                  Drain, DrainFails, Drained, Unwind, Report, CopyTile, CopyStops, PartlyWritten
    <2>2. CASE CopyPixels \/ Destroy
      BY <2>2 DEF CopyPixels, Destroy
    <2>3. CASE Hung \/ Closed \/ UNCHANGED tiledVars
      BY <2>3 DEF Hung, Closed, tiledVars
    <2>4. CASE \E s \in Slot : Execute(s)
      BY <2>4 DEF Execute
    <2>5. CASE \E l \in Level :
                   \E x1, x2 \in 0 .. numXTiles(l[1]) - 1, y1, y2 \in 0 .. numYTiles(l[2]) - 1 :
                       x1 <= x2 /\ y1 <= y2 /\ WriteTiles(l, x1, x2, y1, y2)
      BY <2>5 DEF WriteTiles
    <2>6. QED
      BY <2>1, <2>2, <2>3, <2>4, <2>5 DEF TiledNext
  <1>2. QED
    BY <1>1

LEMMA TiledStep ==
    ASSUME TiledInv, [TiledNext]_tiledVars
    PROVE  TiledInv'
  <1>1. CASE "write" \in failures
    BY <1>1, FailureKept DEF TiledInv
  <1>2. CASE "write" \notin failures
    <2>1. TiledSound
      BY <1>2 DEF TiledInv
    <2>2. CASE Writer
      <3>1. CASE AddTask
        BY <2>1, <3>1, AddTaskKeepsInv DEF TiledInv
      <3>2. CASE Duplicate
        BY <2>1, <3>2, DuplicateKeepsInv DEF TiledInv
      <3>3. CASE KeepTile
        BY <2>1, <3>3, KeepTileKeepsInv DEF TiledInv
      <3>4. CASE WriteAtRandom
        BY <2>1, <3>4, WriteAtRandomKeepsInv DEF TiledInv
      <3>5. CASE WriteInTurn
        BY <2>1, <3>5, WriteInTurnKeepsInv DEF TiledInv
      <3>6. CASE TileFails \/ DrainFails
        BY <3>6 DEF TileFails, DrainFails, PartlyWritten, TiledInv
      <3>7. CASE Drain
        BY <2>1, <3>7, DrainKeepsInv DEF TiledInv
      <3>8. CASE Drained
        BY <2>1, <3>8, DrainedKeepsInv DEF TiledInv
      <3>9. CASE Unwind
        BY <2>1, <3>9, UnwindKeepsInv DEF TiledInv
      <3>10. CASE Report
        BY <2>1, <3>10, ReportKeepsInv DEF TiledInv
      <3>11. CASE CopyTile
        BY <2>1, <3>11, CopyTileKeepsInv DEF TiledInv
      <3>12. CASE CopyStops
        BY <2>1, <3>12, CopyStopsKeepsInv DEF TiledInv
      <3>13. QED
        BY <2>2, <3>1, <3>2, <3>3, <3>4, <3>5, <3>6, <3>7, <3>8, <3>9, <3>10, <3>11, <3>12
           DEF Writer
    <2>3. CASE CopyPixels
      BY <2>1, <2>3, CopyPixelsKeepsInv DEF TiledInv
    <2>4. CASE Destroy
      BY <2>1, <2>4, DestroyKeepsInv DEF TiledInv
    <2>5. CASE Hung \/ Closed \/ UNCHANGED tiledVars
      <3>1. UNCHANGED tiledVars
        BY <2>5 DEF Hung, Closed
      <3>2. QED
        BY <2>1, <3>1, TiledStutters DEF TiledInv
    <2>6. CASE \E s \in Slot : Execute(s)
      BY <2>1, <2>6, ExecuteKeepsInv DEF TiledInv
    <2>7. CASE \E l \in Level :
                   \E x1, x2 \in 0 .. numXTiles(l[1]) - 1, y1, y2 \in 0 .. numYTiles(l[2]) - 1 :
                       x1 <= x2 /\ y1 <= y2 /\ WriteTiles(l, x1, x2, y1, y2)
      <3>1. TiledSound'
        BY <2>1, <2>7, WriteTilesKeepsInv
      <3>2. QED
        BY <3>1 DEF TiledInv
    <2>8. QED
      BY <2>2, <2>3, <2>4, <2>5, <2>6, <2>7 DEF TiledNext
  <1>3. QED
    BY <1>1, <1>2

LEMMA TiledInductive == TiledSpec => []TiledInv
  <1>1. TiledInit => TiledInv
    BY TiledStarts DEF TiledInv
  <1>2. TiledInv /\ [TiledNext]_tiledVars => TiledInv'
    BY TiledStep
  <1>3. QED
    BY <1>1, <1>2, PTL DEF TiledSpec

LEMMA TiledImplies ==
    ASSUME TiledInv
    PROVE  TilesInOrder /\ NothingHeldBack
  <1>1. CASE "write" \in failures
    BY <1>1 DEF TilesInOrder, NothingHeldBack
  <1>2. CASE "write" \notin failures
    <2>1. FileInv /\ MapInv /\ OrderInv /\ HeldInv
      BY <1>2 DEF TiledInv, TiledSound
    <2>2. \A i \in 1 .. Len(chunks) : chunks[i].tile \in Tile
      <3>1. chunks \in Seq([tile : Tile, data : Coord])
        BY <2>1 DEF FileInv
      <3>2. \A i \in 1 .. Len(chunks) : chunks[i] \in [tile : Tile, data : Coord]
        BY <3>1, ElementOf
      <3>3. QED
        BY <3>2
    <2>3. TilesInOrder
      BY <2>1, <2>2 DEF TilesInOrder, FileInv, MapInv, Stored, Ordered, Up
    <2>4. ASSUME pc = "idle", "mixed" \notin failures, accepted = Tile
          PROVE  Len(chunks) = Cardinality(Tile)
      <3>1. accepted = Stored \cup DOMAIN tileMap /\ next \notin DOMAIN tileMap
        BY <2>1, <2>4 DEF HeldInv
      <3>2. CASE Ordered
        <4>1. next \notin Tile
          BY <2>1, <2>4, <3>1, <3>2, NextNotStored
        <4>2. Stored = Tile
          BY <2>1, <3>2, <4>1 DEF OrderInv, Stored
        <4>3. QED
          BY <2>1, <4>2 DEF FileInv
      <3>3. CASE ~Ordered
        BY <2>1, <2>4, <3>1, <3>3 DEF HeldInv, FileInv
      <3>4. QED
        BY <3>2, <3>3
    <2>5. NothingHeldBack
      BY <2>1, <2>4 DEF NothingHeldBack, HeldInv, Stored
    <2>6. QED
      BY <2>3, <2>5
  <1>3. QED
    BY <1>1, <1>2

-----------------------------------------------------------------------------
(* The tiles of every file, of any number of levels and tiles and with any *)
(* number of tile buffers, are labelled right, are found by their offsets, *)
(* are written once, and lie in the order that the line order prescribes.  *)
THEOREM TilesAlwaysInOrder == TiledSpec => []TilesInOrder
  <1>1. TiledInv => TilesInOrder
    BY TiledImplies
  <1>2. QED
    BY TiledInductive, <1>1, PTL

(* Between calls no tile waits that could be written, however many calls   *)
(* there were and whatever they asked for; when all tiles were given, all  *)
(* of them are in the file.                                                *)
THEOREM NothingEverHeldBack == TiledSpec => []NothingHeldBack
  <1>1. TiledInv => NothingHeldBack
    BY TiledImplies
  <1>2. QED
    BY TiledInductive, <1>1, PTL

=============================================================================
