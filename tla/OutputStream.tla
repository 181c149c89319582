---------------------------- MODULE OutputStream ----------------------------
(***************************************************************************)
(* The stream of an output file and the parts that share it                *)
(* (ImfMultiPartOutputFile.cpp, and the four kinds of output files): where *)
(* it stands, what the parts believe of that (currentPosition), and what   *)
(* ends up where.  Every call holds the mutex of the stream, and is one    *)
(* step.  What the parts are and how their chunks are ordered does not     *)
(* matter here: NextOne is a bound.                                        *)
(*                                                                         *)
(* The stream is one of the application's, which can go on after an error. *)
(* A cell of the file holds an int; the other numbers take two.            *)
(***************************************************************************)
EXTENDS Integers, Sequences, FiniteSets

CONSTANTS
    NumChunks,     \* the size of the table of a part
    Start,         \* where the stream may be when the file is opened
    MaxFaults      \* bound on the writes that fail and the chunks broken on purpose

ASSUME StreamAssumption == NumChunks \in Nat \ {0} /\ Start \subseteq Nat /\ MaxFaults \in Nat

Kind == {"scanline", "tiled", "deepscanline", "deeptiled"}
Chunk == 1 .. NumChunks

VARIABLES
    kind,        \* the kind of each part; one part that is alone is not multipart
    start,       \* where the stream was
    file,        \* the cells of the file
    pos,         \* where the stream is: tellp ()
    current,     \* currentPosition, 0 if not known
    offsets,     \* the table of each part, in memory
    parts,       \* what became of each part: "open", "closed" or "lost", its table not written
    failed,      \* the chunks whose write failed
    broken,      \* history: breakScanLine or breakTile was used, or a preview not written
    faults       \* how many of these there were

vars == <<kind, start, file, pos, current, offsets, parts, failed, broken, faults>>

Part == DOMAIN kind
Multi == Cardinality(Part) > 1

-----------------------------------------------------------------------------
(* What the four kinds of files write for a chunk, and by how much they     *)
(* move currentPosition; a size of compressed data is 1, or 1 for each of   *)
(* the two tables of a deep chunk.                                          *)

One == 1
Two == 2

\* How many numbers of each size, and how many cells of compressed data.
ScanLine == [ints |-> 2, longs |-> 0, data |-> 1, advance |-> One + One + 1]
Tiled == [ints |-> 5, longs |-> 0, data |-> 1, advance |-> 5 * One + 1]
DeepScanLine == [ints |-> 1, longs |-> 3, data |-> 2, advance |-> One + Two + Two + Two + 1 + 1]
DeepTiled == [ints |-> 4, longs |-> 3, data |-> 2, advance |-> 4 * One + 3 * Two + 1 + 1]

Layout(p) == CASE kind[p] = "scanline" -> ScanLine
               [] kind[p] = "tiled" -> Tiled
               [] kind[p] = "deepscanline" -> DeepScanLine
               [] kind[p] = "deeptiled" -> DeepTiled

\* The number of the part comes first, if there are several.
Cells(p) ==
    (Layout(p).ints + IF Multi THEN 1 ELSE 0) * One + Layout(p).longs * Two + Layout(p).data

\* Bug: forgets the number of the part.
BadAdvance(p) == Layout(p).advance

Advance(p) == Layout(p).advance + IF Multi THEN One ELSE 0

-----------------------------------------------------------------------------
(* The layout of the file: headers with a preview image, tables, chunks.    *)

PreviewSize == 2
TableSize == NumChunks * Two

PreviewAt(p) == start + PreviewSize * (p - 1)
TableAt(p) == start + PreviewSize * Cardinality(Part) + TableSize * (p - 1)
DataAt == TableAt(Cardinality(Part)) + TableSize
End == DataAt + NumChunks * Cells(1) + IF Multi THEN NumChunks * Cells(2) ELSE 0

Nothing == <<"nothing", 0, 0, 0>>
PreviewOf(p, version) == [i \in 1 .. PreviewSize |-> <<"preview", p, version, i>>]
TableOf(p, tab) == [i \in 1 .. TableSize |-> <<"table", p, tab[(i + 1) \div Two], i>>]
ChunkOf(p, c) == [i \in 1 .. Cells(p) |-> <<"chunk", p, c, i>>]

\* What the file is after data was written at a place.
Written(place, data) ==
    [n \in DOMAIN file |-> IF n \in place .. place + Len(data) - 1 THEN data[n - place + 1]
                           ELSE file[n]]

\* The data that reaches the file before a write fails.
Cut(data, k) == SubSeq(data, 1, k)

NoOffsets == [c \in Chunk |-> 0]

\* The file is opened and its headers and empty tables are written.  A file with one
\* part notes the position before that, and one with several none at all.
Init ==
    /\ kind \in [{1} -> Kind] \cup [{1, 2} -> Kind]
    /\ start \in Start
    /\ file = [n \in 0 .. End - 1 |->
           IF n < start \/ n >= DataAt THEN Nothing
           ELSE LET p == CHOOSE q \in Part : \/ n \in PreviewAt(q) .. PreviewAt(q) + PreviewSize - 1
                                             \/ n \in TableAt(q) .. TableAt(q) + TableSize - 1
                IN IF n < TableAt(1) THEN PreviewOf(p, 0)[n - PreviewAt(p) + 1]
                   ELSE TableOf(p, NoOffsets)[n - TableAt(p) + 1]]
    /\ pos = DataAt
    /\ current = IF Multi THEN 0 ELSE start
    /\ offsets = [p \in Part |-> NoOffsets]
    /\ parts = [p \in Part |-> "open"]
    /\ failed = {} /\ broken = FALSE /\ faults = 0

\* Bound: the chunks of a part come in order, those of the parts in any.
NextOne(p, c) == offsets[p][c] = 0 /\ \A d \in 1 .. c - 1 : offsets[p][d] # 0

AllOpen == \A p \in Part : parts[p] = "open"

-----------------------------------------------------------------------------
\* Where the next chunk is believed to go.
Place == IF current = 0 THEN pos ELSE current

WriteChunk(p, c) ==
    /\ AllOpen /\ NextOne(p, c)
    /\ offsets' = [offsets EXCEPT ![p][c] = Place]
    /\ file' = Written(pos, ChunkOf(p, c))
    /\ pos' = pos + Cells(p)
    /\ current' = Place + Advance(p)
    /\ UNCHANGED <<kind, start, parts, failed, broken, faults>>

\* The write stops at the beginning, after the first field or before the last one.
WriteFails(p, c) ==
    /\ AllOpen /\ NextOne(p, c)
    /\ faults < MaxFaults
    /\ \E k \in {0, One, Cells(p) - 1} :
          /\ file' = Written(pos, Cut(ChunkOf(p, c), k))
          /\ pos' = pos + k
    /\ offsets' = [offsets EXCEPT ![p][c] = Place]
    /\ current' = 0
    /\ failed' = failed \cup {<<p, c>>}
    /\ faults' = faults + 1
    /\ UNCHANGED <<kind, start, parts, broken>>

\* updatePreviewImage goes to the preview and back; currentPosition stays.
UpdatePreview(p) ==
    /\ AllOpen
    /\ file' = Written(PreviewAt(p), PreviewOf(p, 1))
    /\ UNCHANGED <<kind, start, pos, current, offsets, parts, failed, broken, faults>>

\* An exception leaves the stream where it was raised.
PreviewFails(p) ==
    /\ AllOpen
    /\ faults < MaxFaults
    /\ \E k \in 0 .. PreviewSize :
          /\ file' = Written(PreviewAt(p), Cut(PreviewOf(p, 1), k))
          /\ pos' = PreviewAt(p) + k
    /\ broken' = TRUE
    /\ faults' = faults + 1
    /\ UNCHANGED <<kind, start, current, offsets, parts, failed>>

\* breakScanLine and breakTile write into a chunk, and stay there.
BreakChunk(p, c) ==
    /\ AllOpen /\ offsets[p][c] # 0
    /\ kind[p] # "deepscanline"
    /\ faults < MaxFaults
    /\ file' = Written(offsets[p][c] + 1, <<Nothing>>)
    /\ pos' = offsets[p][c] + 2
    /\ current' = 0
    /\ broken' = TRUE
    /\ faults' = faults + 1
    /\ UNCHANGED <<kind, start, offsets, parts, failed>>

-----------------------------------------------------------------------------
(* The destructors of the parts, one after the other.                       *)

MayClose(p) == parts[p] = "open" /\ \A q \in Part : q < p => parts[q] # "open"

\* Bug: the table goes where the stream is.
BadClose(p) ==
    /\ MayClose(p)
    /\ file' = Written(pos, TableOf(p, offsets[p]))
    /\ parts' = [parts EXCEPT ![p] = "closed"]
    /\ UNCHANGED <<kind, start, pos, current, offsets, failed, broken, faults>>

\* The table is written over the empty one, and the position restored.
Close(p) ==
    /\ MayClose(p)
    /\ file' = Written(TableAt(p), TableOf(p, offsets[p]))
    /\ parts' = [parts EXCEPT ![p] = "closed"]
    /\ UNCHANGED <<kind, start, pos, current, offsets, failed, broken, faults>>

\* A failure is swallowed, and the position is not restored.
CloseFails(p) ==
    /\ MayClose(p)
    /\ faults < MaxFaults
    /\ \E k \in 0 .. TableSize :
          /\ file' = Written(TableAt(p), Cut(TableOf(p, offsets[p]), k))
          /\ pos' = TableAt(p) + k
    /\ parts' = [parts EXCEPT ![p] = "lost"]
    /\ faults' = faults + 1
    /\ UNCHANGED <<kind, start, current, offsets, failed, broken>>

Next == \E p \in Part :
    \/ \E c \in Chunk : WriteChunk(p, c) \/ WriteFails(p, c) \/ BreakChunk(p, c)
    \/ UpdatePreview(p) \/ PreviewFails(p)
    \/ Close(p) \/ CloseFails(p)

Spec == Init /\ [][Next]_vars

-----------------------------------------------------------------------------
TypeOK ==
    /\ kind \in [{1} -> Kind] \cup [{1, 2} -> Kind] /\ start \in Start
    /\ DOMAIN file = 0 .. End - 1
    /\ pos \in Nat /\ current \in Nat
    /\ offsets \in [Part -> [Chunk -> Nat]]
    /\ ~broken => pos <= End /\ current <= End /\ \A p \in Part, c \in Chunk : offsets[p][c] <= End
    /\ parts \in [Part -> {"open", "closed", "lost"}]
    /\ failed \subseteq Part \X Chunk /\ broken \in BOOLEAN /\ faults \in 0 .. MaxFaults

\* Data is in the file at a place.
IsAt(place, data) == \A i \in DOMAIN data : place + i - 1 < End /\ file[place + i - 1] = data[i]

(***************************************************************************)
(* The tables of the parts point to their chunks, whole and in place, and  *)
(* the headers before them are intact, whatever parts the chunks belong to *)
(* and whichever writes failed.  Exceptions: a file with one part in a     *)
(* stream that was not at its beginning; and what comes after a broken     *)
(* chunk or a preview that could not be written.                           *)
(***************************************************************************)
FileIntact ==
    ~broken /\ (Multi \/ start = 0) => \A p \in Part :
        /\ \A c \in Chunk : offsets[p][c] # 0 /\ <<p, c>> \notin failed =>
               IsAt(offsets[p][c], ChunkOf(p, c))
        /\ \E version \in {0, 1} : IsAt(PreviewAt(p), PreviewOf(p, version))
        /\ parts[p] = "open" => IsAt(TableAt(p), TableOf(p, NoOffsets))

\* The state has its type, and the file is what the tables say.
StreamInv == TypeOK /\ FileIntact

(***************************************************************************)
(* A part whose destructor could write its table has it in the file,       *)
(* whatever happened to the stream before, and to the tables of the other  *)
(* parts.                                                                  *)
(***************************************************************************)
TablesStored ==
    \A p \in Part : parts[p] = "closed" => IsAt(TableAt(p), TableOf(p, offsets[p]))
=============================================================================
