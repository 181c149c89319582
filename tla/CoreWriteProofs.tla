-------------------------- MODULE CoreWriteProofs --------------------------
(***************************************************************************)
(* WriteInv is an inductive invariant of CoreWrite for any number of parts *)
(* and chunks, any line orders and any number of failures; with it, parts  *)
(* that are done are complete, the file is in order, and exr_finish leaves *)
(* only complete files.                                                    *)
(***************************************************************************)
EXTENDS CoreWrite, FiniteSetTheorems, TLAPS

\* The chunks of a part that are in the file.
WrittenOf(p) == {c \in Chunk(p) : IsWritten(p, c)}

LEMMA PartNumbers ==
    /\ Part \subseteq Nat /\ NumParts \in Nat \ {0}
    /\ \A p \in Part : /\ ChunkCount[p] \in Nat \ {0}
                       /\ Chunk(p) \subseteq Nat
                       /\ \A c \in Nat : c \in Chunk(p) <=> c < ChunkCount[p]
  BY CoreAssumption DEF Part, Chunk

LEMMA ChunksFinite ==
    ASSUME NEW p \in Part
    PROVE  /\ IsFiniteSet(Chunk(p)) /\ Cardinality(Chunk(p)) = ChunkCount[p]
           /\ IsFiniteSet(WrittenOf(p)) /\ Cardinality(WrittenOf(p)) \in Nat
           /\ Cardinality(WrittenOf(p)) = ChunkCount[p] => WrittenOf(p) = Chunk(p)
  <1>1. ChunkCount[p] \in Nat \ {0} /\ ChunkCount[p] - 1 \in Int
    BY PartNumbers
  <1>2. IsFiniteSet(Chunk(p)) /\ Cardinality(Chunk(p)) = ChunkCount[p]
    <2> DEFINE l == ChunkCount[p] - 1
    <2>1. 0 \in Int /\ l \in Int
      BY <1>1
    <2> HIDE DEF l
    <2>2. IsFiniteSet(0 .. l) /\ Cardinality(0 .. l) = IF 0 > l THEN 0 ELSE l - 0 + 1
      BY <2>1, FS_Interval, Zenon
    <2>3. QED
      BY <1>1, <2>2 DEF Chunk, l
  <1>3. WrittenOf(p) \in SUBSET Chunk(p)
    BY DEF WrittenOf
  <1>4. QED
    BY <1>2, <1>3, FS_Subset, FS_CardinalityType

LEMMA Pieces ==
    /\ \A p \in Part : \A c \in Chunk(p) :
          /\ Data(p, c) \in Piece /\ Fragment(p, c) \in Piece
          /\ Data(p, c).part = p /\ Data(p, c).chunk = c /\ Data(p, c).whole = TRUE
          /\ Fragment(p, c).part = p /\ Fragment(p, c).chunk = c /\ Fragment(p, c).whole = FALSE
    /\ \A x \in Piece : x.part \in Part /\ x.chunk \in Chunk(x.part) /\ x.whole \in BOOLEAN
  BY DEF Piece, Data, Fragment

\* What Append does to a file.
LEMMA Appending ==
    ASSUME NEW s \in Seq(Piece), NEW x \in Piece
    PROVE  /\ Append(s, x) \in Seq(Piece)
           /\ Len(s) \in Nat /\ Len(Append(s, x)) = Len(s) + 1
           /\ \A i \in 1 .. Len(s) : Append(s, x)[i] = s[i]
           /\ Append(s, x)[Len(s) + 1] = x
  OBVIOUS

LEMMA WriteStarts == Init => WriteInv
  <1> SUFFICES ASSUME Init PROVE WriteInv
    OBVIOUS
  <1> USE DEF Init
  <1>1. Len(disk) = 0 /\ disk \in Seq(Piece)
    OBVIOUS
  <1>2. \A p \in Part : NoTable(p) \in [Chunk(p) -> Nat]
    BY DEF NoTable
  <1>3. TypeOK
    BY <1>1, <1>2, PartNumbers DEF TypeOK
  <1>4. ModeAgrees /\ DiskBehind /\ CountExact /\ TargetAgrees
    BY <1>1 DEF ModeAgrees, DiskBehind, CountExact, TargetAgrees
  <1>5. DonePartsComplete /\ FileInOrder
    BY <1>1, PartNumbers DEF DonePartsComplete, FileInOrder
  <1>6. QED
    BY <1>3, <1>4, <1>5 DEF WriteInv

-----------------------------------------------------------------------------
(* A write that puts chunk c of part p into the file, or a fragment of it,  *)
(* or nothing: what the three actions that write have in common.            *)

Puts(p, c) ==
    /\ MayWrite(p, c) /\ Placed(p, c)
    /\ disk' \in {disk, Append(disk, Fragment(p, c)), Append(disk, Data(p, c))}

LEMMA PutTypes ==
    ASSUME WriteInv, NEW p \in Part, NEW c \in Chunk(p), Puts(p, c)
    PROVE  /\ disk \in Seq(Piece) /\ disk' \in Seq(Piece)
           /\ Len(disk) \in Nat /\ Len(disk)' \in {Len(disk), Len(disk) + 1}
           /\ \A i \in 1 .. Len(disk) : disk'[i] = disk[i]
           /\ Len(disk)' = Len(disk) + 1 =>
                 disk'[Len(disk) + 1] \in {Data(p, c), Fragment(p, c)}
           /\ DOMAIN table' = Part /\ \A q \in Part : table'[q] \in [Chunk(q) -> Nat]
           /\ twice' \subseteq Part
  <1>1. disk \in Seq(Piece) /\ Data(p, c) \in Piece /\ Fragment(p, c) \in Piece
    BY Pieces DEF WriteInv, TypeOK
  <1>2. CASE disk' = disk
    BY <1>1, <1>2, PartNumbers DEF WriteInv, TypeOK, Puts, Placed
  <1>3. CASE disk' = Append(disk, Fragment(p, c)) \/ disk' = Append(disk, Data(p, c))
    <2>1. /\ disk' \in Seq(Piece) /\ Len(disk)' = Len(disk) + 1 /\ Len(disk) \in Nat
          /\ \A i \in 1 .. Len(disk) : disk'[i] = disk[i]
          /\ disk'[Len(disk) + 1] \in {Data(p, c), Fragment(p, c)}
      BY <1>1, <1>3, Appending
    <2>2. QED
      BY <1>1, <2>1 DEF WriteInv, TypeOK, Puts, Placed
  <1>4. QED
    BY <1>2, <1>3 DEF Puts

LEMMA PutPieces ==
    ASSUME WriteInv, NEW p \in Part, NEW c \in Chunk(p), Puts(p, c)
    PROVE  \A i \in 1 .. Len(disk)' : disk'[i].part \in Nat /\ disk'[i].chunk \in Nat
  <1>1. \A i \in 1 .. Len(disk)' : disk'[i] \in Piece
    BY PutTypes
  <1>2. QED
    BY <1>1, Pieces, PartNumbers

\* Only whether the chunk itself is in the file can change.
LEMMA PutWritten ==
    ASSUME WriteInv, NEW p \in Part, NEW c \in Chunk(p), Puts(p, c)
    PROVE  /\ \A q \in Part : \A d \in Chunk(q) :
                 (q # p \/ d # c) => (IsWritten(q, d)' <=> IsWritten(q, d))
           /\ IsWritten(p, c)' <=> disk' = Append(disk, Data(p, c))
  <1>1. /\ table' = [table EXCEPT ![p][c] = Len(disk) + 1]
        /\ DOMAIN table = Part /\ \A q \in Part : table[q] \in [Chunk(q) -> Nat]
    BY DEF WriteInv, TypeOK, Puts, Placed
  <1>2. ASSUME NEW q \in Part, NEW d \in Chunk(q), q # p \/ d # c
        PROVE  IsWritten(q, d)' <=> IsWritten(q, d)
    <2>1. table'[q][d] = table[q][d]
      BY <1>1, <1>2
    <2>2. Data(q, d) # Data(p, c) /\ Data(q, d) # Fragment(p, c)
      BY <1>2 DEF Data, Fragment
    <2>3. QED
      BY <1>1, <2>1, <2>2, PutTypes DEF IsWritten
  <1>3. table'[p][c] = Len(disk) + 1
    BY <1>1
  <1>4. ASSUME disk' = Append(disk, Data(p, c)) PROVE IsWritten(p, c)'
    <2>1. Len(disk)' = Len(disk) + 1 /\ disk'[Len(disk) + 1] = Data(p, c)
      BY <1>4, PutTypes, Appending, Pieces
    <2>2. QED
      BY <1>3, <1>4, <2>1, PutTypes DEF IsWritten
  <1>5. ASSUME disk' # Append(disk, Data(p, c)) PROVE ~IsWritten(p, c)'
    <2>1. Data(p, c) # Fragment(p, c)
      BY DEF Data, Fragment
    <2>2. CASE disk' = disk
      BY <1>3, <1>5, <2>2, PutTypes DEF IsWritten
    <2>3. CASE disk' = Append(disk, Fragment(p, c))
      <3>1. disk'[Len(disk) + 1] = Fragment(p, c)
        BY <2>3, PutTypes, Appending, Pieces
      <3>2. QED
        BY <1>3, <1>5, <2>1, <3>1 DEF IsWritten
    <2>4. QED
      BY <1>5, <2>2, <2>3 DEF Puts
  <1>6. QED
    BY <1>2, <1>4, <1>5

\* The chunk comes after all that is in the file, or at least not before it.
LEMMA PutInOrder ==
    ASSUME WriteInv, NEW p \in Part, NEW c \in Chunk(p), Puts(p, c)
    PROVE  /\ FileInOrder'
           /\ \A i \in 1 .. Len(disk)' :
                 /\ disk'[i].part <= p
                 /\ disk'[i].part = p /\ p \notin RandomParts /\ disk'[i].whole =>
                       \/ disk'[i].chunk <= last
                       \/ disk'[i].chunk = c /\ disk' = Append(disk, Data(p, c))
  <1>1. p = cur /\ (p \notin RandomParts => last = c - 1) /\ c \in Nat /\ p \in Nat
    BY PartNumbers DEF Puts, MayWrite
  <1>2. \A i \in 1 .. Len(disk) :
           /\ disk[i].part <= p /\ disk[i].part \in Nat /\ disk[i].chunk \in Nat
           /\ disk[i].part = p /\ p \notin RandomParts /\ disk[i].whole => disk[i].chunk < c
    <2>1. \A i \in 1 .. Len(disk) : disk[i] \in Piece
      BY PutTypes
    <2>2. \A i \in 1 .. Len(disk) : disk[i].part \in Nat /\ disk[i].chunk \in Nat
      BY <2>1, Pieces, PartNumbers
    <2>3. QED
      BY <1>1, <2>2 DEF WriteInv, DiskBehind
  <1>3. twice' \subseteq RandomParts
    <2>1. CASE p \in RandomParts
      BY <2>1 DEF WriteInv, FileInOrder, Puts, Placed
    <2>2. CASE p \notin RandomParts
      <3>1. ~IsWritten(p, c)
        BY <1>1, <1>2, <2>2, Pieces DEF IsWritten
      <3>2. QED
        BY <3>1 DEF WriteInv, FileInOrder, Puts, Placed
    <2>3. QED
      BY <2>1, <2>2
  <1>4. \A i \in 1 .. Len(disk)' : i = Len(disk) + 1 =>
           /\ disk'[i].part = p /\ disk'[i].chunk = c
           /\ disk'[i].whole => disk' = Append(disk, Data(p, c))
    <2>1. ASSUME Len(disk)' = Len(disk) + 1
          PROVE  /\ disk'[Len(disk) + 1].part = p /\ disk'[Len(disk) + 1].chunk = c
                 /\ disk'[Len(disk) + 1].whole => disk' = Append(disk, Data(p, c))
      <3>1. disk' = Append(disk, Fragment(p, c)) \/ disk' = Append(disk, Data(p, c))
        BY <2>1, PutTypes DEF Puts
      <3>2. disk' = Append(disk, Fragment(p, c)) => disk'[Len(disk) + 1] = Fragment(p, c)
        BY PutTypes, Appending, Pieces
      <3>3. QED
        BY <2>1, <3>1, <3>2, PutTypes, Pieces
    <2>2. QED
      BY <2>1, PutTypes
  <1>5. \A i \in 1 .. Len(disk)' : i \in 1 .. Len(disk) \/ i = Len(disk) + 1
    BY PutTypes
  <1>6. ASSUME NEW i \in 1 .. Len(disk)', NEW j \in 1 .. Len(disk)', i < j
        PROVE  \/ disk'[i].part < disk'[j].part
               \/ /\ disk'[i].part = disk'[j].part
                  /\ \/ disk'[i].part \in RandomParts
                     \/ disk'[i].chunk < disk'[j].chunk
                     \/ ~disk'[i].whole
    <2>1. i \in 1 .. Len(disk) /\ disk'[i] = disk[i]
      BY <1>6, PutTypes
    <2>2. CASE j \in 1 .. Len(disk)
      <3>1. disk'[j] = disk[j]
        BY <2>2, PutTypes
      <3>2. QED
        BY <1>6, <2>1, <2>2, <3>1 DEF WriteInv, FileInOrder
    <2>3. CASE j = Len(disk) + 1
      BY <1>1, <1>2, <1>4, <2>1, <2>3
    <2>4. QED
      BY <1>5, <2>2, <2>3
  <1>7. FileInOrder'
    BY <1>3, <1>6 DEF FileInOrder
  <1>8. ASSUME NEW i \in 1 .. Len(disk)'
        PROVE  /\ disk'[i].part <= p
               /\ disk'[i].part = p /\ p \notin RandomParts /\ disk'[i].whole =>
                     \/ disk'[i].chunk <= last
                     \/ disk'[i].chunk = c /\ disk' = Append(disk, Data(p, c))
    <2>1. CASE i \in 1 .. Len(disk)
      <3>1. disk'[i] = disk[i]
        BY <2>1, PutTypes
      <3>2. QED
        BY <1>1, <1>2, <2>1, <3>1
    <2>2. CASE i = Len(disk) + 1
      BY <1>1, <1>4, <2>2
    <2>3. QED
      BY <1>5, <2>1, <2>2
  <1>9. QED
    BY <1>7, <1>8

\* Parts that were done stay as they are.
LEMMA PutKeepsDone ==
    ASSUME WriteInv, NEW p \in Part, NEW c \in Chunk(p), Puts(p, c),
           NEW q \in Part, q < p, q \notin twice' \cap RandomParts
    PROVE  /\ \A d \in Chunk(q) : IsWritten(q, d)'
           /\ table'[q] = table[q]
           /\ q \notin lost => stored[q] = table[q]
  <1>1. p = cur /\ q # p
    BY PartNumbers DEF Puts, MayWrite
  <1>2. q \notin twice \cap RandomParts
    BY DEF Puts, Placed
  <1>3. table'[q] = table[q]
    BY <1>1 DEF WriteInv, TypeOK, Puts, Placed
  <1>4. QED
    BY <1>1, <1>2, <1>3, PutWritten DEF WriteInv, DonePartsComplete

\* After a chunk of the current part the count is exact with that chunk in it.
LEMMA PutCounts ==
    ASSUME WriteInv, NEW p \in Part, NEW c \in Chunk(p), Puts(p, c),
           disk' = Append(disk, Data(p, c))
    PROVE  IF p \notin RandomParts
           THEN count = c /\ \A d \in 0 .. c : IsWritten(p, d)'
           ELSE p \notin twice' => Cardinality(WrittenOf(p))' = count + 1
  <1>1. mode = "writing_data" /\ p = cur /\ (p \notin RandomParts => last = c - 1)
    BY DEF Puts, MayWrite
  <1>2. CASE p \notin RandomParts
    <2>1. c \in Nat /\ \A d \in 0 .. c : d \in Chunk(p)
      BY PartNumbers
    <2>2. count = last + 1 /\ \A d \in 0 .. last : IsWritten(p, d)
      BY <1>1, <1>2 DEF WriteInv, CountExact
    <2>3. \A d \in 0 .. c : d = c \/ d \in 0 .. last
      BY <1>1, <1>2, <2>1
    <2>4. IsWritten(p, c)'
      BY PutWritten
    <2>5. \A d \in 0 .. c : IsWritten(p, d)'
      BY <2>1, <2>2, <2>3, <2>4, PutWritten
    <2>6. QED
      BY <1>1, <1>2, <2>1, <2>2, <2>5
  <1>3. CASE p \in RandomParts
    <2>1. SUFFICES ASSUME p \notin twice' PROVE Cardinality(WrittenOf(p))' = count + 1
      BY <1>3
    <2>2. p \notin twice /\ ~IsWritten(p, c)
      BY <2>1 DEF Puts, Placed
    <2>3. count = Cardinality(WrittenOf(p))
      BY <1>1, <1>3, <2>2 DEF WriteInv, CountExact, WrittenOf
    <2>4. WrittenOf(p)' = WrittenOf(p) \cup {c} /\ c \notin WrittenOf(p)
      BY <2>2, PutWritten DEF WrittenOf
    <2>5. QED
      BY <2>3, <2>4, ChunksFinite, FS_AddElement
  <1>4. QED
    BY <1>2, <1>3

LEMMA WriteChunkKeepsInv ==
    ASSUME WriteInv, NEW p \in Part, NEW c \in Chunk(p), WriteChunk(p, c)
    PROVE  WriteInv'
  <1> USE DEF WriteChunk
  <1>1. Puts(p, c) /\ p = cur /\ mode = "writing_data" /\ disk' = Append(disk, Data(p, c))
    BY DEF Puts, MayWrite
  <1>2. TypeOK'
    <2>1. count \in Nat /\ count < ChunkCount[p]
      BY <1>1 DEF WriteInv, TypeOK
    <2>2. c \in Int /\ count + 1 < ChunkCount[p] /\ count + 1 \in Nat
      BY <2>1, PartNumbers
    <2>3. /\ mode' = mode /\ cur' = p /\ last' = c /\ count' = count + 1
          /\ stored' = stored /\ output' = output /\ target' = target
          /\ lost' = lost /\ faults' = faults
      BY <1>1
    <2>4. QED
      BY <2>2, <2>3, <1>1, PutTypes DEF WriteInv, TypeOK
  <1>3. ModeAgrees' /\ TargetAgrees'
    BY <1>1 DEF WriteInv, ModeAgrees, TargetAgrees
  <1>4. FileInOrder' /\ DiskBehind'
    <2>1. c \in Nat /\ cur \in Nat /\ (cur \notin RandomParts => last = c - 1)
      BY <1>1, PartNumbers DEF MayWrite
    <2>2. \A i \in 1 .. Len(disk)' : disk'[i].chunk \in Nat
      BY <1>1, PutPieces
    <2>3. QED
      BY <1>1, <2>1, <2>2, PutInOrder DEF DiskBehind
  <1>5. CountExact'
    BY <1>1, PutCounts DEF CountExact, WrittenOf
  <1>6. DonePartsComplete'
    BY <1>1, PutKeepsDone DEF DonePartsComplete
  <1>7. QED
    BY <1>2, <1>3, <1>4, <1>5, <1>6 DEF WriteInv

LEMMA ChunkFailsKeepsInv ==
    ASSUME WriteInv, NEW p \in Part, NEW c \in Chunk(p), ChunkFails(p, c)
    PROVE  WriteInv'
  <1> USE DEF ChunkFails
  <1>1. Puts(p, c) /\ p = cur /\ mode = "writing_data"
    BY DEF Puts, MayWrite
  <1>2. disk' # Append(disk, Data(p, c))
    <2>1. disk \in Seq(Piece) /\ Data(p, c) \in Piece /\ Fragment(p, c) \in Piece
      BY <1>1, PutTypes, Pieces
    <2>2. /\ Len(Append(disk, Data(p, c))) # Len(disk)
          /\ Append(disk, Data(p, c))[Len(disk) + 1] = Data(p, c)
          /\ Append(disk, Fragment(p, c))[Len(disk) + 1] = Fragment(p, c)
      BY <2>1, Appending
    <2>3. Data(p, c) # Fragment(p, c)
      BY DEF Data, Fragment
    <2>4. QED
      BY <2>2, <2>3
  <1>3. TypeOK'
    <2>1. UNCHANGED <<mode, cur, last, count, stored, output, target, lost>> /\ faults' \in Nat
      BY DEF WriteInv, TypeOK
    <2>2. QED
      BY <1>1, <2>1, PutTypes DEF WriteInv, TypeOK
  <1>4. ModeAgrees' /\ TargetAgrees'
    BY <1>1 DEF WriteInv, ModeAgrees, TargetAgrees
  <1>5. FileInOrder' /\ DiskBehind'
    BY <1>1, <1>2, PutInOrder DEF DiskBehind
  <1>6. CountExact'
    <2>1. CASE cur \notin RandomParts
      <3>1. /\ count = last + 1 /\ \A d \in 0 .. last : IsWritten(p, d)
            /\ last = c - 1
        BY <1>1, <2>1 DEF WriteInv, CountExact, MayWrite
      <3>2. \A d \in 0 .. last : d # c /\ d \in Chunk(p)
        BY <3>1, PartNumbers
      <3>3. \A d \in 0 .. last : IsWritten(p, d)'
        BY <1>1, <3>1, <3>2, PutWritten
      <3>4. QED
        BY <1>1, <2>1, <3>1, <3>3 DEF CountExact
    <2>2. CASE cur \in RandomParts /\ cur \notin twice'
      <3>1. cur \notin twice /\ ~IsWritten(p, c)
        BY <1>1, <2>2 DEF Placed
      <3>2. WrittenOf(p)' = WrittenOf(p)
        BY <1>1, <1>2, <3>1, PutWritten DEF WrittenOf
      <3>3. QED
        BY <1>1, <2>2, <3>1, <3>2 DEF WriteInv, CountExact, WrittenOf
    <2>3. QED
      BY <2>1, <2>2 DEF CountExact
  <1>7. DonePartsComplete'
    BY <1>1, PutKeepsDone DEF DonePartsComplete
  <1>8. QED
    BY <1>3, <1>4, <1>5, <1>6, <1>7 DEF WriteInv

\* The last chunk completes its part, and nothing of the next part is there.
LEMMA WriteLastChunkKeepsInv ==
    ASSUME WriteInv, NEW p \in Part, NEW c \in Chunk(p), WriteLastChunk(p, c)
    PROVE  WriteInv'
  <1> USE DEF WriteLastChunk
  <1>1. Puts(p, c) /\ p = cur /\ mode = "writing_data" /\ disk' = Append(disk, Data(p, c))
    BY DEF Puts, MayWrite
  <1>2. cur' = p + 1 /\ p \in Nat /\ NumParts \in Nat /\ cur' \in 0 .. NumParts
    BY <1>1, PartNumbers DEF Part
  <1>3. mode' = "writing_data" => cur' \in Part
    BY <1>1, <1>2 DEF Part
  <1>4. TypeOK'
    <2>1. DOMAIN stored' = Part /\ \A q \in Part : stored'[q] \in [Chunk(q) -> Nat]
      BY <1>1, PutTypes DEF WriteInv, TypeOK
    <2>2. lost' \subseteq Part /\ faults' \in Nat
      BY DEF WriteInv, TypeOK
    <2>3. mode' = "writing_data" =>
             cur' \in Part /\ count' < ChunkCount[cur'] /\ last' \in Chunk(cur') \cup {-1}
      BY <1>3, PartNumbers
    <2>4. /\ mode' \in {"writing_data", "finished"} /\ last' = -1 /\ count' = 0
          /\ output' = output /\ target' = target
      OBVIOUS
    <2>5. /\ disk' \in Seq(Piece) /\ twice' \subseteq Part
          /\ DOMAIN table' = Part /\ \A q \in Part : table'[q] \in [Chunk(q) -> Nat]
      BY <1>1, PutTypes
    <2>6. output' \in {"direct", "temp", "custom"} /\ target' \in {"original", "new", "none"}
      BY <2>4 DEF WriteInv, TypeOK
    <2> HIDE DEF WriteLastChunk
    <2>7. QED
      BY <1>2, <2>1, <2>2, <2>3, <2>4, <2>5, <2>6 DEF TypeOK
  <1>5. ModeAgrees' /\ TargetAgrees'
    BY <1>1, <1>2 DEF WriteInv, ModeAgrees, TargetAgrees
  <1>6. \A i \in 1 .. Len(disk)' : disk'[i].part \in Nat /\ disk'[i].part < cur'
    <2>1. \A i \in 1 .. Len(disk)' : disk'[i].part \in Nat
      BY <1>1, PutPieces
    <2>2. QED
      BY <1>1, <1>2, <2>1, PutInOrder
  <1>7. FileInOrder' /\ DiskBehind'
    BY <1>1, <1>2, <1>6, PutInOrder DEF DiskBehind
  <1>8. CountExact'
    <2>1. ASSUME p + 1 \in Part PROVE \A d \in Chunk(p + 1) : ~IsWritten(p + 1, d)'
      <3>1. \A i \in 1 .. Len(disk)' : disk'[i].part # p + 1
        BY <1>2, <1>6
      <3>2. \A d \in Chunk(p + 1) : Data(p + 1, d).part = p + 1
        BY <2>1, Pieces
      <3>3. QED
        BY <3>1, <3>2 DEF IsWritten
    <2>2. CASE mode' = "writing_data"
      <3>1. cur' = p + 1 /\ p + 1 \in Part /\ count' = 0 /\ last' = -1
        BY <1>2, <1>3, <2>2
      <3>2. WrittenOf(p + 1)' = {}
        BY <2>1, <3>1 DEF WrittenOf
      <3>3. Cardinality(WrittenOf(p + 1)') = 0
        BY <3>2, FS_EmptySet
      <3>4. 0 .. last' = {} /\ last' + 1 = 0
        BY <3>1
      <3>5. QED
        BY <3>1, <3>3, <3>4 DEF CountExact, WrittenOf
    <2>3. CASE mode' # "writing_data"
      BY <2>3 DEF CountExact
    <2>4. QED
      BY <2>2, <2>3
  <1>9. p \notin twice' \cap RandomParts => \A d \in Chunk(p) : IsWritten(p, d)'
    <2>1. CASE p \notin RandomParts
      <3>1. c + 1 = ChunkCount[p] /\ \A d \in 0 .. c : IsWritten(p, d)'
        BY <1>1, <2>1, PutCounts
      <3>2. \A d \in Chunk(p) : d \in 0 .. c
        BY <3>1, PartNumbers
      <3>3. QED
        BY <3>1, <3>2
    <2>2. CASE p \in RandomParts /\ p \notin twice'
      <3>1. Cardinality(WrittenOf(p)') = ChunkCount[p]
        BY <1>1, <2>2, PutCounts
      <3>2. WrittenOf(p)' \in SUBSET Chunk(p)
        BY DEF WrittenOf
      <3>3. WrittenOf(p)' = Chunk(p)
        BY <3>1, <3>2, ChunksFinite, FS_Subset
      <3>4. QED
        BY <3>3 DEF WrittenOf
    <2>3. QED
      BY <2>1, <2>2
  <1>10. DonePartsComplete'
    <2>1. SUFFICES ASSUME NEW q \in Part, q < cur', q \notin twice' \cap RandomParts
                   PROVE  /\ \A d \in Chunk(q) : IsWritten(q, d)'
                          /\ q \notin lost' => stored'[q] = table'[q]
      BY DEF DonePartsComplete
    <2>2. q < p \/ q = p
      BY <1>2, <2>1, PartNumbers
    <2>3. CASE q < p
      <3>1. stored'[q] = stored[q] /\ lost \subseteq lost'
        BY <1>2, <2>3, PartNumbers DEF WriteInv, TypeOK
      <3>2. QED
        BY <1>1, <2>1, <2>3, <3>1, PutKeepsDone
    <2>4. CASE q = p
      <3>1. q \notin lost' => stored'[q] = table'[q]
        BY <2>4 DEF WriteInv, TypeOK
      <3>2. QED
        BY <1>9, <2>1, <2>4, <3>1
    <2>5. QED
      BY <2>2, <2>3, <2>4
  <1>11. QED
    BY <1>4, <1>5, <1>7, <1>8, <1>10 DEF WriteInv

-----------------------------------------------------------------------------
(* The calls that write no chunk.                                           *)

LEMMA WriteHeaderKeepsInv ==
    ASSUME WriteInv, WriteHeader
    PROVE  WriteInv'
  <1> USE DEF WriteHeader
  <1>1. 0 \in Part /\ ChunkCount[0] > 0
    BY PartNumbers DEF Part
  <1>2. disk' = disk /\ disk = <<>> /\ cur = 0 /\ Len(disk) = 0
    BY DEF WriteInv, ModeAgrees
  <1>3. TypeOK'
    BY <1>1, <1>2 DEF WriteInv, TypeOK
  <1>4. ModeAgrees' /\ DiskBehind' /\ TargetAgrees'
    BY <1>2 DEF WriteInv, ModeAgrees, DiskBehind, TargetAgrees
  <1>5. CountExact'
    <2>1. \A c \in Chunk(0) : ~IsWritten(0, c)'
      BY <1>2 DEF IsWritten
    <2>2. WrittenOf(0)' = {}
      BY <2>1 DEF WrittenOf
    <2>3. QED
      BY <2>2, FS_EmptySet DEF CountExact, WrittenOf
  <1>6. DonePartsComplete' /\ FileInOrder'
    BY <1>2 DEF WriteInv, DonePartsComplete, FileInOrder, IsWritten
  <1>7. QED
    BY <1>3, <1>4, <1>5, <1>6 DEF WriteInv

LEMMA FinishKeepsInv ==
    ASSUME WriteInv, Finish
    PROVE  WriteInv'
  <1> USE DEF Finish
  <1>1. UNCHANGED <<cur, last, count, table, stored, disk, output, twice, lost, faults>>
    OBVIOUS
  <1>2. target' \in {"original", "new", "none"}
    BY DEF WriteInv, TypeOK
  <1>3. TypeOK'
    BY <1>1, <1>2 DEF WriteInv, TypeOK
  <1>4. TargetAgrees'
    <2>1. mode \in {"write", "writing_data", "finished"}
      BY DEF WriteInv, TypeOK
    <2>2. QED
      BY <1>1, <2>1 DEF WriteInv, TypeOK, TargetAgrees, ModeAgrees
  <1>5. ModeAgrees' /\ DiskBehind' /\ CountExact'
    BY <1>1 DEF WriteInv, ModeAgrees, DiskBehind, CountExact
  <1>6. DonePartsComplete' /\ FileInOrder'
    BY <1>1 DEF WriteInv, DonePartsComplete, FileInOrder, IsWritten
  <1>7. QED
    BY <1>3, <1>4, <1>5, <1>6 DEF WriteInv

LEMMA NothingWrittenKeepsInv ==
    ASSUME WriteInv, HeaderFails \/ UNCHANGED vars
    PROVE  WriteInv'
  <1>1. UNCHANGED <<mode, cur, last, count, table, stored, disk, output, target, twice, lost>>
        /\ faults' \in Nat
    BY DEF HeaderFails, vars, WriteInv, TypeOK
  <1>2. TypeOK'
    BY <1>1 DEF WriteInv, TypeOK
  <1>3. QED
    BY <1>1, <1>2 DEF WriteInv, ModeAgrees, DiskBehind, CountExact, TargetAgrees,
                      DonePartsComplete, FileInOrder, IsWritten

LEMMA WriteInductive == WriteInv /\ [Next]_vars => WriteInv'
  <1> SUFFICES ASSUME WriteInv, [Next]_vars PROVE WriteInv'
    OBVIOUS
  <1>1. CASE WriteHeader
    BY <1>1, WriteHeaderKeepsInv
  <1>2. CASE Finish
    BY <1>2, FinishKeepsInv
  <1>3. CASE HeaderFails \/ Closed \/ UNCHANGED vars
    BY <1>3, NothingWrittenKeepsInv DEF Closed
  <1>4. CASE \E p \in Part : \E c \in Chunk(p) :
              WriteChunk(p, c) \/ WriteLastChunk(p, c) \/ ChunkFails(p, c)
    BY <1>4, WriteChunkKeepsInv, WriteLastChunkKeepsInv, ChunkFailsKeepsInv
  <1>5. QED
    BY <1>1, <1>2, <1>3, <1>4 DEF Next

(***************************************************************************)
(* Whatever the parts and their line orders are, and however many writes   *)
(* fail and are tried again, the counters of the context agree with the    *)
(* chunks in the file.                                                     *)
(***************************************************************************)
THEOREM WriteInvariant == Spec => []WriteInv
  <1>1. QED
    BY WriteStarts, WriteInductive, PTL DEF Spec

(***************************************************************************)
(* For every file: the parts that write_scan_chunk and write_tile_chunk    *)
(* have done are complete, and found by their chunk tables.                *)
(***************************************************************************)
THEOREM DonePartsAreComplete == Spec => []DonePartsComplete
  <1>1. WriteInv => DonePartsComplete
    BY DEF WriteInv
  <1>2. QED
    BY <1>1, WriteInvariant, PTL

(***************************************************************************)
(* For every file: the chunks are in the file in the order of the parts,   *)
(* and in increasing order in each part that is not in random order.       *)
(***************************************************************************)
THEOREM FileIsInOrder == Spec => []FileInOrder
  <1>1. WriteInv => FileInOrder
    BY DEF WriteInv
  <1>2. QED
    BY <1>1, WriteInvariant, PTL

(***************************************************************************)
(* For every file: what exr_finish leaves under the name of the file is    *)
(* complete, unless a chunk was written twice or a table not at all.       *)
(***************************************************************************)
THEOREM FinishLeavesComplete == Spec => []OnlyCompleteFilesStay
  <1>1. ASSUME WriteInv PROVE OnlyCompleteFilesStay
    <2>1. SUFFICES ASSUME mode = "closed", output # "custom", target = "new",
                          twice \cap RandomParts = {}, lost = {}
                   PROVE  Complete
      BY DEF OnlyCompleteFilesStay
    <2>2. \A p \in Part : p < cur
      <3>1. cur = NumParts
        BY <1>1, <2>1 DEF WriteInv, TargetAgrees
      <3>2. QED
        BY <3>1, PartNumbers DEF Part
    <2>3. \A p \in Part : stored[p] = table[p] /\ \A c \in Chunk(p) : IsWritten(p, c)
      BY <1>1, <2>1, <2>2 DEF WriteInv, DonePartsComplete
    <2>4. QED
      BY <2>3 DEF Complete, IsWritten
  <1>2. QED
    BY <1>1, WriteInvariant, PTL
=============================================================================
