------------------------------ MODULE CoreWrite ------------------------------
(***************************************************************************)
(* Writing a file with OpenEXRCore (context.c, chunk.c): the mode of the   *)
(* context, the counters that say which chunk may come next, the chunk     *)
(* tables, and what becomes of the file when the context is finished.      *)
(*                                                                         *)
(* Every call takes the mutex of the context for its whole duration, so it *)
(* is one step here, whichever thread makes it; a call that the context    *)
(* refuses changes nothing.  A place in the file is the index of what is   *)
(* there in disk, counted from the end of the header; 0 is no place.       *)
(***************************************************************************)
EXTENDS Integers, Sequences, FiniteSets

CONSTANTS
    NumParts,      \* num_parts
    ChunkCount,    \* chunk_count of each part
    RandomParts,   \* the parts whose line order is RANDOM_Y
    MaxFaults      \* bound on the writes that fail

Part == 0 .. NumParts - 1

ASSUME CoreAssumption ==
    /\ NumParts \in Nat \ {0}
    /\ ChunkCount \in [Part -> Nat \ {0}]
    /\ RandomParts \subseteq Part
    /\ MaxFaults \in Nat

Chunk(p) == 0 .. ChunkCount[p] - 1

VARIABLES
    mode,      \* mode
    cur,       \* cur_output_part
    last,      \* last_output_chunk
    count,     \* output_chunk_count
    table,     \* chunk_table of each part, in memory
    stored,    \* the chunk tables in the file
    disk,      \* the chunks in the file; output_file_offset is the place after them
    output,    \* where the file goes: directly, by a temporary file, or a custom stream
    target,    \* what is under the file's name
    twice,     \* history: the parts a chunk of which was written again
    lost,      \* history: the parts whose chunk table could not be written
    faults     \* how many writes failed

vars == <<mode, cur, last, count, table, stored, disk, output, target, twice, lost, faults>>

NoTable(p) == [c \in Chunk(p) |-> 0]

\* What a chunk is in the file; a write that failed leaves a part of one.
Data(p, c) == [part |-> p, chunk |-> c, whole |-> TRUE]
Fragment(p, c) == [part |-> p, chunk |-> c, whole |-> FALSE]

\* exr_start_write, and the definition of the parts.
Init ==
    /\ mode = "write"
    /\ cur = 0 /\ last = -1 /\ count = 0
    /\ table = [p \in Part |-> NoTable(p)]
    /\ stored = table
    /\ disk = <<>>
    /\ output \in {"direct", "temp", "custom"}
    /\ target = IF output = "temp" THEN "original" ELSE "new"
    /\ twice = {} /\ lost = {}
    /\ faults = 0

-----------------------------------------------------------------------------
\* exr_write_header.  When it fails, the mode stays and it can be called again.
WriteHeader ==
    /\ mode = "write"
    /\ mode' = "writing_data"
    /\ cur' = 0 /\ last' = -1 /\ count' = 0
    /\ UNCHANGED <<table, stored, disk, output, target, twice, lost, faults>>

HeaderFails ==
    /\ mode = "write"
    /\ faults < MaxFaults
    /\ faults' = faults + 1
    /\ UNCHANGED <<mode, cur, last, count, table, stored, disk, output, target, twice, lost>>

\* Bug: does not look at the chunk that came last.
BadMayWrite(p, c) ==
    /\ mode = "writing_data"
    /\ cur = p /\ p \in Part /\ c \in Chunk(p)

\* Bug: does not look at the part whose turn it is.
BadPartOrder(p, c) ==
    /\ mode = "writing_data"
    /\ p \in Part /\ c \in Chunk(p)
    /\ p \notin RandomParts => last = c - 1

\* The checks of write_scan_chunk and write_tile_chunk: c is the chunk's index.
MayWrite(p, c) ==
    /\ mode = "writing_data"
    /\ cur = p /\ p \in Part /\ c \in Chunk(p)
    /\ p \notin RandomParts => last = c - 1

IsWritten(p, c) ==
    table[p][c] \in 1 .. Len(disk) /\ disk[table[p][c]] = Data(p, c)

Placed(p, c) ==
    /\ table' = [table EXCEPT ![p][c] = Len(disk) + 1]
    /\ twice' = IF IsWritten(p, c) THEN twice \cup {p} ELSE twice

\* A chunk that is not the last one of its part.
WriteChunk(p, c) ==
    /\ MayWrite(p, c)
    /\ count + 1 # ChunkCount[p]
    /\ Placed(p, c)
    /\ disk' = Append(disk, Data(p, c))
    /\ last' = c
    /\ count' = count + 1
    /\ UNCHANGED <<mode, cur, stored, output, target, lost, faults>>

\* The last chunk: on to the next part, and only then the table is written.
WriteLastChunk(p, c) ==
    /\ MayWrite(p, c)
    /\ count + 1 = ChunkCount[p]
    /\ Placed(p, c)
    /\ disk' = Append(disk, Data(p, c))
    /\ cur' = cur + 1
    /\ mode' = IF cur + 1 = NumParts THEN "finished" ELSE "writing_data"
    /\ last' = -1 /\ count' = 0
    /\ \/ /\ stored' = [stored EXCEPT ![p] = table'[p]]
          /\ UNCHANGED <<lost, faults>>
       \/ /\ faults < MaxFaults
          /\ faults' = faults + 1
          /\ lost' = lost \cup {p}
          /\ UNCHANGED stored
    /\ UNCHANGED <<output, target>>

\* do_write fails: the table names the place, nothing else has moved on.
ChunkFails(p, c) ==
    /\ MayWrite(p, c)
    /\ faults < MaxFaults
    /\ faults' = faults + 1
    /\ Placed(p, c)
    /\ disk' \in {disk, Append(disk, Fragment(p, c))}
    /\ UNCHANGED <<mode, cur, last, count, stored, output, target, lost>>

\* Bug: only a file that has no header yet counts as failed.
BadFinish ==
    /\ mode # "closed"
    /\ mode' = "closed"
    /\ LET failed == mode = "write" IN
       target' \in
          CASE output = "direct" -> {IF failed THEN "none" ELSE "new"}
            [] output = "temp" -> IF failed THEN {"original"} ELSE {"new", "original"}
            [] output = "custom" -> {target}
    /\ UNCHANGED <<cur, last, count, table, stored, disk, output, twice, lost, faults>>

\* exr_finish and finalize_write: an unfinished file is removed, the temporary
\* file of a finished one is renamed, if that works.  A custom stream stays.
Finish ==
    /\ mode # "closed"
    /\ mode' = "closed"
    /\ LET failed == mode \in {"write", "writing_data"} IN
       target' \in
          CASE output = "direct" -> {IF failed THEN "none" ELSE "new"}
            [] output = "temp" -> IF failed THEN {"original"} ELSE {"new", "original"}
            [] output = "custom" -> {target}
    /\ UNCHANGED <<cur, last, count, table, stored, disk, output, twice, lost, faults>>

Closed == mode = "closed" /\ UNCHANGED vars

Next ==
    \/ WriteHeader \/ HeaderFails \/ Finish \/ Closed
    \/ \E p \in Part : \E c \in Chunk(p) :
          WriteChunk(p, c) \/ WriteLastChunk(p, c) \/ ChunkFails(p, c)

Spec == Init /\ [][Next]_vars

-----------------------------------------------------------------------------
\* What the file is made of.
Piece == UNION {[part : {p}, chunk : Chunk(p), whole : BOOLEAN] : p \in Part}

\* The domains of the context's fields and of the file.
TypeOK ==
    /\ mode \in {"write", "writing_data", "finished", "closed"}
    /\ cur \in 0 .. NumParts /\ last \in Int /\ count \in Nat
    /\ mode = "writing_data" => cur \in Part /\ count < ChunkCount[cur] /\ last \in Chunk(cur) \cup {-1}
    /\ DOMAIN table = Part /\ \A p \in Part : table[p] \in [Chunk(p) -> Nat]
    /\ DOMAIN stored = Part /\ \A p \in Part : stored[p] \in [Chunk(p) -> Nat]
    /\ disk \in Seq(Piece)
    /\ output \in {"direct", "temp", "custom"}
    /\ target \in {"original", "new", "none"}
    /\ twice \subseteq Part /\ lost \subseteq Part
    /\ faults \in Nat

(***************************************************************************)
(* However many writes failed and were tried again: in a part that is      *)
(* done, the table gives every chunk the place where it is, whole; and so  *)
(* does the table in the file, unless writing it failed.  A part in random *)
(* order is exempt once a chunk of it was written a second time, which the *)
(* context takes for another chunk.                                        *)
(***************************************************************************)
DonePartsComplete ==
    \A p \in Part : (p < cur /\ p \notin twice \cap RandomParts) =>
        /\ \A c \in Chunk(p) : IsWritten(p, c)
        /\ p \notin lost => stored[p] = table[p]

(***************************************************************************)
(* The parts follow each other in the file, and so do the chunks of a part *)
(* that is not in random order, each of them once: also after failures.    *)
(***************************************************************************)
FileInOrder ==
    /\ twice \subseteq RandomParts
    /\ \A i, j \in 1 .. Len(disk) : i < j =>
        \/ disk[i].part < disk[j].part
        \/ /\ disk[i].part = disk[j].part
           /\ disk[i].part \in RandomParts \/ disk[i].chunk < disk[j].chunk \/ ~disk[i].whole

Complete ==
    \A p \in Part : \A c \in Chunk(p) :
        stored[p][c] \in 1 .. Len(disk) /\ disk[stored[p][c]] = Data(p, c)

(***************************************************************************)
(* A file that exr_finish leaves under its name is complete, unless a      *)
(* chunk was written twice or a table not at all; else the name keeps the  *)
(* original, or has nothing if the file was written directly.  (After a    *)
(* table that could not be written, exr_finish still renames the file over *)
(* the original, against EXR_INTERMEDIATE_TEMP_FILE.)                      *)
(***************************************************************************)
OnlyCompleteFilesStay ==
    (mode = "closed" /\ output # "custom" /\ target = "new") =>
        Complete \/ twice \cap RandomParts # {} \/ lost # {}

(* What makes the above inductive: what the counters say of the part whose  *)
(* turn it is, and of what is in the file.                                  *)

\* Nothing is written before the header, and "finished" is the end of all parts.
ModeAgrees ==
    /\ mode = "write" => cur = 0 /\ disk = <<>> /\ twice = {}
    /\ mode = "finished" => cur = NumParts

\* What is in the file comes from parts that are done, or from the current one,
\* up to its last chunk; of a chunk after it there is no more than a fragment.
DiskBehind ==
    \A i \in 1 .. Len(disk) :
        /\ disk[i].part <= cur
        /\ disk[i].part = cur /\ cur \notin RandomParts /\ disk[i].whole => disk[i].chunk <= last

\* output_chunk_count counts the chunks of the current part that are in the file.
CountExact ==
    mode = "writing_data" =>
        IF cur \notin RandomParts
        THEN count = last + 1 /\ \A c \in 0 .. last : IsWritten(cur, c)
        ELSE cur \notin twice => count = Cardinality({c \in Chunk(cur) : IsWritten(cur, c)})

\* What is under the name of the file before and after exr_finish.
TargetAgrees ==
    /\ mode # "closed" /\ output = "temp" => target = "original"
    /\ mode = "closed" /\ output # "custom" /\ target = "new" => cur = NumParts

(***************************************************************************)
(* The inductive invariant of the context while it writes: its counters    *)
(* agree with what is in the file, whatever failed in between.             *)
(***************************************************************************)
WriteInv ==
    /\ TypeOK /\ ModeAgrees /\ DiskBehind /\ CountExact /\ TargetAgrees
    /\ DonePartsComplete /\ FileInOrder
=============================================================================
