----------------------------- MODULE ChunkTable -----------------------------
(***************************************************************************)
(* Reading chunks with OpenEXRCore (chunk.c): the threads of a reader      *)
(* share one chunk table per part, which the first to need it reads,       *)
(* rebuilds if entries are missing (the file was not finished, or was      *)
(* damaged), and installs with a compare-and-swap.  To rebuild the table   *)
(* of a part the one of the part before is needed, and so on to the first. *)
(*                                                                         *)
(* An offset is the place of a chunk in the order of the file, 1 the first *)
(* place after the tables; a missing entry is 0.  A chunk of a scan-line   *)
(* part is known by the number of its lines, one of a tiled part by the    *)
(* index of its tile (TileLayout.tla); both count from 1 here.             *)
(***************************************************************************)
EXTENDS TileLayout, ContextParts, SequencesExt

CONSTANTS ScanChunks, Failed,
          Geometry,     \* the geometries of tiled parts
          Live          \* bound: those whose tables are read

\* No table: a null pointer.
None == <<>>

ASSUME TableAssumption ==
    /\ ScanChunks \in Nat \ {0} /\ Failed \notin Seq(Nat)
    /\ Live \subseteq Geometry
    /\ \A g \in Geometry : IsGeometry(g)

VARIABLES
    storage,     \* of all parts: "increasing" or "decreasing" lines, or "tiled"
    geo,         \* geometry of the parts, if tiled
    disk,        \* the chunks in the file, as <<part, chunk>>
    damaged,     \* the chunks whose entry in the file's table is missing
    strict,      \* strict_header
    table,       \* chunk_table of each part: None, Failed or a table
    read,        \* what each thread does
    ctable,      \* what each thread got last, as <<part, table>>
    lucky        \* no read failed so far

fileVars == <<storage, geo, disk, damaged, strict>>
tableVars == <<fileVars, table, read, ctable, lucky>>

Chunk == 1 .. (IF storage = "tiled" THEN ChunkCount(geo) ELSE ScanChunks)
PlaceOf(p, c) == SelectInSeq(disk, LAMBDA e : e = <<p, c>>)

\* The table of a part as it is in the file.
FileTable(p) == [c \in Chunk |-> IF <<p, c>> \in damaged THEN 0 ELSE PlaceOf(p, c)]
Complete(tab) == \A c \in Chunk : tab[c] # 0

\* Parts follow each other in the file, each after all chunks of the one before.
Sequential(order) ==
    \A j \in DOMAIN order, c \in Chunk :
        order[j][1] > 1 => \E i \in 1 .. j - 1 : order[i] = <<order[j][1] - 1, c>>
\* Or they alternate.
Alternate(order) == \A i \in 1 .. Len(order) - 1 : order[i][1] # order[i + 1][1]

\* Bounds: no other orders, and parts that alternate have lost all entries or none.
\* A file whose writer put the chunks of each part in line order, tiles in any
\* order, and may have stopped early; no entry says where a missing chunk is.
FileInit ==
    /\ storage \in {"increasing", "decreasing", "tiled"}
    /\ geo \in IF storage = "tiled" THEN Geometry ELSE Live
    /\ strict \in BOOLEAN
    /\ IF geo \in Live
       THEN \E order \in SetToSeqs(Part \X Chunk) :
               /\ Sequential(order) \/ Alternate(order)
               /\ storage # "tiled" => \A i, j \in DOMAIN order :
                     i < j /\ order[i][1] = order[j][1] =>
                         (order[i][2] < order[j][2] <=> storage = "increasing")
               /\ disk \in Prefixes(order)
               /\ \E D \in IF Sequential(order) THEN SUBSET ToSet(disk) ELSE {{}, ToSet(disk)} :
                     damaged = D \cup ((Part \X Chunk) \ ToSet(disk))
       ELSE disk = <<>> /\ damaged = {}

TableInit ==
    /\ table = [p \in Part |-> None]
    /\ read = [t \in Thread |-> [at |-> "idle", part |-> 1, cur |-> 1, mine |-> None, missed |-> {}]]
    /\ ctable = [t \in Thread |-> None]
    /\ lucky = TRUE

-----------------------------------------------------------------------------
(* reconstruct_chunk_table, for a part p and the table it has so far.       *)

\* extract_chunk_leader: the chunk at a place, 0 if the place cannot be read, is
\* past the end, or holds a chunk of another part.
Leader(p, place, unreadable) ==
    IF place \in 1 .. Len(disk) \ unreadable /\ disk[place][1] = p THEN disk[place][2] ELSE 0

\* The last chunk of the part before, as far as its table knows.
LastKnown(before) == Max({1} \cup Range(before))

\* Bug: the scan goes on where the last chunk of the part before begins.
BadStart(p, before) == IF p > 1 THEN LastKnown(before) ELSE 1

\* Where the scan starts: after that chunk.
Start(p, before) == IF p > 1 THEN LastKnown(before) + 1 ELSE 1

\* The scan looks at a place for the i-th chunk, one further on in the file than where
\* it is if the table says so: where it is then, what it found so far, and whether
\* something did not fit.
ScanStep(p, tab, unreadable, i, scan) ==
    LET off == Larger(tab[i], scan.off)
        c == Leader(p, off, unreadable)
        want == IF storage = "decreasing" THEN Cardinality(Chunk) + 1 - i ELSE i
        fits == c # 0 /\ (storage = "tiled" \/ c = want)
    IN [off |-> IF c = 0 THEN off ELSE off + 1,
        found |-> IF fits /\ scan.found[c] = 0 THEN [scan.found EXCEPT ![c] = off] ELSE scan.found,
        bad |-> scan.bad \/ ~fits]

\* The scan of the file, one chunk for each entry of the table.
Scan(p, tab, before, unreadable) ==
    LET s[i \in 0 .. Cardinality(Chunk)] ==
            IF i = 0 THEN [off |-> Start(p, before), found |-> [c \in Chunk |-> 0], bad |-> FALSE]
            ELSE ScanStep(p, tab, unreadable, i, s[i - 1])
    IN s[Cardinality(Chunk)]

\* The table of part p with what was found, if before is the one of the part before;
\* Failed if a strict reader does not accept it.
Rebuilt(p, before, unreadable) ==
    LET tab == FileTable(p)
        lost == p > 1 /\ (before = Failed \/ Leader(p - 1, LastKnown(before), unreadable) = 0)
        scan == Scan(p, tab, before, unreadable)
    IN CASE lost -> IF strict THEN Failed ELSE tab
         [] ~lost /\ scan.bad -> IF strict THEN Failed
                ELSE [c \in Chunk |-> IF scan.found[c] = 0 THEN tab[c] ELSE scan.found[c]]
         [] ~lost /\ ~scan.bad -> [c \in Chunk |-> scan.found[c]]

-----------------------------------------------------------------------------
(* extract_chunk_table.  What a thread does between the load and the        *)
(* compare-and-swap of a table touches nothing that changes: the file, and  *)
(* the table of the part before, once there is one.                         *)

\* Thread t, with no read failing or one (bound: one in a behaviour), has a table
\* of part p, read and completed, which it is about to install.
Offer(t, p, before) ==
    \E unreadable \in {{}} \cup {{i} : i \in 1 .. Len(disk)} :
        /\ unreadable # {} => lucky
        /\ lucky' = (lucky /\ unreadable = {})
        /\ read' = [read EXCEPT ![t].at = "install", ![t].cur = p,
                                ![t].mine = Rebuilt(p, before, unreadable)]

\* The rest of exr_read_scanline_chunk_info and exr_read_tile_chunk_info: the leader
\* at the offset must be the one of this part and chunk.  These chunks are not found
\* with the table v.
Missed(p, v) == IF v = Failed THEN Chunk ELSE {c \in Chunk : Leader(p, v[c], {}) # c}

\* The table v of part p is known to thread t: a chunk can be looked up, or the table
\* of the next part rebuilt.
Got(t, p, v) ==
    IF p < read[t].part
    THEN Offer(t, p + 1, v) /\ UNCHANGED ctable
    ELSE /\ read' = [read EXCEPT ![t].at = "done", ![t].mine = None,
                                 ![t].missed = Missed(p, v)]
         /\ ctable' = [ctable EXCEPT ![t] = <<p, v>>]
         /\ UNCHANGED lucky

\* exr_read_scanline_chunk_info and exr_read_tile_chunk_info, up to the table.
\* Bound: one call of each thread.
ReadChunk(t) ==
    /\ mode = "read" /\ read[t].at = "idle" /\ geo \in Live
    /\ \E p \in Part :
          read' = [read EXCEPT ![t].at = "load", ![t].part = p, ![t].cur = p]
    /\ UNCHANGED <<fileVars, table, ctable, lucky>>

LoadTable(t) ==
    /\ read[t].at = "load" /\ table[read[t].cur] # None
    /\ Got(t, read[t].cur, table[read[t].cur])
    /\ UNCHANGED <<fileVars, table>>

\* There is none yet and it is read.  A failure is remembered.
ReadFails(t) ==
    /\ read[t].at = "load" /\ table[read[t].cur] = None
    /\ lucky /\ lucky' = FALSE
    /\ read' = [read EXCEPT ![t].at = "install", ![t].mine = Failed]
    /\ UNCHANGED <<fileVars, table, ctable>>

ReadTable(t) ==
    LET p == read[t].cur
        keep == Complete(FileTable(p))
    IN
    /\ read[t].at = "load" /\ table[p] = None
    /\ CASE keep -> /\ read' = [read EXCEPT ![t].at = "install", ![t].mine = FileTable(p)]
                    /\ UNCHANGED lucky
         [] ~keep /\ p = 1 -> Offer(t, p, None)
         [] ~keep /\ p > 1 -> read' = [read EXCEPT ![t].cur = p - 1] /\ UNCHANGED lucky
    /\ UNCHANGED <<fileVars, table, ctable>>

\* Bug: goes on with its own table although another one was installed.
BadInstall(t) ==
    LET p == read[t].cur
        v == IF table[p] = None THEN read[t].mine ELSE table[p]
    IN
    /\ read[t].at = "install"
    /\ table' = [table EXCEPT ![p] = v]
    /\ Got(t, p, read[t].mine)
    /\ UNCHANGED fileVars

\* The compare-and-swap, and what follows with the table that is there then; the
\* one of a thread that comes too late is freed.
Install(t) ==
    LET p == read[t].cur
        v == IF table[p] = None THEN read[t].mine ELSE table[p]
    IN
    /\ read[t].at = "install"
    /\ table' = [table EXCEPT ![p] = v]
    /\ Got(t, p, v)
    /\ UNCHANGED fileVars

TableStep(t) == LoadTable(t) \/ ReadFails(t) \/ ReadTable(t) \/ Install(t)

-----------------------------------------------------------------------------
(***************************************************************************)
(* All threads work with the one table that was installed for a part, and  *)
(* with a failure just as well: what one of them was told does not change. *)
(***************************************************************************)
Tables == INSTANCE WriteOnce WITH
    Cell <- Part, Asker <- Thread, value <- table, told <- ctable
TablesShared == Tables!OnceSpec

\* The table of a part has lost some entries but not all, and its chunks are not in
\* the order of the table.
Mangled(p) ==
    /\ \E c \in Chunk : <<p, c>> \in damaged
    /\ \E c \in Chunk : <<p, c>> \notin damaged
    /\ \E i, j \in DOMAIN disk :
          i < j /\ disk[i][1] = p /\ disk[j][1] = p /\ disk[i][2] > disk[j][2]

\* If the parts follow each other and no read fails, nobody misses a chunk that is in
\* the file.  Exceptions: a strict reader refuses a file that was not finished, and the
\* tables are not repaired if one of this part or of a part before was mangled.
NothingMissed ==
    lucky /\ Sequential(disk) => \A t \in Thread : \A c \in read[t].missed :
        LET p == read[t].part IN
        \/ <<p, c>> \notin ToSet(disk)
        \/ strict /\ Part \X Chunk # ToSet(disk)
        \/ \E q \in 1 .. p : Mangled(q)

\* In whatever order the chunks of the parts are in the file, and whatever fails: no
\* entry of a table that was read or rebuilt points to a wrong chunk.
EntriesRight ==
    \A p \in Part : table[p] \notin {None, Failed} =>
        \A c \in Chunk : table[p][c] \in {0, PlaceOf(p, c)}

(***************************************************************************)
(* Although entries of the tables are missing, a chunk that is in the file *)
(* is found, and none is taken for another.                                *)
(***************************************************************************)
ChunksFound == NothingMissed /\ EntriesRight
=============================================================================
