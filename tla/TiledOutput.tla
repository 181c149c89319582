----------------------------- MODULE TiledOutput -----------------------------
(***************************************************************************)
(* TiledOutputFile (ImfTiledOutputFile.cpp): tiles are gathered from the   *)
(* caller's frame buffer and compressed by tasks of the thread pool, in    *)
(* tile buffers that are used in turn, while the calling thread takes the  *)
(* finished tiles one by one.  The caller may submit the tiles in any      *)
(* order; unless the file's line order is RANDOM_Y, a tile that comes too  *)
(* early is kept in tileMap until all the tiles before it are in the file. *)
(*                                                                         *)
(* The calling thread holds the mutex of the stream for a whole call.  A   *)
(* tile's compressed data are represented by the tile they were made from. *)
(***************************************************************************)
EXTENDS Integers, Sequences, FiniteSets

CONSTANTS
    Modes,        \* level modes tried: ONE_LEVEL, MIPMAP_LEVELS, RIPMAP_LEVELS
    LineOrders,   \* line orders tried: INCREASING_Y, DECREASING_Y, RANDOM_Y
    XTiles,       \* numXTiles: XTiles[l + 1] is the number of tiles across at level l
    YTiles,       \* numYTiles
    Buffers,      \* the values of tileBuffers.size(): max (1, 2 * numThreads)
    MaxCalls      \* bound on the calls of writeTiles and copyPixels

ASSUME TiledAssumption ==
    /\ Modes \subseteq {"ONE_LEVEL", "MIPMAP_LEVELS", "RIPMAP_LEVELS"}
    /\ LineOrders \subseteq {"INCREASING_Y", "DECREASING_Y", "RANDOM_Y"}
    /\ XTiles \in Seq(Nat \ {0}) /\ YTiles \in Seq(Nat \ {0})
    /\ Len(XTiles) > 0 /\ Len(YTiles) > 0
    /\ Buffers \subseteq Nat \ {0} /\ MaxCalls \in Nat

VARIABLES
    mode,         \* tileDesc.mode
    lineOrder,    \* lineOrder
    tileBuffers,  \* tileBuffers
    tileOffsets,  \* tileOffsets: a place in the file, 0 for not written
    tileMap,      \* the data of the tiles that wait for their turn
    next,         \* nextTileToWrite
    chunks,       \* the chunks after the header
    stored,       \* the table in the file: empty until the destructor writes it
    pc,           \* where the calling thread is
    loop,         \* its locals in writeTiles and copyPixels
    accepted,     \* history: the tiles that were written or buffered
    failures,     \* history: the kinds of failures there have been
    calls

tiledVars == <<mode, lineOrder, tileBuffers, tileOffsets, tileMap, next, chunks, stored, pc, loop,
               accepted, failures, calls>>

numXLevels == IF mode = "ONE_LEVEL" THEN 1 ELSE Len(XTiles)
numYLevels == IF mode = "ONE_LEVEL" THEN 1 ELSE Len(YTiles)
numXTiles(lx) == XTiles[lx + 1]
numYTiles(ly) == YTiles[ly + 1]

\* isValidLevel: the levels of a mip map are on the diagonal.
Level ==
    {l \in (0 .. numXLevels - 1) \X (0 .. numYLevels - 1) :
        mode = "RIPMAP_LEVELS" \/ l[1] = l[2]}

TileCoord(dx, dy, lx, ly) == [dx |-> dx, dy |-> dy, lx |-> lx, ly |-> ly]

Tile ==
    UNION {{TileCoord(dx, dy, l[1], l[2]) :
                dx \in 0 .. numXTiles(l[1]) - 1, dy \in 0 .. numYTiles(l[2]) - 1} : l \in Level}

Slot == DOMAIN tileBuffers
\* What a chunk holds that is not the compressed data of a tile: a part of
\* them, or the gathered pixels of a tile whose compression threw.
Torn == TileCoord(-1, 0, 0, 0)
Unfinished == TileCoord(-2, 0, 0, 0)

NoLoop == [left |-> 0, comp |-> 0, write |-> 0, x1 |-> 0, x2 |-> 0, yStart |-> 0,
           tiles |-> 0, lx |-> 0, ly |-> 0]

\* TiledOutputFile::initialize.
TiledInit ==
    /\ mode \in Modes
    /\ lineOrder \in LineOrders
    /\ \E n \in Buffers :
        tileBuffers = [s \in 0 .. n - 1 |->
                  [sem |-> 1, task |-> FALSE, tile |-> TileCoord(0, 0, 0, 0), data |-> Unfinished,
                   hasException |-> FALSE]]
    /\ tileOffsets = [t \in Tile |-> 0]
    /\ tileMap = [t \in {} |-> Unfinished]
    /\ next = TileCoord(0, IF lineOrder = "INCREASING_Y" THEN 0 ELSE numYTiles(0) - 1, 0, 0)
    /\ chunks = <<>>
    /\ stored = tileOffsets
    /\ pc = "idle"
    /\ loop = NoLoop
    /\ accepted = {}
    /\ failures = {}
    /\ calls = 0

-----------------------------------------------------------------------------
(* Data::nextTileCoord: row by row in a level, then to the next level.      *)

\* Bug: the levels of a rip map are taken column by column.
BadNextLevel(t) ==
    IF mode # "RIPMAP_LEVELS" THEN <<t.lx + 1, t.ly + 1>>
    ELSE IF t.ly + 1 < numYLevels THEN <<t.lx, t.ly + 1>>
    ELSE <<t.lx + 1, 0>>

NextLevel(t) ==
    IF mode # "RIPMAP_LEVELS" THEN <<t.lx + 1, t.ly + 1>>
    ELSE IF t.lx + 1 < numXLevels THEN <<t.lx + 1, t.ly>>
    ELSE <<0, t.ly + 1>>

FirstOf(l) ==
    TileCoord(0, IF lineOrder = "INCREASING_Y" THEN 0
                 ELSE IF l[2] < numYLevels THEN numYTiles(l[2]) - 1
                 ELSE -1,
              l[1], l[2])

nextTileCoord(t) ==
    LET dy == IF lineOrder = "INCREASING_Y" THEN t.dy + 1 ELSE t.dy - 1 IN
    IF t.dx + 1 < numXTiles(t.lx) THEN [t EXCEPT !.dx = @ + 1]
    ELSE IF dy \in 0 .. numYTiles(t.ly) - 1 THEN [t EXCEPT !.dx = 0, !.dy = dy]
    ELSE FirstOf(NextLevel(t))

\* Bound on the failures: one in a behaviour, apart from tiles submitted twice.
MayFail == failures \subseteq {"duplicate", "mixed"}

-----------------------------------------------------------------------------
(* TileBufferTask::execute and the destructor.  The compressor may throw;   *)
(* the data pointer then stays on the gathered pixels.                      *)

Execute(s) ==
    /\ s \in Slot /\ tileBuffers[s].task
    /\ \E throws \in BOOLEAN :
        /\ throws => MayFail
        /\ tileBuffers' = [tileBuffers EXCEPT
                                ![s].task = FALSE, ![s].sem = 1,
                                ![s].data = IF throws THEN Unfinished ELSE tileBuffers[s].tile,
                                ![s].hasException = @ \/ throws]
        /\ failures' = IF throws THEN failures \cup {"compress"} ELSE failures
    /\ UNCHANGED <<mode, lineOrder, tileOffsets, tileMap, next, chunks, stored, pc,
                   loop, accepted, calls>>

-----------------------------------------------------------------------------
(* TiledOutputFile::writeTiles.                                             *)

Least(a, b) == IF a < b THEN a ELSE b

\* The call for the tiles x1 .. x2, y1 .. y2 of level l.
WriteTiles(l, x1, x2, y1, y2) ==
    LET n == (x2 - x1 + 1) * (y2 - y1 + 1) IN
    /\ pc = "idle" /\ calls < MaxCalls
    /\ calls' = calls + 1
    /\ pc' = "adding"
    /\ loop' = [left |-> Least(Cardinality(Slot), n), comp |-> 0, write |-> 0,
                x1 |-> x1, x2 |-> x2, yStart |-> IF lineOrder = "DECREASING_Y" THEN y2 ELSE y1,
                tiles |-> n, lx |-> l[1], ly |-> l[2]]
    /\ UNCHANGED <<mode, lineOrder, tileBuffers, tileOffsets, tileMap, next, chunks,
                   stored, accepted, failures>>

\* The tile that the i-th turn of the loops over the range is about.
TurnOf(i) ==
    LET width == loop.x2 - loop.x1 + 1
        row == i \div width
    IN  TileCoord(loop.x1 + (i % width),
                  IF lineOrder = "DECREASING_Y" THEN loop.yStart - row ELSE loop.yStart + row,
                  loop.lx, loop.ly)

SlotOf(i) == i % Cardinality(Slot)

\* new TileBufferTask, which waits for its tile buffer, handed to the pool.
AddTask ==
    LET s == SlotOf(loop.comp) IN
    /\ pc = "adding"
    /\ tileBuffers[s].sem = 1
    /\ tileBuffers' = [tileBuffers EXCEPT ![s].sem = 0, ![s].task = TRUE,
                                         ![s].tile = TurnOf(loop.comp)]
    /\ loop' = [loop EXCEPT !.comp = @ + 1, !.left = @ - 1]
    /\ pc' = IF loop.left = 1 THEN "writing" ELSE "adding"
    /\ UNCHANGED <<mode, lineOrder, tileOffsets, tileMap, next, chunks, stored,
                   accepted, failures, calls>>

Current == TurnOf(loop.write)
CurrentSlot == SlotOf(loop.write)

ReadyToWrite == pc = "writing" /\ tileBuffers[CurrentSlot].sem = 1

IsDuplicate ==
    tileOffsets[Current] # 0 \/ (lineOrder # "RANDOM_Y" /\ Current \in DOMAIN tileMap)

\* What a tile buffer that nobody posts looks like.
Held == [tileBuffers EXCEPT ![CurrentSlot].sem = 0]

\* The tile is done: post its buffer, give it to the next task, if there is one.
TileDone ==
    /\ tileBuffers' = [tileBuffers EXCEPT ![CurrentSlot].sem = 1]
    /\ loop' = [loop EXCEPT !.write = @ + 1, !.left = 1]
    /\ pc' = IF loop.write + 1 = loop.tiles THEN "finishing"
             ELSE IF loop.comp < loop.tiles THEN "adding" ELSE "writing"

\* bufferedTileWrite throws, and the tile buffer is not posted.
Duplicate ==
    /\ ReadyToWrite
    /\ IsDuplicate
    /\ tileBuffers' = Held
    /\ failures' = failures \cup {"duplicate"}
    /\ pc' = "unwinding"
    /\ UNCHANGED <<mode, lineOrder, tileOffsets, tileMap, next, chunks, stored, loop,
                   accepted, calls>>

\* A tile that comes too early is copied to tileMap.
KeepTile ==
    /\ ReadyToWrite
    /\ ~IsDuplicate
    /\ lineOrder # "RANDOM_Y" /\ next # Current
    /\ tileMap' = [t \in DOMAIN tileMap \cup {Current} |->
                      IF t = Current THEN tileBuffers[CurrentSlot].data ELSE tileMap[t]]
    /\ accepted' = accepted \cup {Current}
    /\ TileDone
    /\ UNCHANGED <<mode, lineOrder, tileOffsets, next, chunks, stored, failures, calls>>

\* writeTileData of tile t: it sets the offset, then writes.
writeTileData(t, data) ==
    /\ tileOffsets' = [tileOffsets EXCEPT ![t] = Len(chunks) + 1]
    /\ chunks' = Append(chunks, [tile |-> t, data |-> data])

PartlyWritten(t) ==
    /\ MayFail
    /\ tileOffsets' = [tileOffsets EXCEPT ![t] = Len(chunks) + 1]
    /\ chunks' \in {chunks, Append(chunks, [tile |-> t, data |-> Torn])}
    /\ failures' = failures \cup {"write"}

MayWrite == ReadyToWrite /\ ~IsDuplicate /\ lineOrder = "RANDOM_Y"
MayWriteInTurn == ReadyToWrite /\ ~IsDuplicate /\ lineOrder # "RANDOM_Y" /\ next = Current

WriteAtRandom ==
    /\ MayWrite
    /\ writeTileData(Current, tileBuffers[CurrentSlot].data)
    /\ accepted' = accepted \cup {Current}
    /\ TileDone
    /\ UNCHANGED <<mode, lineOrder, tileMap, next, stored, failures, calls>>

\* Bug: the tiles that waited for this one are not looked at.
BadWriteInTurn ==
    /\ MayWriteInTurn
    /\ writeTileData(Current, tileBuffers[CurrentSlot].data)
    /\ next' = nextTileCoord(next)
    /\ accepted' = accepted \cup {Current}
    /\ TileDone
    /\ UNCHANGED <<mode, lineOrder, tileMap, stored, failures, calls>>

\* All tiles before this one are in the file; those after it may now have a turn.
WriteInTurn ==
    /\ MayWriteInTurn
    /\ writeTileData(Current, tileBuffers[CurrentSlot].data)
    /\ next' = nextTileCoord(next)
    /\ accepted' = accepted \cup {Current}
    /\ tileBuffers' = Held
    /\ pc' = "draining"
    /\ UNCHANGED <<mode, lineOrder, tileMap, stored, loop, failures, calls>>

TileFails ==
    /\ MayWrite \/ MayWriteInTurn
    /\ PartlyWritten(Current)
    /\ tileBuffers' = Held
    /\ pc' = "unwinding"
    /\ UNCHANGED <<mode, lineOrder, tileMap, next, stored, loop, accepted, calls>>

\* The loop that writes the successive buffered tiles.
Drain ==
    /\ pc = "draining"
    /\ next \in DOMAIN tileMap
    /\ writeTileData(next, tileMap[next])
    /\ tileMap' = [t \in DOMAIN tileMap \ {next} |-> tileMap[t]]
    /\ next' = nextTileCoord(next)
    /\ UNCHANGED <<mode, lineOrder, tileBuffers, stored, pc, loop, accepted, failures,
                   calls>>

DrainFails ==
    /\ pc = "draining"
    /\ next \in DOMAIN tileMap
    /\ PartlyWritten(next)
    /\ pc' = "unwinding"
    /\ UNCHANGED <<mode, lineOrder, tileBuffers, tileMap, next, stored, loop, accepted,
                   calls>>

\* Bug: the tile buffer is not posted after the buffered tiles.
BadDrained ==
    /\ pc = "draining"
    /\ next \notin DOMAIN tileMap
    /\ loop' = [loop EXCEPT !.write = @ + 1, !.left = 1]
    /\ pc' = IF loop.write + 1 = loop.tiles THEN "finishing"
             ELSE IF loop.comp < loop.tiles THEN "adding" ELSE "writing"
    /\ UNCHANGED <<mode, lineOrder, tileBuffers, tileOffsets, tileMap, next, chunks,
                   stored, accepted, failures, calls>>

Drained ==
    /\ pc = "draining"
    /\ next \notin DOMAIN tileMap
    /\ TileDone
    /\ UNCHANGED <<mode, lineOrder, tileOffsets, tileMap, next, chunks, stored,
                   accepted, failures, calls>>

NoTasks == \A s \in Slot : ~tileBuffers[s].task

\* Leaving the scope of the task group waits for its tasks (TaskGroup.tla).
Unwind ==
    /\ pc = "unwinding"
    /\ NoTasks
    /\ pc' = "idle"
    /\ loop' = NoLoop
    /\ UNCHANGED <<mode, lineOrder, tileBuffers, tileOffsets, tileMap, next, chunks,
                   stored, accepted, failures, calls>>

\* All tiles of the call are done: exceptions of the tasks are reported.
Report ==
    /\ pc = "finishing"
    /\ NoTasks
    /\ tileBuffers' = [s \in Slot |-> [tileBuffers[s] EXCEPT !.hasException = FALSE]]
    /\ pc' = "idle"
    /\ loop' = NoLoop
    /\ UNCHANGED <<mode, lineOrder, tileOffsets, tileMap, next, chunks, stored,
                   accepted, failures, calls>>

-----------------------------------------------------------------------------
(* TiledOutputFile::copyPixels.  Only the offsets tell it whether the file  *)
(* has pixels.                                                              *)

Precedes(t, u, up) ==
    \/ t.ly < u.ly
    \/ t.ly = u.ly /\ t.lx < u.lx
    \/ t.ly = u.ly /\ t.lx = u.lx /\ (IF up THEN t.dy < u.dy ELSE t.dy > u.dy)
    \/ t.ly = u.ly /\ t.lx = u.lx /\ t.dy = u.dy /\ t.dx < u.dx

Unwritten == {t \in Tile : tileOffsets[t] = 0}

\* The tiles of a RANDOM_Y file are copied in the order in which the input file has them:
\* here any order that takes them from either end.
Ends(tiles) == {t \in tiles : \E up \in BOOLEAN : \A u \in tiles \ {t} : Precedes(t, u, up)}

CopyPixels ==
    /\ pc = "idle" /\ calls < MaxCalls
    /\ Unwritten = Tile
    /\ calls' = calls + 1
    /\ pc' = "copying"
    /\ loop' = [NoLoop EXCEPT !.tiles = Cardinality(Tile)]
    /\ IF lineOrder = "RANDOM_Y" THEN next' \in Ends(Tile) ELSE next' = next
    /\ failures' = failures \cup (IF DOMAIN tileMap = {} THEN {} ELSE {"mixed"})
    /\ UNCHANGED <<mode, lineOrder, tileBuffers, tileOffsets, tileMap, chunks, stored,
                   accepted>>

CopyTile ==
    /\ pc = "copying"
    /\ writeTileData(next, next)
    /\ accepted' = accepted \cup {next}
    /\ IF loop.tiles = 1
       THEN pc' = "idle" /\ loop' = NoLoop
       ELSE pc' = "copying" /\ loop' = [loop EXCEPT !.tiles = @ - 1]
    /\ IF lineOrder # "RANDOM_Y" THEN next' = nextTileCoord(next)
       ELSE IF loop.tiles = 1 THEN next' = next
       ELSE next' \in Ends(Unwritten \ {next})
    /\ UNCHANGED <<mode, lineOrder, tileBuffers, tileMap, stored, failures, calls>>

\* The tile cannot be read, or not be written.
CopyStops ==
    /\ pc = "copying"
    /\ \/ MayFail /\ failures' = failures \cup {"read"} /\ UNCHANGED <<tileOffsets, chunks>>
       \/ PartlyWritten(next)
    /\ pc' = "idle" /\ loop' = NoLoop
    /\ UNCHANGED <<mode, lineOrder, tileBuffers, tileMap, next, stored, accepted, calls>>

\* TiledOutputFile::~TiledOutputFile writes the table over the empty one; a
\* failure is swallowed.  Tiles that still wait in tileMap are deleted.
Destroy ==
    /\ pc = "idle"
    /\ pc' = "closed"
    /\ stored' \in {stored, tileOffsets}
    /\ tileMap' = [t \in {} |-> Unfinished]
    /\ UNCHANGED <<mode, lineOrder, tileBuffers, tileOffsets, next, chunks, loop,
                   accepted, failures, calls>>

-----------------------------------------------------------------------------
Writer ==
    \/ AddTask \/ Duplicate \/ KeepTile \/ WriteAtRandom \/ WriteInTurn \/ TileFails
    \/ Drain \/ DrainFails \/ Drained \/ Unwind \/ Report
    \/ CopyTile \/ CopyStops

\* A tile buffer that was not posted: whoever uses it next waits for ever.
Hung ==
    /\ pc \in {"adding", "writing"} /\ NoTasks
    /\ failures \cap {"write", "duplicate"} # {}
    /\ UNCHANGED tiledVars

Closed == pc = "closed" /\ UNCHANGED tiledVars

TiledNext ==
    \/ Writer \/ CopyPixels \/ Destroy \/ Hung \/ Closed
    \/ \E s \in Slot : Execute(s)
    \/ \E l \in Level :
        \E x1, x2 \in 0 .. numXTiles(l[1]) - 1, y1, y2 \in 0 .. numYTiles(l[2]) - 1 :
            x1 <= x2 /\ y1 <= y2 /\ WriteTiles(l, x1, x2, y1, y2)

TiledSpec == TiledInit /\ [][TiledNext]_tiledVars

(***************************************************************************)
(* The thread in writeTiles goes on, and the pool runs every task it is    *)
(* given (ThreadPool.tla); what the program calls is its own choice.       *)
(***************************************************************************)
FairTiled == TiledSpec /\ WF_tiledVars(Writer) /\ WF_tiledVars(\E s \in Slot : Execute(s))

-----------------------------------------------------------------------------
\* How many tiles come before this one.
Rank(t, up) == Cardinality({u \in Tile : Precedes(u, t, up)})

Pixels(t, data) == data = t \/ (data = Unfinished /\ "compress" \in failures)

(***************************************************************************)
(* In whatever order the tiles were submitted and however the tasks were   *)
(* scheduled, unless a write failed: every chunk holds the pixels of the   *)
(* tile it is labelled with, the offsets point to the chunks and to        *)
(* nothing else, no tile is in the file twice, and if the line order is    *)
(* not RANDOM_Y the file is a beginning of the order that it prescribes,   *)
(* level by level and row by row.                                          *)
(***************************************************************************)
TilesInOrder ==
    "write" \notin failures =>
        /\ \A i \in 1 .. Len(chunks) :
            /\ chunks[i].tile \in Tile
            /\ Pixels(chunks[i].tile, chunks[i].data)
            /\ tileOffsets[chunks[i].tile] = i
            /\ lineOrder # "RANDOM_Y" => Rank(chunks[i].tile, lineOrder = "INCREASING_Y") = i - 1
        /\ \A t \in Tile : tileOffsets[t] # 0 => chunks[tileOffsets[t]].tile = t
        /\ \A t \in DOMAIN tileMap : Pixels(t, tileMap[t])

(***************************************************************************)
(* Between calls, also when some of them were refused as duplicates or     *)
(* stopped by an exception of the compressor: every accepted tile is in    *)
(* the file or in tileMap, and never in both; no tile waits in tileMap     *)
(* that could be written; when all tiles were accepted, all are written.   *)
(***************************************************************************)
NothingHeldBack ==
    (pc = "idle" /\ failures \cap {"write", "mixed"} = {}) =>
        /\ accepted = {t \in Tile : tileOffsets[t] # 0} \cup DOMAIN tileMap
        /\ \A t \in DOMAIN tileMap : tileOffsets[t] = 0
        /\ next \notin DOMAIN tileMap
        /\ accepted = Tile => Len(chunks) = Cardinality(Tile)

(***************************************************************************)
(* A call of writeTiles comes back, also when tasks throw: it never waits  *)
(* for a tile buffer that nobody will post.  The exceptions are a failed   *)
(* write and a tile submitted twice: the buffer they used stays taken.     *)
(***************************************************************************)
WriteTilesReturns ==
    pc = "adding" ~> (pc = "idle" \/ pc = "closed" \/ failures \cap {"write", "duplicate"} # {})
=============================================================================
