----------------------------- MODULE TileLayout -----------------------------
(***************************************************************************)
(* How the data window of a tiled part is cut into levels, tiles and       *)
(* chunks, computed in two places: by OpenEXRCore (parse_header.c,         *)
(* chunk.c) and by the C++ library (ImfTiledMisc.cpp, ImfTileOffsets.cpp). *)
(* A geometry g has the size w x h of the data window, the tile size       *)
(* tw x th, the level mode and the rounding mode.  Coordinates are         *)
(* relative to the corner of the data window.                              *)
(***************************************************************************)
EXTENDS Integers, FiniteSets, FiniteSetsExt

Mode == {"one", "mip", "rip"}
Rounding == {"down", "up"}
Size == Nat \ {0}

\* What the checks of a header leave: no window and no tile is empty.
IsGeometry(g) ==
    g \in [w : Size, h : Size, tw : Size, th : Size, mode : Mode, round : Rounding]

-----------------------------------------------------------------------------
(* Levels.                                                                  *)

\* floor_log2, floorLog2
FloorLog2(n) ==
    LET f[x \in 1 .. n] == IF x > 1 THEN 1 + f[x \div 2] ELSE 0 IN f[n]

\* ceil_log2, ceilLog2: one more if the loop shifts a bit out before the last.
CeilLog2(n) ==
    LET odd[x \in 1 .. n] == x > 1 /\ (x % 2 = 1 \/ odd[x \div 2])
    IN FloorLog2(n) + IF odd[n] THEN 1 ELSE 0

RoundLog2(n, round) == IF round = "down" THEN FloorLog2(n) ELSE CeilLog2(n)

Larger(a, b) == IF a > b THEN a ELSE b
Smaller(a, b) == IF a < b THEN a ELSE b

Levels(g, size) ==
    CASE g.mode = "one" -> 1
      [] g.mode = "mip" -> RoundLog2(Larger(g.w, g.h), g.round) + 1
      [] g.mode = "rip" -> RoundLog2(size, g.round) + 1

XLevels(g) == Levels(g, g.w)
YLevels(g) == Levels(g, g.h)

\* 1 << l
Shifted(l) ==
    LET f[k \in 0 .. l] == IF k = 0 THEN 1 ELSE 2 * f[k - 1] IN f[l]

\* calc_level_size, levelSize
LevelSize(size, l, round) ==
    LET b == Shifted(l)
        s == size \div b
    IN Larger(1, IF round = "up" /\ s * b < size THEN s + 1 ELSE s)

Width(g, lx) == LevelSize(g.w, lx, g.round)
Height(g, ly) == LevelSize(g.h, ly, g.round)

\* The levels <<lx, ly>> of a part.
LevelsOf(g) ==
    {l \in (0 .. XLevels(g) - 1) \X (0 .. YLevels(g) - 1) : g.mode = "rip" \/ l[1] = l[2]}

-----------------------------------------------------------------------------
(* Tiles.                                                                   *)

\* tile_level_tile_count_x and _y, calculateNumTiles
CountX(g, lx) == (Width(g, lx) + g.tw - 1) \div g.tw
CountY(g, ly) == (Height(g, ly) + g.th - 1) \div g.th

Tile(g) == UNION {{[x |-> x, y |-> y, lx |-> l[1], ly |-> l[2]] :
                      x \in 0 .. CountX(g, l[1]) - 1, y \in 0 .. CountY(g, l[2]) - 1} :
                      l \in LevelsOf(g)}

\* The tiles of a set of levels, counted level by level.
TilesIn(g, levels) == MapThenSumSet(LAMBDA l : CountX(g, l[1]) * CountY(g, l[2]), levels)

\* internal_exr_compute_chunk_offset_size, getTiledChunkOffsetTableSize
ChunkCount(g) == TilesIn(g, LevelsOf(g))

\* Bug: the rows of a level before the tile are counted with its height.
BadChunkIndex(g, t) ==
    TilesIn(g, {l \in LevelsOf(g) : l[2] < t.ly \/ (l[2] = t.ly /\ l[1] < t.lx)})
        + t.y * CountY(g, t.ly) + t.x

\* validate_and_compute_tile_chunk_off: levels before this one, rows, columns.
ChunkIndex(g, t) ==
    TilesIn(g, {l \in LevelsOf(g) : l[2] < t.ly \/ (l[2] = t.ly /\ l[1] < t.lx)})
        + t.y * CountX(g, t.lx) + t.x

\* The entry of a tile in the table that TileOffsets::writeTo writes.
Slot(g, t) ==
    LET l(u) == IF g.mode = "rip" THEN u.ly * XLevels(g) + u.lx ELSE u.lx
    IN Cardinality({u \in Tile(g) :
           \/ l(u) < l(t)
           \/ l(u) = l(t) /\ u.y < t.y
           \/ l(u) = l(t) /\ u.y = t.y /\ u.x < t.x})

-----------------------------------------------------------------------------
(* The size of a tile, smaller at the right and lower edge of a level.      *)

\* exr_read_tile_chunk_info, exr_chunk_default_initialize
ReadExtent(tile, k, level) ==
    LET over == tile * (k + 1) - level
    IN IF over > 0 /\ over < tile THEN tile - over ELSE tile
ReadWidth(g, t) == ReadExtent(g.tw, t.x, Width(g, t.lx))
ReadHeight(g, t) == ReadExtent(g.th, t.y, Height(g, t.ly))

\* exr_write_tile_chunk_info: the edge is the one of the data window.
WriteExtent(tile, k, level, window) ==
    LET s == Smaller(level, tile)
    IN IF k * s + s - 1 > window - 1 THEN window - k * s ELSE s
WriteWidth(g, t) == WriteExtent(g.tw, t.x, Width(g, t.lx), g.w)
WriteHeight(g, t) == WriteExtent(g.th, t.y, Height(g, t.ly), g.h)

\* dataWindowForTile
TileWindow(g, t) ==
    (t.x * g.tw .. Smaller(t.x * g.tw + g.tw, Width(g, t.lx)) - 1)
        \X (t.y * g.th .. Smaller(t.y * g.th + g.th, Height(g, t.ly)) - 1)

-----------------------------------------------------------------------------
\* The file with its two readers agrees on what a chunk is: the table that the
\* C++ library writes is indexed by the core as it was written, without gaps.
IndexAgrees(g) ==
    /\ ChunkCount(g) = Cardinality(Tile(g))
    /\ \A t \in Tile(g) : ChunkIndex(g, t) = Slot(g, t)

\* The tiles of a level cover it, each pixel once, and both libraries give a
\* tile the same size, in levels that shrink to a single pixel.
TilesCover(g) ==
    /\ \A l \in LevelsOf(g) :
           LET tiles == {t \in Tile(g) : <<t.lx, t.ly>> = l}
               pixels == (0 .. Width(g, l[1]) - 1) \X (0 .. Height(g, l[2]) - 1)
           IN /\ UNION {TileWindow(g, t) : t \in tiles} = pixels
              /\ MapThenSumSet(LAMBDA t : ReadWidth(g, t) * ReadHeight(g, t), tiles)
                     = Cardinality(pixels)
              /\ \A t \in tiles :
                     Cardinality(TileWindow(g, t)) = ReadWidth(g, t) * ReadHeight(g, t)
    /\ g.mode # "one" => Width(g, XLevels(g) - 1) = 1 /\ Height(g, YLevels(g) - 1) = 1

\* What a writer asks the core for is the chunk that a reader will be told of,
\* but for the last tile in a row or column of several in a level above 0.
WriteAgrees(g) ==
    \A t \in Tile(g) :
        /\ WriteWidth(g, t) = ReadWidth(g, t)
              \/ (t.lx > 0 /\ t.x > 0 /\ t.x = CountX(g, t.lx) - 1)
        /\ WriteHeight(g, t) = ReadHeight(g, t)
              \/ (t.ly > 0 /\ t.y > 0 /\ t.y = CountY(g, t.ly) - 1)
=============================================================================
