---------------------------- MODULE MCTiledOutput ----------------------------
(* Level 0 has two by two tiles, level 1 has one tile, in each direction.   *)
EXTENDS TiledOutput

TwoThenOne == <<2, 1>>
=============================================================================
