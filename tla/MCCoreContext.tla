--------------------------- MODULE MCCoreContext ---------------------------
\* Small geometries of every kind; the tables that are read belong to an image of
\* 2 x 1 pixels in tiles of that size, with a second level.
EXTENDS CoreContext

Geometries == [w : 1 .. 7, h : 1 .. 4, tw : 1 .. 3, th : 1 .. 2, mode : Mode, round : Rounding]
Read == {[w |-> 2, h |-> 1, tw |-> 2, th |-> 1, mode |-> "mip", round |-> "down"]}
=============================================================================
