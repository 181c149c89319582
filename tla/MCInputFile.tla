---------------------------- MODULE MCInputFile ----------------------------
(* Two callers, two frame buffers of different layout, a scan-line file of *)
(* three chunks and a tiled file of two rows of two tiles.                 *)
EXTENDS InputFile, TLC

CONSTANTS f1, f2, planar, interleaved

MCLayoutOf == (f1 :> planar) @@ (f2 :> interleaved)
=============================================================================
