---------------------------- MODULE CoreContext ----------------------------
(***************************************************************************)
(* A context of OpenEXRCore and the threads that share it.  Open for       *)
(* reading, its header does not change: no mutex is taken, and the chunk   *)
(* tables are shared through an atomic pointer (ChunkTable.tla, over the   *)
(* levels and tiles of TileLayout.tla).  Open for writing, all goes        *)
(* through the mutex (ContextLock.tla).                                    *)
(***************************************************************************)
EXTENDS ChunkTable, ContextLock

vars == <<tableVars, lockVars>>

\* exr_start_read, or exr_start_write: there is nothing to read then.
Init ==
    /\ LockInit /\ TableInit
    /\ IF mode = "read"
       THEN FileInit /\ multi = (NumParts > 1) /\ window = [p \in Parts |-> 1]
       ELSE /\ storage = "increasing" /\ geo \in Live /\ strict = FALSE
            /\ disk = <<>> /\ damaged = {}

ReadNext(t) == (ReadChunk(t) \/ TableStep(t)) /\ UNCHANGED lockVars
WriteNext(t) == LockNext(t) /\ UNCHANGED tableVars

Next == \E t \in Thread : ReadNext(t) \/ WriteNext(t)

Spec == Init /\ [][Next]_vars

\* Threads run, and the mutex is not withheld from one of them for ever.
FairSpec == Spec /\ \A t \in Thread : LockFairness(t)

-----------------------------------------------------------------------------
TypeOK ==
    /\ LockTypeOK
    /\ storage \in {"increasing", "decreasing", "tiled"} /\ geo \in Geometry
    /\ strict \in BOOLEAN /\ lucky \in BOOLEAN
    /\ \A t \in Thread : /\ read[t].at \in {"idle", "load", "install", "done"}
                         /\ read[t].part \in Part /\ read[t].cur \in 1 .. read[t].part
    /\ \A p \in Part : table[p] \in {None, Failed} \/ DOMAIN table[p] = Chunk

(***************************************************************************)
(* In tiled parts both libraries mean the same by a chunk: the table that  *)
(* the C++ library writes is indexed by the core as it was written, the    *)
(* tiles of a level cover it, each pixel once, and a tile has the size     *)
(* that its reader expects.                                                *)
(***************************************************************************)
TilesAgree == storage = "tiled" => IndexAgrees(geo) /\ TilesCover(geo) /\ WriteAgrees(geo)

\* The state has its type, and the mutex is held by the one call at work.
ContextInv == TypeOK /\ LockDiscipline

=============================================================================
