---------------------------- MODULE CorePipelines ----------------------------
(***************************************************************************)
(* A part through the pipelines of OpenEXRCore: a flat part is written by  *)
(* an encode pipeline and, when every chunk is stored and the pipeline is  *)
(* destroyed, read by a decode pipeline; a deep part comes from elsewhere. *)
(***************************************************************************)
EXTENDS EncodePipeline, DecodePipeline

CONSTANTS
    FlatParts,       \* parts to write: the size of the pixels of each chunk
    DeepParts(_, _)  \* parts to read, by whether they are compressed and whether
                     \* they are tiled: <<area, table, packed, unpacked>> of each chunk

ASSUME FlatPartsAssumption == FlatParts \subseteq [Chunks -> Nat]

\* A chunk of a deep part has pixels.  What is compressed does not vanish, and what
\* is not compressed is stored as it is; the table of a scan-line chunk that is not
\* compressed has one count per pixel, or exr_read_scanline_chunk_info refuses the
\* chunk.  A table that is compressed may be of any size, and that of a tile too.
WellFormed(coded, tiled, k) ==
    /\ k \in Nat \X Nat \X Nat \X Nat
    /\ k[1] > 0
    /\ k[4] > 0 => k[3] > 0
    /\ ~coded => k[3] = k[4]
    /\ ~coded /\ ~tiled => k[2] = k[1]

ASSUME DeepPartsAssumption ==
    \A coded, tiled \in BOOLEAN : \A f \in DeepParts(coded, tiled) :
        DOMAIN f = Chunks /\ \A c \in Chunks : WellFormed(coded, tiled, f[c])

allVars == <<m, part, file, e, d, out>>

Complete == \A c \in Chunks : file[c] # Missing

Init ==
    /\ m = EmptyMemory
    /\ EncodeInit /\ DecodeInit
    /\ \/ /\ part \in [deep : {FALSE}, tiled : {FALSE}, codec : Codecs, raw : FlatParts]
          /\ file = [c \in Chunks |-> Missing]
       \/ \E coded, tiled \in BOOLEAN : \E k \in DeepParts(coded, tiled) :
             /\ part = [deep |-> TRUE, tiled |-> tiled, codec |-> IF coded THEN "zip" ELSE "none",
                        raw |-> <<>>]
             /\ file = [c \in Chunks |-> Stored(c, coded, k[c][1], k[c][2], k[c][3], k[c][4])]

Encode == ~part.deep /\ (e.at # "none" \/ ~Complete) /\ EncodeNext /\ UNCHANGED decodeVars

Decode == Complete /\ e.at = "none" /\ DecodeNext /\ UNCHANGED e

Next == Encode \/ Decode

Spec == Init /\ [][Next]_allVars

-----------------------------------------------------------------------------
(* Properties.                                                             *)

OwnersOf(p) == {b \in Buffers : m.buf[b].ptr = p /\ Owns(m, b)}

\* No step of a pipeline frees a block that is not its own or is gone, or writes
\* outside of one; every block it has allocated belongs to exactly one of its
\* buffers, with its size, and none is left when the pipeline is destroyed: whichever
\* runs have failed, at whichever allocation (coding.c, the aliases of decoding.c
\* and encoding.c).  Left out is what follows when the application has adopted a block
\* under the name of one buffer that another one counts as its own (d.shared).
MemorySound ==
    d.shared \/
    /\ ~m.fault
    /\ \A p \in DOMAIN m.heap : m.heap[p].own = "pipeline" =>
          \E b \in Buffers : OwnersOf(p) = {b} /\ m.buf[b].size = m.heap[p].size
    /\ \A b \in Buffers : Owns(m, b) => Live(m, b)
    /\ d.at = "none" /\ e.at = "none" =>
          \A p \in DOMAIN m.heap : m.heap[p].own = "application"

\* A step keeps the blocks of the application among P, unless it frees them itself.
Keeps(P) ==
    \A p \in P : m.heap[p].own = "application" =>
        \/ p \in DOMAIN m'.heap /\ m'.heap[p] = m.heap[p]
        \/ ApplicationFrees

\* A lent table that has the very size of the one that the user wants, with the sum of
\* its counts, so that it is unpacked in place.
Exposed(p) == d.foreign /\ Cur.table = TableSize /\ p = m.buf["packedTable"].ptr

\* What the application has lent to a pipeline or adopted from it is never changed or
\* freed by one ("leave alloc sizes at 0 such that the decode pipeline doesn't attempt
\* to free, making it safe to cast const away", ImfDeepScanLineInputFile.cpp:762; "If
\* the caller wishes to take control of the buffer, simple adopt the pointer and set it
\* to NULL here", openexr_decode.h:119-140).  The code breaks either promise in one
\* case: a lent table that is unpacked in place (Exposed), and what follows when a block
\* was adopted under the name of one buffer that another one counts as its own
\* (d.shared).
ApplicationKept ==
    [][d.shared \/ Keeps({p \in DOMAIN m.heap : ~Exposed(p)})]_allVars

\* The chunk whose absent table a reused pipeline may not notice.
TableOverlooked == Coded /\ Cur.table = 0 /\ m.buf["packedTable"].ptr # Null

\* A chunk of exr_encoding_run that the codec did not make smaller and did not leave
\* as it was: the reader takes it for uncompressed (internal_b44.c:495,
\* internal_pxr24.c:230, internal_ht.cpp:562).
NotShrunk(c) == /\ part.codec \in {"b44", "ht"} /\ file[c].by = "application"
                /\ file[c].packed = file[c].unpacked

\* A run that succeeds gives its user the counts and the pixels of the chunk it was
\* asked for, uncompressed and in the form asked for, whatever the pipeline was used
\* for before (exr_decoding_run, run_unpack), unless it shares a block (d.shared).
ChunkDelivered ==
    d.at = "ready" /\ d.rv = "ok" /\ ~TableOverlooked /\ ~d.shared =>
       /\ Deep => out.counts = [IF Cur.table = 0 THEN Zeros ELSE Token("counts", d.chunk, "plain")
                                EXCEPT !.form = IF d.individual THEN "individual" ELSE "plain"]
       /\ ~d.countsOnly /\ Cur.unpacked > 0 /\ ~NotShrunk(d.chunk) =>
             out.pixels = Token("pixels", d.chunk, "plain")

\* What is stored for a chunk are its own pixels, compressed exactly when the reader
\* will take them for compressed (exr_encoding_run, runEncodeStep).
ChunkStored ==
    ~part.deep => \A c \in Chunks :
       file[c].unpacked > 0 /\ ~NotShrunk(c) =>
          file[c].pixels = Token("pixels", c, IF file[c].packed = file[c].unpacked
                                              THEN "plain" ELSE "coded")
=============================================================================
