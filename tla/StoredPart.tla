----------------------------- MODULE StoredPart -----------------------------
(***************************************************************************)
(* A part of a file as a transcoding pipeline sees it, and what its        *)
(* pipelines share: the memory they allocate from.                         *)
(*                                                                         *)
(* A chunk is stored as pixels and, in a deep part, a table of sample      *)
(* counts.  Sizes are small numbers; the unit of a table is one count, so  *)
(* that the table of a chunk has area = width * height units unpacked.     *)
(* What a block holds is a token: counts or pixels, of which chunk, and in *)
(* which form: compressed, as in the file without compression, or, for     *)
(* counts, one number per pixel instead of running totals.                 *)
(***************************************************************************)
EXTENDS TranscodeBuffers

CONSTANT Chunks

ASSUME ChunksAssumption == IsFiniteSet(Chunks) /\ Chunks \subseteq Nat \ {0}

VARIABLES
    m,       \* the memory
    part,    \* [deep, tiled, codec, raw]: its storage, how it is compressed, and for
             \* each chunk of a flat part the size of its pixels
    file     \* what the file has for each chunk

partVars == <<part, file>>

\* zip stands for the codecs that give back what they could not make smaller; the
\* others leave what is as large in their own form (b44: B44, B44A and PXR24), or
\* leave nothing useful (ht: HTJ2K).
Codecs == {"none", "zip", "b44", "ht"}
Coded == part.codec # "none"

NoChunk == 0
\* The counts of a chunk without samples.
Zeros == Token("counts", NoChunk, "plain")

Missing == [area |-> 0, table |-> 0, packed |-> 0, unpacked |-> 0,
            counts |-> Junk, pixels |-> Junk, by |-> "none"]

\* A chunk whose table takes tbl units in the file and whose pixels take packed;
\* what is not smaller than its original was stored as it is.
Stored(c, coded, area, tbl, packed, unpacked) ==
    [area |-> area, table |-> tbl, packed |-> packed, unpacked |-> unpacked,
     counts |-> Token("counts", c, IF coded /\ tbl # area THEN "coded" ELSE "plain"),
     pixels |-> Token("pixels", c, IF packed # unpacked THEN "coded" ELSE "plain"),
     by |-> "none"]

\* Decompression: of anything but compressed data it makes nothing useful.
Undo(data) == IF data.form = "coded" THEN [data EXCEPT !.form = "plain"] ELSE Junk
=============================================================================
