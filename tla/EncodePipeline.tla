--------------------------- MODULE EncodePipeline ---------------------------
(***************************************************************************)
(* The encode pipeline of OpenEXRCore (encoding.c) with its default        *)
(* routines, for the chunks of a flat scan-line part: packing deep data is *)
(* left to the application (default_pack_deep refuses).  The same pipeline *)
(* compresses for the output files of the C++ library: Compressor hands it *)
(* pixels that are packed already, in memory of the caller, and takes the  *)
(* result out of its buffer.                                               *)
(***************************************************************************)
EXTENDS StoredPart

CONSTANT MaxEncodeFails    \* bound: the runs of one pipeline that fail

VARIABLE e                 \* the pipeline

Idle == [at |-> "none", chunk |-> NoChunk, user |-> "none", packedBytes |-> 0,
         compressedBytes |-> 0, fails |-> 0]

EncodeInit == e = Idle

Raw == part.raw[e.chunk]

\* The chunks of a part come one after the other.
NextChunk == Cardinality({c \in Chunks : file[c] # Missing}) + 1

\* A stage of exr_encoding_run, and what it leaves of the sizes if it succeeds.
EncodeStage(at, outcomes, onSuccess) ==
    /\ e.at = at
    /\ \E o \in outcomes :
          /\ m' = o.mem
          /\ o.ok \/ e.fails < MaxEncodeFails
          /\ e' = IF o.ok THEN onSuccess ELSE [e EXCEPT !.at = "ready", !.fails = @ + 1]

\* An encoder refuses to allocate nothing.
AllocEncodeBuffer(mem, b, n) == IF n = 0 THEN {Bad(mem)} ELSE AllocBuffer(mem, b, n)

-----------------------------------------------------------------------------
(* Between runs.                                                           *)

exr_encoding_initialize(c) ==
    /\ e.at = "none"
    /\ e' = [Idle EXCEPT !.at = "ready", !.chunk = c, !.user = "application"]
    /\ UNCHANGED <<partVars, m>>

\* What the last chunk left is forgotten, the alias of the packed buffer too.
Updated(mem) ==
    IF mem.buf["packed"].ptr = mem.buf["compressed"].ptr THEN Forget(mem, "compressed") ELSE mem

exr_encoding_update(c) ==
    /\ e.at = "ready" /\ e.user = "application"
    /\ m' = Updated(m)
    /\ e' = [e EXCEPT !.chunk = c, !.packedBytes = 0, !.compressedBytes = 0]
    /\ UNCHANGED partVars

exr_encoding_run ==
    /\ e.at = "ready" /\ e.user = "application"
    /\ e.chunk = NextChunk \/ e.fails < MaxEncodeFails
    /\ e' = [e EXCEPT !.at = "pack", !.packedBytes = 0]
    /\ UNCHANGED <<partVars, m>>

exr_encoding_destroy ==
    LET m1 == FreeBuffer(FreeBuffer(m, "packed"), "compressed")
    IN  /\ e.at = "ready"
        /\ m' = FreeBuffer(FreeBuffer(m1, "scratch"), "packedTable")
        /\ e' = Idle
        /\ UNCHANGED partVars

-----------------------------------------------------------------------------
(* The stages.                                                             *)

default_pack(mem) == {Bad(mem), Good(Put(mem, "packed", Raw, Token("pixels", e.chunk, "plain")))}

Pack ==
    /\ EncodeStage("pack",
                   IF Raw = 0 THEN {Good(m)}
                   ELSE Then(AllocEncodeBuffer(m, "packed", Raw), default_pack),
                   [e EXCEPT !.at = "compress", !.packedBytes = Raw])
    /\ UNCHANGED partVars

\* What a codec leaves in n units of the compressed buffer, of size units of input.
Compressed(data, size, n) ==
    (IF n < size \/ part.codec = "b44" THEN {[data EXCEPT !.form = "coded"]} ELSE {})
    \cup (IF n = size /\ part.codec # "ht" THEN {data} ELSE {})
    \cup (IF n = size /\ part.codec = "ht" THEN {Junk} ELSE {})

\* Bug: what did not get smaller is not copied over the compressed data.
BadApply(mem, size, n) ==
    {Bad(mem), Good(Put(mem, "compressed", n, [Get(mem, "packed") EXCEPT !.form = "coded"]))}

internal_exr_apply(mem, size, n) ==
    {Bad(mem)} \cup { Good(Put(mem, "compressed", n, data)) :
                         data \in Compressed(Get(mem, "packed"), size, n) }

exr_compress_chunk(mem, size, n) ==
    LET Apply(a)   == internal_exr_apply(a, size, n)
        Scratch(a) == Then(AllocEncodeBuffer(a, "scratch", size), Apply)
    IN  Then(AllocEncodeBuffer(mem, "compressed", size + 1), Scratch)

\* Nothing to compress: the packed buffer is what is written.
Uncompressed ==
    PointTo(FreeBuffer(FreeBuffer(m, "compressed"), "packedTable"), "compressed", "packed")

Compress ==
    /\ IF Coded /\ e.packedBytes > 0
       THEN \E n \in 1 .. e.packedBytes :
              EncodeStage("compress", exr_compress_chunk(m, e.packedBytes, n),
                          [e EXCEPT !.at = "yield", !.compressedBytes = n])
       ELSE EncodeStage("compress", {Good(Uncompressed)},
                        [e EXCEPT !.at = "yield", !.compressedBytes = e.packedBytes])
    /\ UNCHANGED partVars

default_yield ==
    /\ EncodeStage("yield", {IF e.chunk = NextChunk THEN Good(m) ELSE Bad(m)},
                   [e EXCEPT !.at = "write"])
    /\ UNCHANGED partVars

FlatChunk(c, n, data, user) ==
    [Missing EXCEPT !.area = 1, !.packed = n, !.unpacked = part.raw[c], !.pixels = data,
                    !.by = user]

default_write_chunk ==
    /\ EncodeStage("write", {Bad(m), Good(m)}, [e EXCEPT !.at = "ready"])
    /\ file' = IF e'.fails > e.fails THEN file
               ELSE [file EXCEPT ![e.chunk] =
                       FlatChunk(e.chunk, e.compressedBytes,
                                 IF e.compressedBytes = 0 THEN Junk ELSE Get(m, "compressed"),
                                 "application")]
    /\ UNCHANGED part

-----------------------------------------------------------------------------
(* The C++ library.                                                        *)

\* The pixels of a chunk, packed in memory of the caller, are compressed to n units
\* or not at all; the caller writes whichever is smaller, and its memory may be
\* gone at the next call.  A compressor serves some of the chunks.
runEncodeStep(c, n) ==
    LET size == part.raw[c]
        data == Token("pixels", c, "plain")
        m0   == IF e.at = "none" THEN m ELSE Updated(m)
        p    == Address("packed", DOMAIN m0.heap)
        lent == [m0 EXCEPT !.heap = WithBlock(@, p, Block("application", size, data)),
                           !.buf["packed"].ptr = p]
        Returned(mem) == [mem EXCEPT !.heap = Restrict(@, DOMAIN @ \ {p})]
    IN  /\ Coded /\ file[c] = Missing
        /\ e.at = "none" \/ (e.at = "ready" /\ e.user = "compressor")
        /\ n <= size /\ (n = 0 <=> size = 0)
        /\ UNCHANGED part
        /\ IF size = 0
           THEN file' = [file EXCEPT ![c] = FlatChunk(c, 0, Junk, "compressor")] /\ UNCHANGED <<m, e>>
           ELSE \E o \in exr_compress_chunk(lent, size, n) :
                  /\ o.ok \/ e.fails < MaxEncodeFails
                  /\ m' = IF o.ok THEN Returned(Forget(o.mem, "packed")) ELSE Returned(o.mem)
                  /\ e' = [Idle EXCEPT !.at = "ready", !.chunk = c, !.user = "compressor",
                                       !.fails = IF o.ok THEN e.fails ELSE e.fails + 1]
                  /\ file' = IF ~o.ok THEN file
                             ELSE [file EXCEPT ![c] =
                                     FlatChunk(c, n, IF n < size THEN Get(o.mem, "compressed")
                                                     ELSE data, "compressor")]

EncodeNext ==
    \/ \E c \in Chunks :
          \/ exr_encoding_initialize(c)
          \/ exr_encoding_update(c)
          \/ \E n \in 0 .. part.raw[c] : runEncodeStep(c, n)
    \/ exr_encoding_run
    \/ Pack \/ Compress \/ default_yield \/ default_write_chunk
    \/ exr_encoding_destroy
=============================================================================
