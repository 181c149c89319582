--------------------------- MODULE DecodePipeline ---------------------------
(***************************************************************************)
(* The decode pipeline of OpenEXRCore (decoding.c), with the stages that   *)
(* exr_decoding_choose_default_routines sets up: one pipeline reads chunk  *)
(* after chunk, in any order, keeps its buffers from one to the next, and  *)
(* goes on after a chunk that could not be read, decompressed or           *)
(* allocated for.  ScanLineProcess of the input files is such a user: it   *)
(* updates the pipeline, runs it, copies the sample counts, unpacks again  *)
(* what it has (run_unpack), and can be given a chunk in memory that       *)
(* belongs to the application (run_mem_decode).                            *)
(***************************************************************************)
EXTENDS StoredPart

CONSTANT MaxFails    \* bound: the runs of one pipeline that fail

VARIABLES
    d,       \* the pipeline, and whether an application has ever adopted a block that
             \* another buffer went on counting as its own (shared)
    out      \* what the last run left for its user

decodeVars == <<d, out>>

Unused == [at |-> "none", chunk |-> NoChunk, individual |-> FALSE, countsOnly |-> FALSE,
           direct |-> FALSE, foreign |-> FALSE, rv |-> "none", fails |-> 0, shared |-> FALSE]

Nothing == [counts |-> Junk, pixels |-> Junk]

Cur == file[d.chunk]
Deep == part.deep

DecodeInit == d = Unused /\ out = Nothing

\* Bounds: MaxFails, and no run of a pipeline that shares a block fails.
MayFail == d.fails < MaxFails /\ ~d.shared

\* A stage of exr_decoding_run: the next one runs if it succeeds.
Stage(at, outcomes, next) ==
    /\ d.at = at
    /\ \E o \in outcomes :
          /\ m' = o.mem
          /\ o.ok \/ MayFail
          /\ d' = IF o.ok THEN [d EXCEPT !.at = next]
                  ELSE [d EXCEPT !.at = "ready", !.rv = "error", !.fails = @ + 1]
    /\ UNCHANGED partVars

-----------------------------------------------------------------------------
(* Between runs.                                                           *)

exr_decoding_initialize(c, individual, countsOnly, direct) ==
    /\ d.at = "none" /\ file[c] # Missing
    /\ individual \/ countsOnly => Deep
    /\ direct => ~Deep /\ ~Coded
    /\ d' = [Unused EXCEPT !.at = "ready", !.chunk = c, !.individual = individual,
                           !.countsOnly = countsOnly, !.direct = direct, !.shared = d.shared]
    /\ UNCHANGED <<partVars, m, out>>

\* The user may set other flags for the next chunk.
exr_decoding_update(c, countsOnly) ==
    /\ d.at = "ready" /\ ~d.foreign /\ file[c] # Missing
    /\ countsOnly => Deep
    /\ d' = [d EXCEPT !.chunk = c, !.countsOnly = countsOnly, !.rv = "none"]
    /\ out' = Nothing
    /\ UNCHANGED <<partVars, m>>

exr_decoding_run ==
    /\ d.at = "ready" /\ ~(d.foreign /\ d.rv # "none")
    /\ d' = [d EXCEPT !.at = "read"]
    /\ out' = Nothing
    /\ UNCHANGED <<partVars, m>>

exr_decoding_destroy ==
    LET m1 == IF Aliases(m, "unpacked", "packed") THEN Forget(m, "unpacked") ELSE m
        m2 == IF Aliases(m1, "table", "packedTable") THEN Forget(m1, "table") ELSE m1
        m3 == FreeBuffer(FreeBuffer(m2, "packed"), "unpacked")
        m4 == FreeBuffer(FreeBuffer(m3, "scratch"), "table")
    IN  /\ d.at = "ready"
        /\ m' = FreeBuffer(m4, "packedTable")
        /\ d' = [Unused EXCEPT !.shared = d.shared] /\ out' = Nothing
        /\ UNCHANGED partVars

-----------------------------------------------------------------------------
(* The stages.                                                             *)

\* A read that fails may have filled a part of the buffer.
do_read(mem, b, n, data) ==
    IF n = 0 THEN {Good(mem)} ELSE {Bad(Put(mem, b, n, Junk)), Good(Put(mem, b, n, data))}

default_read_chunk ==
    LET s == Cur
        m0 == IF Aliases(m, "unpacked", "packed") THEN Forget(m, "unpacked") ELSE m
        ReadTable(mem)  == do_read(mem, "packedTable", s.table, s.counts)
        ReadPixels(mem) == do_read(mem, "packed", s.packed, s.pixels)
        ReadBoth(mem)   == Then(ReadTable(mem), ReadPixels)
        AllocBoth(mem)  == Then(AllocBuffer(mem, "packed", s.packed), ReadBoth)
    IN  IF Deep /\ s.table > 0
        THEN LET t == AllocBuffer(m0, "packedTable", s.table)
             IN  IF d.countsOnly THEN Then(t, ReadTable) ELSE Then(t, AllocBoth)
        ELSE Then(AllocBuffer(m0, "packed", s.packed), ReadPixels)

\* Uncompressed pixels go straight to the frame buffer of the user; the chunk
\* that run_mem_decode was given is there already.
Read ==
    /\ Stage("read", IF d.foreign THEN {Good(m)}
                     ELSE IF d.direct THEN {Bad(m), Good(m)} ELSE default_read_chunk,
             "pointers")
    /\ out' = IF d.direct /\ d'.at = "pointers" THEN [out EXCEPT !.pixels = Cur.pixels] ELSE out

\* The units of the table for the user; individual counts are followed by their sum.
TableSize == Cur.area + (IF d.individual THEN 1 ELSE 0)

update_table_pointer ==
    IF Cur.table = TableSize
    THEN {Good(PointTo(FreeBuffer(m, "table"), "table", "packedTable"))}
    ELSE AllocBuffer(m, "table", TableSize)

\* Bug: a buffer of its own from a chunk before is not released.
Bad_unpacked_pointer(mem) ==
    IF Cur.packed = Cur.unpacked THEN {Good(PointTo(mem, "unpacked", "packed"))}
    ELSE AllocBuffer(mem, "unpacked", Cur.unpacked)

update_unpacked_pointer(mem) ==
    IF Cur.packed = Cur.unpacked
    THEN {Good(PointTo(FreeBuffer(mem, "unpacked"), "unpacked", "packed"))}
    ELSE AllocBuffer(mem, "unpacked", Cur.unpacked)

update_pack_unpack_ptrs ==
    IF ~Deep THEN update_unpacked_pointer(m)
    ELSE IF d.countsOnly THEN update_table_pointer
    ELSE Then(update_table_pointer, update_unpacked_pointer)

UpdatePointers ==
    /\ Stage("pointers", update_pack_unpack_ptrs, "decompress")
    /\ UNCHANGED out

\* n units become outn; what did not get smaller was stored as it is.
decompress_data(mem, from, n, to, outn) ==
    LET Undone(a) == {Bad(a), Good(Put(a, to, outn, Undo(Get(a, from))))}
    IN  IF n = 0 THEN {Good(mem)}
        ELSE IF n = outn
        THEN {Good(IF mem.buf[from].ptr = mem.buf[to].ptr THEN mem
                   ELSE Put(mem, to, outn, Get(mem, from)))}
        ELSE Then(AllocBuffer(mem, "scratch", outn), Undone)

exr_uncompress_chunk ==
    LET table == IF m.buf["packedTable"].ptr = Null THEN {Good(m)}
                 ELSE decompress_data(m, "packedTable", Cur.table, "table", Cur.area)
        Pixels(mem) ==
            IF Cur.unpacked = 0 THEN {Good(mem)}
            ELSE decompress_data(mem, "packed", Cur.packed, "unpacked", Cur.unpacked)
    IN  IF d.countsOnly THEN table ELSE Then(table, Pixels)

Decompress ==
    /\ Stage("decompress", IF Coded THEN exr_uncompress_chunk ELSE {Good(m)}, "samples")
    /\ UNCHANGED out

\* Bug: what the file lacks of a table is left as it is.
BadCopiedTable ==
    {Good(IF Cur.table > 0 THEN Put(m, "table", Cur.area, Get(m, "packedTable")) ELSE m)}

\* The table of an uncompressed part is copied unless its buffer is the one it was
\* read into; what the file lacks of it counts as zero.
CopiedTable ==
    IF m.buf["table"].size < Cur.table /\ m.buf["table"].size < Cur.area THEN {Bad(m)}
    ELSE {Good(IF Cur.table > 0 THEN Put(m, "table", Cur.area, Get(m, "packedTable"))
               ELSE Put(m, "table", m.buf["table"].size, Zeros))}

PlacedTable ==
    IF Coded
    THEN {Good(IF m.buf["packedTable"].ptr = Null /\ m.buf["table"].ptr # Null
               THEN Put(m, "table", m.buf["table"].size, Zeros) ELSE m)}
    ELSE IF m.buf["table"].ptr # m.buf["packedTable"].ptr THEN CopiedTable ELSE {Good(m)}

\* Running totals become counts, one per pixel.
Individual(t) == IF t.form # "plain" THEN Junk
                 ELSE IF d.individual THEN [t EXCEPT !.form = "individual"] ELSE t

\* In place, with the sum of the counts behind them.  The totals may turn out to fall,
\* or to be more than the pixels there are.
unpack_sample_table(mem) ==
    {Bad(Put(mem, "table", TableSize, Junk)),
     Good(Put(mem, "table", TableSize, Individual(Get(mem, "table"))))}

\* The end of a run for the pixels that the user gets.
Delivered == [counts |-> IF Deep THEN Get(m, "table") ELSE Junk,
              pixels |-> IF d.countsOnly \/ Cur.unpacked = 0 THEN Junk ELSE Get(m, "unpacked")]

Samples ==
    /\ Stage("samples", IF Deep THEN Then(PlacedTable, unpack_sample_table) ELSE {Good(m)},
             "unpack")
    /\ UNCHANGED out

\* realloc_nonimage_data_fn, unpack_and_convert_fn and copy_sample_count.  A run for
\* counts only ends before them; pixels that were read directly are not converted.
Unpack ==
    /\ d.at = "unpack"
    /\ \/ /\ d' = [d EXCEPT !.at = "ready", !.rv = "ok"]
          /\ out' = IF d.direct THEN out ELSE Delivered
       \/ /\ MayFail /\ ~d.countsOnly
          /\ Deep \/ (Cur.unpacked > 0 /\ ~d.direct)
          /\ d' = [d EXCEPT !.at = "ready", !.rv = "error", !.fails = @ + 1]
          /\ UNCHANGED out
    /\ UNCHANGED <<partVars, m>>

-----------------------------------------------------------------------------
(* What users do besides.                                                  *)

\* The same chunk again, from the buffers that a successful run has left.
run_unpack ==
    /\ d.at = "ready" /\ d.rv = "ok" /\ ~d.direct
    /\ out' = Delivered
    /\ UNCHANGED <<partVars, m, d>>

\* A new pipeline for one chunk in memory of the application, of a scan-line part.
run_mem_decode(c, countsOnly) ==
    LET p == Address("packedTable", {})
        q == Address("packed", {})
        table  == Block("application", file[c].table, file[c].counts)
        pixels == Block("application", file[c].packed, file[c].pixels) IN
    /\ d.at = "none" /\ m.heap = <<>> /\ Deep /\ ~part.tiled /\ file[c] # Missing
    /\ d' = [Unused EXCEPT !.at = "ready", !.chunk = c, !.individual = TRUE,
                           !.countsOnly = countsOnly, !.foreign = TRUE, !.shared = d.shared]
    /\ m' = [m EXCEPT !.heap = WithBlock(WithBlock(@, q, pixels), p, table),
                      !.buf["packedTable"].ptr = p, !.buf["packed"].ptr = q]
    /\ UNCHANGED <<partVars, out>>

\* "simple adopt the pointer and set it to NULL here", for whatever block the buffer
\* points to, the one of another buffer included; the application frees it when it
\* pleases.  Bound: one block at a time, and from a pipeline of which no run has failed.
Adopt(b) ==
    LET p == m.buf[b].ptr IN
    /\ d.at = "ready" /\ d.rv = "ok" /\ d.fails = 0
    /\ Live(m, b)
    /\ \A q \in DOMAIN m.heap : m.heap[q].own = "pipeline"
    /\ m' = [Forget(m, b) EXCEPT !.heap[p].own = "application"]
    /\ d' = [d EXCEPT !.rv = "none", !.shared = @ \/ ~Owns(m, b)]
    /\ UNCHANGED <<partVars, out>>

ApplicationFrees ==
    /\ d.at \in {"none", "ready"} /\ (d.foreign => d.at = "none")
    /\ \E p \in DOMAIN m.heap :
          /\ m.heap[p].own = "application"
          /\ m' = [m EXCEPT !.heap = Restrict(@, DOMAIN @ \ {p})]
    /\ UNCHANGED <<partVars, d, out>>

DecodeNext ==
    \/ \E c \in Chunks, countsOnly \in BOOLEAN :
          \/ \E individual, direct \in BOOLEAN :
                exr_decoding_initialize(c, individual, countsOnly, direct)
          \/ exr_decoding_update(c, countsOnly)
          \/ run_mem_decode(c, countsOnly)
    \/ exr_decoding_run
    \/ Read \/ UpdatePointers \/ Decompress \/ Samples \/ Unpack
    \/ run_unpack
    \/ \E b \in {"packed", "unpacked"} : Adopt(b)
    \/ ApplicationFrees
    \/ exr_decoding_destroy
=============================================================================
