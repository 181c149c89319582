-------------------------- MODULE TranscodeBuffers --------------------------
(***************************************************************************)
(* The buffers of a transcoding pipeline of OpenEXRCore (coding.c).        *)
(*                                                                         *)
(* exr_decode_pipeline_t and exr_encode_pipeline_t keep every buffer as a  *)
(* pointer and an allocated size, so that a pipeline that is used for      *)
(* chunk after chunk allocates only when a chunk needs more.  A size of    *)
(* zero next to a pointer means that the block is not the buffer's own: it *)
(* belongs to another buffer of the same pipeline, or to the caller.       *)
(*                                                                         *)
(* A memory is a record: the live blocks of the heap, with their owner,    *)
(* size and content; the buffers of the pipeline; and whether a step has   *)
(* freed what is not the pipeline's or written outside of a live block.    *)
(* The operations are operators on memories.  One that can fail has a set  *)
(* of outcomes.                                                            *)
(***************************************************************************)
EXTENDS Integers, FiniteSets, Functions

Buffers == {"packed", "unpacked", "compressed", "packedTable", "table",
            "scratch"}

Token(what, c, form) == [what |-> what, of |-> c, form |-> form]

\* Addresses: a number next to the buffer that asked for the block.
Null   == <<"none", 0>>
Junk   == Token("none", 0, "junk")   \* what nobody has written
Nobody == [ptr |-> Null, size |-> 0]

Block(own, n, data) == [own |-> own, size |-> n, data |-> data]

\* A heap with one more block, at p.
WithBlock(heap, p, block) ==
    [q \in DOMAIN heap \cup {p} |-> IF q = p THEN block ELSE heap[q]]

EmptyMemory == [heap  |-> <<>>,
                buf   |-> [b \in Buffers |-> Nobody],
                fault |-> FALSE]

Good(mem) == [mem |-> mem, ok |-> TRUE]
Bad(mem)  == [mem |-> mem, ok |-> FALSE]

\* The outcomes of Next after those of a step that may have failed.
Then(outcomes, Next(_)) ==
    UNION { IF o.ok THEN Next(o.mem) ELSE {o} : o \in outcomes }

Live(mem, b) == mem.buf[b].ptr \in DOMAIN mem.heap

Get(mem, b) == IF Live(mem, b) THEN mem.heap[mem.buf[b].ptr].data ELSE Junk

\* n units of data are written to where buffer b points.
Put(mem, b, n, data) ==
    LET p == mem.buf[b].ptr
    IN  IF n = 0 THEN mem
        ELSE IF Live(mem, b) /\ n <= mem.heap[p].size
             THEN [mem EXCEPT !.heap[p].data = data]
             ELSE [mem EXCEPT !.fault = TRUE]

Aliases(mem, a, b) == mem.buf[a].ptr = mem.buf[b].ptr /\ mem.buf[a].size = 0

PointTo(mem, a, b) == [mem EXCEPT !.buf[a] = [ptr |-> mem.buf[b].ptr, size |-> 0]]

Forget(mem, b) == [mem EXCEPT !.buf[b].ptr = Null]

\* Bug: releases whatever the buffer points to.
BadFreeBuffer(mem, b) ==
    LET p == mem.buf[b].ptr
    IN  [heap  |-> Restrict(mem.heap, DOMAIN mem.heap \ {p}),
         buf   |-> [mem.buf EXCEPT ![b] = Nobody],
         fault |-> mem.fault]

\* A size says that the block is the buffer's own.
Owns(mem, b) == mem.buf[b].ptr # Null /\ mem.buf[b].size > 0

Release(mem, p) ==
    IF p \in DOMAIN mem.heap /\ mem.heap[p].own = "pipeline"
    THEN [mem EXCEPT !.heap = Restrict(@, DOMAIN @ \ {p})]
    ELSE [mem EXCEPT !.fault = TRUE]

Cleared(mem, b) == [mem EXCEPT !.buf[b] = Nobody]

\* Releases the block of a buffer if it is its own.
FreeBuffer(mem, b) ==
    Cleared(IF Owns(mem, b) THEN Release(mem, mem.buf[b].ptr) ELSE mem, b)

\* The allocator may hand out an address that a buffer still holds from a block
\* that was freed, or a new one.
Address(b, taken) == <<b, CHOOSE k \in 1 .. Cardinality(taken) + 1 :
                             /\ <<b, k>> \notin taken
                             /\ \A j \in 1 .. k - 1 : <<b, j>> \in taken>>
Addresses(mem, b) ==
    LET live == DOMAIN mem.heap
    IN  {Address(b, live), Address(b, live \cup {mem.buf[a].ptr : a \in Buffers})}

\* A buffer with a new block of its own, at p.
Allocated(mem, b, p, n) ==
    [mem EXCEPT !.heap = WithBlock(@, p, Block("pipeline", n, Junk)),
                !.buf[b] = [ptr |-> p, size |-> n]]

\* Keeps a buffer that is large enough, else frees it and allocates one.
AllocBuffer(mem, b, n) ==
    IF n = 0 \/ (mem.buf[b].ptr # Null /\ mem.buf[b].size >= n)
    THEN {Good(mem)}
    ELSE LET f == FreeBuffer(mem, b)
         IN  {Bad(f)} \cup { Good(Allocated(f, b, p, n)) : p \in Addresses(f, b) }

=============================================================================
