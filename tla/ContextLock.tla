---------------------------- MODULE ContextLock ----------------------------
(***************************************************************************)
(* The mutex of a context that is open for writing (internal_structs.h),   *)
(* and the calls that several threads make on it: attributes are set       *)
(* (part_attr.c), queried, and written by exr_write_header (context.c),    *)
(* then come the chunks (chunk.c).  What CoreWrite.tla takes for one step  *)
(* is here the sequence of what happens under the mutex, between two holds *)
(* of it, and without it.                                                  *)
(*                                                                         *)
(* The mutex is not recursive and does not know its owner: whoever unlocks *)
(* it frees it.  What the attributes of a part say is abstracted to the    *)
(* number of chunks they give.                                             *)
(***************************************************************************)
EXTENDS ContextParts

CONSTANT MaxChunks     \* bound on the number of chunks of a part

ASSUME LockAssumption == MaxChunks \in Nat \ {0}

VARIABLES
    multi,     \* is_multipart or has_nonimage_data: the header has a chunkCount
    locked,    \* the mutex
    call,      \* the call of each thread and how far it came
    window,    \* what the attributes of each part say
    counts,    \* chunk_count of each part
    header,    \* the header in the file, as <<window, counts>>, or NoHeader
    last,      \* last_output_chunk, over all parts
    filed,     \* how many chunks follow the header in the file
    mishap     \* history: what went wrong with the mutex

attrVars == <<window, counts>>
outVars == <<header, last, filed>>
lockVars == <<mode, multi, locked, call, attrVars, outVars, mishap>>

Parts == IF multi THEN Part ELSE {1}
NoHeader == <<>>
Idle == [op |-> "none", at |-> "idle", part |-> 1]

LockInit ==
    /\ mode \in {"read", "write"}
    /\ multi \in BOOLEAN
    /\ locked = FALSE
    /\ call = [t \in Thread |-> Idle]
    /\ window \in [Parts -> 1 .. MaxChunks]
    /\ counts = [p \in Parts |-> 0]
    /\ header = <<window, counts>>
    /\ last = -1 /\ filed = 0
    /\ mishap = {}

Inside(t) == call[t].at = "in"

\* exr_write_header gives up the mutex around exr_attr_set_int.
InGap(t) == call[t].op = "header" /\ call[t].at \in {"set", "again", "fail"}
OthersInGap(t) == \E u \in Thread \ {t} : InGap(u)

-----------------------------------------------------------------------------
(* A call begins, and waits for the mutex.                                  *)

\* Bound: no more calls after a mishap.
Begins(t, op, p) ==
    /\ call[t].at = "idle" /\ mishap = {}
    /\ call' = [call EXCEPT ![t] = [op |-> op, at |-> "wait", part |-> p]]
    /\ UNCHANGED <<mode, multi, locked, attrVars, outVars, mishap>>

\* EXR_LOCK_WRITE_AND_DEFINE_PART: a getter looks at the mode first, and needs no
\* mutex in another mode; and exr_validate_chunk_table, which begins like one.
Query(t) == mode = "write" /\ \E op \in {"get", "validate"} : Begins(t, op, 1)

\* EXR_LOCK_AND_DEFINE_PART, exr_write_header, exr_write_scanline_chunk
Change(t) == mode # "read" /\ \/ \E p \in Parts : Begins(t, "set", p)
                              \/ Begins(t, "header", 1)
                              \/ Begins(t, "chunk", 1)

\* exr_get_file_name: unlocks what it did not lock.
GetFileName(t) ==
    /\ mode = "write" /\ call[t].at = "idle" /\ mishap = {}
    /\ locked' = FALSE
    /\ mishap' = mishap \cup (IF locked THEN {"stray"} ELSE {})
    /\ UNCHANGED <<mode, multi, call, attrVars, outVars>>

\* internal_exr_lock
Lock(t) ==
    /\ call[t].at \in {"wait", "again", "fail"}
    /\ ~locked /\ locked' = TRUE
    /\ call' = [call EXCEPT ![t].at = IF call[t].at = "fail" THEN "failed" ELSE "in"]
    /\ UNCHANGED <<mode, multi, attrVars, outVars, mishap>>

-----------------------------------------------------------------------------
(* What the calls do while they hold the mutex.                             *)

\* The call unlocks and returns.
Returns(t) == call' = [call EXCEPT ![t] = Idle]

\* EXR_UNLOCK_WRITE_AND_RETURN: the getter looks at the mode again.
GetReturns(t) ==
    /\ Inside(t) /\ call[t].op = "get"
    /\ Returns(t)
    /\ locked' = (locked /\ mode # "write")
    /\ mishap' = mishap \cup (IF mode # "write" THEN {"leak"} ELSE {})
    /\ UNCHANGED <<mode, multi, attrVars, outVars>>

\* exr_validate_chunk_table does not unlock at all.
ValidateReturns(t) ==
    /\ Inside(t) /\ call[t].op = "validate"
    /\ Returns(t)
    /\ mishap' = mishap \cup {"leak"}
    /\ UNCHANGED <<mode, multi, locked, attrVars, outVars>>

\* Bug: refused without unlocking.
BadSetReturns(t) ==
    /\ Inside(t) /\ call[t].op = "set"
    /\ Returns(t)
    /\ locked' = (mode # "write")
    /\ IF mode = "write"
       THEN \E n \in 1 .. MaxChunks : window' = [window EXCEPT ![call[t].part] = n]
       ELSE UNCHANGED window
    /\ mishap' = mishap \cup (IF mode = "write" /\ OthersInGap(t) THEN {"overlap"} ELSE {})
    /\ UNCHANGED <<mode, multi, counts, outVars>>

\* A setter: refused when the header was written.
SetReturns(t) ==
    /\ Inside(t) /\ call[t].op = "set"
    /\ Returns(t)
    /\ locked' = FALSE
    /\ IF mode = "write"
       THEN \E n \in 1 .. MaxChunks : window' = [window EXCEPT ![call[t].part] = n]
       ELSE UNCHANGED window
    /\ mishap' = mishap \cup (IF mode = "write" /\ OthersInGap(t) THEN {"overlap"} ELSE {})
    /\ UNCHANGED <<mode, multi, counts, outVars>>

\* exr_write_scanline_chunk: the next chunk, if there is one.
\* Bound: no more than MaxChunks are written, also after a second header.
ChunkReturns(t) ==
    /\ Inside(t) /\ call[t].op = "chunk"
    /\ Returns(t)
    /\ locked' = FALSE
    /\ IF mode = "writing" /\ last + 1 < counts[1] /\ filed < MaxChunks
       THEN last' = last + 1 /\ filed' = filed + 1
       ELSE UNCHANGED <<last, filed>>
    /\ UNCHANGED <<mode, multi, attrVars, header, mishap>>

-----------------------------------------------------------------------------
(* exr_write_header.                                                        *)

\* It is refused, or an attribute is missing, or something does not validate or
\* cannot be written.  Unless it was refused, output_file_offset is at 0 then: if
\* another call has written the header meanwhile, the next chunk comes over it.
HeaderFails(t) ==
    LET rewound == IF mode = "writing" /\ call[t].part > 1 THEN NoHeader ELSE header IN
    /\ Inside(t) \/ call[t].at = "failed"
    /\ call[t].op = "header"
    /\ Returns(t)
    /\ locked' = FALSE
    /\ header' \in {rewound} \cup (IF Inside(t) THEN {header} ELSE {})
    /\ UNCHANGED <<mode, multi, attrVars, last, filed, mishap>>

\* Bug: does not check the mode.
BadMayWrite(t) == TRUE

\* The mode is checked once, before the first part.
MayWrite(t) == call[t].part = 1 => mode = "write"

\* internal_exr_compute_chunk_offset_size
ChunksOf(p) == window[p]

\* The chunks of a part are counted, and unlocked if the count becomes an attribute.
Count(t) ==
    LET p == call[t].part IN
    /\ Inside(t) /\ call[t].op = "header"
    /\ MayWrite(t) /\ p \in Parts
    /\ counts' = [counts EXCEPT ![p] = ChunksOf(p)]
    /\ call' = [call EXCEPT ![t] = IF multi THEN [@ EXCEPT !.at = "set"]
                                   ELSE [@ EXCEPT !.part = p + 1]]
    /\ locked' = (locked /\ ~multi)
    /\ UNCHANGED <<mode, multi, window, outVars, mishap>>

\* exr_attr_set_int takes the mutex and frees it; refused when the mode changed.
SetChunkCount(t) ==
    /\ call[t].at = "set" /\ ~locked
    /\ call' = [call EXCEPT ![t].at = IF mode = "write" THEN "again" ELSE "fail",
                            ![t].part = @ + 1]
    /\ UNCHANGED <<mode, multi, locked, attrVars, outVars, mishap>>

\* All parts are counted; the header is written and the chunks may come.
WriteHeader(t) ==
    /\ Inside(t) /\ call[t].op = "header"
    /\ call[t].part \notin Parts
    /\ Returns(t)
    /\ locked' = FALSE
    /\ mode' = "writing"
    /\ header' = <<window, counts>>
    /\ last' = -1
    /\ mishap' = mishap \cup (IF OthersInGap(t) THEN {"overlap"} ELSE {})
    /\ UNCHANGED <<multi, attrVars, filed>>

Begin(t) == Query(t) \/ Change(t) \/ GetFileName(t)
Work(t) == \/ GetReturns(t) \/ ValidateReturns(t) \/ SetReturns(t) \/ ChunkReturns(t)
           \/ HeaderFails(t) \/ Count(t) \/ WriteHeader(t)
LockNext(t) == Begin(t) \/ Lock(t) \/ SetChunkCount(t) \/ Work(t)

\* A thread that can go on does; one that waits for the mutex gets it, if it is free
\* again and again.
LockFairness(t) == WF_lockVars(Work(t)) /\ SF_lockVars(Lock(t)) /\ SF_lockVars(SetChunkCount(t))

-----------------------------------------------------------------------------
LockTypeOK ==
    /\ mode \in {"read", "write", "writing"} /\ multi \in BOOLEAN /\ locked \in BOOLEAN
    /\ call \in [Thread -> [op : {"none", "get", "validate", "set", "header", "chunk"},
                            at : {"idle", "wait", "in", "set", "again", "fail", "failed"},
                            part : 1 .. NumParts + 1]]
    /\ window \in [Parts -> 1 .. MaxChunks] /\ counts \in [Parts -> 0 .. MaxChunks]
    /\ header \in ([Parts -> 1 .. MaxChunks] \X [Parts -> 0 .. MaxChunks]) \cup {NoHeader}
    /\ last \in -1 .. MaxChunks - 1 /\ filed \in 0 .. MaxChunks
    /\ mishap \subseteq {"leak", "stray", "overlap"}

Holds(t) == call[t].at \in {"in", "failed"}

(***************************************************************************)
(* The mutex is held when one call is at work, and by no more than one.    *)
(* Exceptions: exr_get_file_name freed it; or a call kept it, which        *)
(* exr_validate_chunk_table does, and a getter that waited while the       *)
(* header was written.                                                     *)
(***************************************************************************)
LockDiscipline ==
    mishap \cap {"stray", "leak"} = {} =>
        Cardinality({t \in Thread : Holds(t)}) = IF locked THEN 1 ELSE 0

(***************************************************************************)
(* What is in the file agrees with the context once the header is written: *)
(* its attributes, the number of chunks that they give, and the chunks     *)
(* that came.  Exceptions: the mutex was freed by exr_get_file_name; or    *)
(* another call changed something while exr_write_header did not hold it.  *)
(***************************************************************************)
HeaderFits ==
    mode = "writing" /\ mishap \cap {"stray", "overlap"} = {} =>
        header = <<window, window>> /\ counts = window /\ last + 1 = filed

(***************************************************************************)
(* Every call returns, unless one before kept the mutex.                   *)
(***************************************************************************)
CallsReturn ==
    \A t \in Thread : []<>(call[t].at = "idle" \/ "leak" \in mishap)
=============================================================================
