--------------------------- MODULE ScanLineOutput ---------------------------
(***************************************************************************)
(* OutputFile (ImfOutputFile.cpp): scan lines are gathered from the        *)
(* caller's frame buffer into line buffers and compressed there by tasks   *)
(* of the thread pool, while the calling thread writes the finished        *)
(* buffers to the file in line order.                                      *)
(*                                                                         *)
(* A block is the set of LinesInBuffer scan lines that one chunk of the    *)
(* file holds; block k lives in line buffer k modulo Buffers, whose        *)
(* semaphore is 1 when it is free.  Scan lines are numbered from 0, the    *)
(* top of the data window.  The pixels of a line are the line's number.    *)
(*                                                                         *)
(* The calling thread holds the mutex of the stream for a whole call, so   *)
(* that calls do not interleave; the tasks of a call interleave with it    *)
(* and with each other.  A task owns its line buffer from its constructor, *)
(* which waits for the semaphore, to its destructor, which posts it.       *)
(***************************************************************************)
EXTENDS Integers, Sequences, FiniteSets

CONSTANTS
    Height,          \* scan lines in the data window
    LinesInBuffer,   \* linesInBuffer, given by the compression method
    Buffers,         \* the values of lineBuffers.size(): max (1, 2 * numThreads)
    SizeModulus,     \* an int that is converted to size_t counts modulo 2^64
    MaxCalls         \* bound on the calls of writePixels and copyPixels

ASSUME OutputAssumption ==
    /\ Height \in Nat \ {0} /\ LinesInBuffer \in Nat \ {0}
    /\ Buffers \subseteq Nat \ {0} /\ SizeModulus \in Nat /\ MaxCalls \in Nat

Line == 0 .. Height - 1
NumBlocks == (Height + LinesInBuffer - 1) \div LinesInBuffer
Block == 0 .. NumBlocks - 1

Least(a, b) == IF a < b THEN a ELSE b
Greatest(a, b) == IF a > b THEN a ELSE b

\* Integer division as C does it: towards zero.
Quotient(a, b) == IF a >= 0 THEN a \div b ELSE -((-a) \div b)

FirstLine(k) == k * LinesInBuffer
LastLine(k) == Least(FirstLine(k) + LinesInBuffer - 1, Height - 1)

\* The contents that a line buffer must have to be the chunk of block k.
LinesOf(k) == [i \in 0 .. LastLine(k) - FirstLine(k) |-> FirstLine(k) + i]

VARIABLES
    increasing,   \* the line order is INCREASING_Y
    cur,          \* currentScanLine
    missing,      \* missingScanLines
    buf,          \* lineBuffers
    table,        \* lineOffsets: a place in the file, 0 for not written
    file,         \* the chunks after the header
    stored,       \* the table in the file: empty until the destructor writes it
    pc,           \* where the calling thread is
    loop,         \* its locals in writePixels
    outcome,      \* how the last call ended
    faults,       \* the kinds of failures there have been
    calls

vars == <<increasing, cur, missing, buf, table, file, stored, pc, loop, outcome, faults, calls>>

Step == IF increasing THEN 1 ELSE -1
Slot == DOMAIN buf

\* Blocks above the data window have negative numbers, and the index is a size_t:
\* such a block may meet one of the file's own in a line buffer.
SlotOf(k) == (IF k >= 0 THEN k ELSE k + SizeModulus) % Cardinality(Slot)

Torn == [minY |-> -1, lines |-> <<>>]

FreeBuffer ==
    [sem |-> 1, task |-> FALSE, minY |-> 0, maxY |-> 0, lo |-> 0, hi |-> 0,
     partiallyFull |-> FALSE, hasException |-> FALSE,
     content |-> [i \in 0 .. LinesInBuffer - 1 |-> -1]]

NoLoop == [write |-> 0, compress |-> 0, left |-> 0, stop |-> 0, lo |-> 0, hi |-> 0]

\* OutputFile::initialize.
Init ==
    /\ increasing \in BOOLEAN
    /\ cur = IF increasing THEN 0 ELSE Height - 1
    /\ missing = Height
    /\ \E n \in Buffers : buf = [s \in 0 .. n - 1 |-> FreeBuffer]
    /\ table = [k \in Block |-> 0]
    /\ file = <<>>
    /\ stored = table
    /\ pc = "idle"
    /\ loop = NoLoop
    /\ outcome = "none"
    /\ faults = {}
    /\ calls = 0

-----------------------------------------------------------------------------
(* LineBufferTask.                                                          *)

\* The constructor of the task for block k, once it got the line buffer b: a
\* partially full buffer keeps its block, any other becomes block k.
\* Bug: a buffer that is partially full is started afresh.
BadPrepared(b, k, lo, hi) ==
    LET minY == FirstLine(k)
        maxY == LastLine(k)
    IN
    [b EXCEPT !.sem = 0, !.task = TRUE, !.minY = minY, !.maxY = maxY,
              !.lo = Greatest(minY, lo), !.hi = Least(maxY, hi), !.partiallyFull = TRUE,
              !.content = [i \in DOMAIN b.content |-> -1]]

Prepared(b, k, lo, hi) ==
    LET minY == IF b.partiallyFull THEN b.minY ELSE FirstLine(k)
        maxY == IF b.partiallyFull THEN b.maxY ELSE LastLine(k)
    IN
    [b EXCEPT !.sem = 0, !.task = TRUE, !.minY = minY, !.maxY = maxY,
              !.lo = Greatest(minY, lo), !.hi = Least(maxY, hi), !.partiallyFull = TRUE]

\* The loop over lo .. hi ends, and it stays inside the data window.
InWindow(b) == b.lo <= b.hi + 1 /\ b.lo .. b.hi \subseteq Line

\* The line at which the gathering loop ends; inside the block, more is to come.
LoopEnd(b) == IF increasing THEN b.hi + 1 ELSE b.lo - 1

Gathered(b) ==
    [i \in DOMAIN b.content |->
        IF \E y \in b.lo .. b.hi : y % LinesInBuffer = i
        THEN CHOOSE y \in b.lo .. b.hi : y % LinesInBuffer = i
        ELSE b.content[i]]

\* Bug: a task that throws is deleted without posting its line buffer.
BadExecute(s) ==
    LET b == buf[s]
        full == LoopEnd(b) \notin b.minY .. b.maxY
    IN
    /\ s \in Slot /\ b.task /\ pc # "crashed"
    /\ InWindow(b)
    /\ \E throws \in BOOLEAN :
        /\ throws => full
        /\ buf' = [buf EXCEPT ![s] =
              [b EXCEPT !.content = Gathered(b), !.task = FALSE, !.sem = IF throws THEN 0 ELSE 1,
                        !.partiallyFull = ~full \/ throws,
                        !.hasException = b.hasException \/ throws]]
        /\ faults' = IF throws THEN faults \cup {"compress"} ELSE faults
    /\ UNCHANGED <<increasing, cur, missing, table, file, stored, pc, loop, outcome, calls>>

\* LineBufferTask::execute and the destructor.  The compressor may throw.
Execute(s) ==
    LET b == buf[s]
        full == LoopEnd(b) \notin b.minY .. b.maxY
    IN
    /\ s \in Slot /\ b.task /\ pc # "crashed"
    /\ InWindow(b)
    /\ \E throws \in BOOLEAN :
        /\ throws => full
        /\ buf' = [buf EXCEPT ![s] =
              [b EXCEPT !.content = Gathered(b), !.task = FALSE, !.sem = 1,
                        !.partiallyFull = ~full \/ throws,
                        !.hasException = b.hasException \/ throws]]
        /\ faults' = IF throws THEN faults \cup {"compress"} ELSE faults
    /\ UNCHANGED <<increasing, cur, missing, table, file, stored, pc, loop, outcome, calls>>

\* The loop leaves the frame buffer and the line buffer: the program is lost.
RunAway(s) ==
    /\ s \in Slot /\ buf[s].task /\ pc # "crashed"
    /\ ~InWindow(buf[s])
    /\ pc' = "crashed"
    /\ UNCHANGED <<increasing, cur, missing, buf, table, file, stored, loop, outcome, faults, calls>>

-----------------------------------------------------------------------------
(* OutputFile::writePixels.                                                 *)

\* The call locks the stream and decides which blocks the lines touch.
WritePixels(n) ==
    LET first == Quotient(cur, LinesInBuffer)
        last == Quotient(cur + Step * (n - 1), LinesInBuffer)
        span == IF increasing THEN last - first + 1 ELSE first - last + 1
    IN
    /\ pc = "idle" /\ calls < MaxCalls
    /\ calls' = calls + 1
    /\ pc' = "adding"
    /\ loop' = [write |-> first, compress |-> first,
                left |-> Greatest(Least(Cardinality(Slot), span), 1),
                stop |-> last + Step,
                lo |-> IF increasing THEN cur ELSE cur - n + 1,
                hi |-> IF increasing THEN cur + n - 1 ELSE cur]
    /\ outcome' = "none"
    /\ UNCHANGED <<increasing, cur, missing, buf, table, file, stored, faults>>

\* new LineBufferTask for the next block to compress, handed to the pool.
AddTask ==
    LET s == SlotOf(loop.compress) IN
    /\ pc = "adding"
    /\ buf[s].sem = 1
    /\ buf' = [buf EXCEPT ![s] = Prepared(@, loop.compress, loop.lo, loop.hi)]
    /\ loop' = [loop EXCEPT !.compress = @ + Step, !.left = @ - 1]
    /\ pc' = IF loop.left = 1 THEN "writing" ELSE "adding"
    /\ UNCHANGED <<increasing, cur, missing, table, file, stored, outcome, faults, calls>>

TooManyLines ==
    /\ pc = "writing"
    /\ missing <= 0
    /\ pc' = "unwinding"
    /\ outcome' = "tooMany"
    /\ UNCHANGED <<increasing, cur, missing, buf, table, file, stored, loop, faults, calls>>

Next2Write == buf[SlotOf(loop.write)]
LinesTaken == Next2Write.hi - Next2Write.lo + 1
ReadyToWrite == pc = "writing" /\ missing > 0 /\ Next2Write.sem = 1

\* A block that is not complete stays in its buffer, and the call returns.
KeepPartial ==
    /\ ReadyToWrite
    /\ Next2Write.partiallyFull
    /\ missing' = missing - LinesTaken
    /\ cur' = cur + Step * LinesTaken
    /\ pc' = "unwinding"
    /\ outcome' = "ok"
    /\ UNCHANGED <<increasing, buf, table, file, stored, loop, faults, calls>>

Chunk(b) == [minY |-> b.minY, lines |-> [i \in 0 .. b.maxY - b.minY |-> b.content[i]]]

\* Bug: takes for the next block to write whichever buffer is free first.
BadWriteBlock ==
    \E s \in Slot :
        /\ pc = "writing" /\ missing > 0 /\ buf[s].sem = 1
        /\ ~buf[s].partiallyFull
        /\ LET n == buf[s].hi - buf[s].lo + 1 IN
            /\ missing' = missing - n
            /\ cur' = cur + Step * n
            /\ table' = [table EXCEPT ![Quotient(cur, LinesInBuffer)] = Len(file) + 1]
            /\ file' = Append(file, Chunk(buf[s]))
        /\ LET w == loop.write + Step IN
            /\ loop' = [loop EXCEPT !.write = w, !.left = 1]
            /\ pc' = IF w = loop.stop THEN "finishing"
                     ELSE IF loop.compress = loop.stop THEN "writing" ELSE "adding"
        /\ UNCHANGED <<increasing, buf, stored, outcome, faults, calls>>

\* writePixelData succeeds; then another block may go into the freed buffer.
WriteBlock ==
    LET w == loop.write + Step IN
    /\ ReadyToWrite
    /\ ~Next2Write.partiallyFull
    /\ missing' = missing - LinesTaken
    /\ cur' = cur + Step * LinesTaken
    /\ table' = [table EXCEPT ![Quotient(cur, LinesInBuffer)] = Len(file) + 1]
    /\ file' = Append(file, Chunk(Next2Write))
    /\ loop' = [loop EXCEPT !.write = w, !.left = 1]
    /\ pc' = IF w = loop.stop THEN "finishing"
             ELSE IF loop.compress = loop.stop THEN "writing" ELSE "adding"
    /\ UNCHANGED <<increasing, buf, stored, outcome, faults, calls>>

\* writePixelData throws: the line buffer is not posted, and the table already
\* names the place where the chunk, or a part of it, would have been.
WriteFails ==
    /\ ReadyToWrite
    /\ ~Next2Write.partiallyFull
    /\ missing' = missing - LinesTaken
    /\ buf' = [buf EXCEPT ![SlotOf(loop.write)].sem = 0]
    /\ table' = [table EXCEPT ![Quotient(cur, LinesInBuffer)] = Len(file) + 1]
    /\ file' \in {file, Append(file, Torn)}
    /\ faults' = faults \cup {"write"}
    /\ pc' = "unwinding"
    /\ outcome' = "failed"
    /\ UNCHANGED <<increasing, cur, stored, loop, calls>>

NoTasks == \A s \in Slot : ~buf[s].task

\* Leaving the scope of the task group waits for its tasks (TaskGroup.tla).
Unwind ==
    /\ pc = "unwinding"
    /\ NoTasks
    /\ pc' = "idle"
    /\ loop' = NoLoop
    /\ UNCHANGED <<increasing, cur, missing, buf, table, file, stored, outcome, faults, calls>>

\* All blocks of the call are written: exceptions of the tasks are reported.
Report ==
    /\ pc = "finishing"
    /\ NoTasks
    /\ outcome' = IF \E s \in Slot : buf[s].hasException THEN "failed" ELSE "ok"
    /\ buf' = [s \in Slot |-> [buf[s] EXCEPT !.hasException = FALSE]]
    /\ pc' = "idle"
    /\ loop' = NoLoop
    /\ UNCHANGED <<increasing, cur, missing, table, file, stored, faults, calls>>

-----------------------------------------------------------------------------
(* OutputFile::copyPixels: k chunks are copied; unless these are all, the    *)
(* next one cannot be read, or cannot be written.                           *)

InLineOrder(i) == IF increasing THEN i - 1 ELSE NumBlocks - i

CopyPixels(k, fault) ==
    LET copied == {InLineOrder(i) : i \in 1 .. k}
        failed == IF fault = "write" THEN {InLineOrder(k + 1)} ELSE {}
        chunks == file \o [i \in 1 .. k |-> [minY |-> FirstLine(InLineOrder(i)),
                                             lines |-> LinesOf(InLineOrder(i))]]
    IN
    /\ pc = "idle" /\ calls < MaxCalls
    /\ missing = Height
    /\ (fault = "none") <=> (k = NumBlocks)
    /\ calls' = calls + 1
    /\ file' \in {chunks} \cup (IF fault = "write" THEN {Append(chunks, Torn)} ELSE {})
    /\ table' = [b \in Block |->
                    IF b \in copied \cup failed
                    THEN Len(file) + (IF increasing THEN b + 1 ELSE NumBlocks - b)
                    ELSE table[b]]
    /\ cur' = cur + Step * k * LinesInBuffer
    /\ missing' = missing - k * LinesInBuffer
    /\ faults' = faults \cup ({fault} \ {"none"})
    /\ outcome' = IF fault = "none" THEN "ok" ELSE "failed"
    /\ UNCHANGED <<increasing, buf, stored, pc, loop>>

\* OutputFile::~OutputFile writes the table over the empty one; a failure to do
\* so is swallowed.
Close ==
    /\ pc = "idle"
    /\ pc' = "closed"
    /\ stored' \in {stored, table}
    /\ faults' = IF stored' = table THEN faults ELSE faults \cup {"close"}
    /\ UNCHANGED <<increasing, cur, missing, buf, table, file, loop, outcome, calls>>

-----------------------------------------------------------------------------
Writer ==
    \/ AddTask \/ TooManyLines \/ KeepPartial \/ WriteBlock \/ WriteFails
    \/ Unwind \/ Report

\* After a failed write the next use of its line buffer waits for ever.
Hung ==
    /\ pc \in {"adding", "writing"} /\ "write" \in faults /\ NoTasks
    /\ UNCHANGED vars

Over == pc \in {"closed", "crashed"} /\ UNCHANGED vars

Next ==
    \/ Writer \/ Close \/ Hung \/ Over
    \/ \E s \in Slot : Execute(s) \/ RunAway(s)
    \/ \E n \in 0 .. Height + 2 * LinesInBuffer : WritePixels(n)
    \/ \E k \in 0 .. NumBlocks, fault \in {"none", "read", "write"} : CopyPixels(k, fault)

Spec == Init /\ [][Next]_vars

(***************************************************************************)
(* The thread in writePixels goes on, and the pool runs every task it is   *)
(* given (ThreadPool.tla); what the program calls is its own choice.       *)
(***************************************************************************)
FairSpec == Spec /\ WF_vars(Writer) /\ WF_vars(\E s \in Slot : Execute(s) \/ RunAway(s))

-----------------------------------------------------------------------------
Stage == {"idle", "adding", "writing", "unwinding", "finishing", "closed", "crashed"}

\* The domains of the file object's data and of the call under way.
TypeOK ==
    /\ increasing \in BOOLEAN
    /\ cur \in Int /\ missing \in Int
    /\ \A s \in Slot :
        /\ buf[s].sem \in {0, 1}
        /\ buf[s].task => buf[s].sem = 0
        /\ buf[s].content \in [0 .. LinesInBuffer - 1 -> Line \cup {-1}]
    /\ table \in [Block -> Nat]
    /\ stored \in [Block -> Nat]
    /\ pc \in Stage
    /\ outcome \in {"none", "ok", "failed", "tooMany"}
    /\ faults \subseteq {"compress", "write", "read", "close"}
    /\ calls \in 0 .. MaxCalls

(***************************************************************************)
(* As long as nothing failed, whatever mixture of calls and however the    *)
(* tasks were scheduled: the chunks are in the file in line order, each    *)
(* block once and with the lines that belong to it, and the offset table   *)
(* points every written block, and no other, to its chunk.                 *)
(***************************************************************************)
FileSound ==
    faults \subseteq {"close"} =>
        /\ Len(file) <= NumBlocks
        /\ \A i \in 1 .. Len(file) :
            LET k == InLineOrder(i) IN
            /\ file[i] = [minY |-> FirstLine(k), lines |-> LinesOf(k)]
            /\ table[k] = i
        /\ \A k \in Block : table[k] # 0 => k \in {InLineOrder(i) : i \in 1 .. Len(file)}

\* The lines of block k that have been accepted, between calls.
Accepted(k) ==
    {y \in FirstLine(k) .. LastLine(k) : IF increasing THEN y < cur ELSE y > cur}

(***************************************************************************)
(* Between calls, as long as nothing failed: missingScanLines and          *)
(* currentScanLine agree, every line buffer is free, and a block is        *)
(* partially full exactly when it waits in its buffer with the lines       *)
(* accepted so far and the file has every complete block.                  *)
(***************************************************************************)
CursorSound ==
    (pc = "idle" /\ faults \subseteq {"close"}) =>
        /\ missing > 0 => missing = IF increasing THEN Height - cur ELSE cur + 1
        /\ \A s \in Slot : buf[s].sem = 1 /\ ~buf[s].hasException
        /\ \A k \in Block :
            LET b == buf[SlotOf(k)] IN
            IF Accepted(k) = FirstLine(k) .. LastLine(k) THEN table[k] # 0
            ELSE /\ table[k] = 0
                 /\ Accepted(k) # {} =>
                    /\ b.partiallyFull /\ b.minY = FirstLine(k) /\ b.maxY = LastLine(k)
                    /\ \A y \in Accepted(k) : b.content[y % LinesInBuffer] = y

\* The state has its type, and between calls the cursor and the buffers agree.
CursorInv == TypeOK /\ CursorSound

(***************************************************************************)
(* A call of writePixels comes back, also when tasks throw, when it asks   *)
(* for more lines than there are, and when copyPixels failed half-way: the *)
(* writer never waits for a buffer that nobody will post.  A failed write  *)
(* is the exception, and a task that runs out of the data window.          *)
(***************************************************************************)
WritePixelsReturns ==
    pc = "adding" ~> (pc \in {"idle", "closed", "crashed"} \/ "write" \in faults)

(***************************************************************************)
(* "Now we check if any line buffer contains a stored exception; if this   *)
(* is the case then we re-throw the exception in this thread" (writePixels *)
(* on the exceptions of LineBufferTask::execute): a call that returned     *)
(* normally leaves no exception behind.                                    *)
(***************************************************************************)
ExceptionsRethrown ==
    (pc = "idle" /\ outcome = "ok") => \A s \in Slot : ~buf[s].hasException
=============================================================================
