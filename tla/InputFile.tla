----------------------------- MODULE InputFile -----------------------------
(***************************************************************************)
(* InputFile and ScanLineInputFile: setFrameBuffer and the two forms of    *)
(* readPixels, on a scan-line file and on a tiled file that is read as     *)
(* scan lines, with what is kept from one call to the next:                *)
(*                                                                         *)
(*   - a scan-line file keeps the decode process of the last call          *)
(*     (singleScan), so that a chunk read line by line is decoded once,    *)
(*     and the slices to fill of the last setFrameBuffer;                  *)
(*   - a tiled file keeps the last row of tiles (_cachedTileY).            *)
(*                                                                         *)
(* A unit is a chunk of a scan-line file or a tile of level 0.  A layout   *)
(* stands for what choose_default_routines looks at in a frame buffer: the *)
(* channels with their types and strides.  Every frame buffer here has a   *)
(* channel that the file lacks, which is filled.  A read that needs        *)
(* several units of a file opened with several threads is the parallel     *)
(* read of ParallelDecode.tla.                                             *)
(***************************************************************************)
EXTENDS ParallelDecode

CONSTANTS Caller,        \* application threads
          Frame, NoFrame,
          Layout, NoLayout,
          LayoutOf,      \* the layout of each frame buffer
          DirectLayout,  \* the one into which an uncompressed file is read directly
          Chunks,        \* units of the scan-line file
          Columns        \* tiles in a row of the tiled file

ASSUME InputAssumption ==
    /\ IsFiniteSet(Caller) /\ IsFiniteSet(Frame) /\ NoFrame \notin Frame
    /\ LayoutOf \in [Frame -> Layout] /\ DirectLayout \in Layout /\ NoLayout \notin Layout
    /\ Chunks \in 1 .. Units /\ Columns \in 1 .. Units

VARIABLES
    tiled,         \* _storage
    rows,          \* rows of tiles, if the file is tiled
    compressed,    \* the file's compression is not NO_COMPRESSION
    threads,       \* numThreads of the file is more than one
    frame,         \* the current frame buffer
    fills,         \* the frame buffer that fill_list was made for
    singleScan,    \* the process kept by a scan-line file
    cachedRow,     \* _cachedTileY
    rowBuffer,     \* the tile whose pixels are in each column of _cachedBuffer
    call,          \* what each caller is doing
    got,           \* what is in the caller's frame buffer for each unit
    clean,         \* no frame buffer but the current one has been used since it was set
    torn           \* a row of tiles was read in part into _cachedBuffer

fileVars == <<tiled, rows, compressed, threads>>
keptVars == <<frame, fills, singleScan, cachedRow, rowBuffer>>
noteVars == <<clean, torn>>
vars == <<engineVars, tiled, rows, compressed, threads, frame, fills, singleScan, cachedRow,
          rowBuffer, call, got, clean, torn>>

NoRow == -1
Junk == 0         \* pixels of no tile, or of a tile decoded in part
Image == 1 .. (IF tiled THEN rows * Columns ELSE Chunks)
Row(u) == (u - 1) \div Columns
RowOf(r) == {u \in Image : Row(u) = r}
Column(u) == ((u - 1) % Columns) + 1

\* A process as ScanLineProcess {} makes it, and no process.
Fresh == [unit |-> 0, layout |-> NoLayout]
Idle == [at |-> "idle", frame |-> NoFrame, want |-> {}, left |-> {},
         locked |-> FALSE, sp |-> Fresh, promise |-> FALSE]

NextLeft(c) == CHOOSE u \in call[c].left : \A v \in call[c].left : u <= v
Quiet == \A c \in Caller : call[c].at = "idle"
\* The caller whose parallel read is under way.
Reader == CHOOSE c \in Caller : call[c].at \in {"parallel", "rowParallel", "wholeParallel"}

InputInit ==
    /\ EngineInit
    /\ tiled \in BOOLEAN /\ compressed \in BOOLEAN /\ threads \in BOOLEAN
    /\ IF tiled THEN rows \in {r \in Unit : r * Columns <= Units} ELSE rows = 0
    /\ tiled => compressed          \* makes no difference there
    /\ frame = NoFrame /\ fills = NoFrame
    /\ singleScan = Fresh
    /\ cachedRow = NoRow /\ rowBuffer = [k \in 1 .. Columns |-> Junk]
    /\ call = [c \in Caller |-> Idle]
    /\ got = [c \in Caller |-> [u \in Unit |-> "old"]]
    /\ clean = FALSE /\ torn = FALSE

-----------------------------------------------------------------------------
(* setFrameBuffer.                                                          *)

SameLayout(f, g) == f # NoFrame /\ LayoutOf[f] = LayoutOf[g]

\* lockedSetFrameBuffer of a tiled file: another layout drops the row.
KeepRow == UNCHANGED <<cachedRow, rowBuffer, torn>>
DropRow ==
    /\ cachedRow' = NoRow
    /\ rowBuffer' = [k \in 1 .. Columns |-> Junk]
    /\ torn' = FALSE
Adopt(f) == frame' = f /\ IF SameLayout(frame, f) THEN KeepRow ELSE DropRow

\* Bug: keeps the process that was chosen for the old frame buffer.
BadSetFrameBuffer(f) ==
    /\ Quiet
    /\ IF tiled
       THEN Adopt(f) /\ UNCHANGED <<fills, singleScan, clean>>
       ELSE /\ frame' = f /\ fills' = f /\ clean' = TRUE
            /\ UNCHANGED <<singleScan, cachedRow, rowBuffer, torn>>
    /\ UNCHANGED <<engineVars, fileVars, call, got>>

\* The application changes the frame buffer while it does not read.
SetFrameBuffer(f) ==
    /\ Quiet
    /\ IF tiled
       THEN Adopt(f) /\ UNCHANGED <<fills, singleScan, clean>>
       ELSE /\ frame' = f /\ fills' = f /\ singleScan' = Fresh /\ clean' = TRUE
            /\ UNCHANGED <<cachedRow, rowBuffer, torn>>
    /\ UNCHANGED <<engineVars, fileVars, call, got>>

\* The sampling of a channel does not fit: the exception comes after the kept
\* process and the old slices to fill are gone.  (A tiled file refuses a frame buffer
\* only if its chunk table cannot be trusted, which does not change once it is known: it
\* never accepts one, and nothing that is modelled changes.)
SetFrameBufferThrows(f) ==
    /\ Quiet /\ ~tiled
    /\ fills' = f /\ singleScan' = Fresh /\ clean' = FALSE
    /\ UNCHANGED <<engineVars, fileVars, frame, cachedRow, rowBuffer, torn, call, got>>

-----------------------------------------------------------------------------
(* readPixels.  The form without a frame buffer holds _mx of the InputFile; *)
(* with one, only a tiled file does.                                        *)

Go(c, at) == call' = [call EXCEPT ![c].at = at]

\* The chunks or rows of tiles that a range of scan lines needs.
Ranges == {S \in {{u \in Image : lo <= u /\ u <= hi} : lo, hi \in Image} :
             S # {} /\ (tiled => \A u \in S : RowOf(Row(u)) \subseteq S)}

\* The ways to read them.  A range of two chunks may be shorter than a chunk.
Ways(units) ==
    IF tiled
    THEN {"row"} \cup (IF units = Image THEN {"whole"} ELSE {})
    ELSE (IF threads /\ Cardinality(units) > 1 THEN {"split"} ELSE {"checkout"})
         \cup (IF Cardinality(units) = 2 THEN {"checkout"} ELSE {})

\* Bounds.  The callers differ in nothing: a quiet file is next called by one and
\* the same of them.  Calls that overlap read one chunk each of a compressed
\* file, and not the last.  A parallel read of scan lines shares nothing with
\* other calls and looks at nothing that is kept: it runs alone, comes while no
\* process is kept, starts at the first chunk, and is the form without a frame
\* buffer if the file is clean, or if it is of three chunks.  The whole of a
\* tiled image is read in parallel only if it is one row, and no other row is
\* read in parallel once one was read in part.
Overlaps(units) ==
    /\ compressed /\ ~threads
    /\ \A c \in Caller : /\ Cardinality(units) = 1 /\ Cardinality(call[c].want) < 2
                         /\ Chunks \notin units \cup call[c].want
Explored(c0, units, way, lock) ==
    /\ Quiet => c0 = CHOOSE c \in Caller : TRUE
    /\ way = "checkout" => Quiet \/ Overlaps(units)
    /\ way = "split" => /\ Quiet /\ compressed /\ singleScan = Fresh /\ 1 \in units
                        /\ lock \/ ~clean
                        /\ Cardinality(units) > 2 => clean
    /\ way = "whole" /\ threads => rows = 1
    /\ way = "row" /\ threads /\ torn => \A u \in units : Row(u) = cachedRow

Enter(c, f, units, lock) ==
    /\ call[c].at = "idle"
    /\ lock => \A d \in Caller : ~call[d].locked
    /\ \E way \in Ways(units) :
          /\ Explored(c, units, way, lock)
          /\ call' = [call EXCEPT ![c] =
                [at |-> way, frame |-> f, want |-> units, left |-> units, locked |-> lock,
                 sp |-> Fresh, promise |-> IF tiled THEN TRUE ELSE clean /\ f = frame]]

Read(c) ==
    /\ frame # NoFrame
    /\ \E units \in Ranges : Enter(c, frame, units, TRUE)
    /\ UNCHANGED <<engineVars, fileVars, keptVars, noteVars, got>>

ReadInto(c, f) ==
    /\ \E units \in Ranges : Enter(c, f, units, tiled)
    /\ IF tiled
       THEN Adopt(f) /\ UNCHANGED <<fills, singleScan, clean>>
       ELSE UNCHANGED <<keptVars, noteVars>>
    /\ UNCHANGED <<engineVars, fileVars, got>>

\* The application gets the result; what it does to its frame buffer before the
\* next call is its own affair.
Return(c) ==
    /\ call[c].at \in {"returned", "threw"}
    /\ call' = [call EXCEPT ![c] = Idle]
    /\ got' = [got EXCEPT ![c] = [u \in Unit |-> "old"]]
    /\ UNCHANGED <<engineVars, fileVars, keptVars, noteVars>>

-----------------------------------------------------------------------------
(* Scan-line files: Data::readPixels without tasks.                         *)

\* Pixels converted with the routines of a layout into the frame buffer of c,
\* and the missing channel filled where fill_list says.
Converted(c, layout) ==
    IF layout = LayoutOf[call[c].frame] /\ fills = call[c].frame THEN "right" ELSE "junk"

Direct(layout) == ~compressed /\ layout = DirectLayout

CheckoutScan(c) ==
    /\ call[c].at = "checkout"
    /\ call' = [call EXCEPT ![c].at = "scan", ![c].sp = singleScan,
                            ![c].promise = @ /\ clean]
    /\ singleScan' = Fresh
    /\ UNCHANGED <<engineVars, fileVars, frame, fills, cachedRow, rowBuffer, got, noteVars>>

\* The chunk is not the one in the process.  The routines stay those of the
\* frame buffer with which the process was used first.
RunDecode(c) ==
    LET u == NextLeft(c)
        sp == call[c].sp
        layout == IF sp.layout = NoLayout THEN LayoutOf[call[c].frame] ELSE sp.layout IN
    /\ call[c].at = "scan" /\ call[c].left # {}
    /\ sp.unit # u
    /\ call' = [call EXCEPT ![c].sp = [unit |-> u, layout |-> layout], ![c].left = @ \ {u}]
    /\ got' = [got EXCEPT ![c][u] = Converted(c, layout)]
    /\ UNCHANGED <<engineVars, fileVars, keptVars, noteVars>>

\* The chunk is there already; a direct read left nothing to unpack.
RunUnpack(c) ==
    LET u == NextLeft(c)
        sp == call[c].sp IN
    /\ call[c].at = "scan" /\ call[c].left # {}
    /\ sp.unit = u
    /\ call' = [call EXCEPT ![c].left = @ \ {u}]
    /\ got' = [got EXCEPT ![c][u] = IF Direct(sp.layout) THEN @ ELSE Converted(c, sp.layout)]
    /\ UNCHANGED <<engineVars, fileVars, keptVars, noteVars>>

\* The chunk cannot be found, read, decompressed or unpacked: the process that
\* was checked out is destroyed.
ScanThrows(c) ==
    /\ call[c].at = "scan" /\ call[c].left # {}
    /\ Go(c, "threw")
    /\ UNCHANGED <<engineVars, fileVars, keptVars, noteVars, got>>

CheckinScan(c) ==
    /\ call[c].at = "scan" /\ call[c].left = {}
    /\ singleScan' = call[c].sp
    /\ clean' = (clean /\ call[c].frame = frame)
    /\ Go(c, "returned")
    /\ UNCHANGED <<engineVars, fileVars, frame, fills, cachedRow, rowBuffer, torn, got>>

ScanCall(c) == CheckoutScan(c) \/ RunDecode(c) \/ RunUnpack(c) \/ ScanThrows(c) \/ CheckinScan(c)

-----------------------------------------------------------------------------
(* The parallel read of a scan-line file.                                   *)

Split(c) ==
    /\ call[c].at = "split"
    /\ Begin(call[c].want)
    /\ Go(c, "parallel")
    /\ UNCHANGED <<fileVars, keptVars, noteVars, got>>

\* Every process of the group was chosen for this frame buffer.
Joins(c) ==
    /\ call[c].at = "parallel" /\ End
    /\ Go(c, IF thrown THEN "threw" ELSE "returned")
    /\ got' = [got EXCEPT ![c] = [u \in Unit |->
                  IF u \in decoded THEN Converted(c, LayoutOf[call[c].frame]) ELSE "old"]]
    /\ UNCHANGED <<fileVars, keptVars, noteVars>>

-----------------------------------------------------------------------------
(* Tiled files: bufferedReadPixels and TiledInputFile::Data::readTiles.     *)

\* The whole image is read straight into the frame buffer.
Whole(c) ==
    /\ call[c].at = "whole"
    /\ IF threads
       THEN Begin(Image) /\ Go(c, "wholeParallel") /\ UNCHANGED got
       ELSE /\ UNCHANGED engineVars
            /\ \/ Go(c, "threw") /\ UNCHANGED got
               \/ /\ Go(c, "returned")
                  /\ got' = [got EXCEPT ![c] = [u \in Unit |-> "right"]]
    /\ UNCHANGED <<fileVars, keptVars, noteVars>>

WholeJoins(c) ==
    /\ call[c].at = "wholeParallel" /\ End
    /\ Go(c, IF thrown THEN "threw" ELSE "returned")
    /\ got' = [got EXCEPT ![c] = [u \in Unit |-> IF u \in decoded THEN "right" ELSE "old"]]
    /\ UNCHANGED <<fileVars, keptVars, noteVars>>

\* A row of which the tiles in good arrived and those in bad arrived in part.
Buffered(r, good, bad) ==
    /\ rowBuffer' = [k \in 1 .. Columns |->
           LET u == r * Columns + k IN
           IF u \in good THEN u ELSE IF u \in bad THEN Junk ELSE rowBuffer[k]]
    /\ torn' = (torn \/ (RowOf(r) # good /\ rowBuffer' # rowBuffer))

\* readTiles for a row that is not the cached one, tile by tile or in parallel.
ReadRow(c) ==
    LET r == Row(NextLeft(c)) IN
    /\ call[c].at = "row" /\ call[c].left # {} /\ cachedRow # r
    /\ IF threads /\ Columns > 1
       THEN Begin(RowOf(r)) /\ Go(c, "rowParallel") /\ UNCHANGED <<cachedRow, rowBuffer, torn>>
       ELSE /\ UNCHANGED engineVars
            /\ \/ Buffered(r, RowOf(r), {}) /\ cachedRow' = r /\ UNCHANGED call
               \/ /\ \E u \in RowOf(r) : \E bad \in {{}, {u}} :
                        Buffered(r, {v \in RowOf(r) : v < u}, bad)
                  /\ Go(c, "threw") /\ UNCHANGED cachedRow
    /\ UNCHANGED <<fileVars, frame, fills, singleScan, clean, got>>

RowJoins(c) ==
    LET r == Row(NextLeft(c)) IN
    /\ call[c].at = "rowParallel" /\ End
    /\ IF thrown
       THEN /\ \E bad \in SUBSET (In({"done"}) \ decoded) : Buffered(r, decoded, bad)
            /\ Go(c, "threw") /\ UNCHANGED cachedRow
       ELSE Buffered(r, decoded, {}) /\ cachedRow' = r /\ Go(c, "row")
    /\ UNCHANGED <<fileVars, frame, fills, singleScan, clean, got>>

\* copyCachedBuffer for the channels of the file, fillBuffer for the others.
CopyRow(c) ==
    LET here == {u \in call[c].left : Row(u) = cachedRow} IN
    /\ call[c].at = "row" /\ call[c].left # {} /\ cachedRow = Row(NextLeft(c))
    /\ call' = [call EXCEPT ![c].left = @ \ here, ![c].promise = @ /\ ~torn,
                            ![c].at = IF call[c].left = here THEN "returned" ELSE "row"]
    /\ got' = [got EXCEPT ![c] = [u \in Unit |->
                  IF u \notin here THEN got[c][u]
                  ELSE IF rowBuffer[Column(u)] = u THEN "right" ELSE "junk"]]
    /\ UNCHANGED <<engineVars, fileVars, keptVars, noteVars>>

TiledCall(c) == Whole(c) \/ WholeJoins(c) \/ ReadRow(c) \/ RowJoins(c) \/ CopyRow(c)

-----------------------------------------------------------------------------
Engine == EngineNext /\ UNCHANGED <<fileVars, keptVars, call, got, noteVars>>

Progress(c) == ScanCall(c) \/ Split(c) \/ Joins(c) \/ TiledCall(c) \/ Return(c)

Next ==
    \/ Engine
    \/ \E f \in Frame : SetFrameBuffer(f) \/ SetFrameBufferThrows(f)
    \/ \E c \in Caller : Progress(c) \/ Read(c) \/ \E f \in Frame : ReadInto(c, f)

Spec == InputInit /\ [][Next]_vars

(***************************************************************************)
(* A call that was begun goes on, and as long as the dispatching thread or *)
(* a task that the pool runs (QueuedTaskRuns of ThreadPool.tla) can take a *)
(* step, some such step is taken.  What the application calls, and when,   *)
(* is its own choice.                                                      *)
(***************************************************************************)
Fairness == WF_vars(Engine) /\ \A c \in Caller : WF_vars(Progress(c))

FairSpec == Spec /\ Fairness

-----------------------------------------------------------------------------
\* What is kept is one of the values it may have, and so are the calls.
TypeOK ==
    /\ EngineTypeOK
    /\ frame \in Frame \cup {NoFrame} /\ fills \in Frame \cup {NoFrame}
    /\ singleScan \in [unit : 0 .. Units, layout : Layout \cup {NoLayout}]
    /\ cachedRow \in {NoRow} \cup {Row(u) : u \in Unit}
    /\ rowBuffer \in [1 .. Columns -> 0 .. Units]
    /\ \A c \in Caller : call[c].left \subseteq call[c].want /\ call[c].want \subseteq Unit
    /\ got \in [Caller -> [Unit -> {"old", "right", "junk"}]]

\* The state has its type, and the processes are in one place each.
ProcessInv == TypeOK /\ ProcessInOnePlace

(***************************************************************************)
(* A call of readPixels that returns normally has put the file's pixels    *)
(* into the frame buffer, whatever was kept from earlier calls: another    *)
(* frame buffer, another chunk, another row of tiles.  For a scan-line     *)
(* file this holds for the current frame buffer as long as no other one    *)
(* was given to readPixels since it was set; for a tiled file as long as   *)
(* no row of tiles was read in part before.  A chunk that was read without *)
(* conversion is not read again by the next call for it.                   *)
(***************************************************************************)
ReadDelivers ==
    \A c \in Caller : call[c].at = "returned" /\ call[c].promise =>
        \A u \in call[c].want :
            got[c][u] = "right" \/ (got[c][u] = "old" /\ Direct(LayoutOf[call[c].frame]) /\ ~tiled)

(***************************************************************************)
(* Every call of readPixels returns: no read waits for ever for a process  *)
(* of the group, for its tasks, or for the mutex of the file.              *)
(***************************************************************************)
ReadReturns == \A c \in Caller : []<>(call[c].at = "idle")
=============================================================================
