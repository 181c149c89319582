# OpenEXR in TLA+

Models of the parts of OpenEXR whose correctness depends on the order in which
things happen - threads, tasks, calls, failures - checked with TLC on small
instances, and theorems about them proved with TLAPS for every instance.
Paths are relative to the root of the repository; where a file name has no
path it is in `src/lib/IlmThread`, `src/lib/OpenEXR` or `src/lib/OpenEXRCore`.

## How to run it

    tlc -workers 2 -config TaskGroup.cfg TaskGroup.tla
    tlapm SynchronizationProofs.tla

`PROJECT.json` lists the runs (module, configuration, properties), the
definition-to-source map, the mutants (for every checked property one plausible
bug of the code, written beside the definition that it replaces and named
`Bad...`, with which TLC finds the property violated), the hazards, the
findings and the theorems.

| Run | Module | Configuration | Distinct states | Result |
|---|---|---|---|---|
| `taskgroup` | `TaskGroup` | `TaskGroup.cfg` | 1 290 | holds |
| `semaphore` | `Semaphore` | `Semaphore.cfg` | 179 | holds |
| `threadpool` | `ThreadPool` | `ThreadPool.cfg` | about 120 000 | holds |
| `scanline_output` | `ScanLineOutput` | `ScanLineOutput.cfg` | 710 841 | holds |
| `scanline_lost` | `ScanLineOutput` | `ScanLineOutputLost.cfg` | | finding |
| `tiled_output` | `MCTiledOutput` | `TiledOutput.cfg` | 230 250 | holds |
| `core_write` | `MCCoreWrite` | `CoreWrite.cfg` | 146 151 | holds |
| `input_file` | `MCInputFile` | `InputFile.cfg` | 366 785 | holds |
| `core_context` | `MCCoreContext` | `CoreContext.cfg` | 155 328 | holds |
| `output_stream` | `OutputStream` | `OutputStream.cfg` | 262 606 | holds |
| `core_pipelines` | `MCCorePipelines` | `CorePipelines.cfg` | 2 245 236 | holds |
| `rgba` | `RgbaYca` | `RgbaYca.cfg` | 829 644 | holds |

## The system

OpenEXR is a set of libraries: `Iex` (exceptions), `IlmThread` (semaphores, a
thread pool), `OpenEXRCore` (the file format in C), `OpenEXR` (the C++ API; it
writes files itself and reads them through the core), `OpenEXRUtil`, and tools
and bindings on top.

    application
       |  writePixels, writeTiles, readPixels ...
    OpenEXR  ---- Task, TaskGroup ---->  IlmThread
       |                                   ThreadPool, Semaphore, ProcessGroup
       |  (reading, and C applications)
    OpenEXRCore  (context, parts, chunk tables, codecs)
       |
    stream (file, memory, custom callbacks)

### Inventory

**Thread pool and provider** (`IlmThreadPool.cpp`). State: the shared pointer
to the provider (null means "run tasks in the caller"); in the provider the
vector of tasks, the counting semaphore, the vector of threads, the count, the
stop flag and two mutexes. Operations: `addTask`, `setNumThreads`,
`setProvider`, `threadLoop`, `finish`. Hard: several application threads may
add tasks and change the number of threads at once, and a change to or from
zero replaces the provider while others still hold it. Correct when no task is
lost or run twice, no wake-up is lost, and `setNumThreads` comes back.

**TaskGroup and Task** (same file). State: two atomics `numPending`,
`inFlight` and the semaphore `isEmpty`. Operations: the constructor of a task
(`addTask`), the end of a task (`removeTask`), the destructor of the group
(`waitForEmpty`). Hard: the group lives on the stack of the caller and must
not go away while the last worker is still inside the `post` that releases the
caller. Correct when the destructor waits for all tasks, returns, and nobody
touches the group after it.

**Semaphore** (`IlmThreadSemaphore*.cpp`). A system semaphore, or, where there
is none, a mutex, a condition variable, a count and a number of waiters. Hard:
whom to notify. Correct when it is a counting semaphore.

**ProcessGroup** (`IlmThreadProcessGroup.h`). A lock-free list of decode
processes that readers hand out to tasks and get back, bounded by a semaphore;
it also keeps the first failure. Hard: correct only with one popping thread.

**Scan-line output** (`ImfOutputFile.cpp`). State: the current line, the lines
still missing, the line buffers (each with a semaphore, a range, a
partially-full flag, an exception), the offset table, the file. Operations:
`initialize`, `writePixels` with `LineBufferTask`, `copyPixels`,
`updatePreviewImage`, `breakScanLine`, the destructor. Hard: tasks finish in
any order while the caller writes in line order and re-uses the freed buffers;
calls end inside a block; tasks and writes throw. Correct when the chunks are
in the file once, in order, with their own lines, and the table points to them.

**Tiled output** (`ImfTiledOutputFile.cpp`). State: tile buffers, the offsets
of all levels, the map of tiles that came too early, the next tile to write.
Operations: `writeTiles` with `TileBufferTask`, `bufferedTileWrite`,
`nextTileCoord`, `copyPixels`, `updatePreviewImage`, the destructor. Hard:
tiles of all levels come in any order and over several calls. Correct when they
are in the file in the order that the line order prescribes, and none is left
behind.

**Deep output** (`ImfDeepScanLineOutputFile.cpp`,
`ImfDeepTiledOutputFile.cpp`). The same two designs with tables of sample
counts.

**Input** (`ImfInputFile.cpp`, `ImfScanLineInputFile.cpp`,
`ImfTiledInputFile.cpp`, the deep readers). State: the frame buffer, the decode
process of the last call with its decoded chunk, the slices to fill, the cached
row of tiles of a tiled file read as scan lines; a process group per parallel
call. Operations: `setFrameBuffer`, `readPixels` with and without a frame
buffer, `readTiles`. Hard: what is kept from one call must fit the next one, of
another thread or with another frame buffer; failures of tasks must be reported
once all have ended. Correct when a call that returns normally has delivered
the file's pixels to its frame buffer, and a call with a failed task throws.

**Multi-part files** (`ImfMultiPartOutputFile.cpp`,
`ImfMultiPartInputFile.cpp`). Parts share one stream, its mutex, and the
remembered position in the stream, which saves a `tellp` per chunk; every
operation that seeks must restore it. Correct when the tables of all parts point
to their own chunks, and neither headers nor other chunks are written over.

**Writing with the core** (`context.c`, `chunk.c`,
`internal_posix_file_impl.h`). State: the mode of the context, the part and the
chunk whose turn it is, the count of chunks, a chunk table per part, the
position. Operations: `exr_start_write`, `exr_write_header`, the chunk writers,
`exr_finish`. Hard: writes fail half-way and are tried again; the file may be a
temporary one that replaces the original at the end. Correct when a part that
is done is complete and in order, and only complete files stay.

**Reading with the core** (`chunk.c`). The chunk table is loaded at the first
use by whichever thread comes first, installed with a compare-and-swap, and
rebuilt from the chunks when the file was never finished. Levels, tiles and
chunk indices are computed here and, a second time, in the C++ library
(`ImfTiledMisc.cpp`, `ImfTileOffsets.cpp`). Correct when all threads use one
table, what is in the file is found, and both libraries mean the same tile.

**Locking of the core context** (`internal_structs.h`, `part.c`,
`part_attr.c`). The getters lock only while the context is being written, and
look at the mode again to know whether they must unlock. Correct when no call
keeps the mutex or frees another's, and the header in the file agrees with the
context that wrote it.

**Rgba files** (`ImfRgbaFile.cpp`, `ImfRgbaYca.cpp`). For luminance/chroma files
the writer keeps a window of 27 lines and writes 13 lines late, the reader keeps
29 lines around the one read last. Hard: both ends of the image, images shorter
than the windows, and reading in any order. Correct when each line is made from
the lines around it.

**Core pipelines** (`encoding.c`, `decoding.c`, `coding.c`, `compression.c`).
State of a pipeline: six buffers, each a pointer and an allocated size, in which
a size of 0 next to a pointer means that the block is another buffer's or the
caller's; the chunk; the functions of its stages. Operations: initialize,
choose the default routines, update for the next chunk, run, destroy. The C++
library uses them through `Compressor` and the `ScanLineProcess` and
`TileProcess` of its readers. Hard: the buffers and their aliases stay from
chunk to chunk, of other sizes and after failed runs, and some belong to the
application. Correct when no block is leaked, freed twice or overrun, and a run
that succeeds gives the data of its own chunk.

**Codecs** (`internal_*.c`). Functions on the pixels of a chunk; whether a chunk
is compressed is told from its size alone, so that every codec must say what it
does with one that does not get smaller.

**Headers and attributes** (`parse_header.c`, `write_header.c`,
`validation.c`, `attributes.c`; `ImfHeader.cpp`, `ImfAttribute.cpp`, ...),
**ACES and composite files**, **streams and
settings**, **exceptions**, **utilities, tools, bindings**: sequential code on
data. `PROJECT.json` says of each why it is not modelled yet or never will be.

## The modules

| Module | Models | Abstract promise | Proofs |
|---|---|---|---|
| `TaskGroup` | `TaskGroup::Data`, `handleProcessTask` | `TaskBarrier` | `SynchronizationProofs` |
| `Semaphore` | `IlmThreadSemaphorePosixCompat.cpp` | `CountingSemaphore` | `SynchronizationProofs` |
| `ThreadPool` | `ThreadPool`, `DefaultThreadPoolProvider` | | `ThreadPoolProofs` |
| `ScanLineOutput` | `OutputFile` | | `ScanLineOutputProofs` |
| `TiledOutput` (`MCTiledOutput`) | `TiledOutputFile` | | `FileContentProofs` |
| `CoreWrite` (`MCCoreWrite`) | writing contexts | | `CoreWriteProofs` |
| `ParallelDecode` | `ProcessGroup`, the tasks of the readers | `ProcessPool` | `InputFileProofs` |
| `InputFile` (`MCInputFile`), extends `ParallelDecode` | `InputFile`, `ScanLineInputFile` | | `InputFileProofs` |
| `TileLayout` | levels, tiles and chunk indices, in both libraries | | `CoreContextProofs` |
| `ChunkTable`, extends `TileLayout` and `ContextParts` | chunk tables of reading contexts | `WriteOnce` | `CoreContextProofs` |
| `ContextLock`, extends `ContextParts` | the mutex of writing contexts | | `CoreContextProofs` |
| `CoreContext` (`MCCoreContext`), extends the last two | a context and its threads | | `CoreContextProofs` |
| `OutputStream` | the stream, `currentPosition` and the tables of output files | | `FileContentProofs` |
| `TranscodeBuffers`, `StoredPart` | `coding.c`: the buffers of a pipeline; the part it works on | | `CorePipelinesProofs` |
| `EncodePipeline`, extends them | `encoding.c`, `Compressor::runEncodeStep` | | `CorePipelinesProofs` |
| `DecodePipeline`, extends them | `decoding.c`, `ScanLineProcess` of the deep reader | | `CorePipelinesProofs` |
| `CorePipelines` (`MCCorePipelines`), extends both | a part written and read through its pipelines | | `CorePipelinesProofs` |
| `RgbaYca` | `ToYca` of `RgbaOutputFile`, `FromYca` of `RgbaInputFile` | | `FileContentProofs` |

The modules rest on each other as the code does: every module that uses a
semaphore uses it as `CountingSemaphore` says it behaves; the writers let the
pool run every task they give it, which is what `ThreadPool` is about, and wait
at the end of a call for all tasks, which is what `TaskGroup` guarantees.

### TaskGroup

One step is one access to an atomic or one call on the semaphore. `pc[t]`
follows a task from the call of its constructor (`EnterFlight`: `inFlight++`,
`CountPending`: `numPending++` and the test of the old value, `CloseGroup`:
`isEmpty.wait`) through its execution to `removeTask` (`UncountPending`,
`OpenGroup`, `PostReturns`, `LeaveFlight`). A `post` is two steps, because the
thread it releases may run, and delete the semaphore, before it returns.
`owner` is the destructor (`BeginDestroy`, `WaitEmpty`, `SpinOut`). The comment
"All addTask must happen prior to the TaskGroup destructor" is the guard of
`BeginDestroy`; tasks may still be queued, running or leaving.

* `GroupInv`: the atomics and the semaphore account exactly for the tasks.
* `NoTouchAfterDelete`: what the spin on `inFlight` is for.
* `DestructorReturns`: no interleaving of the last `removeTask` and a new
  `addTask` blocks a constructor or the destructor for ever.
* `ImplementsBarrier`: refinement of `TaskBarrier` - tasks join, leave once,
  and the group is destroyed at a moment when nobody is in it.

Three tasks: one can be leaving the group while a second closes it and a third
is still in its constructor. Fairness: every thread that is inside these
functions keeps running, and the pool runs a task that it has. Creating a task
and destroying the group are the program's choice and have none.

### Semaphore

`count` and `numWaiting` are the members; a thread in `wait` is asleep on the
condition variable or awake and about to take the mutex. The code between
taking and giving up the mutex is one step. Condition variables may wake
spuriously (`WakeSpuriously`).

* `SemaphoreInv`: `numWaiting` counts the threads in `wait`, and as long as one
  sleeps there are at least as many awake threads as units (no wake-up is lost).
* `ImplementsSemaphore`: refinement of `CountingSemaphore`, with its fairness:
  while there are units and waiters, one of them gets a unit.

Four threads and up to three units: two can sleep while one is awake and
another one takes its unit, and `post` takes both of its branches. Fairness: a
thread that was notified gets the mutex in the end. The versions over `sem_t`,
`dispatch_semaphore` and Win32 keep no state of their own.

### ThreadPool

Actors: for each task the thread that calls `addTask` (`GetProvider`, then
`Push` and `Post`, or `RunInline` when there is no provider); the threads of
each provider in `threadLoop` (`Wake`, `Take`, `Process`, `NothingToTake`); and
application threads in `setNumThreads` (`Call`, `Compare`, `Construct`,
`Exchange`, and in the provider `LockThreads`, `Stop`, `PostAll`, `Join`,
`Start`). A critical section under `_taskMutex` is one step; `_threadMutex` is
held over several and is a variable. A provider that the pool dropped lives on
in the shared pointers of those who got it before.

* `WakeupsExact`: semaphore plus threads just let through equals queue, less
  posts under way, plus what is left of the posts that stop the threads.
* `TaskInOnePlace`: a task is in one queue, one thread or finished, never two.
* `QueuedTaskRuns`, `SetNumThreadsReturns`: liveness of the queue, and of the
  mutex and the join in the provider's `setNumThreads` and `finish`. The first is
  about queues that still have a thread (finding 2).

Two tasks, two callers with two calls between them, up to two threads, two
providers: enough for one caller to retire a provider while the other resizes
it and both tasks hold it. Fairness: each thread keeps running; a weak one is
enough because a post or an unlock stays until somebody uses it. The tasks and
the changes themselves are the program's choice.

### ScanLineOutput

One file object; its calls do not interleave, because each holds the mutex of
the stream, but the tasks of a call do, with the caller and with each other.
`buf[s]` is a `LineBuffer` (semaphore, block, range of lines, flags, contents);
a line's pixels are its number, so that a line in the wrong place is seen.
`WritePixels` computes the blocks that a call touches (division as in C),
`AddTask` is the constructor of a `LineBufferTask`, `Execute` is the task,
`WriteBlock`, `KeepPartial`, `WriteFails` and `TooManyLines` are the outcomes of
the writing loop, `Unwind` the exit through the destructor of the task group,
`Report` the loop that rethrows exceptions. `CopyPixels` and `Close` are whole
calls. The compressor, a write, a read of the copied file, and the final write
of the table may fail.

* `FileSound`: the chunks are in line order, each block once with its own lines,
  and the table points to exactly those.
* `CursorInv`: the types, and `CursorSound`: between calls the counters, the table and the partially full
  buffer agree.
* `WritePixelsReturns`: no call waits for a buffer that nobody posts.

The safety properties are about behaviours in which nothing failed (except the
last table), the liveness one exempts failed writes: after one, the code leaves
the buffer's semaphore at zero and a later call that comes to this buffer waits
for ever (`Hung`). A call that asks for too many lines may run a task outside
the data window before the check (`RunAway`); nothing is claimed after that.

Five lines in blocks of two (a short last block), one buffer (no threads) or
two, both line orders, up to four calls of any number of lines from zero to
beyond the window: calls start and end at each position of a block, and each
buffer is used again. A failure of any kind may happen in any step. Files have
one line buffer (no threads), two, or six, which is more than there are blocks.
Six is also no power of two: there `getLineBuffer`, which converts a block number
to `size_t` before it takes the remainder, gives a block above the data window,
whose number is negative, the buffer of one that may be under way (`SlotOf`).
2^64 is the constant `SizeModulus`; TLC takes 2^16, which has the same remainder
for 1, 2 and 6 buffers.

`scanline_lost` is one call with the lines of one whole block, whose compressor
throws: the block still counts as partially full, and the call returns normally
with the exception stored (finding 3).

### TiledOutput

`next` is `nextTileToWrite`, `chunks` what is behind the header, the other
variables have the names of the code; `nextTileCoord` and `writeTileData` are the
functions of these names, for all level modes. `WriteTiles`, `AddTask`, `Execute`
are as above; `Duplicate`, `KeepTile`, `WriteAtRandom`, `WriteInTurn`, `TileFails`
are the cases of `bufferedTileWrite`, and `Drain`, `DrainFails`, `Drained` its loop
over the tiles that waited. `CopyPixels` starts a copy, which is then a step for
each tile (`CopyTile`), until all are copied or one cannot be read or written
(`CopyStops`); into a RANDOM_Y file the tiles come in the order of the input file,
for which any order stands that takes them from either end (`Ends`). The data of a
tile are represented by the tile they were made from.

* `TilesInOrder`: every chunk has the pixels of its tile, the offsets point to
  the chunks and to nothing else, and the file is a beginning of the prescribed
  order - stated by `Rank`, independently of `nextTileCoord`.
* `NothingHeldBack`: an accepted tile is in the file or waits for its turn, no
  tile that could be written waits, and when all were accepted all are written.
* `WriteTilesReturns`: as for scan lines.

After a failed write nothing is promised: the code stores the offset before it
writes. A duplicate tile leaves its buffer taken, and a later call may hang;
the liveness property exempts both. Two by two tiles on level 0 and one on
level 1, in each direction, in all level modes and line orders; two calls of
any rectangle of any level, or of `copyPixels`, so that the second call brings
what the first waits for, repeats it, or mixes with it; one failure.

### CoreWrite

A call is one step because it takes the mutex of the context; calls that are
refused change nothing. `cur`, `last`, `count` are `cur_output_part`,
`last_output_chunk`, `output_chunk_count`; `disk` lists what is behind the
header, a failed write leaving a fragment or nothing. `WriteChunk`,
`WriteLastChunk` and `ChunkFails` stand for `write_scan_chunk` and
`write_tile_chunk`, which agree in all that is modelled; `Finish` is
`exr_finish` for a file written directly, through a temporary file, or to a
custom stream.

* `DonePartsComplete`: a part that is done has each chunk whole where its table
  says, and so does the table in the file, unless that write failed.
* `FileInOrder`: parts, and chunks of a part not in random order, are in order.
* `OnlyCompleteFilesStay`: what is left under the name is complete.
* `WriteInv`: the inductive strengthening.

In a random-order part chunks are only counted, so that a chunk written twice
takes the place of one that is missing; the properties exempt that case and
say so. Three parts of two, three and two chunks, the middle one in random
order, two failures: a chunk can fail twice, or a chunk and a table once each.
No liveness is stated: the program decides which calls it makes.

### ParallelDecode and InputFile

`ParallelDecode` is one parallel read. `disp` is the thread that reads:
`Query` (`exr_read_*_chunk_info`, which may fail and leave), `PopWait`,
`PopLoad`, `PopRead`, `PopSwap` (`ProcessGroup::pop`, one step per access to an
atomic), `Drained` (the destructor of the `TaskGroup`), `Check`
(`throw_on_failure`). A task decodes with the process it was given
(`DecodeSucceeds`, `DecodeFails`), records the first failure (`RecordLoad`,
`RecordSwap`) and gives the process back (`PushLink`, `PushSwap`, `PushPost`).
`first` and `chosen` are what the process remembers: a process whose first use
failed early has no routines, and every later decode with it fails.

* `ProcessInv`: the types, and `ProcessInOnePlace`: a process is in the list or with one task, and `pop`
  never finds the list empty, although pushes change it under `pop`'s feet.
* `GroupOutlivesTasks`: the call ends after its last task left `push`.
* `FailureReported`: it throws exactly when some unit was not decoded.
* `ImplementsPool`: refinement of `ProcessPool`, which lends each process to one
  task at a time and closes when all are back.

`InputFile` composes it with what is kept between calls. `singleScan` is the
process that `checkoutScan` and `checkinScan` pass on, `fills` the frame buffer
that `fill_list` was made for, `cachedRow` and `rowBuffer` are `_cachedTileY` and
`_cachedBuffer`. A caller checks the process out, decodes or only unpacks its
units, and checks it in; or reads rows of tiles into the cache and copies from
there; or starts a parallel read. `got` says for each unit whether the right
pixels, junk, or nothing arrived.

* `ReadDelivers`: a call that returns has delivered, whatever was kept. It makes
  exceptions for four ways in which the code does not (findings 5 to 8).
* `ReadReturns`: no call waits for ever.

`SetFrameBufferThrows` is about the sampling of a channel, in files of lines. That of
a tiled file throws only while its chunk table is not valid, which a table that was
read stays: such a file never accepts a frame buffer. Failing allocations are left out.

Two callers that overlap, two frame buffers (of two layouts), three chunks, two
columns of tiles, a group of two processes on a pool of none or two threads, so
that the pop of one task meets the pushes of two. `Overlaps` and `Explored`
name what is left out: callers are interchangeable, and a parallel read shares
nothing with other calls, so it runs alone. Fairness: a caller runs on, and as
long as the dispatcher or a task can go on, one of them does; which calls are made
has none.

### TileLayout, ChunkTable, ContextLock and CoreContext

A context is open for reading, and its threads share chunk tables without a
mutex, or it is open for writing, and all goes through the mutex; `CoreContext`
is both.

`ChunkTable`: a thread looks for the table of its part (`LoadTable`), reads it
(`ReadTable`, `ReadFails`), rebuilds it from the chunks if entries are missing -
for which it first needs the table of the part before, back to the first - and
installs it (`Install`, the compare-and-swap). `disk` is the order of the chunks
in the file, `damaged` the missing entries. `Scan` is the loop of
`reconstruct_chunk_table`.

* `TablesShared`: refinement of `WriteOnce`. Every thread works with the one
  table that was installed for a part, or with the one failure.
* `ChunksFound`: a chunk in the file is found although entries are missing
  (`NothingMissed`), and, in whatever order the chunks are and whatever fails, no
  entry leads to a chunk of another part or another number (`EntriesRight`). The
  exceptions of the first are named: strict readers, and tables of which only some
  entries are missing and whose chunks are out of order (`Mangled`, finding 12).

`TileLayout` has no state: it is the arithmetic of levels, tiles and indices.

* `TilesAgree`: for every geometry, the core's index of a tile is the entry at
  which the C++ library wrote it, tiles cover each level once, the edge tiles
  have the size that the reader expects, and a writer asks the core for the same
  chunk (but for finding 11).

`ContextLock`: `Begins` is a call up to the mutex, `Lock` takes it, `Work` is
what the calls do and how they return. `exr_write_header` is several holds of
the mutex: for every part it gives it up around `exr_attr_set_int`
(`Count`, `SetChunkCount`). If that fails (`HeaderFails`), `output_file_offset` is 0
all the same: should another call have written the header in the gap, the next chunk
comes over it (`NoHeader`). Getters decide twice by the mode.

* `ContextInv`: the types, and `LockDiscipline`: one call at work holds the mutex, and nobody else.
* `HeaderFits`: header, attributes, counts of chunks and chunks agree once the
  header is written.
* `CallsReturn`: nobody waits for ever.

They hold but for the mishaps that `mishap` records: a mutex kept by
`exr_validate_chunk_table` or by a getter that waited while the header was
written, one freed by `exr_get_file_name`, and a change made in the gap of
`exr_write_header` (findings 13 and 14).

Two threads, two parts of two chunks. 1008 geometries: widths 1 to 7, heights 1
to 4, tiles of 1 to 3 by 1 or 2, all level and rounding modes, which has every
remainder and levels that shrink to one pixel; tables are read for one of them.
One read fails; one reading call per thread; parts follow each other in the file
or alternate; no calls after a mishap. Fairness: a call that has the mutex goes
on (weak), and a thread that waits gets it if it becomes free again and again
(strong, the promise of a mutex; weak fairness would not do, since other calls
may take it in between).

### OutputStream

Every call holds the mutex of the stream, and is one step. `file` is the cells of
the file, `pos` is `tellp ()`, `current` is `currentPosition`. A chunk is the
fields that `writePixelData`, `writeTileData` and their deep variants write, and
`Advance` the sum by which they move `currentPosition`, which is written down
separately in the code, for each of the four kinds of part. `UpdatePreview`,
`BreakChunk`, `Close` seek elsewhere; each of them, and a write, may fail after
any part of its data.

* `StreamInv`: the types, and `FileIntact`: the tables point to the parts' own chunks, whole, and headers
  and tables before them are not written over. Exceptions: findings 9 and 10,
  and a chunk broken on purpose.
* `TablesStored`: a part whose destructor could write its table has it in the
  file, whatever failed in other parts.

One or two parts of all kinds with two chunks each, interleaved in all ways, in a
stream that is at its beginning or not, and one mishap: enough for a wrong sum to
be seen by the next chunk of the same and of another part.

### TranscodeBuffers, EncodePipeline, DecodePipeline and CorePipelines

The memory `m` is a record: the live blocks with owner, size and content, the
buffers of the pipeline, and `fault`, which is set by a step that frees what is
not the pipeline's own or gone, or writes outside of a live block. `FreeBuffer`
and `AllocBuffer` are `internal_decode_free_buffer` and
`internal_decode_alloc_buffer`; an allocation may fail, or hand out the address of
a block that was freed, which a stale pointer may still hold. An operation is an
operator from a memory to its outcomes, and a stage of a run is an action that
takes one of them: `Read`, `UpdatePointers`, `Decompress`, `Samples`, `Unpack` for
`exr_decoding_run`; `Pack`, `Compress`, `default_yield`, `default_write_chunk` for
`exr_encoding_run`. A run whose stage fails ends there, and the pipeline is used
again for any chunk. What a block holds is a token: counts or pixels, of which
chunk, compressed or not.

Around the pipelines are their users. `runEncodeStep` lends its memory to the
encoder and takes the smaller of its input and the result; `run_mem_decode` gives
the decoder a chunk in memory of the caller; `run_unpack` asks again for what the
last run left; `Adopt` is the sentence of `openexr_decode.h` about callers that
take control of a buffer, and `ApplicationFrees` what they do with it. A buffer may
be an alias of another one, and what is adopted is then still the other's: `shared`
says that this has happened.

`CorePipelines` writes a flat part with the encoder and, when the encoder is
destroyed, reads it with the decoder; deep parts, which the encoder leaves to the
application, come with the tables and sizes that files may have: stored smaller
or not smaller, without a table, or with a table shorter or longer than the chunk
where nothing checks it, that is unless the part is uncompressed scan lines.

* `MemorySound`: no fault; each block of a pipeline belongs to exactly one of its
  buffers, with its size; none is left when the pipeline is destroyed.
* `ApplicationKept`: what was lent or adopted is neither changed nor freed. Two
  exceptions: a lent table that has just the size the user wants and is unpacked in
  place (`Exposed`, finding 22), and all that follows when a shared block was adopted
  (`shared`, finding 18), which `MemorySound` and `ChunkDelivered` exempt as well.
* `ChunkStored`: the file has the chunk's own pixels, compressed exactly when the
  reader will take them for compressed. Exception `NotShrunk`: findings 20, 21.
* `ChunkDelivered`: a run that succeeds delivers the counts and the pixels of the
  chunk it was asked for, in the form it was asked for. Exceptions `NotShrunk`, and
  `TableOverlooked`: finding 17.

Two chunks, so that each can follow the other with more or less of everything.
Flat parts with 0 to 3 units of pixels, over four kinds of codec: none, those
that give back what they could not make smaller (`zip` for ZIP, RLE, PIZ and DWA),
those that keep what is as large (`b44` for B44, B44A and PXR24), and HTJ2K.
One failed run of each pipeline, one block adopted at a time, of `packed_buffer` or
`unpacked_buffer`, and only from pipelines whose runs all succeeded; none of a
pipeline that shares a block fails afterwards. A freed address is handed out again
to the same buffer only: a pointer that an alias left stale would be to a block
of the buffer it stood for. Tiled and scan-line deep parts differ only
where the storage is uncompressed and in `run_mem_decode`; the compressed tiled
ones are left out. No liveness: the functions do not wait.

### RgbaYca

A line is its number, and what the vertical filters make of lines is these
lines with their places in the window (`DecimateChromaVert`,
`ReconstructChromaVert`); what happens along a line has no state and is left
out. `WriteChroma` is the loop body of `ToYca::writePixels`: it rotates `buf`,
repeats the first line at the start, and at the end pushes out the lines that
are still in the window (`Rest`). `ReadLine` is `FromYca::readPixels` for one
line: `Filled` rotates `buf1` by the distance to the line before and reads what
is missing, `Made` does so with `buf2`. `Call` picks any range of lines, and
`ReadFails` is `InputPart::readPixels` throwing at any of the missing lines.

* `LinesWritten`: each line is written in its turn, with its own luminance and
  the chroma of the lines around, repeated beyond the ends of the image as the
  filter wants it. Exceptions: finding 15.
* `LinesRead`: a line is made from the lines around it, and only from lines that
  have chroma, whatever was read before. Exception: finding 16.

Windows of 7 (and so 9) lines instead of 27 (and 29); N2 is odd for both. Images
of 2 lines (less than N2), 6 (less than N) and 10 (more than the reader's window,
so that a jump can miss it altogether), both line orders, one failed read. There
is no liveness to state, since the functions do not wait.

## What is proved

TLAPS checks the proofs for every value of the constants, with the assumptions
named in the modules and no others.

**TaskGroup**, for every finite set of tasks (`TaskAssumption`):
`GroupInvariant`, `DestructorSafe`, `RefinesBarrier`. `NoTouchAfterDelete` is
not inductive: that the destructor passes only when `inFlight` is 0 says
nothing unless `inFlight` counts the tasks that are still inside, and that it
waits at all depends on `isEmpty`. `GroupInv` says what the members are worth
in each state: `CountersExact` equates the atomics with sets of tasks;
`SemaphoreExact` says that at most one task closes and one opens the group, and
that `isEmpty` is one unit that is there, lent or owed; `OwnerExact` says what
the destructor may conclude. The proof has one lemma per thread (constructor,
worker, destructor) and in it one case per action.

**Semaphore**, for every finite set of threads and every initial count
(`SemaphoreAssumption`): `SemaphoreInvariant` and `RefinesSemaphore`.
`NoLostWakeup` needs `WaitingExact`, because `post` notifies only when
`numWaiting` is not 0. The first unit of a run needs one awake thread, each
further one wakes all, and a thread sleeps again only when there is no unit.

**CoreWrite**, for any number of parts and chunks, any line orders and any
number of failures (`CoreAssumption`): `WriteInvariant`, and from it
`DonePartsAreComplete`, `FileIsInOrder` and `FinishLeavesComplete`. That a part
is complete when the count reaches `chunk_count` is not inductive: `CountExact`
says what the count means at every moment (a beginning of the part, or in a
random-order part the number of chunks in the file), `DiskBehind` that nothing
beyond the current chunk is in the file but fragments, and `ModeAgrees` and
`TargetAgrees` what the mode says. The lemmas `Put...` are about what a
successful and a failed write have in common; in particular `PutWritten`: only
whether this chunk is in the file can change, although a failed write leaves a
table entry that points to a place where another chunk may come to lie.

**ThreadPool**, for any finite set of tasks, any numbers of threads, providers
and calls of `setNumThreads` (`PoolAssumption`): `PoolInvariant`, and from it
`NoWakeupLost` and `TaskStaysInOnePlace`. `WakeupsExact` alone is not
inductive. A thread that was let through and finds the queue empty must be one
that is to stop, and only the equation itself shows that it is: the queue is
empty and the thread counts as awake, so that `StopCredit` is not 0 and somebody
is in `lockedFinish`. That the credit is not negative rests on `ResizeInv`: the
threads that exist are those of the vector (`CrewsExact`), a thread has left only
while somebody waits for it (`ExitsJoined`), and one call at a time has the
mutex of a provider and what it says about `stopping` (`ControlSound`).
`PlaceInv` says where a task is, and that no queue, and no two, hold it twice;
then a queue is no longer than there are tasks, and the count of `Places` is a sum
of sets with at most one element.

**ParallelDecode and InputFile**, for any numbers of units, processes, workers
and callers, and any layouts of frame buffers (`DecodeAssumption`,
`InputAssumption`): `FileInvariant`, and from it `ReadsDeliver`,
`GroupsOutliveTasks` and `FailuresReported`. The theorems are about
`InputFile`, whose steps of a parallel read are those of `ParallelDecode`.
`DispatchInv` is about the read: units are left over exactly if reading a chunk
failed (`ThrownExact`), and the failure that is kept is that of a task that
ended, with none forgotten (`FailureExact`). `FileInv` adds what is kept between
calls: the process of `singleScan` has the routines of the current frame buffer
while nothing else was read through it (`KeptRight`), the cached row holds each
tile of its row while none was read in part (`RowRight`), and the read under way
is of the units its one caller needs (`ReadOf`). `PromiseKept` carries these from
one unit of a call to the next.

`ProcessesShared` and `RefinesPool` are about the lock-free list. What can be
reached through its links is a recursion over data; so that no proof needs it,
`SharedInv` names the list instead: there are a number `n` and a sequence of `n`
distinct processes along which `head` and the links run (`Chain`), these are the
processes that no task holds (`FreeOnes`), and there are as many of them as units
of the semaphore, with the one that `pop` has already taken and those that `push`
has not given back yet (`Permits`). `PopSees` is the reason why `pop` may read
`next` before its exchange: only this thread takes from the list, so that a
process that others put in front makes the exchange fail and none behind can
change. From it `ProcessInOnePlace` follows, and each step is one of
`ProcessPool` or leaves the pool as it is.

**ContextLock, ChunkTable and CoreContext**, for any numbers of parts and chunks
and any finite set of threads (`PartsAssumption`, `LockAssumption`,
`TableAssumption`): `LockInvariant`, and from it
`MutexHeldByOne` and `HeadersFit`; `TableInvariant`, and with it
`RefinesWriteOnce`; `ContextInvariant` from both. `HeaderFits` needs to know how
far `exr_write_header` has counted when it comes back for the mutex (`Counted`),
and that once the header is there no other call is half-way (`Headers`); both hold
only while nobody else changed something in the gap, which is the exception that
`HeaderFits` makes. `TablesShared` rests on one fact that is not in the property: a
table that a reader is about to install is not the null pointer that stands for
"no table yet", whichever way it got it, from the file or from the scan of a
damaged one (`TableInv`, `Reading`). If it were, the compare-and-swap would
install nothing, and two readers could be told different tables.

`FoundInvariant`, and from it `ChunksAlwaysFound`, are about what the scan of a
damaged file finds. `Scan` is a recursion along the file; the lemma `Reach` turns it
into a run of `ScanStep`: what holds at the start of a scan and is kept by every
step as long as the scan goes on holds where it ends, by a least counterexample among the natural numbers (`WFMin`). Two such facts
are needed. `RightScan`: each entry that the scan has set leads to the chunk of
that number, and while no chunk failed to fit, there is one entry per step, so that
a scan which ends on a count has found as many chunks as it stepped over.
`InScan`: the scan starts where the part starts (`StartIs`, which needs the tables
of the parts before, one after the other), every chunk of the part up to where it
stands is in the table, and none of the entries it was given leads further,
because the chunks are in order (`LinesInOrder`) or all entries are lost. From
these, `RebuiltRight` and `RebuiltGood` say what a rebuilt table holds, and
`FoundInv` says it of the tables that are installed and of the one that each reader
is about to install, with the reason why a reader was turned back: a part whose
table is incomplete.

`TilesAlwaysAgree` is about `TileLayout`, for every size of window and tile, every
level mode and both roundings (`IsGeometry`, all that the checks of a header
leave). The model's recursions are those of the code's loops, and are followed
by the same induction: over the exponent (`ShiftedStep`), over the numbers that the
logarithms halve (`LogsAre`), over the subsets of the set that is summed
(`SumIs`, which says that the sum of the sizes of disjoint sets is the size of
their union). With it, the index of a tile is the number of tiles before it
(`IndexIsSlot`), and the tiles of a level, each as large as its reader expects, make
up the level (`LevelCovered`). Numbers are not bounded, those of the code are: where
the C++ library shifts a bit into the sign of an `int`, for the last level of
windows wider than 2^30 that round up, the quotient is 0 as with the right number.

**The core pipelines**, for any chunks of any sizes, any codec, any failed run or
allocation (`ChunksAssumption`, `FlatPartsAssumption`, `DeepPartsAssumption`):
`PipelinesInvariant`, and from it `BuffersSound`, `ChunksStored` and
`ChunksDelivered`; with it, `ApplicationsKept`. None of the properties is inductive,
because a pipeline keeps its buffers, and pointers into them, from the chunks
before, of which nothing can be said: a run may have failed at any stage, and
the application may have taken a buffer away. The proof has two layers. `Sound` is
about a memory alone (blocks with one owner that knows their size, no leak, and
each pointer either to a buffer's own block or to that of the buffer it may stand
for), and every operation of `coding.c` keeps it and says which buffers it
`Touches`. `IInv` is about a run: for the `Job` that it is to do, what each stage
finds in the buffers (`Holds`), so that nothing depends on what was there before
the run. Where it does depend on it, the proof needs the exceptions that
`ChunkStored` and `ChunkDelivered` make (findings 17, 20 and 21). From when an
application has adopted a block that two buffers share, nothing can be said of the
memory: `PipelinesInvariant` is `IInv` or `Loose`, which keeps only what is known
of the file. What is lent is kept but for the addresses open to the job (`open`):
the table that is unpacked in place.
`DeepPartsAssumption` says of deep parts what the readers of chunks check or what
an encoder guarantees: a chunk that is not compressed is as large as its pixels,
and, in scan lines, its table has one count per pixel. A compressed table may have
any size.

**ScanLineOutput**, for any numbers of lines, of lines in a block and of line
buffers and any width of `size_t` (`OutputAssumption`), both line orders and any
calls:
`OutputInvariant`, and from it `FileAlwaysSound` and `CursorAlwaysSound`. Neither
property is inductive: they say nothing of what is in the line buffers while a
call is under way, on which depends what the next chunk will be. The invariant
treats both line orders at once, by counting blocks and lines by their place in
the file (`Rank`, `Before`). `WorkAt` says what the blocks in work need: those
from the block to write up to the block to compress next are in buffers of their
own, because they are fewer than the buffers (`LoopAt`, `Slots`); each buffer has
the lines of its block that came before the call, and after its task also those
of the call, and it is partially full exactly when the call ends inside the block
(`HandAt`); no other buffer holds lines, but the one of the next block before it
was given to a task (`SpareAt`). A task for a block above the data window, which a call
that asks for too many lines may have made, can share its buffer with one of
those, and runs away before it changes it (`AstrayAt`). `RestAt` says the same of a file outside the loop.
Where the division of C rounds towards zero, above the data window and below it,
`LastBlock` shows that the loop still ends with the block of the last line. As the
properties, the invariant is about runs in which nothing failed but the final
write of the table.

**OutputStream**, for any number of chunks in a part, any places where the stream
may have been before, and any number of failures (`StreamAssumption`):
`StreamInvariant` and `TablesAlwaysStored`. What the tables point to stays true
only if nothing is written over it, so `StreamIInv` is mostly about places: the
headers, the previews, the tables and the data do not overlap (`Geometry`),
`currentPosition` is the stream's position or unknown (`Exact`; it is known to be
wrong after a preview that failed, which is the exception of finding 10), chunks
lie before the place where the next one goes (`Placed`), and there is room for
those that are still to come (`Reach`). A write is then a write `Over` cells that
hold nothing the invariant speaks of (`DataWrite`), or over one preview or table
with the same layout (`PreviewWrite`, `TableWrite`). How much `currentPosition`
must move is used once for each kind of part (`CellsOf`), so the proof also
shows that the four sums of the code are the right ones.

**RgbaYca**, for any width of the filters (with N2 odd), any even heights and
any number of failed reads (`FilterAssumption`): `LinesAlwaysWritten` and
`LinesAlwaysRead`. `YcaInv` says what the windows hold between calls.
After n lines a place `k` of the writer's window has line `n - N + k`, or the first
line where that is before the image (`WindowHolds`); the first N2 lines are
enough for that, since a place is only spoken of once a line can have reached
it. The repetitions after the last line are worked out by `LastWindow`, and by
`LastWindowShort` in an image smaller than half a window, where only the line in
the middle is right (finding 15). The reader's windows have the lines around the
line read last unless a read failed (`ReaderInv`, finding 16); `WindowRead` and
`LinesMade` show that what the rotation keeps is just what is not read again, for
every distance and direction.

**TiledOutput**, for any numbers of levels, of tiles and of tile buffers
(`TiledAssumption`), all level modes and line orders and any calls:
`TilesAlwaysInOrder` and `NothingEverHeldBack`. `TilesInOrder` says where a tile
lies by its `Rank`, which is not inductive: that the next chunk will have the next
rank depends on what was written. So `OrderInv` says that the tiles in the file are
just those that precede `next`, and that there is a next tile or that these are all;
the rank of the next tile is then the number of chunks (`RankOfNext`). `NextTile`
shows, for each way in which `nextTileCoord` can go on (`NextInRow`, `NextRow`,
`NextLevelFirst`), that after it one more tile precedes: this one. For the data,
`GivenInv` says that the turns of a call from `write` up to `comp` have tile
buffers of their own (they are fewer than the buffers, `Slots`), each with its
tile, and compressed unless its task is still to run. `HeldInv` is about `tileMap`:
the accepted tiles are those in the file and, apart from them, those that wait; of
these `next` is none but in the loop of `bufferedTileWrite`. Both theorems are
about behaviours up to the first failed write, as the properties are; what throws in
the compressor, the duplicates, and a copy that stops for want of input are
included.

Only model-checked: all liveness properties (the prover does no liveness under
fairness, so also the fairness part of `ImplementsSemaphore`).

## Findings

Each is in `PROJECT.json` with the lines quoted. Number 3 is a
run that TLC ends with a counterexample. The others are exceptions that a
property which holds had to make, so that without the exception its run fails -
except 1 and 19, which are read off the code.

1. `threadLoop` takes the last task of the vector (`IlmThreadPool.cpp:408`);
   `IlmThreadPool.h:136` and two comments say FIFO.
2. A task given to `addTask` while `setNumThreads (0)` retires the provider
   is pushed to a queue without threads and never runs
   (`IlmThreadPool.cpp:684`), although the comment at 304 says there is always a
   thread.
3. `writePixels` returns for a partially full block before it looks for
   exceptions (`ImfOutputFile.cpp:1119`); a whole block whose compression failed is
   taken for a partial one, and the call returns normally. Run `scanline_lost`.
4. When the write of the last chunk table fails, `exr_finish` still renames the
   temporary file over the original (`chunk.c:1850`), against the doc of
   `EXR_INTERMEDIATE_TEMP_FILE`.
5. `readPixels` with a frame buffer goes on with a process whose routines were
   chosen for another frame buffer (`ImfScanLineInputFile.cpp:579`).
6. It fills the missing channels of the last `setFrameBuffer`, not those of its
   own frame buffer (`ImfScanLineInputFile.cpp:496`).
7. An uncompressed chunk that was read straight into the frame buffer is not
   written by the next call that reads it (`ImfScanLineInputFile.cpp:609`).
8. A row of tiles that was read in part stays in the cache as if it were whole
   (`ImfInputFile.cpp:532`).
9. In a stream that is not at its beginning, the first chunk is recorded at the
   header (`ImfOutputFile.cpp:692`).
10. When `updatePreviewImage` throws, the next chunk is written over the header
    (`ImfOutputFile.cpp:1399`).
11. `exr_write_tile_chunk_info` gives the full size to the last tile of a row or
    column of a level above 0 (`chunk.c:2007`).
12. Chunks out of order are not found again when only some entries of the table
    were lost (`chunk.c:472`).
13. `exr_get_file_name` frees a mutex it did not take (`context.c:414`).
14. `exr_validate_chunk_table` and `exr_get_chunk_table` keep it (`part.c:477`).
15. In a luminance/chroma file in decreasing order, or of less than 13 lines, the
    vertical filter is applied to the lines whose chroma is not stored, and the
    others are stored unfiltered (`ImfRgbaFile.cpp:505`).
16. A read that fails leaves the windows of `FromYca` rotated, and the next lines
    near it are made from wrong ones (`ImfRgbaFile.cpp:949`).
17. A compressed deep chunk without a sample table is given the counts that the
    pipeline's buffer still holds from another chunk (`decoding.c:594`).
18. An application that adopts `unpacked_buffer`, as `openexr_decode.h:137` invites
    it to, shares it with the pipeline when the chunk was stored uncompressed
    (`decoding.c:72`): the next chunk is read over it.
19. The encoder compresses an uninitialised buffer in place of the table of sample
    counts, and never sets its size (`compression.c:337`).
20. B44, B44A and PXR24 keep compressed data that are exactly as large as the
    pixels, which readers take for uncompressed (`internal_b44.c:495`).
21. HTJ2K leaves the beginning of a codestream that did not fit as if it were the
    uncompressed pixels (`internal_ht.cpp:562`).
22. `run_mem_decode` lends the caller's const data to a pipeline, which decompresses
    the table of sample counts in place if the compressed table has the size of the
    one the user wants (`decoding.c:45`).

## Not modelled

Pixel conversion, the codecs' transformations, the bytes of headers, attributes
and file structure: sequential transformations of data whose domains TLC cannot
enumerate. Deep output files keep their own buffers (`ImfDeepScanLineOutputFile.cpp`,
`ImfDeepTiledOutputFile.cpp`); their protocol is that of `ScanLineOutput` and
`TiledOutput` line by line, and only their place in the stream is modelled. The
input side of multi-part files, OpenEXRUtil, the tools and the Python wrapper
forward to what is modelled. Pools and allocators that the application supplies.
The TBB provider. System calls. Weak memory orders: the atomics of `TaskGroup`
are sequentially consistent in the code and in the model.

Three hazards have no property and are not in the list of `PROJECT.json`:
`setNumThreads` on a provider that another caller retires starts threads that
nobody joins (`IlmThreadPool.cpp:643`; the model has the interleaving, not the
destruction of the provider); the offset of a tile is stored before the tile is
written, so that after a failed write a retry is refused as a duplicate
(`ImfTiledOutputFile.cpp:408`); `copyPixels` of a scan-line file counts whole
blocks, also for a short one, so that after a copy that failed half-way the
counters may disagree (`ImfOutputFile.cpp:1353`).

## Plan

In this order next:

1. Deep output as variants of the two writers, with their sample counts.
2. The retired provider of `ThreadPool` up to its destruction.
