------------------------ MODULE ScanLineOutputProofs ------------------------
(***************************************************************************)
(* For every number of lines, of lines in a block and of line buffers,     *)
(* both line orders and any mixture of calls: as long as nothing failed,   *)
(* OutputFile writes the chunks in line order, each once and with its own  *)
(* lines (FileAlwaysSound), and between calls its cursor, its table and    *)
(* its line buffers agree (CursorAlwaysSound).                             *)
(*                                                                         *)
(* Both line orders are treated at once: blocks and lines are counted by   *)
(* their place in the file (Rank, Before).  OutputSound says what the line *)
(* buffers hold during a call (WorkAt: for the blocks between the one to   *)
(* write and the one to compress next, the task's lines or those gathered  *)
(* so far) and outside the calls' loop (RestAt: of the next block alone).  *)
(* A line buffer may also hold the task of a block above the data window,  *)
(* which runs away (AstrayAt).                                             *)
(* Its predicates are about values, not variables, so that a step only has *)
(* to say what the values are next (SoundNext).                            *)
(***************************************************************************)
EXTENDS ScanLineOutput, FiniteSetTheorems, TLAPS

-----------------------------------------------------------------------------
(* Division.                                                                *)

LEMMA TimesGrows ==
    ASSUME NEW b \in Nat \ {0}, NEW j \in Int, NEW k \in Int, j < k PROVE j * b + b <= k * b
  OBVIOUS

LEMMA Division ==
    ASSUME NEW b \in Nat \ {0}, NEW a \in Int
    PROVE  a \div b \in Int /\ (a \div b) * b <= a /\ a < (a \div b) * b + b
  OBVIOUS

LEMMA DivisionUnique ==
    ASSUME NEW b \in Nat \ {0}, NEW a \in Int, NEW q \in Int, q * b <= a, a < q * b + b
    PROVE  a \div b = q /\ a % b = a - q * b
  OBVIOUS

-----------------------------------------------------------------------------
(* Blocks and lines.                                                        *)

\* A block begins where the block before it ends.
LEMMA FirstLines ==
    /\ \A k \in Int : FirstLine(k) \in Int /\ FirstLine(k + 1) = FirstLine(k) + LinesInBuffer
    /\ \A j, k \in Int : j < k => FirstLine(j) + LinesInBuffer <= FirstLine(k)
    /\ FirstLine(0) = 0
  BY OutputAssumption, TimesGrows DEF FirstLine

\* There is a block, the last one begins inside the data window and ends it.
LEMMA BlocksAre ==
    /\ NumBlocks \in Nat \ {0} /\ Block = 0 .. NumBlocks - 1
    /\ FirstLine(NumBlocks - 1) < Height /\ Height <= FirstLine(NumBlocks)
  <1> DEFINE a == Height + LinesInBuffer - 1
  <1>1. a \in Int /\ LinesInBuffer \in Nat \ {0} /\ Height \in Nat \ {0} /\ a >= LinesInBuffer
    BY OutputAssumption
  <1>2. a = Height + LinesInBuffer - 1
    OBVIOUS
  <1> HIDE DEF a
  <1>3. /\ NumBlocks \in Int /\ NumBlocks * LinesInBuffer <= a
        /\ a < NumBlocks * LinesInBuffer + LinesInBuffer
    BY <1>1, Division DEF NumBlocks, a
  <1>4. NumBlocks > 0
    <2>1. NumBlocks < 0 => NumBlocks * LinesInBuffer + LinesInBuffer <= 0 * LinesInBuffer
      BY <1>1, <1>3, TimesGrows
    <2>2. NumBlocks # 0
      BY <1>1, <1>3
    <2>3. QED
      BY <1>1, <1>3, <2>1, <2>2
  <1>5. (NumBlocks - 1) * LinesInBuffer + LinesInBuffer = NumBlocks * LinesInBuffer
    BY <1>1, <1>3
  <1>6. QED
    BY <1>1, <1>2, <1>3, <1>4, <1>5 DEF FirstLine, Block

\* The lines of a block are in the data window, and its neighbours' adjoin them.
LEMMA LinesOfBlocks ==
    ASSUME NEW k \in Block
    PROVE  /\ FirstLine(k) \in Int /\ LastLine(k) \in Int
           /\ 0 <= FirstLine(k) /\ FirstLine(k) <= LastLine(k) /\ LastLine(k) < Height
           /\ LastLine(k) < FirstLine(k) + LinesInBuffer
           /\ k < NumBlocks - 1 => LastLine(k) + 1 = FirstLine(k + 1)
           /\ k = NumBlocks - 1 => LastLine(k) = Height - 1
  <1>1. k \in Int /\ 0 <= k /\ k <= NumBlocks - 1 /\ NumBlocks \in Int
    BY BlocksAre
  <1>2. FirstLine(k) \in Int /\ FirstLine(k + 1) = FirstLine(k) + LinesInBuffer
    BY <1>1, FirstLines
  <1>3. 0 <= FirstLine(k) /\ FirstLine(k) < Height
    <2>1. 0 < k => FirstLine(0) + LinesInBuffer <= FirstLine(k)
      BY <1>1, FirstLines
    <2>2. k < NumBlocks - 1 => FirstLine(k) + LinesInBuffer <= FirstLine(NumBlocks - 1)
      BY <1>1, FirstLines
    <2>3. FirstLine(NumBlocks - 1) \in Int /\ FirstLine(0) = 0
      BY <1>1, FirstLines
    <2>4. FirstLine(NumBlocks - 1) < Height /\ LinesInBuffer \in Nat
      BY BlocksAre, OutputAssumption
    <2>5. 0 <= FirstLine(k)
      BY <1>1, <1>2, <2>1, <2>3, <2>4
    <2>6. FirstLine(k) < Height
      BY <1>1, <1>2, <2>2, <2>3, <2>4, OutputAssumption
    <2>7. QED
      BY <2>5, <2>6
  <1>4. k < NumBlocks - 1 => FirstLine(k + 1) < Height
    <2>1. k + 1 < NumBlocks - 1 => FirstLine(k + 1) + LinesInBuffer <= FirstLine(NumBlocks - 1)
      BY <1>1, FirstLines
    <2>2. FirstLine(NumBlocks - 1) \in Int /\ FirstLine(k + 1) \in Int
      BY <1>1, FirstLines
    <2>3. QED
      BY <1>1, <2>1, <2>2, BlocksAre, OutputAssumption
  <1>5. k = NumBlocks - 1 => Height <= FirstLine(k) + LinesInBuffer
    BY <1>1, <1>2, BlocksAre
  <1>6. QED
    BY <1>1, <1>2, <1>3, <1>4, <1>5, OutputAssumption DEF LastLine, Least

\* The block of a line, and its place in the line buffer.
LEMMA BlockOfLine ==
    ASSUME NEW k \in Int, 0 <= k, NEW y \in Int, FirstLine(k) <= y, y < FirstLine(k) + LinesInBuffer
    PROVE  Quotient(y, LinesInBuffer) = k /\ y % LinesInBuffer = y - FirstLine(k)
  <1>1. 0 <= y
    <2>1. 0 < k => FirstLine(0) + LinesInBuffer <= FirstLine(k)
      BY FirstLines
    <2>2. QED
      BY <2>1, FirstLines, OutputAssumption
  <1>2. k * LinesInBuffer \in Int
    BY FirstLines DEF FirstLine
  <1>3. QED
    BY <1>1, <1>2, DivisionUnique, OutputAssumption DEF Quotient, FirstLine

\* Division towards zero gives the block of a line also above the data window.
LEMMA Quotients ==
    ASSUME NEW a \in Int
    PROVE  LET q == Quotient(a, LinesInBuffer) IN
           /\ q \in Int
           /\ 0 <= a => 0 <= q /\ FirstLine(q) <= a /\ a < FirstLine(q) + LinesInBuffer
           /\ a < 0 => q <= 0 /\ a <= FirstLine(q)
  <1> DEFINE L == LinesInBuffer
  <1>1. L \in Nat \ {0}
    BY OutputAssumption
  <1> HIDE DEF L
  <1>2. /\ a \div L \in Int /\ (a \div L) * L <= a /\ a < (a \div L) * L + L
        /\ (-a) \div L \in Int /\ -a < ((-a) \div L) * L + L /\ ((-a) \div L) * L <= -a
    BY <1>1, Division
  <1>3. \A d \in Int : d < 0 => d * L + L <= 0 * L
    BY <1>1, TimesGrows
  <1>4. 0 <= a => 0 <= a \div L
    BY <1>1, <1>2, <1>3
  <1>5. a < 0 => 0 <= (-a) \div L
    BY <1>1, <1>2, <1>3
  <1>6. CASE 0 <= a
    <2>1. Quotient(a, LinesInBuffer) = a \div L
      BY <1>6 DEF Quotient, L
    <2>2. QED
      BY <1>2, <1>4, <1>6, <2>1 DEF FirstLine, L
  <1>7. CASE a < 0
    <2> DEFINE c == (-a) \div L
    <2>1. Quotient(a, LinesInBuffer) = -c
      BY <1>7 DEF Quotient, L
    <2> HIDE DEF c
    <2>2. c \in Int /\ 0 <= c /\ c * L <= -a
      BY <1>2, <1>5, <1>7 DEF c
    <2>3. c * L \in Int /\ (-c) * L = -(c * L)
      BY <1>1, <2>2
    <2>4. a <= (-c) * L
      BY <2>2, <2>3
    <2>5. QED
      BY <1>7, <2>1, <2>2, <2>4 DEF FirstLine, L
  <1>8. QED
    BY <1>6, <1>7
-----------------------------------------------------------------------------
(* Both line orders at once: blocks and lines by their place in the file.   *)

\* The place of a block, from 0, and the block at a place.
Rank(k) == IF increasing THEN k ELSE NumBlocks - 1 - k

\* How many lines come before a line.
Before(y) == IF increasing THEN y ELSE Height - 1 - y

\* The first and the last line of the block at a place, as places of lines.
Begin(r) == IF increasing THEN FirstLine(r) ELSE Height - 1 - LastLine(Rank(r))
End(r) == IF increasing THEN LastLine(r) ELSE Height - 1 - FirstLine(Rank(r))

\* The lines of the block at a place, and its line buffer.
First(r) == FirstLine(Rank(r))
Last(r) == LastLine(Rank(r))
Home(r) == SlotOf(Rank(r))
N == Cardinality(Slot)

RightChunk(k) == [minY |-> FirstLine(k), lines |-> LinesOf(k)]
ChunkAt(i) == RightChunk(InLineOrder(i))

Done == Len(file)
Healthy == faults \subseteq {"close"}

\* The chunks of the first blocks are in the file.
FileExact ==
    /\ Done <= NumBlocks
    /\ \A i \in 1 .. Done : file[i] = ChunkAt(i)
    /\ \A k \in Block : table[k] = IF Rank(k) < Done THEN Rank(k) + 1 ELSE 0

-----------------------------------------------------------------------------
(* What the buffers bf hold when d chunks are in the file, the next line is *)
(* at place p, and, during a call, its locals are l and the caller is at    *)
(* the point at.                                                            *)

\* The lines of the block at a place that come before a line are in its buffer.
GathersAt(b, r, p) ==
    \A y \in First(r) .. Last(r) : Before(y) < p => b.content[y % LinesInBuffer] = y
CoversAt(b, r) == b.minY = First(r) /\ b.maxY = Last(r)

\* The next block waits in its buffer.
WaitsAt(b, d, p) ==
    /\ b.partiallyFull => CoversAt(b, d)
    /\ Begin(d) < p => b.partiallyFull /\ GathersAt(b, d, p)

\* Between calls nobody works on a buffer, and only the next block waits in one.
RestAt(bf, d, p) ==
    /\ \A s \in Slot : ~bf[s].task
    /\ \A s \in Slot : bf[s].partiallyFull => s = Home(d)
    /\ \A s \in Slot : s = Home(d) => WaitsAt(bf[s], d, p)

\* The lines of a call, as places; the next block to give to a task, and the one
\* after the last.
FromOf(l) == IF increasing THEN l.lo ELSE Height - 1 - l.hi
ToOf(l) == IF increasing THEN l.hi ELSE Height - 1 - l.lo
GivenOf(l) == Rank(l.compress)
StopOf(l) == Rank(l.stop)

\* The loop of writePixels: the tasks for the blocks from write to compress.
LoopAt(d, p, l, at) ==
    /\ Rank(l.write) = d
    /\ p = Greatest(FromOf(l), Begin(d))
    /\ p <= ToOf(l) + 1 /\ (p = ToOf(l) + 1 => FromOf(l) = p)
    /\ \A r \in Block : /\ ToOf(l) <= End(r) => StopOf(l) <= r + 1
                        /\ StopOf(l) <= r => ToOf(l) < Begin(r)
    /\ ~increasing => \A r \in NumBlocks .. StopOf(l) - 1 : l.lo <= First(r)
    /\ at = "adding" => /\ GivenOf(l) >= d /\ l.left >= 1 /\ GivenOf(l) + l.left <= d + N
                        /\ GivenOf(l) + l.left <= Greatest(StopOf(l), d + 1)
    /\ at = "writing" => /\ GivenOf(l) >= d + 1 /\ GivenOf(l) <= d + N
                         /\ GivenOf(l) <= Greatest(StopOf(l), d + 1)

\* The buffer of a block that was given to a task.
HandAt(b, r, l) ==
    /\ CoversAt(b, r)
    /\ b.lo = Greatest(b.minY, l.lo) /\ b.hi = Least(b.maxY, l.hi)
    /\ b.task => b.partiallyFull /\ GathersAt(b, r, FromOf(l))
    /\ ~b.task => GathersAt(b, r, ToOf(l) + 1) /\ (b.partiallyFull <=> ToOf(l) < End(r))

\* A buffer that was given to a block above the data window: its task will run away.
AstrayAt(b) == b.task /\ ~InWindow(b)

\* Another buffer.
SpareAt(b, s, d, l) == ~b.task /\ (b.partiallyFull => GivenOf(l) = d /\ s = Home(d))

WorkAt(bf, d, p, l, at) ==
    /\ LoopAt(d, p, l, at)
    /\ \A s \in Slot :
           /\ \A r \in Block : d <= r /\ r < GivenOf(l) /\ s = Home(r)
                  => AstrayAt(bf[s]) \/ HandAt(bf[s], r, l)
           /\ (\A r \in d .. GivenOf(l) - 1 : s # Home(r)) => SpareAt(bf[s], s, d, l)
           /\ GivenOf(l) = d /\ s = Home(d) => WaitsAt(bf[s], d, FromOf(l))

\* currentScanLine is in the next block, and m lines are missing.
CursorAt(d, p, m) ==
    IF d < NumBlocks
    THEN Begin(d) <= p /\ p <= End(d) /\ m = Height - p
    ELSE Height <= p /\ m <= 0

OwnedAt(b) == (b.sem = IF b.task THEN 0 ELSE 1) /\ ~b.hasException

Resting == {"idle", "unwinding", "finishing", "closed"}

SoundAt(bf, d, p, m, l, at) ==
    /\ CursorAt(d, p, m)
    /\ \A s \in Slot : OwnedAt(bf[s])
    /\ at = "idle" => \A s \in Slot : ~bf[s].task
    /\ d < NumBlocks /\ at \in {"adding", "writing"} => WorkAt(bf, d, p, l, at)
    /\ d < NumBlocks /\ at \in Resting => RestAt(bf, d, p)

\* The bound variables stand for the state, so that a step only has to say what
\* they are next.
OutputSound ==
    /\ FileExact
    /\ \E bf, d, p, m, l, at :
           /\ bf = buf /\ d = Done /\ p = Before(cur) /\ m = missing /\ l = loop /\ at = pc
           /\ SoundAt(bf, d, p, m, l, at)

LoopT == [write : Int, compress : Int, left : Int, stop : Int, lo : Int, hi : Int]
BufferT == [sem : {0, 1}, task : BOOLEAN, minY : Int, maxY : Int, lo : Int, hi : Int,
            partiallyFull : BOOLEAN, hasException : BOOLEAN,
            content : [0 .. LinesInBuffer - 1 -> Line \cup {-1}]]

ChunkT == [minY : Int, lines : UNION {[0 .. m -> Line \cup {-1}] : m \in Int}]

OutputTypeOK ==
    /\ increasing \in BOOLEAN /\ cur \in Int /\ missing \in Int
    /\ \E n \in Buffers : Slot = 0 .. n - 1
    /\ buf \in [Slot -> BufferT]
    /\ \A s \in Slot : /\ buf[s].task => buf[s].sem = 0
                       /\ buf[s].maxY < buf[s].minY + LinesInBuffer
    /\ table \in [Block -> Nat] /\ stored \in [Block -> Nat] /\ file \in Seq(ChunkT)
    /\ pc \in Stage /\ loop \in LoopT
    /\ outcome \in {"none", "ok", "failed", "tooMany"}
    /\ faults \subseteq {"compress", "write", "read", "close"}
    /\ calls \in 0 .. MaxCalls

OutputInv == OutputTypeOK /\ (Healthy => OutputSound)

-----------------------------------------------------------------------------
\* In either line order the blocks of the file follow each other without a gap.
LEMMA Ranks ==
    ASSUME increasing \in BOOLEAN, NEW r \in Block
    PROVE  /\ Rank(r) \in Block /\ Rank(Rank(r)) = r
           /\ Begin(r) \in Int /\ End(r) \in Int
           /\ 0 <= Begin(r) /\ Begin(r) <= End(r) /\ End(r) < Height
           /\ r = 0 => Begin(r) = 0
           /\ r + 1 \in Block => Begin(r + 1) = End(r) + 1
           /\ r = NumBlocks - 1 => End(r) = Height - 1
  <1>1. Rank(r) \in Block /\ Rank(Rank(r)) = r
    BY BlocksAre DEF Rank
  <1>2. Begin(r) \in Int /\ End(r) \in Int /\ 0 <= Begin(r) /\ Begin(r) <= End(r) /\ End(r) < Height
    BY <1>1, LinesOfBlocks, OutputAssumption DEF Begin, End
  <1>3. CASE increasing
    BY <1>1, <1>2, <1>3, LinesOfBlocks, FirstLines, BlocksAre DEF Begin, End, Rank
  <1>4. CASE ~increasing
    <2> DEFINE m == Rank(r)
    <2>1. m \in Block /\ (r = 0 => m = NumBlocks - 1) /\ (r = NumBlocks - 1 => m = 0)
      BY <1>1, <1>4, BlocksAre DEF Rank
    <2>2. Begin(r) = Height - 1 - LastLine(m) /\ End(r) = Height - 1 - FirstLine(m)
      BY <1>4 DEF Begin, End, Rank
    <2> HIDE DEF m
    <2>3. /\ m = NumBlocks - 1 => LastLine(m) = Height - 1
          /\ m = 0 => FirstLine(m) = 0
      BY <2>1, LinesOfBlocks, FirstLines
    <2>4. /\ r = 0 => Begin(r) = 0
          /\ r = NumBlocks - 1 => End(r) = Height - 1
      BY <2>1, <2>2, <2>3, OutputAssumption
    <2>5. ASSUME r + 1 \in Block PROVE Begin(r + 1) = End(r) + 1
      <3> DEFINE k == Rank(r + 1)
      <3>1. k \in Block /\ Rank(r) = k + 1 /\ k < NumBlocks - 1
        BY <1>4, <2>5, BlocksAre DEF Rank
      <3> HIDE DEF k
      <3>2. LastLine(k) + 1 = FirstLine(k + 1) /\ LastLine(k) \in Int /\ FirstLine(k + 1) \in Int
        BY <1>1, <3>1, LinesOfBlocks
      <3>3. Begin(r + 1) = Height - 1 - LastLine(k) /\ End(r) = Height - 1 - FirstLine(k + 1)
        BY <1>4, <3>1 DEF Begin, End, k
      <3>4. QED
        BY <3>2, <3>3, OutputAssumption
    <2>6. QED
      BY <1>1, <1>2, <2>4, <2>5
  <1>5. QED
    BY <1>1, <1>2, <1>3, <1>4

\* Blocks at later places begin after those before them have ended.
LEMMA RanksInOrder ==
    ASSUME increasing \in BOOLEAN, NEW r \in Block, NEW s \in Block, r < s
    PROVE  End(r) < Begin(s)
  <1>1. /\ r \in Int /\ s \in Int /\ Rank(r) \in Block /\ Rank(s) \in Block
        /\ Rank(r) \in Int /\ Rank(s) \in Int
        /\ IF increasing THEN Rank(r) < Rank(s) ELSE Rank(s) < Rank(r)
    BY BlocksAre DEF Rank
  <1>2. \A j, k \in Block : j < k => LastLine(j) < FirstLine(k)
    <2> TAKE j, k \in Block
    <2>1. j \in Int /\ k \in Int
      BY BlocksAre
    <2>2. j < k => FirstLine(j) + LinesInBuffer <= FirstLine(k)
      BY <2>1, FirstLines
    <2>3. QED
      BY <2>2, LinesOfBlocks, OutputAssumption
  <1>3. QED
    BY <1>1, <1>2, LinesOfBlocks, OutputAssumption DEF Begin, End, Rank

\* The lines of a block, and where a line is kept.
LEMMA LinesByRank ==
    ASSUME increasing \in BOOLEAN, NEW r \in Block, NEW y \in Int
    PROVE  /\ Before(y) \in Int
           /\ y \in FirstLine(Rank(r)) .. LastLine(Rank(r)) <=>
                  Begin(r) <= Before(y) /\ Before(y) <= End(r)
           /\ Begin(r) <= Before(y) /\ Before(y) <= End(r) =>
                  /\ Quotient(y, LinesInBuffer) = Rank(r)
                  /\ y % LinesInBuffer = y - FirstLine(Rank(r))
                  /\ y - FirstLine(Rank(r)) \in 0 .. LastLine(Rank(r)) - FirstLine(Rank(r))
                  /\ y % LinesInBuffer \in 0 .. LinesInBuffer - 1 /\ y \in Line
  <1> DEFINE k == Rank(r)
  <1>1. k \in Block /\ k \in Int /\ 0 <= k
    BY Ranks, BlocksAre
  <1>2. Begin(r) = (IF increasing THEN FirstLine(k) ELSE Height - 1 - LastLine(k))
        /\ End(r) = (IF increasing THEN LastLine(k) ELSE Height - 1 - FirstLine(k))
    BY DEF Begin, End, Rank
  <1> HIDE DEF k
  <1>3. /\ Before(y) \in Int
        /\ y \in FirstLine(k) .. LastLine(k) <=> Begin(r) <= Before(y) /\ Before(y) <= End(r)
    BY <1>1, <1>2, LinesOfBlocks, OutputAssumption DEF Before
  <1>4. ASSUME y \in FirstLine(k) .. LastLine(k)
        PROVE  /\ Quotient(y, LinesInBuffer) = k /\ y % LinesInBuffer = y - FirstLine(k)
               /\ y - FirstLine(k) \in 0 .. LastLine(k) - FirstLine(k)
               /\ y - FirstLine(k) \in 0 .. LinesInBuffer - 1 /\ y \in Line
    <2>1. /\ FirstLine(k) \in Int /\ LastLine(k) \in Int /\ 0 <= FirstLine(k)
          /\ LastLine(k) < Height /\ LastLine(k) < FirstLine(k) + LinesInBuffer
      BY <1>1, LinesOfBlocks
    <2>2. /\ FirstLine(k) <= y /\ y < FirstLine(k) + LinesInBuffer /\ y <= LastLine(k)
      BY <1>4, <2>1, OutputAssumption
    <2>3. Quotient(y, LinesInBuffer) = k /\ y % LinesInBuffer = y - FirstLine(k)
      BY <1>1, <2>2, BlockOfLine
    <2>4. QED
      BY <2>1, <2>2, <2>3, OutputAssumption DEF Line
  <1>5. QED
    BY <1>3, <1>4 DEF k

\* A remainder, and numbers fewer than b apart leave different ones.
LEMMA Remainder ==
    ASSUME NEW b \in Nat \ {0}, NEW j \in Int PROVE j % b \in 0 .. b - 1
  <1>1. PICK q \in Int : q = j \div b
    BY Division
  <1>2. q * b <= j /\ j < q * b + b /\ q * b \in Int
    BY <1>1, Division
  <1>3. j % b = j - q * b
    BY <1>2, DivisionUnique
  <1>4. QED
    BY <1>2, <1>3

LEMMA Remainders ==
    ASSUME NEW b \in Nat \ {0}, NEW j \in Int, NEW k \in Int, j < k, k < j + b
    PROVE  j % b # k % b
  <1>1. PICK q \in Int, r \in Int : q = j \div b /\ r = k \div b
    BY Division
  <1>2. /\ q * b <= j /\ j < q * b + b /\ q * b \in Int
        /\ r * b <= k /\ k < r * b + b /\ r * b \in Int
    BY <1>1, Division
  <1>3. j % b = j - q * b /\ k % b = k - r * b
    BY <1>2, DivisionUnique
  <1>4. /\ q < r => q * b + b <= r * b
        /\ r < q => r * b + b <= q * b
    BY TimesGrows
  <1>5. ASSUME j % b = k % b PROVE FALSE
    <2>1. j - q * b = k - r * b
      BY <1>3, <1>5
    <2>2. q # r
      BY <1>2, <2>1
    <2>3. QED
      BY <1>2, <1>4, <2>1, <2>2
  <1>6. QED
    BY <1>5

\* Blocks of the data window, or below it, that are fewer apart than there are line
\* buffers have line buffers of their own.
LEMMA Slots ==
    ASSUME \E n \in Buffers : Slot = 0 .. n - 1
    PROVE  /\ N \in Nat \ {0} /\ Slot = 0 .. N - 1
           /\ \A k \in Int : SlotOf(k) \in Slot
           /\ \A j, k \in Nat : j < k /\ k < j + N => SlotOf(j) # SlotOf(k)
  <1>1. PICK n \in Buffers : Slot = 0 .. n - 1
    OBVIOUS
  <1>2. n \in Nat \ {0}
    BY OutputAssumption
  <1>3. N = n
    <2>1. Cardinality(0 .. n - 1) = n - 1 - 0 + 1
      BY <1>2, FS_Interval
    <2>2. QED
      BY <1>1, <1>2, <2>1 DEF N
  <1>4. /\ \A k \in Nat : SlotOf(k) = k % n
        /\ \A k \in Int : k < 0 => SlotOf(k) = (k + SizeModulus) % n
    BY <1>3 DEF SlotOf, N
  <1>5. ASSUME NEW k \in Int PROVE SlotOf(k) \in Slot
    <2>1. CASE k >= 0
      <3>1. k % n \in 0 .. n - 1
        BY <1>2, Remainder
      <3>2. SlotOf(k) = k % n
        BY <1>4, <2>1
      <3>3. QED
        BY <1>1, <3>1, <3>2
    <2>2. CASE k < 0
      <3>1. k + SizeModulus \in Int
        BY OutputAssumption
      <3>2. (k + SizeModulus) % n \in 0 .. n - 1
        BY <1>2, <3>1, Remainder
      <3>3. QED
        BY <1>1, <1>4, <2>2, <3>2
    <2>3. QED
      BY <2>1, <2>2
  <1>6. ASSUME NEW j \in Nat, NEW k \in Nat, j < k, k < j + N PROVE SlotOf(j) # SlotOf(k)
    <2>1. j < k /\ k < j + n /\ j \in Int /\ k \in Int
      BY <1>3, <1>6
    <2>2. j % n # k % n
      BY <1>2, <2>1, Remainders
    <2>3. QED
      BY <1>4, <2>2
  <1>7. QED
    BY <1>1, <1>2, <1>3, <1>5, <1>6

\* A step that keeps the line order and the line buffers' number.
Frame == UNCHANGED <<increasing, Slot>>

\* Such a step moves no block and no line.
LEMMA FrameKeeps ==
    ASSUME Frame
    PROVE  /\ N' = N
           /\ \A k : SlotOf(k)' = SlotOf(k) /\ Rank(k)' = Rank(k) /\ Before(k)' = Before(k)
           /\ \A k : Begin(k)' = Begin(k) /\ End(k)' = End(k) /\ InLineOrder(k)' = InLineOrder(k)
           /\ \A k : First(k)' = First(k) /\ Last(k)' = Last(k) /\ Home(k)' = Home(k)
           /\ \A k : ChunkAt(k)' = ChunkAt(k)
  BY DEF Frame, N, SlotOf, Rank, Before, Begin, End, InLineOrder, First, Last, Home, ChunkAt,
         RightChunk, LinesOf, FirstLine, LastLine, Least

\* The buffers of a new file are of their type.
LEMMA InitType == Init => OutputTypeOK
  <1> SUFFICES ASSUME Init PROVE OutputTypeOK
    OBVIOUS
  <1> USE DEF Init
  <1>1. PICK n \in Buffers : buf = [s \in 0 .. n - 1 |-> FreeBuffer]
    OBVIOUS
  <1>2. Slot = 0 .. n - 1
    BY <1>1 DEF Slot
  <1>3. FreeBuffer \in BufferT /\ FreeBuffer.maxY < FreeBuffer.minY + LinesInBuffer
        /\ ~FreeBuffer.task
    BY OutputAssumption DEF FreeBuffer, BufferT
  <1>4. buf \in [Slot -> BufferT]
    BY <1>1, <1>2, <1>3
  <1>5. \A s \in Slot : /\ buf[s].task => buf[s].sem = 0
                        /\ buf[s].maxY < buf[s].minY + LinesInBuffer
    BY <1>1, <1>2, <1>3
  <1>6. loop \in LoopT /\ pc \in Stage /\ calls \in 0 .. MaxCalls /\ cur \in Int /\ missing \in Int
    BY OutputAssumption DEF LoopT, NoLoop, Stage
  <1>7. table \in [Block -> Nat] /\ stored \in [Block -> Nat] /\ file \in Seq(ChunkT)
    OBVIOUS
  <1>8. QED
    BY <1>1, <1>2, <1>4, <1>5, <1>6, <1>7 DEF OutputTypeOK

-----------------------------------------------------------------------------
(* The line buffers.                                                        *)

\* What the constructor of LineBufferTask sets in a line buffer.
LEMMA PreparedFields ==
    ASSUME NEW b \in BufferT, NEW k \in Int, NEW lo \in Int, NEW hi \in Int
    PROVE  LET p == Prepared(b, k, lo, hi) IN
           /\ p \in BufferT
           /\ p.sem = 0 /\ p.task /\ p.partiallyFull /\ p.content = b.content
           /\ p.hasException = b.hasException
           /\ p.minY = (IF b.partiallyFull THEN b.minY ELSE FirstLine(k))
           /\ p.maxY = (IF b.partiallyFull THEN b.maxY ELSE LastLine(k))
           /\ p.lo = Greatest(p.minY, lo) /\ p.hi = Least(p.maxY, hi)
  <1>1. FirstLine(k) \in Int /\ LastLine(k) \in Int
    <2>1. FirstLine(k) \in Int
      BY FirstLines
    <2>2. QED
      BY <2>1, OutputAssumption DEF LastLine, Least
  <1> DEFINE minY == IF b.partiallyFull THEN b.minY ELSE FirstLine(k)
             maxY == IF b.partiallyFull THEN b.maxY ELSE LastLine(k)
  <1>2. minY \in Int /\ maxY \in Int
    BY <1>1 DEF BufferT
  <1>3. Prepared(b, k, lo, hi) =
            [b EXCEPT !.sem = 0, !.task = TRUE, !.minY = minY, !.maxY = maxY,
                      !.lo = Greatest(minY, lo), !.hi = Least(maxY, hi), !.partiallyFull = TRUE]
    BY DEF Prepared
  <1> HIDE DEF minY, maxY
  <1> DEFINE first == Greatest(minY, lo)
             last == Least(maxY, hi)
  <1>4. first \in Int /\ last \in Int
    BY <1>2 DEF Greatest, Least
  <1> HIDE DEF first, last
  <1>5. Prepared(b, k, lo, hi) =
            [b EXCEPT !.sem = 0, !.task = TRUE, !.minY = minY, !.maxY = maxY,
                      !.lo = first, !.hi = last, !.partiallyFull = TRUE]
    BY <1>3 DEF first, last
  <1> DEFINE p == Prepared(b, k, lo, hi)
  <1>6. /\ p \in BufferT
        /\ p.sem = 0 /\ p.task /\ p.partiallyFull /\ p.content = b.content
        /\ p.hasException = b.hasException
        /\ p.minY = minY /\ p.maxY = maxY /\ p.lo = first /\ p.hi = last
    BY <1>2, <1>4, <1>5 DEF BufferT
  <1> HIDE DEF p
  <1>7. p.lo = Greatest(p.minY, lo) /\ p.hi = Least(p.maxY, hi)
    BY <1>6 DEF first, last
  <1>8. QED
    BY <1>6, <1>7 DEF minY, maxY, p

\* Where the lines of a task are, LineBufferTask::execute puts them.
LEMMA GatheredLines ==
    ASSUME NEW b \in BufferT, InWindow(b)
    PROVE  /\ Gathered(b) \in [0 .. LinesInBuffer - 1 -> Line \cup {-1}]
           /\ \A i \in 0 .. LinesInBuffer - 1 :
                  IF \E y \in b.lo .. b.hi : y % LinesInBuffer = i
                  THEN Gathered(b)[i] \in b.lo .. b.hi /\ Gathered(b)[i] % LinesInBuffer = i
                  ELSE Gathered(b)[i] = b.content[i]
  <1>1. b.content \in [0 .. LinesInBuffer - 1 -> Line \cup {-1}] /\ b.lo .. b.hi \subseteq Line
    BY DEF BufferT, InWindow
  <1>2. ASSUME NEW i \in 0 .. LinesInBuffer - 1
        PROVE  IF \E y \in b.lo .. b.hi : y % LinesInBuffer = i
               THEN Gathered(b)[i] \in b.lo .. b.hi /\ Gathered(b)[i] % LinesInBuffer = i
               ELSE Gathered(b)[i] = b.content[i]
    BY <1>1 DEF Gathered
  <1>3. \A i \in 0 .. LinesInBuffer - 1 : Gathered(b)[i] \in Line \cup {-1}
    BY <1>1, <1>2
  <1>4. DOMAIN Gathered(b) = 0 .. LinesInBuffer - 1
    BY <1>1 DEF Gathered
  <1>5. Gathered(b) \in [0 .. LinesInBuffer - 1 -> Line \cup {-1}]
    BY <1>1, <1>3, <1>4 DEF Gathered
  <1>6. QED
    BY <1>2, <1>5

\* What types say about the line buffers, and a step that changes one of them.
BuffersOK ==
    /\ \E n \in Buffers : Slot = 0 .. n - 1
    /\ buf \in [Slot -> BufferT]
    /\ \A s \in Slot : /\ buf[s].task => buf[s].sem = 0
                       /\ buf[s].maxY < buf[s].minY + LinesInBuffer

Changed(s, b) == Slot' = Slot /\ buf'[s] = b /\ \A o \in Slot \ {s} : buf'[o] = buf[o]

\* A step that changes one line buffer keeps the others.
LEMMA ChangeOne ==
    ASSUME BuffersOK, NEW s \in Slot, NEW b \in BufferT, buf' = [buf EXCEPT ![s] = b],
           b.task => b.sem = 0, b.maxY < b.minY + LinesInBuffer
    PROVE  BuffersOK' /\ Changed(s, b)
  <1>1. Slot' = Slot
    BY DEF Slot, BuffersOK
  <1>2. Changed(s, b)
    BY <1>1 DEF Changed, BuffersOK
  <1>3. buf' \in [Slot -> BufferT]
    BY DEF BuffersOK
  <1>4. QED
    BY <1>1, <1>2, <1>3 DEF BuffersOK, Changed

LEMMA KeepAll == ASSUME BuffersOK, UNCHANGED buf PROVE BuffersOK' /\ Slot' = Slot
  BY DEF BuffersOK, Slot

\* The locals of writePixels are integers, whatever the number of lines asked for.
LEMMA WritePixelsType ==
    ASSUME OutputTypeOK, NEW n \in Nat, WritePixels(n) PROVE OutputTypeOK'
  <1> DEFINE first == Quotient(cur, LinesInBuffer)
             last == Quotient(cur + Step * (n - 1), LinesInBuffer)
             span == IF increasing THEN last - first + 1 ELSE first - last + 1
             left == Greatest(Least(Cardinality(Slot), span), 1)
  <1>1. cur \in Int /\ Step \in Int /\ Step * (n - 1) \in Int /\ BuffersOK /\ increasing \in BOOLEAN
    BY DEF OutputTypeOK, Step, BuffersOK
  <1>2. first \in Int /\ last \in Int
    BY <1>1, Quotients
  <1>3. N \in Int
    BY <1>1, Slots DEF BuffersOK
  <1>4. left \in Int
    BY <1>2, <1>3 DEF Greatest, Least, N
  <1>5. loop' \in LoopT
    <2> HIDE DEF left, first, last
    <2>1. loop' = [write |-> first, compress |-> first, left |-> left, stop |-> last + Step,
                   lo |-> IF increasing THEN cur ELSE cur - n + 1,
                   hi |-> IF increasing THEN cur + n - 1 ELSE cur]
      BY DEF WritePixels, first, last, left
    <2>2. QED
      BY <1>1, <1>2, <1>4, <2>1 DEF LoopT
  <1>6. BuffersOK'
    BY <1>1, KeepAll DEF WritePixels
  <1>7. calls' \in 0 .. MaxCalls
    BY OutputAssumption DEF WritePixels, OutputTypeOK
  <1>8. QED
    BY <1>5, <1>6, <1>7 DEF WritePixels, OutputTypeOK, BuffersOK, Stage

\* A block has at most LinesInBuffer lines.
LEMMA LastLines ==
    ASSUME NEW k \in Int PROVE LastLine(k) < FirstLine(k) + LinesInBuffer
  <1>1. FirstLine(k) \in Int
    BY FirstLines
  <1>2. QED
    BY <1>1, OutputAssumption DEF LastLine, Least

\* The buffer that AddTask gives to a task.
NewTask == Prepared(buf[SlotOf(loop.compress)], loop.compress, loop.lo, loop.hi)

\* AddTask changes the line buffer of the block to compress next.
LEMMA AddTaskChanges ==
    ASSUME OutputTypeOK, AddTask
    PROVE  BuffersOK' /\ Changed(SlotOf(loop.compress), NewTask) /\ SlotOf(loop.compress) \in Slot
  <1> DEFINE s == SlotOf(loop.compress)
             b == NewTask
  <1>1. BuffersOK /\ loop.compress \in Int /\ loop.lo \in Int /\ loop.hi \in Int
    BY DEF OutputTypeOK, BuffersOK, LoopT
  <1>2. s \in Slot
    BY <1>1, Slots DEF BuffersOK
  <1>3. buf' = [buf EXCEPT ![s] = b]
    BY Zenon DEF AddTask, NewTask
  <1>4. buf[s] \in BufferT
    BY <1>1, <1>2 DEF BuffersOK
  <1>5. /\ b \in BufferT /\ b.sem = 0
        /\ b.minY = (IF buf[s].partiallyFull THEN buf[s].minY ELSE FirstLine(loop.compress))
        /\ b.maxY = (IF buf[s].partiallyFull THEN buf[s].maxY ELSE LastLine(loop.compress))
    BY <1>1, <1>4, PreparedFields DEF NewTask
  <1> HIDE DEF b, s
  <1>6. b.maxY < b.minY + LinesInBuffer
    BY <1>1, <1>2, <1>5, LastLines DEF BuffersOK
  <1>7. BuffersOK' /\ Changed(s, b)
    BY <1>1, <1>2, <1>3, <1>5, <1>6, ChangeOne
  <1>8. QED
    BY <1>2, <1>7 DEF b, s

\* The loop changes its locals to integers.
LEMMA LoopEdits ==
    ASSUME NEW l \in LoopT, NEW a \in Int, NEW b \in Int
    PROVE  /\ [l EXCEPT !.compress = a, !.left = b] \in LoopT
           /\ [l EXCEPT !.write = a, !.left = b] \in LoopT
  BY DEF LoopT

LEMMA AddTaskType == ASSUME OutputTypeOK, AddTask PROVE OutputTypeOK'
  <1>1. BuffersOK'
    BY AddTaskChanges
  <1>2. Step \in Int
    BY DEF Step
  <1>3. loop' \in LoopT
    <2>1. loop' = [loop EXCEPT !.compress = loop.compress + Step, !.left = loop.left - 1]
      BY DEF AddTask
    <2>2. loop \in LoopT /\ loop.compress + Step \in Int /\ loop.left - 1 \in Int
      BY <1>2 DEF OutputTypeOK, LoopT
    <2>3. QED
      BY <2>1, <2>2, LoopEdits
  <1>4. QED
    BY <1>1, <1>3 DEF AddTask, OutputTypeOK, BuffersOK, Stage

\* The buffer that a task leaves.
Filled(b, throws) ==
    [b EXCEPT !.content = Gathered(b), !.task = FALSE, !.sem = 1,
              !.partiallyFull = LoopEnd(b) \in b.minY .. b.maxY \/ throws,
              !.hasException = b.hasException \/ throws]

FilledRight(b, throws, f) ==
    /\ f \in BufferT /\ f = Filled(b, throws)
    /\ f.sem = 1 /\ f.task = FALSE /\ f.content = Gathered(b)
    /\ f.partiallyFull = (LoopEnd(b) \in b.minY .. b.maxY \/ throws)
    /\ f.hasException = (b.hasException \/ throws)
    /\ f.minY = b.minY /\ f.maxY = b.maxY /\ f.lo = b.lo /\ f.hi = b.hi

\* What a task sets in its line buffer.
LEMMA FilledFields ==
    ASSUME NEW b \in BufferT, InWindow(b), NEW throws \in BOOLEAN
    PROVE  \E f : FilledRight(b, throws, f)
  <1> DEFINE part == LoopEnd(b) \in b.minY .. b.maxY \/ throws
             c == Gathered(b)
             f == [b EXCEPT !.content = c, !.task = FALSE, !.sem = 1, !.partiallyFull = part,
                            !.hasException = b.hasException \/ throws]
  <1>1. c \in [0 .. LinesInBuffer - 1 -> Line \cup {-1}] /\ part \in BOOLEAN
    BY GatheredLines
  <1>2. Filled(b, throws) = f
    BY DEF Filled
  <1> HIDE DEF part, c
  <1>3. /\ f \in BufferT
        /\ f.sem = 1 /\ f.task = FALSE /\ f.content = c
        /\ f.partiallyFull = part
        /\ f.hasException = (b.hasException \/ throws)
        /\ f.minY = b.minY /\ f.maxY = b.maxY /\ f.lo = b.lo /\ f.hi = b.hi
    BY <1>1 DEF BufferT
  <1> HIDE DEF f
  <1>4. QED
    BY <1>2, <1>3, Zenon DEF part, c, FilledRight

\* The end of a task changes its line buffer alone.
LEMMA ExecuteChanges ==
    ASSUME OutputTypeOK, NEW s, Execute(s)
    PROVE  /\ s \in Slot /\ buf[s].task /\ InWindow(buf[s]) /\ BuffersOK'
           /\ \E throws \in BOOLEAN :
                 /\ Changed(s, Filled(buf[s], throws))
                 /\ faults' = IF throws THEN faults \cup {"compress"} ELSE faults
           /\ UNCHANGED <<increasing, cur, missing, table, file, stored, pc, loop, outcome, calls>>
  <1>1. /\ s \in Slot /\ buf[s].task /\ InWindow(buf[s]) /\ BuffersOK
        /\ UNCHANGED <<increasing, cur, missing, table, file, stored, pc, loop, outcome, calls>>
    BY DEF Execute, OutputTypeOK, BuffersOK
  <1>2. PICK b \in BufferT : b = buf[s]
    BY <1>1 DEF BuffersOK
  <1>3. PICK throws \in BOOLEAN :
            /\ buf' = [buf EXCEPT ![s] = Filled(b, throws)]
            /\ faults' = IF throws THEN faults \cup {"compress"} ELSE faults
    BY <1>2 DEF Execute, Filled
  <1>4. InWindow(b)
    BY <1>1, <1>2
  <1>5. PICK f : FilledRight(b, throws, f)
    BY <1>2, <1>3, <1>4, FilledFields, Zenon
  <1>6. /\ buf' = [buf EXCEPT ![s] = f] /\ f = Filled(b, throws) /\ f \in BufferT
        /\ f.task = FALSE /\ f.maxY = b.maxY /\ f.minY = b.minY
    BY <1>3, <1>5 DEF FilledRight
  <1>7. f.maxY < f.minY + LinesInBuffer
    BY <1>1, <1>2, <1>6 DEF BuffersOK
  <1>8. BuffersOK' /\ Changed(s, f)
    BY <1>1, <1>6, <1>7, ChangeOne
  <1>9. QED
    BY <1>1, <1>2, <1>3, <1>6, <1>8

LEMMA ExecuteType == ASSUME OutputTypeOK, NEW s, Execute(s) PROVE OutputTypeOK'
  BY ExecuteChanges DEF OutputTypeOK, BuffersOK

\* A line buffer has all the lines that are written from it.
LEMMA ChunksTyped ==
    ASSUME OutputTypeOK
    PROVE  /\ \A s \in Slot : Chunk(buf[s]) \in ChunkT
           /\ Torn \in ChunkT
           /\ \A k \in Block : RightChunk(k) \in ChunkT
  <1>1. ASSUME NEW s \in Slot PROVE Chunk(buf[s]) \in ChunkT
    <2> DEFINE b == buf[s]
               m == b.maxY - b.minY
    <2>1. /\ b.minY \in Int /\ m \in Int /\ m < LinesInBuffer
          /\ b.content \in [0 .. LinesInBuffer - 1 -> Line \cup {-1}]
      <3>1. b \in BufferT /\ b.maxY < b.minY + LinesInBuffer
        BY DEF OutputTypeOK
      <3>2. b.minY \in Int /\ b.maxY \in Int
            /\ b.content \in [0 .. LinesInBuffer - 1 -> Line \cup {-1}]
        BY <3>1 DEF BufferT
      <3> HIDE DEF b
      <3>3. QED
        BY <3>1, <3>2, OutputAssumption
    <2> DEFINE lines == [i \in 0 .. m |-> b.content[i]]
    <2>2. lines \in [0 .. m -> Line \cup {-1}]
      <3> HIDE DEF m, b
      <3>1. \A i \in 0 .. m : b.content[i] \in Line \cup {-1}
        BY <2>1, OutputAssumption
      <3>2. QED
        BY <3>1
    <2>3. Chunk(b) = [minY |-> b.minY, lines |-> lines]
      BY DEF Chunk
    <2> HIDE DEF lines, b, m
    <2>4. lines \in UNION {[0 .. i -> Line \cup {-1}] : i \in Int}
      BY <2>1, <2>2
    <2>5. Chunk(b) \in ChunkT
      BY <2>1, <2>3, <2>4 DEF ChunkT
    <2>6. QED
      BY <2>5 DEF b
  <1>2. Torn \in ChunkT
    <2>1. <<>> \in [0 .. -1 -> Line \cup {-1}]
      OBVIOUS
    <2>2. <<>> \in UNION {[0 .. i -> Line \cup {-1}] : i \in Int}
      BY <2>1
    <2>3. QED
      BY <2>2 DEF Torn, ChunkT
  <1>3. ASSUME NEW k \in Block PROVE RightChunk(k) \in ChunkT
    <2> DEFINE m == LastLine(k) - FirstLine(k)
    <2>1. /\ FirstLine(k) \in Int /\ m \in Int
          /\ \A i \in 0 .. m : FirstLine(k) + i \in Line
      BY LinesOfBlocks, OutputAssumption DEF Line
    <2>2. LinesOf(k) = [i \in 0 .. m |-> FirstLine(k) + i]
      BY DEF LinesOf
    <2> HIDE DEF m
    <2>3. LinesOf(k) \in [0 .. m -> Line \cup {-1}]
      BY <2>1, <2>2
    <2>4. LinesOf(k) \in UNION {[0 .. i -> Line \cup {-1}] : i \in Int}
      BY <2>1, <2>3
    <2>5. QED
      BY <2>1, <2>4 DEF RightChunk, ChunkT
  <1>4. QED
    BY <1>1, <1>2, <1>3

\* The line buffer that the caller waits for is one of the file's.
LEMMA WriteSlot ==
    ASSUME OutputTypeOK
    PROVE  /\ SlotOf(loop.write) \in Slot /\ SlotOf(loop.compress) \in Slot
           /\ Next2Write \in BufferT /\ LinesTaken \in Int /\ Step * LinesTaken \in Int
           /\ Step \in {1, -1} /\ Len(file) \in Nat /\ BuffersOK
  <1>1. loop.write \in Int /\ loop.compress \in Int
    BY DEF OutputTypeOK, LoopT
  <1>2. SlotOf(loop.write) \in Slot /\ SlotOf(loop.compress) \in Slot /\ BuffersOK
    BY <1>1, Slots DEF OutputTypeOK, BuffersOK
  <1>3. Next2Write \in BufferT
    BY <1>2 DEF Next2Write, BuffersOK
  <1>4. LinesTaken \in Int
    BY <1>3 DEF LinesTaken, BufferT
  <1>5. Step \in {1, -1}
    BY DEF Step
  <1>6. Step * LinesTaken \in Int
    BY <1>4, <1>5
  <1>7. Len(file) \in Nat
    BY DEF OutputTypeOK
  <1>8. QED
    BY <1>2, <1>3, <1>4, <1>5, <1>6, <1>7

LEMMA WriteBlockType == ASSUME OutputTypeOK, WriteBlock PROVE OutputTypeOK'
  <1>1. BuffersOK' /\ Slot' = Slot
    BY WriteSlot, KeepAll DEF WriteBlock
  <1>2. file' \in Seq(ChunkT)
    <2>1. Chunk(Next2Write) \in ChunkT /\ file \in Seq(ChunkT)
      BY WriteSlot, ChunksTyped DEF OutputTypeOK, Next2Write
    <2>2. QED
      BY <2>1 DEF WriteBlock
  <1>3. missing' \in Int /\ cur' \in Int
    BY WriteSlot DEF WriteBlock, OutputTypeOK
  <1>4. table' \in [Block -> Nat]
    <2>1. Len(file) + 1 \in Nat
      BY WriteSlot
    <2>2. QED
      BY <2>1 DEF WriteBlock, OutputTypeOK
  <1>5. loop' \in LoopT
    <2>1. loop' = [loop EXCEPT !.write = loop.write + Step, !.left = 1]
      BY DEF WriteBlock
    <2>2. loop \in LoopT /\ loop.write + Step \in Int /\ 1 \in Int
      BY WriteSlot DEF OutputTypeOK, LoopT
    <2>3. QED
      BY <2>1, <2>2, LoopEdits, Zenon
  <1>6. pc' \in Stage
    BY DEF WriteBlock, Stage
  <1>7. UNCHANGED <<increasing, stored, outcome, faults, calls>>
    BY DEF WriteBlock
  <1>8. QED
    BY <1>1, <1>2, <1>3, <1>4, <1>5, <1>6, <1>7 DEF OutputTypeOK, BuffersOK

\* A failed write leaves its line buffer taken.
LEMMA WriteFailsType == ASSUME OutputTypeOK, WriteFails PROVE OutputTypeOK'
  <1> DEFINE s == SlotOf(loop.write)
             b == [buf[s] EXCEPT !.sem = 0]
  <1>1. BuffersOK'
    <2>1. s \in Slot /\ buf[s] \in BufferT /\ BuffersOK
      BY WriteSlot DEF Next2Write
    <2>2. /\ b \in BufferT /\ b.sem = 0 /\ b.minY = buf[s].minY /\ b.maxY = buf[s].maxY
      BY <2>1 DEF BufferT
    <2>3. buf' = [buf EXCEPT ![s] = b]
      BY DEF WriteFails
    <2> HIDE DEF s, b
    <2>4. QED
      BY <2>1, <2>2, <2>3, ChangeOne DEF BuffersOK
  <1>2. file' \in Seq(ChunkT)
    <2>1. Torn \in ChunkT /\ file \in Seq(ChunkT)
      BY ChunksTyped DEF OutputTypeOK
    <2>2. QED
      BY <2>1 DEF WriteFails
  <1>3. missing' \in Int
    BY WriteSlot DEF WriteFails, OutputTypeOK
  <1>4. table' \in [Block -> Nat]
    <2>1. Len(file) + 1 \in Nat
      BY WriteSlot
    <2>2. QED
      BY <2>1 DEF WriteFails, OutputTypeOK
  <1>5. /\ pc' = "unwinding" /\ outcome' = "failed" /\ faults' = faults \cup {"write"}
        /\ UNCHANGED <<increasing, cur, stored, loop, calls>>
    BY DEF WriteFails
  <1>6. QED
    BY <1>1, <1>2, <1>3, <1>4, <1>5 DEF OutputTypeOK, BuffersOK, Stage

LEMMA KeepPartialType == ASSUME OutputTypeOK, KeepPartial PROVE OutputTypeOK'
  <1>1. BuffersOK'
    BY WriteSlot, KeepAll DEF KeepPartial
  <1>2. missing' \in Int /\ cur' \in Int
    BY WriteSlot DEF KeepPartial, OutputTypeOK
  <1>3. QED
    BY <1>1, <1>2 DEF KeepPartial, OutputTypeOK, BuffersOK, Stage

\* Reporting the exceptions clears them and nothing else.
LEMMA ReportChanges ==
    ASSUME OutputTypeOK, Report
    PROVE  /\ BuffersOK' /\ Slot' = Slot
           /\ \A s \in Slot : buf'[s] = [buf[s] EXCEPT !.hasException = FALSE]
  <1>1. BuffersOK /\ buf' = [s \in Slot |-> [buf[s] EXCEPT !.hasException = FALSE]]
    BY DEF Report, OutputTypeOK, BuffersOK
  <1>2. Slot' = Slot
    BY <1>1 DEF Slot
  <1>3. ASSUME NEW s \in Slot
        PROVE  /\ buf'[s] \in BufferT /\ buf'[s].task = buf[s].task /\ buf'[s].sem = buf[s].sem
               /\ buf'[s].minY = buf[s].minY /\ buf'[s].maxY = buf[s].maxY
               /\ buf'[s] = [buf[s] EXCEPT !.hasException = FALSE]
    <2>1. buf[s] \in BufferT
      BY <1>1 DEF BuffersOK
    <2>2. QED
      BY <1>1, <2>1 DEF BufferT
  <1>4. buf' \in [Slot -> BufferT]
    BY <1>1, <1>3
  <1>5. QED
    BY <1>1, <1>2, <1>3, <1>4 DEF BuffersOK

LEMMA NoLoopTyped == NoLoop \in LoopT
  BY DEF NoLoop, LoopT

\* The remaining steps of a call, and the destructor.
LEMMA ReturnType ==
    ASSUME OutputTypeOK,
           TooManyLines \/ Unwind \/ Report \/ Close \/ (\E s : RunAway(s)) \/ UNCHANGED vars
    PROVE  OutputTypeOK'
  <1>1. BuffersOK'
    <2>1. CASE Report
      BY <2>1, ReportChanges
    <2>2. CASE ~Report
      <3>1. UNCHANGED buf
        BY <2>2 DEF TooManyLines, Unwind, Close, RunAway, vars
      <3>2. QED
        BY <3>1, KeepAll DEF OutputTypeOK, BuffersOK
    <2>3. QED
      BY <2>1, <2>2
  <1>2. CASE TooManyLines
    BY <1>1, <1>2 DEF TooManyLines, OutputTypeOK, BuffersOK, Stage
  <1>3. CASE Unwind
    BY <1>1, <1>3, NoLoopTyped DEF Unwind, OutputTypeOK, BuffersOK, Stage
  <1>4. CASE Report
    BY <1>1, <1>4, NoLoopTyped DEF Report, OutputTypeOK, BuffersOK, Stage
  <1>5. CASE Close
    BY <1>1, <1>5 DEF Close, OutputTypeOK, BuffersOK, Stage
  <1>6. CASE \E s : RunAway(s)
    BY <1>1, <1>6 DEF RunAway, OutputTypeOK, BuffersOK, Stage
  <1>7. CASE UNCHANGED vars
    BY <1>1, <1>7 DEF vars, OutputTypeOK, BuffersOK
  <1>8. QED
    BY <1>2, <1>3, <1>4, <1>5, <1>6, <1>7

\* What copyPixels appends to the file, and where the table then points.
Copied(k) == [i \in 1 .. k |-> ChunkAt(i)]

\* The copied chunks, by their places.
LEMMA CopiedTyped ==
    ASSUME OutputTypeOK, NEW k \in 0 .. NumBlocks
    PROVE  /\ Copied(k) \in Seq(ChunkT) /\ Len(Copied(k)) = k
           /\ \A i \in 1 .. k : Copied(k)[i] = ChunkAt(i) /\ InLineOrder(i) = Rank(i - 1)
           /\ \A i \in 1 .. NumBlocks : InLineOrder(i) \in Block
  <1>1. NumBlocks \in Nat /\ k \in Nat /\ Block = 0 .. NumBlocks - 1 /\ increasing \in BOOLEAN
    BY BlocksAre DEF OutputTypeOK
  <1>2. \A i \in 1 .. NumBlocks : InLineOrder(i) \in Block
    BY <1>1 DEF InLineOrder
  <1>3. \A i \in 1 .. k : ChunkAt(i) \in ChunkT
    BY <1>1, <1>2, ChunksTyped DEF ChunkAt
  <1>4. Copied(k) \in [1 .. k -> ChunkT]
    BY <1>3 DEF Copied
  <1>5. Copied(k) \in Seq(ChunkT) /\ Len(Copied(k)) = k
    BY <1>1, <1>4
  <1>6. \A i \in 1 .. k : Copied(k)[i] = ChunkAt(i) /\ InLineOrder(i) = Rank(i - 1)
    BY <1>1 DEF Copied, InLineOrder, Rank
  <1>7. QED
    BY <1>2, <1>5, <1>6

LEMMA CopyPixelsType ==
    ASSUME OutputTypeOK, NEW k \in 0 .. NumBlocks, NEW fault \in {"none", "read", "write"},
           CopyPixels(k, fault)
    PROVE  OutputTypeOK'
  <1>1. file' \in {file \o Copied(k), Append(file \o Copied(k), Torn)}
    BY DEF CopyPixels, Copied, ChunkAt, RightChunk
  <1>2. file' \in Seq(ChunkT)
    <2>1. file \o Copied(k) \in Seq(ChunkT)
      BY CopiedTyped DEF OutputTypeOK
    <2>2. Torn \in ChunkT
      BY ChunksTyped
    <2>3. \A f \in Seq(ChunkT) : Append(f, Torn) \in Seq(ChunkT)
      BY <2>2
    <2>4. QED
      BY <1>1, <2>1, <2>3
  <1>3. table' \in [Block -> Nat]
    <2>1. \A b \in Block : Len(file) + (IF increasing THEN b + 1 ELSE NumBlocks - b) \in Nat
      BY WriteSlot, BlocksAre
    <2>2. \E S : table' = [b \in Block |->
                    IF b \in S THEN Len(file) + (IF increasing THEN b + 1 ELSE NumBlocks - b)
                    ELSE table[b]]
      BY DEF CopyPixels
    <2>3. \A b \in Block : table[b] \in Nat
      BY DEF OutputTypeOK
    <2>4. QED
      BY <2>1, <2>2, <2>3
  <1>4. cur' \in Int /\ missing' \in Int
    <2>1. k \in Int /\ LinesInBuffer \in Int /\ k * LinesInBuffer \in Int
      BY BlocksAre, OutputAssumption
    <2>2. Step * k * LinesInBuffer \in Int
      BY <2>1, WriteSlot
    <2>3. QED
      BY <2>1, <2>2 DEF CopyPixels, OutputTypeOK
  <1>5. BuffersOK'
    BY KeepAll DEF CopyPixels, OutputTypeOK, BuffersOK
  <1>6. calls' \in 0 .. MaxCalls
    BY OutputAssumption DEF CopyPixels, OutputTypeOK
  <1>7. /\ faults' = faults \cup ({fault} \ {"none"})
        /\ outcome' = IF fault = "none" THEN "ok" ELSE "failed"
        /\ UNCHANGED <<increasing, buf, stored, pc, loop>>
    BY DEF CopyPixels
  <1>8. QED
    BY <1>2, <1>3, <1>4, <1>5, <1>6, <1>7 DEF OutputTypeOK, BuffersOK

\* Every step keeps the types.
LEMMA TypeKept == OutputTypeOK /\ [Next]_vars => OutputTypeOK'
  <1> SUFFICES ASSUME OutputTypeOK, [Next]_vars PROVE OutputTypeOK'
    OBVIOUS
  <1>1. ASSUME NEW n \in 0 .. Height + 2 * LinesInBuffer, WritePixels(n) PROVE OutputTypeOK'
    BY <1>1, WritePixelsType, OutputAssumption
  <1>2. CASE \/ TooManyLines \/ Unwind \/ Report \/ Close \/ Hung \/ Over \/ UNCHANGED vars
             \/ \E s \in Slot : RunAway(s)
    BY <1>2, ReturnType DEF Hung, Over
  <1>3. CASE AddTask \/ KeepPartial \/ WriteBlock \/ WriteFails
    BY <1>3, AddTaskType, KeepPartialType, WriteBlockType, WriteFailsType
  <1>4. CASE \E s \in Slot : Execute(s)
    BY <1>4, ExecuteType
  <1>5. CASE \E k \in 0 .. NumBlocks, fault \in {"none", "read", "write"} : CopyPixels(k, fault)
    BY <1>5, CopyPixelsType
  <1>6. QED
    BY <1>1, <1>2, <1>3, <1>4, <1>5 DEF Next, Writer

-----------------------------------------------------------------------------
(* While nothing fails.                                                     *)

\* The line buffers of consecutive blocks in hand are distinct, in either line order,
\* unless one is above the data window.
LEMMA Places ==
    ASSUME OutputTypeOK
    PROVE  /\ N \in Nat \ {0}
           /\ \A r \in Int : Home(r) \in Slot /\ Rank(r) \in Int /\ Rank(Rank(r)) = r
           /\ \A q, r \in Int : q < r /\ r < q + N /\ Rank(q) >= 0 /\ Rank(r) >= 0
                  => Home(q) # Home(r)
  <1>1. increasing \in BOOLEAN /\ NumBlocks \in Int /\ \E n \in Buffers : Slot = 0 .. n - 1
    BY BlocksAre DEF OutputTypeOK
  <1>2. \A r \in Int : Rank(r) \in Int /\ Rank(Rank(r)) = r
    BY <1>1 DEF Rank
  <1>3. \A r \in Int : Home(r) \in Slot
    BY <1>1, <1>2, Slots DEF Home
  <1>4. ASSUME NEW q \in Int, NEW r \in Int, q < r, r < q + N, Rank(q) >= 0, Rank(r) >= 0
        PROVE  Home(q) # Home(r)
    <2>1. /\ N \in Nat \ {0} /\ Rank(q) \in Nat /\ Rank(r) \in Nat
          /\ IF increasing THEN Rank(q) < Rank(r) /\ Rank(r) < Rank(q) + N
             ELSE Rank(r) < Rank(q) /\ Rank(q) < Rank(r) + N
      <3>1. N \in Nat \ {0}
        BY <1>1, Slots
      <3>2. Rank(q) \in Nat /\ Rank(r) \in Nat
        BY <1>2, <1>4
      <3>3. QED
        BY <1>1, <1>4, <3>1, <3>2 DEF Rank
    <2>2. QED
      BY <1>1, <2>1, Slots DEF Home
  <1>5. N \in Nat \ {0}
    BY <1>1, Slots
  <1>6. QED
    BY <1>2, <1>3, <1>4, <1>5

\* What is said of values stays when the line order and the buffers' number do.
LEMMA Carried ==
    ASSUME Frame
    PROVE  /\ \A b, r, p : GathersAt(b, r, p)' <=> GathersAt(b, r, p)
           /\ \A b, r : CoversAt(b, r)' <=> CoversAt(b, r)
           /\ \A b, d, p : WaitsAt(b, d, p)' <=> WaitsAt(b, d, p)
           /\ \A l : /\ FromOf(l)' = FromOf(l) /\ ToOf(l)' = ToOf(l)
                     /\ GivenOf(l)' = GivenOf(l) /\ StopOf(l)' = StopOf(l)
  <1>1. \A b, r, p : GathersAt(b, r, p)' <=> GathersAt(b, r, p)
    BY FrameKeeps DEF GathersAt
  <1>2. \A b, r : CoversAt(b, r)' <=> CoversAt(b, r)
    BY FrameKeeps DEF CoversAt
  <1>3. \A b, d, p : WaitsAt(b, d, p)' <=> WaitsAt(b, d, p)
    BY FrameKeeps, <1>1, <1>2 DEF WaitsAt
  <1>4. \A l : /\ FromOf(l)' = FromOf(l) /\ ToOf(l)' = ToOf(l)
               /\ GivenOf(l)' = GivenOf(l) /\ StopOf(l)' = StopOf(l)
    BY DEF Frame, FromOf, ToOf, GivenOf, StopOf, Rank
  <1>5. QED
    BY <1>1, <1>2, <1>3, <1>4

\* So does everything that is said of values.
LEMMA SoundCarried ==
    ASSUME Frame, NEW bf, NEW d, NEW p, NEW m, NEW l, NEW at, SoundAt(bf, d, p, m, l, at)
    PROVE  SoundAt(bf, d, p, m, l, at)'
  <1>1. RestAt(bf, d, p) => RestAt(bf, d, p)'
    BY Carried, FrameKeeps DEF RestAt, Frame
  <1>2. LoopAt(d, p, l, at) => LoopAt(d, p, l, at)'
    <2>1. /\ N' = N /\ Rank(l.write)' = Rank(l.write) /\ Begin(d)' = Begin(d)
          /\ \A r : Begin(r)' = Begin(r) /\ End(r)' = End(r)
          /\ FromOf(l)' = FromOf(l) /\ ToOf(l)' = ToOf(l)
          /\ GivenOf(l)' = GivenOf(l) /\ StopOf(l)' = StopOf(l)
      BY FrameKeeps, Carried
    <2>2. increasing' = increasing /\ \A r : First(r)' = First(r)
      BY FrameKeeps DEF Frame
    <2>3. NumBlocks' = NumBlocks /\ Block' = Block
      BY DEF NumBlocks, Block
    <2>4. QED
      BY <2>1, <2>2, <2>3 DEF LoopAt, Greatest
  <1>3. \A b, r : HandAt(b, r, l)' <=> HandAt(b, r, l)
    <2> TAKE b, r
    <2>1. /\ CoversAt(b, r)' <=> CoversAt(b, r)
          /\ FromOf(l)' = FromOf(l) /\ ToOf(l)' = ToOf(l) /\ End(r)' = End(r)
          /\ First(r)' = First(r) /\ Last(r)' = Last(r)
          /\ \A y : Before(y)' = Before(y)
      BY FrameKeeps, Carried
    <2>2. QED
      BY <2>1 DEF HandAt, GathersAt
  <1>4. \A b, s : SpareAt(b, s, d, l)' <=> SpareAt(b, s, d, l)
    BY Carried, FrameKeeps DEF SpareAt
  <1>5. \A b : WaitsAt(b, d, FromOf(l)) => WaitsAt(b, d, FromOf(l))'
    <2> TAKE b
    <2>1. /\ CoversAt(b, d)' <=> CoversAt(b, d)
          /\ FromOf(l)' = FromOf(l) /\ Begin(d)' = Begin(d)
          /\ First(d)' = First(d) /\ Last(d)' = Last(d)
          /\ \A y : Before(y)' = Before(y)
      BY FrameKeeps, Carried
    <2>2. QED
      BY <2>1 DEF WaitsAt, GathersAt
  <1>6. WorkAt(bf, d, p, l, at) => WorkAt(bf, d, p, l, at)'
    <2>1. /\ GivenOf(l)' = GivenOf(l) /\ Slot' = Slot
          /\ \A r : Home(r)' = Home(r)
      BY Carried, FrameKeeps DEF Frame
    <2>2. QED
      BY <1>2, <1>3, <1>4, <1>5, <2>1 DEF WorkAt
  <1>7. CursorAt(d, p, m) => CursorAt(d, p, m)'
    BY FrameKeeps DEF CursorAt
  <1>8. \A b : OwnedAt(b)' <=> OwnedAt(b)
    BY DEF OwnedAt
  <1>9. Slot' = Slot
    BY DEF Frame
  <1>10. QED
    BY <1>1, <1>6, <1>7, <1>8, <1>9 DEF SoundAt

\* What the next state must show.
LEMMA SoundNext ==
    ASSUME Frame, FileExact', NEW bf, NEW d, NEW p, NEW m, NEW l, NEW at,
           bf = buf', d = Len(file'), p = IF increasing THEN cur' ELSE Height - 1 - cur',
           m = missing', l = loop', at = pc', SoundAt(bf, d, p, m, l, at)
    PROVE  OutputSound'
  <1>1. SoundAt(bf, d, p, m, l, at)'
    BY SoundCarried
  <1>2. d = Done' /\ p = Before(cur)' /\ UNCHANGED increasing
    BY DEF Done, Before, Frame
  <1>3. QED
    BY <1>1, <1>2 DEF OutputSound

\* The chunks in the file and the table are not touched.
LEMMA FileKept ==
    ASSUME Frame, FileExact, UNCHANGED <<file, table>>
    PROVE  FileExact' /\ Done' = Done
  <1>1. Done' = Done
    BY DEF Done
  <1>2. QED
    BY <1>1, FrameKeeps DEF FileExact

\* The lines of the block at a place, and where they are kept.
LEMMA Lines ==
    ASSUME OutputTypeOK, NEW r \in Block
    PROVE  /\ r \in Int /\ First(r) \in Int /\ Last(r) \in Int /\ Rank(r) \in Block
           /\ 0 <= First(r) /\ First(r) <= Last(r) /\ Last(r) < First(r) + LinesInBuffer
           /\ Begin(r) \in Int /\ End(r) \in Int
           /\ Begin(r) = (IF increasing THEN First(r) ELSE Height - 1 - Last(r))
           /\ End(r) = (IF increasing THEN Last(r) ELSE Height - 1 - First(r))
           /\ 0 <= Begin(r) /\ Begin(r) <= End(r) /\ End(r) < Height
           /\ \A y \in First(r) .. Last(r) :
                  /\ y \in Int /\ Before(y) \in Int /\ y \in Line
                  /\ Begin(r) <= Before(y) /\ Before(y) <= End(r)
                  /\ y % LinesInBuffer = y - First(r)
                  /\ y % LinesInBuffer \in 0 .. LinesInBuffer - 1
  <1>1. increasing \in BOOLEAN
    BY DEF OutputTypeOK
  <1>2. Rank(r) \in Block /\ r \in Int
    BY <1>1, Ranks, BlocksAre
  <1>3. /\ First(r) \in Int /\ Last(r) \in Int
        /\ 0 <= First(r) /\ First(r) <= Last(r) /\ Last(r) < First(r) + LinesInBuffer
    BY <1>2, LinesOfBlocks DEF First, Last
  <1>4. /\ Begin(r) = (IF increasing THEN First(r) ELSE Height - 1 - Last(r))
        /\ End(r) = (IF increasing THEN Last(r) ELSE Height - 1 - First(r))
    BY DEF Begin, End, First, Last, Rank
  <1>5. /\ Begin(r) \in Int /\ End(r) \in Int
        /\ 0 <= Begin(r) /\ Begin(r) <= End(r) /\ End(r) < Height
    BY <1>1, Ranks
  <1>6. ASSUME NEW y \in First(r) .. Last(r)
        PROVE  /\ y \in Int /\ Before(y) \in Int /\ y \in Line
               /\ Begin(r) <= Before(y) /\ Before(y) <= End(r)
               /\ y % LinesInBuffer = y - First(r)
               /\ y % LinesInBuffer \in 0 .. LinesInBuffer - 1
    <2>1. y \in Int
      BY <1>3, <1>6
    <2>2. y \in FirstLine(Rank(r)) .. LastLine(Rank(r))
      BY <1>6 DEF First, Last
    <2>3. Begin(r) <= Before(y) /\ Before(y) <= End(r) /\ Before(y) \in Int
      BY <1>1, <2>1, <2>2, LinesByRank
    <2>4. /\ y % LinesInBuffer = y - First(r) /\ y \in Line
          /\ y % LinesInBuffer \in 0 .. LinesInBuffer - 1
      BY <1>1, <2>1, <2>3, LinesByRank DEF First
    <2>5. QED
      BY <2>1, <2>3, <2>4
  <1>7. QED
    BY <1>2, <1>3, <1>4, <1>5, <1>6

\* The values that a healthy state has.
Now(bf, d, p, m, l, at) ==
    /\ bf = buf /\ d = Done /\ p = Before(cur) /\ m = missing /\ l = loop /\ at = pc
    /\ bf \in [Slot -> BufferT] /\ d \in 0 .. NumBlocks /\ (d < NumBlocks <=> d \in Block)
    /\ p \in Int /\ m \in Int /\ l \in LoopT /\ at \in Stage
    /\ SoundAt(bf, d, p, m, l, at)

\* A healthy state has such values.
LEMMA NowIs ==
    ASSUME OutputTypeOK, OutputSound
    PROVE  \E bf, d, p, m, l, at : Now(bf, d, p, m, l, at)
  <1>1. PICK bf, d, p, m, l, at :
            /\ bf = buf /\ d = Done /\ p = Before(cur) /\ m = missing /\ l = loop /\ at = pc
            /\ SoundAt(bf, d, p, m, l, at)
    BY DEF OutputSound
  <1>2. d \in 0 .. NumBlocks /\ (d < NumBlocks <=> d \in Block)
    <2>1. Len(file) \in Nat
      BY DEF OutputTypeOK
    <2>2. d \in Nat /\ d <= NumBlocks /\ NumBlocks \in Nat /\ Block = 0 .. NumBlocks - 1
      BY <1>1, <2>1, BlocksAre DEF OutputSound, FileExact, Done
    <2>3. QED
      BY <2>2
  <1>3. p \in Int
    BY <1>1, OutputAssumption DEF Before, OutputTypeOK
  <1>4. bf \in [Slot -> BufferT] /\ m \in Int /\ l \in LoopT /\ at \in Stage
    BY <1>1 DEF OutputTypeOK
  <1>5. QED
    BY <1>1, <1>2, <1>3, <1>4 DEF Now

\* Calls that differ only in how far they are.
SameLines(l, nl) == nl.lo = l.lo /\ nl.hi = l.hi /\ nl.stop = l.stop

\* Such calls gather the same lines.
LEMMA LinesStay ==
    ASSUME NEW l, NEW nl, SameLines(l, nl)
    PROVE  /\ FromOf(nl) = FromOf(l) /\ ToOf(nl) = ToOf(l) /\ StopOf(nl) = StopOf(l)
           /\ \A b, r : HandAt(b, r, nl) <=> HandAt(b, r, l)
  <1>1. FromOf(nl) = FromOf(l) /\ ToOf(nl) = ToOf(l) /\ StopOf(nl) = StopOf(l)
    BY DEF SameLines, FromOf, ToOf, StopOf
  <1>2. \A b, r : HandAt(b, r, nl) <=> HandAt(b, r, l)
    BY <1>1 DEF HandAt, SameLines
  <1>3. QED
    BY <1>1, <1>2

\* The locals of a call as places, and what one more block makes of them.
LEMMA LoopTyped ==
    ASSUME OutputTypeOK, NEW l \in LoopT
    PROVE  /\ FromOf(l) \in Int /\ ToOf(l) \in Int /\ GivenOf(l) \in Int /\ StopOf(l) \in Int
           /\ l.left \in Int /\ l.lo \in Int /\ l.hi \in Int /\ l.compress \in Int
           /\ l.write \in Int /\ l.stop \in Int
           /\ Rank(l.write + Step) = Rank(l.write) + 1
           /\ Rank(l.compress + Step) = GivenOf(l) + 1
  <1>1. /\ l.left \in Int /\ l.lo \in Int /\ l.hi \in Int /\ l.compress \in Int
        /\ l.write \in Int /\ l.stop \in Int /\ NumBlocks \in Int /\ Height \in Int
        /\ increasing \in BOOLEAN
    BY BlocksAre, OutputAssumption DEF LoopT, OutputTypeOK
  <1>2. /\ FromOf(l) \in Int /\ ToOf(l) \in Int /\ GivenOf(l) \in Int /\ StopOf(l) \in Int
    BY <1>1 DEF FromOf, ToOf, GivenOf, StopOf, Rank
  <1>3. /\ Rank(l.write + Step) = Rank(l.write) + 1
        /\ Rank(l.compress + Step) = GivenOf(l) + 1
    BY <1>1 DEF Rank, GivenOf, Step
  <1>4. QED
    BY <1>1, <1>2, <1>3

\* Another buffer is not that of a block in hand, unless a block is above the data window.
LEMMA OtherHomes ==
    ASSUME OutputTypeOK, NEW d \in Int, NEW g \in Int, NEW r \in d .. g - 1, g < d + N,
           Rank(r) >= 0, Rank(g) >= 0
    PROVE  Home(r) # Home(g)
  <1>1. r \in Int /\ r < g /\ g < r + N
    BY Places
  <1>2. QED
    BY <1>1, Places

\* A block that has a number below zero is above the data window.
LEMMA RanksAbove ==
    ASSUME OutputTypeOK, NEW r \in Int, 0 <= r
    PROVE  /\ r < NumBlocks => r \in Block /\ Rank(r) >= 0
           /\ Rank(r) < 0 => ~increasing /\ NumBlocks <= r
  <1>1. NumBlocks \in Int /\ Block = 0 .. NumBlocks - 1 /\ increasing \in BOOLEAN
    BY BlocksAre DEF OutputTypeOK
  <1>2. QED
    BY <1>1 DEF Rank

\* The lines of a block above the data window.
LEMMA LinesAbove ==
    ASSUME NEW k \in Int, k < 0
    PROVE  /\ FirstLine(k) \in Int /\ LastLine(k) \in Int
           /\ FirstLine(k) <= LastLine(k) /\ LastLine(k) < 0
  <1>1. FirstLine(k) \in Int /\ FirstLine(k) + LinesInBuffer <= 0
    BY FirstLines
  <1>2. LastLine(k) = FirstLine(k) + LinesInBuffer - 1
    BY <1>1, OutputAssumption DEF LastLine, Least
  <1>3. QED
    BY <1>1, <1>2, OutputAssumption

\* The task for a block above the data window runs away, whatever it was given.
LEMMA TaskAstray ==
    ASSUME OutputTypeOK, NEW l \in LoopT, NEW b \in BufferT, ~b.partiallyFull,
           NEW k \in Int, k = l.compress, k < 0, l.lo <= FirstLine(k), 0 <= l.hi
    PROVE  AstrayAt(Prepared(b, k, l.lo, l.hi))
  <1> DEFINE t == Prepared(b, k, l.lo, l.hi)
  <1>1. l.lo \in Int /\ l.hi \in Int
    BY LoopTyped
  <1>2. /\ t.task /\ t.minY = FirstLine(k) /\ t.maxY = LastLine(k)
        /\ t.lo = Greatest(t.minY, l.lo) /\ t.hi = Least(t.maxY, l.hi)
    BY <1>1, PreparedFields
  <1> HIDE DEF t
  <1>3. t.lo = FirstLine(k) /\ t.hi = LastLine(k)
    BY <1>1, <1>2, LinesAbove DEF Greatest, Least
  <1>4. FirstLine(k) \in t.lo .. t.hi /\ FirstLine(k) \notin Line
    BY <1>3, LinesAbove, OutputAssumption DEF Line
  <1>5. ~InWindow(t)
    BY <1>4 DEF InWindow
  <1>6. QED
    BY <1>2, <1>5 DEF AstrayAt, t

\* The task for the next block gets a buffer that is fit for it.
LEMMA TaskFits ==
    ASSUME OutputTypeOK, NEW d \in Block, NEW p \in Int, NEW l \in LoopT, NEW b \in BufferT,
           p = Greatest(FromOf(l), Begin(d)), p <= End(d),
           GivenOf(l) \in Block, d <= GivenOf(l),
           b.partiallyFull => GivenOf(l) = d,
           GivenOf(l) = d => WaitsAt(b, d, FromOf(l))
    PROVE  HandAt(Prepared(b, l.compress, l.lo, l.hi), GivenOf(l), l)
  <1> DEFINE g == GivenOf(l)
             t == Prepared(b, l.compress, l.lo, l.hi)
  <1>1. /\ t.task /\ t.partiallyFull /\ t.content = b.content
        /\ t.minY = (IF b.partiallyFull THEN b.minY ELSE FirstLine(l.compress))
        /\ t.maxY = (IF b.partiallyFull THEN b.maxY ELSE LastLine(l.compress))
        /\ t.lo = Greatest(t.minY, l.lo) /\ t.hi = Least(t.maxY, l.hi)
    BY LoopTyped, PreparedFields
  <1>2. First(g) = FirstLine(l.compress) /\ Last(g) = LastLine(l.compress)
    BY LoopTyped, Places DEF First, Last, GivenOf
  <1>3. CoversAt(t, g)
    BY <1>1, <1>2 DEF CoversAt, WaitsAt
  <1>4. GathersAt(t, g, FromOf(l))
    <2> SUFFICES ASSUME NEW y \in First(g) .. Last(g), Before(y) < FromOf(l)
                 PROVE  b.content[y % LinesInBuffer] = y
      BY <1>1 DEF GathersAt
    <2>1. Begin(g) <= Before(y) /\ Before(y) \in Int /\ Begin(g) \in Int
      BY Lines
    <2>2. CASE g = d
      <3>1. Begin(d) < FromOf(l)
        BY <2>1, <2>2, LoopTyped
      <3>2. QED
        BY <2>2, <3>1 DEF WaitsAt, GathersAt
    <2>3. CASE g # d
      <3>1. End(d) < Begin(g) /\ End(d) \in Int /\ Begin(d) \in Int
        <4>1. increasing \in BOOLEAN /\ d < g
          BY <2>3, LoopTyped, BlocksAre DEF OutputTypeOK
        <4>2. End(d) < Begin(g)
          BY <4>1, RanksInOrder
        <4>3. QED
          BY <4>2, Lines
      <3>2. FromOf(l) <= p
        BY <3>1, LoopTyped DEF Greatest
      <3>3. QED
        BY <2>1, <3>1, <3>2, LoopTyped
    <2>4. QED
      BY <2>2, <2>3
  <1>5. QED
    BY <1>1, <1>3, <1>4 DEF HandAt

\* A task for the next block joins those in hand.
LEMMA AddTaskWork ==
    ASSUME OutputTypeOK, NEW d \in Block, NEW p \in Int, NEW l \in LoopT, NEW nl \in LoopT,
           NEW bf \in [Slot -> BufferT], NEW nf, WorkAt(bf, d, p, l, "adding"), p <= End(d),
           NEW s \in Slot, s = Home(GivenOf(l)), ~bf[s].task,
           nf[s] = Prepared(bf[s], l.compress, l.lo, l.hi),
           \A o \in Slot \ {s} : nf[o] = bf[o],
           SameLines(l, nl), nl.write = l.write, nl.compress = l.compress + Step,
           nl.left = l.left - 1,
           NEW at, at = IF l.left = 1 THEN "writing" ELSE "adding"
    PROVE  WorkAt(nf, d, p, nl, at)
  <1> DEFINE g == GivenOf(l)
  <1>1. /\ g \in Int /\ l.left \in Int /\ GivenOf(nl) = g + 1 /\ d \in Int /\ StopOf(l) \in Int
        /\ FromOf(nl) = FromOf(l) /\ ToOf(nl) = ToOf(l) /\ StopOf(nl) = StopOf(l)
        /\ N \in Nat \ {0}
    BY LoopTyped, LinesStay, BlocksAre, Places DEF GivenOf
  <1>2. /\ LoopAt(d, p, l, "adding")
        /\ g >= d /\ l.left >= 1 /\ g + l.left <= d + N
        /\ g + l.left <= Greatest(StopOf(l), d + 1) /\ p = Greatest(FromOf(l), Begin(d))
    BY DEF WorkAt, LoopAt
  <1> HIDE DEF g
  <1>3. LoopAt(d, p, nl, at)
    <2>1. at = "adding" => /\ g + 1 >= d /\ nl.left >= 1 /\ g + 1 + nl.left <= d + N
                           /\ g + 1 + nl.left <= Greatest(StopOf(l), d + 1)
      <3>1. l.left # 1 => nl.left >= 1 /\ g + 1 + nl.left = g + l.left
        BY <1>1, <1>2
      <3>2. QED
        BY <1>1, <1>2, <3>1
    <2>2. at = "writing" => g + 1 >= d + 1 /\ g + 1 <= d + N /\ g + 1 <= Greatest(StopOf(l), d + 1)
      <3>1. at = "writing" => l.left = 1
        OBVIOUS
      <3>2. QED
        BY <1>1, <1>2, <3>1
    <2>3. nl.lo = l.lo
      BY DEF SameLines
    <2>4. QED
      BY <1>1, <1>2, <2>1, <2>2, <2>3 DEF LoopAt
  <1>4. ASSUME NEW r \in d .. g - 1, Rank(r) >= 0, Rank(g) >= 0 PROVE s # Home(r)
    BY <1>1, <1>2, <1>4, OtherHomes DEF g
  <1>5. g \in Block => HandAt(nf[s], g, nl)
    <2> SUFFICES ASSUME g \in Block PROVE HandAt(nf[s], g, nl)
      OBVIOUS
    <2>1. SpareAt(bf[s], s, d, l)
      <3>1. Rank(g) >= 0 /\ \A r \in d .. g - 1 : Rank(r) >= 0
        BY <1>1, <1>2, BlocksAre, RanksAbove
      <3>2. QED
        BY <1>4, <3>1 DEF WorkAt, g
    <2>2. bf[s].partiallyFull => g = d
      BY <2>1 DEF SpareAt, g
    <2>3. g = d => WaitsAt(bf[s], d, FromOf(l))
      BY DEF WorkAt, g
    <2>4. HandAt(nf[s], g, l)
      BY <1>2, <2>2, <2>3, TaskFits DEF g
    <2>5. QED
      BY <2>4, LinesStay
  <1>6. ASSUME NEW o \in Slot, NEW r \in Block, d <= r, r < g + 1, o = Home(r)
        PROVE  AstrayAt(nf[o]) \/ HandAt(nf[o], r, nl)
    <2>1. CASE r = g
      BY <1>5, <1>6, <2>1 DEF g
    <2>2. CASE r # g
      <3>1. r \in d .. g - 1 /\ r < g /\ r \in Int /\ 0 <= r /\ r < NumBlocks
        BY <1>1, <1>6, <2>2, BlocksAre
      <3>2. AstrayAt(bf[o]) \/ HandAt(bf[o], r, l)
        BY <1>6, <3>1 DEF WorkAt, g
      <3>3. CASE o # s
        BY <3>2, <3>3, LinesStay
      <3>4. CASE o = s
        <4>1. Rank(g) < 0 /\ ~increasing /\ NumBlocks <= g
          <5>1. ~(Rank(g) >= 0)
            BY <1>4, <1>6, <3>1, <3>4, RanksAbove
          <5>2. Rank(g) \in Int /\ 0 <= g
            BY <1>1, <1>6, <3>1, Places
          <5>3. QED
            BY <1>1, <5>1, <5>2, RanksAbove
        <4>2. g < StopOf(l)
          BY <1>1, <1>2, <1>6, <3>1, <4>1, BlocksAre DEF Greatest
        <4>3. l.lo <= First(g)
          BY <1>1, <1>2, <4>1, <4>2, BlocksAre DEF LoopAt
        <4>4. l.compress \in Int /\ l.compress = Rank(g) /\ First(g) = FirstLine(l.compress)
          BY LoopTyped, Places DEF First, g, GivenOf
        <4>5. 0 <= l.hi /\ End(r) < ToOf(l) /\ ToOf(l) \in Int /\ End(r) \in Int
          <5>1. FromOf(l) = Height - 1 - l.hi /\ ToOf(l) = Height - 1 - l.lo
            BY <4>1 DEF FromOf, ToOf
          <5>2. /\ Begin(d) \in Int /\ End(d) < Height /\ End(d) \in Int /\ Height \in Int
                /\ End(r) < Height /\ End(r) \in Int
            BY Lines, OutputAssumption
          <5>3. l.lo \in Int /\ l.hi \in Int
            BY LoopTyped
          <5>4. FirstLine(l.compress) < 0 /\ FirstLine(l.compress) \in Int
            BY <4>1, <4>4, LinesAbove
          <5>5. FromOf(l) <= p
            BY <1>2, <5>1, <5>2, <5>3 DEF Greatest
          <5>6. QED
            BY <4>3, <4>4, <5>1, <5>2, <5>3, <5>4, <5>5
        <4>6. ~bf[s].partiallyFull
          BY <3>2, <3>4, <4>5 DEF HandAt, AstrayAt
        <4>7. AstrayAt(nf[s])
          BY <4>1, <4>3, <4>4, <4>5, <4>6, TaskAstray
        <4>8. QED
          BY <3>4, <4>7
      <3>5. QED
        BY <3>3, <3>4
    <2>3. QED
      BY <2>1, <2>2
  <1>7. ASSUME NEW o \in Slot, \A r \in d .. g : o # Home(r)
        PROVE  SpareAt(nf[o], o, d, nl)
    <2>1. o # s /\ \A r \in d .. g - 1 : o # Home(r)
      BY <1>1, <1>2, <1>7 DEF g
    <2>2. SpareAt(bf[o], o, d, l)
      BY <2>1 DEF WorkAt, g
    <2>3. ~bf[o].partiallyFull
      BY <2>1, <2>2 DEF SpareAt, g
    <2>4. QED
      BY <2>1, <2>2, <2>3 DEF SpareAt
  <1>8. GivenOf(nl) - 1 = g /\ GivenOf(nl) # d
    BY <1>1, <1>2
  <1>9. QED
    BY <1>1, <1>3, <1>6, <1>7, <1>8 DEF WorkAt

\* A task that ends has put its lines where they belong, and says whether there
\* are more to come.
LEMMA TaskEnds ==
    ASSUME OutputTypeOK, NEW r \in Block, NEW l \in LoopT, NEW b \in BufferT, b.task,
           HandAt(b, r, l), InWindow(b), NEW nb, FilledRight(b, FALSE, nb)
    PROVE  HandAt(nb, r, l)
  <1>1. /\ nb \in BufferT /\ nb.task = FALSE /\ nb.content = Gathered(b)
        /\ nb.partiallyFull <=> LoopEnd(b) \in b.minY .. b.maxY
        /\ nb.minY = b.minY /\ nb.maxY = b.maxY /\ nb.lo = b.lo /\ nb.hi = b.hi
    <2>1. nb.partiallyFull = (LoopEnd(b) \in b.minY .. b.maxY \/ FALSE)
      BY Zenon DEF FilledRight
    <2>2. nb.partiallyFull <=> LoopEnd(b) \in b.minY .. b.maxY
      BY <2>1, Zenon
    <2>3. /\ nb \in BufferT /\ nb.task = FALSE /\ nb.content = Gathered(b)
          /\ nb.minY = b.minY /\ nb.maxY = b.maxY /\ nb.lo = b.lo /\ nb.hi = b.hi
      BY Zenon DEF FilledRight
    <2>4. QED
      BY <2>2, <2>3
  <1>2. /\ b.minY = First(r) /\ b.maxY = Last(r) /\ GathersAt(b, r, FromOf(l))
        /\ b.lo = Greatest(First(r), l.lo) /\ b.hi = Least(Last(r), l.hi)
    BY DEF HandAt, CoversAt
  <1>3. /\ l.lo \in Int /\ l.hi \in Int /\ First(r) \in Int /\ Last(r) \in Int
        /\ First(r) <= Last(r) /\ Height \in Int
    BY LoopTyped, Lines, OutputAssumption
  <1>4. /\ b.lo \in Int /\ b.hi \in Int /\ First(r) <= b.lo /\ b.hi <= Last(r)
        /\ b.lo <= b.hi + 1
    BY <1>2, <1>3 DEF Greatest, Least, InWindow
  <1>5. GathersAt(nb, r, ToOf(l) + 1)
    <2> SUFFICES ASSUME NEW y \in First(r) .. Last(r), Before(y) < ToOf(l) + 1
                 PROVE  Gathered(b)[y % LinesInBuffer] = y
      BY <1>1 DEF GathersAt
    <2>1. /\ y \in Int /\ y % LinesInBuffer = y - First(r)
          /\ y % LinesInBuffer \in 0 .. LinesInBuffer - 1
      BY Lines
    <2>2. \A z \in b.lo .. b.hi : z % LinesInBuffer = y % LinesInBuffer => z = y
      <3> SUFFICES ASSUME NEW z \in b.lo .. b.hi, z % LinesInBuffer = y % LinesInBuffer
                   PROVE  z = y
        OBVIOUS
      <3>1. z \in First(r) .. Last(r)
        BY <1>3, <1>4
      <3>2. z \in Int /\ z % LinesInBuffer = z - First(r)
        BY <3>1, Lines
      <3>3. QED
        BY <1>3, <2>1, <3>2
    <2> DEFINE i == y % LinesInBuffer
    <2> HIDE DEF i
    <2>3. i \in 0 .. LinesInBuffer - 1 /\ \A z \in b.lo .. b.hi : z % LinesInBuffer = i => z = y
      BY <2>1, <2>2 DEF i
    <2>4. CASE y \in b.lo .. b.hi
      <3>1. y % LinesInBuffer = i
        BY DEF i
      <3>2. Gathered(b)[i] \in b.lo .. b.hi /\ Gathered(b)[i] % LinesInBuffer = i
        BY <2>3, <2>4, <3>1, GatheredLines
      <3>3. QED
        BY <2>3, <3>2 DEF i
    <2>5. CASE y \notin b.lo .. b.hi
      <3>1. Before(y) < FromOf(l)
        BY <1>2, <1>3, <1>4, <2>1, <2>5 DEF Before, FromOf, ToOf, Greatest, Least
      <3>2. b.content[i] = y
        BY <1>2, <3>1 DEF GathersAt, i
      <3>3. ~ \E z \in b.lo .. b.hi : z % LinesInBuffer = i
        BY <2>3, <2>5
      <3>4. Gathered(b)[i] = b.content[i]
        BY <2>3, <3>3, GatheredLines
      <3>5. QED
        BY <3>2, <3>4 DEF i
    <2>6. QED
      BY <2>4, <2>5
  <1>6. nb.partiallyFull <=> ToOf(l) < End(r)
    <2>1. End(r) = IF increasing THEN Last(r) ELSE Height - 1 - First(r)
      BY Lines
    <2>2. CASE increasing
      <3>1. LoopEnd(b) = b.hi + 1 /\ ToOf(l) = l.hi /\ End(r) = Last(r)
        BY <2>1, <2>2 DEF LoopEnd, ToOf
      <3>2. LoopEnd(b) \in b.minY .. b.maxY <=> l.hi < Last(r)
        BY <1>1, <1>2, <1>3, <1>4, <3>1 DEF Least
      <3>3. QED
        BY <1>1, <3>1, <3>2
    <2>3. CASE ~increasing
      <3>1. LoopEnd(b) = b.lo - 1 /\ ToOf(l) = Height - 1 - l.lo /\ End(r) = Height - 1 - First(r)
        BY <2>1, <2>3 DEF LoopEnd, ToOf
      <3>2. LoopEnd(b) \in b.minY .. b.maxY <=> First(r) < l.lo
        BY <1>1, <1>2, <1>3, <1>4, <3>1 DEF Greatest
      <3>3. ToOf(l) < End(r) <=> First(r) < l.lo
        BY <1>3, <3>1
      <3>4. QED
        BY <1>1, <3>2, <3>3
    <2>4. QED
      BY <2>2, <2>3
  <1>7. QED
    BY <1>1, <1>2, <1>5, <1>6 DEF HandAt, CoversAt

\* The end of a task leaves the blocks in hand as they should be.
LEMMA ExecuteWork ==
    ASSUME OutputTypeOK, NEW d \in Block, NEW p \in Int, NEW l \in LoopT, NEW at,
           at \in {"adding", "writing"},
           NEW bf \in [Slot -> BufferT], NEW nf, WorkAt(bf, d, p, l, at),
           NEW s \in Slot, bf[s].task, InWindow(bf[s]), FilledRight(bf[s], FALSE, nf[s]),
           \A o \in Slot \ {s} : nf[o] = bf[o]
    PROVE  WorkAt(nf, d, p, l, at)
  <1>1. ~ \A r \in d .. GivenOf(l) - 1 : s # Home(r)
    BY DEF WorkAt, SpareAt
  <1>2. GivenOf(l) # d
    BY <1>1, BlocksAre
  <1>3. ASSUME NEW o \in Slot, NEW r \in Block, d <= r, r < GivenOf(l), o = Home(r)
        PROVE  AstrayAt(nf[o]) \/ HandAt(nf[o], r, l)
    <2>1. AstrayAt(bf[o]) \/ HandAt(bf[o], r, l)
      BY <1>3 DEF WorkAt
    <2>2. CASE o = s
      <3>1. bf[s] \in BufferT /\ HandAt(bf[s], r, l)
        BY <2>1, <2>2 DEF AstrayAt
      <3>2. QED
        BY <2>2, <3>1, TaskEnds
    <2>3. QED
      BY <2>1, <2>2
  <1>4. ASSUME NEW o \in Slot, \A r \in d .. GivenOf(l) - 1 : o # Home(r)
        PROVE  SpareAt(nf[o], o, d, l)
    <2>1. o # s
      BY <1>1, <1>4
    <2>2. QED
      BY <1>4, <2>1 DEF WorkAt
  <1>5. QED
    BY <1>2, <1>3, <1>4 DEF WorkAt

\* How many lines a block that is written, or kept, has got.
LEMMA LinesGot ==
    ASSUME OutputTypeOK, NEW d \in Block, NEW p \in Int, NEW l \in LoopT, NEW b,
           p = Greatest(FromOf(l), Begin(d)), HandAt(b, d, l)
    PROVE  /\ p + (b.hi - b.lo + 1) = Least(End(d), ToOf(l)) + 1
           /\ b.hi - b.lo + 1 \in Int
  <1>1. /\ b.minY = First(d) /\ b.maxY = Last(d)
        /\ b.lo = Greatest(First(d), l.lo) /\ b.hi = Least(Last(d), l.hi)
    BY DEF HandAt, CoversAt
  <1>2. /\ l.lo \in Int /\ l.hi \in Int /\ First(d) \in Int /\ Last(d) \in Int /\ Height \in Int
        /\ Begin(d) = (IF increasing THEN First(d) ELSE Height - 1 - Last(d))
        /\ End(d) = (IF increasing THEN Last(d) ELSE Height - 1 - First(d))
    BY LoopTyped, Lines, OutputAssumption
  <1>3. QED
    BY <1>1, <1>2 DEF FromOf, ToOf, Greatest, Least

\* A buffer that is full is the chunk of its block.
LEMMA FullChunk ==
    ASSUME OutputTypeOK, NEW r \in Block, NEW b \in BufferT, NEW q \in Int,
           CoversAt(b, r), GathersAt(b, r, q), End(r) < q
    PROVE  Chunk(b) = RightChunk(Rank(r))
  <1>1. b.minY = First(r) /\ b.maxY = Last(r) /\ First(r) \in Int /\ Last(r) \in Int
    BY Lines DEF CoversAt
  <1>2. ASSUME NEW i \in 0 .. Last(r) - First(r) PROVE b.content[i] = First(r) + i
    <2>1. First(r) + i \in First(r) .. Last(r)
      BY <1>1
    <2>2. /\ (First(r) + i) % LinesInBuffer = First(r) + i - First(r)
          /\ Before(First(r) + i) <= End(r) /\ Before(First(r) + i) \in Int /\ End(r) \in Int
      BY <2>1, Lines
    <2>3. b.content[(First(r) + i) % LinesInBuffer] = First(r) + i
      BY <2>1, <2>2 DEF GathersAt
    <2>4. First(r) + i - First(r) = i
      BY <1>1
    <2>5. QED
      BY <2>2, <2>3, <2>4
  <1>3. [i \in 0 .. Last(r) - First(r) |-> b.content[i]] = LinesOf(Rank(r))
    BY <1>2 DEF LinesOf, First, Last
  <1>4. QED
    BY <1>1, <1>3 DEF Chunk, RightChunk, First, Last

\* A call that has no more than its first block in work.
LEMMA OnlyFirst ==
    ASSUME OutputTypeOK, NEW d \in Int, NEW p, NEW l \in LoopT, NEW at, NEW bf,
           WorkAt(bf, d, p, l, at), GivenOf(l) = d + 1
    PROVE  \A s \in Slot : s # Home(d) => ~bf[s].task /\ ~bf[s].partiallyFull
  <1> SUFFICES ASSUME NEW s \in Slot, s # Home(d) PROVE ~bf[s].task /\ ~bf[s].partiallyFull
    OBVIOUS
  <1>1. \A r \in d .. GivenOf(l) - 1 : r = d
    OBVIOUS
  <1>2. SpareAt(bf[s], s, d, l)
    BY <1>1 DEF WorkAt
  <1>3. QED
    BY <1>2 DEF SpareAt

\* The block that the caller waits for was given to a task.
LEMMA FirstInHand ==
    ASSUME OutputTypeOK, NEW d \in Block, NEW p \in Int, NEW l \in LoopT, NEW bf,
           WorkAt(bf, d, p, l, "writing"), Begin(d) <= p, p <= End(d), ~bf[Home(d)].task
    PROVE  /\ LoopAt(d, p, l, "writing") /\ HandAt(bf[Home(d)], d, l)
           /\ d \in Int /\ GivenOf(l) >= d + 1 /\ GivenOf(l) <= d + N
           /\ GivenOf(l) <= Greatest(StopOf(l), d + 1)
           /\ p = Greatest(FromOf(l), Begin(d)) /\ FromOf(l) <= p /\ p <= ToOf(l) + 1
           /\ FromOf(l) \in Int /\ ToOf(l) \in Int /\ GivenOf(l) \in Int /\ StopOf(l) \in Int
           /\ Begin(d) \in Int /\ End(d) \in Int /\ Begin(d) <= End(d) /\ N \in Nat \ {0}
  <1>1. /\ FromOf(l) \in Int /\ ToOf(l) \in Int /\ GivenOf(l) \in Int /\ StopOf(l) \in Int
        /\ Begin(d) \in Int /\ End(d) \in Int /\ Begin(d) <= End(d) /\ d \in Int
        /\ Home(d) \in Slot /\ N \in Nat \ {0}
    BY LoopTyped, Lines, Places
  <1>2. /\ LoopAt(d, p, l, "writing")
        /\ GivenOf(l) >= d + 1 /\ GivenOf(l) <= d + N
        /\ GivenOf(l) <= Greatest(StopOf(l), d + 1)
        /\ p = Greatest(FromOf(l), Begin(d)) /\ p <= ToOf(l) + 1
    BY DEF WorkAt, LoopAt
  <1>3. FromOf(l) <= p
    BY <1>1, <1>2 DEF Greatest
  <1>4. HandAt(bf[Home(d)], d, l)
    <2>1. d <= d /\ d < GivenOf(l)
      BY <1>1, <1>2
    <2>2. QED
      BY <1>1, <2>1 DEF WorkAt, AstrayAt
  <1>5. QED
    BY <1>1, <1>2, <1>3, <1>4

\* A block is written: what is in the file goes on, and what is in the buffers.
LEMMA NextBlock ==
    ASSUME OutputTypeOK, NEW d \in Block, d + 1 \in Block, NEW p \in Int,
           NEW l \in LoopT, NEW nl \in LoopT, NEW bf,
           WorkAt(bf, d, p, l, "writing"), Begin(d) <= p, p <= End(d),
           ~bf[Home(d)].task, ~bf[Home(d)].partiallyFull,
           SameLines(l, nl), nl.write = l.write + Step, nl.compress = l.compress, nl.left = 1,
           NEW at, at = IF nl.write = l.stop THEN "finishing"
                        ELSE IF l.compress = l.stop THEN "writing" ELSE "adding"
    PROVE  /\ at = "finishing" => RestAt(bf, d + 1, End(d) + 1)
           /\ at # "finishing" => WorkAt(bf, d + 1, End(d) + 1, nl, at)
  <1> DEFINE g == GivenOf(l)
             stop == StopOf(l)
  <1>1. /\ LoopAt(d, p, l, "writing") /\ HandAt(bf[Home(d)], d, l)
        /\ d \in Int /\ g >= d + 1 /\ g <= d + N /\ g <= Greatest(stop, d + 1)
        /\ p = Greatest(FromOf(l), Begin(d)) /\ FromOf(l) <= p /\ p <= ToOf(l) + 1
        /\ FromOf(l) \in Int /\ ToOf(l) \in Int /\ g \in Int /\ stop \in Int
        /\ Begin(d) \in Int /\ End(d) \in Int /\ Begin(d) <= End(d) /\ N \in Nat \ {0}
    BY FirstInHand
  <1>2. End(d) <= ToOf(l)
    BY <1>1 DEF HandAt
  <1>3. Begin(d + 1) = End(d) + 1
    BY Ranks DEF OutputTypeOK
  <1>4. Rank(nl.write) = d + 1 /\ GivenOf(nl) = g
    BY <1>1, LoopTyped DEF LoopAt, GivenOf
  <1>5. (nl.write = l.stop <=> stop = d + 1) /\ (l.compress = l.stop <=> g = stop)
    <2>1. nl.write \in Int /\ l.compress \in Int /\ l.stop \in Int
      BY LoopTyped
    <2>2. \A a, b \in Int : Rank(a) = Rank(b) => a = b
      BY Places
    <2>3. Rank(l.stop) = stop /\ Rank(l.compress) = g
      BY DEF StopOf, GivenOf
    <2>4. QED
      BY <1>4, <2>1, <2>2, <2>3
  <1>6. /\ FromOf(nl) = FromOf(l) /\ ToOf(nl) = ToOf(l) /\ StopOf(nl) = stop
        /\ \A b, r : HandAt(b, r, nl) <=> HandAt(b, r, l)
    BY LinesStay
  <1> HIDE DEF g, stop
  <1>7. g = d + 1 => \A s \in Slot : ~bf[s].task /\ ~bf[s].partiallyFull
    BY <1>1, OnlyFirst DEF g
  <1>8. CASE at = "finishing"
    <2>1. g = d + 1
      BY <1>1, <1>5, <1>8 DEF Greatest
    <2>2. \A s \in Slot : WaitsAt(bf[s], d + 1, End(d) + 1)
      BY <1>1, <1>3, <1>7, <2>1 DEF WaitsAt
    <2>3. QED
      BY <1>7, <1>8, <2>1, <2>2 DEF RestAt
  <1>9. CASE at # "finishing"
    <2>1. at = (IF g = stop THEN "writing" ELSE "adding") /\ stop # d + 1
      BY <1>5, <1>9
    <2>2. stop > d + 1 /\ ToOf(l) > End(d)
      <3>1. /\ ToOf(l) <= End(d) => stop <= d + 1
            /\ stop <= d => ToOf(l) < Begin(d)
        BY <1>1 DEF LoopAt, stop
      <3>2. QED
        BY <1>1, <1>2, <2>1, <3>1
    <2>3. LoopAt(d + 1, End(d) + 1, nl, at)
      <3>1. End(d) + 1 = Greatest(FromOf(l), Begin(d + 1))
        BY <1>1, <1>3 DEF Greatest
      <3>2. End(d) + 1 <= ToOf(l) + 1 /\ End(d) + 1 # ToOf(l) + 1
        BY <1>1, <2>2
      <3>3. \A r \in Block : /\ ToOf(l) <= End(r) => stop <= r + 1
                             /\ stop <= r => ToOf(l) < Begin(r)
        BY <1>1 DEF LoopAt, stop
      <3>4. g <= stop /\ g <= Greatest(stop, d + 1 + 1) /\ g <= d + 1 + N
        BY <1>1, <2>2 DEF Greatest
      <3>5. at = "writing" => g >= d + 1 + 1
        BY <1>1, <2>1, <2>2
      <3>6. at = "adding" => /\ g >= d + 1 /\ g + 1 <= d + 1 + N
                             /\ g + 1 <= Greatest(stop, d + 1 + 1)
        BY <1>1, <2>1, <2>2, <3>4 DEF Greatest
      <3>7. ~increasing => \A r \in NumBlocks .. stop - 1 : nl.lo <= First(r)
        BY <1>1 DEF LoopAt, SameLines, stop
      <3>8. QED
        BY <1>4, <1>6, <3>1, <3>2, <3>3, <3>4, <3>5, <3>6, <3>7 DEF LoopAt
    <2>4. ASSUME NEW s \in Slot, NEW r \in Block, d + 1 <= r, r < g, s = Home(r)
          PROVE  AstrayAt(bf[s]) \/ HandAt(bf[s], r, nl)
      <3>1. d <= r
        BY <1>1, <2>4, BlocksAre
      <3>2. QED
        BY <1>6, <2>4, <3>1 DEF WorkAt, g
    <2>5. ASSUME NEW s \in Slot, \A r \in d + 1 .. g - 1 : s # Home(r)
          PROVE  SpareAt(bf[s], s, d + 1, nl)
      <3>1. CASE s = Home(d)
        BY <3>1 DEF SpareAt
      <3>2. CASE s # Home(d)
        <4>1. \A r \in d .. g - 1 : s # Home(r)
          BY <1>1, <2>5, <3>2
        <4>2. SpareAt(bf[s], s, d, l) /\ g # d
          BY <1>1, <4>1 DEF WorkAt, g
        <4>3. QED
          BY <4>2 DEF SpareAt, g
      <3>3. QED
        BY <3>1, <3>2
    <2>6. ASSUME NEW s \in Slot, g = d + 1 PROVE WaitsAt(bf[s], d + 1, FromOf(nl))
      BY <1>1, <1>3, <1>6, <1>7, <2>6 DEF WaitsAt
    <2>7. QED
      BY <1>4, <1>9, <2>3, <2>4, <2>5, <2>6 DEF WorkAt
  <1>10. QED
    BY <1>8, <1>9

\* A block that is not complete waits in its buffer.
LEMMA BlockWaits ==
    ASSUME OutputTypeOK, NEW d \in Block, NEW p \in Int, NEW l \in LoopT, NEW bf,
           WorkAt(bf, d, p, l, "writing"), Begin(d) <= p, p <= End(d),
           ~bf[Home(d)].task, bf[Home(d)].partiallyFull
    PROVE  RestAt(bf, d, ToOf(l) + 1) /\ ToOf(l) < End(d) /\ Begin(d) <= ToOf(l) + 1
  <1>1. /\ LoopAt(d, p, l, "writing") /\ HandAt(bf[Home(d)], d, l)
        /\ d \in Int /\ GivenOf(l) >= d + 1 /\ GivenOf(l) <= Greatest(StopOf(l), d + 1)
        /\ p <= ToOf(l) + 1
        /\ ToOf(l) \in Int /\ GivenOf(l) \in Int /\ StopOf(l) \in Int
        /\ Begin(d) \in Int /\ End(d) \in Int
    BY FirstInHand
  <1>2. /\ ToOf(l) < End(d) /\ CoversAt(bf[Home(d)], d)
        /\ GathersAt(bf[Home(d)], d, ToOf(l) + 1)
    BY <1>1 DEF HandAt
  <1>3. StopOf(l) <= d + 1
    BY <1>1, <1>2 DEF LoopAt
  <1>4. GivenOf(l) = d + 1
    BY <1>1, <1>3 DEF Greatest
  <1>5. \A s \in Slot : s # Home(d) => ~bf[s].task /\ ~bf[s].partiallyFull
    BY <1>1, <1>4, OnlyFirst
  <1>6. WaitsAt(bf[Home(d)], d, ToOf(l) + 1)
    BY <1>2 DEF WaitsAt
  <1>7. RestAt(bf, d, ToOf(l) + 1)
    BY <1>5, <1>6 DEF RestAt
  <1>8. QED
    BY <1>1, <1>2, <1>7

\* The last block of a call, for a line e of the data window or beyond it.
LEMMA LastBlock ==
    ASSUME OutputTypeOK, NEW e \in Int, NEW r \in Block
    PROVE  LET q == Rank(Quotient(e, LinesInBuffer)) IN
           /\ q \in Int
           /\ Before(e) <= End(r) => q <= r
           /\ q < r => Before(e) < Begin(r)
  <1> DEFINE k == Quotient(e, LinesInBuffer)
             q == Rank(k)
  <1>1. /\ k \in Int /\ (0 <= e => 0 <= k /\ FirstLine(k) <= e /\ e < FirstLine(k) + LinesInBuffer)
        /\ (e < 0 => k <= 0)
    BY Quotients
  <1>2. /\ NumBlocks \in Nat \ {0} /\ Block = 0 .. NumBlocks - 1 /\ Height \in Int
        /\ LinesInBuffer \in Nat \ {0} /\ increasing \in BOOLEAN
        /\ FirstLine(NumBlocks - 1) < Height /\ Height <= FirstLine(NumBlocks)
    BY BlocksAre, OutputAssumption DEF OutputTypeOK
  <1>3. q = (IF increasing THEN k ELSE NumBlocks - 1 - k) /\ r \in Int /\ 0 <= r
        /\ r <= NumBlocks - 1
    BY <1>2 DEF Rank
  <1>4. Before(e) = (IF increasing THEN e ELSE Height - 1 - e)
    BY DEF Before
  <1>5. Begin(r) \in Int /\ End(r) \in Int /\ 0 <= Begin(r) /\ Begin(r) <= End(r) /\ End(r) < Height
    BY Lines
  <1> HIDE DEF k, q
  <1>6. FirstLine(k) \in Int /\ FirstLine(NumBlocks) \in Int /\ FirstLine(NumBlocks - 1) \in Int
    BY <1>1, <1>2, FirstLines
  <1>7. Height <= e => k >= NumBlocks - 1
    <2>1. k < NumBlocks - 1 => FirstLine(k) + LinesInBuffer <= FirstLine(NumBlocks - 1)
      BY <1>1, <1>2, FirstLines
    <2>2. QED
      BY <1>1, <1>2, <1>6, <2>1, OutputAssumption
  <1>8. CASE 0 <= e /\ e < Height
    <2>1. k \in Block
      <3>1. NumBlocks < k => FirstLine(NumBlocks) + LinesInBuffer <= FirstLine(k)
        BY <1>1, <1>2, FirstLines
      <3>2. k # NumBlocks /\ ~(NumBlocks < k)
        BY <1>1, <1>2, <1>6, <1>8, <3>1
      <3>3. QED
        BY <1>1, <1>2, <1>8, <3>2
    <2>2. e \in FirstLine(k) .. LastLine(k)
      BY <1>1, <1>2, <1>6, <1>8, <2>1 DEF LastLine, Least
    <2>3. q \in Block /\ Rank(q) = k
      BY <1>2, <2>1, Ranks DEF q
    <2>4. Begin(q) <= Before(e) /\ Before(e) <= End(q)
      BY <1>2, <2>2, <2>3, LinesByRank
    <2>5. Begin(q) \in Int /\ End(q) \in Int /\ q \in Int /\ Before(e) \in Int
      BY <1>2, <1>4, <2>3, Lines
    <2>6. (r < q => End(r) < Begin(q)) /\ (q < r => End(q) < Begin(r))
      BY <1>2, <2>3, RanksInOrder
    <2>7. QED
      BY <1>3, <1>5, <2>4, <2>5, <2>6 DEF q, k
  <1>9. CASE Height <= e
    <2>1. CASE increasing
      BY <1>1, <1>2, <1>3, <1>4, <1>5, <1>7, <1>9, <2>1 DEF q, k
    <2>2. CASE ~increasing
      BY <1>1, <1>2, <1>3, <1>4, <1>5, <1>7, <1>9, <2>2 DEF q, k
    <2>3. QED
      BY <2>1, <2>2
  <1>10. CASE e < 0
    <2>1. CASE increasing
      BY <1>1, <1>2, <1>3, <1>4, <1>5, <1>10, <2>1 DEF q, k
    <2>2. CASE ~increasing
      BY <1>1, <1>2, <1>3, <1>4, <1>5, <1>10, <2>2 DEF q, k
    <2>3. QED
      BY <2>1, <2>2
  <1>11. QED
    BY <1>2, <1>8, <1>9, <1>10

\* A call of writePixels begins in the next block.
LEMMA CallBegins ==
    ASSUME OutputTypeOK, NEW d \in Block, NEW p \in Int, NEW n \in Nat, WritePixels(n),
           p = Before(cur), Begin(d) <= p, p <= End(d), NEW bf, RestAt(bf, d, p),
           NEW l \in LoopT, l = loop'
    PROVE  WorkAt(bf, d, p, l, "adding")
  <1> DEFINE e == cur + Step * (n - 1)
             first == Quotient(cur, LinesInBuffer)
             last == Quotient(e, LinesInBuffer)
             q == Rank(last)
  <1>1. /\ cur \in Int /\ Step \in {1, -1} /\ increasing \in BOOLEAN /\ NumBlocks \in Int
        /\ Height \in Int /\ N \in Nat \ {0} /\ d \in Int
    <2>1. d \in Int
      BY Lines
    <2>2. N \in Nat \ {0}
      BY Places
    <2>3. NumBlocks \in Int /\ Height \in Int
      BY BlocksAre, OutputAssumption
    <2>4. Step \in {1, -1}
      BY DEF Step
    <2>5. cur \in Int /\ increasing \in BOOLEAN
      BY DEF OutputTypeOK
    <2>6. QED
      BY <2>1, <2>2, <2>3, <2>4, <2>5
  <1>2. e \in Int
    BY <1>1 DEF Step
  <1>3. first = Rank(d)
    BY <1>1, LinesByRank
  <1>4. /\ l.write = first /\ l.compress = first /\ l.stop = last + Step
        /\ l.left = Greatest(Least(N, IF increasing THEN last - first + 1 ELSE first - last + 1), 1)
        /\ l.lo = (IF increasing THEN cur ELSE cur - n + 1)
        /\ l.hi = (IF increasing THEN cur + n - 1 ELSE cur)
    BY DEF WritePixels, N
  <1>5. Rank(first) = d
    BY <1>1, <1>3, Places
  <1>6. last \in Int /\ first \in Int
    BY <1>1, <1>2, Quotients
  <1>7. /\ FromOf(l) = p /\ ToOf(l) = p + n - 1 /\ Before(e) = p + n - 1
    BY <1>1, <1>4 DEF FromOf, ToOf, Before, Step
  <1>8. \A r \in Block : /\ q \in Int
                         /\ Before(e) <= End(r) => q <= r
                         /\ q < r => Before(e) < Begin(r)
    BY <1>2, LastBlock
  <1> HIDE DEF e, first, last
  <1>9. StopOf(l) = q + 1 /\ q \in Int
    BY <1>1, <1>4, <1>6 DEF StopOf, Rank, Step
  <1>10. l.left = Greatest(Least(N, q - d + 1), 1)
    BY <1>1, <1>3, <1>4, <1>6 DEF Rank
  <1>11. GivenOf(l) = d /\ Rank(l.write) = d
    BY <1>4, <1>5 DEF GivenOf
  <1> HIDE DEF q
  <1>12. LoopAt(d, p, l, "adding")
    <2>1. p = Greatest(FromOf(l), Begin(d))
      BY <1>7, Lines DEF Greatest
    <2>2. p <= ToOf(l) + 1 /\ (p = ToOf(l) + 1 => FromOf(l) = p)
      BY <1>7
    <2>3. \A r \in Block : /\ ToOf(l) <= End(r) => StopOf(l) <= r + 1
                           /\ StopOf(l) <= r => ToOf(l) < Begin(r)
      <3> TAKE r \in Block
      <3>1. /\ Before(e) <= End(r) => q <= r
            /\ q < r => Before(e) < Begin(r)
        BY <1>8
      <3>2. r \in Int
        BY Lines
      <3>3. QED
        BY <1>7, <1>9, <3>1, <3>2
    <2>4. /\ d >= d /\ l.left >= 1 /\ d + l.left <= d + N
          /\ d + l.left <= Greatest(StopOf(l), d + 1)
      BY <1>1, <1>9, <1>10 DEF Greatest, Least
    <2>5. ASSUME ~increasing, NEW r \in NumBlocks .. q PROVE l.lo <= First(r)
      <3>1. e = l.lo /\ Rank(r) = NumBlocks - 1 - r /\ q = NumBlocks - 1 - last
        BY <1>1, <1>4, <2>5 DEF e, q, Rank, Step
      <3>2. r \in Int /\ NumBlocks <= r /\ r <= q
        BY <1>1, <1>9, <2>5
      <3>3. last < 0 /\ last <= Rank(r) /\ Rank(r) \in Int
        BY <1>1, <1>6, <3>1, <3>2
      <3>4. e <= FirstLine(last)
        <4>1. 0 <= e => 0 <= last
          BY <1>2, Quotients DEF last
        <4>2. e < 0 => e <= FirstLine(last)
          BY <1>2, Quotients DEF last
        <4>3. QED
          BY <1>2, <1>6, <3>3, <4>1, <4>2
      <3>5. FirstLine(last) <= FirstLine(Rank(r)) /\ FirstLine(last) \in Int
            /\ FirstLine(Rank(r)) \in Int
        <4>1. FirstLine(last) \in Int /\ FirstLine(Rank(r)) \in Int
          BY <1>6, <3>3, FirstLines
        <4>2. last < Rank(r) => FirstLine(last) + LinesInBuffer <= FirstLine(Rank(r))
          BY <1>6, <3>3, FirstLines
        <4>3. last = Rank(r) => FirstLine(last) = FirstLine(Rank(r))
          OBVIOUS
        <4>4. QED
          BY <1>6, <3>3, <4>1, <4>2, <4>3, OutputAssumption
      <3>6. QED
        BY <1>2, <3>1, <3>4, <3>5 DEF First
    <2>6. ~increasing => \A r \in NumBlocks .. StopOf(l) - 1 : l.lo <= First(r)
      BY <1>9, <2>5
    <2>7. QED
      BY <1>11, <2>1, <2>2, <2>3, <2>4, <2>6 DEF LoopAt
  <1>13. \A r \in Block : ~(d <= r /\ r < GivenOf(l))
    BY <1>1, <1>11, BlocksAre
  <1>14. QED
    BY <1>7, <1>11, <1>12, <1>13 DEF WorkAt, SpareAt, RestAt

-----------------------------------------------------------------------------
(* Each step of a run in which nothing has failed.                          *)

\* A new file is empty, and so are its line buffers.
LEMMA InitSound == Init => OutputSound
  <1> SUFFICES ASSUME Init PROVE OutputSound
    OBVIOUS
  <1>1. OutputTypeOK /\ increasing \in BOOLEAN
    BY InitType DEF Init
  <1>2. Done = 0 /\ NumBlocks \in Nat \ {0} /\ Block = 0 .. NumBlocks - 1 /\ 0 \in Block
    BY BlocksAre DEF Init, Done
  <1>3. FileExact
    <2>1. \A k \in Block : table[k] = 0 /\ Rank(k) \in Int /\ ~(Rank(k) < 0)
      BY <1>1, <1>2, Ranks DEF Init
    <2>2. QED
      BY <1>2, <2>1 DEF FileExact
  <1>4. Before(cur) = 0
    BY <1>1, OutputAssumption DEF Init, Before
  <1>5. \A s \in Slot : /\ buf[s].sem = 1 /\ buf[s].task = FALSE
                        /\ buf[s].partiallyFull = FALSE /\ buf[s].hasException = FALSE
    BY DEF Init, FreeBuffer, Slot
  <1>6. CursorAt(0, 0, Height)
    BY <1>1, <1>2, Ranks, OutputAssumption DEF CursorAt
  <1>7. RestAt(buf, 0, 0)
    <2>1. \A s \in Slot : WaitsAt(buf[s], 0, 0)
      BY <1>1, <1>2, <1>5, Ranks DEF WaitsAt
    <2>2. QED
      BY <1>5, <2>1 DEF RestAt
  <1>8. SoundAt(buf, 0, 0, Height, loop, "idle")
    BY <1>5, <1>6, <1>7 DEF SoundAt, OwnedAt
  <1>9. QED
    BY <1>2, <1>3, <1>4, <1>8 DEF OutputSound, Init

\* A call begins where the call before it ended.
LEMMA WritePixelsSound ==
    ASSUME OutputTypeOK, OutputSound, NEW n \in Nat, WritePixels(n), OutputTypeOK'
    PROVE  OutputSound'
  <1>1. PICK bf, d, p, m, l, at : Now(bf, d, p, m, l, at)
    BY NowIs
  <1>2. PICK nl \in LoopT : nl = loop'
    BY DEF OutputTypeOK
  <1>3. /\ Frame /\ UNCHANGED <<cur, missing, file, table, buf>>
        /\ at = "idle" /\ pc' = "adding"
    BY <1>1 DEF WritePixels, Frame, Slot, Now
  <1>4. FileExact'
    BY <1>3, FileKept DEF OutputSound
  <1>5. SoundAt(bf, d, p, m, nl, "adding")
    <2>1. SoundAt(bf, d, p, m, l, "idle")
      BY <1>1, <1>3 DEF Now
    <2>2. CASE d < NumBlocks
      <3>1. d \in Block /\ Begin(d) <= p /\ p <= End(d) /\ RestAt(bf, d, p)
        BY <1>1, <2>1, <2>2 DEF Now, SoundAt, CursorAt, Resting
      <3>2. WorkAt(bf, d, p, nl, "adding")
        BY <1>1, <1>2, <3>1, CallBegins DEF Now
      <3>3. QED
        BY <2>1, <3>2 DEF SoundAt, Resting
    <2>3. CASE ~(d < NumBlocks)
      BY <2>1, <2>3 DEF SoundAt, Resting
    <2>4. QED
      BY <2>2, <2>3
  <1>6. QED
    BY <1>1, <1>2, <1>3, <1>4, <1>5, SoundNext DEF Now, Done, Before

\* A line buffer is only given to a task when it is free.
LEMMA AddTaskSound ==
    ASSUME OutputTypeOK, OutputSound, AddTask, OutputTypeOK' PROVE OutputSound'
  <1>1. PICK bf, d, p, m, l, at : Now(bf, d, p, m, l, at)
    BY NowIs
  <1>2. PICK nl \in LoopT : nl = loop'
    BY DEF OutputTypeOK
  <1>3. Slot' = Slot
    BY AddTaskChanges DEF Changed
  <1>4. PICK nf \in [Slot -> BufferT] : nf = buf'
    BY <1>3 DEF OutputTypeOK
  <1>5. /\ Frame /\ UNCHANGED <<cur, missing, file, table>>
        /\ at = "adding" /\ SameLines(l, nl) /\ nl.write = l.write
        /\ nl.compress = l.compress + Step /\ nl.left = l.left - 1
        /\ pc' = IF l.left = 1 THEN "writing" ELSE "adding"
    BY <1>1, <1>2, <1>3 DEF AddTask, Frame, Now, SameLines, LoopT
  <1>6. PICK s \in Slot : s = Home(GivenOf(l)) /\ s = SlotOf(l.compress)
    <2>1. l.compress \in Int /\ l.compress = loop.compress
      BY <1>1, LoopTyped DEF Now
    <2>2. Home(GivenOf(l)) = SlotOf(l.compress)
      BY <2>1, Places DEF Home, GivenOf
    <2>3. QED
      BY <2>1, <2>2, AddTaskChanges
  <1>7. /\ nf[s] = Prepared(bf[s], l.compress, l.lo, l.hi)
        /\ \A o \in Slot \ {s} : nf[o] = bf[o]
        /\ bf[s].sem = 1 /\ bf[s] \in BufferT
    BY <1>1, <1>4, <1>6, AddTaskChanges DEF Changed, NewTask, Now, AddTask
  <1>8. ~bf[s].task /\ ~bf[s].hasException /\ \A o \in Slot : OwnedAt(bf[o])
    BY <1>1, <1>7 DEF Now, SoundAt, OwnedAt
  <1>9. \A o \in Slot : OwnedAt(nf[o])
    <2>1. nf[s].sem = 0 /\ nf[s].task /\ nf[s].hasException = bf[s].hasException
      BY <1>1, <1>7, LoopTyped, PreparedFields DEF Now
    <2>2. OwnedAt(nf[s])
      BY <1>8, <2>1 DEF OwnedAt
    <2>3. QED
      BY <1>7, <1>8, <2>2
  <1> DEFINE now == IF l.left = 1 THEN "writing" ELSE "adding"
  <1>10. d < NumBlocks => WorkAt(nf, d, p, nl, now)
    <2> SUFFICES ASSUME d < NumBlocks PROVE WorkAt(nf, d, p, nl, now)
      OBVIOUS
    <2>1. d \in Block /\ p <= End(d) /\ WorkAt(bf, d, p, l, "adding")
      BY <1>1, <1>5 DEF Now, SoundAt, CursorAt
    <2>2. QED
      BY <1>1, <1>5, <1>6, <1>7, <1>8, <2>1, AddTaskWork DEF Now
  <1>11. SoundAt(nf, d, p, m, nl, now)
    BY <1>1, <1>9, <1>10 DEF Now, SoundAt, Resting
  <1>12. FileExact'
    BY <1>5, FileKept DEF OutputSound
  <1>13. QED
    BY <1>1, <1>2, <1>4, <1>5, <1>11, <1>12, SoundNext DEF Now, Done, Before

\* Tasks may end in any order.
LEMMA ExecuteSound ==
    ASSUME OutputTypeOK, OutputSound, NEW s \in Slot, Execute(s), Healthy' PROVE OutputSound'
  <1>1. PICK bf, d, p, m, l, at : Now(bf, d, p, m, l, at)
    BY NowIs
  <1>2. /\ bf[s].task /\ InWindow(bf[s]) /\ bf[s] \in BufferT
        /\ UNCHANGED <<increasing, cur, missing, table, file, pc, loop>>
    BY <1>1, ExecuteChanges DEF Now
  <1>3. Changed(s, Filled(bf[s], FALSE))
    <2>1. PICK throws \in BOOLEAN :
              /\ Changed(s, Filled(bf[s], throws))
              /\ faults' = IF throws THEN faults \cup {"compress"} ELSE faults
      BY <1>1, ExecuteChanges DEF Now
    <2>2. ~throws
      BY <2>1 DEF Healthy
    <2>3. QED
      BY <2>1, <2>2
  <1>4. PICK f : FilledRight(bf[s], FALSE, f)
    BY <1>2, FilledFields
  <1>5. f = Filled(bf[s], FALSE) /\ f.sem = 1 /\ f.task = FALSE
        /\ f.hasException = (bf[s].hasException \/ FALSE)
    BY <1>4, Zenon DEF FilledRight
  <1>6. PICK nf : nf = buf'
    OBVIOUS
  <1>7. /\ Slot' = Slot /\ nf[s] = f /\ \A o \in Slot \ {s} : nf[o] = bf[o]
    BY <1>1, <1>3, <1>5, <1>6 DEF Changed, Now
  <1>8. Frame
    BY <1>2, <1>7 DEF Frame
  <1>9. \A o \in Slot : OwnedAt(nf[o])
    <2>1. \A o \in Slot : OwnedAt(bf[o])
      BY <1>1 DEF Now, SoundAt
    <2>2. OwnedAt(f)
      BY <1>5, <2>1 DEF OwnedAt
    <2>3. QED
      BY <1>7, <2>1, <2>2
  <1>10. at # "idle" /\ ~(d < NumBlocks /\ at \in Resting)
    BY <1>1, <1>2 DEF Now, SoundAt, RestAt
  <1>11. d < NumBlocks /\ at \in {"adding", "writing"} => WorkAt(nf, d, p, l, at)
    <2> SUFFICES ASSUME d < NumBlocks, at \in {"adding", "writing"}
                 PROVE  WorkAt(nf, d, p, l, at)
      OBVIOUS
    <2>1. /\ d \in Block /\ WorkAt(bf, d, p, l, at) /\ p \in Int /\ l \in LoopT
          /\ bf \in [Slot -> BufferT]
      BY <1>1 DEF Now, SoundAt
    <2>2. FilledRight(bf[s], FALSE, nf[s])
      BY <1>4, <1>7
    <2>3. QED
      BY <1>2, <1>7, <2>1, <2>2, ExecuteWork
  <1>12. SoundAt(nf, d, p, m, l, at)
    BY <1>1, <1>9, <1>10, <1>11 DEF Now, SoundAt
  <1>13. FileExact'
    BY <1>2, <1>8, FileKept DEF OutputSound
  <1>14. QED
    BY <1>1, <1>2, <1>6, <1>8, <1>12, <1>13, SoundNext DEF Now, Done, Before

\* When lines are missing, the caller waits for the buffer of the next block.
LEMMA BlockInHand ==
    ASSUME OutputTypeOK, ReadyToWrite,
           NEW bf, NEW d, NEW p, NEW m, NEW l, NEW at, Now(bf, d, p, m, l, at)
    PROVE  /\ d \in Block /\ p \in Int /\ m \in Int /\ l \in LoopT /\ at = "writing"
           /\ Begin(d) <= p /\ p <= End(d) /\ m = Height - p
           /\ WorkAt(bf, d, p, l, "writing") /\ HandAt(bf[Home(d)], d, l)
           /\ p = Greatest(FromOf(l), Begin(d))
           /\ Next2Write = bf[Home(d)] /\ loop.write = Rank(d)
           /\ ~bf[Home(d)].task
  <1>1. m > 0 /\ at = "writing" /\ Next2Write.sem = 1 /\ CursorAt(d, p, m)
    BY DEF ReadyToWrite, Now, SoundAt
  <1>2. d < NumBlocks /\ d \in Block /\ Begin(d) <= p /\ p <= End(d) /\ m = Height - p
    BY <1>1 DEF CursorAt, Now
  <1>3. WorkAt(bf, d, p, l, "writing") /\ p \in Int /\ m \in Int /\ l \in LoopT /\ l = loop
        /\ bf = buf
    BY <1>1, <1>2 DEF SoundAt, Now
  <1>4. p = Greatest(FromOf(l), Begin(d)) /\ Rank(l.write) = d
    BY <1>3 DEF WorkAt, LoopAt
  <1>5. l.write = Rank(d)
    BY <1>3, <1>4, LoopTyped, Places
  <1>6. Next2Write = bf[Home(d)]
    BY <1>3, <1>5 DEF Next2Write, Home
  <1>7. Home(d) \in Slot
    BY <1>2, Lines, Places
  <1>8. ~bf[Home(d)].task
    BY <1>1, <1>6, <1>7 DEF Now, SoundAt, OwnedAt
  <1>9. HandAt(bf[Home(d)], d, l)
    BY <1>2, <1>3, <1>8, FirstInHand
  <1>10. QED
    BY <1>1, <1>2, <1>3, <1>4, <1>5, <1>6, <1>8, <1>9

\* The cursor goes on by the lines that were taken.
LEMMA CursorMoves ==
    ASSUME OutputTypeOK, NEW t \in Int, cur' = cur + Step * t
    PROVE  (IF increasing THEN cur' ELSE Height - 1 - cur') = Before(cur) + t
  BY OutputAssumption DEF OutputTypeOK, Before, Step

\* A call that ends inside a block keeps the block, and the cursor follows.
LEMMA KeepPartialSound ==
    ASSUME OutputTypeOK, OutputSound, KeepPartial PROVE OutputSound'
  <1>1. PICK bf, d, p, m, l, at : Now(bf, d, p, m, l, at)
    BY NowIs
  <1>2. /\ Frame /\ UNCHANGED <<file, table, buf, loop>> /\ pc' = "unwinding"
        /\ cur' = cur + Step * LinesTaken /\ missing' = missing - LinesTaken
        /\ ReadyToWrite /\ Next2Write.partiallyFull
    BY DEF KeepPartial, Frame, Slot
  <1>3. /\ d \in Block /\ p \in Int /\ m \in Int /\ l \in LoopT
        /\ Begin(d) <= p /\ p <= End(d) /\ m = Height - p
        /\ WorkAt(bf, d, p, l, "writing") /\ HandAt(bf[Home(d)], d, l)
        /\ p = Greatest(FromOf(l), Begin(d))
        /\ Next2Write = bf[Home(d)] /\ ~bf[Home(d)].task
    BY <1>1, <1>2, BlockInHand
  <1>4. RestAt(bf, d, ToOf(l) + 1) /\ ToOf(l) < End(d) /\ Begin(d) <= ToOf(l) + 1
    BY <1>2, <1>3, BlockWaits
  <1>5. PICK t : t = LinesTaken
    OBVIOUS
  <1>6. t \in Int /\ p + t = ToOf(l) + 1
    <2>1. p + t = Least(End(d), ToOf(l)) + 1 /\ t \in Int
      BY <1>3, <1>5, LinesGot DEF LinesTaken
    <2>2. QED
      BY <1>3, <1>4, <2>1, Lines, LoopTyped DEF Least
  <1>7. /\ p + t = (IF increasing THEN cur' ELSE Height - 1 - cur')
        /\ m - t = missing'
    BY <1>1, <1>2, <1>5, <1>6, CursorMoves DEF Now
  <1>8. CursorAt(d, p + t, m - t)
    BY <1>1, <1>3, <1>4, <1>6, Lines, LoopTyped, OutputAssumption DEF CursorAt, Now
  <1>9. SoundAt(bf, d, p + t, m - t, l, "unwinding")
    BY <1>1, <1>4, <1>6, <1>8 DEF SoundAt, Now
  <1>10. FileExact'
    BY <1>2, FileKept DEF OutputSound
  <1>11. QED
    BY <1>1, <1>2, <1>7, <1>9, <1>10, SoundNext DEF Now, Done

\* The next chunk goes to its place in the file, and the table points to it.
LEMMA ChunkWritten ==
    ASSUME OutputTypeOK, FileExact, Frame, NEW d \in Block, d = Done, NEW c,
           c = RightChunk(Rank(d)), file' = Append(file, c),
           table' = [table EXCEPT ![Rank(d)] = Len(file) + 1]
    PROVE  FileExact' /\ Len(file') = d + 1
  <1>1. /\ Len(file) = d /\ d \in Int /\ 0 <= d /\ d < NumBlocks /\ NumBlocks \in Int
        /\ file \in Seq(ChunkT) /\ table \in [Block -> Nat] /\ Rank(d) \in Block
        /\ Block = 0 .. NumBlocks - 1 /\ increasing \in BOOLEAN
    <2>1. d \in Int /\ Rank(d) \in Block
      BY Lines
    <2>2. NumBlocks \in Nat \ {0} /\ Block = 0 .. NumBlocks - 1
      BY BlocksAre
    <2>3. 0 <= d /\ d < NumBlocks
      BY <2>1, <2>2
    <2>4. file \in Seq(ChunkT) /\ table \in [Block -> Nat] /\ increasing \in BOOLEAN
      BY DEF OutputTypeOK
    <2>5. QED
      BY <2>1, <2>2, <2>3, <2>4 DEF Done
  <1>2. /\ Len(file') = d + 1 /\ file'[d + 1] = c /\ \A i \in 1 .. d : file'[i] = file[i]
    BY <1>1
  <1>3. InLineOrder(d + 1) = Rank(d)
    BY <1>1 DEF InLineOrder, Rank
  <1>4. \A i \in 1 .. d + 1 : file'[i] = ChunkAt(i)
    <2> SUFFICES ASSUME NEW i \in 1 .. d + 1 PROVE file'[i] = ChunkAt(i)
      OBVIOUS
    <2>1. CASE i = d + 1
      BY <1>2, <1>3, <2>1 DEF ChunkAt
    <2>2. CASE i # d + 1
      <3>1. i \in 1 .. d
        BY <1>1, <2>2
      <3>2. QED
        BY <1>1, <1>2, <3>1 DEF FileExact, Done
    <2>3. QED
      BY <2>1, <2>2
  <1>5. \A k \in Block : table'[k] = IF Rank(k) < d + 1 THEN Rank(k) + 1 ELSE 0
    <2> SUFFICES ASSUME NEW k \in Block
                 PROVE  table'[k] = IF Rank(k) < d + 1 THEN Rank(k) + 1 ELSE 0
      OBVIOUS
    <2>1. Rank(k) \in Int /\ Rank(Rank(k)) = k /\ Rank(Rank(d)) = d
      <3>1. \A r \in Block : r \in Int
        BY BlocksAre
      <3>2. QED
        BY <1>1, <3>1, Places
    <2>2. CASE k = Rank(d)
      BY <1>1, <2>1, <2>2
    <2>3. CASE k # Rank(d)
      <3>1. Rank(k) # d /\ table'[k] = table[k]
        BY <1>1, <2>1, <2>3
      <3>2. table[k] = IF Rank(k) < d THEN Rank(k) + 1 ELSE 0
        BY <1>1 DEF FileExact, Done
      <3>3. QED
        BY <1>1, <2>1, <3>1, <3>2
    <2>4. QED
      BY <2>2, <2>3
  <1>6. Done' = d + 1 /\ d + 1 <= NumBlocks
    BY <1>1, <1>2 DEF Done
  <1>7. QED
    BY <1>2, <1>4, <1>5, <1>6, FrameKeeps DEF FileExact

\* The chunk that is written is the next one, whole, and the table points to it.
LEMMA WriteBlockSound ==
    ASSUME OutputTypeOK, OutputSound, WriteBlock, OutputTypeOK' PROVE OutputSound'
  <1>1. PICK bf, d, p, m, l, at : Now(bf, d, p, m, l, at)
    BY NowIs
  <1>2. PICK nl \in LoopT : nl = loop'
    BY DEF OutputTypeOK
  <1> DEFINE now == IF nl.write = l.stop THEN "finishing"
                    ELSE IF l.compress = l.stop THEN "writing" ELSE "adding"
  <1>3. /\ Frame /\ UNCHANGED buf
        /\ cur' = cur + Step * LinesTaken /\ missing' = missing - LinesTaken
        /\ ReadyToWrite /\ ~Next2Write.partiallyFull
        /\ file' = Append(file, Chunk(Next2Write))
        /\ table' = [table EXCEPT ![Quotient(cur, LinesInBuffer)] = Len(file) + 1]
    BY DEF WriteBlock, Frame, Slot
  <1>4. /\ SameLines(l, nl) /\ nl.write = l.write + Step /\ nl.compress = l.compress
        /\ nl.left = 1 /\ pc' = now
    <2>1. l = loop /\ l \in LoopT
      BY <1>1 DEF Now
    <2>2. nl = [l EXCEPT !.write = l.write + Step, !.left = 1]
      BY <1>2, <2>1 DEF WriteBlock
    <2>3. /\ SameLines(l, nl) /\ nl.write = l.write + Step /\ nl.compress = l.compress
          /\ nl.left = 1
      BY <2>1, <2>2 DEF SameLines, LoopT
    <2>4. pc' = now
      BY <2>1, <2>3 DEF WriteBlock
    <2>5. QED
      BY <2>3, <2>4
  <1> HIDE DEF now
  <1>5. /\ d \in Block /\ p \in Int /\ m \in Int /\ l \in LoopT
        /\ Begin(d) <= p /\ p <= End(d) /\ m = Height - p
        /\ WorkAt(bf, d, p, l, "writing") /\ HandAt(bf[Home(d)], d, l)
        /\ p = Greatest(FromOf(l), Begin(d))
        /\ Next2Write = bf[Home(d)] /\ ~bf[Home(d)].task /\ ~bf[Home(d)].partiallyFull
    BY <1>1, <1>3, BlockInHand
  <1>6. /\ d \in Int /\ Begin(d) \in Int /\ End(d) \in Int /\ End(d) < Height /\ Home(d) \in Slot
        /\ ToOf(l) \in Int
    BY <1>5, Lines, Places, LoopTyped
  <1>7. GathersAt(bf[Home(d)], d, ToOf(l) + 1) /\ End(d) <= ToOf(l)
    BY <1>5, <1>6 DEF HandAt
  <1>8. PICK t : t = LinesTaken
    OBVIOUS
  <1>9. t \in Int /\ p + t = End(d) + 1
    <2>1. p + t = Least(End(d), ToOf(l)) + 1 /\ t \in Int
      BY <1>5, <1>8, LinesGot DEF LinesTaken
    <2>2. QED
      BY <1>6, <1>7, <2>1 DEF Least
  <1>10. /\ p + t = (IF increasing THEN cur' ELSE Height - 1 - cur')
         /\ m - t = missing' /\ m - t = Height - (p + t)
    BY <1>1, <1>3, <1>5, <1>8, <1>9, CursorMoves, OutputAssumption DEF Now
  <1>11. FileExact' /\ Len(file') = d + 1
    <2>1. bf[Home(d)] \in BufferT /\ d = Done /\ p = Before(cur) /\ cur \in Int
          /\ increasing \in BOOLEAN
      BY <1>1, <1>6 DEF Now, OutputTypeOK
    <2>2. Chunk(Next2Write) = RightChunk(Rank(d))
      <3>1. CoversAt(bf[Home(d)], d) /\ End(d) < ToOf(l) + 1 /\ ToOf(l) + 1 \in Int
        BY <1>5, <1>6, <1>7 DEF HandAt
      <3>2. QED
        BY <1>5, <1>7, <2>1, <3>1, FullChunk
    <2>3. Quotient(cur, LinesInBuffer) = Rank(d)
      BY <1>5, <2>1, LinesByRank
    <2>4. QED
      BY <1>3, <1>5, <2>1, <2>2, <2>3, ChunkWritten DEF OutputSound
  <1>12. SoundAt(bf, d + 1, p + t, m - t, nl, now)
    <2>1. \A s \in Slot : OwnedAt(bf[s])
      BY <1>1 DEF Now, SoundAt
    <2>2. now \in {"finishing", "writing", "adding"}
      BY DEF now
    <2>3. CASE d + 1 \in Block
      <3>1. CursorAt(d + 1, p + t, m - t)
        <4>1. Begin(d + 1) = End(d) + 1 /\ d + 1 < NumBlocks
          BY <1>5, <2>3, Ranks, BlocksAre DEF OutputTypeOK
        <4>2. Begin(d + 1) <= End(d + 1)
          BY <2>3, Lines
        <4>3. QED
          BY <1>6, <1>9, <1>10, <4>1, <4>2 DEF CursorAt
      <3>2. /\ now = "finishing" => RestAt(bf, d + 1, p + t)
            /\ now # "finishing" => WorkAt(bf, d + 1, p + t, nl, now)
        BY <1>4, <1>5, <1>9, <2>3, NextBlock DEF now
      <3>3. QED
        BY <2>1, <2>2, <3>1, <3>2 DEF SoundAt, Resting
    <2>4. CASE d + 1 \notin Block
      <3>1. d = NumBlocks - 1 /\ ~(d + 1 < NumBlocks)
        BY <1>5, <2>4, BlocksAre
      <3>2. End(d) = Height - 1
        BY <1>5, <3>1, Ranks DEF OutputTypeOK
      <3>3. CursorAt(d + 1, p + t, m - t)
        BY <1>9, <1>10, <3>1, <3>2, OutputAssumption DEF CursorAt
      <3>4. QED
        BY <2>1, <2>2, <3>1, <3>3 DEF SoundAt
    <2>5. QED
      BY <2>3, <2>4
  <1>13. QED
    BY <1>1, <1>2, <1>3, <1>4, <1>10, <1>11, <1>12, SoundNext DEF Now

\* The steps that touch neither the file nor the buffers' contents.
LEMMA ReturnSound ==
    ASSUME OutputTypeOK, OutputSound,
           TooManyLines \/ Unwind \/ Report \/ Close \/ (\E s : RunAway(s)) \/ UNCHANGED vars
    PROVE  OutputSound'
  <1>1. PICK bf, d, p, m, l, at : Now(bf, d, p, m, l, at)
    BY NowIs
  <1>2. UNCHANGED buf
    <2>1. CASE Report
      <3>1. buf' = [s \in Slot |-> [buf[s] EXCEPT !.hasException = FALSE]]
        BY <2>1 DEF Report
      <3>2. \A s \in Slot : [buf[s] EXCEPT !.hasException = FALSE] = buf[s]
        <4> TAKE s \in Slot
        <4>1. buf[s] \in BufferT /\ ~buf[s].hasException
          BY <1>1 DEF Now, SoundAt, OwnedAt
        <4>2. QED
          BY <4>1 DEF BufferT
      <3>3. buf = [s \in Slot |-> buf[s]]
        BY DEF OutputTypeOK
      <3>4. QED
        BY <3>1, <3>2, <3>3
    <2>2. CASE ~Report
      BY <2>2 DEF TooManyLines, Unwind, Close, RunAway, vars
    <2>3. QED
      BY <2>1, <2>2
  <1>3. UNCHANGED <<increasing, cur, missing, file, table>>
    BY DEF TooManyLines, Unwind, Report, Close, RunAway, vars
  <1>4. Frame /\ FileExact'
    <2>1. Frame
      BY <1>2, <1>3 DEF Frame, Slot
    <2>2. QED
      BY <1>3, <2>1, FileKept DEF OutputSound
  <1>5. PICK nl, now : nl = loop' /\ now = pc'
    OBVIOUS
  <1>6. SoundAt(bf, d, p, m, nl, now)
    <2>1. SoundAt(bf, d, p, m, l, at) /\ CursorAt(d, p, m)
      BY <1>1 DEF Now, SoundAt
    <2>2. CASE TooManyLines
      <3>1. m <= 0 /\ m \in Int /\ now = "unwinding"
        BY <1>1, <1>5, <2>2 DEF TooManyLines, Now
      <3>2. ~(d < NumBlocks)
        <4>1. d < NumBlocks => p <= End(d) /\ m = Height - p /\ End(d) < Height /\ End(d) \in Int
          BY <1>1, <2>1, Lines DEF CursorAt, Now
        <4>2. p \in Int
          BY <1>1 DEF Now
        <4>3. QED
          BY <3>1, <4>1, <4>2, OutputAssumption
      <3>3. QED
        BY <2>1, <3>1, <3>2 DEF SoundAt
    <2>3. CASE Unwind \/ Report
      <3>1. /\ now = "idle" /\ at \in {"unwinding", "finishing"}
            /\ \A s \in Slot : ~bf[s].task
        BY <1>1, <1>5, <2>3 DEF Unwind, Report, NoTasks, Now
      <3>2. QED
        BY <2>1, <3>1 DEF SoundAt, Resting
    <2>4. CASE Close
      <3>1. now = "closed" /\ at = "idle"
        BY <1>1, <1>5, <2>4 DEF Close, Now
      <3>2. QED
        BY <2>1, <3>1 DEF SoundAt, Resting
    <2>5. CASE \E s : RunAway(s)
      <3>1. now = "crashed"
        BY <1>5, <2>5 DEF RunAway
      <3>2. QED
        BY <2>1, <3>1 DEF SoundAt, Resting
    <2>6. CASE UNCHANGED vars
      <3>1. now = at /\ nl = l
        BY <1>1, <1>5, <2>6 DEF vars, Now
      <3>2. QED
        BY <2>1, <3>1
    <2>7. QED
      BY <2>2, <2>3, <2>4, <2>5, <2>6
  <1>7. QED
    BY <1>1, <1>2, <1>3, <1>4, <1>5, <1>6, SoundNext DEF Now, Done, Before

\* All chunks are copied: the file is complete.
LEMMA CopyPixelsSound ==
    ASSUME OutputTypeOK, OutputSound, NEW k \in 0 .. NumBlocks,
           NEW fault \in {"none", "read", "write"}, CopyPixels(k, fault), Healthy'
    PROVE  OutputSound'
  <1>1. PICK bf, d, p, m, l, at : Now(bf, d, p, m, l, at)
    BY NowIs
  <1>2. fault = "none" /\ k = NumBlocks
    <2>1. faults' = faults \cup ({fault} \ {"none"}) /\ (fault = "none" <=> k = NumBlocks)
      BY DEF CopyPixels
    <2>2. QED
      BY <2>1 DEF Healthy
  <1>3. /\ Frame /\ UNCHANGED <<buf, pc, loop, increasing>> /\ missing = Height /\ at = "idle"
        /\ cur' = cur + Step * k * LinesInBuffer /\ missing' = missing - k * LinesInBuffer
        /\ file' = file \o Copied(k)
    BY <1>1, <1>2 DEF CopyPixels, Frame, Slot, Now, Copied, ChunkAt, RightChunk
  <1>4. NumBlocks \in Nat \ {0} /\ Block = 0 .. NumBlocks - 1 /\ Height \in Nat \ {0}
        /\ FirstLine(NumBlocks) \in Int /\ Height <= FirstLine(NumBlocks)
        /\ increasing \in BOOLEAN
    BY BlocksAre, FirstLines, OutputAssumption DEF OutputTypeOK
  <1>5. SoundAt(bf, d, p, m, l, "idle") /\ CursorAt(d, p, m) /\ m = Height /\ d = Done
        /\ p \in Int /\ d \in 0 .. NumBlocks /\ p = Before(cur) /\ bf = buf /\ l = loop
        /\ m = missing
    BY <1>1, <1>3 DEF Now, SoundAt
  <1>6. p = 0 /\ d = 0
    <2>1. d < NumBlocks /\ m = Height - p /\ Begin(d) <= p /\ d \in Block
      BY <1>4, <1>5 DEF CursorAt
    <2>2. p = 0
      BY <1>4, <1>5, <2>1
    <2>3. d # 0 => End(0) < Begin(d) /\ 0 <= Begin(0) /\ Begin(0) <= End(0) /\ End(0) \in Int
                   /\ Begin(0) \in Int /\ Begin(d) \in Int
      <3>1. 0 \in Block /\ (d # 0 => 0 < d)
        BY <1>4, <2>1
      <3>2. QED
        BY <1>4, <2>1, <3>1, RanksInOrder, Lines
    <2>4. QED
      BY <2>1, <2>2, <2>3
  <1>7. FileExact' /\ Len(file') = NumBlocks
    <2>1. /\ Copied(k) \in Seq(ChunkT) /\ Len(Copied(k)) = k
          /\ \A i \in 1 .. k : Copied(k)[i] = ChunkAt(i)
      BY CopiedTyped
    <2>2. file \in Seq(ChunkT) /\ Len(file) = 0
      BY <1>5, <1>6 DEF OutputTypeOK, Done
    <2>3. Len(file') = NumBlocks /\ \A i \in 1 .. NumBlocks : file'[i] = ChunkAt(i)
      BY <1>2, <1>3, <1>4, <2>1, <2>2
    <2>4. \A b \in Block : table'[b] = Rank(b) + 1 /\ Rank(b) < NumBlocks
      <3> SUFFICES ASSUME NEW b \in Block
                   PROVE  table'[b] = Rank(b) + 1 /\ Rank(b) < NumBlocks
        OBVIOUS
      <3>1. Rank(b) + 1 \in 1 .. NumBlocks /\ b = InLineOrder(Rank(b) + 1)
        BY <1>4 DEF Rank, InLineOrder
      <3>2. b \in {InLineOrder(i) : i \in 1 .. k}
        BY <1>2, <3>1
      <3>3. table'[b] = Len(file) + (IF increasing THEN b + 1 ELSE NumBlocks - b)
        BY <3>2 DEF CopyPixels
      <3>4. QED
        BY <1>4, <2>2, <3>3 DEF Rank
    <2>5. Done' = NumBlocks
      BY <2>3 DEF Done
    <2>6. NumBlocks <= NumBlocks
      BY <1>4
    <2>7. QED
      BY <1>3, <2>3, <2>4, <2>5, <2>6, FrameKeeps DEF FileExact
  <1> DEFINE t == FirstLine(NumBlocks)
  <1>8. /\ cur' = cur + Step * t /\ missing' = missing - t
    <2>1. Step * NumBlocks * LinesInBuffer = Step * (NumBlocks * LinesInBuffer)
      BY <1>4, OutputAssumption DEF Step
    <2>2. QED
      BY <1>2, <1>3, <2>1 DEF FirstLine
  <1>9. (IF increasing THEN cur' ELSE Height - 1 - cur') = p + t
    BY <1>4, <1>5, <1>8, CursorMoves
  <1>10. SoundAt(bf, NumBlocks, p + t, m - t, l, "idle")
    <2>1. CursorAt(NumBlocks, p + t, m - t)
      BY <1>4, <1>5, <1>6 DEF CursorAt
    <2>2. ~(NumBlocks < NumBlocks)
      BY <1>4
    <2>3. QED
      BY <1>5, <2>1, <2>2 DEF SoundAt
  <1>11. m - t = missing' /\ pc' = "idle" /\ l = loop' /\ bf = buf'
    BY <1>1, <1>3, <1>5, <1>8 DEF Now
  <1>12. QED
    BY <1>3, <1>7, <1>9, <1>10, <1>11, SoundNext

\* No step forgets a failure.
LEMMA FaultsStay == ASSUME [Next]_vars PROVE faults \subseteq faults'
  <1>1. CASE Writer
    BY <1>1 DEF Writer, AddTask, TooManyLines, KeepPartial, WriteBlock, WriteFails, Unwind, Report
  <1>2. CASE Close \/ Hung \/ Over \/ UNCHANGED vars
    BY <1>2 DEF Close, Hung, Over, vars
  <1>3. CASE \E s \in Slot : Execute(s) \/ RunAway(s)
    BY <1>3 DEF Execute, RunAway
  <1>4. CASE \E n \in 0 .. Height + 2 * LinesInBuffer : WritePixels(n)
    BY <1>4 DEF WritePixels
  <1>5. CASE \E k \in 0 .. NumBlocks, fault \in {"none", "read", "write"} : CopyPixels(k, fault)
    BY <1>5 DEF CopyPixels
  <1>6. QED
    BY <1>1, <1>2, <1>3, <1>4, <1>5 DEF Next

\* Every step keeps the invariant.
LEMMA SoundKept == OutputInv /\ [Next]_vars => OutputInv'
  <1> SUFFICES ASSUME OutputInv, [Next]_vars PROVE OutputInv'
    OBVIOUS
  <1>1. OutputTypeOK /\ OutputTypeOK'
    BY TypeKept DEF OutputInv
  <1>2. ASSUME Healthy' PROVE OutputSound'
    <2>1. OutputSound
      BY <1>2, FaultsStay DEF OutputInv, Healthy
    <2>2. ASSUME NEW n \in 0 .. Height + 2 * LinesInBuffer, WritePixels(n) PROVE OutputSound'
      <3>1. n \in Nat
        BY OutputAssumption
      <3>2. QED
        BY <1>1, <2>1, <2>2, <3>1, WritePixelsSound
    <2>3. CASE \/ TooManyLines \/ Unwind \/ Report \/ Close \/ Hung \/ Over \/ UNCHANGED vars
               \/ \E s \in Slot : RunAway(s)
      BY <1>1, <2>1, <2>3, ReturnSound DEF Hung, Over
    <2>4. CASE WriteFails
      BY <1>2, <2>4 DEF WriteFails, Healthy
    <2>5. CASE AddTask
      BY <1>1, <2>1, <2>5, AddTaskSound
    <2>6. CASE KeepPartial
      BY <1>1, <2>1, <2>6, KeepPartialSound
    <2>7. CASE WriteBlock
      BY <1>1, <2>1, <2>7, WriteBlockSound
    <2>8. CASE \E s \in Slot : Execute(s)
      BY <1>1, <1>2, <2>1, <2>8, ExecuteSound
    <2>9. CASE \E k \in 0 .. NumBlocks, fault \in {"none", "read", "write"} : CopyPixels(k, fault)
      BY <1>1, <1>2, <2>1, <2>9, CopyPixelsSound
    <2>10. QED
      BY <2>2, <2>3, <2>4, <2>5, <2>6, <2>7, <2>8, <2>9 DEF Next, Writer
  <1>3. QED
    BY <1>1, <1>2 DEF OutputInv

-----------------------------------------------------------------------------
(***************************************************************************)
(* In every state of an OutputFile in which nothing has failed, the chunks of *)
(* the first blocks are in the file and the line buffers hold what was given *)
(* of the blocks after them (writePixels, LineBufferTask).                 *)
(***************************************************************************)
THEOREM OutputInvariant == Spec => []OutputInv
  <1>1. Init => OutputInv
    BY InitType, InitSound DEF OutputInv
  <1>2. QED
    BY <1>1, SoundKept, PTL DEF Spec

\* FileExact, stated by places in the file, is FileSound.
LEMMA InvFileSound == OutputInv => FileSound
  <1> SUFFICES ASSUME OutputInv, Healthy PROVE FileSound
    BY DEF FileSound, Healthy
  <1>1. FileExact /\ OutputTypeOK
    BY DEF OutputInv, OutputSound
  <1>2. /\ Len(file) \in Nat /\ NumBlocks \in Nat /\ Block = 0 .. NumBlocks - 1
        /\ increasing \in BOOLEAN /\ Len(file) <= NumBlocks
    BY <1>1, BlocksAre DEF OutputTypeOK, FileExact, Done
  <1>3. ASSUME NEW i \in 1 .. Len(file)
        PROVE  LET k == InLineOrder(i) IN
               /\ file[i] = [minY |-> FirstLine(k), lines |-> LinesOf(k)]
               /\ table[k] = i
    <2>1. InLineOrder(i) \in Block /\ Rank(InLineOrder(i)) = i - 1
      BY <1>2 DEF InLineOrder, Rank
    <2>2. file[i] = ChunkAt(i)
      BY <1>1 DEF FileExact, Done
    <2>3. table[InLineOrder(i)] = i
      BY <1>1, <1>2, <2>1 DEF FileExact, Done
    <2>4. QED
      BY <2>2, <2>3 DEF ChunkAt, RightChunk
  <1>4. ASSUME NEW k \in Block, table[k] # 0
        PROVE  k \in {InLineOrder(i) : i \in 1 .. Len(file)}
    <2>1. Rank(k) < Len(file)
      BY <1>1, <1>4 DEF FileExact, Done
    <2>2. Rank(k) + 1 \in 1 .. Len(file) /\ InLineOrder(Rank(k) + 1) = k
      BY <1>2, <2>1 DEF Rank, InLineOrder
    <2>3. QED
      BY <2>2
  <1>5. QED
    BY <1>2, <1>3, <1>4 DEF FileSound

(***************************************************************************)
(* However many lines each call of writePixels brings, in whichever order the *)
(* tasks end and whether or not copyPixels came first: the chunks are in the *)
(* file in line order, once each and with their own lines, and the offset  *)
(* table points each written block, and no other, to its chunk.            *)
(***************************************************************************)
THEOREM FileAlwaysSound == Spec => []FileSound
  BY OutputInvariant, InvFileSound, PTL

\* The types of the invariant are those that a run checks.
LEMMA InvType == OutputInv => TypeOK
  <1> SUFFICES ASSUME OutputInv PROVE TypeOK
    OBVIOUS
  <1>1. ASSUME NEW s \in Slot
        PROVE  /\ buf[s].sem \in {0, 1}
               /\ buf[s].task => buf[s].sem = 0
               /\ buf[s].content \in [0 .. LinesInBuffer - 1 -> Line \cup {-1}]
    <2>1. buf[s] \in BufferT /\ (buf[s].task => buf[s].sem = 0)
      BY DEF OutputInv, OutputTypeOK
    <2>2. QED
      BY <2>1 DEF BufferT
  <1>2. QED
    BY <1>1 DEF OutputInv, OutputTypeOK, TypeOK

\* The lines of a block that have been accepted, by places.
LEMMA AcceptedLines ==
    ASSUME OutputTypeOK, NEW k \in Block
    PROVE  /\ Accepted(k) = {y \in First(Rank(k)) .. Last(Rank(k)) : Before(y) < Before(cur)}
           /\ First(Rank(k)) = FirstLine(k) /\ Last(Rank(k)) = LastLine(k)
           /\ Home(Rank(k)) = SlotOf(k) /\ Rank(k) \in Block
  <1>1. increasing \in BOOLEAN /\ cur \in Int /\ Height \in Int
    BY OutputAssumption DEF OutputTypeOK
  <1>2. Rank(k) \in Block /\ Rank(Rank(k)) = k
    BY <1>1, Ranks
  <1>3. First(Rank(k)) = FirstLine(k) /\ Last(Rank(k)) = LastLine(k) /\ Home(Rank(k)) = SlotOf(k)
    BY <1>2 DEF First, Last, Home
  <1>4. \A y \in FirstLine(k) .. LastLine(k) :
            (IF increasing THEN y < cur ELSE y > cur) <=> Before(y) < Before(cur)
    <2>1. FirstLine(k) \in Int /\ LastLine(k) \in Int
      BY LinesOfBlocks
    <2>2. QED
      BY <1>1, <2>1 DEF Before
  <1>5. QED
    BY <1>2, <1>3, <1>4 DEF Accepted

\* Between calls only the next block waits in a buffer, with the lines before the cursor.
LEMMA InvCursorSound == OutputInv => CursorSound
  <1> SUFFICES ASSUME OutputInv, pc = "idle", Healthy PROVE CursorSound
    BY DEF CursorSound, Healthy
  <1>1. OutputTypeOK /\ OutputSound /\ FileExact
    BY DEF OutputInv, OutputSound
  <1>2. PICK bf, d, p, m, l, at : Now(bf, d, p, m, l, at)
    BY <1>1, NowIs
  <1>3. /\ bf = buf /\ d = Done /\ p = Before(cur) /\ m = missing /\ d \in 0 .. NumBlocks
        /\ (d < NumBlocks <=> d \in Block) /\ p \in Int /\ m \in Int
        /\ SoundAt(bf, d, p, m, l, "idle") /\ CursorAt(d, p, m)
        /\ (d < NumBlocks => RestAt(bf, d, p))
    BY <1>2 DEF Now, SoundAt, Resting
  <1>4. NumBlocks \in Nat \ {0} /\ Block = 0 .. NumBlocks - 1 /\ Height \in Nat \ {0}
        /\ cur \in Int /\ increasing \in BOOLEAN /\ d \in Int
    BY <1>1, <1>3, BlocksAre, OutputAssumption DEF OutputTypeOK
  <1>5. missing > 0 => missing = IF increasing THEN Height - cur ELSE cur + 1
    <2>1. m > 0 => m = Height - p
      BY <1>3 DEF CursorAt
    <2>2. QED
      BY <1>3, <1>4, <2>1 DEF Before
  <1>6. \A s \in Slot : buf[s].sem = 1 /\ ~buf[s].hasException
    BY <1>3 DEF SoundAt, OwnedAt
  <1>7. ASSUME NEW k \in Block
        PROVE  LET b == buf[SlotOf(k)] IN
               IF Accepted(k) = FirstLine(k) .. LastLine(k) THEN table[k] # 0
               ELSE /\ table[k] = 0
                    /\ Accepted(k) # {} =>
                       /\ b.partiallyFull /\ b.minY = FirstLine(k) /\ b.maxY = LastLine(k)
                       /\ \A y \in Accepted(k) : b.content[y % LinesInBuffer] = y
    <2> DEFINE r == Rank(k)
    <2>1. /\ Accepted(k) = {y \in First(r) .. Last(r) : Before(y) < p}
          /\ First(r) = FirstLine(k) /\ Last(r) = LastLine(k) /\ Home(r) = SlotOf(k)
          /\ r \in Block
      BY <1>1, <1>3, AcceptedLines
    <2>2. table[k] = IF r < d THEN r + 1 ELSE 0
      BY <1>1, <1>3 DEF FileExact
    <2> HIDE DEF r
    <2>3. /\ r \in Int /\ 0 <= r /\ First(r) \in Int /\ Last(r) \in Int /\ First(r) <= Last(r)
          /\ Begin(r) \in Int /\ End(r) \in Int
          /\ Begin(r) = (IF increasing THEN First(r) ELSE Height - 1 - Last(r))
          /\ End(r) = (IF increasing THEN Last(r) ELSE Height - 1 - First(r))
          /\ End(r) < Height
          /\ \A y \in First(r) .. Last(r) :
                 Before(y) \in Int /\ Begin(r) <= Before(y) /\ Before(y) <= End(r)
      BY <1>1, <1>4, <2>1, Lines
    <2>4. PICK z \in First(r) .. Last(r) : Before(z) = End(r)
      <3>1. CASE increasing
        <4>1. Last(r) \in First(r) .. Last(r) /\ Before(Last(r)) = End(r)
          BY <2>3, <3>1 DEF Before
        <4>2. QED
          BY <4>1
      <3>2. CASE ~increasing
        <4>1. First(r) \in First(r) .. Last(r) /\ Before(First(r)) = End(r)
          BY <2>3, <3>2 DEF Before
        <4>2. QED
          BY <4>1
      <3>3. QED
        BY <3>1, <3>2
    <2>5. CASE r < d
      <3>1. End(r) < p
        <4>1. CASE d < NumBlocks
          <5>1. d \in Block /\ Begin(d) <= p /\ Begin(d) \in Int
            BY <1>1, <1>3, <4>1, Lines DEF CursorAt
          <5>2. End(r) < Begin(d)
            BY <1>4, <2>1, <2>5, <5>1, RanksInOrder
          <5>3. QED
            BY <1>3, <2>3, <5>1, <5>2
        <4>2. CASE ~(d < NumBlocks)
          <5>1. Height <= p
            BY <1>3, <4>2 DEF CursorAt
          <5>2. QED
            BY <1>3, <1>4, <2>3, <5>1
        <4>3. QED
          BY <4>1, <4>2
      <3>2. Accepted(k) = First(r) .. Last(r)
        BY <1>3, <2>1, <2>3, <3>1
      <3>3. table[k] # 0
        BY <2>2, <2>3, <2>5
      <3>4. QED
        BY <2>1, <3>2, <3>3
    <2>6. CASE ~(r < d)
      <3>1. d < NumBlocks /\ d \in Block /\ Begin(d) <= p /\ p <= End(d) /\ RestAt(bf, d, p)
        <4>1. d < NumBlocks
          BY <1>4, <2>1, <2>3, <2>6
        <4>2. QED
          BY <1>3, <4>1 DEF CursorAt
      <3>2. p <= End(r)
        <4>1. d < r => End(d) < Begin(r) /\ End(d) \in Int /\ Begin(r) <= End(r)
          BY <1>1, <1>4, <2>1, <3>1, RanksInOrder, Lines
        <4>2. QED
          BY <1>3, <1>4, <2>3, <2>6, <3>1, <4>1
      <3>3. Accepted(k) # FirstLine(k) .. LastLine(k)
        <4>1. z \notin Accepted(k)
          BY <1>3, <2>1, <2>3, <2>4, <3>2
        <4>2. QED
          BY <2>1, <2>4, <4>1
      <3>4. ASSUME NEW x \in Accepted(k)
            PROVE  /\ buf[SlotOf(k)].partiallyFull
                   /\ buf[SlotOf(k)].minY = FirstLine(k) /\ buf[SlotOf(k)].maxY = LastLine(k)
                   /\ \A y \in Accepted(k) : buf[SlotOf(k)].content[y % LinesInBuffer] = y
        <4>1. Begin(r) < p
          BY <1>3, <2>1, <2>3, <3>4
        <4>2. r = d
          <5>1. d < r => End(d) < Begin(r) /\ End(d) \in Int
            BY <1>1, <1>4, <2>1, <3>1, RanksInOrder, Lines
          <5>2. QED
            BY <1>3, <1>4, <2>3, <2>6, <3>1, <4>1, <5>1
        <4>3. Home(r) \in Slot
          BY <1>1, <2>3, Places
        <4>4. WaitsAt(bf[Home(r)], r, p)
          BY <3>1, <4>2, <4>3 DEF RestAt
        <4>5. /\ bf[Home(r)].partiallyFull /\ CoversAt(bf[Home(r)], r)
              /\ GathersAt(bf[Home(r)], r, p)
          BY <4>1, <4>4 DEF WaitsAt
        <4>6. QED
          BY <1>3, <2>1, <4>5 DEF CoversAt, GathersAt
      <3>5. table[k] = 0
        BY <2>2, <2>6
      <3>6. QED
        BY <3>3, <3>4, <3>5
    <2>7. QED
      BY <2>5, <2>6
  <1>8. QED
    BY <1>5, <1>6, <1>7 DEF CursorSound

(***************************************************************************)
(* Between calls missingScanLines and currentScanLine agree, each line buffer *)
(* is free, and the one block that is not complete waits in its buffer with *)
(* the lines accepted so far.                                              *)
(***************************************************************************)
THEOREM CursorAlwaysSound == Spec => []CursorInv
  <1>1. OutputInv => CursorInv
    BY InvType, InvCursorSound DEF CursorInv
  <1>2. QED
    BY <1>1, OutputInvariant, PTL
=============================================================================
