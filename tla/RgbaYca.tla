------------------------------ MODULE RgbaYca ------------------------------
(***************************************************************************)
(* The luminance/chroma files of RgbaOutputFile and RgbaInputFile          *)
(* (ImfRgbaFile.cpp, ImfRgbaYca.cpp).  Chroma is stored for every second   *)
(* line, after a vertical low-pass filter over N lines, and reconstructed  *)
(* from the N lines around when the file is read.  ToYca keeps the last N  *)
(* lines in a rotating window and writes each line N2 lines late; FromYca  *)
(* keeps N + 2 lines around the one read last, so that going on to a line  *)
(* nearby only needs the lines that are missing.                           *)
(*                                                                         *)
(* A line is its number, counted from the top of the data window, whose    *)
(* corner and size are even for such a file (Header::sanityCheck): only    *)
(* even lines have chroma in the file.  What a filter makes of lines is    *)
(* the lines themselves, with their place in the window.  What happens     *)
(* along a line does not depend on the calls and is left out.              *)
(***************************************************************************)
EXTENDS Integers, Sequences

CONSTANTS N,         \* width of the filters
          Heights,   \* of images
          MaxFails   \* bound on the reads that fail

N2 == N \div 2

ASSUME FilterAssumption ==
    /\ N \in Nat /\ N % 4 = 3      \* N2 is odd, as it is for 27
    /\ \A h \in Heights : h \in Nat \ {0} /\ h % 2 = 0
    /\ MaxFails \in Nat

VARIABLES
    height, order,    \* _height, and _lineOrder: "increasing" or "decreasing"
    chroma,           \* _writeC: luminance and chroma, or luminance only
    side,             \* the file is a "writer" or a "reader"
    \* ToYca
    buf,              \* _buf
    converted,        \* _linesConverted
    scanLine,         \* _currentScanLine
    written,          \* the lines given to the OutputFile
    \* FromYca
    buf1, buf2,       \* _buf1, _buf2
    lastLine,         \* _currentScanLine
    todo,             \* lines of the call of readPixels that are left
    frame,            \* the line stored last in the frame buffer
    mixed,            \* history: a read failed, and not all lines were read again since
    fails             \* reads that failed

imageVars == <<height, order, chroma, side>>
toVars == <<buf, converted, scanLine, written>>
fromVars == <<buf1, buf2, lastLine, todo, frame, mixed, fails>>
ycaVars == <<height, order, chroma, side, buf, converted, scanLine, written,
          buf1, buf2, lastLine, todo, frame, mixed, fails>>

Junk == -100      \* memory that was not written
Line == 0 .. height - 1
Window == 0 .. N - 1
Even(n) == n % 2 = 0

\* The places that a vertical filter looks at besides the middle.
Taps == {k \in Window : ~Even(k - N2)}

\* A line with the lines that its chroma comes from, by place in the window.
Plain(y) == [line |-> y, taps |-> [k \in {N2} |-> y]]

YcaInit ==
    /\ height \in Heights /\ order \in {"increasing", "decreasing"}
    /\ chroma \in BOOLEAN /\ side \in {"writer", "reader"}
    /\ ~chroma => side = "writer"
    /\ buf = [k \in Window |-> Junk] /\ converted = 0
    /\ scanLine = IF order = "increasing" THEN 0 ELSE height - 1
    /\ written = <<>>
    /\ buf1 = [k \in 0 .. N + 1 |-> Junk] /\ buf2 = [k \in 0 .. 2 |-> Plain(Junk)]
    /\ lastLine = -N - 2
    /\ todo = <<>> /\ frame = <<>> /\ mixed = FALSE /\ fails = 0

-----------------------------------------------------------------------------
(* ToYca::writePixels, one line at a time: the lines of a call are those of *)
(* as many calls.                                                           *)

\* rotateBuffers, and a new last buffer.
Rotated(b, last) == [k \in Window |-> IF k = N - 1 THEN last ELSE b[k + 1]]
DuplicateSecondToLast(b) == Rotated(b, b[N - 2])

Smaller(a, b) == IF a < b THEN a ELSE b

\* duplicateLastBuffer n times: the window moves on, and its last line fills the rest.
DuplicateLast(b, n) == [k \in Window |-> b[Smaller(k + n, N - 1)]]

\* decimateChromaVert, the chroma half of a line: the middle and the taps.
DecimateChromaVert(b) == [line |-> b[N2], taps |-> [k \in Taps \cup {N2} |-> b[k]]]

\* decimateChromaVertAndWriteScanLine
Decimated(b, lines) == IF Even(lines) THEN DecimateChromaVert(b) ELSE Plain(b[N2])

\* The window after a line was converted; the first line is repeated before it.
Converted(y) ==
    LET b == Rotated(buf, y)
    IN IF converted = 0 THEN DuplicateLast(b, N2) ELSE b

\* Bug: the lines below the image repeat its last line, which has no chroma.
BadFirstAfterLast(b) ==
    LET short == IF N2 > height THEN N2 - height ELSE 0
    IN DuplicateLast(b, short + 1)

\* What follows the last line: its repetitions in a short image, and the line before.
FirstAfterLast(b) ==
    LET short == IF N2 > height THEN N2 - height ELSE 0
    IN DuplicateSecondToLast(DuplicateLast(b, short))

\* The lines that the last line of the image pushes out, and the window then.
Rest(b, lines) ==
    LET w(i) == DuplicateLast(FirstAfterLast(b), i)
        count == Smaller(height, N2)
    IN [out |-> [i \in 1 .. count |-> Decimated(w(i - 1), lines + i)],
        window |-> w(count - 1), lines |-> lines + count]

GoOn == scanLine' = scanLine + IF order = "increasing" THEN 1 ELSE -1

WriteChroma ==
    LET b == Converted(scanLine)
        n == converted + 1
        out == IF n > N2 THEN <<Decimated(b, n)>> ELSE <<>>
        rest == Rest(b, n)
    IN
    /\ side = "writer" /\ chroma /\ scanLine \in Line
    /\ IF n >= height
       THEN written' = written \o out \o rest.out /\ buf' = rest.window /\ converted' = rest.lines
       ELSE written' = written \o out /\ buf' = b /\ converted' = n
    /\ GoOn
    /\ UNCHANGED <<imageVars, fromVars>>

\* Luminance only needs no filter.
WriteLuminance ==
    /\ side = "writer" /\ ~chroma /\ scanLine \in Line
    /\ written' = Append(written, Plain(scanLine))
    /\ converted' = converted + 1
    /\ GoOn
    /\ UNCHANGED <<imageVars, fromVars, buf>>

-----------------------------------------------------------------------------
(* FromYca::readPixels.                                                     *)

Abs(n) == IF n < 0 THEN -n ELSE n

\* rotateBuf1, rotateBuf2
Turned(b, n, d) == [k \in 0 .. n - 1 |-> b[(k + d) % n]]

\* readYCAScanLine: the line that is read for y; only even lines have chroma.
Clamped(y) == IF y < 0 THEN 0 ELSE IF y >= height THEN height - 2 ELSE y

\* How many places of buf1 have to be filled for line y, and the first j of them that
\* are: those at its end, upwards, or those at its beginning, downwards.
Missing(y) == Smaller(Abs(y - lastLine), N + 2)

Places(y, j) ==
    LET n == Missing(y)
    IN IF y < lastLine THEN n - j .. n - 1 ELSE N + 2 - n .. N + 1 - n + j

Kept(y) ==
    LET dy == y - lastLine IN IF Abs(dy) < N + 2 THEN Turned(buf1, N + 2, dy) ELSE buf1

\* Bug: when the whole window has to be read, one line is left out.
BadFilled(y, j) ==
    [k \in 0 .. N + 1 |-> IF k \in Places(y, Smaller(j, N + 1)) THEN Clamped(y - N2 - 1 + k)
                          ELSE Kept(y)[k]]

\* buf1 when j of the missing lines were read.
Filled(y, j) ==
    [k \in 0 .. N + 1 |-> IF k \in Places(y, j) THEN Clamped(y - N2 - 1 + k) ELSE Kept(y)[k]]

Turned2(y) ==
    LET dy == y - lastLine IN IF Abs(dy) < 3 THEN Turned(buf2, 3, dy) ELSE buf2

\* reconstructChromaVert for the window of b that starts at place i.
ReconstructChromaVert(b, i) == [line |-> b[i + N2], taps |-> [k \in Taps |-> b[i + k]]]

\* buf2 for line y: the three lines around it, those that are new being made from b.
Made(y, b) ==
    LET dy == y - lastLine
        n == Smaller(Abs(dy), 3)
    IN [i \in 0 .. 2 |->
           IF IF dy < 0 THEN i < n ELSE i > 2 - n
           THEN IF Even(y + i) THEN ReconstructChromaVert(b, i) ELSE Plain(b[N2 + i])
           ELSE Turned2(y)[i]]

\* The lines of a call, in the order of the file.
Call ==
    /\ side = "reader" /\ todo = <<>>
    /\ \E lo, hi \in Line :
          /\ lo <= hi
          /\ todo' = [i \in 1 .. hi - lo + 1 |->
                         IF order = "increasing" THEN lo + i - 1 ELSE hi - i + 1]
    /\ UNCHANGED <<imageVars, toVars, buf1, buf2, lastLine, frame, mixed, fails>>

Far(y) == Abs(y - lastLine) >= N + 2

ReadLine ==
    LET y == Head(todo)
        b == Filled(y, Missing(y))
        b2 == Made(y, b)
    IN
    /\ side = "reader" /\ todo # <<>>
    /\ buf1' = b /\ buf2' = b2
    /\ frame' = <<y, b2>>
    /\ lastLine' = y
    /\ todo' = Tail(todo)
    /\ mixed' = (mixed /\ ~Far(y))
    /\ UNCHANGED <<imageVars, toVars, fails>>

\* InputPart::readPixels throws: the buffers are rotated, and in part filled.
ReadFails ==
    LET y == Head(todo) IN
    /\ side = "reader" /\ todo # <<>>
    /\ fails < MaxFails
    /\ \E j \in 0 .. Missing(y) - 1 : buf1' = Filled(y, j)
    /\ buf2' = Turned2(y)
    /\ todo' = <<>>
    /\ mixed' = TRUE /\ fails' = fails + 1
    /\ UNCHANGED <<imageVars, toVars, lastLine, frame>>

YcaNext == WriteChroma \/ WriteLuminance \/ Call \/ ReadLine \/ ReadFails

YcaSpec == YcaInit /\ [][YcaNext]_ycaVars

-----------------------------------------------------------------------------
\* The line written as the i-th.
InTurn(i) == IF order = "increasing" THEN i - 1 ELSE height - i

\* The lines around y that a filter should see: beyond the image its first line, and
\* its last line but one, which has chroma.
Around(y) ==
    [k \in Taps \cup {N2} |->
        LET m == y + k - N2 IN IF m < 0 THEN 0 ELSE IF m >= height THEN height - 2 ELSE m]

(***************************************************************************)
(* The lines go to the file in its order, each once and with its own       *)
(* luminance, N2 lines behind the application, and the last ones with the  *)
(* last line; the chroma that is stored, that of even lines, is filtered   *)
(* over the lines around.  Exception: in a file in decreasing order, and   *)
(* in an image of less than N2 lines, it is the odd lines that are         *)
(* filtered, whose chroma is not stored.                                   *)
(***************************************************************************)
LinesWritten ==
    /\ \A i \in DOMAIN written :
          /\ written[i].line = InTurn(i)
          /\ chroma /\ order = "increasing" /\ height > N2 /\ Even(InTurn(i)) =>
                 written[i].taps = Around(InTurn(i))
    /\ side = "writer" =>
          LET given == IF order = "increasing" THEN scanLine ELSE height - 1 - scanLine
          IN Len(written) = IF given = height \/ ~chroma THEN given
                            ELSE IF given > N2 THEN given - N2 ELSE 0

\* The three lines around y, the odd ones with the chroma of the even lines around.
Expected(y) ==
    [i \in 0 .. 2 |->
        LET m == y - 1 + i IN
        IF Even(m) THEN Plain(Clamped(m))
        ELSE [line |-> Clamped(m), taps |-> [k \in Taps |-> Clamped(m + k - N2)]]]

(***************************************************************************)
(* A line that was read is made from the lines around it, whatever lines   *)
(* were read before and in which order, and only from lines that have      *)
(* chroma.  Exception: after a read that failed, until a line so far away  *)
(* is read that nothing of the window is used again.                       *)
(***************************************************************************)
LinesRead ==
    frame # <<>> /\ ~mixed =>
        /\ frame[2] = Expected(frame[1])
        /\ \A i \in 0 .. 2 : \A k \in DOMAIN frame[2][i].taps : Even(frame[2][i].taps[k])
=============================================================================
