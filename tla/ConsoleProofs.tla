---------------------------- MODULE ConsoleProofs ----------------------------
(***************************************************************************)
(* Proofs of the console's invariants, for a screen of any size, a page of *)
(* any length and every number of calls in the middle of one another.      *)
(***************************************************************************)
EXTENDS Console, SequenceTheorems, TLAPS

-----------------------------------------------------------------------------
(* The inductive invariant: the calls, and the row of the cursor.          *)

Bytes == 0..(ByteMod - 1)

Frames == [op : Operations, at : Steps, x : Bytes, y : Bytes]

\* Only a character is stored, only a character or a newline scrolls, and the
\* cursor is not sent to a row behind the last.
FrameSound(f) ==
    /\ f.at \in {"test", "load", "store", "right", "setcolumn"} => f.op \in Characters
    /\ f.at \in {"wrap", "row", "setrow", "scroll"} => f.op \in Characters \cup {"nl"}
    /\ f.at \in {"column", "line"} => f.y < ROWS

FramesSound == \A i \in 1..Len(frames) : FrameSound(frames[i])

\* While the cursor is below the screen, some call is about to scroll.
RowSound == yPos < ROWS \/ \E i \in 1..Len(frames) : frames[i].at = "scroll"

-----------------------------------------------------------------------------
(* And what the screen shows in the middle of a call that nothing has      *)
(* interrupted: f is the call, (x, y) the cursor, v the video memory, p    *)
(* the page as it will be after the call, and (l, c) its cursor.           *)

Cell(r, c) == r * COLUMNS + c

TopOf(l) == IF l < ROWS THEN 0 ELSE l - ROWS + 1

OnPage(p, l, c) == IF l <= MaxLine THEN p[<<l, c>>] ELSE " "

\* The screen shows the page from line t on, except in the places of a hole.
Shown(v, p, t, hole) ==
    \A r \in 0..(ROWS - 1), c \in 0..(COLUMNS - 1) :
        <<t + r, c>> \in hole \/ v[Cell(r, c)] = OnPage(p, t + r, c)

\* Behind the cursor the page is empty.
BlankBehind(p, l, c) ==
    \A k \in 0..MaxLine, j \in 0..(COLUMNS - 1) :
        (k > l \/ (k = l /\ j >= c)) => p[<<k, j>>] = " "

Done(x, y, v, p, l, c) == x = c /\ y = l - TopOf(l) /\ Shown(v, p, TopOf(l), {})

\* The end of a line, on the way to line l.
Breaking(f, x, y, v, p, l, c) ==
    /\ l >= 1 /\ c = (IF f.op = "nl" THEN 0 ELSE 1)
    /\ Shown(v, p, TopOf(l - 1), {<<l, c - 1>>})
    /\ \/ f.at = "wrap" /\ y = l - 1 - TopOf(l - 1)
       \/ f.at = "row" /\ x = 0 /\ y = l - 1 - TopOf(l - 1)
       \/ f.at = "setrow" /\ x = 0 /\ f.y = l - TopOf(l - 1)
       \/ f.at = "scroll" /\ x = 0 /\ y = l - TopOf(l - 1)

\* A character, for the place before the cursor of the page.
Putting(f, x, y, v, p, l, c) ==
    /\ c >= 1 /\ y = l - TopOf(l)
    /\ \/ /\ f.at \in {"test", "load"} \/ (f.at = "store" /\ f.x = x /\ f.y = y)
          /\ x = c - 1 /\ Shown(v, p, TopOf(l), {<<l, c - 1>>})
       \/ f.at = "right" /\ x = c - 1 /\ Shown(v, p, TopOf(l), {})
       \/ f.at = "setcolumn" /\ f.x = c /\ Shown(v, p, TopOf(l), {})

\* A backspace, of the place at the cursor of the page.
Erasing(f, x, y, v, p, l, c) ==
    /\ c < COLUMNS /\ y = l - TopOf(l) /\ Shown(v, p, TopOf(l), {<<l, c>>})
    /\ \/ f.at = "backspace" /\ (x = c + 1 \/ (x = 0 /\ c = 0))
       \/ f.at = "backspacey" /\ f.x = x /\ (x = c + 1 \/ (x = 0 /\ c = 0))
       \/ f.at \in {"goto", "column"} /\ f.x = c /\ f.y = y
       \/ f.at = "line" /\ x = c /\ f.y = y
       \/ f.at \in {"cursor", "wherex"} /\ x = c
       \/ f.at = "wherey" /\ x = c /\ f.x = c
       \/ f.at = "blank" /\ x = c /\ f.x = c /\ f.y = y

Clearing(f, x, y, v, p, l, c) ==
    /\ l = 0 /\ c = 0
    /\ \/ f.at = "clear" /\ p = Empty
       \/ f.at = "column" /\ f.x = 0 /\ f.y = 0 /\ Shown(v, p, 0, {})
       \/ f.at = "line" /\ x = 0 /\ f.y = 0 /\ Shown(v, p, 0, {})

InCall(f, x, y, v, p, l, c) ==
    \/ f.op \in Characters \cup {"nl"} /\ Breaking(f, x, y, v, p, l, c)
    \/ f.op \in Characters /\ f.at = "test" /\ x = COLUMNS /\ c = 1 /\ l >= 1
       /\ y = l - 1 - TopOf(l - 1) /\ Shown(v, p, TopOf(l - 1), {<<l, c - 1>>})
    \/ f.op \in Characters /\ Putting(f, x, y, v, p, l, c)
    \/ f.op = "backspace" /\ Erasing(f, x, y, v, p, l, c)
    \/ f.op = "clear" /\ Clearing(f, x, y, v, p, l, c)
    \/ /\ f.at = "return" \/ (f.at = "cursor" /\ f.op # "backspace")
       /\ Done(x, y, v, p, l, c)

\* The page already holds the character that is being printed.
Written(f, p, l, c) == f.op \in Characters => OnPage(p, l, c - 1) = f.op

ScreenSound ==
    ~disturbed =>
        /\ ~overrun /\ BlankBehind(page, line, col)
        /\ \/ frames = <<>> /\ Done(xPos, yPos, video, page, line, col)
           \/ /\ Len(frames) = 1 /\ Written(Top, page, line, col)
              /\ InCall(Top, xPos, yPos, video, page, line, col)

IInv == TypeOK /\ FramesSound /\ RowSound /\ ScreenSound
-----------------------------------------------------------------------------
(* The cells of the screen.                                                *)

LEMMA Sizes ==
    /\ COLUMNS \in Nat /\ COLUMNS >= 1 /\ ROWS \in Nat /\ ROWS >= 1
    /\ ByteMod \in Nat /\ COLUMNS < ByteMod /\ ROWS < ByteMod
    /\ MaxDepth \in Nat /\ MaxLine \in Nat
<1>1. /\ COLUMNS \in Nat \ {0} /\ ROWS \in Nat \ {0}
      /\ ByteMod \in Nat /\ COLUMNS < ByteMod /\ ROWS + MaxDepth < ByteMod
      /\ MaxDepth \in Nat \ {0} /\ MaxLine \in Nat
  BY ConsoleAssumption
<1> QED
  BY <1>1

LEMMA ProductSteps ==
    ASSUME NEW r \in Nat, NEW s \in Nat, NEW n \in Nat, r < s
    PROVE  r * n \in Nat /\ s * n \in Nat /\ r * n + n <= s * n
<1>1. PICK k \in Nat : s = r + 1 + k
  <2>1. s - r - 1 \in Nat /\ s = r + 1 + (s - r - 1)
    OBVIOUS
  <2> QED
    BY <2>1
<1>2. s * n = r * n + n + k * n
  BY <1>1
<1>3. k * n \in Nat /\ r * n \in Nat
  OBVIOUS
<1> QED
  BY <1>2, <1>3

LEMMA CellIn ==
    ASSUME NEW r \in 0..(ROWS - 1), NEW c \in 0..(COLUMNS - 1)
    PROVE  Cell(r, c) \in Cells
<1>1. r \in Nat /\ ROWS \in Nat /\ COLUMNS \in Nat /\ r < ROWS
  BY Sizes
<1>2. r * COLUMNS \in Nat /\ ROWS * COLUMNS \in Nat /\ r * COLUMNS + COLUMNS <= ROWS * COLUMNS
  BY <1>1, ProductSteps
<1>3. ROWS * COLUMNS = COLUMNS * ROWS
  BY <1>1
<1> QED
  BY <1>1, <1>2, <1>3 DEF Cell, Cells

LEMMA CellsDiffer ==
    ASSUME NEW r \in 0..(ROWS - 1), NEW c \in 0..(COLUMNS - 1),
           NEW s \in 0..(ROWS - 1), NEW d \in 0..(COLUMNS - 1),
           Cell(r, c) = Cell(s, d)
    PROVE  r = s /\ c = d
<1>1. r \in Nat /\ s \in Nat /\ COLUMNS \in Nat
  BY Sizes
<1>2. r * COLUMNS \in Nat /\ s * COLUMNS \in Nat
  BY <1>1
<1>3. ~(r < s)
  <2>1. SUFFICES ASSUME r < s PROVE FALSE
    OBVIOUS
  <2>2. r * COLUMNS + COLUMNS <= s * COLUMNS
    BY <1>1, <2>1, ProductSteps
  <2> QED
    BY <1>1, <1>2, <2>2 DEF Cell
<1>4. ~(s < r)
  <2>1. SUFFICES ASSUME s < r PROVE FALSE
    OBVIOUS
  <2>2. s * COLUMNS + COLUMNS <= r * COLUMNS
    BY <1>1, <2>1, ProductSteps
  <2> QED
    BY <1>1, <1>2, <2>2 DEF Cell
<1>5. r = s
  BY <1>1, <1>3, <1>4
<1> QED
  BY <1>2, <1>5 DEF Cell

LEMMA CellBelow ==
    ASSUME NEW r \in 0..(ROWS - 1), NEW c \in 0..(COLUMNS - 1)
    PROVE  /\ Cell(r, c) + COLUMNS = Cell(r + 1, c)
           /\ (Cell(r, c) + COLUMNS \in Cells) <=> (r + 1 < ROWS)
<1>1. r \in Nat /\ ROWS \in Nat /\ COLUMNS \in Nat /\ r * COLUMNS \in Nat
  BY Sizes
<1>2. (r + 1) * COLUMNS = r * COLUMNS + COLUMNS
  BY <1>1
<1>3. Cell(r, c) + COLUMNS = Cell(r + 1, c)
  BY <1>1, <1>2 DEF Cell
<1>4. ASSUME r + 1 < ROWS PROVE Cell(r + 1, c) \in Cells
  <2>1. r + 1 \in 0..(ROWS - 1)
    BY <1>1, <1>4
  <2> QED
    BY <2>1, CellIn
<1>5. ASSUME ~(r + 1 < ROWS) PROVE Cell(r + 1, c) \notin Cells
  <2>1. r + 1 = ROWS
    BY <1>1, <1>5
  <2>2. ROWS * COLUMNS = COLUMNS * ROWS /\ COLUMNS * ROWS \in Nat
    BY <1>1
  <2>3. Cell(r + 1, c) = COLUMNS * ROWS + c
    BY <2>1, <2>2 DEF Cell
  <2> QED
    BY <2>2, <2>3 DEF Cells
<1> QED
  BY <1>3, <1>4, <1>5

Video == [Cells -> Characters \cup {" "}]

LEMMA StoreTypes ==
    ASSUME video \in Video, overrun \in BOOLEAN,
           NEW x, NEW y, NEW ch \in Characters \cup {" "}, Store(x, y, ch)
    PROVE  video' \in Video /\ overrun' \in BOOLEAN
  BY DEF Store, Video

\* What is stored fills the hole of the screen.
LEMMA StoreShows ==
    ASSUME video \in Video, NEW x \in 0..(COLUMNS - 1), NEW y \in 0..(ROWS - 1), NEW ch,
           Store(x, y, ch), NEW p, NEW t \in Nat,
           Shown(video, p, t, {<<t + y, x>>}), OnPage(p, t + y, x) = ch
    PROVE  Shown(video', p, t, {}) /\ (overrun' <=> overrun)
<1>1. x + y * COLUMNS = Cell(y, x)
  BY Sizes DEF Cell
<1>2. Cell(y, x) \in Cells
  BY CellIn
<1>3. video' = [video EXCEPT ![Cell(y, x)] = ch] /\ (overrun' <=> overrun)
  BY <1>1, <1>2 DEF Store
<1>4. ASSUME NEW r \in 0..(ROWS - 1), NEW c \in 0..(COLUMNS - 1)
      PROVE  video'[Cell(r, c)] = OnPage(p, t + r, c)
  <2>1. Cell(r, c) \in Cells
    BY CellIn
  <2>2. CASE r = y /\ c = x
    BY <1>2, <1>3, <2>2 DEF Video
  <2>3. CASE ~(r = y /\ c = x)
    <3>1. Cell(r, c) # Cell(y, x)
      BY <2>3, CellsDiffer
    <3>2. video'[Cell(r, c)] = video[Cell(r, c)]
      BY <1>3, <2>1, <3>1 DEF Video
    <3>3. <<t + r, c>> \notin {<<t + y, x>>}
      BY <2>3
    <3> QED
      BY <3>2, <3>3 DEF Shown
  <2> QED
    BY <2>2, <2>3
<1> QED
  BY <1>3, <1>4 DEF Shown

Scrolled(v) == [c \in Cells |-> IF c + COLUMNS \in Cells THEN v[c + COLUMNS] ELSE " "]

LEMMA ScrollTypes == ASSUME NEW v \in Video PROVE Scrolled(v) \in Video
  BY DEF Scrolled, Video

LEMMA RowSums ==
    ASSUME NEW r \in 0..(ROWS - 1), NEW t \in Nat
    PROVE  /\ r + 1 < ROWS => r + 1 \in 0..(ROWS - 1)
           /\ t + 1 + r = t + (r + 1)
           /\ ~(r + 1 < ROWS) => t + 1 + r = t + ROWS
  BY Sizes

\* A scrolled screen shows the page from the next line on, if that was empty
\* where the screen ended.
LEMMA ScrollShows ==
    ASSUME NEW v \in Video, NEW p, NEW t \in Nat, NEW hole, Shown(v, p, t, hole),
           \A c \in 0..(COLUMNS - 1) : <<t + ROWS, c>> \in hole \/ OnPage(p, t + ROWS, c) = " "
    PROVE  Shown(Scrolled(v), p, t + 1, hole)
<1> SUFFICES ASSUME NEW r \in 0..(ROWS - 1), NEW c \in 0..(COLUMNS - 1),
                    <<t + 1 + r, c>> \notin hole
             PROVE  Scrolled(v)[Cell(r, c)] = OnPage(p, t + 1 + r, c)
  BY DEF Shown
<1>1. /\ ROWS \in Nat /\ COLUMNS \in Nat /\ Cell(r, c) \in Cells
      /\ Cell(r, c) + COLUMNS = Cell(r + 1, c)
      /\ (Cell(r, c) + COLUMNS \in Cells) <=> (r + 1 < ROWS)
  BY Sizes, CellIn, CellBelow
<1>2. CASE r + 1 < ROWS
  <2>1. Scrolled(v)[Cell(r, c)] = v[Cell(r + 1, c)]
    BY <1>1, <1>2 DEF Scrolled
  <2>2. r + 1 \in 0..(ROWS - 1) /\ t + 1 + r = t + (r + 1)
    BY <1>2, RowSums
  <2> DEFINE s == r + 1
  <2>3. <<t + s, c>> \in hole \/ v[Cell(s, c)] = OnPage(p, t + s, c)
    <3> HIDE DEF s
    <3> QED
      BY <2>2 DEF Shown, s
  <2> QED
    BY <2>1, <2>2, <2>3
<1>3. CASE ~(r + 1 < ROWS)
  <2>1. Scrolled(v)[Cell(r, c)] = " "
    BY <1>1, <1>3 DEF Scrolled
  <2>2. t + 1 + r = t + ROWS
    BY <1>3, RowSums
  <2> QED
    BY <2>1, <2>2
<1> QED
  BY <1>2, <1>3

-----------------------------------------------------------------------------
(* The calls.                                                              *)

Base == TypeOK /\ FramesSound /\ RowSound

LEMMA TopFacts ==
    ASSUME TypeOK, frames # <<>>
    PROVE  /\ frames \in Seq(Frames) /\ Len(frames) \in Nat
           /\ Len(frames) \in 1..Len(frames)
           /\ Top = frames[Len(frames)] /\ Top \in Frames
<1>1. frames \in Seq(Frames)
  BY DEF TypeOK, Frames, Bytes
<1>2. Len(frames) \in Nat /\ Len(frames) # 0
  BY <1>1, LenProperties, EmptySeq
<1>3. Len(frames) \in 1..Len(frames)
  BY <1>2
<1>4. Top \in Frames
  BY <1>1, <1>3, ElementOfSeq DEF Top
<1> QED
  BY <1>1, <1>2, <1>3, <1>4 DEF Top

\* What a step of the innermost call leaves of the calls.
OnlyTop(f) ==
    /\ frames' \in Seq(Frames)
    /\ Len(frames') = Len(frames)
    /\ frames'[Len(frames)] = f
    /\ \A i \in 1..(Len(frames) - 1) : frames'[i] = frames[i]

LEMMA TopReplaced ==
    ASSUME TypeOK, frames # <<>>, NEW f \in Frames,
           frames' = [frames EXCEPT ![Len(frames)] = f]
    PROVE  OnlyTop(f)
<1> DEFINE n == Len(frames)
<1>1. frames \in Seq(Frames) /\ n \in Nat /\ n \in 1..n
  BY TopFacts
<1>2. \A i \in 1..(n - 1) : i \in 1..n /\ i # n
  BY <1>1
<1> HIDE DEF n
<1>3. /\ [frames EXCEPT ![n] = f] \in Seq(Frames)
      /\ Len([frames EXCEPT ![n] = f]) = n
      /\ \A j \in 1..n : [frames EXCEPT ![n] = f][j] = IF j = n THEN f ELSE frames[j]
  BY <1>1, ExceptSeq DEF n
<1>4. frames' = [frames EXCEPT ![n] = f]
  BY DEF n
<1>5. frames'[n] = f /\ \A i \in 1..(n - 1) : frames'[i] = frames[i]
  BY <1>1, <1>2, <1>3, <1>4
<1> QED
  BY <1>3, <1>4, <1>5 DEF OnlyTop, n

\* The innermost call at another step.
Moved(step, x, y) == [op |-> Top.op, at |-> step, x |-> x, y |-> y]

LEMMA GotoWithMoves ==
    ASSUME TypeOK, frames # <<>>, NEW step \in Steps, NEW x \in Bytes, NEW y \in Bytes,
           GotoWith(step, x, y)
    PROVE  OnlyTop(Moved(step, x, y))
<1>1. Moved(step, x, y) \in Frames
  BY TopFacts DEF Moved, Frames
<1> QED
  BY <1>1, TopReplaced DEF GotoWith, Moved

LEMMA GotoMoves ==
    ASSUME TypeOK, frames # <<>>, NEW step \in Steps, Goto(step)
    PROVE  OnlyTop(Moved(step, Top.x, Top.y)) /\ Top.x \in Bytes /\ Top.y \in Bytes
<1>1. Top \in Frames /\ Top = frames[Len(frames)] /\ frames \in Seq(Frames)
      /\ Len(frames) \in 1..Len(frames)
  BY TopFacts
<1>2. [Top EXCEPT !.at = step] = Moved(step, Top.x, Top.y)
      /\ Moved(step, Top.x, Top.y) \in Frames /\ Top.x \in Bytes /\ Top.y \in Bytes
  BY <1>1 DEF Moved, Frames
<1>3. DOMAIN frames = 1..Len(frames)
  BY <1>1, LenProperties
<1>4. frames' = [frames EXCEPT ![Len(frames)] = [Top EXCEPT !.at = step]]
  BY <1>1, <1>3 DEF Goto
<1> QED
  BY <1>2, <1>4, TopReplaced

\* Such a step keeps the calls sound if the innermost one is, the row of the cursor
\* is on the screen when it has scrolled, and it scrolls next if it left the screen.
LEMMA TopKeeps ==
    ASSUME Base, frames # <<>>, NEW f \in Frames, OnlyTop(f), FrameSound(f),
           xPos' \in Bytes, yPos' \in Bytes, video' \in Video,
           overrun' \in BOOLEAN, iflag' \in BOOLEAN, UNCHANGED ghost,
           Top.at = "scroll" => yPos' < ROWS,
           yPos' = yPos \/ yPos' < ROWS \/ f.at = "scroll"
    PROVE  Base'
<1> DEFINE n == Len(frames)
<1>1. n \in Nat /\ n \in 1..n /\ Top = frames[n] /\ \A i \in 1..n : i = n \/ i \in 1..(n - 1)
  BY TopFacts DEF Base
<1> HIDE DEF n
<1>2. frames' \in Seq(Frames) /\ Len(frames') = n /\ frames'[n] = f
      /\ \A i \in 1..(n - 1) : frames'[i] = frames[i]
  BY DEF OnlyTop, n
<1>3. TypeOK'
  BY <1>2 DEF Base, TypeOK, Frames, Bytes, Video, ghost
<1>4. FramesSound'
  <2> SUFFICES ASSUME NEW i \in 1..n PROVE FrameSound(frames'[i])
    BY <1>2 DEF FramesSound
  <2>1. CASE i = n
    BY <1>2, <2>1
  <2>2. CASE i \in 1..(n - 1)
    BY <1>2, <2>2 DEF Base, FramesSound, n
  <2> QED
    BY <1>1, <2>1, <2>2
<1>5. RowSound'
  <2>1. CASE f.at = "scroll"
    BY <1>1, <1>2, <2>1 DEF RowSound
  <2>2. CASE yPos' < ROWS
    BY <2>2 DEF RowSound
  <2>3. CASE yPos' = yPos /\ ~(yPos' < ROWS)
    <3>1. PICK i \in 1..n : frames[i].at = "scroll"
      BY <2>3 DEF Base, RowSound, n
    <3>2. i \in 1..(n - 1)
      BY <1>1, <2>3, <3>1
    <3> QED
      BY <1>2, <3>1, <3>2 DEF RowSound
  <2> QED
    BY <2>1, <2>2, <2>3
<1> QED
  BY <1>3, <1>4, <1>5 DEF Base

LEMMA CharactersPlain ==
    \A op \in Characters : op \notin {" ", "nl", "backspace", "clear"} /\ op \in Operations
  BY ConsoleAssumption DEF Operations

LEMMA FrameBegins ==
    ASSUME NEW op \in Operations
    PROVE  /\ Frame(op) \in Frames /\ FrameSound(Frame(op)) /\ Frame(op).at # "scroll"
           /\ Frame(op).op = op
           /\ op \in Characters => Frame(op).at = "test"
           /\ op = "nl" => Frame(op).at = "wrap"
           /\ op \in {"backspace", "clear"} => Frame(op).at = op
<1>1. 0 \in Bytes
  BY Sizes DEF Bytes
<1>2. CASE op \in Characters
  <2>1. FirstStep(op) = "test"
    BY <1>2, CharactersPlain DEF FirstStep
  <2> QED
    BY <1>1, <1>2, <2>1, CharactersPlain DEF Frame, Frames, FrameSound, Steps
<1>3. CASE op = "nl"
  <2>1. FirstStep(op) = "wrap" /\ op \notin Characters
    BY <1>3, CharactersPlain DEF FirstStep
  <2> QED
    BY <1>1, <1>3, <2>1 DEF Frame, Frames, FrameSound, Steps
<1>4. CASE op \in {"backspace", "clear"}
  <2>1. FirstStep(op) = op /\ op \notin Characters
    BY <1>4, CharactersPlain DEF FirstStep
  <2> QED
    BY <1>1, <1>4, <2>1 DEF Frame, Frames, FrameSound, Steps
<1> QED
  BY <1>2, <1>3, <1>4 DEF Operations

Places == (0..MaxLine) \X (0..(COLUMNS - 1))

Pages == [Places -> Characters \cup {" "}]

LEMMA CursorSums ==
    ASSUME NEW l \in 0..MaxLine, NEW c \in 0..COLUMNS
    PROVE  /\ 0 \in 0..MaxLine /\ 0 \in 0..COLUMNS /\ 0 \in 0..(COLUMNS - 1) /\ 0 + 1 \in 0..COLUMNS
           /\ l < MaxLine => l + 1 \in 0..MaxLine
           /\ c # 0 => (c - 1 \in 0..(COLUMNS - 1) /\ c - 1 \in 0..COLUMNS)
           /\ c # COLUMNS => (c \in 0..(COLUMNS - 1) /\ c + 1 \in 0..COLUMNS)
  BY Sizes

LEMMA EmptyTypes == Empty \in Pages
  BY DEF Empty, Pages, Places

LEMMA PageTypes ==
    ASSUME TypeOK, NEW op, PageDo(op)
    PROVE  page' \in Pages /\ col' \in 0..COLUMNS /\ line' \in 0..MaxLine
<1>1. page \in Pages /\ col \in 0..COLUMNS /\ line \in 0..MaxLine
  BY DEF TypeOK, Pages, Places
<1>2. CASE op = "clear" /\ PageClear
  <2>1. 0 \in 0..COLUMNS /\ 0 \in 0..MaxLine
    BY <1>1, CursorSums
  <2> QED
    BY <1>2, <2>1, EmptyTypes DEF PageClear
<1>3. CASE op = "backspace" /\ line < MaxLine /\ PageBackspace
  <2> DEFINE left == IF col = 0 THEN 0 ELSE col - 1
  <2>1. left \in 0..(COLUMNS - 1) /\ left \in 0..COLUMNS
    BY <1>1, CursorSums
  <2> HIDE DEF left
  <2>2. <<line, left>> \in Places
    BY <1>1, <2>1 DEF Places
  <2>3. page' = [page EXCEPT ![<<line, left>>] = " "] /\ col' = left /\ line' = line
    BY <1>3 DEF PageBackspace, left
  <2>4. page' \in Pages
    BY <1>1, <2>2, <2>3 DEF Pages
  <2> QED
    BY <1>1, <2>1, <2>3, <2>4
<1>4. CASE op = "nl" /\ line < MaxLine /\ PageNewline
  <2>1. 0 \in 0..COLUMNS /\ line + 1 \in 0..MaxLine
    BY <1>1, <1>4, CursorSums
  <2> QED
    BY <1>1, <1>4, <2>1 DEF PageNewline
<1>5. CASE op \in Characters /\ line < MaxLine /\ PagePut(op)
  <2> DEFINE l == IF col = COLUMNS THEN line + 1 ELSE line
             c == IF col = COLUMNS THEN 0 ELSE col
  <2>1. l \in 0..MaxLine /\ c \in 0..(COLUMNS - 1) /\ c + 1 \in 0..COLUMNS
    BY <1>1, <1>5, CursorSums
  <2>2. NextPlace = <<l, c>>
    BY DEF NextPlace
  <2> HIDE DEF l, c
  <2>3. page' = [page EXCEPT ![<<l, c>>] = op] /\ line' = l /\ col' = c + 1
    BY <1>5, <2>2 DEF PagePut
  <2>4. <<l, c>> \in Places
    BY <2>1 DEF Places
  <2>5. page' \in Pages
    BY <1>1, <1>5, <2>3, <2>4 DEF Pages
  <2> QED
    BY <2>1, <2>3, <2>5
<1> QED
  BY <1>2, <1>3, <1>4, <1>5 DEF PageDo

LEMMA CallBase == ASSUME Base, NEW op \in Operations, Call(op) PROVE Base'
<1> DEFINE f == Frame(op)
<1>1. f \in Frames /\ FrameSound(f) /\ f.at # "scroll"
  BY FrameBegins
<1> HIDE DEF f
<1>2. frames' = <<f>> /\ frames = <<>> /\ UNCHANGED <<xPos, yPos, video, overrun, iflag, disturbed>>
  BY DEF Call, cursor, screen, f
<1>3. frames' \in Seq(Frames) /\ Len(frames') = 1 /\ frames'[1] = f /\ Len(frames) = 0
  BY <1>1, <1>2
<1>4. yPos < ROWS
  <2>1. \A i \in 1..0 : FALSE
    OBVIOUS
  <2> QED
    BY <1>3, <2>1 DEF Base, RowSound
<1>5. page' \in Pages /\ col' \in 0..COLUMNS /\ line' \in 0..MaxLine
  <2>1. CASE disturbed
    BY <2>1 DEF Call, Base, TypeOK, Pages, Places
  <2>2. CASE ~disturbed
    BY <2>2, PageTypes DEF Call, Base
  <2> QED
    BY <2>1, <2>2
<1>6. TypeOK'
  BY <1>2, <1>3, <1>5 DEF Base, TypeOK, Frames, Bytes, Pages, Places
<1>7. FramesSound'
  BY <1>1, <1>3 DEF FramesSound
<1>8. RowSound'
  BY <1>2, <1>4 DEF RowSound
<1> QED
  BY <1>6, <1>7, <1>8 DEF Base

LEMMA InterruptBase == ASSUME Base, NEW op \in Operations, Interrupt(op) PROVE Base'
<1> DEFINE f == Frame(op)
           n == Len(frames)
<1>1. f \in Frames /\ FrameSound(f) /\ f.at # "scroll"
  BY FrameBegins
<1>2. frames \in Seq(Frames) /\ n \in Nat
  BY TopFacts DEF Base, Interrupt
<1>3. \A i \in 1..n : FrameSound(frames[i])
  BY DEF Base, FramesSound
<1>4. yPos < ROWS \/ \E i \in 1..n : frames[i].at = "scroll"
  BY DEF Base, RowSound
<1> HIDE DEF f
<1>5. /\ frames' = Append(frames, f)
      /\ UNCHANGED <<xPos, yPos, video, overrun>> /\ iflag' = FALSE /\ disturbed' = TRUE
      /\ page' = Empty /\ col' = 0 /\ line' = 0
  BY DEF Interrupt, cursor, screen, f
<1>6. /\ frames' \in Seq(Frames) /\ Len(frames') = n + 1 /\ frames'[n + 1] = f
      /\ \A i \in 1..n : frames'[i] = frames[i]
  BY <1>1, <1>2, <1>5, AppendProperties
<1> HIDE DEF n
<1>7. TypeOK'
  <2>1. 0 \in 0..COLUMNS /\ 0 \in 0..MaxLine
    BY CursorSums DEF Base, TypeOK
  <2> QED
    BY <1>5, <1>6, <2>1, EmptyTypes DEF Base, TypeOK, Frames, Bytes, Pages, Places
<1>8. FramesSound'
  <2>1. \A i \in 1..(n + 1) : i \in 1..n \/ i = n + 1
    BY <1>2
  <2> QED
    BY <1>1, <1>3, <1>6, <2>1 DEF FramesSound
<1>9. RowSound'
  <2>1. \A i \in 1..n : i \in 1..(n + 1)
    BY <1>2
  <2> QED
    BY <1>4, <1>5, <1>6, <2>1 DEF RowSound
<1> QED
  BY <1>7, <1>8, <1>9 DEF Base

\* What the return of the innermost call leaves of the others.
LEMMA CallReturns ==
    ASSUME Base, Finish
    PROVE  /\ frames' \in Seq(Frames) /\ Len(frames') = Len(frames) - 1
           /\ Len(frames) \in Nat /\ Len(frames) \in 1..Len(frames) /\ Len(frames) - 1 \in Nat
           /\ \A i \in 1..(Len(frames) - 1) : frames'[i] = frames[i]
<1> DEFINE n == Len(frames)
           t == SubSeq(frames, 1, n - 1)
<1>1. frames \in Seq(Frames) /\ n \in Nat /\ n \in 1..n
  BY TopFacts DEF Base, Finish, At
<1>2. \A i \in 1..(n - 1) : frames[i] \in Frames
  BY <1>1, ElementOfSeq
<1>3. frames' = t
  BY DEF Finish, Return
<1> HIDE DEF n
<1>4. n - 1 \in Nat /\ n - 1 - 1 + 1 = n - 1
  BY <1>1
<1>5. /\ t \in Seq(Frames) /\ Len(t) = IF 1 <= n - 1 THEN n - 1 - 1 + 1 ELSE 0
      /\ \A i \in 1..(n - 1 - 1 + 1) : t[i] = frames[1 + i - 1]
  BY <1>1, <1>2, SubSeqProperties
<1>6. ASSUME NEW i \in 1..(n - 1) PROVE t[i] = frames[i]
  <2>1. i \in 1..(n - 1 - 1 + 1) /\ 1 + i - 1 = i
    BY <1>4
  <2> QED
    BY <1>5, <2>1
<1>7. Len(t) = n - 1
  BY <1>4, <1>5
<1> QED
  BY <1>1, <1>3, <1>4, <1>5, <1>6, <1>7 DEF n

LEMMA FinishBase == ASSUME Base, Finish PROVE Base'
<1> DEFINE n == Len(frames)
<1>1. /\ frames' \in Seq(Frames) /\ Len(frames') = n - 1 /\ n \in Nat /\ n \in 1..n
      /\ \A i \in 1..(n - 1) : frames'[i] = frames[i]
  BY CallReturns
<1>2. frames[n].at = "return"
  BY DEF Finish, At, Top
<1>3. \A i \in 1..n : FrameSound(frames[i])
  BY DEF Base, FramesSound
<1>4. yPos < ROWS \/ \E i \in 1..n : frames[i].at = "scroll"
  BY DEF Base, RowSound
<1>5. UNCHANGED <<xPos, yPos, video, overrun, disturbed, page, col, line>> /\ iflag' = TRUE
  BY DEF Finish, Return, cursor, screen, ghost
<1> HIDE DEF n
<1>6. TypeOK'
  BY <1>1, <1>5 DEF Base, TypeOK, Frames, Bytes
<1>7. FramesSound'
  <2>1. \A i \in 1..(n - 1) : i \in 1..n
    BY <1>1
  <2> QED
    BY <1>1, <1>3, <2>1 DEF FramesSound
<1>8. RowSound'
  <2>1. \A i \in 1..n : i \in 1..(n - 1) \/ i = n
    BY <1>1
  <2> QED
    BY <1>1, <1>2, <1>4, <1>5, <2>1 DEF RowSound
<1> QED
  BY <1>6, <1>7, <1>8 DEF Base

\* What a step of a call needs to keep the calls sound when it goes on to `step'.
LEMMA MoveKeeps ==
    ASSUME Base, frames # <<>>, NEW step \in Steps, NEW x \in Bytes, NEW y \in Bytes,
           OnlyTop(Moved(step, x, y)),
           step \in {"test", "load", "store", "right", "setcolumn"} => Top.op \in Characters,
           step \in {"wrap", "row", "setrow", "scroll"} => Top.op \in Characters \cup {"nl"},
           step \in {"column", "line"} => y < ROWS,
           xPos' \in Bytes, yPos' \in Bytes, video' \in Video,
           overrun' \in BOOLEAN, iflag' \in BOOLEAN, UNCHANGED ghost,
           Top.at = "scroll" => yPos' < ROWS,
           yPos' = yPos \/ yPos' < ROWS \/ step = "scroll"
    PROVE  Base'
<1> DEFINE f == Moved(step, x, y)
<1>1. f \in Frames /\ f.at = step
  BY TopFacts DEF Moved, Frames, Base
<1>2. FrameSound(f)
  BY DEF FrameSound, Moved
<1> HIDE DEF f
<1>3. OnlyTop(f)
  BY DEF f
<1> QED
  BY <1>1, <1>2, <1>3, TopKeeps

LEMMA BaseFacts ==
    ASSUME Base, frames # <<>>
    PROVE  /\ Top \in Frames /\ Top.x \in Bytes /\ Top.y \in Bytes /\ FrameSound(Top)
           /\ xPos \in Bytes /\ yPos \in Bytes /\ video \in Video
           /\ overrun \in BOOLEAN /\ iflag \in BOOLEAN
<1>1. Top \in Frames /\ FrameSound(Top)
  BY TopFacts DEF Base, FramesSound
<1> QED
  BY <1>1 DEF Base, TypeOK, Bytes, Video, Frames

\* Steps that neither print nor move the cursor.
Quiet(step, x, y) ==
    /\ OnlyTop(Moved(step, x, y)) /\ x \in Bytes /\ y \in Bytes
    /\ UNCHANGED <<cursor, screen, ghost>> /\ iflag' \in BOOLEAN

LEMMA QuietKeeps ==
    ASSUME Base, frames # <<>>, Top.at # "scroll",
           NEW step \in Steps, NEW x, NEW y, Quiet(step, x, y),
           step \in {"test", "load", "store", "right", "setcolumn"} => Top.op \in Characters,
           step \in {"wrap", "row", "setrow", "scroll"} => Top.op \in Characters \cup {"nl"},
           step \in {"column", "line"} => y < ROWS
    PROVE  Base'
<1>1. x \in Bytes /\ y \in Bytes /\ OnlyTop(Moved(step, x, y)) /\ UNCHANGED ghost
  BY DEF Quiet
<1>2. /\ xPos' \in Bytes /\ yPos' \in Bytes /\ video' \in Video /\ overrun' \in BOOLEAN
      /\ iflag' \in BOOLEAN /\ yPos' = yPos
  BY BaseFacts DEF Quiet, cursor, screen
<1> QED
  BY <1>1, <1>2, MoveKeeps

LEMMA GotoQuiet ==
    ASSUME Base, frames # <<>>, NEW step \in Steps, Goto(step),
           UNCHANGED <<cursor, screen, ghost>>, iflag' \in BOOLEAN
    PROVE  Quiet(step, Top.x, Top.y)
  BY GotoMoves DEF Quiet, Base

LEMMA GotoWithQuiet ==
    ASSUME Base, frames # <<>>, NEW step \in Steps, NEW x \in Bytes, NEW y \in Bytes,
           GotoWith(step, x, y), UNCHANGED <<cursor, screen, ghost>>, UNCHANGED iflag
    PROVE  Quiet(step, x, y)
  BY GotoWithMoves, BaseFacts DEF Quiet, Base

LEMMA ByteSums ==
    /\ 0 \in Bytes /\ 0 < ROWS
    /\ \A n \in Bytes : (n + 1) % ByteMod \in Bytes
    /\ \A n \in Bytes : n # 0 => n - 1 \in Bytes
    /\ ROWS - 1 \in Bytes /\ ROWS - 1 < ROWS
<1>1. ByteMod \in Nat /\ ByteMod > 0
  BY Sizes
<1>2. \A n \in Bytes : (n + 1) % ByteMod \in Bytes
  BY <1>1 DEF Bytes
<1> QED
  BY <1>2, Sizes DEF Bytes

LEMMA QuietBase ==
    ASSUME Base,
           \/ Test \/ Row \/ Load \/ Right \/ UpdateCursor
           \/ BackspaceX \/ BackspaceY \/ GoToPixel \/ WhereX \/ WhereY
    PROVE  Base'
<1> USE DEF At
<1>1. /\ frames # <<>> /\ FrameSound(Top) /\ Top.at \in Steps
      /\ Top.x \in Bytes /\ Top.y \in Bytes /\ xPos \in Bytes /\ yPos \in Bytes
      /\ iflag \in BOOLEAN /\ 0 \in Bytes
  <2>1. frames # <<>>
    BY DEF Test, Row, Load, Right, UpdateCursor, BackspaceX, BackspaceY, GoToPixel, WhereX,
           WhereY
  <2> QED
    BY <2>1, BaseFacts, ByteSums DEF Frames
<1>2. /\ \A n \in Bytes : (n + 1) % ByteMod \in Bytes
      /\ \A n \in Bytes : n # 0 => n - 1 \in Bytes
  BY ByteSums
<1>3. CASE Test
  <2>1. Top.at # "scroll" /\ UNCHANGED <<cursor, screen, ghost>> /\ iflag' \in BOOLEAN
    BY <1>1, <1>3 DEF Test
  <2>2. CASE xPos = COLUMNS
    <3>1. Goto("wrap") /\ "wrap" \in Steps
      BY <1>3, <2>2 DEF Test, Steps
    <3>2. Quiet("wrap", Top.x, Top.y)
      BY <1>1, <2>1, <3>1, GotoQuiet
    <3> QED
      BY <1>1, <1>3, <2>1, <2>2, <3>1, <3>2, QuietKeeps DEF Test, FrameSound
  <2>3. CASE xPos # COLUMNS
    <3>1. Goto("load") /\ "load" \in Steps
      BY <1>3, <2>3 DEF Test, Steps
    <3>2. Quiet("load", Top.x, Top.y)
      BY <1>1, <2>1, <3>1, GotoQuiet
    <3> QED
      BY <1>1, <1>3, <2>1, <2>3, <3>1, <3>2, QuietKeeps DEF Test, FrameSound
  <2> QED
    BY <2>2, <2>3
<1>4. CASE Row
  <2>1. Top.at # "scroll" /\ UNCHANGED <<cursor, screen, ghost>> /\ iflag' \in BOOLEAN
    BY <1>1, <1>4 DEF Row
  <2>2. /\ GotoWith("setrow", 0, (yPos + 1) % ByteMod) /\ UNCHANGED iflag
        /\ "setrow" \in Steps /\ 0 \in Bytes /\ (yPos + 1) % ByteMod \in Bytes
    BY <1>1, <1>2, <1>4 DEF Row, Steps
  <2>3. Quiet("setrow", 0, (yPos + 1) % ByteMod)
    BY <1>1, <2>1, <2>2, GotoWithQuiet
  <2> QED
    BY <1>1, <1>4, <2>1, <2>2, <2>3, QuietKeeps DEF Row, FrameSound
<1>5. CASE Load
  <2>1. Top.at # "scroll" /\ UNCHANGED <<cursor, screen, ghost>> /\ iflag' \in BOOLEAN
    BY <1>1, <1>5 DEF Load
  <2>2. /\ GotoWith("store", xPos, yPos) /\ UNCHANGED iflag
        /\ "store" \in Steps /\ xPos \in Bytes /\ yPos \in Bytes
    BY <1>1, <1>2, <1>5 DEF Load, Steps
  <2>3. Quiet("store", xPos, yPos)
    BY <1>1, <2>1, <2>2, GotoWithQuiet
  <2> QED
    BY <1>1, <1>5, <2>1, <2>2, <2>3, QuietKeeps DEF Load, FrameSound
<1>6. CASE Right
  <2>1. Top.at # "scroll" /\ UNCHANGED <<cursor, screen, ghost>> /\ iflag' \in BOOLEAN
    BY <1>1, <1>6 DEF Right
  <2>2. /\ GotoWith("setcolumn", (xPos + 1) % ByteMod, 0) /\ UNCHANGED iflag
        /\ "setcolumn" \in Steps /\ (xPos + 1) % ByteMod \in Bytes /\ 0 \in Bytes
    BY <1>1, <1>2, <1>6 DEF Right, Steps
  <2>3. Quiet("setcolumn", (xPos + 1) % ByteMod, 0)
    BY <1>1, <2>1, <2>2, GotoWithQuiet
  <2> QED
    BY <1>1, <1>6, <2>1, <2>2, <2>3, QuietKeeps DEF Right, FrameSound
<1>7. CASE UpdateCursor
  <2>1. Top.at # "scroll" /\ UNCHANGED <<cursor, screen, ghost>> /\ iflag' \in BOOLEAN
    BY <1>1, <1>7 DEF UpdateCursor
  <2>2. CASE Top.op = "backspace"
    <3>1. Goto("wherex") /\ "wherex" \in Steps
      BY <1>7, <2>2 DEF UpdateCursor, Steps
    <3>2. Quiet("wherex", Top.x, Top.y)
      BY <1>1, <2>1, <3>1, GotoQuiet
    <3> QED
      BY <1>1, <1>7, <2>1, <2>2, <3>1, <3>2, QuietKeeps DEF UpdateCursor, FrameSound
  <2>3. CASE Top.op # "backspace"
    <3>1. Goto("return") /\ "return" \in Steps
      BY <1>7, <2>3 DEF UpdateCursor, Steps
    <3>2. Quiet("return", Top.x, Top.y)
      BY <1>1, <2>1, <3>1, GotoQuiet
    <3> QED
      BY <1>1, <1>7, <2>1, <2>3, <3>1, <3>2, QuietKeeps DEF UpdateCursor, FrameSound
  <2> QED
    BY <2>2, <2>3
<1>8. CASE BackspaceX
  <2>1. Top.at # "scroll" /\ UNCHANGED <<cursor, screen, ghost>> /\ iflag' \in BOOLEAN
    BY <1>1, <1>8 DEF BackspaceX
  <2>2. /\ GotoWith("backspacey", xPos, 0) /\ UNCHANGED iflag
        /\ "backspacey" \in Steps /\ xPos \in Bytes /\ 0 \in Bytes
    BY <1>1, <1>2, <1>8 DEF BackspaceX, Steps
  <2>3. Quiet("backspacey", xPos, 0)
    BY <1>1, <2>1, <2>2, GotoWithQuiet
  <2> QED
    BY <1>1, <1>8, <2>1, <2>2, <2>3, QuietKeeps DEF BackspaceX, FrameSound
<1>9. CASE BackspaceY
  <2>1. Top.at # "scroll" /\ UNCHANGED <<cursor, screen, ghost>> /\ iflag' \in BOOLEAN
    BY <1>1, <1>9 DEF BackspaceY
  <2>2. CASE Top.x = 0
    <3>1. Goto("wherex") /\ "wherex" \in Steps
      BY <1>9, <2>2 DEF BackspaceY, Steps
    <3>2. Quiet("wherex", Top.x, Top.y)
      BY <1>1, <2>1, <3>1, GotoQuiet
    <3> QED
      BY <1>1, <1>9, <2>1, <2>2, <3>1, <3>2, QuietKeeps DEF BackspaceY, FrameSound
  <2>3. CASE Top.x # 0
    <3>1. /\ GotoWith("goto", Top.x - 1, yPos) /\ UNCHANGED iflag
          /\ "goto" \in Steps /\ Top.x - 1 \in Bytes /\ yPos \in Bytes
      BY <1>1, <1>2, <1>9, <2>3 DEF BackspaceY, Steps
    <3>2. Quiet("goto", Top.x - 1, yPos)
      BY <1>1, <2>1, <3>1, GotoWithQuiet
    <3> QED
      BY <1>1, <1>9, <2>1, <2>3, <3>1, <3>2, QuietKeeps DEF BackspaceY, FrameSound
  <2> QED
    BY <2>2, <2>3
<1>10. CASE GoToPixel
  <2>1. Top.at # "scroll" /\ UNCHANGED <<cursor, screen, ghost>> /\ iflag' \in BOOLEAN
    BY <1>1, <1>10 DEF GoToPixel
  <2>2. CASE Top.x < COLUMNS /\ Top.y < ROWS
    <3>1. Goto("column") /\ "column" \in Steps
      BY <1>10, <2>2 DEF GoToPixel, Steps
    <3>2. Quiet("column", Top.x, Top.y)
      BY <1>1, <2>1, <3>1, GotoQuiet
    <3> QED
      BY <1>1, <1>10, <2>1, <2>2, <3>1, <3>2, QuietKeeps DEF GoToPixel, FrameSound
  <2>3. CASE ~(Top.x < COLUMNS /\ Top.y < ROWS)
    <3>1. Goto("wherex") /\ "wherex" \in Steps
      BY <1>10, <2>3 DEF GoToPixel, Steps
    <3>2. Quiet("wherex", Top.x, Top.y)
      BY <1>1, <2>1, <3>1, GotoQuiet
    <3> QED
      BY <1>1, <1>10, <2>1, <2>3, <3>1, <3>2, QuietKeeps DEF GoToPixel, FrameSound
  <2> QED
    BY <2>2, <2>3
<1>11. CASE WhereX
  <2>1. Top.at # "scroll" /\ UNCHANGED <<cursor, screen, ghost>> /\ iflag' \in BOOLEAN
    BY <1>1, <1>11 DEF WhereX
  <2>2. /\ GotoWith("wherey", xPos, 0) /\ UNCHANGED iflag
        /\ "wherey" \in Steps /\ xPos \in Bytes /\ 0 \in Bytes
    BY <1>1, <1>2, <1>11 DEF WhereX, Steps
  <2>3. Quiet("wherey", xPos, 0)
    BY <1>1, <2>1, <2>2, GotoWithQuiet
  <2> QED
    BY <1>1, <1>11, <2>1, <2>2, <2>3, QuietKeeps DEF WhereX, FrameSound
<1>12. CASE WhereY
  <2>1. Top.at # "scroll" /\ UNCHANGED <<cursor, screen, ghost>> /\ iflag' \in BOOLEAN
    BY <1>1, <1>12 DEF WhereY
  <2>2. /\ GotoWith("blank", Top.x, yPos) /\ UNCHANGED iflag
        /\ "blank" \in Steps /\ Top.x \in Bytes /\ yPos \in Bytes
    BY <1>1, <1>2, <1>12 DEF WhereY, Steps
  <2>3. Quiet("blank", Top.x, yPos)
    BY <1>1, <2>1, <2>2, GotoWithQuiet
  <2> QED
    BY <1>1, <1>12, <2>1, <2>2, <2>3, QuietKeeps DEF WhereY, FrameSound
<1> QED
  BY <1>3, <1>4, <1>5, <1>6, <1>7, <1>8, <1>9, <1>10, <1>11, <1>12

LEMMA CursorBase ==
    ASSUME Base, Wrap \/ SetRow \/ SetColumn \/ Column \/ Line
    PROVE  Base'
<1> USE DEF At
<1>1. frames # <<>> /\ UNCHANGED <<screen, ghost, iflag>>
  BY DEF Wrap, SetRow, SetColumn, Column, Line
<1>2. /\ FrameSound(Top) /\ Top.x \in Bytes /\ Top.y \in Bytes /\ xPos \in Bytes
      /\ yPos \in Bytes /\ 0 \in Bytes
      /\ video' \in Video /\ overrun' \in BOOLEAN /\ iflag' \in BOOLEAN /\ UNCHANGED ghost
  BY <1>1, BaseFacts, ByteSums DEF screen
<1>3. ASSUME NEW step \in Steps, Goto(step) PROVE OnlyTop(Moved(step, Top.x, Top.y))
  BY <1>1, <1>3, GotoMoves DEF Base
<1>4. CASE Wrap
  <2>1. xPos' = 0 /\ yPos' = yPos /\ Goto("row") /\ "row" \in Steps /\ Top.at = "wrap"
    BY <1>4 DEF Wrap, Steps
  <2>2. OnlyTop(Moved("row", Top.x, Top.y))
    BY <1>3, <2>1
  <2> QED
    BY <1>1, <1>2, <2>1, <2>2, MoveKeeps DEF FrameSound
<1>5. CASE SetRow
  <2>1. /\ yPos' = Top.y /\ xPos' = xPos /\ Goto("scroll") /\ "scroll" \in Steps
        /\ Top.at = "setrow"
    BY <1>5 DEF SetRow, Steps
  <2>2. OnlyTop(Moved("scroll", Top.x, Top.y))
    BY <1>3, <2>1
  <2> QED
    BY <1>1, <1>2, <2>1, <2>2, MoveKeeps DEF FrameSound
<1>6. CASE SetColumn
  <2>1. /\ xPos' = Top.x /\ yPos' = yPos /\ Goto("cursor") /\ "cursor" \in Steps
        /\ Top.at = "setcolumn"
    BY <1>6 DEF SetColumn, Steps
  <2>2. OnlyTop(Moved("cursor", Top.x, Top.y))
    BY <1>3, <2>1
  <2> QED
    BY <1>1, <1>2, <2>1, <2>2, MoveKeeps
<1>7. CASE Column
  <2>1. /\ xPos' = Top.x /\ yPos' = yPos /\ Goto("line") /\ "line" \in Steps
        /\ Top.at = "column"
    BY <1>7 DEF Column, Steps
  <2>2. OnlyTop(Moved("line", Top.x, Top.y))
    BY <1>3, <2>1
  <2>3. Top.y < ROWS
    BY <1>2, <2>1 DEF FrameSound
  <2> QED
    BY <1>1, <1>2, <2>1, <2>2, <2>3, MoveKeeps
<1>8. CASE Line
  <2>1. /\ yPos' = Top.y /\ xPos' = xPos /\ Goto("cursor") /\ "cursor" \in Steps
        /\ Top.at = "line"
    BY <1>8 DEF Line, Steps
  <2>2. OnlyTop(Moved("cursor", Top.x, Top.y))
    BY <1>3, <2>1
  <2>3. Top.y < ROWS
    BY <1>2, <2>1 DEF FrameSound
  <2> QED
    BY <1>1, <1>2, <2>1, <2>2, <2>3, MoveKeeps
<1> QED
  BY <1>4, <1>5, <1>6, <1>7, <1>8

\* The two outcomes of screenScroll.
LEMMA ScrollOutcome ==
    ASSUME Base, Scroll
    PROVE  IF yPos >= ROWS THEN video' = Scrolled(video) /\ yPos' = ROWS - 1
           ELSE video' = video /\ yPos' = yPos
  BY DEF Scroll, Scrolled

LEMMA ScreenBase ==
    ASSUME Base, Scroll \/ StoreCharacter \/ StoreBlank \/ Clear
    PROVE  Base'
<1> USE DEF At
<1>1. frames # <<>> /\ UNCHANGED <<ghost, iflag>>
  BY DEF Scroll, StoreCharacter, StoreBlank, Clear
<1>2. /\ FrameSound(Top) /\ Top.x \in Bytes /\ Top.y \in Bytes /\ xPos \in Bytes
      /\ yPos \in Bytes /\ 0 \in Bytes /\ 0 < ROWS /\ ROWS - 1 \in Bytes /\ ROWS - 1 < ROWS
      /\ video \in Video /\ overrun \in BOOLEAN /\ iflag' \in BOOLEAN /\ UNCHANGED ghost
  BY <1>1, BaseFacts, ByteSums
<1>3. ASSUME NEW step \in Steps, Goto(step) PROVE OnlyTop(Moved(step, Top.x, Top.y))
  BY <1>1, <1>3, GotoMoves DEF Base
<1>4. CASE Scroll
  <2>1. /\ xPos' = xPos /\ overrun' = overrun /\ Top.at = "scroll"
        /\ Goto(IF Top.op = "nl" THEN "cursor" ELSE "load")
    BY <1>4 DEF Scroll
  <2>2. video' \in Video /\ yPos' \in Bytes /\ yPos' < ROWS
    <3>1. CASE yPos >= ROWS
      <4>1. video' = Scrolled(video) /\ yPos' = ROWS - 1
        BY <1>4, <3>1, ScrollOutcome
      <4> QED
        BY <1>2, <4>1, ScrollTypes
    <3>2. CASE ~(yPos >= ROWS)
      <4>1. video' = video /\ yPos' = yPos
        BY <1>4, <3>2, ScrollOutcome
      <4>2. yPos < ROWS
        BY <1>2, <3>2, Sizes DEF Bytes
      <4> QED
        BY <1>2, <4>1, <4>2
    <3> QED
      BY <3>1, <3>2
  <2>3. CASE Top.op = "nl"
    <3>1. OnlyTop(Moved("cursor", Top.x, Top.y)) /\ "cursor" \in Steps
      BY <1>3, <2>1, <2>3 DEF Steps
    <3> QED
      BY <1>1, <1>2, <2>1, <2>2, <3>1, MoveKeeps
  <2>4. CASE Top.op # "nl"
    <3>1. OnlyTop(Moved("load", Top.x, Top.y)) /\ "load" \in Steps
      BY <1>3, <2>1, <2>4 DEF Steps
    <3>2. Top.op \in Characters
      BY <1>2, <2>1, <2>4 DEF FrameSound
    <3> QED
      BY <1>1, <1>2, <2>1, <2>2, <3>1, <3>2, MoveKeeps
  <2> QED
    BY <2>3, <2>4
<1>5. CASE StoreCharacter
  <2>1. /\ Store(Top.x, Top.y, Top.op) /\ xPos' = xPos /\ yPos' = yPos
        /\ Goto("right") /\ "right" \in Steps /\ Top.at = "store"
    BY <1>5 DEF StoreCharacter, Steps, cursor
  <2>2. Top.op \in Characters
    BY <1>2, <2>1 DEF FrameSound
  <2>3. video' \in Video /\ overrun' \in BOOLEAN
    BY <1>2, <2>1, <2>2, StoreTypes
  <2>4. OnlyTop(Moved("right", Top.x, Top.y))
    BY <1>3, <2>1
  <2> QED
    BY <1>1, <1>2, <2>1, <2>2, <2>3, <2>4, MoveKeeps
<1>6. CASE StoreBlank
  <2>1. /\ Store(Top.x, Top.y, " ") /\ xPos' = xPos /\ yPos' = yPos
        /\ Goto("return") /\ "return" \in Steps /\ Top.at = "blank"
    BY <1>6 DEF StoreBlank, Steps, cursor
  <2>2. video' \in Video /\ overrun' \in BOOLEAN
    BY <1>2, <2>1, StoreTypes
  <2>3. OnlyTop(Moved("return", Top.x, Top.y))
    BY <1>3, <2>1
  <2> QED
    BY <1>1, <1>2, <2>1, <2>2, <2>3, MoveKeeps
<1>7. CASE Clear
  <2>1. /\ video' = Blank /\ GotoWith("column", 0, 0) /\ "column" \in Steps
        /\ xPos' = xPos /\ yPos' = yPos /\ overrun' = overrun /\ Top.at = "clear"
    BY <1>7 DEF Clear, Steps, cursor
  <2>2. video' \in Video
    BY <2>1 DEF Blank, Video
  <2>3. OnlyTop(Moved("column", 0, 0))
    BY <1>1, <1>2, <2>1, GotoWithMoves DEF Base
  <2> QED
    BY <1>1, <1>2, <2>1, <2>2, <2>3, MoveKeeps
<1> QED
  BY <1>4, <1>5, <1>6, <1>7

LEMMA BaseKeeps == Base /\ [Next]_vars => Base'
<1> SUFFICES ASSUME Base, [Next]_vars PROVE Base'
  OBVIOUS
<1>1. ASSUME NEW op \in Operations, Call(op) \/ Interrupt(op) PROVE Base'
  BY <1>1, CallBase, InterruptBase
<1>2. CASE Step
  BY <1>2, QuietBase, CursorBase, ScreenBase, FinishBase DEF Step
<1>3. CASE UNCHANGED vars
  <2>1. UNCHANGED <<xPos, yPos, video, overrun, frames, iflag, disturbed, page, col, line>>
    BY <1>3 DEF vars, cursor, screen, ghost
  <2> QED
    BY <2>1 DEF Base, TypeOK, FramesSound, RowSound
<1> QED
  BY <1>1, <1>2, <1>3 DEF Next

LEMMA BaseBegins == Init => Base
<1> SUFFICES ASSUME Init PROVE Base
  OBVIOUS
<1>1. frames = <<>> /\ frames \in Seq(Frames) /\ Len(frames) = 0
  BY DEF Init
<1>2. 0 \in Bytes /\ 0 < ROWS /\ 0 \in 0..COLUMNS /\ 0 \in 0..MaxLine
  BY ByteSums, Sizes
<1>3. TypeOK
  BY <1>1, <1>2, EmptyTypes DEF Init, TypeOK, Frames, Bytes, Pages, Places, Blank
<1>4. FramesSound
  BY <1>1 DEF FramesSound
<1> QED
  BY <1>2, <1>3, <1>4 DEF Init, Base, RowSound

-----------------------------------------------------------------------------
(* What the screen shows.                                                  *)

LEMMA TopLines ==
    ASSUME NEW l \in Nat
    PROVE  /\ TopOf(l) \in Nat /\ l - TopOf(l) \in 0..(ROWS - 1)
           /\ TopOf(l) + (l - TopOf(l)) = l
           /\ TopOf(0) = 0
  BY Sizes DEF TopOf

\* When a new line begins, the screen moves down by a line if it had reached the
\* last row.
LEMMA TopLinesNext ==
    ASSUME NEW l \in Nat, l >= 1
    PROVE  /\ l - 1 \in Nat
           /\ l - 1 - TopOf(l - 1) \in 0..(ROWS - 1)
           /\ l - 1 - TopOf(l - 1) + 1 = l - TopOf(l - 1)
           /\ l - TopOf(l - 1) \in Bytes
           /\ IF l - TopOf(l - 1) >= ROWS
              THEN TopOf(l) = TopOf(l - 1) + 1 /\ l - TopOf(l) = ROWS - 1 /\ TopOf(l - 1) + ROWS = l
              ELSE TopOf(l) = TopOf(l - 1)
<1>1. l - 1 \in Nat
  OBVIOUS
<1>2. CASE l < ROWS
  <2>1. TopOf(l) = 0 /\ TopOf(l - 1) = 0
    BY <1>1, <1>2, Sizes DEF TopOf
  <2> QED
    BY <1>1, <1>2, <2>1, Sizes DEF Bytes
<1>3. CASE l = ROWS
  <2>1. TopOf(l) = 1 /\ TopOf(l - 1) = 0
    BY <1>1, <1>3, Sizes DEF TopOf
  <2> QED
    BY <1>1, <1>3, <2>1, Sizes DEF Bytes
<1>4. CASE l > ROWS
  <2>1. TopOf(l) = l - ROWS + 1 /\ TopOf(l - 1) = l - ROWS
    BY <1>1, <1>4, Sizes DEF TopOf
  <2> QED
    BY <1>1, <1>4, <2>1, Sizes DEF Bytes
<1> QED
  BY <1>2, <1>3, <1>4, Sizes

LEMMA HoleOpens ==
    ASSUME NEW v, NEW p \in Pages, NEW t \in Nat, NEW l \in 0..MaxLine, NEW c \in 0..(COLUMNS - 1),
           NEW ch, Shown(v, p, t, {})
    PROVE  Shown(v, [p EXCEPT ![<<l, c>>] = ch], t, {<<l, c>>})
<1> DEFINE q == [p EXCEPT ![<<l, c>>] = ch]
<1> SUFFICES ASSUME NEW r \in 0..(ROWS - 1), NEW d \in 0..(COLUMNS - 1), <<t + r, d>> # <<l, c>>
             PROVE  v[Cell(r, d)] = OnPage(q, t + r, d)
  BY DEF Shown
<1>1. v[Cell(r, d)] = OnPage(p, t + r, d)
  BY DEF Shown
<1> DEFINE k == t + r
<1>0. k \in Nat /\ (k <= MaxLine => k \in 0..MaxLine)
  BY Sizes
<1> HIDE DEF k
<1>2. OnPage(q, k, d) = OnPage(p, k, d)
  <2>1. <<k, d>> # <<l, c>>
    BY DEF k
  <2>2. k <= MaxLine => q[<<k, d>>] = p[<<k, d>>]
    BY <1>0, <2>1 DEF Pages, Places
  <2> QED
    BY <2>2 DEF OnPage
<1> QED
  BY <1>1, <1>2 DEF k

\* A place to the left of the page is on no screen.
LEMMA HoleOutside ==
    ASSUME NEW v, NEW p, NEW t, NEW l, NEW c, c \notin 0..(COLUMNS - 1)
    PROVE  Shown(v, p, t, {<<l, c>>}) <=> Shown(v, p, t, {})
  BY DEF Shown

LEMMA BlankShows == Shown(Blank, Empty, 0, {})
<1> SUFFICES ASSUME NEW r \in 0..(ROWS - 1), NEW c \in 0..(COLUMNS - 1)
             PROVE  Blank[Cell(r, c)] = OnPage(Empty, 0 + r, c)
  BY DEF Shown
<1>1. Blank[Cell(r, c)] = " "
  BY CellIn DEF Blank
<1>2. r \in 0..MaxLine => Empty[<<r, c>>] = " "
  BY DEF Empty
<1>3. 0 + r = r /\ (r <= MaxLine => r \in 0..MaxLine)
  BY Sizes
<1> QED
  BY <1>1, <1>2, <1>3 DEF OnPage

LEMMA BlankAtCursor ==
    ASSUME NEW p, NEW l \in 0..MaxLine, NEW c \in 0..COLUMNS, BlankBehind(p, l, c),
           NEW d \in 0..(COLUMNS - 1), d >= c
    PROVE  OnPage(p, l, d) = " "
  BY Sizes DEF BlankBehind, OnPage

\* Scrolling on the way to line l, if it is needed.
LEMMA NewLineShown ==
    ASSUME NEW v \in Video, NEW p, NEW l \in 0..MaxLine, NEW c \in 0..1, l >= 1,
           BlankBehind(p, l, c),
           Shown(v, p, TopOf(l - 1), {<<l, c - 1>>})
    PROVE  IF l - TopOf(l - 1) >= ROWS THEN Shown(Scrolled(v), p, TopOf(l), {<<l, c - 1>>})
           ELSE Shown(v, p, TopOf(l), {<<l, c - 1>>})
<1>1. l \in Nat /\ l - 1 \in Nat /\ c \in 0..COLUMNS
  BY Sizes
<1>2. CASE l - TopOf(l - 1) >= ROWS
  <2>1. /\ TopOf(l) = TopOf(l - 1) + 1 /\ TopOf(l - 1) + ROWS = l /\ TopOf(l - 1) \in Nat
    BY <1>1, <1>2, TopLinesNext, TopLines
  <2> DEFINE t == TopOf(l - 1)
  <2> HIDE DEF t
  <2>2. ASSUME NEW d \in 0..(COLUMNS - 1)
        PROVE  <<t + ROWS, d>> \in {<<l, c - 1>>} \/ OnPage(p, t + ROWS, d) = " "
    <3>1. CASE d >= c
      <4>1. OnPage(p, l, d) = " "
        BY <1>1, <3>1, BlankAtCursor
      <4> QED
        BY <2>1, <4>1 DEF t
    <3>2. CASE ~(d >= c)
      <4>1. d = c - 1
        BY <3>2, Sizes
      <4> QED
        BY <2>1, <4>1 DEF t
    <3> QED
      BY <3>1, <3>2
  <2>3. Shown(v, p, t, {<<l, c - 1>>}) /\ t \in Nat
    BY <2>1 DEF t
  <2>4. Shown(Scrolled(v), p, t + 1, {<<l, c - 1>>})
    BY <2>2, <2>3, ScrollShows
  <2> QED
    BY <1>2, <2>1, <2>4 DEF t
<1>3. CASE ~(l - TopOf(l - 1) >= ROWS)
  BY <1>1, <1>3, TopLinesNext
<1> QED
  BY <1>2, <1>3

LEMMA Undisturbed ==
    ASSUME Base, ScreenSound, frames # <<>>, ~disturbed
    PROVE  /\ Len(frames) = 1 /\ ~overrun /\ BlankBehind(page, line, col)
           /\ Written(Top, page, line, col)
           /\ InCall(Top, xPos, yPos, video, page, line, col)
           /\ page \in Pages /\ col \in 0..COLUMNS /\ line \in 0..MaxLine /\ line \in Nat
           /\ col \in Nat /\ COLUMNS \in Nat
<1>1. page \in Pages /\ col \in 0..COLUMNS /\ line \in 0..MaxLine
  BY DEF Base, TypeOK, Pages, Places
<1> QED
  BY <1>1, Sizes DEF ScreenSound

LEMMA ScreenMoves ==
    ASSUME Base, ScreenSound, frames # <<>>, NEW f, OnlyTop(f), f.op = Top.op,
           UNCHANGED ghost,
           ~disturbed => /\ overrun' <=> overrun
                         /\ InCall(f, xPos', yPos', video', page, line, col)
    PROVE  ScreenSound'
<1> SUFFICES ASSUME ~disturbed' PROVE ScreenSound'
  BY DEF ScreenSound
<1>1. UNCHANGED <<disturbed, page, col, line>>
  BY DEF ghost
<1>2. Len(frames) = 1 /\ ~overrun /\ BlankBehind(page, line, col) /\ Written(Top, page, line, col)
  BY <1>1, Undisturbed
<1>3. Len(frames') = 1 /\ frames'[1] = f
  BY <1>2 DEF OnlyTop
<1>4. Top' = f
  BY <1>3 DEF Top
<1>5. Written(f, page, line, col)
  BY <1>2 DEF Written
<1>6. ~overrun' /\ InCall(f, xPos', yPos', video', page, line, col)
  BY <1>1, <1>2
<1> HIDE DEF ghost
<1> QED
  BY <1>1, <1>2, <1>3, <1>4, <1>5, <1>6 DEF ScreenSound

\* Where the innermost call is, if it goes on to `step' without moving the cursor.
Doing(step, x, y) == InCall(Moved(step, x, y), xPos, yPos, video, page, line, col)

LEMMA QuietScreen ==
    ASSUME Base, ScreenSound, frames # <<>>, NEW step, NEW x, NEW y, Quiet(step, x, y),
           ~disturbed => Doing(step, x, y)
    PROVE  ScreenSound'
<1> DEFINE f == Moved(step, x, y)
<1>1. f.op = Top.op
  BY DEF Moved
<1>2. OnlyTop(f) /\ UNCHANGED ghost /\ UNCHANGED <<xPos, yPos, video, overrun>>
  BY DEF Quiet, cursor, screen
<1>3. ~disturbed => InCall(f, xPos, yPos, video, page, line, col)
  BY DEF Doing
<1> HIDE DEF f
<1>4. ~disturbed => InCall(f, xPos', yPos', video', page, line, col)
  BY <1>2, <1>3
<1> QED
  BY <1>1, <1>2, <1>4, ScreenMoves

LEMMA TestDoes ==
    ASSUME Base, ScreenSound, ~disturbed, Test
    PROVE  Doing(IF xPos = COLUMNS THEN "wrap" ELSE "load", Top.x, Top.y)
<1>1. frames # <<>> /\ Top.at = "test"
  BY DEF Test, At
<1>2. /\ InCall(Top, xPos, yPos, video, page, line, col)
      /\ col \in 0..COLUMNS /\ col \in Nat /\ COLUMNS \in Nat
  BY <1>1, Undisturbed
<1>3. Top.op \in Characters /\ Top.op # "nl"
  BY <1>1, BaseFacts, CharactersPlain DEF FrameSound
<1>4. CASE xPos = COLUMNS
  BY <1>1, <1>2, <1>3, <1>4
  DEF InCall, Breaking, Putting, Erasing, Clearing, Moved, Doing
<1>5. CASE xPos # COLUMNS
  BY <1>1, <1>2, <1>3, <1>5
  DEF InCall, Breaking, Putting, Erasing, Clearing, Moved, Doing
<1> QED
  BY <1>4, <1>5

LEMMA LoadDoes ==
    ASSUME Base, ScreenSound, ~disturbed, Load
    PROVE  Doing("store", xPos, yPos)
<1>1. frames # <<>> /\ Top.at = "load"
  BY DEF Load, At
<1>2. /\ InCall(Top, xPos, yPos, video, page, line, col)
      /\ col \in 0..COLUMNS /\ col \in Nat /\ COLUMNS \in Nat /\ line \in Nat
  BY <1>1, Undisturbed
<1>3. \A op \in Characters : op \notin {"nl", "backspace", "clear"}
  BY CharactersPlain
<1> QED
  BY <1>1, <1>2, <1>3
  DEF InCall, Breaking, Putting, Erasing, Clearing, Moved, Doing

LEMMA RowDoes ==
    ASSUME Base, ScreenSound, ~disturbed, Row
    PROVE  Doing("setrow", 0, (yPos + 1) % ByteMod)
<1>1. frames # <<>> /\ Top.at = "row"
  BY DEF Row, At
<1>2. InCall(Top, xPos, yPos, video, page, line, col) /\ line \in Nat
  BY <1>1, Undisturbed
<1>3. Top.op \in Characters \cup {"nl"} /\ Breaking(Top, xPos, yPos, video, page, line, col)
  BY <1>1, <1>2 DEF InCall, Putting, Erasing, Clearing
<1>4. line >= 1 /\ yPos = line - 1 - TopOf(line - 1) /\ xPos = 0
  BY <1>1, <1>3 DEF Breaking
<1>5. yPos + 1 = line - TopOf(line - 1) /\ yPos + 1 \in Bytes
  BY <1>2, <1>4, TopLinesNext
<1>6. (yPos + 1) % ByteMod = line - TopOf(line - 1)
  <2>1. ByteMod \in Nat /\ \A n \in Bytes : n % ByteMod = n
    BY Sizes DEF Bytes
  <2> QED
    BY <1>5, <2>1
<1> QED
  BY <1>1, <1>3, <1>4, <1>6 DEF InCall, Breaking, Moved, Doing

LEMMA RightDoes ==
    ASSUME Base, ScreenSound, ~disturbed, Right
    PROVE  Doing("setcolumn", (xPos + 1) % ByteMod, 0)
<1>1. frames # <<>> /\ Top.at = "right"
  BY DEF Right, At
<1>2. /\ InCall(Top, xPos, yPos, video, page, line, col)
      /\ col \in 0..COLUMNS /\ col \in Nat
  BY <1>1, Undisturbed
<1>3. Top.op \in Characters /\ Putting(Top, xPos, yPos, video, page, line, col)
  BY <1>1, <1>2 DEF InCall, Breaking, Erasing, Clearing
<1>4. xPos = col - 1
  BY <1>1, <1>3 DEF Putting
<1>5. (xPos + 1) % ByteMod = col
  <2>1. xPos + 1 = col /\ col \in 0..(ByteMod - 1) /\ ByteMod \in Nat
    BY <1>2, <1>4, Sizes
  <2>2. \A n \in 0..(ByteMod - 1) : n % ByteMod = n
    BY <2>1
  <2> QED
    BY <2>1, <2>2
<1> QED
  BY <1>1, <1>3, <1>5 DEF InCall, Putting, Moved, Doing

LEMMA UpdateCursorDoes ==
    ASSUME Base, ScreenSound, ~disturbed, UpdateCursor
    PROVE  Doing(IF Top.op = "backspace" THEN "wherex" ELSE "return", Top.x, Top.y)
<1>1. frames # <<>> /\ Top.at = "cursor"
  BY DEF UpdateCursor, At
<1>2. /\ InCall(Top, xPos, yPos, video, page, line, col)
      /\ col \in 0..COLUMNS /\ col \in Nat /\ COLUMNS \in Nat /\ line \in Nat
  BY <1>1, Undisturbed
<1>3. \A op \in Characters : op \notin {"nl", "backspace", "clear"}
  BY CharactersPlain
<1> QED
  BY <1>1, <1>2, <1>3
  DEF InCall, Breaking, Putting, Erasing, Clearing, Moved, Doing

LEMMA BackspaceXDoes ==
    ASSUME Base, ScreenSound, ~disturbed, BackspaceX
    PROVE  Doing("backspacey", xPos, 0)
<1>1. frames # <<>> /\ Top.at = "backspace"
  BY DEF BackspaceX, At
<1>2. /\ InCall(Top, xPos, yPos, video, page, line, col)
      /\ col \in 0..COLUMNS /\ col \in Nat /\ COLUMNS \in Nat /\ line \in Nat
  BY <1>1, Undisturbed
<1>3. \A op \in Characters : op \notin {"nl", "backspace", "clear"}
  BY CharactersPlain
<1> QED
  BY <1>1, <1>2, <1>3
  DEF InCall, Breaking, Putting, Erasing, Clearing, Moved, Doing

LEMMA BackspaceYDoes ==
    ASSUME Base, ScreenSound, ~disturbed, BackspaceY
    PROVE  IF Top.x = 0 THEN Doing("wherex", Top.x, Top.y) ELSE Doing("goto", Top.x - 1, yPos)
<1>1. frames # <<>> /\ Top.at = "backspacey"
  BY DEF BackspaceY, At
<1>2. InCall(Top, xPos, yPos, video, page, line, col) /\ col \in Nat
  BY <1>1, Undisturbed
<1>3. Top.op = "backspace" /\ Erasing(Top, xPos, yPos, video, page, line, col)
  BY <1>1, <1>2 DEF InCall, Breaking, Putting, Clearing
<1>4. Top.x = xPos /\ (xPos = col + 1 \/ (xPos = 0 /\ col = 0))
  BY <1>1, <1>3 DEF Erasing
<1>5. CASE Top.x = 0
  <2>1. xPos = col
    BY <1>2, <1>4, <1>5
  <2> QED
    BY <1>3, <1>5, <2>1 DEF InCall, Erasing, Moved, Doing
<1>6. CASE Top.x # 0
  <2>1. Top.x - 1 = col
    BY <1>2, <1>4, <1>6
  <2> QED
    BY <1>3, <1>6, <2>1 DEF InCall, Erasing, Moved, Doing
<1> QED
  BY <1>5, <1>6

LEMMA GoToPixelDoes ==
    ASSUME Base, ScreenSound, ~disturbed, GoToPixel
    PROVE  Doing("column", Top.x, Top.y) /\ Top.x < COLUMNS /\ Top.y < ROWS
<1>1. frames # <<>> /\ Top.at = "goto"
  BY DEF GoToPixel, At
<1>2. InCall(Top, xPos, yPos, video, page, line, col) /\ line \in Nat
  BY <1>1, Undisturbed
<1>3. Top.op = "backspace" /\ Erasing(Top, xPos, yPos, video, page, line, col)
  BY <1>1, <1>2 DEF InCall, Breaking, Putting, Clearing
<1>4. Top.x = col /\ col < COLUMNS /\ Top.y = line - TopOf(line)
  BY <1>1, <1>3 DEF Erasing
<1>5. Top.y < ROWS
  BY <1>2, <1>4, TopLines, Sizes
<1> QED
  BY <1>1, <1>3, <1>4, <1>5 DEF InCall, Erasing, Moved, Doing

LEMMA WhereXDoes ==
    ASSUME Base, ScreenSound, ~disturbed, WhereX
    PROVE  Doing("wherey", xPos, 0)
<1>1. frames # <<>> /\ Top.at = "wherex"
  BY DEF WhereX, At
<1>2. /\ InCall(Top, xPos, yPos, video, page, line, col)
      /\ col \in 0..COLUMNS /\ col \in Nat /\ COLUMNS \in Nat /\ line \in Nat
  BY <1>1, Undisturbed
<1>3. \A op \in Characters : op \notin {"nl", "backspace", "clear"}
  BY CharactersPlain
<1> QED
  BY <1>1, <1>2, <1>3
  DEF InCall, Breaking, Putting, Erasing, Clearing, Moved, Doing

LEMMA WhereYDoes ==
    ASSUME Base, ScreenSound, ~disturbed, WhereY
    PROVE  Doing("blank", Top.x, yPos)
<1>1. frames # <<>> /\ Top.at = "wherey"
  BY DEF WhereY, At
<1>2. /\ InCall(Top, xPos, yPos, video, page, line, col)
      /\ col \in 0..COLUMNS /\ col \in Nat /\ COLUMNS \in Nat /\ line \in Nat
  BY <1>1, Undisturbed
<1>3. \A op \in Characters : op \notin {"nl", "backspace", "clear"}
  BY CharactersPlain
<1> QED
  BY <1>1, <1>2, <1>3
  DEF InCall, Breaking, Putting, Erasing, Clearing, Moved, Doing

LEMMA QuietSteps ==
    ASSUME Base, ScreenSound,
           \/ Test \/ Row \/ Load \/ Right \/ UpdateCursor
           \/ BackspaceX \/ BackspaceY \/ GoToPixel \/ WhereX \/ WhereY
    PROVE  ScreenSound'
<1> USE DEF At
<1>1. /\ frames # <<>> /\ Top.x \in Bytes /\ Top.y \in Bytes /\ xPos \in Bytes
      /\ yPos \in Bytes /\ 0 \in Bytes /\ UNCHANGED <<cursor, screen, ghost>>
      /\ iflag' \in BOOLEAN
  <2>1. frames # <<>> /\ UNCHANGED <<cursor, screen, ghost>>
    BY DEF Test, Row, Load, Right, UpdateCursor, BackspaceX, BackspaceY, GoToPixel, WhereX,
           WhereY
  <2>2. iflag' \in BOOLEAN
    BY <2>1, BaseFacts DEF Test, Row, Load, Right, UpdateCursor, BackspaceX, BackspaceY,
           GoToPixel, WhereX, WhereY
  <2> QED
    BY <2>1, <2>2, BaseFacts, ByteSums
<1>2. /\ \A n \in Bytes : (n + 1) % ByteMod \in Bytes
      /\ \A n \in Bytes : n # 0 => n - 1 \in Bytes
  BY ByteSums
<1>3. CASE Test
  <2>1. CASE xPos = COLUMNS
    <3>1. Goto("wrap") /\ "wrap" \in Steps
      BY <1>3, <2>1 DEF Test, Steps
    <3>2. Quiet("wrap", Top.x, Top.y)
      BY <1>1, <3>1, GotoQuiet
    <3>3. ~disturbed => Doing("wrap", Top.x, Top.y)
      BY <1>3, <2>1, TestDoes
    <3> QED
      BY <1>1, <3>2, <3>3, QuietScreen
  <2>2. CASE xPos # COLUMNS
    <3>1. Goto("load") /\ "load" \in Steps
      BY <1>3, <2>2 DEF Test, Steps
    <3>2. Quiet("load", Top.x, Top.y)
      BY <1>1, <3>1, GotoQuiet
    <3>3. ~disturbed => Doing("load", Top.x, Top.y)
      BY <1>3, <2>2, TestDoes
    <3> QED
      BY <1>1, <3>2, <3>3, QuietScreen
  <2> QED
    BY <2>1, <2>2
<1>4. CASE Row
  <2>1. /\ GotoWith("setrow", 0, (yPos + 1) % ByteMod) /\ UNCHANGED iflag
        /\ "setrow" \in Steps /\ 0 \in Bytes /\ (yPos + 1) % ByteMod \in Bytes
    BY <1>1, <1>2, <1>4 DEF Row, Steps
  <2>2. Quiet("setrow", 0, (yPos + 1) % ByteMod)
    BY <1>1, <2>1, GotoWithQuiet
  <2>3. ~disturbed => Doing("setrow", 0, (yPos + 1) % ByteMod)
    BY <1>4, RowDoes
  <2> QED
    BY <1>1, <2>2, <2>3, QuietScreen
<1>5. CASE Load
  <2>1. /\ GotoWith("store", xPos, yPos) /\ UNCHANGED iflag
        /\ "store" \in Steps /\ xPos \in Bytes /\ yPos \in Bytes
    BY <1>1, <1>2, <1>5 DEF Load, Steps
  <2>2. Quiet("store", xPos, yPos)
    BY <1>1, <2>1, GotoWithQuiet
  <2>3. ~disturbed => Doing("store", xPos, yPos)
    BY <1>5, LoadDoes
  <2> QED
    BY <1>1, <2>2, <2>3, QuietScreen
<1>6. CASE Right
  <2>1. /\ GotoWith("setcolumn", (xPos + 1) % ByteMod, 0) /\ UNCHANGED iflag
        /\ "setcolumn" \in Steps /\ (xPos + 1) % ByteMod \in Bytes /\ 0 \in Bytes
    BY <1>1, <1>2, <1>6 DEF Right, Steps
  <2>2. Quiet("setcolumn", (xPos + 1) % ByteMod, 0)
    BY <1>1, <2>1, GotoWithQuiet
  <2>3. ~disturbed => Doing("setcolumn", (xPos + 1) % ByteMod, 0)
    BY <1>6, RightDoes
  <2> QED
    BY <1>1, <2>2, <2>3, QuietScreen
<1>7. CASE UpdateCursor
  <2>1. CASE Top.op = "backspace"
    <3>1. Goto("wherex") /\ "wherex" \in Steps
      BY <1>7, <2>1 DEF UpdateCursor, Steps
    <3>2. Quiet("wherex", Top.x, Top.y)
      BY <1>1, <3>1, GotoQuiet
    <3>3. ~disturbed => Doing("wherex", Top.x, Top.y)
      BY <1>7, <2>1, UpdateCursorDoes
    <3> QED
      BY <1>1, <3>2, <3>3, QuietScreen
  <2>2. CASE Top.op # "backspace"
    <3>1. Goto("return") /\ "return" \in Steps
      BY <1>7, <2>2 DEF UpdateCursor, Steps
    <3>2. Quiet("return", Top.x, Top.y)
      BY <1>1, <3>1, GotoQuiet
    <3>3. ~disturbed => Doing("return", Top.x, Top.y)
      BY <1>7, <2>2, UpdateCursorDoes
    <3> QED
      BY <1>1, <3>2, <3>3, QuietScreen
  <2> QED
    BY <2>1, <2>2
<1>8. CASE BackspaceX
  <2>1. /\ GotoWith("backspacey", xPos, 0) /\ UNCHANGED iflag
        /\ "backspacey" \in Steps /\ xPos \in Bytes /\ 0 \in Bytes
    BY <1>1, <1>2, <1>8 DEF BackspaceX, Steps
  <2>2. Quiet("backspacey", xPos, 0)
    BY <1>1, <2>1, GotoWithQuiet
  <2>3. ~disturbed => Doing("backspacey", xPos, 0)
    BY <1>8, BackspaceXDoes
  <2> QED
    BY <1>1, <2>2, <2>3, QuietScreen
<1>9. CASE BackspaceY
  <2>1. CASE Top.x = 0
    <3>1. Goto("wherex") /\ "wherex" \in Steps
      BY <1>9, <2>1 DEF BackspaceY, Steps
    <3>2. Quiet("wherex", Top.x, Top.y)
      BY <1>1, <3>1, GotoQuiet
    <3>3. ~disturbed => Doing("wherex", Top.x, Top.y)
      BY <1>9, <2>1, BackspaceYDoes
    <3> QED
      BY <1>1, <3>2, <3>3, QuietScreen
  <2>2. CASE Top.x # 0
    <3>1. /\ GotoWith("goto", Top.x - 1, yPos) /\ UNCHANGED iflag
          /\ "goto" \in Steps /\ Top.x - 1 \in Bytes /\ yPos \in Bytes
      BY <1>1, <1>2, <1>9, <2>2 DEF BackspaceY, Steps
    <3>2. Quiet("goto", Top.x - 1, yPos)
      BY <1>1, <3>1, GotoWithQuiet
    <3>3. ~disturbed => Doing("goto", Top.x - 1, yPos)
      BY <1>9, <2>2, BackspaceYDoes
    <3> QED
      BY <1>1, <3>2, <3>3, QuietScreen
  <2> QED
    BY <2>1, <2>2
<1>10. CASE GoToPixel
  <2>1. CASE Top.x < COLUMNS /\ Top.y < ROWS
    <3>1. Goto("column") /\ "column" \in Steps
      BY <1>10, <2>1 DEF GoToPixel, Steps
    <3>2. Quiet("column", Top.x, Top.y)
      BY <1>1, <3>1, GotoQuiet
    <3>3. ~disturbed => Doing("column", Top.x, Top.y)
      BY <1>10, <2>1, GoToPixelDoes
    <3> QED
      BY <1>1, <3>2, <3>3, QuietScreen
  <2>2. CASE ~(Top.x < COLUMNS /\ Top.y < ROWS)
    <3>1. Goto("wherex") /\ "wherex" \in Steps
      BY <1>10, <2>2 DEF GoToPixel, Steps
    <3>2. Quiet("wherex", Top.x, Top.y)
      BY <1>1, <3>1, GotoQuiet
    <3>3. ~disturbed => Doing("wherex", Top.x, Top.y)
      BY <1>10, <2>2, GoToPixelDoes
    <3> QED
      BY <1>1, <3>2, <3>3, QuietScreen
  <2> QED
    BY <2>1, <2>2
<1>11. CASE WhereX
  <2>1. /\ GotoWith("wherey", xPos, 0) /\ UNCHANGED iflag
        /\ "wherey" \in Steps /\ xPos \in Bytes /\ 0 \in Bytes
    BY <1>1, <1>2, <1>11 DEF WhereX, Steps
  <2>2. Quiet("wherey", xPos, 0)
    BY <1>1, <2>1, GotoWithQuiet
  <2>3. ~disturbed => Doing("wherey", xPos, 0)
    BY <1>11, WhereXDoes
  <2> QED
    BY <1>1, <2>2, <2>3, QuietScreen
<1>12. CASE WhereY
  <2>1. /\ GotoWith("blank", Top.x, yPos) /\ UNCHANGED iflag
        /\ "blank" \in Steps /\ Top.x \in Bytes /\ yPos \in Bytes
    BY <1>1, <1>2, <1>12 DEF WhereY, Steps
  <2>2. Quiet("blank", Top.x, yPos)
    BY <1>1, <2>1, GotoWithQuiet
  <2>3. ~disturbed => Doing("blank", Top.x, yPos)
    BY <1>12, WhereYDoes
  <2> QED
    BY <1>1, <2>2, <2>3, QuietScreen
<1> QED
  BY <1>3, <1>4, <1>5, <1>6, <1>7, <1>8, <1>9, <1>10, <1>11, <1>12

\* The same for a step that goes on to `step' and moves the cursor or prints.
LEMMA MovesScreen ==
    ASSUME Base, ScreenSound, frames # <<>>, NEW step \in Steps, Goto(step),
           UNCHANGED ghost,
           ~disturbed => /\ overrun' <=> overrun
                         /\ InCall(Moved(step, Top.x, Top.y), xPos', yPos', video', page, line, col)
    PROVE  ScreenSound'
<1> DEFINE f == Moved(step, Top.x, Top.y)
<1>1. f.op = Top.op
  BY DEF Moved
<1>2. OnlyTop(f)
  BY GotoMoves DEF Base
<1>3. ~disturbed => /\ overrun' <=> overrun
                    /\ InCall(f, xPos', yPos', video', page, line, col)
  OBVIOUS
<1> HIDE DEF f
<1> QED
  BY <1>1, <1>2, <1>3, ScreenMoves

LEMMA CursorSteps ==
    ASSUME Base, ScreenSound, Wrap \/ SetRow \/ SetColumn \/ Column \/ Line
    PROVE  ScreenSound'
<1> USE DEF At
<1>1. frames # <<>> /\ UNCHANGED <<video, overrun, ghost>>
  BY DEF Wrap, SetRow, SetColumn, Column, Line, screen
<1>2. ~disturbed =>
          /\ InCall(Top, xPos, yPos, video, page, line, col)
          /\ col \in Nat /\ COLUMNS \in Nat /\ line \in Nat
  BY <1>1, Undisturbed
<1>3. \A op \in Characters : op \notin {"nl", "backspace", "clear"}
  BY CharactersPlain
<1>4. CASE Wrap
  <2>1. xPos' = 0 /\ yPos' = yPos /\ Goto("row") /\ "row" \in Steps /\ Top.at = "wrap"
    BY <1>4 DEF Wrap, Steps
  <2>2. ~disturbed => InCall(Moved("row", Top.x, Top.y), 0, yPos, video, page, line, col)
    BY <1>2, <1>3, <2>1 DEF InCall, Breaking, Putting, Erasing, Clearing, Moved
  <2> QED
    BY <1>1, <2>1, <2>2, MovesScreen
<1>5. CASE SetRow
  <2>1. /\ yPos' = Top.y /\ xPos' = xPos /\ Goto("scroll") /\ "scroll" \in Steps
        /\ Top.at = "setrow"
    BY <1>5 DEF SetRow, Steps
  <2>2. ~disturbed => InCall(Moved("scroll", Top.x, Top.y), xPos, Top.y, video, page, line, col)
    BY <1>2, <1>3, <2>1 DEF InCall, Breaking, Putting, Erasing, Clearing, Moved
  <2> QED
    BY <1>1, <2>1, <2>2, MovesScreen
<1>6. CASE SetColumn
  <2>1. /\ xPos' = Top.x /\ yPos' = yPos /\ Goto("cursor") /\ "cursor" \in Steps
        /\ Top.at = "setcolumn"
    BY <1>6 DEF SetColumn, Steps
  <2>2. ~disturbed => InCall(Moved("cursor", Top.x, Top.y), Top.x, yPos, video, page, line, col)
    BY <1>2, <1>3, <2>1 DEF InCall, Breaking, Putting, Erasing, Clearing, Moved, Done
  <2> QED
    BY <1>1, <2>1, <2>2, MovesScreen
<1>7. CASE Column
  <2>1. /\ xPos' = Top.x /\ yPos' = yPos /\ Goto("line") /\ "line" \in Steps
        /\ Top.at = "column"
    BY <1>7 DEF Column, Steps
  <2>2. ~disturbed => InCall(Moved("line", Top.x, Top.y), Top.x, yPos, video, page, line, col)
    BY <1>2, <1>3, <2>1 DEF InCall, Breaking, Putting, Erasing, Clearing, Moved
  <2> QED
    BY <1>1, <2>1, <2>2, MovesScreen
<1>8. CASE Line
  <2>1. /\ yPos' = Top.y /\ xPos' = xPos /\ Goto("cursor") /\ "cursor" \in Steps
        /\ Top.at = "line"
    BY <1>8 DEF Line, Steps
  <2>2. ASSUME ~disturbed
        PROVE  InCall(Moved("cursor", Top.x, Top.y), xPos, Top.y, video, page, line, col)
    <3>1. CASE Top.op = "backspace" /\ Erasing(Top, xPos, yPos, video, page, line, col)
      BY <1>2, <2>1, <2>2, <3>1 DEF InCall, Erasing, Moved
    <3>2. CASE Top.op = "clear" /\ Clearing(Top, xPos, yPos, video, page, line, col)
      <4>1. xPos = col /\ Top.y = 0 /\ line = 0 /\ Shown(video, page, 0, {})
        BY <2>1, <3>2 DEF Clearing
      <4>2. TopOf(0) = 0
        BY TopLines
      <4>3. Done(xPos, Top.y, video, page, line, col)
        BY <4>1, <4>2 DEF Done
      <4> QED
        BY <3>2, <4>3 DEF InCall, Moved
    <3> QED
      BY <1>2, <1>3, <2>1, <2>2, <3>1, <3>2 DEF InCall, Breaking, Putting
  <2> QED
    BY <1>1, <2>1, <2>2, MovesScreen
<1> QED
  BY <1>4, <1>5, <1>6, <1>7, <1>8

LEMMA ScrollScreen == ASSUME Base, ScreenSound, Scroll PROVE ScreenSound'
<1> DEFINE step == IF Top.op = "nl" THEN "cursor" ELSE "load"
<1>1. /\ frames # <<>> /\ Top.at = "scroll" /\ xPos' = xPos /\ overrun' = overrun
      /\ UNCHANGED ghost /\ Goto(step) /\ step \in Steps
  BY DEF Scroll, At, Steps
<1>2. Top.op \in Characters \cup {"nl"} /\ video \in Video
  BY <1>1, BaseFacts DEF FrameSound
<1>3. ASSUME ~disturbed
      PROVE  InCall(Moved(step, Top.x, Top.y), xPos, yPos', video', page, line, col)
  <2> DEFINE hole == {<<line, col - 1>>}
             t == TopOf(line - 1)
  <2>1. /\ InCall(Top, xPos, yPos, video, page, line, col) /\ BlankBehind(page, line, col)
        /\ line \in 0..MaxLine /\ line \in Nat
    BY <1>1, <1>3, Undisturbed
  <2>2. Breaking(Top, xPos, yPos, video, page, line, col)
    BY <1>1, <1>2, <2>1, CharactersPlain DEF InCall, Putting, Erasing, Clearing
  <2>3. /\ line >= 1 /\ col = (IF Top.op = "nl" THEN 0 ELSE 1) /\ xPos = 0
        /\ yPos = line - t /\ Shown(video, page, t, hole)
    BY <1>1, <2>2 DEF Breaking
  <2>4. IF yPos >= ROWS THEN Shown(Scrolled(video), page, TopOf(line), hole)
        ELSE Shown(video, page, TopOf(line), hole)
    <3>1. col \in 0..1
      BY <2>3
    <3> QED
      BY <1>2, <2>1, <2>3, <3>1, NewLineShown
  <2>5. IF yPos >= ROWS THEN line - TopOf(line) = ROWS - 1 ELSE TopOf(line) = t
    BY <2>1, <2>3, TopLinesNext
  <2>6. yPos' = line - TopOf(line) /\ Shown(video', page, TopOf(line), hole)
    BY <2>3, <2>4, <2>5, ScrollOutcome
  <2>7. CASE Top.op = "nl"
    <3>1. col = 0 /\ col - 1 \notin 0..(COLUMNS - 1) /\ step = "cursor"
      BY <2>3, <2>7
    <3>2. Shown(video', page, TopOf(line), {})
      BY <2>6, <3>1, HoleOutside
    <3>3. Done(xPos, yPos', video', page, line, col)
      BY <2>3, <2>6, <3>1, <3>2 DEF Done
    <3> QED
      BY <2>7, <3>1, <3>3 DEF InCall, Moved
  <2>8. CASE Top.op # "nl"
    <3>1. col = 1 /\ xPos = col - 1 /\ col >= 1 /\ step = "load" /\ Top.op \in Characters
      BY <1>2, <2>3, <2>8
    <3> HIDE DEF step
    <3>2. Putting(Moved(step, Top.x, Top.y), xPos, yPos', video', page, line, col)
      BY <2>6, <3>1 DEF Putting, Moved
    <3> QED
      BY <3>1, <3>2 DEF InCall, Moved
  <2> QED
    BY <2>7, <2>8
<1> HIDE DEF step
<1> QED
  BY <1>1, <1>3, MovesScreen

LEMMA StoreCharacterScreen ==
    ASSUME Base, ScreenSound, StoreCharacter PROVE ScreenSound'
<1>1. /\ frames # <<>> /\ Top.at = "store" /\ xPos' = xPos /\ yPos' = yPos
      /\ UNCHANGED ghost /\ Goto("right") /\ "right" \in Steps /\ Store(Top.x, Top.y, Top.op)
  BY DEF StoreCharacter, At, Steps, cursor
<1>2. Top.op \in Characters /\ video \in Video
  BY <1>1, BaseFacts DEF FrameSound
<1>3. ASSUME ~disturbed
      PROVE  /\ overrun' <=> overrun
             /\ InCall(Moved("right", Top.x, Top.y), xPos, yPos, video', page, line, col)
  <2> DEFINE t == TopOf(line)
  <2>1. /\ InCall(Top, xPos, yPos, video, page, line, col) /\ Written(Top, page, line, col)
        /\ col \in 0..COLUMNS /\ line \in Nat
    BY <1>1, <1>3, Undisturbed
  <2>2. Putting(Top, xPos, yPos, video, page, line, col)
    BY <1>1, <1>2, <2>1, CharactersPlain DEF InCall, Breaking, Erasing, Clearing
  <2>3. /\ col >= 1 /\ yPos = line - t /\ Top.x = xPos /\ Top.y = yPos /\ xPos = col - 1
        /\ Shown(video, page, t, {<<line, col - 1>>})
    BY <1>1, <2>2 DEF Putting
  <2>4. t \in Nat /\ yPos \in 0..(ROWS - 1) /\ t + yPos = line
    BY <2>1, <2>3, TopLines
  <2>5. xPos \in 0..(COLUMNS - 1)
    BY <2>1, <2>3, Sizes
  <2>6. OnPage(page, line, col - 1) = Top.op
    BY <1>2, <2>1 DEF Written
  <2> HIDE DEF t
  <2>7. Store(xPos, yPos, Top.op)
    BY <1>1, <2>3
  <2>8. Shown(video, page, t, {<<t + yPos, xPos>>}) /\ OnPage(page, t + yPos, xPos) = Top.op
    BY <2>3, <2>4, <2>6
  <2>9. Shown(video', page, t, {}) /\ (overrun' <=> overrun)
    BY <1>2, <2>4, <2>5, <2>7, <2>8, StoreShows
  <2>10. Putting(Moved("right", Top.x, Top.y), xPos, yPos, video', page, line, col)
    BY <2>3, <2>9 DEF Putting, Moved, t
  <2> QED
    BY <1>2, <2>9, <2>10 DEF InCall, Moved
<1> QED
  BY <1>1, <1>3, MovesScreen

LEMMA StoreBlankScreen ==
    ASSUME Base, ScreenSound, StoreBlank PROVE ScreenSound'
<1>1. /\ frames # <<>> /\ Top.at = "blank" /\ xPos' = xPos /\ yPos' = yPos
      /\ UNCHANGED ghost /\ Goto("return") /\ "return" \in Steps /\ Store(Top.x, Top.y, " ")
  BY DEF StoreBlank, At, Steps, cursor
<1>2. video \in Video
  BY <1>1, BaseFacts
<1>3. ASSUME ~disturbed
      PROVE  /\ overrun' <=> overrun
             /\ InCall(Moved("return", Top.x, Top.y), xPos, yPos, video', page, line, col)
  <2> DEFINE t == TopOf(line)
  <2>1. /\ InCall(Top, xPos, yPos, video, page, line, col) /\ BlankBehind(page, line, col)
        /\ col \in 0..COLUMNS /\ line \in 0..MaxLine /\ line \in Nat
    BY <1>1, <1>3, Undisturbed
  <2>2. Erasing(Top, xPos, yPos, video, page, line, col)
    BY <1>1, <2>1 DEF InCall, Breaking, Putting, Clearing
  <2>3. /\ col < COLUMNS /\ yPos = line - t /\ Top.x = xPos /\ Top.y = yPos /\ xPos = col
        /\ Shown(video, page, t, {<<line, col>>})
    BY <1>1, <2>2 DEF Erasing
  <2>4. t \in Nat /\ yPos \in 0..(ROWS - 1) /\ t + yPos = line
    BY <2>1, <2>3, TopLines
  <2>5. xPos \in 0..(COLUMNS - 1) /\ col \in 0..(COLUMNS - 1) /\ col >= col
    BY <2>1, <2>3, Sizes
  <2>6. OnPage(page, line, col) = " "
    BY <2>1, <2>5, BlankAtCursor
  <2> HIDE DEF t
  <2>7. Store(xPos, yPos, " ")
    BY <1>1, <2>3
  <2>8. Shown(video, page, t, {<<t + yPos, xPos>>}) /\ OnPage(page, t + yPos, xPos) = " "
    BY <2>3, <2>4, <2>6
  <2>9. Shown(video', page, t, {}) /\ (overrun' <=> overrun)
    BY <1>2, <2>4, <2>5, <2>7, <2>8, StoreShows
  <2>10. Done(xPos, yPos, video', page, line, col)
    BY <2>3, <2>9 DEF Done, t
  <2> QED
    BY <2>9, <2>10 DEF InCall, Moved
<1> QED
  BY <1>1, <1>3, MovesScreen

LEMMA ClearScreen == ASSUME Base, ScreenSound, Clear PROVE ScreenSound'
<1>1. /\ frames # <<>> /\ Top.at = "clear" /\ xPos' = xPos /\ yPos' = yPos
      /\ overrun' = overrun /\ video' = Blank
      /\ UNCHANGED ghost /\ GotoWith("column", 0, 0) /\ "column" \in Steps
  BY DEF Clear, At, Steps, cursor
<1> DEFINE f == Moved("column", 0, 0)
<1>2. OnlyTop(f) /\ f.op = Top.op
  BY <1>1, GotoWithMoves, ByteSums DEF Base, Moved
<1>3. ASSUME ~disturbed PROVE InCall(f, xPos, yPos, Blank, page, line, col)
  <2>1. InCall(Top, xPos, yPos, video, page, line, col)
    BY <1>1, <1>3, Undisturbed
  <2>2. Top.op = "clear" /\ line = 0 /\ col = 0 /\ page = Empty
    BY <1>1, <2>1 DEF InCall, Breaking, Putting, Erasing, Clearing
  <2>3. Clearing(f, xPos, yPos, Blank, page, line, col)
    BY <2>2, BlankShows DEF Clearing, Moved
  <2> QED
    BY <2>2, <2>3 DEF InCall, Moved
<1> HIDE DEF f
<1> QED
  BY <1>1, <1>2, <1>3, ScreenMoves

LEMMA FinishScreen == ASSUME Base, ScreenSound, Finish PROVE ScreenSound'
<1> SUFFICES ASSUME ~disturbed' PROVE ScreenSound'
  BY DEF ScreenSound
<1>1. /\ frames # <<>> /\ Top.at = "return"
      /\ UNCHANGED <<xPos, yPos, video, overrun, disturbed, page, col, line>>
  BY DEF Finish, At, cursor, screen, ghost
<1>2. /\ Len(frames) = 1 /\ ~overrun /\ BlankBehind(page, line, col)
      /\ InCall(Top, xPos, yPos, video, page, line, col)
  BY <1>1, Undisturbed
<1>3. Done(xPos, yPos, video, page, line, col)
  BY <1>1, <1>2 DEF InCall, Breaking, Putting, Erasing, Clearing
<1>4. frames' = <<>>
  <2>1. frames' \in Seq(Frames) /\ Len(frames') = Len(frames) - 1
    BY CallReturns
  <2> QED
    BY <1>2, <2>1, EmptySeq
<1> QED
  BY <1>1, <1>2, <1>3, <1>4 DEF ScreenSound

\* What the page becomes when a call begins, and where on it the call will be.
LEMMA PageNext ==
    ASSUME TypeOK, NEW op, PageDo(op), BlankBehind(page, line, col),
           Done(xPos, yPos, video, page, line, col), NEW f, f.op = op, op \in Operations,
           op \in Characters => f.at = "test",
           op = "nl" => f.at = "wrap",
           op \in {"backspace", "clear"} => f.at = op
    PROVE  /\ BlankBehind(page', line', col') /\ Written(f, page', line', col')
           /\ InCall(f, xPos, yPos, video, page', line', col')
<1>1. /\ page \in Pages /\ col \in 0..COLUMNS /\ line \in 0..MaxLine
      /\ line \in Nat /\ col \in Nat /\ COLUMNS \in Nat /\ MaxLine \in Nat
  <2>1. page \in Pages /\ col \in 0..COLUMNS /\ line \in 0..MaxLine
    BY DEF TypeOK, Pages, Places
  <2> QED
    BY <2>1, Sizes
<1>2. xPos = col /\ yPos = line - TopOf(line) /\ Shown(video, page, TopOf(line), {})
  BY DEF Done
<1>3. /\ TopOf(line) \in Nat
      /\ \A op2 \in Characters : op2 \notin {" ", "nl", "backspace", "clear"}
  BY <1>1, TopLines, CharactersPlain
<1>4. CASE op = "clear" /\ PageClear
  <2>1. page' = Empty /\ col' = 0 /\ line' = 0 /\ op \notin Characters
    BY <1>3, <1>4 DEF PageClear
  <2>2. BlankBehind(Empty, 0, 0)
    BY DEF BlankBehind, Empty
  <2>3. Clearing(f, xPos, yPos, video, Empty, 0, 0)
    BY <1>4 DEF Clearing
  <2> QED
    BY <1>4, <2>1, <2>2, <2>3 DEF InCall, Written
<1>5. CASE op = "backspace" /\ line < MaxLine /\ PageBackspace
  <2> DEFINE left == IF col = 0 THEN 0 ELSE col - 1
  <2>1. left \in 0..(COLUMNS - 1) /\ left < COLUMNS /\ (col = left + 1 \/ (col = 0 /\ left = 0))
    BY <1>1, Sizes
  <2>2. left \in Nat /\ left <= col /\ (\A j \in 0..(COLUMNS - 1) : j >= left => (j = left \/ j >= col))
    BY <1>1, <2>1
  <2>3. op \notin Characters
    BY <1>3, <1>5
  <2> HIDE DEF left
  <2> DEFINE q == [page EXCEPT ![<<line, left>>] = " "]
  <2>4. page' = q /\ col' = left /\ line' = line
    BY <1>5 DEF PageBackspace, left
  <2>5. BlankBehind(q, line, left)
    <3> SUFFICES ASSUME NEW k \in 0..MaxLine, NEW j \in 0..(COLUMNS - 1),
                        k > line \/ (k = line /\ j >= left)
                 PROVE  q[<<k, j>>] = " "
      BY DEF BlankBehind
    <3>1. CASE k = line /\ j = left
      BY <1>1, <3>1 DEF Pages, Places
    <3>2. CASE ~(k = line /\ j = left)
      <4>1. k > line \/ (k = line /\ j >= col)
        BY <2>2, <3>2
      <4>2. page[<<k, j>>] = " "
        BY <4>1 DEF BlankBehind
      <4>3. <<k, j>> # <<line, left>>
        BY <3>2
      <4> QED
        BY <1>1, <4>2, <4>3 DEF Pages, Places
    <3> QED
      BY <3>1, <3>2
  <2>6. Shown(video, q, TopOf(line), {<<line, left>>})
    BY <1>1, <1>2, <1>3, <2>1, HoleOpens
  <2> HIDE DEF q
  <2>7. Erasing(f, xPos, yPos, video, q, line, left)
    BY <1>2, <1>5, <2>1, <2>6 DEF Erasing
  <2> QED
    BY <1>5, <2>3, <2>4, <2>5, <2>7 DEF InCall, Written
<1>6. CASE op = "nl" /\ line < MaxLine /\ PageNewline
  <2>1. page' = page /\ col' = 0 /\ line' = line + 1 /\ op \notin Characters
    BY <1>3, <1>6 DEF PageNewline
  <2> DEFINE l == line + 1
  <2>2. l \in Nat /\ l >= 1 /\ l - 1 = line
    BY <1>1
  <2>3. \A k \in 0..MaxLine : k >= l => k > line
    BY <1>1
  <2>4. BlankBehind(page, l, 0)
    <3>1. \A k \in 0..MaxLine : (k > l \/ k = l) => k > line
      BY <1>1
    <3> HIDE DEF l
    <3> QED
      BY <3>1 DEF BlankBehind
  <2> HIDE DEF l
  <2>5. 0 - 1 \notin 0..(COLUMNS - 1)
    OBVIOUS
  <2>6. Shown(video, page, TopOf(l - 1), {<<l, 0 - 1>>})
    BY <1>2, <2>2, <2>5, HoleOutside
  <2>7. Breaking(f, xPos, yPos, video, page, l, 0)
    BY <1>2, <1>6, <2>2, <2>6 DEF Breaking
  <2> QED
    BY <1>6, <2>1, <2>4, <2>7 DEF InCall, Written, l
<1>7. CASE op \in Characters /\ line < MaxLine /\ PagePut(op)
  <2> DEFINE l == IF col = COLUMNS THEN line + 1 ELSE line
             c == IF col = COLUMNS THEN 0 ELSE col
             q == [page EXCEPT ![<<l, c>>] = op]
  <2>1. l \in 0..MaxLine /\ c \in 0..(COLUMNS - 1) /\ c \in Nat
    BY <1>1, <1>7, CursorSums
  <2>2. \A k \in 0..MaxLine, j \in 0..(COLUMNS - 1) :
            (k > l \/ (k = l /\ j >= c + 1)) =>
                /\ k > line \/ (k = line /\ j >= col)
                /\ ~(k = l /\ j = c)
    BY <1>1, <2>1
  <2>3. IF col = COLUMNS THEN l - 1 = line /\ l >= 1 /\ c = 0 ELSE l = line /\ c = col
    BY <1>1
  <2>4. NextPlace = <<l, c>>
    BY DEF NextPlace
  <2> HIDE DEF l, c
  <2>5. page' = q /\ line' = l /\ col' = c + 1
    BY <1>7, <2>4 DEF PagePut
  <2>6. BlankBehind(q, l, c + 1)
    <3> SUFFICES ASSUME NEW k \in 0..MaxLine, NEW j \in 0..(COLUMNS - 1),
                        k > l \/ (k = l /\ j >= c + 1)
                 PROVE  q[<<k, j>>] = " "
      BY DEF BlankBehind
    <3>1. (k > line \/ (k = line /\ j >= col)) /\ ~(k = l /\ j = c)
      BY <2>2
    <3>2. page[<<k, j>>] = " "
      BY <3>1 DEF BlankBehind
    <3>3. <<k, j>> # <<l, c>>
      BY <3>1
    <3> QED
      BY <1>1, <3>2, <3>3 DEF Pages, Places
  <2>7. q[<<l, c>>] = op
    BY <1>1, <2>1 DEF Pages, Places
  <2>8. Shown(video, q, TopOf(line), {<<l, c>>})
    BY <1>1, <1>2, <1>3, <2>1, HoleOpens
  <2> HIDE DEF q
  <2>9. c + 1 - 1 = c /\ c + 1 >= 1
    BY <2>1
  <2>10. Written(f, q, l, c + 1)
    BY <1>7, <2>1, <2>7, <2>9 DEF Written, OnPage
  <2>11. InCall(f, xPos, yPos, video, q, l, c + 1)
    <3>1. CASE col = COLUMNS
      <4>1. l - 1 = line /\ l >= 1 /\ c = 0 /\ c + 1 = 1
        BY <2>3, <3>1
      <4>2. Shown(video, q, TopOf(l - 1), {<<l, c + 1 - 1>>})
        BY <2>8, <2>9, <4>1
      <4> QED
        BY <1>2, <1>7, <3>1, <4>1, <4>2 DEF InCall
    <3>2. CASE col # COLUMNS
      <4>1. l = line /\ c = col
        BY <2>3, <3>2
      <4>2. Shown(video, q, TopOf(l), {<<l, c>>}) /\ xPos = c /\ yPos = l - TopOf(l)
        BY <1>2, <2>8, <4>1
      <4>3. f.at = "test" /\ f.op \in Characters
        BY <1>7
      <4>4. ASSUME NEW d, d - 1 = c, d >= 1 PROVE InCall(f, xPos, yPos, video, q, l, d)
        <5>1. Putting(f, xPos, yPos, video, q, l, d)
          BY <4>2, <4>3, <4>4 DEF Putting
        <5> QED
          BY <4>3, <5>1 DEF InCall
      <4>5. PICK d \in Nat : d = c + 1 /\ d - 1 = c /\ d >= 1
        BY <2>1
      <4>6. InCall(f, xPos, yPos, video, q, l, d)
        BY <4>4, <4>5
      <4> QED
        BY <4>5, <4>6
    <3> QED
      BY <3>1, <3>2
  <2> QED
    BY <2>5, <2>6, <2>10, <2>11
<1> QED
  BY <1>4, <1>5, <1>6, <1>7 DEF PageDo

LEMMA CallScreen ==
    ASSUME Base, ScreenSound, NEW op \in Operations, Call(op) PROVE ScreenSound'
<1> SUFFICES ASSUME ~disturbed' PROVE ScreenSound'
  BY DEF ScreenSound
<1> DEFINE f == Frame(op)
<1>1. /\ frames = <<>> /\ frames' = <<f>> /\ UNCHANGED <<xPos, yPos, video, overrun, disturbed>>
      /\ ~disturbed /\ PageDo(op)
  BY DEF Call, cursor, screen
<1>2. /\ f.op = op /\ (op \in Characters => f.at = "test") /\ (op = "nl" => f.at = "wrap")
      /\ (op \in {"backspace", "clear"} => f.at = op)
  BY FrameBegins
<1> HIDE DEF f
<1>3. Len(frames) # 1
  BY <1>1
<1>4. /\ ~overrun /\ BlankBehind(page, line, col)
      /\ Done(xPos, yPos, video, page, line, col)
  BY <1>1, <1>3 DEF ScreenSound
<1>5. /\ BlankBehind(page', line', col') /\ Written(f, page', line', col')
      /\ InCall(f, xPos, yPos, video, page', line', col')
  BY <1>1, <1>2, <1>4, PageNext DEF Base
<1>6. Len(frames') = 1 /\ Top' = f
  BY <1>1 DEF Top
<1> QED
  BY <1>1, <1>4, <1>5, <1>6 DEF ScreenSound

LEMMA ScreenKeeps == Base /\ ScreenSound /\ [Next]_vars => ScreenSound'
<1> SUFFICES ASSUME Base, ScreenSound, [Next]_vars PROVE ScreenSound'
  OBVIOUS
<1>1. ASSUME NEW op \in Operations, Call(op) PROVE ScreenSound'
  BY <1>1, CallScreen
<1>2. ASSUME NEW op \in Operations, Interrupt(op) PROVE ScreenSound'
  BY <1>2 DEF Interrupt, ScreenSound
<1>3. CASE Step
  BY <1>3, QuietSteps, CursorSteps, ScrollScreen, StoreCharacterScreen, StoreBlankScreen,
     ClearScreen, FinishScreen DEF Step
<1>4. CASE UNCHANGED vars
  <2>1. UNCHANGED <<xPos, yPos, video, overrun, frames, iflag, disturbed, page, col, line>>
    BY <1>4 DEF vars, cursor, screen, ghost
  <2> QED
    BY <2>1 DEF ScreenSound, Top
<1> QED
  BY <1>1, <1>2, <1>3, <1>4 DEF Next

LEMMA ScreenBegins == Init => ScreenSound
<1> SUFFICES ASSUME Init PROVE ScreenSound
  OBVIOUS
<1>1. BlankBehind(Empty, 0, 0)
  BY DEF BlankBehind, Empty
<1>2. Done(0, 0, Blank, Empty, 0, 0)
  BY BlankShows, TopLines DEF Done
<1> QED
  BY <1>1, <1>2 DEF Init, ScreenSound

LEMMA Invariance == Spec => []IInv
<1>1. Init => IInv
  BY BaseBegins, ScreenBegins DEF Base, IInv
<1>2. IInv /\ [Next]_vars => IInv'
  BY BaseKeeps, ScreenKeeps DEF Base, IInv
<1> QED
  BY <1>1, <1>2, PTL DEF Spec

-----------------------------------------------------------------------------
(* The theorems.                                                           *)

\* The console's variables have their types, whatever handlers print in the middle
\* of whose calls.
THEOREM ConsoleTypeCorrect == Spec => []TypeOK
<1>1. IInv => TypeOK
  BY DEF IInv
<1> QED
  BY <1>1, Invariance, PTL

\* However deep calls of vga_putc, vga_backspace and vga_clear are nested in one
\* another, screenScroll has brought the row of the cursor back when all of them
\* have returned.
THEOREM ConsoleRowComesBack == Spec => []RowComesBack
<1>1. IInv => RowComesBack
  <2> SUFFICES ASSUME RowSound, frames = <<>> PROVE yPos < ROWS
    BY DEF IInv, RowComesBack
  <2>1. Len(frames) = 0 /\ \A i \in 1..0 : FALSE
    OBVIOUS
  <2> QED
    BY <2>1 DEF RowSound
<1> QED
  BY <1>1, Invariance, PTL

\* As long as no handler prints in the middle of a call, vga.c shows the last rows
\* of a page that never scrolls, and stores nothing outside of the video memory:
\* for screens of every size, whatever is printed, erased and cleared.
THEOREM ConsoleShowsPage == Spec => []ScreenShowsPage
<1>1. IInv => ScreenShowsPage
  <2> SUFFICES ASSUME IInv, ~disturbed PROVE ScreenShowsPage
    BY DEF ScreenShowsPage
  <2>1. ~overrun
    BY DEF IInv, ScreenSound
  <2>2. ASSUME frames = <<>>
        PROVE  /\ xPos = col /\ yPos = line - TopLine
               /\ \A r \in 0..(ROWS - 1), c \in 0..(COLUMNS - 1) :
                      video[r * COLUMNS + c] =
                          IF TopLine + r <= MaxLine THEN page[<<TopLine + r, c>>] ELSE " "
    <3>1. Len(frames) # 1
      BY <2>2
    <3>2. Done(xPos, yPos, video, page, line, col) /\ TopLine = TopOf(line)
      BY <3>1 DEF IInv, ScreenSound, TopLine, TopOf
    <3> QED
      BY <3>2 DEF Done, Shown, Cell, OnPage
  <2> QED
    BY <2>1, <2>2 DEF ScreenShowsPage
<1> QED
  BY <1>1, Invariance, PTL
=============================================================================
