------------------------------ MODULE Console ------------------------------
(***************************************************************************)
(* The text console of vga.c, one action for each statement that reads or  *)
(* writes what the program and the interrupt handlers share: the cursor    *)
(* and the video memory.  Program and handlers call the same functions; a  *)
(* handler begins in the middle of another call whenever interrupts are on,*)
(* and a handler that moves the cursor switches them on itself (the sti of *)
(* vga_update_cursor).  The loops of screenScroll and vga_clear are one    *)
(* action each; attributes and the blinking hardware cursor are left out.  *)
(***************************************************************************)
EXTENDS Integers, Sequences

CONSTANTS
    COLUMNS, ROWS,
    ByteMod,        \* the modulus of a uint8_t
    Characters,     \* what can be printed, besides the newline
    MaxDepth,       \* bound: how many calls may be nested
    MaxLine         \* bound: how many lines the page of the properties has

ASSUME ConsoleAssumption ==
    /\ COLUMNS \in Nat \ {0} /\ ROWS \in Nat \ {0}
    /\ ByteMod \in Nat /\ COLUMNS < ByteMod /\ ROWS + MaxDepth < ByteMod
    /\ MaxDepth \in Nat \ {0} /\ MaxLine \in Nat
    /\ {" ", "nl", "backspace", "clear"} \cap Characters = {}

VARIABLES
    xPos, yPos,     \* the cursor
    video,          \* cell -> character, the cells numbered along the rows
    overrun,        \* has a character been stored behind the last cell?
    frames,         \* the calls in progress, each in the middle of the one before
    iflag,          \* the processor's interrupt flag
    disturbed,      \* has a handler ever begun in the middle of a call?
    page, col, line \* the page: what the screen is a window of, and its cursor

cursor == <<xPos, yPos>>
screen == <<video, overrun>>
ghost == <<disturbed, page, col, line>>
vars == <<cursor, screen, frames, iflag, ghost>>

Cells == 0..(COLUMNS * ROWS - 1)

Blank == [c \in Cells |-> " "]

\* A call, named by the character that vga_putc is given.
Operations == Characters \cup {"nl", "backspace", "clear"}

-----------------------------------------------------------------------------
(* The page: lines without end, each of COLUMNS cells, on which the same   *)
(* operations act at once and nothing ever scrolls.                        *)

Empty == [p \in (0..MaxLine) \X (0..(COLUMNS - 1)) |-> " "]

\* Where the next character goes.
NextPlace == IF col = COLUMNS THEN <<line + 1, 0>> ELSE <<line, col>>

PagePut(c) ==
    /\ page' = [page EXCEPT ![NextPlace] = c]
    /\ line' = NextPlace[1]
    /\ col' = NextPlace[2] + 1

PageNewline == line' = line + 1 /\ col' = 0 /\ UNCHANGED page

\* Backspace stays on its line, and in the first column it clears the cell.
PageBackspace ==
    LET left == IF col = 0 THEN 0 ELSE col - 1
    IN  page' = [page EXCEPT ![<<line, left>>] = " "] /\ col' = left /\ UNCHANGED line

PageClear == page' = Empty /\ col' = 0 /\ line' = 0

\* The last line of the page is for nothing but a clear.
PageDo(op) ==
    \/ op = "clear" /\ PageClear
    \/ op = "backspace" /\ line < MaxLine /\ PageBackspace
    \/ op = "nl" /\ line < MaxLine /\ PageNewline
    \/ op \in Characters /\ line < MaxLine /\ PagePut(op)

-----------------------------------------------------------------------------
(* Calls.                                                                  *)

FirstStep(op) ==
    CASE op \in {"backspace", "clear"} -> op
      [] op = "nl" -> "wrap"
      [] OTHER -> "test"

Frame(op) == [op |-> op, at |-> FirstStep(op), x |-> 0, y |-> 0]

\* The program, or a handler that interrupts nothing, begins a call.
Call(op) ==
    /\ frames = <<>>
    /\ frames' = <<Frame(op)>>
    /\ IF disturbed THEN UNCHANGED <<page, col, line>> ELSE PageDo(op)
    /\ UNCHANGED <<cursor, screen, iflag, disturbed>>

\* keyboard_irq echoes a key in the middle of a call.  What the page would be
\* is then no longer defined.
Interrupt(op) ==
    /\ frames # <<>> /\ Len(frames) < MaxDepth /\ iflag
    /\ op # "clear"
    /\ frames' = Append(frames, Frame(op))
    /\ iflag' = FALSE
    /\ disturbed' = TRUE
    /\ page' = Empty /\ col' = 0 /\ line' = 0
    /\ UNCHANGED <<cursor, screen>>

Top == frames[Len(frames)]

At(step) == frames # <<>> /\ Top.at = step

Goto(step) == frames' = [frames EXCEPT ![Len(frames)].at = step]

\* Go on to `step' with new values of the call's local variables.
GotoWith(step, x, y) ==
    frames' = [frames EXCEPT ![Len(frames)] = [op |-> Top.op, at |-> step, x |-> x, y |-> y]]

\* A handler's iret switches interrupts on again: they were when it began.
Return ==
    /\ frames' = SubSeq(frames, 1, Len(frames) - 1)
    /\ iflag' = TRUE

Store(x, y, c) ==
    LET cell == x + y * COLUMNS
    IN  /\ video' = IF cell \in Cells THEN [video EXCEPT ![cell] = c] ELSE video
        /\ overrun' = (overrun \/ cell \notin Cells)

-----------------------------------------------------------------------------
(* vga_putc, statement by statement; `x' and `y' hold what it has loaded.  *)

\* Slip: the wrap is left to a cursor that is behind the end already.
TestLate ==
    /\ At("test")
    /\ Goto(IF xPos > COLUMNS THEN "wrap" ELSE "load")
    /\ UNCHANGED <<cursor, screen, iflag, ghost>>

Test ==
    /\ At("test")
    /\ Goto(IF xPos = COLUMNS THEN "wrap" ELSE "load")
    /\ UNCHANGED <<cursor, screen, iflag, ghost>>

\* A newline, or the end of a line: the column, then the row, then the scroll.
Wrap ==
    /\ At("wrap")
    /\ xPos' = 0
    /\ Goto("row")
    /\ UNCHANGED <<yPos, screen, iflag, ghost>>

Row ==
    /\ At("row")
    /\ GotoWith("setrow", 0, (yPos + 1) % ByteMod)
    /\ UNCHANGED <<cursor, screen, iflag, ghost>>

SetRow ==
    /\ At("setrow")
    /\ yPos' = Top.y
    /\ Goto("scroll")
    /\ UNCHANGED <<xPos, screen, iflag, ghost>>

\* Slip: a test for the row behind the last, and for no other.
ScrollAtEnd ==
    /\ At("scroll")
    /\ IF yPos = ROWS
       THEN /\ video' = [c \in Cells |-> IF c + COLUMNS \in Cells THEN video[c + COLUMNS] ELSE " "]
            /\ yPos' = ROWS - 1
       ELSE UNCHANGED <<video, yPos>>
    /\ Goto(IF Top.op = "nl" THEN "cursor" ELSE "load")
    /\ UNCHANGED <<xPos, overrun, iflag, ghost>>

Scroll ==
    /\ At("scroll")
    /\ IF yPos >= ROWS
       THEN /\ video' = [c \in Cells |-> IF c + COLUMNS \in Cells THEN video[c + COLUMNS] ELSE " "]
            /\ yPos' = ROWS - 1
       ELSE UNCHANGED <<video, yPos>>
    /\ Goto(IF Top.op = "nl" THEN "cursor" ELSE "load")
    /\ UNCHANGED <<xPos, overrun, iflag, ghost>>

\* The address, the store, and the step to the right.
Load ==
    /\ At("load")
    /\ GotoWith("store", xPos, yPos)
    /\ UNCHANGED <<cursor, screen, iflag, ghost>>

StoreCharacter ==
    /\ At("store")
    /\ Store(Top.x, Top.y, Top.op)
    /\ Goto("right")
    /\ UNCHANGED <<cursor, iflag, ghost>>

\* Slip: the sum is kept as an int.
RightWide ==
    /\ At("right")
    /\ GotoWith("setcolumn", xPos + 1, 0)
    /\ UNCHANGED <<cursor, screen, iflag, ghost>>

Right ==
    /\ At("right")
    /\ GotoWith("setcolumn", (xPos + 1) % ByteMod, 0)
    /\ UNCHANGED <<cursor, screen, iflag, ghost>>

SetColumn ==
    /\ At("setcolumn")
    /\ xPos' = Top.x
    /\ Goto("cursor")
    /\ UNCHANGED <<yPos, screen, iflag, ghost>>

\* vga_update_cursor: cli, the ports, sti.
UpdateCursor ==
    /\ At("cursor")
    /\ Goto(IF Top.op = "backspace" THEN "wherex" ELSE "return")
    /\ iflag' = TRUE
    /\ UNCHANGED <<cursor, screen, ghost>>

-----------------------------------------------------------------------------
(* vga_backspace, with the vga_go_to_pixel it calls, and vga_clear.        *)

BackspaceX ==
    /\ At("backspace")
    /\ GotoWith("backspacey", xPos, 0)
    /\ UNCHANGED <<cursor, screen, iflag, ghost>>

BackspaceY ==
    /\ At("backspacey")
    /\ IF Top.x = 0 THEN Goto("wherex") ELSE GotoWith("goto", Top.x - 1, yPos)
    /\ UNCHANGED <<cursor, screen, iflag, ghost>>

\* vga_go_to_pixel ignores what is not on the screen.
GoToPixel ==
    /\ At("goto")
    /\ Goto(IF Top.x < COLUMNS /\ Top.y < ROWS THEN "column" ELSE "wherex")
    /\ UNCHANGED <<cursor, screen, iflag, ghost>>

Column ==
    /\ At("column")
    /\ xPos' = Top.x
    /\ Goto("line")
    /\ UNCHANGED <<yPos, screen, iflag, ghost>>

Line ==
    /\ At("line")
    /\ yPos' = Top.y
    /\ Goto("cursor")
    /\ UNCHANGED <<xPos, screen, iflag, ghost>>

WhereX ==
    /\ At("wherex")
    /\ GotoWith("wherey", xPos, 0)
    /\ UNCHANGED <<cursor, screen, iflag, ghost>>

WhereY ==
    /\ At("wherey")
    /\ GotoWith("blank", Top.x, yPos)
    /\ UNCHANGED <<cursor, screen, iflag, ghost>>

StoreBlank ==
    /\ At("blank")
    /\ Store(Top.x, Top.y, " ")
    /\ Goto("return")
    /\ UNCHANGED <<cursor, iflag, ghost>>

\* vga_clear: the loop, then the cursor, as for a pixel.
Clear ==
    /\ At("clear")
    /\ video' = Blank
    /\ GotoWith("column", 0, 0)
    /\ UNCHANGED <<cursor, overrun, iflag, ghost>>

Finish == At("return") /\ Return /\ UNCHANGED <<cursor, screen, ghost>>

-----------------------------------------------------------------------------

Init ==
    /\ xPos = 0 /\ yPos = 0
    /\ video = Blank /\ overrun = FALSE
    /\ frames = <<>> /\ iflag = TRUE
    /\ disturbed = FALSE
    /\ page = Empty /\ col = 0 /\ line = 0

Step ==
    \/ Test \/ Wrap \/ Row \/ SetRow \/ Scroll \/ Load \/ StoreCharacter
    \/ Right \/ SetColumn \/ UpdateCursor
    \/ BackspaceX \/ BackspaceY \/ GoToPixel \/ Column \/ Line
    \/ WhereX \/ WhereY \/ StoreBlank \/ Clear
    \/ Finish

Next ==
    \/ \E op \in Operations : Call(op) \/ Interrupt(op)
    \/ Step

Spec == Init /\ [][Next]_vars

-----------------------------------------------------------------------------
(* Properties.                                                             *)

Steps == {"test", "wrap", "row", "setrow", "scroll", "load", "store", "right",
          "setcolumn", "cursor", "backspace", "backspacey", "goto", "column", "line",
          "wherex", "wherey", "blank", "clear", "return"}

\* The variables have their types.
TypeOK ==
    /\ xPos \in 0..(ByteMod - 1) /\ yPos \in 0..(ByteMod - 1)
    /\ video \in [Cells -> Characters \cup {" "}]
    /\ overrun \in BOOLEAN /\ iflag \in BOOLEAN /\ disturbed \in BOOLEAN
    /\ frames \in Seq([op : Operations, at : Steps,
                       x : 0..(ByteMod - 1), y : 0..(ByteMod - 1)])
    /\ page \in [(0..MaxLine) \X (0..(COLUMNS - 1)) -> Characters \cup {" "}]
    /\ col \in 0..COLUMNS /\ line \in 0..MaxLine

\* The line of the page that is in the top row of the screen.
TopLine == IF line < ROWS THEN 0 ELSE line - ROWS + 1

\* As long as no handler prints in the middle of a call, the screen is the last
\* rows of the page, cursor included, and no character is stored anywhere else:
\* wrapping, scrolling and backspace at the ends of lines agree with a page
\* that never scrolls.
ScreenShowsPage ==
    ~disturbed =>
        /\ ~overrun
        /\ frames = <<>> =>
            /\ xPos = col /\ yPos = line - TopLine
            /\ \A r \in 0..(ROWS - 1), c \in 0..(COLUMNS - 1) :
                    video[r * COLUMNS + c] =
                        IF TopLine + r <= MaxLine THEN page[<<TopLine + r, c>>] ELSE " "

\* Whoever prints in the middle of whose call, the row of the cursor is on the
\* screen again when all calls have returned.
RowComesBack == frames = <<>> => yPos < ROWS

\* The cursor is never behind the end of a line when all calls have returned
\* (`if we at end of screen'), handlers or not.
ColumnComesBack == frames = <<>> => xPos <= COLUMNS
=============================================================================
