------------------------------ MODULE Keyboard ------------------------------
(***************************************************************************)
(* The keyboard driver of keyboard.c: the interrupt handler keyboard_irq,  *)
(* which tracks the modifier keys and edits the line of the current read,  *)
(* and keyboard_read_buffer, which sets the line up with four separate     *)
(* stores and then spins.  The handler may run between any two stores.     *)
(***************************************************************************)
EXTENDS Integers, Sequences

CONSTANTS
    Keys,           \* the keys of the model, modifiers among them
    Limits          \* the sizes that callers pass to keyboard_read_buffer

ShiftKeys == {"lshift", "rshift"}

\* Right control sends E0 before left control's code, and E0 is skipped.
CtrlKeys == {"lctrl", "rctrl"}

Modifiers == ShiftKeys \cup CtrlKeys

\* The four tables of us_keyboard.h, in the order plain, shift, caps lock,
\* shift and caps lock.  "up" stands for the keys whose entry is 0.
Table ==
    [a |-> <<"a", "A", "A", "a">>, c |-> <<"c", "C", "C", "c">>,
     d |-> <<"d", "D", "D", "d">>, z |-> <<"z", "Z", "Z", "z">>,
     one |-> <<"1", "!", "1", "!">>,
     up |-> <<"nul", "nul", "nul", "nul">>,
     enter |-> <<"nl", "nl", "nl", "nl">>,
     back |-> <<"bs", "bs", "bs", "bs">>]

ASSUME KeyboardAssumption ==
    /\ Keys \subseteq DOMAIN Table \cup Modifiers \cup {"caps"}
    /\ Limits \subseteq Nat \ {0}
    /\ \E n \in Limits : \A m \in Limits : m <= n

Characters == {Table[k][i] : k \in DOMAIN Table, i \in 1..4} \ {"bs"}

MaxLimit == CHOOSE n \in Limits : \A m \in Limits : m <= n

VARIABLES
    shift_key, caps_lock_key, l_control_key,
    keyboard_buffer,        \* is a caller's buffer set, that is, not NULL?
    keyboard_buffer_index,
    keyboard_buffer_limit,
    buffer_ready_status,
    mem,                    \* the bytes of the caller's buffer
    pc,                     \* where the reader is in keyboard_read_buffer
    size,                   \* the argument of its call
    got,                    \* the string its last read left in the buffer
    served,                 \* has a read returned before?
    held                    \* the modifier keys that are down

flags == <<shift_key, caps_lock_key, l_control_key>>
input == <<keyboard_buffer, keyboard_buffer_index, keyboard_buffer_limit,
           buffer_ready_status>>
reader == <<pc, size, got, served>>
vars == <<flags, input, mem, reader, held>>

-----------------------------------------------------------------------------
(* write_to_keyboard_buffer.                                               *)

\* The bytes of a buffer that nothing has been written to yet.
Blank == [i \in 0..MaxLimit |-> "old"]

\* Is there a read whose line is still open?
Reading == keyboard_buffer /\ ~buffer_ready_status

HasRoom == keyboard_buffer_index # keyboard_buffer_limit

\* The line is complete: the buffer is ready, and forgotten.
Finish == buffer_ready_status' = TRUE /\ keyboard_buffer' = FALSE

KeepOpen == UNCHANGED <<buffer_ready_status, keyboard_buffer>>

Advance ==
    /\ keyboard_buffer_index' = keyboard_buffer_index + 1
    /\ UNCHANGED keyboard_buffer_limit

\* Slips: the line ends with no NUL; the reader is not told of its end.
StoreEofUnterminated == Advance /\ Finish /\ UNCHANGED mem

StoreEofSilently ==
    /\ mem' = [mem EXCEPT ![keyboard_buffer_index] = "nul"]
    /\ Advance
    /\ keyboard_buffer' = FALSE /\ UNCHANGED buffer_ready_status

\* Ctrl-D stores a NUL and ends the line.
StoreEof ==
    /\ mem' = [mem EXCEPT ![keyboard_buffer_index] = "nul"]
    /\ Advance
    /\ Finish

\* Any other character is stored with a NUL behind it, which for the last
\* one that fits is the byte behind the limit; a newline ends the line.
StoreCharacter(c) ==
    /\ mem' = [mem EXCEPT ![keyboard_buffer_index] = c,
                          ![keyboard_buffer_index + 1] = "nul"]
    /\ Advance
    /\ IF c = "nl" THEN Finish ELSE KeepOpen

\* The NUL goes behind the character that is dropped.
EraseCharacter ==
    /\ mem' = [mem EXCEPT ![keyboard_buffer_index] = "nul"]
    /\ keyboard_buffer_index' = keyboard_buffer_index - 1
    /\ UNCHANGED keyboard_buffer_limit
    /\ KeepOpen

WriteForward(c) ==
    IF Reading /\ HasRoom
    THEN IF l_control_key /\ c = "d" THEN StoreEof ELSE StoreCharacter(c)
    ELSE UNCHANGED <<input, mem>>

\* Slip: backspace at the start of the line.
WriteBackwardAnywhere ==
    IF Reading THEN EraseCharacter ELSE UNCHANGED <<input, mem>>

WriteBackward ==
    IF Reading /\ keyboard_buffer_index # 0
    THEN EraseCharacter
    ELSE UNCHANGED <<input, mem>>

-----------------------------------------------------------------------------
(* keyboard_irq, one action for each kind of scan code.                    *)

\* The table that the modifiers select.
Translate(k) ==
    Table[k][IF shift_key /\ caps_lock_key THEN 4
             ELSE IF shift_key THEN 2
             ELSE IF caps_lock_key THEN 3 ELSE 1]

\* Slip: the right shift key's break code is not one of shift's.
BreakLeftShift(k) ==
    /\ k \in held
    /\ held' = held \ {k}
    /\ shift_key' = (shift_key /\ k # "lshift")
    /\ l_control_key' = (l_control_key /\ k \notin CtrlKeys)
    /\ UNCHANGED <<caps_lock_key, input, mem, reader>>

\* A break code.  Only those of the modifiers have an effect.
Break(k) ==
    /\ k \in held
    /\ held' = held \ {k}
    /\ shift_key' = (shift_key /\ k \notin ShiftKeys)
    /\ l_control_key' = (l_control_key /\ k \notin CtrlKeys)
    /\ UNCHANGED <<caps_lock_key, input, mem, reader>>

\* The make code of a modifier; a key that stays down repeats it.
MakeModifier(k) ==
    /\ k \in Modifiers
    /\ held' = held \cup {k}
    /\ shift_key' = (shift_key \/ k \in ShiftKeys)
    /\ l_control_key' = (l_control_key \/ k \in CtrlKeys)
    /\ UNCHANGED <<caps_lock_key, input, mem, reader>>

MakeCaps ==
    /\ caps_lock_key' = ~caps_lock_key
    /\ UNCHANGED <<shift_key, l_control_key, input, mem, reader, held>>

\* The make code of a key with a character.  Ctrl-C and Ctrl-Z never reach
\* the line: they call the signal's handler, if there is one.
MakeCharacter(k) ==
    LET c == Translate(k)
    IN  /\ k \in DOMAIN Table
        /\ ~(l_control_key /\ c \in {"c", "z"})
        /\ IF c = "bs" THEN WriteBackward ELSE WriteForward(c)
        /\ UNCHANGED <<flags, reader, held>>

Irq ==
    \/ \E k \in held : Break(k)
    \/ \E k \in Keys \cap Modifiers : MakeModifier(k)
    \/ "caps" \in Keys /\ MakeCaps
    \/ \E k \in Keys : MakeCharacter(k)

-----------------------------------------------------------------------------
(* keyboard_read_buffer, one action for each of its stores.                *)

\* Slip: the status is cleared with the first store, not the last.
SetBufferAndStatus(n) ==
    /\ pc = "idle"
    /\ pc' = "index" /\ size' = n /\ got' = <<>>
    /\ keyboard_buffer' = TRUE /\ buffer_ready_status' = FALSE
    /\ mem' = Blank
    /\ UNCHANGED <<keyboard_buffer_index, keyboard_buffer_limit, served, flags, held>>

\* The caller passes a buffer of n bytes and one more (k_shell does).
SetBuffer(n) ==
    /\ pc = "idle"
    /\ pc' = "index" /\ size' = n /\ got' = <<>>
    /\ keyboard_buffer' = TRUE
    /\ mem' = Blank
    /\ UNCHANGED <<keyboard_buffer_index, keyboard_buffer_limit,
                   buffer_ready_status, served, flags, held>>

SetIndex ==
    /\ pc = "index" /\ pc' = "limit"
    /\ keyboard_buffer_index' = 0
    /\ UNCHANGED <<keyboard_buffer, keyboard_buffer_limit, buffer_ready_status,
                   size, got, served, mem, flags, held>>

SetLimit ==
    /\ pc = "limit" /\ pc' = "status"
    /\ keyboard_buffer_limit' = size
    /\ UNCHANGED <<keyboard_buffer, keyboard_buffer_index, buffer_ready_status,
                   size, got, served, mem, flags, held>>

SetStatus ==
    /\ pc = "status" /\ pc' = "spin"
    /\ buffer_ready_status' = FALSE
    /\ UNCHANGED <<keyboard_buffer, keyboard_buffer_index, keyboard_buffer_limit,
                   size, got, served, mem, flags, held>>

\* The string that a caller sees: the bytes in front of the first NUL.
CString(m) ==
    LET ends == {i \in DOMAIN m : m[i] = "nul"}
        len  == CHOOSE i \in ends : \A j \in ends : i <= j
    IN  [i \in 1..len |-> m[i - 1]]

\* The spin ends when the status is seen; read() then takes the length of
\* the string.
Return ==
    /\ pc = "spin" /\ buffer_ready_status
    /\ pc' = "idle"
    /\ got' = CString(mem)
    /\ served' = TRUE
    /\ UNCHANGED <<size, input, mem, flags, held>>

Reader == (\E n \in Limits : SetBuffer(n)) \/ SetIndex \/ SetLimit \/ SetStatus \/ Return

Init ==
    /\ shift_key = FALSE /\ caps_lock_key = FALSE /\ l_control_key = FALSE
    /\ keyboard_buffer = FALSE
    /\ keyboard_buffer_index = 0 /\ keyboard_buffer_limit = 0
    /\ buffer_ready_status = FALSE
    /\ mem = Blank
    /\ pc = "idle" /\ size = 0 /\ got = <<>> /\ served = FALSE
    /\ held = {}

Next == Irq \/ Reader

\* The processor runs the reader's code between interrupts.
Fairness == WF_vars(SetIndex \/ SetLimit \/ SetStatus \/ Return)

Spec == Init /\ [][Next]_vars /\ Fairness

-----------------------------------------------------------------------------
(* Properties.                                                             *)

\* The variables have their types.
TypeOK ==
    /\ shift_key \in BOOLEAN /\ caps_lock_key \in BOOLEAN /\ l_control_key \in BOOLEAN
    /\ keyboard_buffer \in BOOLEAN /\ buffer_ready_status \in BOOLEAN
    /\ keyboard_buffer_index \in 0..MaxLimit
    /\ keyboard_buffer_limit \in Limits \cup {0}
    /\ mem \in [0..MaxLimit -> Characters \cup {"old"}]
    /\ pc \in {"idle", "index", "limit", "status", "spin"}
    /\ size \in Limits \cup {0}
    /\ got \in Seq(Characters \cup {"old"})
    /\ served \in BOOLEAN
    /\ held \subseteq Modifiers

\* With no shift (control) key down the driver is not in its shifted (control)
\* state, in whatever order the keys went down and up: no key stays stuck.
NoStuckModifiers ==
    /\ held \cap ShiftKeys = {} => ~shift_key
    /\ held \cap CtrlKeys = {} => ~l_control_key

\* A key is stored only in the buffer of the read in progress, whose size may
\* be smaller than that of the read before: the stores of keyboard_read_buffer
\* never leave the old index or limit in force for the new buffer.
KeysStayInBuffer == \A i \in DOMAIN mem : i > size => mem[i] = "old"

\* The line that a read has so far, or has completed and not yet returned.
Ended == ~keyboard_buffer /\ pc # "idle"

Open == Reading /\ keyboard_buffer_limit # 0

Phase == IF Open THEN "open" ELSE IF Ended THEN "ended" ELSE "closed"

Line == IF Open \/ Ended THEN [i \in 1..keyboard_buffer_index |-> mem[i - 1]] ELSE <<>>

Lines == INSTANCE LineInput WITH
    phase  <- Phase,
    line   <- Line,
    limit  <- IF Open \/ Ended THEN keyboard_buffer_limit ELSE 0

\* A read returns the line that its keys edit: handler and reader together
\* implement LineInput, wherever the handler interrupts the reader.
ImplementsLineInput == Lines!Spec

\* A line that was ended is returned to the reader, once some read has been.
LaterLinesReturned == (Ended /\ served) ~> pc = "idle"

\* The same of every line (`tell the user that buffer is ready'): false for the
\* first read, whose last store can clear the status the handler has just set.
EveryLineReturned == Ended ~> pc = "idle"
=============================================================================
