# The PennOS hardware wrapper in TLA+

The repository is a small 32-bit kernel: it boots a PC, sets up the processor
and its devices, and gives a user program (penn-os, which is not part of the
repository) a C library, a heap, signals, contexts and a terminal. There is one
processor, no virtual memory and no process: all concurrency is between the
program, the interrupt handlers that preempt it, and the contexts that both may
switch to. The build is unoptimised (-O0), so every C statement reads and writes
memory where it stands.

## Inventory

| component | state | operations | interacts with | what makes it correct |
|---|---|---|---|---|
| kernel heap (malloc.c) | a doubly linked list of chunks with headers | init_mm, malloc, free, calloc, realloc | every caller; a signal handler may switch contexts inside a call | the chunks tile the heap, blocks are disjoint and long enough, free neighbours are merged, a request is refused only when it must be |
| keyboard (keyboard.c, us_keyboard.h) | modifier flags; buffer, index, limit and status of the current read | keyboard_irq, keyboard_read_buffer, keyboard_init | interrupts between the reader's stores; console echo; Ctrl-C and Ctrl-Z call signal handlers | a read returns the line that its keys edit; no key goes elsewhere; no modifier stays stuck |
| interrupts (isr.c, isr_handler.asm, idt.c, pic.c, hal.c) | gates, handler table, interrupt flag, the two PICs | the init functions, the stubs, irq_wrapper_handler | everything that runs with interrupts on; vga_update_cursor's sti | one EOI for each delivery, before anything nests; the lines are served again whatever the handlers do; no key is left in the controller |
| boot (kernel_main.c, bootloader.asm) | how far kernel_main has come | one step for each init function | all of the above | no interrupt before there are gates and handlers; none lost |
| console (vga.c) | cursor, screen | vga_putc, vga_backspace, vga_clear, vga_printf | called by the program and by handlers | the cursor stays on the screen |
| physical memory (phys_mm.c) | bitmap, counter, boot information | set and unset a region, allocate and free one block or several | boot; the heap's region | a block is given to one owner; reserved memory to none |
| contexts (ucontext.c, ucontext_stub.asm) | saved registers of each context | getcontext, setcontext, makecontext, swapcontext, termination | preempted between any two instructions; called from signal handlers | a context resumes once, where it was left |
| timer and signals (pit.c, signal.c, time.c) | tick count, interval, three sigactions | pit_irq, setitimer, sigaction | the handler runs between the stores of the other two | a handler is called as it was registered, and with SA_RESTART again and again while an interval is set |
| tasks (task.c) | table of tasks, their count, current index | init_tasks, install_task, schedule_next_task | called in the timer's dispatch, which changes stacks after the handlers; kernel_main installs none | a task is resumed on its own stack; each has its turn |
| file wrapper (unistd.c, mman.c) | one cursor into one region | open, read, write, lseek, close, mmap | keyboard, console; shared by the contexts | what is written is what is read, at the position of whoever reads |
| C library (string.c, stdlib.c, stdio.c, math.c) | none | functions of a memory | all | the standard's results, as far as callers count on them |
| virtual memory (virtual_mm.c), segments, processor, ports | tables | set up once, or not called | | |

The hard behaviours are interrupts between two stores of the code they share
state with, handlers that nest because printing enables interrupts, signal
handlers that leave an interrupt handler for another context and may never come
back, and the boundaries: the last byte of a chunk, the last key of a line, the
last column of the screen. PROJECT.json lists each hazard at its line with the
properties that cover it. Nothing is persisted and nothing is sent over a
network, so there is no crash recovery and no lost message.

## Modules

**Heap** (malloc.c). `heap` is a function from header address to chunk; its
domain is the set of headers in the list, so a split adds an element and a merge
removes one. `FirstFit` is the search loop (lines 19-21), `Take` the split and
the mark (26-42), `Release` is free: `Unmark`, then `Absorb` into the previous
chunk, then `AbsorbNext`. `Calloc` and `Realloc` make the same calls in the same
order; the sizes wrap at `SizeMod`. `live` is what the callers hold, and they
free only that; `call` is the last call and its result. Each call is one action:
an interrupt handler of this kernel does not call malloc. A signal handler that
switches contexts in the middle of a call would let another begin on a list that
is half linked; nothing in the code keeps it from that, so there is nothing to
show about it, and callers must.

**Arena** is the abstract specification: bytes, granted blocks, no list. A
request is granted anywhere there is room and refused only when there is none;
"room" is the request, its header and one byte, which is what malloc asks for
(line 20 wants a chunk strictly larger than the request).

**Keyboard** (keyboard.c). `Irq` is keyboard_irq with one disjunct for each kind
of scan code, `WriteForward` and `WriteBackward` are write_to_keyboard_buffer;
keyboard_read_buffer is five actions, one for each store and one for the end of
the loop, and the handler may run between any two. The caller's buffer is
`mem`, one byte longer than the size it passes, as k_shell does (kernel_main.c
79-80). `held` is the environment's: the modifier keys that are down. Handlers
do not nest here: a handler that echoes a key has already changed the buffer.

**LineInput** is what a read promises: keys edit one line while it is open,
Enter or Ctrl-D ends it, the caller gets it as a C string. Its `closed` phase
covers the reader before its limit is set, when keys have no effect.

**Interrupts** (kernel_main.c, isr.c, isr_handler.asm, idt.c, pic.c, and what
vga.c, pit.c, keyboard.c and the context switch do to the interrupt flag). `boot`
is the next step of kernel_main; `frames` are the nested handlers of the running
context and `parked` those of the context switched away from; a frame is at its
EOI, in its handler, printing (`UpdateCursor`, whose sti lets others nest), in a
signal handler, or at its iret. The PICs (`irr`, `inservice`, `Requested`), the
timer, the keyboard controller and the other devices are external: modelled from
how pic.c programs them and isr.c acknowledges them. An interrupt that finds no
usable gate (none yet; before the remapping a timer interrupt is a double fault,
whose stub expects an error code that is not there) ends the model (`dead`).

**PhysMemory** (phys_mm.c). `memory_map` is the set of the bits that are set,
`used_blocks` the counter, `held` what callers hold, which is all they free.
`PhysMMInit` and `HeapInit` are the markings of phys_mm_init and kernel_main; what
they mark is computed from the constants, which describe the machine: the
kernel's sections, the multiboot information and its memory map, whose addresses
and lengths of 64 bits are cut to 32 and whose sums wrap (`EntryStart`,
`EntryEnd`): an entry that ends at 4 GiB ends at 0 and frees nothing. `Alloc`,
`Allocs` and `Frees` are the calls, each whole (no handler calls them). A search
returns the set of the one block it stops at, or the empty set; a search that
would never end takes the model to phase `hung`, where only `Spin` is left.

**Console** (vga.c). One action for each statement that loads or stores the
cursor or the screen; `yPos++` and `xPos = xPos + 1` are a load and a store, as
the compiler emits them. `frames` are the calls in progress: the program's, and
on top of it those of handlers, which begin whenever the interrupt flag is on
and run to their end before the call below goes on. `Interrupt` is the echo of
keyboard_irq: a character, a newline or a backspace, never vga_clear. A handler
that prints switches interrupts on (`UpdateCursor`), so handlers nest. The page
(`page`, `col`, `line`) is no part of the code: it is the reference, on which each
call acts at once and nothing scrolls, until a handler first disturbs a call.

**Contexts** (ucontext.c, ucontext_stub.asm). `stack[c]` is the activations on the
stack of context c, `saved[c]` its ucontext_t. What getcontext stores and
setcontext loads is not numbers but whose they are: the registers (ebp above
all) and the stack pointer are the index of an activation, so that a struct
written by two of them shows. getcontext is three steps, setcontext four, cut
where a handler can get in between and tell. `Signal` is a timer interrupt whose
handler may call swapcontext, once, as the repository's README.md says handlers do. `usage` is
what the callers do, for they are not in the repository (kernel_main.c has an
example of programs that switch, commented out): the properties of the passing
run are for callers of whom the programs switch or the handlers do, not both, on
contexts made with interrupts on, as getcontext makes them in the running kernel,
or off. Even then a program that begins can be `lost`: the popf of setcontext lets a
handler in before the registers are loaded, and if that handler switches, it
saves its own there. The function begins all the same, its address being on
its stack already, but ebx, which tells the end of the function how many arguments
lie above uc_link, is not its own; what it does from there is not modelled, but that it may
be interrupted. `LostOnlyAtStart` says that nothing else is ever lost. Callers are
taken to name only contexts that wait when they call, and not to return from a context
that somebody is about to switch to; `Switch` itself goes wherever the ucontext_t says,
and is lost if nothing waits there.

**Tasks** (task.c, and what isr.c and isr_handler.asm do around it). A dispatch
pushes the interrupted registers as a frame on the running stack;
`schedule_next_task` puts that frame down for the current task (`Saved`), picks
the next one's (`NextIndex`, `NextFrame`), and only after the handlers does
`Leave` load the new stack pointer. Frames are named by stack and place, not by
address. A frame has the interrupt number that the dispatch goes by: the timer's
for one that a tick has pushed; for a new task's whatever malloc left there, since
install_task sets every other field it needs but not that one: the timer's, that of
another handler, or one beyond the table of 256. `Install` is install_task up to `tasks[num_tasks++] = task`, which is two
stores (`InstallStore`) in either order, for C leaves it open; a tick between
count and pointer follows a null pointer (`EnterWild`). Tasks is a component
without a next-state relation of its own: **Timer** extends it.

**Timer** (pit.c, signal.c, time.c). `Tick` is a dispatch whose handler is
pit_irq, unless the frame the scheduler picked has another interrupt number: then
it is a handler that the timer has nothing to do with, and that returns as all do
before the next tick, the sti of its printing included, or a call through a word behind the
table, which may end anywhere (`dead` is "stray") or return. `PitIrq` steps `tick_count`
(modulo `TickLimit`, a uint32_t in the code), and when the interval divides it
calls what `pit_sigaction` says: `alarm` is that call. `Setitimer` and `CopyByte`
are the memcpy of the interval, lowest byte first, and `SigactionCall`,
`StoreSigaction` and `StoreFlags` the fields in their order; the tick comes
between any two. An interval of 1 to 99999 divides by zero, and the exception's
handler returns to the division for ever (`dead`). `Reset` is as the code has it:
the line that says "set to invalid again" clears SA_RESTART of a handler
that has none (pit.c 63-68), so that one-shot handlers are called again; that disagrees with its comments, so
`AlarmsKeepComing` is stated for handlers with SA_RESTART only. Callers are taken
to ask for 0 or for at least 100000 microseconds, to set the function of the
other kind to NULL (as kernel_main.c 158-181 does), to make one such call at a
time, and to return from a handler before the next tick (as signal.h 28 asks).

**CLibrary** (string.c, stdlib.c). Operators on a memory, a function from addresses
to bytes: strlen, strcmp, strncmp, strstr, memcpy, memmove, memset, strncpy,
strncat, itoa_u, itoa and atoi, each what the loop computes, its oddities
included: a char is signed, so strcmp sorts a byte from 128 on before the end of
a string, where the standard compares unsigned characters; strncmp compares one
character more than its count and takes a prefix for equal; strstr's pointer that runs ahead passes the end of the
string unseen when the target is longer by two or more; itoa_u stores no end
behind the digit of zero; strncpy stores none at all. Loops that carry a value
are recursive functions, so that they can be proved about.

**FlatFile** (unistd.c, mman.c) is one memory in which the file lies behind the
programs' buffers, `fs_cursor`, and programs that call the functions of unistd.c
and of CLibrary in any order; so the pure functions are checked on all the
memories that such calls make. `holder` is the context that has the file open,
which is no part of the code: it is the discipline that the one cursor forces on
the contexts, to open after the other has closed; two that have it open at once share
the cursor, and there is nothing to promise them. They also read and write
inside the file, whose end nothing checks. **File** is what it implements: a file
with a position for each context, and a mapping of the same bytes.

Each module has `\* Slip:` definitions: a plausible bug beside the code's
definition. Nothing uses them; PROJECT.json's "mutants" put each in the place of
the definition it stands next to, to see that the property named there fails.

## Runs

| run | expects | what it shows |
|---|---|---|
| heap | pass | all sequences of calls on a heap of 13 bytes with 2-byte headers (sizes 0, 1, 4 and products that wrap at 16): type, tiling, merging, blocks, restoration, refinement of Arena |
| keyboard | pass | two shift keys, control, caps lock, a letter that control makes an end of file, one it makes a signal, a key with no character, Enter, backspace, reads of 1 and 3 bytes in any order: type, modifiers, no key outside the read's buffer, refinement of LineInput, and every line after the first read's is returned |
| keyboard_first_read | violation | Enter in the first read between its third and fourth store is lost: the reader spins for ever |
| interrupts | pass | timer, keyboard and a slave device, two nested handlers in each of two contexts, from the first step of boot: type, one EOI for each delivery, no nesting before it, the timer is served again, no key of the running system gets stuck in the controller |
| interrupts_boot | violation | clearing the screen enables interrupts before there is an IDT |
| physmem | pass | boot and all sequences of requests for 0, 1, 2 and 3 blocks: type, the bitmap is ownership, the counter does not drift |
| console | pass | characters, newlines, backspaces and clears, handlers between any two statements: type, the screen is the end of the page, the row comes back |
| console_race | violation | a handler's echo can put the column behind the end of the line for good |
| contexts | pass | three contexts, two nested handlers, two arguments, contexts made with interrupts on or off: programs switch or handlers do: type, every context can be resumed where it was left, none is lost but at the start of a program, programs run with interrupts on, makecontext's stack |
| contexts_signal | violation | if handlers switch, and programs may, setcontext can load the registers of one activation on the stack of another |
| timer | pass | three tasks and two slots, two handlers of one kind and the other, intervals of 0, 1 and 3 tenths of a second: type, tasks resume on their own stacks, the handler called is the one registered, the kernel stops only inside setitimer or install_task or on a task's first turn, each task has its turn, alarms keep coming |
| library | pass | two contexts, four bytes of buffers, a file of two: type, comparing, searching, moving, joining and numbers against their references, refinement of File |

Deadlock is checked in every run but timer's: there the kernel can come to its
end, in the division by zero of a torn interval, at the null pointer of a slot
that is counted too early, or behind the table of handlers on a task's first turn.
`StopsInCallOrFirstTurn` says that it does so nowhere else.

### Bounds

`HeapSize`, `Hdr`, `Sizes`, `Counts` and `SizeMod` are chosen so that a block can
be at both ends and between two others, a chunk can be larger than a request by
less than a header, by exactly one and by more, a request can fail, and a calloc
product can wrap. `Limits` has a read shorter than the one before it and lines
of more than one key. `MaxDepth` is the number of nested handlers in one
context: two is enough for a handler to begin inside another, and the code has
nothing that counts depth. The physical memory has six words of which the last
is not full (as in the code: 0xFFFF0 blocks are no multiple of 32), with
reserved, absent and free blocks in one word, and requests as long as a run that
crosses into the next word. The screen has two rows and two columns, so that a
line can be wrapped, the second row scrolled and the cursor pushed past the end
within a few calls; bytes have modulus 6, small enough for the column to wrap
and large enough for the row not to (`ConsoleAssumption`); three calls may be
nested; the page has five lines, three of which have scrolled away at its end,
where only a clear is possible. Three contexts are two that can switch to each
other while a third waits; three activations on a stack are a handler within a
handler.

Two slots for three tasks are a table that is full, with a rotation that wraps.
Four ticks are a multiple of one interval and not of the other, so the alarm
comes both before and behind the wrap of `tick_count`, and unevenly; the bytes
of 100000 and 300000 differ in all three places, so a copy between them can
be torn into an interval that nobody asked for. Intervals are below 2^24
microseconds, the fourth byte being 0. `MaxDepth` of Tasks is two: a task's first
frame and the one of the dispatch. Four bytes of buffers hold two strings that
may overlap in every way, a string and a target one or two longer, and a
sign with a digit; the numbers that are read back are a negative one, zero and
one of two digits (`Numbers`), of which the programs leave the last two in their
buffers (`PrintedNumbers`), and the byte that programs store is negative as a char; two bytes of file are
read and written together, one by one, and at the end. The two contexts of that
run are interchangeable, so it uses their symmetry (it checks no liveness). No counter in the models is
unbounded.

### Fairness

Keyboard: weak fairness of the reader's own steps, because the processor returns
to the program between interrupts; none of the keys, which nobody must press.
Interrupts: weak fairness of the handlers' steps, because code runs on, and
strong fairness of delivery, because the processor takes a pending request at
the first instruction boundary with the flag set, and a flag that is set again
and again (each iret, each sti followed by code) gives it such a boundary again
and again; the PIC's priorities are in the guard. None of boot, of the devices,
or of the context switches.
Timer: weak fairness of the tick, because the PIT is programmed as a rate
generator and the flag is set outside of handlers, and of the handler's return,
which signal.h 28 asks for. None of the programs, which need not finish a call:
`AlarmsKeepComing` assumes in its hypothesis that they do.

## Proofs

HeapProofs proves, for all values of the constants that satisfy
`HeapAssumption` (positive header size and start, a heap of at least one header,
any set of sizes and counts), that every invariant of the heap run is an
invariant of `Spec` and that `Spec` implements `Arena`.

The inductive invariant `IInv` is types, links, order, coverage, separation and
the correspondence of `live` with the taken chunks. None of them is inductive
alone: a merge keeps the tiling only because the links agree with it, the links
stay right only because `next` is the chunk that begins where this one ends, and
that a merge with two neighbours is enough needs that no two free chunks were
neighbours before. The proof is by operator, not by call: `SplitWF`, `MarkWF`
and `AbsorbWF` say what one step of the list does to a well-formed list,
`TakeSound` and `ReleaseSound` put them together, and the four calls follow. For
the refinement, `NoFitNoRoom` and `RoomToFit` relate the chunks' sizes to runs of
vacant bytes: in a coalesced tiling a run of vacant bytes lies in one free chunk.

PhysMemoryProofs proves the three invariants of the physmem run for every
machine that satisfies `PhysMemoryAssumption`: any memory map, kernel image,
page size and set of requests. `BitmapIsOwnership` carries the other two: a
block that a search stops at is the first of a run outside the bitmap, so it is
disjoint from all that is held and reserved, and the set that a free clears is
the set that its allocation added, no more. Both facts are what the counter
needs to keep its distance from the cardinality of the bitmap.

InterruptsProofs proves, for every set of lines and every depth of nesting, the
three invariants of the interrupts run and `KeyboardStaysAlive`. The inductive
invariant adds what is set up at each step of boot and that no dispatch of a
line begins before the PIC is remapped; then everything turns on
`EoiBeforeNesting`: below the innermost handler all have sent their EOI, so that
stacks of handlers may be swapped, dropped or cut back (`FinishedKeeps`) without
leaving a line in service. For the keyboard, a waiting key has a request or the
innermost handler is its own and about to read it (`StuckMeans`).

TimerProofs proves the four invariants of the timer run for every number of tasks
and slots, every set of intervals below 2^24 and every set of actions that obey
`TimerAssumption` (the other kind's function is NULL). `TasksInv` says where the
processor is: handlers do not nest, the current task is the one that runs, a
waiting task has one frame, on its own stack, and a task that is being installed
is in no slot that the rotation reaches, unless that slot is still null.
`SigactionStored` says of each field of `pit_sigaction` whose it is at each store
of sigaction; that either kind has the other's function NULL then makes
every mixture one of the two calls or none (`MixedCall`).

KeyboardProofs proves the three invariants of the keyboard run and the refinement
of LineInput, for every set of keys of the table and every set of read sizes that
has a greatest (`mem` must be as long as some buffer). Between two stores of
keyboard_read_buffer a key meets a half prepared read, and `StoresSound` says for
each place what it meets: before the first read only an index and a limit that
are both 0 keep keys out, later the status does. `EndedTerminated` is what the
refinement needs besides: a line that has ended has its NUL within the line or
right behind it. `TakenAppend`, `TakenCut` and
`StringIsVisibleLine` relate the abstract line to the buffer and its least NUL,
and the refinement then follows action by action.

ContextsProofs proves the four invariants of the contexts run for every set of
contexts, every depth of handlers and every size of stack. Types and the layout of a made
stack need nothing more. `ContextsSavedWhereLeft`, `ContextsLostOnlyAtStart` and
`ContextsProgramsInterruptible` take the hypothesis `NotBoth`: programs switch or
handlers do, on contexts made with interrupts on or off. When both do, a handler
can save over a swapcontext that the program is in the middle of, and nothing is
left to say. The strong form, `ResumedAsSaved`, is what contexts_signal refutes; by
`ContextsLostOnlyAtStart` it holds where only programs switch and where contexts are
made with interrupts off. `StacksSound` says where each activation can be
(one that is covered was interrupted, the innermost of a context that waits was
left in swapcontext or has just been made), `SavedSound` whose registers and whose
stack pointer a ucontext_t holds between getcontext's stores and setcontext's
loads, the starts of programs apart; a handler's own flag is off in it, so that no
signal comes in between where a handler resumes. `TargetsSound` is why `Switch`
always arrives: an activation in the middle of a swap is on its way to a context
that is not its own and has not ended.

ConsoleProofs proves the three invariants of the console run for every screen,
page, set of characters and depth of calls that a byte can count
(`ConsoleAssumption`: fewer columns than a byte has values, and fewer rows and
nested calls together). `RowSound` is the argument that the row comes
back: a cursor below the last row is the doing of a call that has yet to scroll,
and scrolling takes the cursor back as far as it has to go. `ScreenSound` says,
for each statement of a call that nothing has disturbed, how screen and cursor
differ from the page the call is making: a character stored and the cursor not
moved, the row moved and the column not, the screen one line behind. It is a
simulation, one statement at a time, with `BlankBehind` for the lines that a
scroll brings up.

FlatFileProofs proves the six invariants of the library run and the refinement of
File, for every set of contexts, length of buffers and file, set of bytes and of
numbers. `TypeOK` is inductive alone. The other five hold of every memory that has
its type, so their proofs are lemmas on the operators of CLibrary: memmove moves
the bytes however they overlap, and memcpy where it reads ahead of what it
writes; strcmp stops where the strings part; strstr tries every place up
to the end of the string as long as the target is longer by at most one. Loops that carry
a value have a closed form: it satisfies the loop's recursion, two functions that
do agree by induction on the round (`SameRounds`), and `LeftExists` builds what
itoa_u has left to print after each digit; so atoi of what itoa has written is the
number (`FlatFileNumbersReadBack`, base 10, the only one atoi reads). The file
needs what one memcpy leaves in its region and at the cursor, call by call.

KeyboardProofs and FlatFileProofs argue by induction on natural numbers. The library's
induction theorem takes an operator that the provers cannot instantiate, but its
theorem on well-founded orders takes a set: `LeastNatural` derives least elements
from `WFMin` and `NatLessThanWellFounded`, and the inductions take the least
counterexample.

Model-checked only: liveness (`LaterLinesReturned`, `TimerDelivered`,
`EveryTaskRuns`, `AlarmsKeepComing`), for none of the provers handles fairness;
and that the four properties of the runs that expect a violation fail. Every
invariant and every refinement that a passing run checks is a theorem.

## Not modelled

The contents of heap blocks, text on the screen and message wording; the
exception handlers' messages; the masks of the PIC, pit_set_tick_count, sleep and
phys_mm_unset_blocks, which nothing calls; sigprocmask, which does nothing; scan
code set details beyond one key of each kind. Of the C library: memcmp, whose
result is always 0 (string.c 150), snprintf and sscanf ("broken implemenation",
stdio.h) and powf ("not correct"), which have no reference they could be held
to; itoa of INT_MIN, whose negation traps. virtual_mm.c is compiled and never
called, and would load a page table that nothing fills. Segments, ports and
cpuid are straight-line code over instructions. The vendored compiler
(barebones-toolchain-master, which is more than 99 of 100 lines of the
repository) is third-party code: its headers declare intrinsics and compiler
internals that the kernel does not include, so there is no behaviour of this
system in them. Of the kernel's own C and assembly about half the lines are mapped.

Where the code protects nothing there is no property to state, only a rule for
callers: two contexts in malloc at once, and two that read from the keyboard at
once (one buffer, one index, one status).

Faults that the modules show as the code has them, and that no run is about: a
realloc that fails frees the old block (malloc.c 82); the search for several
blocks can stay at one word for ever (phys_mm.c 73, phase `hung`); the blocks
behind the last full word are never found (phys_mm.c 36); a memory map entry that
ends at 4 GiB frees nothing (phys_mm.c 143); a tick between two bytes
of setitimer may find an interval below 100000 and divide by zero (time.c 10); a
new task's frame has no interrupt number of its own (task.c 19), so its first turn
is dispatched to whatever handler that word says (0, in memory never used before,
is the division by zero's); a second tick within a handler would save the frame for
the wrong task (isr.c 182); a one-shot handler, whose flags pit.c says to "check"
(line 63) and to "set to invalid again" (66), is called again and again, for
line 67 clears a bit it does not have; calloc's product wraps (malloc.c 73);
releasing one of two shift keys clears the flag that both share (keyboard.c 183);
itoa_u stores no end behind the digit of zero (stdlib.c 7). README.md of the
repository calls string.c "standard string library functions" (line 122): strcmp
and strncmp compare signed chars, strncmp compares one character more than its
count (string.c 18) and takes a prefix for equal, and strstr misses the end of the
string before a target longer by two. `StringsCompare` and `StringsFound` claim what the
standard asks for where the code keeps to it, and nothing where it does not.

## Plan

Done, in this order: Heap with Arena and its proofs, Keyboard with LineInput,
Interrupts, PhysMemory with its proofs, Console, Contexts, Tasks and Timer,
CLibrary with FlatFile and File, then the proofs: Timer and Interrupts, Keyboard
with its refinement of LineInput, Contexts, Console, FlatFile with its
refinement of File. What is left, in this order:

1. Steps, not states: that a file's position moves only in calls of the context
   that has it open, and that a bit of the physical memory's map is cleared only
   by the free of the block's owner, as action properties from the invariants at
   hand.
2. The safety that liveness rests on: in Interrupts and Timer, that a request that
   is pending stays so until it is served, so that the fairness of the delivery is
   all that the properties TLC checks still need.
3. Contexts: what is left when programs and handlers both switch, if there is a
   discipline (handlers that only switch away from code that is not in swapcontext)
   under which `NotBoth` is not needed.
