----------------------------- MODULE Interrupts -----------------------------
(***************************************************************************)
(* The path of a hardware interrupt: the two 8259s (pic.c), the gates of   *)
(* the IDT (idt.c, isr.c), the stubs of isr_handler.asm, the dispatch in   *)
(* irq_wrapper_handler and what the registered handlers do to the          *)
(* interrupt flag; and the order in which kernel_main sets all this up.    *)
(*                                                                         *)
(* A handler that prints goes through vga_update_cursor, whose sti sets    *)
(* the flag, so handlers nest; and a signal handler called from one may    *)
(* switch to another context and never return.                             *)
(***************************************************************************)
EXTENDS Integers, Sequences, FiniteSets

CONSTANTS
    Irqs,           \* the interrupt lines in use, 8..15 on the slave
    MaxDepth        \* bound: how many handlers may be nested in a context

ASSUME InterruptsAssumption ==
    /\ Irqs \subseteq 0..15 \ {2} /\ {0, 1} \subseteq Irqs
    /\ MaxDepth \in Nat \ {0}

VARIABLES
    boot,           \* the next step of kernel_main, "run" after the last
    dead,           \* has an interrupt found no usable gate?
    iflag,          \* the processor's interrupt flag
    idt,            \* the gates: "none", "empty" or "isrs"
    remapped,       \* does the PIC raise vectors 32..47?
    isr_handlers,   \* line -> "none", "default", "pit" or "keyboard"
    irr,            \* lines raised and not yet delivered
    inservice,      \* lines delivered and not yet ended by an EOI
    outbuf,         \* is a scan code waiting in the keyboard controller?
    frames,         \* the nested handlers of the running context
    parked          \* those of the context that was switched away from

pics == <<remapped, irr, inservice>>
tables == <<idt, isr_handlers>>
vars == <<boot, dead, iflag, tables, pics, outbuf, frames, parked>>

IsSlave(i) == i >= 8

\* The bits that delivering line i sets: a slave's line comes through line 2.
ServiceBits(i) == IF IsSlave(i) THEN {i, 2} ELSE {i}

\* The master's view of a line, and its place in the order of both PICs.
Level(i) == IF IsSlave(i) THEN 2 ELSE i

Rank(i) == 16 * Level(i) + i

Lowest(S) == CHOOSE i \in S : \A j \in S : i <= j

-----------------------------------------------------------------------------
(* kernel_main.  A step that prints ends with the flag set, by the sti of   *)
(* vga_update_cursor.  phys_mm_init and the heap touch nothing of this.     *)

Step(here, next) ==
    /\ boot = here /\ ~dead /\ frames = <<>>
    /\ boot' = next
    /\ UNCHANGED <<dead, frames, parked>>

\* disable_interrupts().
DisableInterrupts ==
    /\ Step("disable", "screen")
    /\ iflag' = FALSE
    /\ UNCHANGED <<tables, pics, outbuf>>

\* vga_clear and vga_go_to_pixel, then gdt_init.
ClearScreen ==
    /\ Step("screen", "idt")
    /\ iflag' = TRUE
    /\ UNCHANGED <<tables, pics, outbuf>>

\* idt_init zeroes the gates and loads them.
IdtInit ==
    /\ Step("idt", "isr")
    /\ idt' = "empty"
    /\ iflag' = TRUE
    /\ UNCHANGED <<isr_handlers, pics, outbuf>>

\* Slip: the loop runs one entry beyond the table.
IsrInitBeyond ==
    /\ Step("isr", "pic")
    /\ idt' = "isrs"
    /\ isr_handlers' = [i \in Irqs \cup {16} |-> IF i \in {0, 1} THEN "none" ELSE "default"]
    /\ iflag' = TRUE
    /\ UNCHANGED <<pics, outbuf>>

\* isr_init: a gate for every line, and a default handler for all but the
\* timer, the keyboard and (the loop ends at 46) line 15.
IsrInit ==
    /\ Step("isr", "pic")
    /\ idt' = "isrs"
    /\ isr_handlers' = [i \in Irqs |-> IF i \in {0, 1, 15} THEN "none" ELSE "default"]
    /\ iflag' = TRUE
    /\ UNCHANGED <<pics, outbuf>>

\* pic_remap: the first control word clears what was raised and in service.
PicInit ==
    /\ Step("pic", "pit")
    /\ remapped' = TRUE /\ irr' = {} /\ inservice' = {}
    /\ iflag' = TRUE
    /\ UNCHANGED <<tables, outbuf>>

PitInit ==
    /\ Step("pit", "drain")
    /\ isr_handlers' = [isr_handlers EXCEPT ![0] = "pit"]
    /\ iflag' = TRUE
    /\ UNCHANGED <<idt, pics, outbuf>>

\* keyboard_init: read away the keys pressed so far ...
KeyboardDrain ==
    /\ Step("drain", "status")
    /\ outbuf' = FALSE
    /\ UNCHANGED <<iflag, tables, pics>>

\* ... ask the controller for its status byte, which may raise the line too and
\* which a key may have taken the place of ...
KeyboardStatus ==
    /\ Step("status", "register")
    /\ outbuf' = FALSE
    /\ irr' \in {irr, irr \cup {1}}
    /\ UNCHANGED <<iflag, tables, remapped, inservice>>

\* ... and register the handler.
KeyboardRegister ==
    /\ Step("register", "enable")
    /\ isr_handlers' = [isr_handlers EXCEPT ![1] = "keyboard"]
    /\ iflag' = TRUE
    /\ UNCHANGED <<idt, pics, outbuf>>

EnableInterrupts ==
    /\ Step("enable", "run")
    /\ iflag' = TRUE
    /\ UNCHANGED <<tables, pics, outbuf>>

Boot ==
    \/ DisableInterrupts \/ ClearScreen \/ IdtInit \/ IsrInit \/ PicInit
    \/ PitInit \/ KeyboardDrain \/ KeyboardStatus \/ KeyboardRegister
    \/ EnableInterrupts

-----------------------------------------------------------------------------
(* The devices.  A line that is raised already stays raised.               *)

RaiseTimer ==
    /\ irr' = irr \cup {0}
    /\ UNCHANGED <<boot, dead, iflag, tables, remapped, inservice, outbuf, frames, parked>>

\* The controller holds one scan code and is silent until it has been read.
RaiseKeyboard ==
    /\ ~outbuf
    /\ outbuf' = TRUE
    /\ irr' = irr \cup {1}
    /\ UNCHANGED <<boot, dead, iflag, tables, remapped, inservice, frames, parked>>

RaiseOther(i) ==
    /\ i \notin {0, 1}
    /\ irr' = irr \cup {i}
    /\ UNCHANGED <<boot, dead, iflag, tables, remapped, inservice, outbuf, frames, parked>>

Devices == RaiseTimer \/ RaiseKeyboard \/ \E i \in Irqs : RaiseOther(i)

-----------------------------------------------------------------------------
(* Delivery and dispatch.                                                  *)

\* The PIC asks for the most urgent line, unless one as urgent is in service.
Requested(i) ==
    /\ i \in irr
    /\ \A j \in irr : Rank(i) <= Rank(j)
    /\ \A j \in inservice : Level(i) < Level(j)

\* Slip: the stub leads to a handler that sends no EOI.
FrameWithoutEoi(i) == [irq |-> i, at |-> IF remapped THEN "handler" ELSE "print"]

\* The frame that the gate's stub begins: the lines' own stubs lead to
\* irq_wrapper_handler, the exceptions' to isr_wrapper_handler.
FrameOf(i) == [irq |-> i, at |-> IF remapped THEN "eoi" ELSE "print"]

\* Before the PIC is remapped, line 0 arrives as a double fault, whose stub
\* counts on an error code, and a slave's line at a vector with no gate.
Usable(i) == idt = "isrs" /\ (remapped \/ i = 1)

\* Slip: a trap gate, which leaves the flag set.
DeliverByTrap(i) ==
    /\ iflag /\ ~dead /\ Requested(i) /\ Len(frames) < MaxDepth
    /\ irr' = irr \ {i}
    /\ inservice' = inservice \cup ServiceBits(i)
    /\ IF Usable(i)
       THEN dead' = dead /\ frames' = Append(frames, FrameOf(i))
       ELSE dead' = TRUE /\ frames' = frames
    /\ UNCHANGED <<boot, iflag, tables, remapped, outbuf, parked>>

\* The processor takes the interrupt, and the interrupt gate clears the flag.
Deliver(i) ==
    /\ iflag /\ ~dead /\ Requested(i) /\ Len(frames) < MaxDepth
    /\ iflag' = FALSE
    /\ irr' = irr \ {i}
    /\ inservice' = inservice \cup ServiceBits(i)
    /\ IF Usable(i)
       THEN dead' = dead /\ frames' = Append(frames, FrameOf(i))
       ELSE dead' = TRUE /\ frames' = frames
    /\ UNCHANGED <<boot, tables, remapped, outbuf, parked>>

Top == frames[Len(frames)]

Running(at) == ~dead /\ frames # <<>> /\ Top.at = at

Goto(at) == frames' = [frames EXCEPT ![Len(frames)].at = at]

\* A non-specific EOI ends the most urgent line in service on each PIC.
AfterEoi(S) == S \ (IF S = {} THEN {} ELSE {Lowest(S)})

\* Slip: the slave gets no EOI.
EoiToMaster ==
    /\ Running("eoi")
    /\ LET master == {j \in inservice : ~IsSlave(j)}
       IN  inservice' = AfterEoi(master) \cup {j \in inservice : IsSlave(j)}
    /\ Goto("handler")
    /\ UNCHANGED <<boot, dead, iflag, tables, remapped, irr, outbuf, parked>>

Eoi ==
    /\ Running("eoi")
    /\ LET master == {j \in inservice : ~IsSlave(j)}
           slave  == {j \in inservice : IsSlave(j)}
       IN  inservice' = AfterEoi(master)
                          \cup (IF IsSlave(Top.irq) THEN AfterEoi(slave) ELSE slave)
    /\ Goto("handler")
    /\ UNCHANGED <<boot, dead, iflag, tables, remapped, irr, outbuf, parked>>

\* Slip: a modifier key returns before the scan code is taken.
HandlerLeavesCode ==
    /\ Running("handler")
    /\ LET h == isr_handlers[Top.irq]
       IN  \/ h = "none" /\ Goto("iret") /\ outbuf' = outbuf
           \/ h = "default" /\ Goto("print") /\ outbuf' = outbuf
           \/ h = "pit" /\ outbuf' = outbuf /\ \E at \in {"iret", "signal"} : Goto(at)
           \/ h = "keyboard" /\ Goto("iret") /\ outbuf' = outbuf
           \/ h = "keyboard" /\ outbuf /\ Goto("print") /\ outbuf' = FALSE
    /\ UNCHANGED <<boot, dead, iflag, tables, pics, parked>>

\* The registered handler, up to where it prints or calls a signal's handler.
\* keyboard_irq first takes the scan code, if there is one; a modifier returns
\* at once, another key is echoed.  pit_irq counts, and calls SIGALRM's handler
\* when one is due.  No tasks are installed, so schedule_next_task does nothing.
Handler ==
    /\ Running("handler")
    /\ LET h == isr_handlers[Top.irq]
       IN  /\ \/ h = "none" /\ Goto("iret")
              \/ h = "default" /\ Goto("print")
              \/ h = "pit" /\ \E at \in {"iret", "signal"} : Goto(at)
              \/ h = "keyboard" /\ Goto("iret")
              \/ h = "keyboard" /\ outbuf /\ Goto("print")
           /\ outbuf' = (outbuf /\ h # "keyboard")
    /\ UNCHANGED <<boot, dead, iflag, tables, pics, parked>>

\* vga_update_cursor: cli, the ports, sti.  Ctrl-C and Ctrl-Z print before
\* they call the signal's handler.
UpdateCursor ==
    /\ Running("print")
    /\ iflag' = TRUE
    /\ \/ Goto("iret")
       \/ isr_handlers[Top.irq] = "keyboard" /\ Goto("signal")
    /\ UNCHANGED <<boot, dead, tables, pics, outbuf, parked>>

\* The signal's handler returns ...
SignalReturns ==
    /\ Running("signal")
    /\ Goto("iret")
    /\ UNCHANGED <<boot, dead, iflag, tables, pics, outbuf, parked>>

\* ... or swaps to the other context, in the middle of the handlers in which
\* that was left; setcontext ends with an sti.
SignalSwaps ==
    /\ Running("signal") /\ boot = "run"
    /\ frames' = parked
    /\ parked' = [frames EXCEPT ![Len(frames)].at = "iret"]
    /\ iflag' = TRUE
    /\ UNCHANGED <<boot, dead, tables, pics, outbuf>>

\* ... or leaves for a fresh context with setcontext, and its frames are lost.
SignalLeaves ==
    /\ Running("signal") /\ boot = "run"
    /\ frames' = <<>>
    /\ iflag' = TRUE
    /\ UNCHANGED <<boot, dead, tables, pics, outbuf, parked>>

\* The program itself swaps contexts.
ProgramSwaps ==
    /\ boot = "run" /\ ~dead /\ frames = <<>>
    /\ frames' = parked /\ parked' = <<>>
    /\ iflag' = TRUE
    /\ UNCHANGED <<boot, dead, tables, pics, outbuf>>

\* iret restores the flags of the code that was interrupted, which had the
\* flag set.
Iret ==
    /\ Running("iret")
    /\ frames' = SubSeq(frames, 1, Len(frames) - 1)
    /\ iflag' = TRUE
    /\ UNCHANGED <<boot, dead, tables, pics, outbuf, parked>>

Dispatch ==
    \/ Eoi \/ Handler \/ UpdateCursor \/ SignalReturns \/ SignalSwaps \/ SignalLeaves
    \/ Iret

Init ==
    /\ boot = "disable" /\ dead = FALSE
    /\ iflag = FALSE                \* the boot loader's promise
    /\ idt = "none" /\ remapped = FALSE
    /\ isr_handlers = [i \in Irqs |-> "none"]
    /\ irr = {} /\ inservice = {}
    /\ outbuf = FALSE
    /\ frames = <<>> /\ parked = <<>>

Next ==
    \/ Boot
    \/ Devices
    \/ \E i \in Irqs : Deliver(i)
    \/ Dispatch
    \/ ProgramSwaps

\* Handlers run on; the processor does not for ever pass over a line that the
\* PIC asks for again and again while the flag is set.
Fairness ==
    /\ WF_vars(Dispatch)
    /\ \A i \in Irqs : SF_vars(Deliver(i))

Spec == Init /\ [][Next]_vars /\ Fairness

-----------------------------------------------------------------------------
(* Properties.                                                             *)

Frames ==
    Seq([irq : Irqs, at : {"eoi", "handler", "print", "signal", "iret"}])

\* The variables have their types.
TypeOK ==
    /\ boot \in {"disable", "screen", "idt", "isr", "pic", "pit", "drain",
                 "status", "register", "enable", "run"}
    /\ dead \in BOOLEAN /\ iflag \in BOOLEAN /\ remapped \in BOOLEAN
    /\ outbuf \in BOOLEAN
    /\ idt \in {"none", "empty", "isrs"}
    /\ isr_handlers \in [Irqs -> {"none", "default", "pit", "keyboard"}]
    /\ irr \subseteq Irqs
    /\ inservice \subseteq Irqs \cup {2}
    /\ frames \in Frames /\ parked \in Frames

\* Once the PIC is remapped, a line is in service only between its delivery
\* and its EOI, at the very start of the innermost handler: handlers that nest,
\* that are swapped out or that never return leave no line blocked.
NothingLeftInService ==
    remapped /\ ~dead =>
        inservice = IF frames # <<>> /\ Top.at = "eoi" THEN ServiceBits(Top.irq) ELSE {}

\* Two handlers never begin in an unfinished dispatch: below the innermost
\* handler every other has sent its EOI, and the flag is clear until it has.
EoiBeforeNesting ==
    /\ \A k \in 1..Len(frames) : frames[k].at \in {"eoi", "handler"} =>
            k = Len(frames) /\ ~iflag
    /\ \A k \in 1..Len(parked) : parked[k].at \notin {"eoi", "handler"}

\* A scan code waits in the controller and no interrupt will fetch it: none is
\* raised and no handler is on its way.  The controller stays silent then.
KeyStuck ==
    /\ outbuf /\ 1 \notin irr
    /\ \A k \in 1..Len(frames) : frames[k].irq = 1 => frames[k].at \notin {"eoi", "handler"}
    /\ \A k \in 1..Len(parked) : parked[k].irq = 1 => parked[k].at \notin {"eoi", "handler"}

\* A running keyboard never falls silent: a key that comes at any moment of a
\* handler, of its printing or of a context switch is fetched by an interrupt.
\* Only boot can leave a key stuck, between keyboard_init's last read of the
\* controller and the registration of keyboard_irq.
KeyboardStaysAlive == [][boot = "run" /\ ~KeyStuck => ~KeyStuck']_vars

\* A timer interrupt raised in the running system is taken sooner or later,
\* whatever contexts the signal handlers switch to.
TimerDelivered == (boot = "run" /\ 0 \in irr) ~> (0 \notin irr \/ dead)

\* No interrupt is delivered between disable_interrupts and
\* enable_interrupts ("disable all hardware interrupts").
NoInterruptWhileDisabled ==
    [][boot \notin {"disable", "run"} => Len(frames') <= Len(frames) /\ dead' = dead]_vars
=============================================================================
