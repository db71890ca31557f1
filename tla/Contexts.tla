------------------------------ MODULE Contexts ------------------------------
(***************************************************************************)
(* The contexts of ucontext.c and ucontext_stub.asm: getcontext,           *)
(* setcontext, makecontext, swapcontext and the end of a context, between  *)
(* any two parts of which a timer signal may be handled, by a handler that *)
(* may call swapcontext itself.  The stack of a context is the sequence of *)
(* its activations, the program's at the bottom and those of nested        *)
(* handlers above it; a stack pointer, and a set of saved registers, is    *)
(* the number of the activation that it belongs to.  getcontext is three   *)
(* steps and setcontext four: what lies between two steps can be told      *)
(* apart by a handler, what lies within one cannot, or runs without        *)
(* interrupts.                                                             *)
(***************************************************************************)
EXTENDS Integers, Sequences

CONSTANTS
    Contexts,
    First,          \* the context that runs first, and the uc_link of the others
    Usages,         \* what programs and handlers do, see Init
    MaxDepth,       \* bound: activations on one stack
    StackSizes,     \* the values of ss_size, in bytes
    MaxArgs         \* bound: arguments of makecontext

ASSUME ContextsAssumption ==
    /\ First \in Contexts
    /\ Usages \subseteq [programs : BOOLEAN, handlers : BOOLEAN, flag : BOOLEAN]
    /\ MaxDepth \in Nat \ {0}
    /\ StackSizes \subseteq Nat /\ MaxArgs \in Nat

VARIABLES
    usage,          \* do programs call swapcontext, do handlers, and with which
                    \* interrupt flag is a context made?
    running,        \* whose stack the processor is on
    stack,          \* context -> its activations, none before it is made
    saved,          \* context -> its ucontext_t
    iflag           \* the processor's interrupt flag

vars == <<usage, running, stack, saved, iflag>>

-----------------------------------------------------------------------------
(* What makecontext puts on a new stack, in bytes from its lowest address, *)
(* if that is `odd' bytes above a multiple of 16.                          *)

Aligned(a) == a - (a % 16)

\* Slip: the end of the stack counts as a part of it.
StackPointerAtEnd(size, argc, odd) == Aligned(odd + size - 4 * argc) - 4 - odd

StackPointer(size, argc, odd) == Aligned(odd + size - 4 * argc - 4) - 4 - odd

\* The words that are stored: the return address, the arguments, and uc_link.
WordsStored(size, argc, odd) ==
    {StackPointer(size, argc, odd) + 4 * i : i \in 0..(argc + 1)}

\* Where ucontext_termination looks for uc_link when the function has returned.
LinkRead(size, argc, odd) == (StackPointer(size, argc, odd) + 4) + 4 * argc

-----------------------------------------------------------------------------

Activation(kind, at) == [kind |-> kind, at |-> at, ucp |-> First]

Depth == Len(stack[running])

Here == stack[running][Depth]

At(step) == Here.at = step

Goto(step) == stack' = [stack EXCEPT ![running][Depth].at = step]

\* Callers name only contexts that wait to be resumed.
Waiting(c) == stack[c] # <<>> /\ stack[c][Len(stack[c])].at \in {"made", "suspended"}

\* Somebody has called setcontext with context c and is not there yet.
Wanted(c) ==
    \E b \in Contexts : \E i \in DOMAIN stack[b] :
        stack[b][i].at \in {"registers", "esp", "flags", "cli", "switch"} /\ stack[b][i].ucp = c

\* The ucontext_t that makecontext leaves.
Fresh(argc) == [regs |-> 1, esp |-> 1, flag |-> usage.flag, argc |-> argc]

Init ==
    /\ usage \in Usages
    /\ running = First
    /\ stack = [c \in Contexts |-> IF c = First THEN <<Activation("program", "run")>> ELSE <<>>]
    /\ saved = [c \in Contexts |-> Fresh(0)]
    /\ iflag = TRUE

\* getcontext and makecontext of a context whose stack is not in use.
Make(c, argc) ==
    /\ At("run") /\ Here.kind = "program"
    /\ stack[c] = <<>>
    /\ stack' = [stack EXCEPT ![c] = <<Activation("program", "made")>>]
    /\ saved' = [saved EXCEPT ![c] = Fresh(argc)]
    /\ UNCHANGED <<usage, running, iflag>>

-----------------------------------------------------------------------------
(* The timer's handler.                                                    *)

Signal ==
    /\ iflag /\ Depth < MaxDepth
    /\ stack' = [stack EXCEPT ![running] = Append(@, Activation("handler", "run"))]
    /\ iflag' = FALSE
    /\ UNCHANGED <<usage, running, saved>>

\* The iret restores the flag of the activation below, which was interrupted.
HandlerReturn ==
    /\ Here.kind = "handler" /\ Here.at \in {"run", "back"}
    /\ stack' = [stack EXCEPT ![running] = SubSeq(@, 1, Depth - 1)]
    /\ iflag' = TRUE
    /\ UNCHANGED <<usage, running, saved>>

-----------------------------------------------------------------------------
(* swapcontext(oucp, ucp), where oucp is the context that is running.      *)

\* A program does so as often as it likes; a handler does so once, first thing.
\* That a program blocks the signal before it does changes nothing: sigprocmask
\* has no effect.
Swap(c) ==
    /\ At("run")
    /\ IF Here.kind = "program" THEN usage.programs ELSE usage.handlers
    /\ c # running /\ Waiting(c)
    /\ stack' = [stack EXCEPT ![running][Depth].at = "registers", ![running][Depth].ucp = c]
    /\ UNCHANGED <<usage, running, saved, iflag>>

\* Slip: the registers go to the other context.
SaveRegistersThere ==
    /\ At("registers")
    /\ saved' = [saved EXCEPT ![Here.ucp].regs = Depth]
    /\ Goto("esp")
    /\ UNCHANGED <<usage, running, iflag>>

\* getcontext: the general purpose registers,
SaveRegisters ==
    /\ At("registers")
    /\ saved' = [saved EXCEPT ![running].regs = Depth]
    /\ Goto("esp")
    /\ UNCHANGED <<usage, running, iflag>>

\* Slip: the stack pointer of the activation below.
SaveStackBelow ==
    /\ At("esp")
    /\ saved' = [saved EXCEPT ![running].esp = Depth - 1]
    /\ Goto("flags")
    /\ UNCHANGED <<usage, running, iflag>>

\* the stack and the return address, which is that of swapcontext's only call,
SaveStack ==
    /\ At("esp")
    /\ saved' = [saved EXCEPT ![running].esp = Depth]
    /\ Goto("flags")
    /\ UNCHANGED <<usage, running, iflag>>

\* and the flags.
SaveFlags ==
    /\ At("flags")
    /\ saved' = [saved EXCEPT ![running].flag = iflag]
    /\ Goto("cli")
    /\ UNCHANGED <<usage, running, iflag>>

\* The function of a context returns: ucontext_termination calls setcontext.  A
\* function does not return while somebody is about to switch to it.
Terminate ==
    /\ At("run") /\ Here.kind = "program" /\ running # First /\ ~Wanted(running)
    /\ stack' = [stack EXCEPT ![running][Depth] =
                    [kind |-> "ended", at |-> "cli", ucp |-> First]]
    /\ UNCHANGED <<usage, running, saved, iflag>>

\* setcontext: no interrupts,
Cli ==
    /\ At("cli")
    /\ iflag' = FALSE
    /\ Goto("switch")
    /\ UNCHANGED <<usage, running, saved>>

\* the stack of the other context, which then is at the instruction behind; there
\* is nothing to go back to if the stack pointer is not that of an activation that
\* waits on it,
Switch ==
    /\ At("switch")
    /\ LET c == Here.ucp
           d == saved[c].esp
       IN  IF Waiting(c) /\ d = Len(stack[c])
           THEN /\ running' = c
                /\ stack' = [stack EXCEPT
                       ![running] = IF Here.kind = "ended" THEN <<>>
                                    ELSE [@ EXCEPT ![Depth].at = "suspended"],
                       ![c][d].at = "popf"]
           ELSE Goto("lost") /\ UNCHANGED running
    /\ UNCHANGED <<usage, saved, iflag>>

\* Slip: interrupts are on again whatever was saved.
PopFlagsOn ==
    /\ At("popf")
    /\ iflag' = TRUE
    /\ Goto("load")
    /\ UNCHANGED <<usage, running, saved>>

\* the flags it was saved with,
PopFlags ==
    /\ At("popf")
    /\ iflag' = saved[running].flag
    /\ Goto("load")
    /\ UNCHANGED <<usage, running, saved>>

\* Where the activation goes on, whose registers have been loaded.  With those of
\* another activation swapcontext cannot return, and a function that begins does
\* not find uc_link at its end, because ebx counts the arguments above it: what it
\* does from here is not modelled, but that it may be interrupted.
Loaded ==
    IF saved[running].regs # Depth THEN "lost"
    ELSE IF Here.kind = "handler" THEN "back" ELSE "run"

\* Slip: no sti.
LoadRegistersQuietly ==
    /\ At("load")
    /\ Goto(Loaded)
    /\ UNCHANGED <<usage, running, saved, iflag>>

\* its registers, sti, and the jump: swapcontext returns, or the function that
\* makecontext was given begins.
LoadRegisters ==
    /\ At("load")
    /\ Goto(Loaded)
    /\ iflag' = TRUE
    /\ UNCHANGED <<usage, running, saved>>

-----------------------------------------------------------------------------

Next ==
    \/ \E c \in Contexts, argc \in 0..MaxArgs : Make(c, argc)
    \/ \E c \in Contexts : Swap(c)
    \/ Signal \/ HandlerReturn
    \/ SaveRegisters \/ SaveStack \/ SaveFlags
    \/ Terminate
    \/ Cli \/ Switch \/ PopFlags \/ LoadRegisters

Spec == Init /\ [][Next]_vars

-----------------------------------------------------------------------------
(* Properties.                                                             *)

Steps == {"made", "run", "back", "registers", "esp", "flags", "cli", "switch",
          "suspended", "popf", "load", "lost"}

\* The variables have their types, and the running context has a stack.
TypeOK ==
    /\ usage \in Usages
    /\ running \in Contexts
    /\ stack \in [Contexts -> Seq([kind : {"program", "handler", "ended"}, at : Steps,
                                   ucp : Contexts])]
    /\ stack[running] # <<>>
    /\ \A c \in Contexts : Len(stack[c]) <= MaxDepth
    /\ saved \in [Contexts -> [regs : 1..MaxDepth, esp : 1..MaxDepth, flag : BOOLEAN,
                              argc : 0..MaxArgs]]
    /\ iflag \in BOOLEAN

\* Every context but the running one was left in its innermost activation, and
\* its ucontext_t holds the stack pointer and the registers of that one and no
\* other: setcontext can go back to where swapcontext left.
SavedWhereLeft ==
    \A c \in Contexts \ {running} :
        stack[c] # <<>> =>
            /\ Waiting(c)
            /\ saved[c].esp = Len(stack[c]) /\ saved[c].regs = Len(stack[c])

\* The registers that setcontext loads are those of the activation whose stack
\* it has loaded before, although a handler may begin in between.
ResumedAsSaved == At("load") => saved[running].regs = Depth

\* If only programs switch, or only handlers do, swapcontext always returns with
\* its own registers.  The one activation that can get those of another is a
\* program that setcontext starts, its context made with interrupts on, when
\* handlers switch: its popf admits a handler, which saves its registers there.
LostOnlyAtStart ==
    (At("lost") \/ (At("load") /\ saved[running].regs # Depth)) =>
        usage.handlers /\ usage.flag /\ Here.kind = "program"

\* However a context was left, in a handler with interrupts off or in a program
\* with interrupts on, programs always run with interrupts on.
ProgramsInterruptible == (At("run") /\ Here.kind = "program") => iflag

\* What makecontext stores lies inside the stack it was given, for as many
\* arguments as it was given, and the end of the function finds uc_link there.
StackHoldsArguments ==
    \A c \in Contexts :
        (Waiting(c) /\ stack[c][1].at = "made") =>
            LET argc == saved[c].argc
            IN  \A size \in StackSizes, odd \in 0..15 :
                    size >= 4 * argc + 24 =>
                        /\ \A w \in WordsStored(size, argc, odd) : 0 <= w /\ w + 4 <= size
                        /\ LinkRead(size, argc, odd) \in WordsStored(size, argc, odd)
                        /\ (odd + StackPointer(size, argc, odd) + 4) % 16 = 0
=============================================================================
