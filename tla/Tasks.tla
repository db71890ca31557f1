------------------------------- MODULE Tasks -------------------------------
(***************************************************************************)
(* The round robin of task.c and its place in the dispatch of the timer's  *)
(* interrupt (isr.c, isr_handler.asm): the interrupted context's registers *)
(* are pushed on its stack, schedule_next_task puts that frame down for    *)
(* the current task and picks the frame of the next one, the handlers run  *)
(* on the old stack, and only then does the stub load the new stack        *)
(* pointer.  Timer composes this with what the handler of the timer does.  *)
(*                                                                         *)
(* A frame is named by the stack it lies on and its place there; the stack *)
(* of a context is the sequence of its frames, each with the frame that    *)
(* the dispatch which pushed it will return to.                            *)
(***************************************************************************)
EXTENDS Integers, Sequences

CONSTANTS
    Tasks,          \* what install_task may be called with, each once
    Boot,           \* the context that kernel_main runs in
    NULL,
    TOTAL_TASKS,
    MaxDepth        \* bound: frames on one stack

Stacks == Tasks \cup {Boot}

\* The calls of install_task: by whom, for whom, and what is left to store.
Installs == [by : Stacks, task : Tasks, slot : 0..(TOTAL_TASKS - 1),
             left : SUBSET {"count", "pointer"}]

ASSUME TasksAssumption ==
    /\ Boot \notin Tasks /\ NULL \notin Stacks \cup Installs
    /\ TOTAL_TASKS \in Nat \ {0} /\ MaxDepth \in Nat \ {0}

\* What irq_wrapper_handler finds in its table for the interrupt number of a frame:
\* the timer's handler; another that prints or reads a key and returns (0 to 31, and
\* 33); or what lies behind the messages of the one, or behind the table itself.
InterruptNumbers == {"irq0", "other", "wild"}

Frames == [of : Stacks, at : 1..MaxDepth, int_no : InterruptNumbers]

VARIABLES
    tasks,          \* slot -> task, or NULL
    num_tasks,
    current,        \* current_task_index
    registers,      \* task -> the frame it is to be resumed from
    stack,          \* context -> the frames on its stack
    running,        \* whose stack the processor is on
    iflag,          \* the processor's interrupt flag
    installing,     \* NULL, or the call of install_task that is not done yet
    dead            \* "no", or how the kernel has come to its end

taskVars == <<tasks, num_tasks, current, registers, stack, running, iflag, installing>>

InHandler == stack[running] # <<>>

InProgram == dead = "no" /\ ~InHandler

TasksInit ==
    /\ tasks = [i \in 0..(TOTAL_TASKS - 1) |-> NULL]
    /\ num_tasks = 0 /\ current = -1
    /\ registers = [t \in Tasks |-> [of |-> t, at |-> 1, int_no |-> "wild"]]
    /\ stack = [s \in Stacks |-> <<>>]
    /\ running = Boot
    /\ iflag = TRUE
    /\ installing = NULL
    /\ dead = "no"

-----------------------------------------------------------------------------
(* install_task.                                                           *)

\* Slip: one task more than there are slots.
HasSlotAtLimit == num_tasks <= TOTAL_TASKS

\* A call that finds the table full returns FALSE and changes nothing.
HasSlot == num_tasks < TOTAL_TASKS

\* The frame on the new stack.  Its interrupt number is not set: it is what the
\* memory of the stack happens to hold.
Install(t, int_no) ==
    LET fresh == [of |-> t, at |-> 1, int_no |-> int_no]
    IN  /\ InProgram /\ installing = NULL
        /\ \A i \in DOMAIN tasks : tasks[i] # t
        /\ HasSlot
        /\ registers' = [registers EXCEPT ![t] = fresh]
        /\ stack' = [stack EXCEPT ![t] = <<fresh>>]
        /\ installing' = [by |-> running, task |-> t, slot |-> num_tasks,
                          left |-> {"count", "pointer"}]
        /\ UNCHANGED <<tasks, num_tasks, current, running, iflag, dead>>

\* tasks[num_tasks++] = task is two stores, in the order that the compiler likes.
InstallStore(what) ==
    /\ installing # NULL /\ what \in installing.left
    /\ InProgram /\ running = installing.by
    /\ num_tasks' = IF what = "count" THEN installing.slot + 1 ELSE num_tasks
    /\ tasks' = IF what = "pointer"
                THEN [tasks EXCEPT ![installing.slot] = installing.task] ELSE tasks
    /\ installing' = IF installing.left = {what} THEN NULL
                     ELSE [installing EXCEPT !.left = @ \ {what}]
    /\ UNCHANGED <<current, registers, stack, running, iflag, dead>>

-----------------------------------------------------------------------------
(* The dispatch of the timer's interrupt.                                  *)

Pushed == [of |-> running, at |-> Len(stack[running]) + 1, int_no |-> "irq0"]

\* Slip: the first task never has its turn again.
NextIndexFromOne == IF current + 1 >= num_tasks THEN num_tasks - 1 ELSE current + 1

NextIndex ==
    IF current + 1 >= num_tasks THEN (current + 1) % num_tasks ELSE current + 1

\* The pointer of a slot that is counted is not there yet.
NoPointer == num_tasks > 0 /\ tasks[NextIndex] = NULL

\* The first switch has no task to save the registers for.
Saved == IF num_tasks > 0 /\ current >= 0
         THEN [registers EXCEPT ![tasks[current]] = Pushed] ELSE registers

NextFrame == IF num_tasks > 0 THEN Saved[tasks[NextIndex]] ELSE Pushed

Switched ==
    /\ registers' = Saved
    /\ current' = IF num_tasks > 0 THEN NextIndex ELSE current
    /\ stack' = [stack EXCEPT ![running] = Append(@, NextFrame)]

\* Slip: the handler enables interrupts while it runs.
EnterOpen ==
    /\ dead = "no" /\ iflag /\ ~NoPointer
    /\ Len(stack[running]) < MaxDepth
    /\ Switched
    /\ UNCHANGED <<tasks, num_tasks, running, iflag, installing>>

\* The gate clears the flag, and the handlers return before the next tick, as
\* signal.h asks of them.
Enter ==
    /\ dead = "no" /\ iflag /\ ~NoPointer
    /\ Len(stack[running]) < MaxDepth
    /\ Switched
    /\ iflag' = FALSE
    /\ UNCHANGED <<tasks, num_tasks, running, installing>>

\* schedule_next_task follows a null pointer and returns what it finds there.
EnterWild ==
    /\ dead = "no" /\ iflag /\ NoPointer
    /\ dead' = "wild"
    /\ UNCHANGED taskVars

\* The frame that the dispatch will return to.
Picked == stack[running][Len(stack[running])]

\* mov esp, eax and the iret.
Leave ==
    /\ dead = "no" /\ InHandler
    /\ Picked.at <= Len(stack[Picked.of])
    /\ running' = Picked.of
    /\ stack' = [stack EXCEPT ![Picked.of] = SubSeq(@, 1, Picked.at - 1)]
    /\ iflag' = TRUE
    /\ UNCHANGED <<tasks, num_tasks, current, registers, installing, dead>>

-----------------------------------------------------------------------------
(* Properties.                                                             *)

Installed(t) == \E i \in 0..(num_tasks - 1) : i \in DOMAIN tasks /\ tasks[i] = t

TasksTypeOK ==
    /\ tasks \in [0..(TOTAL_TASKS - 1) -> Tasks \cup {NULL}]
    /\ num_tasks \in 0..TOTAL_TASKS
    /\ current \in -1..(TOTAL_TASKS - 1)
    /\ registers \in [Tasks -> Frames]
    /\ stack \in [Stacks -> Seq(Frames)]
    /\ running \in Stacks
    /\ iflag \in BOOLEAN
    /\ installing \in Installs \cup {NULL}
    /\ dead \in {"no", "wild", "divide", "stray"}

\* A task that waits is resumed from the innermost frame of its own stack: no
\* dispatch puts down for it a frame that lies on the stack of another, and none
\* that its stack has been cut back behind.
ResumedOnOwnStack ==
    \A t \in Tasks \ {running} :
        Installed(t) => registers[t].of = t /\ registers[t].at = Len(stack[t])

\* Every task that is installed runs again and again: the rotation leaves none out.
EveryTaskRuns ==
    \A t \in Tasks : Installed(t) ~> (dead # "no" \/ (running = t /\ ~InHandler))
=============================================================================
