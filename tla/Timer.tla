------------------------------- MODULE Timer -------------------------------
(***************************************************************************)
(* The timer and its signal: pit_irq and pit_sigaction_handler (pit.c),    *)
(* sigaction for SIGALRM (signal.c) and setitimer (time.c).  A program     *)
(* calls the latter two with interrupts on, and they write the variables   *)
(* that pit_irq reads field by field and byte by byte.  The interrupt      *)
(* itself is that of Tasks: which task's frame the scheduler picks decides *)
(* whether pit_irq is called.                                              *)
(***************************************************************************)
EXTENDS Tasks

CONSTANTS
    Intervals,      \* the tv_usec that programs ask for
    Actions,        \* the struct sigactions that programs pass
    Handlers,       \* the functions in them
    TickLimit       \* 2^32: tick_count is a uint32_t

NoAlarm == [kind |-> "none", function |-> NULL]

Flags == {"INVALID", "RESTART", "SIGINFO"}

Sigaction == [sa_handler : Handlers \cup {NULL}, sa_sigaction : Handlers \cup {NULL},
              sa_flags : SUBSET Flags]

\* The last byte of an interval is 0 (bound: 16 seconds).
ThreeBytes == {n \in Nat : n < 256 * 256 * 256}

\* The calls of setitimer: the new interval and the next byte of it to copy.
Copies == [new : Intervals, next : 2..3]

\* As in kernel_main.c, who asks for one kind of handler sets the field of the
\* other to NULL.
ASSUME TimerAssumption ==
    /\ Intervals \subseteq ThreeBytes
    /\ NULL \notin Handlers \cup Copies
    /\ Actions \subseteq {a \in Sigaction :
            /\ "INVALID" \notin a.sa_flags
            /\ IF "SIGINFO" \in a.sa_flags THEN a.sa_handler = NULL /\ a.sa_sigaction # NULL
               ELSE a.sa_sigaction = NULL /\ a.sa_handler # NULL}
    /\ TickLimit \in Nat \ {0}

VARIABLES
    tick_count,
    usec,           \* pit_itimerval.it_interval.tv_usec
    copying,        \* NULL, or the setitimer that is not done yet
    pit_sigaction,
    storing,        \* the next field that sigaction will store, or "none"
    act, previous,  \* the argument of the last sigaction, and that of the one before
    alarm           \* the call of a handler that the dispatch makes

itimerVars == <<usec, copying>>
signalVars == <<pit_sigaction, storing, act, previous>>
timerVars == <<tick_count, itimerVars, signalVars, alarm>>
vars == <<taskVars, dead, timerVars>>

Initially == [sa_handler |-> NULL, sa_sigaction |-> NULL, sa_flags |-> {"INVALID"}]

Init ==
    /\ TasksInit
    /\ tick_count = 0
    /\ usec = 0 /\ copying = NULL
    /\ pit_sigaction = Initially /\ storing = "none"
    /\ act = Initially /\ previous = Initially
    /\ alarm = NoAlarm

\* One call at a time; the contexts of one program do not call at once.
Idle == InProgram /\ copying = NULL /\ storing = "none" /\ installing = NULL

-----------------------------------------------------------------------------
(* setitimer(ITIMER_REAL, ...): a memcpy of bytes, the lowest one first.   *)

Place == <<256, 256 * 256, 256 * 256 * 256>>

\* `old' after the first n bytes of `new' have been copied over it.
Copied(old, new, n) == (new % Place[n]) + (old - (old % Place[n]))

Setitimer(new) ==
    /\ Idle
    /\ usec' = Copied(usec, new, 1)
    /\ copying' = [new |-> new, next |-> 2]
    /\ UNCHANGED <<taskVars, dead, tick_count, signalVars, alarm>>

CopyByte ==
    /\ InProgram /\ copying # NULL
    /\ usec' = Copied(usec, copying.new, copying.next)
    /\ copying' = IF copying.next = 3 THEN NULL ELSE [copying EXCEPT !.next = @ + 1]
    /\ UNCHANGED <<taskVars, dead, tick_count, signalVars, alarm>>

-----------------------------------------------------------------------------
(* sigaction(SIGALRM, ...): a store for each field, in their order.  The   *)
(* mask and the restorer are never read.                                   *)

SigactionCall(a) ==
    /\ Idle
    /\ pit_sigaction' = [pit_sigaction EXCEPT !.sa_handler = a.sa_handler]
    /\ storing' = "sa_sigaction"
    /\ act' = a /\ previous' = act
    /\ UNCHANGED <<taskVars, dead, tick_count, itimerVars, alarm>>

StoreSigaction ==
    /\ InProgram /\ storing = "sa_sigaction"
    /\ pit_sigaction' = [pit_sigaction EXCEPT !.sa_sigaction = act.sa_sigaction]
    /\ storing' = "sa_flags"
    /\ UNCHANGED <<taskVars, dead, tick_count, itimerVars, act, previous, alarm>>

StoreFlags ==
    /\ InProgram /\ storing = "sa_flags"
    /\ pit_sigaction' = [pit_sigaction EXCEPT !.sa_flags = act.sa_flags]
    /\ storing' = "none"
    /\ UNCHANGED <<taskVars, dead, tick_count, itimerVars, act, previous, alarm>>

-----------------------------------------------------------------------------
(* pit_irq.                                                                *)

Kind(s) == IF "SIGINFO" \in s.sa_flags THEN "siginfo" ELSE "plain"

\* Slip: the two functions are taken to be one field, as in a union.
FunctionOfUnion(s) == IF s.sa_handler # NULL THEN s.sa_handler ELSE s.sa_sigaction

FunctionOf(s) == IF Kind(s) = "siginfo" THEN s.sa_sigaction ELSE s.sa_handler

\* The call that pit_sigaction_handler makes when it finds s.
CallOf(s) ==
    IF "INVALID" \in s.sa_flags \/ FunctionOf(s) = NULL THEN NoAlarm
    ELSE [kind |-> Kind(s), function |-> FunctionOf(s)]

\* Slip: every handler is called once.
ResetAlways(s) == [s EXCEPT !.sa_flags = @ \cup {"INVALID"}]

\* "check if needed to be resetted", "set to invalid again", say the comments: of
\* a handler that is not to be restarted the flag is cleared that is not set, and
\* it stays as valid as it was.
Reset(s) ==
    IF "INVALID" \in s.sa_flags \/ "RESTART" \in s.sa_flags THEN s
    ELSE [s EXCEPT !.sa_flags = @ \ {"RESTART"}]

Divisor == usec \div 100000

\* Slip: an interval of 0 is an interval.
AskedFromZero == TRUE

Asked == usec # 0

Ticks == (tick_count + 1) % TickLimit

Due == Asked /\ Divisor # 0 /\ Ticks % Divisor = 0

\* The division by zero is an exception whose handler returns to the division.
PitIrq ==
    /\ tick_count' = Ticks
    /\ alarm' = IF Due THEN CallOf(pit_sigaction) ELSE NoAlarm
    /\ pit_sigaction' = IF Due THEN Reset(pit_sigaction) ELSE pit_sigaction
    /\ dead' = IF Asked /\ Divisor = 0 THEN "divide" ELSE dead
    /\ UNCHANGED <<itimerVars, storing, act, previous>>

\* The handler is looked up with the interrupt number of the frame that was
\* picked: on a task's first turn that is whatever number the frame holds, and a
\* wild one may come back from its call or not.
Tick ==
    /\ Enter
    /\ \/ NextFrame.int_no = "irq0"  /\ PitIrq
       \/ NextFrame.int_no = "other" /\ UNCHANGED <<timerVars, dead>>
       \/ NextFrame.int_no = "wild"  /\ dead' \in {"no", "stray"} /\ UNCHANGED timerVars

TickWild == EnterWild /\ UNCHANGED timerVars

TickDone ==
    /\ Leave
    /\ alarm' = NoAlarm
    /\ UNCHANGED <<tick_count, itimerVars, signalVars>>

-----------------------------------------------------------------------------

InstallTask ==
    /\ \/ \E t \in Tasks, n \in InterruptNumbers : Idle /\ Install(t, n)
       \/ \E what \in {"count", "pointer"} : InstallStore(what)
    /\ UNCHANGED timerVars

Next ==
    \/ Tick \/ TickWild \/ TickDone
    \/ \E new \in Intervals : Setitimer(new)
    \/ CopyByte
    \/ \E a \in Actions : SigactionCall(a)
    \/ StoreSigaction \/ StoreFlags
    \/ InstallTask

\* The timer keeps ticking, and handlers return.
Spec == Init /\ [][Next]_vars /\ WF_vars(Tick \/ TickWild) /\ WF_vars(TickDone)

-----------------------------------------------------------------------------
(* Properties.                                                             *)

\* The variables have their types.
TypeOK ==
    /\ TasksTypeOK
    /\ tick_count \in 0..(TickLimit - 1)
    /\ usec \in ThreeBytes
    /\ copying \in Copies \cup {NULL}
    /\ {pit_sigaction, act, previous} \subseteq Sigaction
    /\ storing \in {"none", "sa_sigaction", "sa_flags"}
    /\ alarm \in [kind : {"none", "plain", "siginfo"}, function : Handlers \cup {NULL}]

\* Whenever the timer calls a handler, even between two stores of sigaction, it
\* calls one that a program has registered, in the kind it was registered for:
\* that of the last sigaction or, until that is done, that of the one before.
AlarmIsCurrent ==
    alarm # NoAlarm =>
        \/ alarm = CallOf(act)
        \/ storing # "none" /\ alarm = CallOf(previous)

\* The frame that was picked is the one that install_task made, with a number in
\* it that nobody set, and its task has never run.
FirstTurn ==
    InHandler /\ Picked.int_no = "wild" /\ stack[Picked.of] = <<Picked>>

\* If programs ask for no interval below 100000 microseconds other than 0, a tick
\* brings the kernel to its end only inside a call (setitimer between two bytes,
\* install_task between its count and its pointer) or at the first turn of a
\* task; a task that has run once is never the cause again.
StopsInCallOrFirstTurn ==
    (0 \notin {new \div 100000 : new \in Intervals \ {0}} /\ dead # "no") =>
        copying # NULL \/ installing # NULL \/ FirstTurn

\* With an interval set and a handler that is to be restarted, one after the other
\* and whatever before, the handler is called again and again, wherever
\* tick_count wraps.
Armed ==
    /\ dead = "no" /\ copying = NULL /\ storing = "none" /\ usec # 0
    /\ act # Initially /\ "RESTART" \in act.sa_flags

AlarmsKeepComing == <>[]Armed => []<>(alarm # NoAlarm)
=============================================================================
