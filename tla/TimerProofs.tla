---------------------------- MODULE TimerProofs ----------------------------
(***************************************************************************)
(* Proofs of the timer's and the tasks' invariants, for every number of    *)
(* tasks and of slots, every set of intervals and every set of actions.    *)
(***************************************************************************)
EXTENDS Timer, SequenceTheorems, TLAPS

-----------------------------------------------------------------------------
(* The inductive invariant.                                                *)

\* A frame that is to be resumed is the only one on its task's stack; one that no
\* dispatch has pushed is the one that install_task made.
WaitsAt(t) ==
    /\ registers[t].of = t /\ registers[t].at = 1 /\ Len(stack[t]) = 1
    /\ registers[t].int_no # "irq0" => stack[t] = <<registers[t]>>

Counted == 0..(num_tasks - 1)

Slots == 0..(TOTAL_TASKS - 1)

\* Handlers do not nest: the flag is clear from the frame that a dispatch pushes
\* to the one that it leaves by.
HandlersDoNotNest ==
    /\ iflag <=> stack[running] = <<>>
    /\ Len(stack[running]) <= 1

\* The processor is on the stack of the current task; in a handler, the stub is
\* about to load that of the current task.
CurrentRuns ==
    /\ current < num_tasks
    /\ current = -1 => running = Boot
    /\ current >= 0 => tasks[current] \in Tasks
    /\ current >= 0 /\ iflag => tasks[current] = running
    /\ ~iflag =>
        /\ stack[running][1].at = 1
        /\ stack[running][1].of = IF current >= 0 THEN tasks[current] ELSE running
        /\ running \in Tasks => /\ registers[running].of = running
                               /\ registers[running].at = 1
                               /\ registers[running].int_no = "irq0"

OthersWait == \A t \in Tasks \ {running} : Installed(t) => WaitsAt(t)

\* The slots that are counted are those that are filled, but for the one of a task
\* that is being installed; that task has its frame, and is not yet in the rotation.
InstallingSound ==
    IF installing = NULL THEN \A i \in Slots : tasks[i] # NULL <=> i \in Counted
    ELSE /\ WaitsAt(installing.task) /\ installing.task # running
         /\ installing.left # {}
         /\ num_tasks = installing.slot + (IF "count" \in installing.left THEN 0 ELSE 1)
         /\ \A i \in Counted : tasks[i] # installing.task
         /\ \A i \in Slots \ {installing.slot} : tasks[i] # NULL <=> i \in Counted
         /\ tasks[installing.slot] =
                IF "pointer" \in installing.left THEN NULL ELSE installing.task

TasksInv == TasksTypeOK /\ HandlersDoNotNest /\ CurrentRuns /\ OthersWait /\ InstallingSound

\* What a tick in the middle of a call of sigaction finds.
SigactionStored ==
    /\ {act, previous} \subseteq Actions \cup {Initially}
    /\ pit_sigaction =
        [sa_handler   |-> act.sa_handler,
         sa_sigaction |-> IF storing = "sa_sigaction" THEN previous.sa_sigaction
                          ELSE act.sa_sigaction,
         sa_flags     |-> IF storing = "none" THEN act.sa_flags ELSE previous.sa_flags]

AlarmInHandler == alarm # NoAlarm => InHandler

IntervalStored == copying = NULL => usec \in Intervals \cup {0}

TimerTypeOK ==
    /\ tick_count \in 0..(TickLimit - 1)
    /\ usec \in ThreeBytes
    /\ copying \in Copies \cup {NULL}
    /\ {pit_sigaction, act, previous} \subseteq Sigaction
    /\ storing \in {"none", "sa_sigaction", "sa_flags"}
    /\ alarm \in [kind : {"none", "plain", "siginfo"}, function : Handlers \cup {NULL}]

TimerInv ==
    /\ TimerTypeOK
    /\ SigactionStored /\ AlarmInHandler /\ IntervalStored
    /\ AlarmIsCurrent /\ StopsInCallOrFirstTurn

IInv == TasksInv /\ TimerInv

-----------------------------------------------------------------------------
(* The tasks.                                                              *)

DeadOK == dead \in {"no", "wild", "divide", "stray"}

LEMMA TasksInitially == TasksInit => TasksInv
<1> SUFFICES ASSUME TasksInit PROVE TasksInv
  OBVIOUS
<1> USE TasksAssumption DEF TasksInit
<1>1. TasksTypeOK
  BY DEF TasksTypeOK, Frames, InterruptNumbers, Stacks
<1>2. HandlersDoNotNest /\ CurrentRuns
  BY DEF HandlersDoNotNest, CurrentRuns, Stacks
<1>3. OthersWait /\ InstallingSound
  BY DEF OthersWait, Installed, InstallingSound, Counted, Slots
<1> QED
  BY <1>1, <1>2, <1>3 DEF TasksInv

\* What holds where a dispatch begins: the stack of the running task is empty,
\* and the slot whose turn is next is counted and filled.
LEMMA DispatchBegins ==
    ASSUME TasksInv, Enter
    PROVE  /\ stack[running] = <<>>
           /\ Pushed = [of |-> running, at |-> 1, int_no |-> "irq0"]
           /\ Pushed \in Frames
           /\ num_tasks > 0 => NextIndex \in Counted /\ tasks[NextIndex] \in Tasks
           /\ num_tasks > 0 /\ current >= 0 => tasks[current] = running
           /\ running \in Tasks => num_tasks > 0 /\ current >= 0
           /\ Saved = IF num_tasks > 0 /\ current >= 0
                      THEN [registers EXCEPT ![running] = Pushed] ELSE registers
           /\ Saved \in [Tasks -> Frames]
<1> USE TasksAssumption
<1>1. /\ iflag /\ stack[running] = <<>>
      /\ num_tasks \in 0..TOTAL_TASKS /\ current \in -1..(TOTAL_TASKS - 1)
      /\ current < num_tasks
      /\ running \in Stacks
  BY DEF TasksInv, TasksTypeOK, HandlersDoNotNest, CurrentRuns, Enter
<1>2. Pushed = [of |-> running, at |-> 1, int_no |-> "irq0"]
  BY <1>1 DEF Pushed
<1>3. Pushed \in Frames
  BY <1>1, <1>2 DEF Frames, InterruptNumbers
<1>4. ASSUME num_tasks > 0
      PROVE  NextIndex \in Counted /\ tasks[NextIndex] \in Tasks
  <2>1. NextIndex \in Counted
    BY <1>1, <1>4 DEF NextIndex, Counted
  <2>2. tasks[NextIndex] # NULL
    BY <1>4 DEF Enter, NoPointer
  <2> QED
    BY <1>1, <2>1, <2>2 DEF Counted, TasksInv, TasksTypeOK
<1>5. current >= 0 => tasks[current] = running /\ tasks[current] \in Tasks
  BY <1>1 DEF TasksInv, CurrentRuns
<1>6. running \in Tasks => num_tasks > 0 /\ current >= 0
  BY <1>1 DEF TasksInv, CurrentRuns
<1>7. Saved = IF num_tasks > 0 /\ current >= 0
              THEN [registers EXCEPT ![running] = Pushed] ELSE registers
  BY <1>5 DEF Saved
<1>8. Saved \in [Tasks -> Frames]
  BY <1>3, <1>5, <1>7 DEF TasksInv, TasksTypeOK
<1> QED
  BY <1>1, <1>2, <1>3, <1>4, <1>5, <1>6, <1>7, <1>8

\* The beginning of a dispatch keeps the invariant.
LEMMA EnterKeeps ==
    ASSUME TasksInv, Enter, UNCHANGED <<tasks, num_tasks, installing, running>>, DeadOK'
    PROVE  TasksInv'
<1> USE TasksAssumption
<1> DEFINE f == NextFrame
<1>1. TasksTypeOK /\ HandlersDoNotNest /\ CurrentRuns /\ OthersWait /\ InstallingSound
  BY DEF TasksInv
<1>2. iflag /\ iflag' = FALSE /\ registers' = Saved
      /\ stack' = [stack EXCEPT ![running] = Append(@, f)]
      /\ current' = IF num_tasks > 0 THEN NextIndex ELSE current
  BY DEF Enter, Switched
<1>3. f \in Frames /\ f.at = 1 /\ f.of = IF num_tasks > 0 THEN tasks[NextIndex] ELSE running
  <2>1. CASE num_tasks > 0
    <3> DEFINE t == tasks[NextIndex]
    <3>1. t \in Tasks /\ NextIndex \in Counted /\ f = Saved[t] /\ Installed(t)
      BY <2>1, DispatchBegins, <1>1 DEF NextFrame, Installed, Counted, TasksTypeOK
    <3>2. CASE t = running
      BY <3>1, <3>2, <2>1, DispatchBegins, <1>1 DEF TasksTypeOK
    <3>3. CASE t # running
      <4>1. Saved[t] = registers[t] /\ Saved \in [Tasks -> Frames]
        BY <3>1, <3>3, DispatchBegins, <1>1 DEF TasksTypeOK
      <4>2. WaitsAt(t)
        BY <3>1, <3>3, <1>1 DEF OthersWait
      <4> QED
        BY <4>1, <4>2, <3>1, <2>1 DEF WaitsAt
    <3> QED
      BY <3>2, <3>3
  <2>2. CASE ~(num_tasks > 0)
    BY <2>2, DispatchBegins DEF NextFrame
  <2> QED
    BY <2>1, <2>2
<1> HIDE DEF f
<1>4. /\ stack' \in [Stacks -> Seq(Frames)]
      /\ stack'[running] = <<f>>
      /\ \A s \in Stacks \ {running} : stack'[s] = stack[s]
  <2>1. stack \in [Stacks -> Seq(Frames)] /\ running \in Stacks /\ stack[running] = <<>>
    BY <1>1, DispatchBegins DEF TasksTypeOK
  <2>2. stack' = [stack EXCEPT ![running] = <<f>>]
    BY <1>2, <2>1
  <2> QED
    BY <2>1, <2>2, <1>3
<1>5. num_tasks \in 0..TOTAL_TASKS /\ current \in -1..(TOTAL_TASKS - 1) /\ running \in Stacks
  BY <1>1 DEF TasksTypeOK
<1>6. TasksTypeOK'
  <2>1. current' \in -1..(TOTAL_TASKS - 1)
    BY <1>2, <1>5, DispatchBegins DEF Counted
  <2> QED
    BY <1>1, <1>2, <1>4, <2>1, DispatchBegins DEF TasksTypeOK, DeadOK
<1>7. HandlersDoNotNest'
  BY <1>2, <1>4 DEF HandlersDoNotNest
<1>8. CurrentRuns'
  <2>1. CASE num_tasks > 0
    <3>1. /\ current' = NextIndex /\ current' \in Counted /\ tasks[current'] \in Tasks
          /\ stack'[running][1] = f
      BY <2>1, <1>2, <1>4, DispatchBegins
    <3>2. running \in Tasks => registers'[running] = Pushed
      BY <1>1, <1>2, DispatchBegins DEF TasksTypeOK
    <3>3. /\ current' < num_tasks' /\ current' # -1 /\ current' >= 0 /\ ~iflag'
          /\ tasks'[current'] \in Tasks
      BY <3>1, <1>2, <1>5 DEF Counted
    <3>4. /\ running' = running /\ tasks' = tasks
          /\ Pushed.of = running /\ Pushed.at = 1 /\ Pushed.int_no = "irq0"
      BY DispatchBegins
    <3>5. stack'[running'][1].at = 1 /\ stack'[running'][1].of = tasks'[current']
      BY <3>1, <3>4, <1>3, <2>1
    <3> QED
      BY <3>2, <3>3, <3>4, <3>5 DEF CurrentRuns
  <2>2. CASE ~(num_tasks > 0)
    <3>1. current = -1 /\ current' = -1 /\ running = Boot /\ num_tasks = 0
      BY <2>2, <1>1, <1>2, <1>5 DEF CurrentRuns
    <3>2. stack'[running][1] = f
      BY <1>4
    <3> QED
      BY <3>1, <3>2, <2>2, <1>2, <1>3 DEF CurrentRuns
  <2> QED
    BY <2>1, <2>2
<1>9. ASSUME NEW t \in Tasks, t # running, WaitsAt(t)
      PROVE  WaitsAt(t)'
  <2>1. stack'[t] = stack[t]
    BY <1>4, <1>9 DEF Stacks
  <2>2. registers'[t] = registers[t]
    BY <1>1, <1>2, <1>9, DispatchBegins DEF TasksTypeOK
  <2> QED
    BY <2>1, <2>2, <1>9 DEF WaitsAt
<1>10. OthersWait'
  BY <1>1, <1>9 DEF OthersWait, Installed
<1>11. InstallingSound'
  <2>1. CASE installing = NULL
    BY <2>1, <1>1 DEF InstallingSound, Counted
  <2>2. CASE installing # NULL
    <3>1. installing.task \in Tasks
      BY <2>2, <1>1 DEF TasksTypeOK, Installs
    <3>2. WaitsAt(installing.task)'
      BY <2>2, <3>1, <1>1, <1>9 DEF InstallingSound
    <3> QED
      BY <2>2, <3>2, <1>1 DEF InstallingSound, Counted, WaitsAt
  <2> QED
    BY <2>1, <2>2
<1> QED
  BY <1>6, <1>7, <1>8, <1>10, <1>11 DEF TasksInv

\* A dispatch that finds a number nobody has set has picked the frame of a task
\* that has never run.
LEMMA WildIsFresh ==
    ASSUME TasksInv, Enter, UNCHANGED running, NextFrame.int_no = "wild"
    PROVE  FirstTurn'
<1> USE TasksAssumption
<1> DEFINE t == tasks[NextIndex]
<1>1. /\ stack[running] = <<>> /\ running \in Stacks
      /\ stack \in [Stacks -> Seq(Frames)] /\ registers \in [Tasks -> Frames]
      /\ tasks \in [0..(TOTAL_TASKS - 1) -> Tasks \cup {NULL}]
      /\ num_tasks \in 0..TOTAL_TASKS
  BY DispatchBegins DEF TasksInv, TasksTypeOK
<1>2. Pushed.int_no = "irq0"
  BY DispatchBegins
<1>3. num_tasks > 0
  BY <1>2 DEF NextFrame
<1>4. t \in Tasks /\ Installed(t) /\ NextFrame = Saved[t]
  BY <1>1, <1>3, DispatchBegins DEF NextFrame, Installed, Counted
<1>5. t # running /\ NextFrame = registers[t]
  BY <1>1, <1>2, <1>4, DispatchBegins
<1>6. stack[t] = <<NextFrame>> /\ NextFrame.of = t
  BY <1>4, <1>5 DEF TasksInv, OthersWait, WaitsAt
<1>7. NextFrame \in Frames /\ t \in Stacks
  BY <1>1, <1>4, <1>5 DEF Stacks
<1> HIDE DEF t
<1>8. stack' = [stack EXCEPT ![running] = <<NextFrame>>]
  BY <1>1, <1>7 DEF Enter, Switched
<1>9. stack'[running'] = <<NextFrame>> /\ stack'[t] = <<NextFrame>>
  BY <1>1, <1>5, <1>6, <1>7, <1>8
<1> QED
  BY <1>6, <1>9 DEF FirstTurn, InHandler, Picked

\* The end of a dispatch keeps it: the task that was running waits with the frame
\* that the dispatch pushed, and the current one has its stack to itself.
LEMMA LeaveKeeps == ASSUME TasksInv, Leave PROVE TasksInv'
<1> USE TasksAssumption
<1> DEFINE next == Picked
           r == next.of
<1>1. TasksTypeOK /\ HandlersDoNotNest /\ CurrentRuns /\ OthersWait /\ InstallingSound
  BY DEF TasksInv
<1>2. /\ ~iflag /\ iflag' = TRUE
      /\ running' = r
      /\ stack' = [stack EXCEPT ![r] = SubSeq(@, 1, next.at - 1)]
      /\ UNCHANGED <<tasks, num_tasks, current, registers, installing, dead>>
  BY <1>1 DEF Leave, InHandler, HandlersDoNotNest
<1>3. /\ running \in Stacks /\ stack \in [Stacks -> Seq(Frames)]
      /\ num_tasks \in 0..TOTAL_TASKS /\ current \in -1..(TOTAL_TASKS - 1)
  BY <1>1 DEF TasksTypeOK
<1>4. Len(stack[running]) = 1
  <2>1. stack[running] \in Seq(Frames) /\ stack[running] # <<>>
    BY <1>1, <1>2, <1>3 DEF HandlersDoNotNest
  <2>2. Len(stack[running]) \in Nat /\ Len(stack[running]) # 0
    BY <2>1, EmptySeq
  <2>3. Len(stack[running]) <= 1
    BY <1>1 DEF HandlersDoNotNest
  <2> DEFINE n == Len(stack[running])
  <2> SUFFICES n = 1
    OBVIOUS
  <2>4. n \in Nat /\ n # 0 /\ n <= 1
    BY <2>2, <2>3
  <2> HIDE DEF n
  <2> QED
    BY <2>4
<1>5. /\ next.at = 1 /\ next.of = IF current >= 0 THEN tasks[current] ELSE running
      /\ running \in Tasks => /\ registers[running].of = running
                             /\ registers[running].at = 1
                             /\ registers[running].int_no = "irq0"
  BY <1>1, <1>2, <1>4 DEF CurrentRuns, Picked
<1>6. r \in Stacks
  BY <1>1, <1>3, <1>5 DEF CurrentRuns, Stacks
<1> HIDE DEF next, r
<1>7. /\ stack' \in [Stacks -> Seq(Frames)] /\ stack'[r] = <<>>
      /\ \A s \in Stacks \ {r} : stack'[s] = stack[s]
  <2>1. SubSeq(stack[r], 1, next.at - 1) = <<>>
    BY <1>3, <1>5, <1>6
  <2>2. stack' = [stack EXCEPT ![r] = <<>>]
    BY <1>2, <2>1
  <2> QED
    BY <2>2, <1>3, <1>6
<1>8. TasksTypeOK'
  BY <1>1, <1>2, <1>6, <1>7 DEF TasksTypeOK
<1>9. HandlersDoNotNest'
  <2>1. stack'[running'] = <<>> /\ Len(<<>>) = 0
    BY <1>2, <1>7
  <2> QED
    BY <2>1, <1>2 DEF HandlersDoNotNest
<1>10. CurrentRuns'
  BY <1>1, <1>2, <1>3, <1>5 DEF CurrentRuns, r
<1>11. ASSUME NEW t \in Tasks \ {r}, t # running => WaitsAt(t)
       PROVE  WaitsAt(t)'
  <2>1. stack'[t] = stack[t] /\ registers'[t] = registers[t]
    BY <1>2, <1>7, <1>11 DEF Stacks
  <2>2. WaitsAt(t)
    BY <1>4, <1>5, <1>11 DEF WaitsAt
  <2> QED
    BY <2>1, <2>2 DEF WaitsAt
<1>12. OthersWait'
  BY <1>1, <1>2, <1>11 DEF OthersWait, Installed
<1>13. InstallingSound'
  <2>1. CASE installing = NULL
    BY <2>1, <1>1, <1>2 DEF InstallingSound, Counted
  <2>2. CASE installing # NULL
    <3>1. /\ installing.task \in Tasks /\ WaitsAt(installing.task)
          /\ installing.task # running
          /\ \A i \in Counted : tasks[i] # installing.task
      BY <2>2, <1>1 DEF TasksTypeOK, Installs, InstallingSound
    <3>2. installing.task # r
      BY <3>1, <1>1, <1>3, <1>5 DEF CurrentRuns, Counted, r
    <3>3. WaitsAt(installing.task)'
      <4>1. WaitsAt(installing.task) /\ installing.task \in Tasks \ {r}
        BY <3>1, <3>2
      <4>2. stack'[installing.task] = stack[installing.task]
        BY <1>7, <4>1 DEF Stacks
      <4> QED
        BY <4>1, <4>2, <1>2 DEF WaitsAt
    <3> QED
      BY <2>2, <3>2, <3>3, <1>1, <1>2 DEF InstallingSound, Counted, WaitsAt
  <2> QED
    BY <2>1, <2>2
<1> QED
  BY <1>8, <1>9, <1>10, <1>12, <1>13 DEF TasksInv

\* The first part of install_task keeps it: the task is in no slot, so it is not
\* the one that runs.
LEMMA InstallKeeps ==
    ASSUME TasksInv, NEW t \in Tasks, NEW n \in InterruptNumbers, Install(t, n)
    PROVE  TasksInv'
<1> USE TasksAssumption
<1> DEFINE fresh == [of |-> t, at |-> 1, int_no |-> n]
<1>1. TasksTypeOK /\ HandlersDoNotNest /\ CurrentRuns /\ OthersWait /\ InstallingSound
  BY DEF TasksInv
<1>2. /\ InProgram /\ installing = NULL /\ num_tasks < TOTAL_TASKS
      /\ \A i \in DOMAIN tasks : tasks[i] # t
      /\ registers' = [registers EXCEPT ![t] = fresh]
      /\ stack' = [stack EXCEPT ![t] = <<fresh>>]
      /\ installing' = [by |-> running, task |-> t, slot |-> num_tasks,
                        left |-> {"count", "pointer"}]
      /\ UNCHANGED <<tasks, num_tasks, current, running, iflag, dead>>
  BY DEF Install, HasSlot
<1>3. /\ running \in Stacks /\ stack \in [Stacks -> Seq(Frames)]
      /\ num_tasks \in 0..TOTAL_TASKS /\ current \in -1..(TOTAL_TASKS - 1)
      /\ tasks \in [0..(TOTAL_TASKS - 1) -> Tasks \cup {NULL}]
      /\ registers \in [Tasks -> Frames]
  BY <1>1 DEF TasksTypeOK
<1>4. fresh \in Frames /\ t \in Stacks
  BY DEF Frames, Stacks
<1>5. iflag /\ stack[running] = <<>>
  BY <1>1, <1>2 DEF InProgram, InHandler, HandlersDoNotNest
<1>6. t # running
  BY <1>1, <1>2, <1>3, <1>5 DEF CurrentRuns
<1>7. /\ stack'[t] = <<fresh>> /\ registers'[t] = fresh
      /\ stack' \in [Stacks -> Seq(Frames)] /\ registers' \in [Tasks -> Frames]
      /\ \A s \in Stacks \ {t} : stack'[s] = stack[s]
      /\ \A u \in Tasks \ {t} : registers'[u] = registers[u]
  BY <1>2, <1>3, <1>4
<1>8. TasksTypeOK'
  <2>1. installing' \in [by : Stacks, task : Tasks, slot : 0..(TOTAL_TASKS - 1),
                         left : SUBSET {"count", "pointer"}]
    BY <1>2, <1>3
  <2> QED
    BY <1>1, <1>2, <1>7, <2>1 DEF TasksTypeOK, Installs
<1>9. HandlersDoNotNest' /\ CurrentRuns'
  BY <1>1, <1>2, <1>3, <1>5, <1>6, <1>7 DEF HandlersDoNotNest, CurrentRuns
<1>10. WaitsAt(t)'
  BY <1>7 DEF WaitsAt
<1>11. OthersWait'
  <2>1. ASSUME NEW u \in Tasks \ {running}, Installed(u)
        PROVE  WaitsAt(u)'
    <3>1. u # t
      BY <2>1, <1>2, <1>3 DEF Installed
    <3> QED
      BY <2>1, <3>1, <1>1, <1>7 DEF OthersWait, WaitsAt, Stacks
  <2> QED
    BY <2>1, <1>2 DEF OthersWait, Installed
<1>12. InstallingSound'
  <2>1. /\ \A i \in Slots : (tasks[i] # NULL <=> i \in Counted) /\ tasks[i] # t
        /\ num_tasks \in Slots \ Counted /\ Counted \subseteq Slots
    BY <1>1, <1>2, <1>3 DEF InstallingSound, Counted, Slots
  <2>2. installing' # NULL
    BY <1>2, <1>3 DEF Installs
  <2>3. /\ installing'.task = t /\ installing'.slot = num_tasks
        /\ installing'.left = {"count", "pointer"}
    BY <1>2
  <2> HIDE DEF fresh
  <2>4. WaitsAt(installing.task)'
    BY <1>10, <2>3 DEF WaitsAt
  <2> QED
    BY <2>1, <2>2, <2>3, <2>4, <1>2, <1>3, <1>6, <1>7
    DEF InstallingSound, Counted, Slots, WaitsAt
<1> QED
  BY <1>8, <1>9, <1>11, <1>12 DEF TasksInv

\* Each of the two stores keeps it, whichever comes first: the task becomes one
\* of the installed with the second.
LEMMA InstallStoreKeeps ==
    ASSUME TasksInv, NEW what \in {"count", "pointer"}, InstallStore(what)
    PROVE  TasksInv'
<1> USE TasksAssumption
<1> DEFINE slot == installing.slot
           t    == installing.task
           left == installing.left
<1>1. TasksTypeOK /\ HandlersDoNotNest /\ CurrentRuns /\ OthersWait /\ InstallingSound
  BY DEF TasksInv
<1>2. /\ installing \in Installs /\ what \in left
      /\ slot \in 0..(TOTAL_TASKS - 1) /\ t \in Tasks
      /\ left \in SUBSET {"count", "pointer"}
  BY <1>1 DEF InstallStore, TasksTypeOK, Installs
<1>3. /\ installing # NULL
      /\ num_tasks' = IF what = "count" THEN slot + 1 ELSE num_tasks
      /\ tasks' = IF what = "pointer" THEN [tasks EXCEPT ![slot] = t] ELSE tasks
      /\ installing' = IF left = {what} THEN NULL
                       ELSE [installing EXCEPT !.left = @ \ {what}]
      /\ UNCHANGED <<current, registers, stack, running, iflag, dead>>
  BY DEF InstallStore
<1>4. /\ WaitsAt(t) /\ t # running
      /\ num_tasks = slot + (IF "count" \in left THEN 0 ELSE 1)
      /\ \A i \in Counted : tasks[i] # t
      /\ \A i \in Slots \ {slot} : tasks[i] # NULL <=> i \in Counted
      /\ tasks[slot] = IF "pointer" \in left THEN NULL ELSE t
  BY <1>1, <1>3 DEF InstallingSound
<1>5. /\ tasks \in [0..(TOTAL_TASKS - 1) -> Tasks \cup {NULL}]
      /\ num_tasks \in 0..TOTAL_TASKS /\ current \in -1..(TOTAL_TASKS - 1)
      /\ current < num_tasks
  BY <1>1 DEF TasksTypeOK, CurrentRuns
<1>6. /\ installing' \in Installs \cup {NULL}
      /\ left = {what} => installing' = NULL
      /\ left # {what} => /\ installing' \in Installs /\ installing' # NULL
                         /\ installing'.slot = slot /\ installing'.task = t
                         /\ installing'.left = left \ {what}
  BY <1>2, <1>3 DEF Installs
<1>7. /\ tasks' \in [0..(TOTAL_TASKS - 1) -> Tasks \cup {NULL}]
      /\ num_tasks' \in 0..TOTAL_TASKS
      /\ \A i \in 0..(TOTAL_TASKS - 1) \ {slot} : tasks'[i] = tasks[i]
      /\ tasks'[slot] = IF what = "pointer" THEN t ELSE tasks[slot]
  BY <1>2, <1>3, <1>5
<1>8. /\ num_tasks' = slot + (IF "count" \in left \ {what} THEN 0 ELSE 1)
      /\ num_tasks <= num_tasks' /\ num_tasks' <= slot + 1 /\ slot <= num_tasks
  BY <1>2, <1>3, <1>4, <1>5
<1> HIDE DEF slot, t, left
<1>9. TasksTypeOK'
  BY <1>1, <1>3, <1>6, <1>7 DEF TasksTypeOK
<1>10. HandlersDoNotNest'
  BY <1>1, <1>3 DEF HandlersDoNotNest
<1>11. CurrentRuns'
  <2>1. current >= 0 => tasks'[current] = tasks[current]
    <3>1. current >= 0 => tasks[current] # NULL /\ current \in Slots
      BY <1>1, <1>5 DEF CurrentRuns, Slots, Stacks
    <3>2. what = "pointer" => tasks[slot] = NULL
      BY <1>2, <1>4
    <3> QED
      BY <3>1, <3>2, <1>7 DEF Slots
  <2> QED
    BY <2>1, <1>1, <1>3, <1>5, <1>7, <1>8 DEF CurrentRuns
<1>12. \A u \in Tasks : WaitsAt(u) => WaitsAt(u)'
  BY <1>3, <1>4 DEF WaitsAt
<1>13. OthersWait'
  <2>1. ASSUME NEW u \in Tasks \ {running}, u # t, Installed(u)'
        PROVE  Installed(u)
    <3>1. PICK i \in 0..(num_tasks' - 1) : i \in DOMAIN tasks' /\ tasks'[i] = u
      BY <2>1 DEF Installed
    <3>2. u # NULL /\ (i # slot => i \in Slots /\ tasks[i] = u)
      BY <3>1, <1>7 DEF Slots, Stacks
    <3>3. i # slot
      BY <2>1, <3>1, <3>2, <1>2, <1>4, <1>7
    <3> QED
      BY <3>1, <3>2, <3>3, <1>4, <1>5, <1>7 DEF Installed, Counted, Slots
  <2>2. ASSUME NEW u \in Tasks \ {running}, Installed(u)'
        PROVE  WaitsAt(u)'
    <3>1. WaitsAt(u)
      BY <2>1, <2>2, <1>1, <1>4 DEF OthersWait
    <3> QED
      BY <3>1, <1>12
  <2> QED
    BY <2>2, <1>3 DEF OthersWait
<1>14. InstallingSound'
  <2>1. \A i \in Slots \ {slot} : tasks'[i] # NULL <=> i \in 0..(num_tasks' - 1)
    BY <1>2, <1>4, <1>5, <1>7, <1>8 DEF Slots, Counted
  <2>2. tasks'[slot] = IF "pointer" \in left \ {what} THEN NULL ELSE t
    BY <1>2, <1>4, <1>7
  <2>3. CASE left = {what}
    <3>1. slot \in 0..(num_tasks' - 1) /\ tasks'[slot] # NULL
      BY <2>2, <2>3, <1>2, <1>8 DEF Stacks
    <3> QED
      BY <3>1, <2>1, <2>3, <1>6 DEF InstallingSound, Counted, Slots
  <2>4. CASE left # {what}
    <3>1. left \ {what} # {}
      BY <2>4, <1>2
    <3>2. \A i \in 0..(num_tasks' - 1) : tasks'[i] # t
      <4>1. ASSUME NEW i \in 0..(num_tasks' - 1), i # slot
            PROVE  tasks'[i] # t
        <5>1. i \in Slots /\ i \in Counted /\ tasks'[i] = tasks[i]
          BY <4>1, <2>1, <1>2, <1>4, <1>5, <1>7, <1>8 DEF Slots, Counted
        <5> QED
          BY <5>1, <1>4
      <4>2. ASSUME NEW i \in 0..(num_tasks' - 1), i = slot
            PROVE  tasks'[i] # t
        <5>1. "count" \in left \ {what} \/ "pointer" \in left \ {what}
          BY <3>1, <1>2
        <5>2. "pointer" \in left \ {what}
          BY <4>2, <5>1, <1>2, <1>7, <1>8
        <5>3. t # NULL
          BY <1>2 DEF Stacks
        <5> QED
          BY <4>2, <5>2, <5>3, <2>2
      <4> QED
        BY <4>1, <4>2
    <3>3. /\ installing' # NULL /\ installing'.slot = slot /\ installing'.task = t
          /\ installing'.left = left \ {what}
      BY <2>4, <1>6
    <3>4. registers'[t].of = t /\ registers'[t].at = 1 /\ Len(stack'[t]) = 1
      BY <1>2, <1>3, <1>4 DEF WaitsAt
    <3> QED
      BY <3>1, <3>2, <3>3, <3>4, <2>1, <2>2, <1>3, <1>4, <1>8
      DEF InstallingSound, Counted, Slots, WaitsAt
  <2> QED
    BY <2>3, <2>4
<1> QED
  BY <1>9, <1>10, <1>11, <1>13, <1>14 DEF TasksInv

LEMMA TasksStutter == ASSUME TasksInv, UNCHANGED taskVars, DeadOK' PROVE TasksInv'
<1>1. UNCHANGED <<tasks, num_tasks, current, registers, stack, running, iflag, installing>>
  BY DEF taskVars
<1> QED
  BY <1>1 DEF TasksInv, TasksTypeOK, DeadOK, HandlersDoNotNest, CurrentRuns, OthersWait,
              InstallingSound, Installed, WaitsAt, Counted, Slots

-----------------------------------------------------------------------------
(* The timer.                                                              *)

LEMMA NoAlarmTyped ==
    NoAlarm \in [kind : {"none", "plain", "siginfo"}, function : Handlers \cup {NULL}]
BY DEF NoAlarm

LEMMA InitiallyTyped == Initially \in Sigaction
BY DEF Initially, Sigaction, Flags

\* pit.c 63-68 changes nothing: what it clears is clear.
LEMMA ResetDoesNothing == ASSUME NEW s \in Sigaction PROVE Reset(s) = s
<1>1. CASE "INVALID" \in s.sa_flags \/ "RESTART" \in s.sa_flags
  BY <1>1 DEF Reset
<1>2. CASE "RESTART" \notin s.sa_flags
  <2>1. s.sa_flags \ {"RESTART"} = s.sa_flags
    BY <1>2
  <2>2. s = [sa_handler |-> s.sa_handler, sa_sigaction |-> s.sa_sigaction,
             sa_flags |-> s.sa_flags]
    BY DEF Sigaction
  <2>3. [s EXCEPT !.sa_flags = @ \ {"RESTART"}] = s
    BY <2>1, <2>2
  <2> QED
    BY <1>2, <2>3 DEF Reset
<1> QED
  BY <1>1, <1>2

LEMMA CallTyped ==
    ASSUME NEW s \in Sigaction
    PROVE  CallOf(s) \in [kind : {"none", "plain", "siginfo"}, function : Handlers \cup {NULL}]
BY NoAlarmTyped DEF CallOf, Kind, FunctionOf, Sigaction

\* What is called when the fields of one sigaction have been stored and those of
\* another not yet: either or none.
LEMMA MixedCall ==
    ASSUME NEW a \in Actions \cup {Initially}, NEW b \in Actions \cup {Initially},
           NEW s \in Sigaction, s.sa_flags = b.sa_flags,
           s.sa_handler = a.sa_handler,
           s.sa_sigaction \in {a.sa_sigaction, b.sa_sigaction}
    PROVE  CallOf(s) \in {NoAlarm, CallOf(a), CallOf(b)}
<1>1. ASSUME NEW c \in Actions \cup {Initially}
      PROVE  \/ "INVALID" \in c.sa_flags /\ c.sa_handler = NULL /\ c.sa_sigaction = NULL
             \/ /\ "INVALID" \notin c.sa_flags
                /\ "SIGINFO" \in c.sa_flags => c.sa_handler = NULL /\ c.sa_sigaction # NULL
                /\ "SIGINFO" \notin c.sa_flags => c.sa_sigaction = NULL /\ c.sa_handler # NULL
  <2>1. CASE c = Initially
    BY <2>1 DEF Initially
  <2>2. CASE c \in Actions
    BY <2>2, TimerAssumption
  <2> QED
    BY <2>1, <2>2
<1>2. CASE "INVALID" \in s.sa_flags
  BY <1>2 DEF CallOf
<1>3. CASE "INVALID" \notin s.sa_flags /\ "SIGINFO" \in s.sa_flags
  BY <1>1, <1>3 DEF CallOf, Kind, FunctionOf
<1>4. CASE "INVALID" \notin s.sa_flags /\ "SIGINFO" \notin s.sa_flags
  BY <1>1, <1>4 DEF CallOf, Kind, FunctionOf
<1> QED
  BY <1>2, <1>3, <1>4

LEMMA StoredCall ==
    ASSUME TimerTypeOK, SigactionStored, CallOf(pit_sigaction) # NoAlarm
    PROVE  \/ CallOf(pit_sigaction) = CallOf(act)
           \/ storing # "none" /\ CallOf(pit_sigaction) = CallOf(previous)
<1>1. /\ act \in Actions \cup {Initially} /\ previous \in Actions \cup {Initially}
      /\ pit_sigaction \in Sigaction /\ act \in Sigaction
      /\ pit_sigaction.sa_handler = act.sa_handler
      /\ pit_sigaction.sa_sigaction \in {act.sa_sigaction, previous.sa_sigaction}
      /\ pit_sigaction.sa_flags = IF storing = "none" THEN act.sa_flags ELSE previous.sa_flags
  BY DEF TimerTypeOK, SigactionStored
<1>2. CASE storing = "none"
  <2>1. pit_sigaction.sa_sigaction = act.sa_sigaction
    BY <1>2 DEF SigactionStored
  <2>2. CallOf(pit_sigaction) = CallOf(act)
    BY <1>1, <1>2, <2>1 DEF CallOf, Kind, FunctionOf
  <2> QED
    BY <2>2
<1>3. CASE storing # "none"
  BY <1>1, <1>3, MixedCall
<1> QED
  BY <1>2, <1>3

LEMMA CopiedInRange ==
    ASSUME NEW old \in ThreeBytes, NEW new \in ThreeBytes
    PROVE  /\ \A n \in 1..3 : Copied(old, new, n) \in ThreeBytes
           /\ Copied(old, new, 3) = new
<1>1. /\ Copied(old, new, 1) = (new % 256) + (old - (old % 256))
      /\ Copied(old, new, 2) = (new % (256 * 256)) + (old - (old % (256 * 256)))
      /\ Copied(old, new, 3) = (new % (256 * 256 * 256)) + (old - (old % (256 * 256 * 256)))
  BY SMT DEF Copied, Place
<1>2. Copied(old, new, 1) \in ThreeBytes
  BY <1>1, SMT DEF ThreeBytes
<1>3. Copied(old, new, 2) \in ThreeBytes
  BY <1>1, SMT DEF ThreeBytes
<1>4. Copied(old, new, 3) = new
  BY <1>1, SMT DEF ThreeBytes
<1>5. \A n \in 1..3 : n = 1 \/ n = 2 \/ n = 3
  OBVIOUS
<1> QED
  BY <1>2, <1>3, <1>4, <1>5, Zenon

\* Of the timer's part, what the steps that leave the alarm alone must keep.
LEMMA QuietStep ==
    ASSUME TimerInv, alarm' = alarm, alarm = NoAlarm, dead = "no", UNCHANGED dead,
           TimerTypeOK', SigactionStored', IntervalStored'
    PROVE  TimerInv'
BY DEF TimerInv, AlarmInHandler, AlarmIsCurrent, StopsInCallOrFirstTurn, NoAlarm

\* A program that runs is in no handler's call.
LEMMA ProgramHasNoAlarm ==
    ASSUME TimerInv, InProgram PROVE alarm = NoAlarm /\ dead = "no"
BY DEF TimerInv, AlarmInHandler, InProgram

LEMMA InitKeeps == ASSUME Init PROVE IInv
<1> USE TasksAssumption, TimerAssumption
<1>1. TasksInv
  BY TasksInitially DEF Init
<1>2. TimerTypeOK
  BY InitiallyTyped, NoAlarmTyped DEF Init, TimerTypeOK, ThreeBytes
<1>3. SigactionStored
  BY DEF Init, SigactionStored, Initially
<1>4. AlarmInHandler /\ IntervalStored /\ AlarmIsCurrent /\ StopsInCallOrFirstTurn
  BY DEF Init, TasksInit, AlarmInHandler, IntervalStored, AlarmIsCurrent,
         StopsInCallOrFirstTurn
<1> QED
  BY <1>1, <1>2, <1>3, <1>4 DEF IInv, TimerInv

LEMMA TickKeeps == ASSUME IInv, Tick PROVE IInv'
<1> USE TasksAssumption, TimerAssumption
<1>1. TasksInv /\ TimerTypeOK /\ SigactionStored /\ AlarmInHandler /\ IntervalStored
      /\ AlarmIsCurrent /\ StopsInCallOrFirstTurn
  BY DEF IInv, TimerInv
<1>2. /\ Enter /\ UNCHANGED <<tasks, num_tasks, running, installing>>
      /\ dead = "no" /\ iflag' = FALSE
      /\ \/ PitIrq
         \/ UNCHANGED timerVars /\ dead' = "no"
         \/ UNCHANGED timerVars /\ dead' = "stray" /\ NextFrame.int_no = "wild"
  BY DEF Tick, Enter
<1>3. /\ UNCHANGED <<usec, copying, storing, act, previous>>
      /\ pit_sigaction' = pit_sigaction
      /\ tick_count' \in 0..(TickLimit - 1)
      /\ alarm' = alarm \/ alarm' = NoAlarm \/ alarm' = CallOf(pit_sigaction)
      /\ \/ dead' = "no"
         \/ dead' = "divide" /\ Asked /\ Divisor = 0
         \/ dead' = "stray" /\ NextFrame.int_no = "wild"
  <2>1. CASE PitIrq
    <3>1. Ticks \in 0..(TickLimit - 1)
      BY <1>1 DEF Ticks, TimerTypeOK
    <3>2. Reset(pit_sigaction) = pit_sigaction
      BY <1>1, ResetDoesNothing DEF TimerTypeOK
    <3> QED
      BY <2>1, <3>1, <3>2, <1>2 DEF PitIrq, itimerVars
  <2>2. CASE /\ UNCHANGED timerVars
             /\ dead' = "no" \/ (dead' = "stray" /\ NextFrame.int_no = "wild")
    BY <2>2, <1>1, <1>2 DEF timerVars, itimerVars, signalVars, TimerTypeOK
  <2> QED
    BY <2>1, <2>2, <1>2
<1>4. TasksInv'
  <2>1. DeadOK'
    BY <1>3 DEF DeadOK
  <2> QED
    BY <2>1, <1>1, <1>2, EnterKeeps
<1>5. TimerTypeOK'
  <2>1. alarm' \in [kind : {"none", "plain", "siginfo"}, function : Handlers \cup {NULL}]
    BY <1>1, <1>3, NoAlarmTyped, CallTyped DEF TimerTypeOK
  <2> QED
    BY <2>1, <1>1, <1>3 DEF TimerTypeOK
<1>6. SigactionStored' /\ IntervalStored'
  BY <1>1, <1>3 DEF SigactionStored, IntervalStored
<1>7. AlarmInHandler'
  <2>1. ~(stack'[running'] = <<>>)
    BY <1>2, <1>4 DEF TasksInv, HandlersDoNotNest
  <2> QED
    BY <2>1 DEF AlarmInHandler, InHandler
<1>8. AlarmIsCurrent'
  <2>1. CASE alarm' = CallOf(pit_sigaction) /\ alarm' # NoAlarm
    <3>1. \/ CallOf(pit_sigaction) = CallOf(act)
          \/ storing # "none" /\ CallOf(pit_sigaction) = CallOf(previous)
      BY <2>1, <1>1, StoredCall
    <3> QED
      BY <2>1, <3>1, <1>3 DEF AlarmIsCurrent, CallOf, Kind, FunctionOf, NoAlarm
  <2>2. CASE alarm' = NoAlarm
    BY <2>2 DEF AlarmIsCurrent, NoAlarm
  <2>3. CASE alarm' = alarm
    BY <2>3, <1>1, <1>3 DEF AlarmIsCurrent, CallOf, Kind, FunctionOf, NoAlarm
  <2> QED
    BY <2>1, <2>2, <2>3, <1>3
<1>9. StopsInCallOrFirstTurn'
  <2>1. ASSUME copying = NULL, dead' = "divide"
        PROVE  \E new \in Intervals \ {0} : 0 = new \div 100000
    BY <2>1, <1>1, <1>3 DEF IntervalStored, Asked, Divisor
  <2>2. ASSUME dead' = "stray"
        PROVE  FirstTurn'
    BY <2>2, <1>1, <1>2, <1>3, WildIsFresh
  <2> QED
    BY <2>1, <2>2, <1>3 DEF StopsInCallOrFirstTurn
<1> QED
  BY <1>4, <1>5, <1>6, <1>7, <1>8, <1>9 DEF IInv, TimerInv

LEMMA TickWildKeeps == ASSUME IInv, TickWild PROVE IInv'
<1> USE TasksAssumption
<1>1. TasksInv /\ TimerTypeOK /\ SigactionStored /\ AlarmInHandler /\ IntervalStored
      /\ AlarmIsCurrent
  BY DEF IInv, TimerInv
<1>2. dead' = "wild" /\ NoPointer /\ UNCHANGED taskVars /\ UNCHANGED timerVars
  BY DEF TickWild, EnterWild
<1>3. TasksInv'
  BY <1>1, <1>2, TasksStutter DEF DeadOK
<1>4. /\ UNCHANGED <<tick_count, usec, copying, pit_sigaction, storing, act, previous, alarm>>
      /\ UNCHANGED <<stack, running, installing>>
  BY <1>2 DEF timerVars, itimerVars, signalVars, taskVars
<1>5. TimerTypeOK' /\ SigactionStored' /\ IntervalStored' /\ AlarmInHandler'
  BY <1>1, <1>4 DEF TimerTypeOK, SigactionStored, IntervalStored, AlarmInHandler, InHandler
<1>6. AlarmIsCurrent'
  BY <1>1, <1>4 DEF AlarmIsCurrent, CallOf, Kind, FunctionOf, NoAlarm
<1>7. installing # NULL
  <2>1. num_tasks > 0 /\ tasks[NextIndex] = NULL
    BY <1>2 DEF NoPointer
  <2>2. /\ num_tasks \in 0..TOTAL_TASKS /\ current \in -1..(TOTAL_TASKS - 1)
        /\ current < num_tasks
    BY <1>1 DEF TasksInv, TasksTypeOK, CurrentRuns
  <2>3. NextIndex \in Counted
    BY <2>1, <2>2 DEF NextIndex, Counted
  <2>4. NextIndex \in Slots
    BY <2>2, <2>3 DEF Counted, Slots
  <2> QED
    BY <2>1, <2>3, <2>4, <1>1 DEF TasksInv, InstallingSound
<1>8. StopsInCallOrFirstTurn'
  BY <1>4, <1>7 DEF StopsInCallOrFirstTurn
<1> QED
  BY <1>3, <1>5, <1>6, <1>8 DEF IInv, TimerInv

LEMMA TickDoneKeeps == ASSUME IInv, TickDone PROVE IInv'
<1>1. TasksInv /\ TimerTypeOK /\ SigactionStored /\ IntervalStored
  BY DEF IInv, TimerInv
<1>2. /\ Leave /\ dead' = "no" /\ alarm' = NoAlarm
      /\ UNCHANGED <<tick_count, usec, copying, pit_sigaction, storing, act, previous>>
  BY DEF TickDone, Leave, itimerVars, signalVars
<1>3. TasksInv'
  BY <1>1, <1>2, LeaveKeeps
<1>4. TimerTypeOK' /\ SigactionStored' /\ IntervalStored'
  BY <1>1, <1>2, NoAlarmTyped DEF TimerTypeOK, SigactionStored, IntervalStored
<1>5. AlarmInHandler' /\ AlarmIsCurrent' /\ StopsInCallOrFirstTurn'
  BY <1>2 DEF AlarmInHandler, AlarmIsCurrent, StopsInCallOrFirstTurn, NoAlarm
<1> QED
  BY <1>3, <1>4, <1>5 DEF IInv, TimerInv

LEMMA SetitimerKeeps ==
    ASSUME IInv, NEW new \in Intervals, Setitimer(new) PROVE IInv'
<1> USE TasksAssumption, TimerAssumption
<1>1. TasksInv /\ TimerInv /\ TimerTypeOK /\ SigactionStored /\ IntervalStored
  BY DEF IInv, TimerInv
<1>2. /\ alarm = NoAlarm /\ dead = "no" /\ alarm' = alarm /\ dead' = dead
      /\ UNCHANGED <<taskVars, tick_count, pit_sigaction, storing, act, previous>>
      /\ usec' = Copied(usec, new, 1) /\ copying' = [new |-> new, next |-> 2]
  BY <1>1, ProgramHasNoAlarm DEF Setitimer, Idle, signalVars
<1>3. TasksInv'
  BY <1>1, <1>2, TasksStutter DEF DeadOK
<1>4. copying' \in Copies /\ copying' # NULL
  BY <1>2 DEF Copies
<1>5. usec' \in ThreeBytes
  <2>1. new \in ThreeBytes /\ usec \in ThreeBytes
    BY <1>1 DEF TimerTypeOK
  <2> QED
    BY <2>1, <1>2, CopiedInRange
<1>6. TimerTypeOK' /\ SigactionStored' /\ IntervalStored'
  BY <1>1, <1>2, <1>4, <1>5 DEF TimerTypeOK, SigactionStored, IntervalStored
<1> QED
  BY <1>1, <1>2, <1>3, <1>6, QuietStep DEF IInv

LEMMA CopyByteKeeps == ASSUME IInv, CopyByte PROVE IInv'
<1> USE TasksAssumption, TimerAssumption
<1>1. TasksInv /\ TimerInv /\ TimerTypeOK /\ SigactionStored /\ IntervalStored
  BY DEF IInv, TimerInv
<1>2. /\ alarm = NoAlarm /\ dead = "no" /\ alarm' = alarm /\ dead' = dead
      /\ UNCHANGED <<taskVars, tick_count, pit_sigaction, storing, act, previous>>
      /\ copying # NULL /\ usec' = Copied(usec, copying.new, copying.next)
      /\ copying' = IF copying.next = 3 THEN NULL ELSE [copying EXCEPT !.next = @ + 1]
  BY <1>1, ProgramHasNoAlarm DEF CopyByte, signalVars
<1>3. TasksInv'
  BY <1>1, <1>2, TasksStutter DEF DeadOK
<1>4. /\ copying \in Copies /\ copying.new \in Intervals /\ copying.next \in 2..3
      /\ usec \in ThreeBytes /\ copying.new \in ThreeBytes
  BY <1>1, <1>2 DEF TimerTypeOK, Copies
<1>5. usec' \in ThreeBytes /\ (copying.next = 3 => usec' \in Intervals)
  <2>1. copying.next \in 1..3
    BY <1>4
  <2> QED
    BY <2>1, <1>2, <1>4, CopiedInRange
<1>6. copying' \in Copies \cup {NULL} /\ (copying.next = 2 => copying' # NULL)
  BY <1>2, <1>4 DEF Copies
<1>7. TimerTypeOK' /\ SigactionStored' /\ IntervalStored'
  BY <1>1, <1>2, <1>4, <1>5, <1>6 DEF TimerTypeOK, SigactionStored, IntervalStored
<1> QED
  BY <1>1, <1>2, <1>3, <1>7, QuietStep DEF IInv

LEMMA SigactionCallKeeps ==
    ASSUME IInv, NEW a \in Actions, SigactionCall(a) PROVE IInv'
<1> USE TasksAssumption, TimerAssumption
<1>1. TasksInv /\ TimerInv /\ TimerTypeOK /\ SigactionStored /\ IntervalStored
  BY DEF IInv, TimerInv
<1>2. /\ alarm = NoAlarm /\ dead = "no" /\ alarm' = alarm /\ dead' = dead
      /\ UNCHANGED <<taskVars, tick_count, usec, copying>>
      /\ storing = "none" /\ storing' = "sa_sigaction" /\ act' = a /\ previous' = act
      /\ pit_sigaction' = [pit_sigaction EXCEPT !.sa_handler = a.sa_handler]
  BY <1>1, ProgramHasNoAlarm DEF SigactionCall, Idle, itimerVars
<1>3. TasksInv'
  BY <1>1, <1>2, TasksStutter DEF DeadOK
<1>4. a \in Sigaction
  OBVIOUS
<1>5. TimerTypeOK'
  BY <1>1, <1>2, <1>4 DEF TimerTypeOK, Sigaction
<1>6. SigactionStored' /\ IntervalStored'
  BY <1>1, <1>2 DEF SigactionStored, IntervalStored
<1> QED
  BY <1>1, <1>2, <1>3, <1>5, <1>6, QuietStep DEF IInv

LEMMA StoreKeeps == ASSUME IInv, StoreSigaction \/ StoreFlags PROVE IInv'
<1> USE TasksAssumption, TimerAssumption
<1>1. TasksInv /\ TimerInv /\ TimerTypeOK /\ SigactionStored /\ IntervalStored
  BY DEF IInv, TimerInv
<1>2. /\ alarm = NoAlarm /\ dead = "no" /\ alarm' = alarm /\ dead' = dead
      /\ UNCHANGED <<taskVars, tick_count, usec, copying, act, previous>>
  BY <1>1, ProgramHasNoAlarm DEF StoreSigaction, StoreFlags, itimerVars
<1>3. TasksInv'
  BY <1>1, <1>2, TasksStutter DEF DeadOK
<1>4. \/ /\ storing = "sa_sigaction" /\ storing' = "sa_flags"
         /\ pit_sigaction' = [pit_sigaction EXCEPT !.sa_sigaction = act.sa_sigaction]
      \/ /\ storing = "sa_flags" /\ storing' = "none"
         /\ pit_sigaction' = [pit_sigaction EXCEPT !.sa_flags = act.sa_flags]
  BY DEF StoreSigaction, StoreFlags
<1>5. TimerTypeOK'
  BY <1>1, <1>2, <1>4 DEF TimerTypeOK, Sigaction
<1>6. SigactionStored' /\ IntervalStored'
  BY <1>1, <1>2, <1>4 DEF SigactionStored, IntervalStored
<1> QED
  BY <1>1, <1>2, <1>3, <1>5, <1>6, QuietStep DEF IInv

LEMMA InstallTaskKeeps == ASSUME IInv, InstallTask PROVE IInv'
<1>1. TasksInv /\ TimerInv /\ TimerTypeOK /\ SigactionStored /\ IntervalStored
  BY DEF IInv, TimerInv
<1>2. UNCHANGED <<tick_count, usec, copying, pit_sigaction, storing, act, previous, alarm>>
  BY DEF InstallTask, timerVars, itimerVars, signalVars
<1>3. alarm = NoAlarm /\ dead = "no" /\ dead' = dead
  BY <1>1, ProgramHasNoAlarm DEF InstallTask, Install, InstallStore
<1>4. TasksInv'
  BY <1>1, InstallKeeps, InstallStoreKeeps DEF InstallTask
<1>5. TimerTypeOK' /\ SigactionStored' /\ IntervalStored'
  BY <1>1, <1>2 DEF TimerTypeOK, SigactionStored, IntervalStored
<1> QED
  BY <1>1, <1>2, <1>3, <1>4, <1>5, QuietStep DEF IInv

LEMMA StutterKeeps == ASSUME IInv, UNCHANGED vars PROVE IInv'
<1>1. TasksInv /\ TimerInv
  BY DEF IInv
<1>2. /\ UNCHANGED <<tick_count, usec, copying, pit_sigaction, storing, act, previous, alarm>>
      /\ UNCHANGED <<stack, running, installing, dead>> /\ UNCHANGED taskVars
  BY DEF vars, taskVars, timerVars, itimerVars, signalVars
<1>3. TasksInv'
  BY <1>1, <1>2, TasksStutter DEF DeadOK, TasksInv, TasksTypeOK
<1>4. TimerInv'
  <2>1. TimerTypeOK' /\ SigactionStored' /\ IntervalStored' /\ AlarmInHandler'
    BY <1>1, <1>2 DEF TimerInv, TimerTypeOK, SigactionStored, IntervalStored,
       AlarmInHandler, InHandler
  <2>2. AlarmIsCurrent'
    BY <1>1, <1>2 DEF TimerInv, AlarmIsCurrent, CallOf, Kind, FunctionOf, NoAlarm
  <2>3. StopsInCallOrFirstTurn'
    BY <1>1, <1>2 DEF TimerInv, StopsInCallOrFirstTurn, FirstTurn, InHandler, Picked
  <2> QED
    BY <2>1, <2>2, <2>3 DEF TimerInv
<1> QED
  BY <1>3, <1>4 DEF IInv

LEMMA NextKeeps == ASSUME IInv, [Next]_vars PROVE IInv'
<1>1. CASE Tick \/ TickWild \/ TickDone
  BY <1>1, TickKeeps, TickWildKeeps, TickDoneKeeps
<1>2. CASE (\E new \in Intervals : Setitimer(new)) \/ CopyByte
  BY <1>2, SetitimerKeeps, CopyByteKeeps
<1>3. CASE (\E a \in Actions : SigactionCall(a)) \/ StoreSigaction \/ StoreFlags
  BY <1>3, SigactionCallKeeps, StoreKeeps
<1>4. CASE InstallTask
  BY <1>4, InstallTaskKeeps
<1>5. CASE UNCHANGED vars
  BY <1>5, StutterKeeps
<1> QED
  BY <1>1, <1>2, <1>3, <1>4, <1>5 DEF Next

LEMMA Invariance == Spec => []IInv
<1>1. Init => IInv
  BY InitKeeps
<1>2. IInv /\ [Next]_vars => IInv'
  BY NextKeeps
<1> QED
  BY <1>1, <1>2, PTL DEF Spec

-----------------------------------------------------------------------------
(* The theorems.                                                           *)

\* The variables of timer and tasks have their types, in pit.c, time.c, signal.c
\* and task.c alike: counts stay in the table, the tick count in its width.
THEOREM TimerTypeCorrect == Spec => []TypeOK
<1>1. IInv => TypeOK
  BY DEF IInv, TasksInv, TimerInv, TimerTypeOK, TypeOK
<1> QED
  BY <1>1, Invariance, PTL

\* irq_common_stub never resumes a task from a frame on the stack of another,
\* however many tasks there are and whenever they are installed.
THEOREM TasksResumeOnOwnStack == Spec => []ResumedOnOwnStack
<1>1. IInv => ResumedOnOwnStack
  BY DEF IInv, TasksInv, OthersWait, WaitsAt, ResumedOnOwnStack
<1> QED
  BY <1>1, Invariance, PTL

\* pit_irq never calls a mixture of two sigactions, whichever of its fields
\* signal.c has stored when the tick comes.
THEOREM AlarmStaysCurrent == Spec => []AlarmIsCurrent
<1>1. IInv => AlarmIsCurrent
  BY DEF IInv, TimerInv
<1> QED
  BY <1>1, Invariance, PTL

\* The timer brings the kernel down only between two bytes of setitimer, between
\* two stores of install_task, or at the first turn of a task, whose frame holds an
\* interrupt number that task.c never sets; for any set of intervals of at least
\* 100000.
THEOREM OnlyCallsAndFirstTurnsStopTheKernel == Spec => []StopsInCallOrFirstTurn
<1>1. IInv => StopsInCallOrFirstTurn
  BY DEF IInv, TimerInv
<1> QED
  BY <1>1, Invariance, PTL
=============================================================================
