------------------------- MODULE InterruptsProofs --------------------------
(***************************************************************************)
(* Proofs about Interrupts.tla, for every set of lines and every depth to  *)
(* which handlers nest.                                                    *)
(***************************************************************************)
EXTENDS Interrupts, SequenceTheorems, TLAPS

-----------------------------------------------------------------------------
(* The inductive invariant.                                                *)

Unfinished == {"eoi", "handler"}

\* What a dispatch finds is set up: the gates and the lines' own vectors once
\* kernel_main has got that far, and the keyboard's handler.
SetUp ==
    /\ boot \in {"pic", "pit", "drain", "status", "register", "enable", "run"} => idt = "isrs"
    /\ boot \in {"pit", "drain", "status", "register", "enable", "run"} => remapped
    /\ boot \in {"enable", "run"} => isr_handlers[1] = "keyboard"

\* Before the lines have their own vectors, no dispatch of theirs has begun.
OnlyRemapped == ~remapped =>
    \A k \in 1..Len(frames) : frames[k].at \notin Unfinished

IInv == TypeOK /\ SetUp /\ OnlyRemapped /\ NothingLeftInService /\ EoiBeforeNesting

Frame == [irq : Irqs, at : {"eoi", "handler", "print", "signal", "iret"}]

-----------------------------------------------------------------------------
(* Lemmas about the stack of handlers.                                     *)

LEMMA TopTyped ==
    ASSUME TypeOK, frames # <<>>
    PROVE  /\ Len(frames) \in Nat \ {0}
           /\ Top = frames[Len(frames)]
           /\ Top \in Frame
           /\ frames \in Seq(Frame)
<1>1. frames \in Seq(Frame)
  BY DEF TypeOK, Frames, Frame
<1>2. Len(frames) \in Nat /\ Len(frames) # 0
  BY <1>1, EmptySeq
<1> QED
  BY <1>1, <1>2 DEF Top

\* Goto changes the innermost frame and no other.
LEMMA GotoFrames ==
    ASSUME TypeOK, frames # <<>>, NEW at \in {"eoi", "handler", "print", "signal", "iret"},
           Goto(at)
    PROVE  /\ frames' \in Seq(Frame) /\ frames' # <<>>
           /\ Len(frames') = Len(frames)
           /\ \A k \in 1..(Len(frames) - 1) : frames'[k] = frames[k]
           /\ Top' = frames'[Len(frames)]
           /\ Top'.irq = Top.irq /\ Top'.at = at
<1> DEFINE n == Len(frames)
<1>1. n \in Nat \ {0} /\ Top = frames[n] /\ Top \in Frame /\ frames \in Seq(Frame)
  BY TopTyped
<1>2. frames' = [frames EXCEPT ![n] = [Top EXCEPT !.at = at]]
  BY <1>1 DEF Goto
<1>3. [Top EXCEPT !.at = at] \in Frame /\ [Top EXCEPT !.at = at].irq = Top.irq
      /\ [Top EXCEPT !.at = at].at = at
  BY <1>1 DEF Frame
<1> DEFINE f == [Top EXCEPT !.at = at]
<1> HIDE DEF f
<1>4. frames' = [frames EXCEPT ![n] = f] /\ f \in Frame /\ f.irq = Top.irq /\ f.at = at
  BY <1>2, <1>3 DEF f
<1>5. frames' \in Seq(Frame) /\ Len(frames') = n
  BY <1>1, <1>4
<1>6. \A k \in 1..n : frames'[k] = IF k = n THEN f ELSE frames[k]
  BY <1>1, <1>4
<1>7. frames' # <<>>
  BY <1>1, <1>5
<1>8. Top' = frames'[Len(frames)]
  BY <1>5 DEF Top
<1> QED
  BY <1>1, <1>4, <1>5, <1>6, <1>7, <1>8

-----------------------------------------------------------------------------
(* The steps.                                                              *)

LEMMA InitKeeps == ASSUME Init PROVE IInv
<1> USE InterruptsAssumption
<1>1. TypeOK
  <2>1. frames \in Frames /\ parked \in Frames
    BY DEF Init, Frames
  <2>2. isr_handlers \in [Irqs -> {"none", "default", "pit", "keyboard"}]
    BY DEF Init
  <2> QED
    BY <2>1, <2>2 DEF Init, TypeOK
<1>2. SetUp /\ OnlyRemapped /\ NothingLeftInService /\ EoiBeforeNesting
  BY DEF Init, SetUp, OnlyRemapped, NothingLeftInService, EoiBeforeNesting
<1> QED
  BY <1>1, <1>2 DEF IInv

\* A step of kernel_main finds no handler, so only the tables count.
LEMMA BootKeeps == ASSUME IInv, Boot PROVE IInv'
<1> USE InterruptsAssumption
<1>1. TypeOK /\ SetUp /\ NothingLeftInService /\ EoiBeforeNesting
  BY DEF IInv
<1>2. frames = <<>> /\ ~dead /\ UNCHANGED <<dead, frames, parked>>
  BY DEF Boot, Step, DisableInterrupts, ClearScreen, IdtInit, IsrInit, PicInit, PitInit,
         KeyboardDrain, KeyboardStatus, KeyboardRegister, EnableInterrupts
<1>3. /\ boot' \in {"screen", "idt", "isr", "pic", "pit", "drain", "status", "register",
                   "enable", "run"}
      /\ iflag' \in BOOLEAN /\ outbuf' \in BOOLEAN /\ idt' \in {"none", "empty", "isrs"}
      /\ irr' \subseteq Irqs
  BY <1>1 DEF TypeOK, Boot, Step, DisableInterrupts, ClearScreen, IdtInit, IsrInit, PicInit,
         PitInit, KeyboardDrain, KeyboardStatus, KeyboardRegister, EnableInterrupts,
         tables, pics
<1>4. \/ UNCHANGED <<remapped, inservice>>
      \/ remapped' = TRUE /\ inservice' = {}
  BY DEF Boot, DisableInterrupts, ClearScreen, IdtInit, IsrInit, PicInit, PitInit,
         KeyboardDrain, KeyboardStatus, KeyboardRegister, EnableInterrupts, pics
<1>5. isr_handlers' \in [Irqs -> {"none", "default", "pit", "keyboard"}]
  BY <1>1 DEF TypeOK, Boot, DisableInterrupts, ClearScreen, IdtInit, IsrInit, PicInit,
         PitInit, KeyboardDrain, KeyboardStatus, KeyboardRegister, EnableInterrupts, tables
<1>6. TypeOK'
  BY <1>1, <1>2, <1>3, <1>4, <1>5 DEF TypeOK
<1>7. SetUp'
  BY <1>1 DEF TypeOK, SetUp, Boot, Step, DisableInterrupts, ClearScreen, IdtInit, IsrInit,
         PicInit, PitInit, KeyboardDrain, KeyboardStatus, KeyboardRegister,
         EnableInterrupts, tables, pics
<1>8. OnlyRemapped' /\ EoiBeforeNesting'
  BY <1>1, <1>2 DEF OnlyRemapped, EoiBeforeNesting
<1>9. NothingLeftInService'
  BY <1>1, <1>2, <1>4 DEF NothingLeftInService
<1> QED
  BY <1>6, <1>7, <1>8, <1>9 DEF IInv

LEMMA DevicesKeep == ASSUME IInv, Devices PROVE IInv'
<1> USE InterruptsAssumption
<1>1. TypeOK /\ SetUp /\ OnlyRemapped /\ NothingLeftInService /\ EoiBeforeNesting
  BY DEF IInv
<1>2. /\ UNCHANGED <<boot, dead, iflag, idt, isr_handlers, remapped, inservice, frames, parked>>
      /\ irr' \subseteq Irqs /\ outbuf' \in BOOLEAN
  BY <1>1 DEF TypeOK, Devices, RaiseTimer, RaiseKeyboard, RaiseOther, tables
<1>3. TypeOK' /\ SetUp'
  BY <1>1, <1>2 DEF TypeOK, SetUp
<1>4. OnlyRemapped' /\ NothingLeftInService' /\ EoiBeforeNesting'
  BY <1>1, <1>2 DEF OnlyRemapped, NothingLeftInService, EoiBeforeNesting, Top
<1> QED
  BY <1>3, <1>4 DEF IInv

\* A line is delivered when no dispatch is unfinished, so nothing is in service.
LEMMA DeliverKeeps == ASSUME IInv, NEW i \in Irqs, Deliver(i) PROVE IInv'
<1> USE InterruptsAssumption
<1>1. TypeOK /\ SetUp /\ OnlyRemapped /\ NothingLeftInService /\ EoiBeforeNesting
  BY DEF IInv
<1>2. /\ iflag /\ ~dead /\ iflag' = FALSE
      /\ irr' = irr \ {i} /\ inservice' = inservice \cup ServiceBits(i)
      /\ \/ Usable(i) /\ dead' = dead /\ frames' = Append(frames, FrameOf(i))
         \/ ~Usable(i) /\ dead' = TRUE /\ frames' = frames
      /\ UNCHANGED <<boot, idt, isr_handlers, remapped, outbuf, parked>>
  BY DEF Deliver, tables
<1>3. ServiceBits(i) \subseteq Irqs \cup {2}
  BY DEF ServiceBits
<1>4. frames \in Seq(Frame) /\ FrameOf(i) \in Frame /\ FrameOf(i).irq = i
      /\ FrameOf(i).at = IF remapped THEN "eoi" ELSE "print"
  BY <1>1 DEF TypeOK, Frames, Frame, FrameOf
<1>5. \A k \in 1..Len(frames) : frames[k].at \notin Unfinished
  BY <1>1, <1>2 DEF EoiBeforeNesting, Unfinished
<1>6. CASE dead' = TRUE /\ frames' = frames
  <2>1. TypeOK' /\ SetUp'
    BY <1>1, <1>2, <1>3, <1>6 DEF TypeOK, SetUp
  <2>2. OnlyRemapped' /\ NothingLeftInService' /\ EoiBeforeNesting'
    BY <1>1, <1>2, <1>5, <1>6
    DEF OnlyRemapped, NothingLeftInService, EoiBeforeNesting, Unfinished
  <2> QED
    BY <2>1, <2>2 DEF IInv
<1>7. CASE dead' = dead /\ frames' = Append(frames, FrameOf(i))
  <2> DEFINE n == Len(frames)
             f == FrameOf(i)
  <2>1. n \in Nat
    BY <1>4
  <2> HIDE DEF f
  <2>2. /\ frames' \in Seq(Frame) /\ Len(frames') = n + 1 /\ frames' # <<>>
        /\ frames'[n + 1] = f /\ \A k \in 1..n : frames'[k] = frames[k]
    BY <1>4, <1>7 DEF f
  <2>3. Top' = f
    BY <2>2 DEF Top
  <2>4. TypeOK'
    BY <1>1, <1>2, <1>3, <1>7, <2>2 DEF TypeOK, Frames, Frame
  <2>5. SetUp'
    BY <1>1, <1>2 DEF SetUp
  <2>6. \A k \in 1..Len(frames') : k # Len(frames') => frames'[k].at \notin Unfinished
    BY <1>5, <2>1, <2>2
  <2>7. OnlyRemapped'
    BY <1>2, <1>4, <1>5, <2>1, <2>2, <2>6 DEF OnlyRemapped, Unfinished, f
  <2>8. EoiBeforeNesting'
    BY <1>1, <1>2, <2>6 DEF EoiBeforeNesting, Unfinished
  <2>9. NothingLeftInService'
    <3>1. remapped => inservice = {}
      <4>1. frames # <<>> => Top.at # "eoi"
        BY <1>1, <1>5, TopTyped DEF Unfinished
      <4> QED
        BY <1>1, <1>2, <4>1 DEF NothingLeftInService
    <3>2. remapped => inservice' = ServiceBits(i)
      BY <1>2, <3>1
    <3>3. remapped' => Top'.at = "eoi" /\ Top'.irq = i
      BY <1>2, <1>4, <2>3 DEF f
    <3> QED
      BY <1>2, <2>2, <3>2, <3>3 DEF NothingLeftInService
  <2> QED
    BY <2>4, <2>5, <2>7, <2>8, <2>9 DEF IInv
<1> QED
  BY <1>2, <1>6, <1>7

\* A step that moves the innermost handler on, past its EOI.
LEMMA GotoKeeps ==
    ASSUME IInv, frames # <<>>, ~dead,
           NEW at \in {"handler", "print", "signal", "iret"}, Goto(at),
           at = "handler" => ~iflag' /\ remapped,
           UNCHANGED <<boot, dead, idt, isr_handlers, remapped, irr, parked>>,
           iflag' \in BOOLEAN, outbuf' \in BOOLEAN, inservice' \subseteq Irqs \cup {2},
           remapped => inservice' = {}
    PROVE  IInv'
<1> DEFINE n == Len(frames)
<1>1. TypeOK /\ SetUp /\ OnlyRemapped /\ EoiBeforeNesting
  BY DEF IInv
<1>2. /\ frames' \in Seq(Frame) /\ frames' # <<>> /\ Len(frames') = n
      /\ \A k \in 1..(n - 1) : frames'[k] = frames[k]
      /\ Top' = frames'[n] /\ Top'.at = at
  BY <1>1, GotoFrames
<1>3. n \in Nat \ {0}
  BY <1>1, TopTyped
<1>4. \A k \in 1..(n - 1) : frames'[k].at \notin Unfinished
  BY <1>1, <1>2, <1>3 DEF EoiBeforeNesting, Unfinished
<1>5. frames'[n].at = at
  BY <1>2
<1> HIDE DEF n
<1>6. TypeOK' /\ SetUp'
  BY <1>1, <1>2 DEF TypeOK, SetUp, Frames, Frame
<1>7. OnlyRemapped'
  BY <1>2, <1>3, <1>4, <1>5 DEF OnlyRemapped, Unfinished
<1>8. NothingLeftInService'
  BY <1>2 DEF NothingLeftInService
<1>9. EoiBeforeNesting'
  BY <1>1, <1>2, <1>3, <1>4, <1>5 DEF EoiBeforeNesting, Unfinished
<1> QED
  BY <1>6, <1>7, <1>8, <1>9 DEF IInv

\* What a running handler may count on.
LEMMA RunningHandler ==
    ASSUME IInv, NEW at \in {"eoi", "handler", "print", "signal", "iret"}, Running(at)
    PROVE  /\ frames # <<>> /\ ~dead /\ Top.at = at /\ Top \in Frame
           /\ at \in Unfinished => ~iflag /\ remapped
           /\ remapped /\ at # "eoi" => inservice = {}
           /\ remapped /\ at = "eoi" => inservice = ServiceBits(Top.irq)
<1>1. TypeOK /\ OnlyRemapped /\ NothingLeftInService /\ EoiBeforeNesting
  BY DEF IInv
<1>2. frames # <<>> /\ ~dead /\ Top.at = at
  BY DEF Running
<1>3. Len(frames) \in 1..Len(frames) /\ Top = frames[Len(frames)] /\ Top \in Frame
  BY <1>1, <1>2, TopTyped
<1>4. at \in Unfinished => ~iflag /\ remapped
  BY <1>1, <1>2, <1>3 DEF EoiBeforeNesting, OnlyRemapped, Unfinished
<1> QED
  BY <1>1, <1>2, <1>3, <1>4 DEF NothingLeftInService

\* The two PICs' EOIs undo what the delivery of the line did.
LEMMA EoiEndsService ==
    ASSUME NEW i \in Irqs, inservice = ServiceBits(i)
    PROVE  LET master == {j \in inservice : ~IsSlave(j)}
               slave  == {j \in inservice : IsSlave(j)}
           IN  AfterEoi(master) \cup (IF IsSlave(i) THEN AfterEoi(slave) ELSE slave) = {}
<1> DEFINE master == {j \in inservice : ~IsSlave(j)}
           slave  == {j \in inservice : IsSlave(j)}
<1>1. ASSUME NEW x \in Int PROVE AfterEoi({x}) = {}
  <2>1. Lowest({x}) = x
    BY DEF Lowest
  <2> QED
    BY <2>1 DEF AfterEoi
<1>2. i \in Int
  BY InterruptsAssumption
<1>3. CASE IsSlave(i)
  <2>1. master = {2} /\ slave = {i}
    BY <1>2, <1>3 DEF ServiceBits, IsSlave
  <2> QED
    BY <2>1, <1>1, <1>2, <1>3
<1>4. CASE ~IsSlave(i)
  <2>1. master = {i} /\ slave = {}
    BY <1>2, <1>4 DEF ServiceBits, IsSlave
  <2> QED
    BY <2>1, <1>1, <1>2, <1>4
<1> QED
  BY <1>3, <1>4

LEMMA EoiKeeps == ASSUME IInv, Eoi PROVE IInv'
<1>1. /\ Running("eoi") /\ Goto("handler")
      /\ UNCHANGED <<boot, dead, iflag, idt, isr_handlers, remapped, irr, outbuf, parked>>
  BY DEF Eoi, tables
<1>2. /\ frames # <<>> /\ ~dead /\ ~iflag /\ remapped /\ Top.irq \in Irqs
      /\ inservice = ServiceBits(Top.irq)
  BY <1>1, RunningHandler DEF Unfinished, Frame
<1>3. inservice' = {}
  BY <1>2, EoiEndsService DEF Eoi
<1>4. iflag' \in BOOLEAN /\ outbuf' \in BOOLEAN
  BY <1>1 DEF IInv, TypeOK
<1> QED
  BY <1>1, <1>2, <1>3, <1>4, GotoKeeps

\* The handler itself, its printing and a signal handler that returns.
LEMMA HandlerKeeps ==
    ASSUME IInv, Handler \/ UpdateCursor \/ SignalReturns PROVE IInv'
<1>1. PICK at \in {"handler", "print", "signal"} : Running(at)
  BY DEF Handler, UpdateCursor, SignalReturns
<1>2. PICK to \in {"print", "signal", "iret"} : Goto(to)
  BY DEF Handler, UpdateCursor, SignalReturns
<1>3. /\ UNCHANGED <<boot, dead, idt, isr_handlers, remapped, irr, inservice, parked>>
      /\ iflag' \in BOOLEAN /\ outbuf' \in BOOLEAN
  BY DEF Handler, UpdateCursor, SignalReturns, tables, pics, IInv, TypeOK
<1>4. frames # <<>> /\ ~dead /\ (remapped => inservice = {})
  BY <1>1, RunningHandler
<1>5. inservice \subseteq Irqs \cup {2}
  BY DEF IInv, TypeOK
<1> QED
  BY <1>2, <1>3, <1>4, <1>5, GotoKeeps

\* Stacks of handlers that have all got past their EOI may be exchanged, dropped
\* and cut back as one likes.
FinishedStack(fs) == fs \in Seq(Frame) /\ \A k \in 1..Len(fs) : fs[k].at \notin Unfinished

LEMMA FinishedKeeps ==
    ASSUME IInv, FinishedStack(frames'), FinishedStack(parked'), remapped => inservice = {},
           UNCHANGED <<boot, dead, idt, isr_handlers, remapped, irr, inservice, outbuf>>,
           iflag' \in BOOLEAN
    PROVE  IInv'
<1>1. TypeOK /\ SetUp
  BY DEF IInv
<1>2. TypeOK' /\ SetUp'
  BY <1>1 DEF TypeOK, SetUp, FinishedStack, Frames, Frame
<1>3. OnlyRemapped' /\ EoiBeforeNesting'
  BY DEF OnlyRemapped, EoiBeforeNesting, FinishedStack, Unfinished
<1>4. NothingLeftInService'
  <2>1. frames' # <<>> => Top'.at # "eoi"
    <3>1. frames' # <<>> => Len(frames') \in 1..Len(frames')
      BY EmptySeq DEF FinishedStack
    <3> QED
      BY <3>1 DEF FinishedStack, Unfinished, Top
  <2> QED
    BY <2>1 DEF NothingLeftInService
<1> QED
  BY <1>2, <1>3, <1>4 DEF IInv

\* A handler that has got past its EOI: all of its stack has.
LEMMA RunningFinished ==
    ASSUME IInv, NEW at \in {"print", "signal", "iret"}, Running(at)
    PROVE  FinishedStack(frames) /\ Len(frames) \in Nat \ {0}
<1>1. TypeOK /\ EoiBeforeNesting /\ frames # <<>> /\ Top.at = at
  BY DEF IInv, Running
<1>2. Len(frames) \in Nat \ {0} /\ frames \in Seq(Frame) /\ frames[Len(frames)].at = at
  BY <1>1, TopTyped
<1> QED
  BY <1>1, <1>2 DEF EoiBeforeNesting, FinishedStack, Unfinished

LEMMA ParkedFinished == ASSUME IInv PROVE FinishedStack(parked)
BY DEF IInv, TypeOK, EoiBeforeNesting, FinishedStack, Frames, Frame, Unfinished

LEMMA EmptyFinished == FinishedStack(<<>>)
BY DEF FinishedStack

LEMMA SwapsKeep ==
    ASSUME IInv, SignalSwaps \/ SignalLeaves \/ ProgramSwaps PROVE IInv'
<1>1. /\ UNCHANGED <<boot, dead, idt, isr_handlers, remapped, irr, inservice, outbuf>>
      /\ iflag' \in BOOLEAN
  BY DEF SignalSwaps, SignalLeaves, ProgramSwaps, tables, pics
<1>2. CASE SignalSwaps
  <2>1. Running("signal") /\ frames' = parked
    BY <1>2 DEF SignalSwaps
  <2>2. FinishedStack(frames') /\ (remapped => inservice = {})
    BY <2>1, ParkedFinished, RunningHandler
  <2>3. FinishedStack(parked')
    <3> DEFINE n == Len(frames)
               f == [Top EXCEPT !.at = "iret"]
    <3>1. FinishedStack(frames) /\ n \in Nat \ {0} /\ Top \in Frame
      BY <2>1, RunningFinished, RunningHandler
    <3>2. f \in Frame /\ f.at = "iret"
      BY <3>1 DEF Frame
    <3>3. parked' = [frames EXCEPT ![n] = f]
      BY <1>2 DEF SignalSwaps, Top
    <3> HIDE DEF f
    <3>4. /\ parked' \in Seq(Frame) /\ Len(parked') = n
          /\ \A k \in 1..n : parked'[k] = IF k = n THEN f ELSE frames[k]
      BY <3>1, <3>2, <3>3 DEF FinishedStack
    <3> QED
      BY <3>1, <3>2, <3>4 DEF FinishedStack, Unfinished
  <2> QED
    BY <1>1, <2>2, <2>3, FinishedKeeps
<1>3. CASE SignalLeaves
  <2>1. Running("signal") /\ frames' = <<>> /\ parked' = parked
    BY <1>3 DEF SignalLeaves
  <2> QED
    BY <1>1, <2>1, EmptyFinished, ParkedFinished, RunningHandler, FinishedKeeps
<1>4. CASE ProgramSwaps
  <2>1. ~dead /\ frames = <<>> /\ frames' = parked /\ parked' = <<>>
    BY <1>4 DEF ProgramSwaps
  <2>2. remapped => inservice = {}
    BY <2>1 DEF IInv, NothingLeftInService
  <2> QED
    BY <1>1, <2>1, <2>2, EmptyFinished, ParkedFinished, FinishedKeeps
<1> QED
  BY <1>2, <1>3, <1>4

LEMMA IretKeeps == ASSUME IInv, Iret PROVE IInv'
<1> DEFINE n == Len(frames)
<1>1. Running("iret") /\ frames' = SubSeq(frames, 1, n - 1)
  BY DEF Iret
<1>2. FinishedStack(frames) /\ n \in Nat \ {0}
  BY <1>1, RunningFinished
<1>3. /\ frames' \in Seq(Frame) /\ Len(frames') = n - 1
      /\ \A k \in 1..(n - 1) : frames'[k] = frames[k]
  <2>1. \A k \in 1..(n - 1) : frames[k] \in Frame
    BY <1>2 DEF FinishedStack
  <2>2. n - 1 \in Nat
    BY <1>2
  <2> DEFINE m == n - 1
  <2> HIDE DEF m, n
  <2>3. /\ SubSeq(frames, 1, m) \in Seq(Frame)
        /\ Len(SubSeq(frames, 1, m)) = m
        /\ \A k \in 1..m : SubSeq(frames, 1, m)[k] = frames[k]
    <3>1. m \in Nat /\ \A k \in 1..m : frames[k] \in Frame
      BY <2>1, <2>2 DEF m
    <3>2. /\ SubSeq(frames, 1, m) \in Seq(Frame)
          /\ Len(SubSeq(frames, 1, m)) = IF 1 <= m THEN m - 1 + 1 ELSE 0
          /\ \A k \in 1..(m - 1 + 1) : SubSeq(frames, 1, m)[k] = frames[1 + k - 1]
      BY <3>1, SubSeqProperties
    <3> QED
      BY <3>1, <3>2
  <2> QED
    BY <2>3, <1>1 DEF m
<1>4. FinishedStack(frames')
  BY <1>2, <1>3 DEF FinishedStack
<1>5. /\ UNCHANGED <<boot, dead, idt, isr_handlers, remapped, irr, inservice, outbuf, parked>>
      /\ iflag' \in BOOLEAN
  BY DEF Iret, tables, pics
<1> QED
  BY <1>1, <1>4, <1>5, ParkedFinished, RunningHandler, FinishedKeeps

LEMMA StutterKeeps == ASSUME IInv, UNCHANGED vars PROVE IInv'
BY DEF IInv, vars, tables, pics, TypeOK, SetUp, OnlyRemapped, NothingLeftInService,
       EoiBeforeNesting, Top

LEMMA NextKeeps == ASSUME IInv, [Next]_vars PROVE IInv'
<1>1. CASE Dispatch
  BY <1>1, EoiKeeps, HandlerKeeps, SwapsKeep, IretKeeps DEF Dispatch
<1>2. CASE Boot \/ Devices
  BY <1>2, BootKeeps, DevicesKeep
<1>3. CASE (\E i \in Irqs : Deliver(i)) \/ ProgramSwaps
  BY <1>3, DeliverKeeps, SwapsKeep
<1>4. CASE UNCHANGED vars
  BY <1>4, StutterKeeps
<1> QED
  BY <1>1, <1>2, <1>3, <1>4 DEF Next

LEMMA Invariance == Spec => []IInv
<1>1. Init => IInv
  BY InitKeeps
<1>2. IInv /\ [Next]_vars => IInv'
  BY NextKeeps
<1> QED
  BY <1>1, <1>2, PTL DEF Spec

-----------------------------------------------------------------------------
(* No key gets stuck.                                                      *)

\* The keyboard's handler is on its way.
Fetching == frames # <<>> /\ Top.irq = 1 /\ Top.at \in Unfinished

Waiting == outbuf /\ 1 \notin irr /\ ~Fetching

LEMMA StuckMeans == IInv => (KeyStuck <=> Waiting)
<1> SUFFICES ASSUME IInv PROVE KeyStuck <=> Waiting
  OBVIOUS
<1> USE DEF Waiting
<1>1. TypeOK /\ EoiBeforeNesting
  BY DEF IInv
<1>2. \A k \in 1..Len(parked) : parked[k].at \notin Unfinished
  BY <1>1 DEF EoiBeforeNesting, Unfinished
<1>3. \A k \in 1..Len(frames) : frames[k].at \in Unfinished => k = Len(frames)
  BY <1>1 DEF EoiBeforeNesting, Unfinished
<1>4. CASE frames = <<>>
  <2>1. Len(frames) = 0
    BY <1>4
  <2> QED
    BY <2>1, <1>2, <1>4 DEF KeyStuck, Fetching, Unfinished
<1>5. CASE frames # <<>>
  <2>1. Len(frames) \in Nat \ {0} /\ Top = frames[Len(frames)]
    BY <1>1, <1>5, TopTyped
  <2> QED
    BY <2>1, <1>2, <1>3, <1>5 DEF KeyStuck, Fetching, Unfinished
<1> QED
  BY <1>4, <1>5

\* So it does after a step.
LEMMA StuckMeansNext == (IInv => (KeyStuck <=> Waiting))'
BY StuckMeans, PTL

LEMMA NotStuckNext == ASSUME IInv', ~Waiting' PROVE ~KeyStuck'
BY StuckMeansNext

\* A delivery of the keyboard's line is a handler on its way; one of another line
\* begins in no unfinished dispatch, so a waiting key has its request.
LEMMA DeliverFetches ==
    ASSUME IInv, IInv', boot = "run", ~KeyStuck, NEW i \in Irqs, Deliver(i)
    PROVE  ~KeyStuck'
<1>1. IInv /\ TypeOK /\ SetUp /\ EoiBeforeNesting
  BY DEF IInv
<1>2. /\ iflag /\ irr' = irr \ {i} /\ outbuf' = outbuf
      /\ frames' = Append(frames, FrameOf(i))
      /\ FrameOf(i).irq = i /\ FrameOf(i).at = "eoi"
  BY <1>1 DEF Deliver, Usable, SetUp, FrameOf
<1>3. CASE i = 1
  <2>1. Fetching'
    <3> DEFINE n == Len(frames)
               f == FrameOf(i)
    <3>1. frames \in Seq(Frame) /\ n \in Nat /\ f \in Frame /\ f.irq = 1 /\ f.at = "eoi"
      BY <1>1, <1>2, <1>3 DEF TypeOK, Frames, Frame, FrameOf
    <3> HIDE DEF f
    <3>2. frames' # <<>> /\ Len(frames') = n + 1 /\ frames'[n + 1] = f
      BY <1>2, <3>1 DEF f
    <3>3. Top' = f
      BY <3>2 DEF Top
    <3> QED
      BY <3>1, <3>2, <3>3 DEF Fetching, Unfinished
  <2> QED
    BY <2>1, NotStuckNext DEF Waiting
<1>4. CASE i # 1
  <2>1. ~Fetching
    <3>1. frames # <<>> => Len(frames) \in 1..Len(frames) /\ Top = frames[Len(frames)]
      BY <1>1, TopTyped
    <3> QED
      BY <3>1, <1>1, <1>2 DEF Fetching, EoiBeforeNesting, Unfinished
  <2>2. ~outbuf \/ 1 \in irr
    BY <2>1, <1>1, StuckMeans DEF Waiting
  <2> QED
    BY <2>2, <1>2, <1>4, NotStuckNext DEF Waiting
<1> QED
  BY <1>3, <1>4

\* The handler that is on its way empties the controller; whatever else a handler
\* does leaves the controller and the requests alone.
LEMMA DispatchFetches ==
    ASSUME IInv, IInv', boot = "run", ~KeyStuck, Dispatch \/ ProgramSwaps
    PROVE  ~KeyStuck'
<1>1. IInv /\ TypeOK /\ SetUp
  BY DEF IInv
<1>2. irr' = irr
  BY DEF Dispatch, Eoi, Handler, UpdateCursor, SignalReturns, SignalSwaps, SignalLeaves,
         Iret, ProgramSwaps, pics
<1>3. ASSUME ~Fetching, outbuf' => outbuf
      PROVE  ~KeyStuck'
  BY <1>1, <1>2, <1>3, StuckMeans, NotStuckNext DEF Waiting
<1>4. CASE Eoi
  <2>1. frames # <<>> /\ Top.at = "eoi" /\ Goto("handler") /\ outbuf' = outbuf
    BY <1>4 DEF Eoi, Running
  <2>2. frames' # <<>> /\ Top'.irq = Top.irq /\ Top'.at = "handler"
    BY <2>1, <1>1, GotoFrames
  <2>3. Fetching => Fetching'
    BY <2>1, <2>2 DEF Fetching, Unfinished
  <2> QED
    BY <2>1, <2>3, <1>1, <1>2, StuckMeans, NotStuckNext DEF Waiting
<1>5. CASE Handler
  <2>1. outbuf' = (outbuf /\ isr_handlers[Top.irq] # "keyboard")
    BY <1>5 DEF Handler
  <2>2. CASE Fetching
    <3>1. isr_handlers[Top.irq] = "keyboard"
      BY <2>2, <1>1 DEF Fetching, SetUp
    <3>2. ~outbuf'
      BY <2>1, <3>1
    <3> QED
      BY <3>2 DEF KeyStuck
  <2>3. CASE ~Fetching
    BY <2>1, <2>3, <1>3
  <2> QED
    BY <2>2, <2>3
<1>6. CASE UpdateCursor \/ SignalReturns \/ SignalSwaps \/ SignalLeaves \/ Iret
  <2>1. outbuf' = outbuf
    BY <1>6 DEF UpdateCursor, SignalReturns, SignalSwaps, SignalLeaves, Iret
  <2>2. Top.at \in {"print", "signal", "iret"}
    BY <1>6 DEF UpdateCursor, SignalReturns, SignalSwaps, SignalLeaves, Iret, Running
  <2> QED
    BY <2>1, <2>2, <1>3 DEF Fetching, Unfinished
<1>7. CASE ProgramSwaps
  BY <1>7, <1>3 DEF ProgramSwaps, Fetching
<1> QED
  BY <1>4, <1>5, <1>6, <1>7 DEF Dispatch

LEMMA NoKeyStuck ==
    ASSUME IInv, IInv', [Next]_vars, boot = "run", ~KeyStuck PROVE ~KeyStuck'
<1>1. ~Boot
  BY DEF Boot, Step, DisableInterrupts, ClearScreen, IdtInit, IsrInit, PicInit, PitInit,
         KeyboardDrain, KeyboardStatus, KeyboardRegister, EnableInterrupts
<1>2. CASE Devices
  <2>1. UNCHANGED frames /\ irr \subseteq irr'
    BY <1>2 DEF Devices, RaiseTimer, RaiseKeyboard, RaiseOther
  <2>2. 1 \in irr' \/ outbuf' = outbuf
    BY <1>2 DEF Devices, RaiseTimer, RaiseKeyboard, RaiseOther
  <2>3. Fetching' <=> Fetching
    BY <2>1 DEF Fetching, Top
  <2> QED
    BY <2>1, <2>2, <2>3, StuckMeans, NotStuckNext DEF Waiting
<1>3. CASE \E i \in Irqs : Deliver(i)
  BY <1>3, DeliverFetches
<1>4. CASE Dispatch \/ ProgramSwaps
  BY <1>4, DispatchFetches
<1>5. CASE UNCHANGED vars
  BY <1>5 DEF vars, pics, KeyStuck
<1> QED
  BY <1>1, <1>2, <1>3, <1>4, <1>5 DEF Next

-----------------------------------------------------------------------------
(* The theorems.                                                           *)

\* The variables of the interrupt path have their types through boot and after.
THEOREM InterruptsTypeCorrect == Spec => []TypeOK
<1>1. IInv => TypeOK
  BY DEF IInv
<1> QED
  BY <1>1, Invariance, PTL

\* The EOIs of isr.c leave no line of either PIC in service, however deep handlers
\* nest and whether or not they return.
THEOREM NothingStaysInService == Spec => []NothingLeftInService
<1>1. IInv => NothingLeftInService
  BY DEF IInv
<1> QED
  BY <1>1, Invariance, PTL

\* The gates' clearing of the flag keeps every dispatch of isr_handler.asm whole up
\* to where its handler prints or calls a signal's handler.
THEOREM DispatchesDoNotNest == Spec => []EoiBeforeNesting
<1>1. IInv => EoiBeforeNesting
  BY DEF IInv
<1> QED
  BY <1>1, Invariance, PTL

\* In the running system no key is left in the controller without a request or a
\* handler on its way, so keyboard_irq is never called for the last time.
THEOREM KeyboardNeverSilent == Spec => KeyboardStaysAlive
<1>1. IInv /\ IInv' /\ [Next]_vars => [boot = "run" /\ ~KeyStuck => ~KeyStuck']_vars
  BY NoKeyStuck
<1> QED
  BY <1>1, Invariance, PTL DEF Spec, KeyboardStaysAlive
=============================================================================
