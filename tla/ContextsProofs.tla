--------------------------- MODULE ContextsProofs ---------------------------
(***************************************************************************)
(* Proofs of the contexts' invariants, for every number of contexts, every *)
(* depth of nested signals and every stack that makecontext is given.      *)
(***************************************************************************)
EXTENDS Contexts, SequenceTheorems, TLAPS

-----------------------------------------------------------------------------
(* The inductive invariant.                                                *)

Kinds == {"program", "handler", "ended"}

Activations == [kind : Kinds, at : Steps, ucp : Contexts]

\* The program's activation, and no other, is at the bottom of a stack.
HandlersAboveProgram ==
    \A c \in Contexts : \A i \in 1..Len(stack[c]) :
        stack[c][i].kind = "handler" <=> i > 1

\* Programs call swapcontext or handlers do, not both.
NotBoth == \A u \in Usages : ~(u.programs /\ u.handlers)

\* A program that begins, or has begun, with registers that may be a handler's.
StartsHit(u) == u.handlers /\ u.flag

Starting(a) == a.kind = "program" /\ a.at \in {"load", "lost"}

\* What a signal can have interrupted, when programs and handlers do as in u.
Interrupted(a, u) ==
    \/ a.kind = "ended" /\ a.at = "cli"
    \/ a.kind = "program" /\ a.at = "run"
    \/ ~u.handlers /\ a.kind = "program"
       /\ a.at \in {"registers", "esp", "flags", "cli", "load"}
    \/ u.handlers /\ a.kind = "handler" /\ a.at = "back"
    \/ StartsHit(u) /\ Starting(a)

\* Where the processor may be in the innermost activation of the running context,
\* with the interrupt flag f.
Runs(a, f, u) ==
    \/ f /\ Interrupted(a, u)
    \/ ~f /\ a.at = "switch" /\ (a.kind = "ended" \/ (a.kind = "handler" <=> u.handlers))
    \/ ~f /\ a.at \in {"popf", "load"} /\ a.kind # "ended"
       /\ (a.kind = "handler" => u.handlers)
    \/ ~f /\ a.at = "run" /\ a.kind = "handler"
    \/ ~f /\ a.at \in {"registers", "esp", "flags", "cli"} /\ a.kind = "handler"
       /\ u.handlers

\* How a context is left: by the one of the two that switches.
Waits(a, h) ==
    \/ a.at = "made" /\ a.kind = "program"
    \/ a.at = "suspended" /\ a.kind = (IF h THEN "handler" ELSE "program")

Innermost(c) == stack[c][Len(stack[c])]

StacksSound ==
    /\ \A c \in Contexts : \A i \in 1..(Len(stack[c]) - 1) :
        Interrupted(stack[c][i], usage)
    /\ Runs(Here, iflag, usage)
    /\ \A c \in Contexts \ {running} :
        stack[c] # <<>> => Waits(Innermost(c), usage.handlers)

\* From where getcontext has stored them until setcontext has loaded them, the
\* registers and the stack pointer of activation i are those in its ucontext_t s,
\* unless it is the start of a program that a handler can have interrupted.  A
\* handler never resumes with interrupts on before its sti.
SavedFor(a, i, s, u) ==
    /\ a.kind # "ended" /\ ~(StartsHit(u) /\ Starting(a)) =>
        /\ a.at \notin {"run", "back", "registers"} => s.regs = i
        /\ a.at \notin {"run", "back", "registers", "esp"} => s.esp = i
    /\ a.kind = "handler" /\ a.at \in {"cli", "switch", "suspended", "popf", "load"} =>
        ~s.flag

SavedSound ==
    \A c \in Contexts : \A i \in 1..Len(stack[c]) :
        SavedFor(stack[c][i], i, saved[c], usage)

\* No interrupts are on behind a popf, if contexts are made with interrupts off
\* and left by handlers.
FlagsSound == usage.handlers /\ ~usage.flag => \A c \in Contexts : ~saved[c].flag

Made == {c \in Contexts : stack[c] # <<>>}

\* Activation a, on the stack of context c, goes to another that has a stack, among
\* those in made.
TargetFor(c, a, made) ==
    /\ a.at \in {"registers", "esp", "flags", "cli", "switch"} => a.ucp \in made \ {c}
    /\ a.kind = "ended" => a.ucp = First /\ c # First

TargetsSound ==
    /\ First \in Made
    /\ \A c \in Contexts : \A i \in 1..Len(stack[c]) : TargetFor(c, stack[c][i], Made)

TypeInv == TypeOK /\ HandlersAboveProgram

IInv == TypeInv /\ StacksSound /\ SavedSound /\ FlagsSound /\ TargetsSound

-----------------------------------------------------------------------------
(* Stacks.                                                                 *)

UContexts == [regs : 1..MaxDepth, esp : 1..MaxDepth, flag : BOOLEAN, argc : 0..MaxArgs]

LEMMA TopFacts ==
    ASSUME TypeOK
    PROVE  /\ running \in Contexts /\ stack \in [Contexts -> Seq(Activations)]
           /\ stack[running] \in Seq(Activations)
           /\ Depth \in 1..MaxDepth /\ MaxDepth \in Nat
           /\ Here \in Activations /\ Here = stack[running][Depth]
           /\ \A c \in Contexts : Len(stack[c]) \in Nat
           /\ \A c \in Contexts : stack[c] # <<>> => Len(stack[c]) \in 1..MaxDepth
<1> USE ContextsAssumption
<1>1. running \in Contexts /\ stack \in [Contexts -> Seq(Activations)] /\ MaxDepth \in Nat
  BY DEF TypeOK, Activations, Kinds
<1>2. \A c \in Contexts : Len(stack[c]) \in Nat /\ Len(stack[c]) <= MaxDepth
  BY <1>1, LenProperties DEF TypeOK
<1>3. \A c \in Contexts : stack[c] # <<>> => Len(stack[c]) # 0
  BY <1>1, EmptySeq
<1>4. stack[running] # <<>>
  BY DEF TypeOK
<1>5. Depth \in 1..MaxDepth
  BY <1>1, <1>2, <1>3, <1>4 DEF Depth
<1>6. Here \in Activations
  BY <1>1, <1>5, ElementOfSeq DEF Here, Depth
<1> QED
  BY <1>1, <1>2, <1>3, <1>5, <1>6 DEF Here

\* What a step that only changes the innermost activation leaves of the stacks.
OnlyTop(a) ==
    /\ stack' \in [Contexts -> Seq(Activations)]
    /\ \A c \in Contexts \ {running} : stack'[c] = stack[c]
    /\ Len(stack'[running]) = Depth
    /\ stack'[running][Depth] = a
    /\ \A i \in 1..(Depth - 1) : stack'[running][i] = stack[running][i]

LEMMA TopReplaced ==
    ASSUME TypeOK, NEW a \in Activations,
           stack' = [stack EXCEPT ![running] = [@ EXCEPT ![Depth] = a]]
    PROVE  OnlyTop(a)
<1> DEFINE s == stack[running]
           d == Depth
           t == [s EXCEPT ![d] = a]
<1>1. /\ running \in Contexts /\ stack \in [Contexts -> Seq(Activations)]
      /\ s \in Seq(Activations) /\ d \in 1..Len(s) /\ Len(s) = d
  BY TopFacts DEF Depth
<1> HIDE DEF s, d
<1>2. /\ t \in Seq(Activations) /\ Len(t) = d /\ t[d] = a
      /\ \A i \in 1..(d - 1) : t[i] = s[i]
  BY <1>1, ExceptSeq
<1> HIDE DEF t
<1>3. stack' = [stack EXCEPT ![running] = t]
  BY DEF s, d, t
<1>4. /\ stack' \in [Contexts -> Seq(Activations)] /\ stack'[running] = t
      /\ \A c \in Contexts \ {running} : stack'[c] = stack[c]
  BY <1>1, <1>2, <1>3
<1> QED
  BY <1>2, <1>4 DEF OnlyTop, s, d

\* The innermost activation at another step.
Moved(step) == [kind |-> Here.kind, at |-> step, ucp |-> Here.ucp]

LEMMA GotoMoves ==
    ASSUME TypeOK, NEW step \in Steps, Goto(step)
    PROVE  OnlyTop(Moved(step)) /\ Moved(step) \in Activations
<1>1. /\ Here \in Activations /\ Here = stack[running][Depth]
      /\ running \in Contexts /\ stack \in [Contexts -> Seq(Activations)]
  BY TopFacts
<1>2. [Here EXCEPT !.at = step] = Moved(step) /\ Moved(step) \in Activations
  BY <1>1 DEF Moved, Activations
<1>3. stack' = [stack EXCEPT ![running] = [@ EXCEPT ![Depth] = [Here EXCEPT !.at = step]]]
  BY <1>1 DEF Goto
<1> QED
  BY <1>2, <1>3, TopReplaced

\* A step that changes the innermost activation keeps the types, whatever it saves.
LEMMA TopKeepsTypes ==
    ASSUME TypeInv, NEW a \in Activations, OnlyTop(a),
           a.kind = "handler" <=> Here.kind = "handler",
           UNCHANGED <<usage, running>>, saved' \in [Contexts -> UContexts],
           iflag' \in BOOLEAN
    PROVE  TypeInv'
<1>1. /\ running \in Contexts /\ stack \in [Contexts -> Seq(Activations)]
      /\ Depth \in 1..MaxDepth /\ MaxDepth \in Nat /\ Here = stack[running][Depth]
      /\ \A c \in Contexts : Len(stack[c]) \in Nat
  BY TopFacts DEF TypeInv
<1>2. /\ stack' \in [Contexts -> Seq(Activations)]
      /\ \A c \in Contexts \ {running} : stack'[c] = stack[c]
      /\ Len(stack'[running]) = Depth /\ Len(stack[running]) = Depth
      /\ stack'[running][Depth] = a
      /\ \A i \in 1..(Depth - 1) : stack'[running][i] = stack[running][i]
  BY DEF OnlyTop, Depth
<1>3. \A c \in Contexts : Len(stack'[c]) = Len(stack[c])
  BY <1>2
<1>4. stack'[running] # <<>>
  BY <1>1, <1>2, EmptySeq
<1>5. TypeOK'
  BY <1>1, <1>2, <1>3, <1>4 DEF TypeInv, TypeOK, Activations, Kinds, UContexts
<1>6. HandlersAboveProgram'
  <2> SUFFICES ASSUME NEW c \in Contexts, NEW i \in 1..Len(stack'[c])
               PROVE  stack'[c][i].kind = "handler" <=> i > 1
    BY DEF HandlersAboveProgram
  <2>1. i \in 1..Len(stack[c])
    BY <1>3
  <2>2. stack[c][i].kind = "handler" <=> i > 1
    BY <2>1 DEF TypeInv, HandlersAboveProgram
  <2>3. CASE c = running /\ i = Depth
    BY <1>1, <1>2, <2>2, <2>3
  <2>4. CASE c = running /\ i # Depth
    <3>1. i \in 1..(Depth - 1)
      BY <1>1, <1>2, <2>1, <2>4
    <3> QED
      BY <1>2, <2>2, <2>4, <3>1
  <2>5. CASE c # running
    BY <1>2, <2>2, <2>5
  <2> QED
    BY <2>3, <2>4, <2>5
<1> QED
  BY <1>5, <1>6 DEF TypeInv

\* The ucontext_t of the running context only has been written.
OnlySaved(u) ==
    /\ u \in UContexts
    /\ saved' \in [Contexts -> UContexts]
    /\ saved'[running] = u
    /\ \A c \in Contexts \ {running} : saved'[c] = saved[c]

\* A step of the running context keeps the invariant, if its innermost activation
\* is then where the processor may be, if what it has stored is saved right, and
\* if nothing below depends on what it has overwritten.
LEMMA TopKeeps ==
    ASSUME IInv, NEW a \in Activations, OnlyTop(a), NEW u, OnlySaved(u),
           a.kind = "handler" <=> Here.kind = "handler",
           UNCHANGED <<usage, running>>, iflag' \in BOOLEAN,
           Runs(a, iflag', usage),
           SavedFor(a, Depth, u, usage),
           u = saved[running] \/ \A i \in 1..(Depth - 1) : SavedFor(stack[running][i], i, u, usage),
           usage.handlers /\ ~usage.flag => ~u.flag,
           TargetFor(running, a, Made)
    PROVE  IInv'
<1>1. /\ running \in Contexts /\ stack \in [Contexts -> Seq(Activations)]
      /\ Depth \in 1..MaxDepth /\ MaxDepth \in Nat
      /\ \A c \in Contexts : Len(stack[c]) \in Nat
  BY TopFacts DEF IInv, TypeInv
<1>2. /\ stack' \in [Contexts -> Seq(Activations)]
      /\ \A c \in Contexts \ {running} : stack'[c] = stack[c]
      /\ Len(stack'[running]) = Depth /\ Len(stack[running]) = Depth
      /\ stack'[running][Depth] = a
      /\ \A i \in 1..(Depth - 1) : stack'[running][i] = stack[running][i]
  BY DEF OnlyTop, Depth
<1>3. \A c \in Contexts : Len(stack'[c]) = Len(stack[c])
  BY <1>2
<1>4. TypeInv'
  BY TopKeepsTypes DEF IInv, OnlySaved
<1>5. Here' = a
  BY <1>2, <1>3 DEF Here, Depth
<1>6. \A c \in Contexts : \A i \in 1..(Len(stack'[c]) - 1) : stack'[c][i] = stack[c][i]
  BY <1>2
<1>7. StacksSound'
  <2>1. ASSUME NEW c \in Contexts, NEW i \in 1..(Len(stack'[c]) - 1)
        PROVE  Interrupted(stack'[c][i], usage')
    <3>1. i \in 1..(Len(stack[c]) - 1) /\ stack'[c][i] = stack[c][i]
      BY <1>3, <1>6
    <3> QED
      BY <3>1 DEF IInv, StacksSound
  <2>2. Runs(Here', iflag', usage')
    BY <1>5
  <2>3. ASSUME NEW c \in Contexts \ {running'}, stack'[c] # <<>>
        PROVE  Waits(stack'[c][Len(stack'[c])], usage'.handlers)
    BY <1>2, <2>3 DEF IInv, StacksSound, Innermost
  <2> QED
    BY <2>1, <2>2, <2>3 DEF StacksSound, Innermost
<1>8. SavedSound'
  <2> SUFFICES ASSUME NEW c \in Contexts, NEW i \in 1..Len(stack'[c])
               PROVE  SavedFor(stack'[c][i], i, saved'[c], usage')
    BY DEF SavedSound
  <2>1. i \in 1..Len(stack[c])
    BY <1>3
  <2>2. SavedFor(stack[c][i], i, saved[c], usage)
    BY <2>1 DEF IInv, SavedSound
  <2>3. CASE c = running /\ i = Depth
    BY <1>2, <2>3 DEF OnlySaved
  <2>4. CASE c = running /\ i # Depth
    <3>1. i \in 1..(Depth - 1) /\ stack'[c][i] = stack[c][i] /\ saved'[c] = u
      BY <1>1, <1>2, <2>1, <2>4 DEF OnlySaved
    <3> QED
      BY <2>2, <2>4, <3>1
  <2>5. CASE c # running
    BY <1>2, <2>2, <2>5 DEF OnlySaved
  <2> QED
    BY <2>3, <2>4, <2>5
<1>9. FlagsSound'
  BY DEF IInv, FlagsSound, OnlySaved
<1>10. Made' = Made
  <2>1. stack[running] # <<>> /\ stack'[running] # <<>>
    BY <1>4 DEF IInv, TypeInv, TypeOK
  <2> QED
    BY <1>1, <1>2, <2>1 DEF Made
<1>11. TargetsSound'
  <2> SUFFICES ASSUME NEW c \in Contexts, NEW i \in 1..Len(stack'[c])
               PROVE  TargetFor(c, stack'[c][i], Made)
    BY <1>10 DEF TargetsSound, IInv
  <2>1. i \in 1..Len(stack[c])
    BY <1>3
  <2>2. TargetFor(c, stack[c][i], Made)
    BY <2>1 DEF IInv, TargetsSound
  <2>3. CASE c = running /\ i = Depth
    BY <1>2, <2>3
  <2>4. CASE c = running /\ i # Depth
    <3>1. i \in 1..(Depth - 1)
      BY <1>1, <1>2, <2>1, <2>4
    <3> QED
      BY <1>2, <2>2, <2>4, <3>1
  <2>5. CASE c # running
    BY <1>2, <2>2, <2>5
  <2> QED
    BY <2>3, <2>4, <2>5
<1> QED
  BY <1>4, <1>7, <1>8, <1>9, <1>11 DEF IInv

-----------------------------------------------------------------------------
(* The steps that stay on the stack of the running context.                *)

\* What the invariant says of the activation that is about to make a step.
LEMMA RunningFacts ==
    ASSUME IInv
    PROVE  /\ Here \in Activations /\ Depth \in 1..MaxDepth /\ Depth \in Nat
           /\ usage \in Usages /\ iflag \in BOOLEAN
           /\ usage.handlers \in BOOLEAN /\ usage.flag \in BOOLEAN
           /\ running \in Contexts /\ saved \in [Contexts -> UContexts]
           /\ Runs(Here, iflag, usage)
           /\ SavedFor(Here, Depth, saved[running], usage)
           /\ \A i \in 1..(Depth - 1) :
                Interrupted(stack[running][i], usage)
                /\ SavedFor(stack[running][i], i, saved[running], usage)
           /\ Here.kind = "handler" <=> Depth > 1
           /\ usage.handlers /\ ~usage.flag => ~saved[running].flag
           /\ TargetFor(running, Here, Made)
           /\ \A i \in 1..(Depth - 1) : TargetFor(running, stack[running][i], Made)
<1>1. /\ Here \in Activations /\ Depth \in 1..MaxDepth /\ running \in Contexts
      /\ Here = stack[running][Depth] /\ Len(stack[running]) = Depth /\ Depth \in Nat
  BY TopFacts DEF IInv, TypeInv, Depth
<1>2. usage \in Usages /\ iflag \in BOOLEAN /\ saved \in [Contexts -> UContexts]
  BY DEF IInv, TypeInv, TypeOK, UContexts
<1>3. usage.handlers \in BOOLEAN /\ usage.flag \in BOOLEAN
  BY <1>2, ContextsAssumption
<1>4. SavedFor(Here, Depth, saved[running], usage)
  BY <1>1 DEF IInv, SavedSound
<1>5. \A i \in 1..(Depth - 1) :
        Interrupted(stack[running][i], usage)
        /\ SavedFor(stack[running][i], i, saved[running], usage)
  BY <1>1 DEF IInv, StacksSound, SavedSound
<1>6. Here.kind = "handler" <=> Depth > 1
  BY <1>1 DEF IInv, TypeInv, HandlersAboveProgram
<1>7. /\ TargetFor(running, Here, Made)
      /\ \A i \in 1..(Depth - 1) : TargetFor(running, stack[running][i], Made)
  BY <1>1 DEF IInv, TargetsSound
<1> QED
  BY <1>1, <1>2, <1>3, <1>4, <1>5, <1>6, <1>7 DEF IInv, StacksSound, FlagsSound

\* An activation that moves on within its swap still goes to the same context.
LEMMA TargetStays ==
    ASSUME IInv, NEW step,
           step \in {"registers", "esp", "flags", "cli", "switch"} =>
             Here.at \in {"registers", "esp", "flags", "cli", "switch"}
    PROVE  TargetFor(running, Moved(step), Made)
BY RunningFacts DEF TargetFor, Moved

LEMMA SavedUnchanged ==
    ASSUME IInv, UNCHANGED saved
    PROVE  OnlySaved(saved[running])
BY RunningFacts DEF OnlySaved

\* A step that saves nothing.
LEMMA QuietKeeps ==
    ASSUME IInv, NEW a \in Activations, OnlyTop(a), a.kind = "handler" <=> Here.kind = "handler",
           UNCHANGED <<usage, running, saved>>, iflag' \in BOOLEAN,
           Runs(a, iflag', usage),
           SavedFor(a, Depth, saved[running], usage),
           TargetFor(running, a, Made)
    PROVE  IInv'
BY SavedUnchanged, RunningFacts, TopKeeps

\* The activation that calls swapcontext.
Swapping(c) == [kind |-> Here.kind, at |-> "registers", ucp |-> c]

LEMMA SwapMoves ==
    ASSUME TypeInv, NEW c \in Contexts, Swap(c)
    PROVE  /\ Swapping(c) \in Activations /\ OnlyTop(Swapping(c))
           /\ Swapping(c).kind = Here.kind
<1> DEFINE a == Swapping(c)
<1>1. a \in Activations /\ Here \in Activations
  BY TopFacts DEF Activations, Steps, Swapping, TypeInv
<1>2. OnlyTop(a)
  <2>1. /\ running \in Contexts /\ stack \in [Contexts -> Seq(Activations)]
        /\ Here = stack[running][Depth]
    BY TopFacts DEF TypeInv
  <2>2. Depth \in DOMAIN stack[running]
    BY TopFacts, LenProperties DEF TypeInv, Depth
  <2>3. [[Here EXCEPT !.at = "registers"] EXCEPT !.ucp = c] = a
    <3> DEFINE b == [Here EXCEPT !.at = "registers"]
    <3>1. b = [kind |-> Here.kind, at |-> "registers", ucp |-> Here.ucp]
      BY <1>1 DEF Activations
    <3> HIDE DEF b
    <3>2. [b EXCEPT !.ucp = c] = a
      BY <3>1 DEF Swapping
    <3> QED
      BY <3>2 DEF b
  <2>4. stack' = [stack EXCEPT ![running] = [@ EXCEPT ![Depth] = a]]
    BY <2>1, <2>2, <2>3 DEF Swap
  <2> QED
    BY <1>1, <2>4, TopReplaced DEF TypeInv
<1> QED
  BY <1>1, <1>2 DEF Swapping

LEMMA SwapKeeps ==
    ASSUME NotBoth, IInv, NEW c \in Contexts, Swap(c)
    PROVE  IInv'
<1> DEFINE a == Swapping(c)
<1>1. a \in Activations /\ Here \in Activations /\ a.kind = Here.kind /\ a.at = "registers"
  BY SwapMoves, RunningFacts DEF IInv, Swapping
<1>2. OnlyTop(a)
  BY SwapMoves DEF IInv
<1> HIDE DEF a
<1>3. /\ Here.at = "run" /\ UNCHANGED <<usage, running, saved, iflag>>
      /\ c # running /\ stack[c] # <<>> /\ a.ucp = c
      /\ Here.kind = "program" \/ Here.kind = "handler"
  BY RunningFacts DEF Swap, At, Waiting, Swapping, a, Runs, Interrupted, Starting
<1>4. IF Here.kind = "program" THEN usage.programs ELSE usage.handlers
  BY DEF Swap
<1>5. usage.handlers => ~usage.programs
  BY RunningFacts DEF NotBoth
<1>6. Runs(a, iflag', usage)
  BY <1>1, <1>3, <1>4, <1>5, RunningFacts DEF Runs, Interrupted, Starting, Activations, Kinds
<1>7. SavedFor(a, Depth, saved[running], usage)
  BY <1>1 DEF SavedFor
<1>8. TargetFor(running, a, Made)
  BY <1>1, <1>3 DEF TargetFor, Made
<1> QED
  BY <1>1, <1>2, <1>3, <1>6, <1>7, <1>8, RunningFacts, QuietKeeps

LEMMA CliKeeps == IInv /\ Cli => IInv'
<1> SUFFICES ASSUME IInv, Cli PROVE IInv'
  OBVIOUS
<1>1. OnlyTop(Moved("switch")) /\ Moved("switch") \in Activations
  BY GotoMoves DEF Cli, IInv, TypeInv, Steps
<1>2. Here.at = "cli" /\ iflag' = FALSE /\ UNCHANGED <<usage, running, saved>>
  BY DEF Cli, At
<1>3. Runs(Moved("switch"), iflag', usage)
  BY <1>2, RunningFacts DEF Runs, Interrupted, Starting, Moved, Activations, Kinds
<1>4. SavedFor(Moved("switch"), Depth, saved[running], usage)
  BY <1>2, RunningFacts DEF SavedFor, Moved, Starting
<1>5. Moved("switch").kind = Here.kind
  BY DEF Moved
<1>6. TargetFor(running, Moved("switch"), Made)
  BY <1>2, TargetStays
<1> QED
  BY <1>1, <1>2, <1>3, <1>4, <1>5, <1>6, QuietKeeps

LEMMA PopFlagsKeeps == IInv /\ PopFlags => IInv'
<1> SUFFICES ASSUME IInv, PopFlags PROVE IInv'
  OBVIOUS
<1>1. OnlyTop(Moved("load")) /\ Moved("load") \in Activations
  BY GotoMoves DEF PopFlags, IInv, TypeInv, Steps
<1>2. Here.at = "popf" /\ iflag' = saved[running].flag /\ UNCHANGED <<usage, running, saved>>
  BY DEF PopFlags, At
<1>3. /\ iflag' \in BOOLEAN /\ (Here.kind = "handler" => ~iflag')
      /\ usage.handlers /\ ~usage.flag => ~iflag'
  BY <1>2, RunningFacts DEF UContexts, SavedFor
<1>4. Runs(Moved("load"), iflag', usage)
  BY <1>2, <1>3, RunningFacts DEF Runs, Interrupted, StartsHit, Starting, Moved,
     Activations, Kinds
<1>5. SavedFor(Moved("load"), Depth, saved[running], usage)
  BY <1>2, RunningFacts DEF SavedFor, Moved, Starting
<1>6. Moved("load").kind = Here.kind
  BY DEF Moved
<1>7. TargetFor(running, Moved("load"), Made)
  BY TargetStays
<1> QED
  BY <1>1, <1>2, <1>3, <1>4, <1>5, <1>6, <1>7, QuietKeeps

LEMMA LoadRegistersKeeps == IInv /\ LoadRegisters => IInv'
<1> SUFFICES ASSUME IInv, LoadRegisters PROVE IInv'
  OBVIOUS
<1> DEFINE step == Loaded
<1>1. OnlyTop(Moved(step)) /\ Moved(step) \in Activations
  <2>1. step \in Steps /\ Goto(step)
    BY DEF LoadRegisters, Loaded, Steps
  <2> HIDE DEF step
  <2> QED
    BY <2>1, GotoMoves DEF IInv, TypeInv
<1>2. Here.at = "load" /\ iflag' = TRUE /\ UNCHANGED <<usage, running, saved>>
  BY DEF LoadRegisters, At
\* Only the start of a program can have the registers of another activation.
<1>3. saved[running].regs # Depth => StartsHit(usage) /\ Starting(Here)
  BY <1>2, RunningFacts DEF SavedFor, Runs, Interrupted, Starting
<1>4. Runs(Moved(step), iflag', usage)
  BY <1>2, <1>3, RunningFacts DEF Loaded, Runs, Interrupted, StartsHit, Starting, Moved,
     Activations, Kinds
<1>5. SavedFor(Moved(step), Depth, saved[running], usage)
  BY <1>3 DEF SavedFor, Moved, Loaded, StartsHit, Starting
<1>6. Moved(step).kind = Here.kind
  BY DEF Moved
<1>7. TargetFor(running, Moved(step), Made)
  <2>1. step \notin {"registers", "esp", "flags", "cli", "switch"}
    BY DEF Loaded
  <2> HIDE DEF step
  <2> QED
    BY <2>1, TargetStays
<1> QED
  BY <1>1, <1>2, <1>4, <1>5, <1>6, <1>7, QuietKeeps

LEMMA TerminateKeeps == IInv /\ Terminate => IInv'
<1> SUFFICES ASSUME IInv, Terminate PROVE IInv'
  OBVIOUS
<1> DEFINE a == [kind |-> "ended", at |-> "cli", ucp |-> First]
<1>1. a \in Activations
  BY ContextsAssumption DEF Activations, Kinds, Steps
<1>2. OnlyTop(a)
  <2>1. stack' = [stack EXCEPT ![running] = [@ EXCEPT ![Depth] = a]]
    BY DEF Terminate
  <2> QED
    BY <1>1, <2>1, TopReplaced DEF IInv, TypeInv
<1>3. /\ Here.at = "run" /\ Here.kind = "program" /\ running # First
      /\ UNCHANGED <<usage, running, saved, iflag>>
  BY DEF Terminate, At
<1>4. Runs(a, iflag', usage)
  BY <1>3, RunningFacts DEF Runs, Interrupted
<1>5. SavedFor(a, Depth, saved[running], usage)
  BY DEF SavedFor
<1>6. TargetFor(running, a, Made)
  BY <1>3 DEF TargetFor, IInv, TargetsSound
<1> QED
  BY <1>1, <1>2, <1>3, <1>4, <1>5, <1>6, RunningFacts, QuietKeeps

\* getcontext stores what belongs to the innermost activation.  When a program
\* swaps, it is the only one on its stack; when a handler does, no activation
\* below is in the middle of a swap of its own, and nothing is claimed of a start.
LEMMA BelowNotSaved ==
    ASSUME IInv, Here.at \in {"registers", "esp", "flags"}, NEW u
    PROVE  \A i \in 1..(Depth - 1) : SavedFor(stack[running][i], i, u, usage)
<1> SUFFICES ASSUME NEW i \in 1..(Depth - 1)
             PROVE  SavedFor(stack[running][i], i, u, usage)
  OBVIOUS
<1>1. Interrupted(stack[running][i], usage) /\ Depth > 1
  BY RunningFacts
<1>2. Here.kind = "handler" /\ usage.handlers
  BY <1>1, RunningFacts DEF Runs, Interrupted, Starting
<1> QED
  BY <1>1, <1>2 DEF Interrupted, SavedFor, Starting

LEMMA SaveRegistersKeeps == IInv /\ SaveRegisters => IInv'
<1> SUFFICES ASSUME IInv, SaveRegisters PROVE IInv'
  OBVIOUS
<1> DEFINE v == saved[running]
           u == [regs |-> Depth, esp |-> v.esp, flag |-> v.flag, argc |-> v.argc]
<1>1. OnlyTop(Moved("esp")) /\ Moved("esp") \in Activations
  BY GotoMoves DEF SaveRegisters, IInv, TypeInv, Steps
<1>2. /\ Here.at = "registers" /\ UNCHANGED <<usage, running, iflag>>
      /\ saved' = [saved EXCEPT ![running].regs = Depth]
  BY DEF SaveRegisters, At
<1>3. OnlySaved(u) /\ (usage.handlers /\ ~usage.flag => ~u.flag)
  <2>1. v \in UContexts /\ Depth \in 1..MaxDepth /\ (usage.handlers /\ ~usage.flag => ~v.flag)
    BY RunningFacts
  <2>2. [v EXCEPT !.regs = Depth] = u /\ u \in UContexts
    BY <2>1 DEF UContexts
  <2>3. saved' = [saved EXCEPT ![running] = u]
    BY <1>2, <2>2
  <2> QED
    BY <2>1, <2>2, <2>3, RunningFacts DEF OnlySaved
<1>4. Runs(Moved("esp"), iflag', usage)
  BY <1>2, RunningFacts DEF Runs, Interrupted, Starting, Moved, Activations, Kinds
<1>5. SavedFor(Moved("esp"), Depth, u, usage)
  BY DEF SavedFor, Moved, Starting
<1>6. \A i \in 1..(Depth - 1) : SavedFor(stack[running][i], i, u, usage)
  BY <1>2, BelowNotSaved
<1>7. Moved("esp").kind = Here.kind
  BY DEF Moved
<1>8. TargetFor(running, Moved("esp"), Made)
  BY <1>2, TargetStays
<1> HIDE DEF u
<1> QED
  BY <1>1, <1>2, <1>3, <1>4, <1>5, <1>6, <1>7, <1>8, RunningFacts, TopKeeps

LEMMA SaveStackKeeps == IInv /\ SaveStack => IInv'
<1> SUFFICES ASSUME IInv, SaveStack PROVE IInv'
  OBVIOUS
<1> DEFINE v == saved[running]
           u == [regs |-> v.regs, esp |-> Depth, flag |-> v.flag, argc |-> v.argc]
<1>1. OnlyTop(Moved("flags")) /\ Moved("flags") \in Activations
  BY GotoMoves DEF SaveStack, IInv, TypeInv, Steps
<1>2. /\ Here.at = "esp" /\ UNCHANGED <<usage, running, iflag>>
      /\ saved' = [saved EXCEPT ![running].esp = Depth]
  BY DEF SaveStack, At
<1>3. OnlySaved(u) /\ (usage.handlers /\ ~usage.flag => ~u.flag)
  <2>1. v \in UContexts /\ Depth \in 1..MaxDepth /\ (usage.handlers /\ ~usage.flag => ~v.flag)
    BY RunningFacts
  <2>2. [v EXCEPT !.esp = Depth] = u /\ u \in UContexts
    BY <2>1 DEF UContexts
  <2>3. saved' = [saved EXCEPT ![running] = u]
    BY <1>2, <2>2
  <2> QED
    BY <2>1, <2>2, <2>3, RunningFacts DEF OnlySaved
<1>4. Runs(Moved("flags"), iflag', usage)
  BY <1>2, RunningFacts DEF Runs, Interrupted, Starting, Moved, Activations, Kinds
<1>5. SavedFor(Moved("flags"), Depth, u, usage)
  BY <1>2, RunningFacts DEF SavedFor, Moved, Starting
<1>6. \A i \in 1..(Depth - 1) : SavedFor(stack[running][i], i, u, usage)
  BY <1>2, BelowNotSaved
<1>7. Moved("flags").kind = Here.kind
  BY DEF Moved
<1>8. TargetFor(running, Moved("flags"), Made)
  BY <1>2, TargetStays
<1> HIDE DEF u
<1> QED
  BY <1>1, <1>2, <1>3, <1>4, <1>5, <1>6, <1>7, <1>8, RunningFacts, TopKeeps

LEMMA SaveFlagsKeeps == IInv /\ SaveFlags => IInv'
<1> SUFFICES ASSUME IInv, SaveFlags PROVE IInv'
  OBVIOUS
<1> DEFINE v == saved[running]
           u == [regs |-> v.regs, esp |-> v.esp, flag |-> iflag, argc |-> v.argc]
<1>1. OnlyTop(Moved("cli")) /\ Moved("cli") \in Activations
  BY GotoMoves DEF SaveFlags, IInv, TypeInv, Steps
<1>2. /\ Here.at = "flags" /\ UNCHANGED <<usage, running, iflag>>
      /\ saved' = [saved EXCEPT ![running].flag = iflag]
  BY DEF SaveFlags, At
<1>3. /\ usage.handlers => ~iflag
      /\ Here.kind = "handler" => ~iflag
  BY <1>2, RunningFacts DEF Runs, Interrupted, Starting
<1>4. OnlySaved(u) /\ (usage.handlers /\ ~usage.flag => ~u.flag)
  <2>1. v \in UContexts /\ Depth \in 1..MaxDepth /\ iflag \in BOOLEAN
    BY RunningFacts
  <2>2. [v EXCEPT !.flag = iflag] = u /\ u \in UContexts
    BY <2>1 DEF UContexts
  <2>3. saved' = [saved EXCEPT ![running] = u]
    BY <1>2, <2>2
  <2> QED
    BY <1>3, <2>2, <2>3, RunningFacts DEF OnlySaved
<1>5. Runs(Moved("cli"), iflag', usage)
  BY <1>2, RunningFacts DEF Runs, Interrupted, Starting, Moved, Activations, Kinds
<1>6. SavedFor(Moved("cli"), Depth, u, usage)
  BY <1>2, <1>3, RunningFacts DEF SavedFor, Moved, Starting
<1>7. \A i \in 1..(Depth - 1) : SavedFor(stack[running][i], i, u, usage)
  BY <1>2, BelowNotSaved
<1>8. Moved("cli").kind = Here.kind
  BY DEF Moved
<1>9. TargetFor(running, Moved("cli"), Made)
  BY <1>2, TargetStays
<1> HIDE DEF u
<1> QED
  BY <1>1, <1>2, <1>4, <1>5, <1>6, <1>7, <1>8, <1>9, RunningFacts, TopKeeps

-----------------------------------------------------------------------------
(* Stacks that are made, grow and shrink.                                  *)

\* The stack of one context has changed.
OnlyStack(c, s) ==
    /\ stack' \in [Contexts -> Seq(Activations)]
    /\ stack'[c] = s
    /\ \A b \in Contexts \ {c} : stack'[b] = stack[b]

\* A stack that is well formed on its own.
WellFormed(s) ==
    /\ s \in Seq(Activations) /\ Len(s) <= MaxDepth
    /\ \A i \in 1..Len(s) : s[i].kind = "handler" <=> i > 1

LEMMA OneStackTypes ==
    ASSUME TypeInv, NEW c \in Contexts, NEW s, WellFormed(s), OnlyStack(c, s),
           c = running => s # <<>>, UNCHANGED <<usage, running>>,
           saved' \in [Contexts -> UContexts], iflag' \in BOOLEAN
    PROVE  TypeInv'
<1>1. TypeOK'
  BY DEF TypeInv, TypeOK, OnlyStack, WellFormed, Activations, Kinds, UContexts
<1>2. HandlersAboveProgram'
  <2> SUFFICES ASSUME NEW b \in Contexts
               PROVE  \A i \in 1..Len(stack'[b]) : stack'[b][i].kind = "handler" <=> i > 1
    BY DEF HandlersAboveProgram
  <2>1. CASE b = c
    BY <2>1 DEF OnlyStack, WellFormed
  <2>2. CASE b # c
    BY <2>2 DEF OnlyStack, TypeInv, HandlersAboveProgram
  <2> QED
    BY <2>1, <2>2
<1> QED
  BY <1>1, <1>2 DEF TypeInv

LEMMA SignalGrows ==
    ASSUME TypeInv, Signal
    PROVE  /\ WellFormed(stack'[running]) /\ OnlyStack(running, stack'[running])
           /\ Len(stack'[running]) = Depth + 1
           /\ stack'[running][Depth + 1] = Activation("handler", "run")
           /\ \A i \in 1..Depth : stack'[running][i] = stack[running][i]
           /\ Depth \in 1..MaxDepth /\ Depth \in Nat
<1> DEFINE s == stack[running]
           d == Depth
           a == Activation("handler", "run")
           t == Append(s, a)
<1>1. /\ running \in Contexts /\ stack \in [Contexts -> Seq(Activations)]
      /\ s \in Seq(Activations) /\ d \in 1..MaxDepth /\ MaxDepth \in Nat /\ Len(s) = d
  BY TopFacts DEF TypeInv, Depth
<1>2. a \in Activations /\ a.kind = "handler"
  BY ContextsAssumption DEF Activation, Activations, Kinds, Steps
<1>3. stack' = [stack EXCEPT ![running] = t] /\ d < MaxDepth
  BY DEF Signal
<1>4. \A i \in 1..d : s[i].kind = "handler" <=> i > 1
  BY <1>1 DEF TypeInv, HandlersAboveProgram
<1> HIDE DEF s, d, a
<1>5. /\ t \in Seq(Activations) /\ Len(t) = d + 1 /\ t[d + 1] = a
      /\ \A i \in 1..d : t[i] = s[i]
  BY <1>1, <1>2, AppendProperties
<1> HIDE DEF t
<1>6. OnlyStack(running, t) /\ stack'[running] = t
  BY <1>1, <1>3, <1>5 DEF OnlyStack
<1>7. WellFormed(t)
  <2>1. \A i \in 1..(d + 1) : i \in 1..d \/ i = d + 1
    BY <1>1
  <2> QED
    BY <1>1, <1>2, <1>3, <1>4, <1>5, <2>1 DEF WellFormed
<1> QED
  BY <1>1, <1>5, <1>6, <1>7 DEF s, d, a

LEMMA HandlerReturnShrinks ==
    ASSUME TypeInv, HandlerReturn
    PROVE  /\ WellFormed(stack'[running]) /\ OnlyStack(running, stack'[running])
           /\ Len(stack'[running]) = Depth - 1 /\ Depth - 1 \in 1..MaxDepth
           /\ \A i \in 1..(Depth - 1) : stack'[running][i] = stack[running][i]
           /\ stack'[running] # <<>> /\ Depth \in Nat
<1> DEFINE s == stack[running]
           d == Depth
           t == SubSeq(s, 1, d - 1)
<1>1. /\ running \in Contexts /\ stack \in [Contexts -> Seq(Activations)]
      /\ s \in Seq(Activations) /\ d \in 1..MaxDepth /\ MaxDepth \in Nat /\ Len(s) = d
  BY TopFacts DEF TypeInv, Depth
<1>2. stack' = [stack EXCEPT ![running] = t] /\ s[d].kind = "handler"
  BY DEF HandlerReturn, Here
<1>3. \A i \in 1..d : s[i].kind = "handler" <=> i > 1
  BY <1>1 DEF TypeInv, HandlersAboveProgram
<1>4. d - 1 \in 1..MaxDepth /\ d - 1 \in Nat
  BY <1>1, <1>2, <1>3
<1>5. \A i \in 1..(d - 1) : s[i] \in Activations
  BY <1>1, <1>4, ElementOfSeq
<1> HIDE DEF s, d
<1>6. t \in Seq(Activations) /\ Len(t) = d - 1 /\ \A i \in 1..(d - 1) : t[i] = s[i]
  <2>1. /\ t \in Seq(Activations) /\ Len(t) = IF 1 <= d - 1 THEN d - 1 - 1 + 1 ELSE 0
        /\ \A i \in 1..(d - 1 - 1 + 1) : t[i] = s[1 + i - 1]
    BY <1>1, <1>4, <1>5, SubSeqProperties
  <2> QED
    BY <1>1, <1>4, <2>1
<1> HIDE DEF t
<1>7. OnlyStack(running, t) /\ stack'[running] = t
  BY <1>1, <1>2, <1>6 DEF OnlyStack
<1>8. WellFormed(t) /\ t # <<>>
  BY <1>1, <1>3, <1>4, <1>6, EmptySeq DEF WellFormed
<1> QED
  BY <1>1, <1>4, <1>6, <1>7, <1>8 DEF s, d

LEMMA MakeStacks ==
    ASSUME TypeInv, NEW c \in Contexts, NEW argc \in 0..MaxArgs, Make(c, argc)
    PROVE  /\ WellFormed(stack'[c]) /\ OnlyStack(c, stack'[c]) /\ c # running
           /\ Len(stack'[c]) = 1 /\ stack'[c][1] = Activation("program", "made")
           /\ saved' \in [Contexts -> UContexts] /\ saved'[c] = Fresh(argc)
           /\ \A b \in Contexts \ {c} : saved'[b] = saved[b]
<1> DEFINE a == Activation("program", "made")
           t == <<a>>
<1>1. c # running
  BY DEF Make, TypeInv, TypeOK
<1>2. a \in Activations /\ a.kind = "program"
  BY ContextsAssumption DEF Activation, Activations, Kinds, Steps
<1>3. stack' = [stack EXCEPT ![c] = t] /\ saved' = [saved EXCEPT ![c] = Fresh(argc)]
  BY DEF Make
<1>4. Fresh(argc) \in UContexts /\ MaxDepth \in Nat \ {0}
  BY ContextsAssumption DEF Fresh, UContexts, TypeInv, TypeOK
<1> HIDE DEF a
<1>5. t \in Seq(Activations) /\ Len(t) = 1 /\ t[1] = a
  BY <1>2
<1> HIDE DEF t
<1>6. OnlyStack(c, t) /\ stack'[c] = t
  BY <1>3, <1>5, TopFacts DEF OnlyStack, TypeInv
<1>7. WellFormed(t)
  BY <1>2, <1>4, <1>5 DEF WellFormed
<1>8. /\ saved' \in [Contexts -> UContexts] /\ saved'[c] = Fresh(argc)
      /\ \A b \in Contexts \ {c} : saved'[b] = saved[b]
  BY <1>3, <1>4 DEF TypeInv, TypeOK, UContexts
<1> QED
  BY <1>1, <1>5, <1>6, <1>7, <1>8 DEF a

LEMMA MakeTypes ==
    ASSUME TypeInv, NEW c \in Contexts, NEW argc \in 0..MaxArgs, Make(c, argc)
    PROVE  TypeInv'
<1>1. UNCHANGED <<usage, running, iflag>> /\ iflag' \in BOOLEAN
  BY DEF Make, TypeInv, TypeOK
<1> QED
  BY <1>1, MakeStacks, OneStackTypes

LEMMA SignalTypes == TypeInv /\ Signal => TypeInv'
<1> SUFFICES ASSUME TypeInv, Signal PROVE TypeInv'
  OBVIOUS
<1>1. /\ UNCHANGED <<usage, running>> /\ iflag' \in BOOLEAN
      /\ saved' \in [Contexts -> UContexts] /\ running \in Contexts
  BY DEF Signal, TypeInv, TypeOK, UContexts
<1>2. stack'[running] # <<>>
  BY SignalGrows, EmptySeq
<1> QED
  BY <1>1, <1>2, SignalGrows, OneStackTypes

LEMMA HandlerReturnTypes == TypeInv /\ HandlerReturn => TypeInv'
<1> SUFFICES ASSUME TypeInv, HandlerReturn PROVE TypeInv'
  OBVIOUS
<1>1. /\ UNCHANGED <<usage, running>> /\ iflag' \in BOOLEAN
      /\ saved' \in [Contexts -> UContexts] /\ running \in Contexts
  BY DEF HandlerReturn, TypeInv, TypeOK, UContexts
<1> QED
  BY <1>1, HandlerReturnShrinks, OneStackTypes

LEMMA MakeKeeps ==
    ASSUME IInv, NEW c \in Contexts, NEW argc \in 0..MaxArgs, Make(c, argc)
    PROVE  IInv'
<1> DEFINE a == Activation("program", "made")
<1>1. /\ OnlyStack(c, stack'[c]) /\ c # running
      /\ Len(stack'[c]) = 1 /\ stack'[c][1] = a
      /\ saved'[c] = Fresh(argc)
      /\ \A b \in Contexts \ {c} : saved'[b] = saved[b] /\ stack'[b] = stack[b]
  BY MakeStacks DEF IInv, OnlyStack
<1>2. UNCHANGED <<usage, running, iflag>>
  BY DEF Make
<1>3. a.kind = "program" /\ a.at = "made"
  BY DEF Activation
<1>4. /\ Fresh(argc).regs = 1 /\ Fresh(argc).esp = 1
      /\ usage.handlers /\ ~usage.flag => ~Fresh(argc).flag
  BY DEF Fresh
<1> HIDE DEF a
<1>5. TypeInv'
  BY MakeTypes DEF IInv
<1>6. running \in Contexts /\ Here' = Here
  BY <1>1, <1>2, RunningFacts DEF Here, Depth
<1>7. StacksSound'
  <2>1. ASSUME NEW b \in Contexts, NEW i \in 1..(Len(stack'[b]) - 1)
        PROVE  Interrupted(stack'[b][i], usage')
    <3>1. CASE b = c
      <4>1. Len(stack'[b]) = 1
        BY <1>1, <3>1
      <4>2. i \in 1..(1 - 1)
        BY <4>1
      <4> QED
        BY <4>2
    <3>2. CASE b # c
      BY <1>1, <1>2, <3>2 DEF IInv, StacksSound
    <3> QED
      BY <3>1, <3>2
  <2>2. ASSUME NEW b \in Contexts \ {running'}, stack'[b] # <<>>
        PROVE  Waits(stack'[b][Len(stack'[b])], usage'.handlers)
    <3>1. CASE b = c
      BY <1>1, <1>3, <3>1 DEF Waits
    <3>2. CASE b # c
      BY <1>1, <1>2, <2>2, <3>2 DEF IInv, StacksSound, Innermost
    <3> QED
      BY <3>1, <3>2
  <2> QED
    BY <1>2, <1>6, <2>1, <2>2 DEF StacksSound, Innermost, IInv
<1>8. SavedSound'
  <2> SUFFICES ASSUME NEW b \in Contexts, NEW i \in 1..Len(stack'[b])
               PROVE  SavedFor(stack'[b][i], i, saved'[b], usage')
    BY DEF SavedSound
  <2>1. CASE b = c
    BY <1>1, <1>3, <1>4, <2>1 DEF SavedFor, Starting
  <2>2. CASE b # c
    BY <1>1, <1>2, <2>2 DEF IInv, SavedSound
  <2> QED
    BY <2>1, <2>2
<1>9. FlagsSound'
  BY <1>1, <1>2, <1>4 DEF IInv, FlagsSound
<1>10. Made \subseteq Made'
  <2>1. stack'[c] # <<>>
    BY <1>1, EmptySeq
  <2> QED
    BY <1>1, <2>1 DEF Made
<1>11. TargetsSound'
  <2> SUFFICES ASSUME NEW b \in Contexts, NEW i \in 1..Len(stack'[b])
               PROVE  TargetFor(b, stack'[b][i], Made')
    BY <1>10 DEF TargetsSound, IInv
  <2>1. CASE b = c
    BY <1>1, <1>3, <2>1 DEF TargetFor
  <2>2. CASE b # c
    <3>1. TargetFor(b, stack'[b][i], Made)
      BY <1>1, <2>2 DEF IInv, TargetsSound
    <3> QED
      BY <1>10, <3>1 DEF TargetFor
  <2> QED
    BY <2>1, <2>2
<1> QED
  BY <1>5, <1>7, <1>8, <1>9, <1>11 DEF IInv

\* A handler begins above what a signal may interrupt.
LEMMA SignalKeeps == IInv /\ Signal => IInv'
<1> SUFFICES ASSUME IInv, Signal PROVE IInv'
  OBVIOUS
<1> DEFINE a == Activation("handler", "run")
<1>1. /\ Len(stack'[running]) = Depth + 1 /\ stack'[running][Depth + 1] = a
      /\ \A i \in 1..Depth : stack'[running][i] = stack[running][i]
      /\ \A c \in Contexts \ {running} : stack'[c] = stack[c]
      /\ Depth \in Nat
  BY SignalGrows DEF IInv, OnlyStack
<1>2. iflag /\ iflag' = FALSE /\ UNCHANGED <<usage, running, saved>>
  BY DEF Signal
<1>3. a.kind = "handler" /\ a.at = "run"
  BY DEF Activation
<1> HIDE DEF a
<1>4. TypeInv'
  BY SignalTypes DEF IInv
<1>5. Here' = a
  BY <1>1, <1>2 DEF Here, Depth
<1>6. Interrupted(stack[running][Depth], usage)
  BY <1>2, RunningFacts DEF Runs, Here
<1>7. StacksSound'
  <2>1. ASSUME NEW c \in Contexts, NEW i \in 1..(Len(stack'[c]) - 1)
        PROVE  Interrupted(stack'[c][i], usage')
    <3>1. CASE c = running
      <4>1. i \in 1..Depth
        BY <1>1, <3>1
      <4>2. i = Depth \/ i \in 1..(Depth - 1)
        BY <1>1, <4>1
      <4> QED
        BY <1>1, <1>2, <1>6, <3>1, <4>1, <4>2, RunningFacts
    <3>2. CASE c # running
      BY <1>1, <1>2, <3>2 DEF IInv, StacksSound
    <3> QED
      BY <3>1, <3>2
  <2>2. Runs(Here', iflag', usage')
    BY <1>2, <1>3, <1>5 DEF Runs
  <2>3. ASSUME NEW c \in Contexts \ {running'}, stack'[c] # <<>>
        PROVE  Waits(stack'[c][Len(stack'[c])], usage'.handlers)
    BY <1>1, <1>2, <2>3 DEF IInv, StacksSound, Innermost
  <2> QED
    BY <2>1, <2>2, <2>3 DEF StacksSound, Innermost
<1>8. SavedSound'
  <2> SUFFICES ASSUME NEW c \in Contexts, NEW i \in 1..Len(stack'[c])
               PROVE  SavedFor(stack'[c][i], i, saved'[c], usage')
    BY DEF SavedSound
  <2>1. CASE c = running /\ i = Depth + 1
    BY <1>1, <1>3, <2>1 DEF SavedFor, Starting
  <2>2. CASE c = running /\ i # Depth + 1
    <3>1. i \in 1..Depth /\ i \in 1..Len(stack[running])
      BY <1>1, <2>2 DEF Depth
    <3> QED
      BY <1>1, <1>2, <2>2, <3>1 DEF IInv, SavedSound
  <2>3. CASE c # running
    BY <1>1, <1>2, <2>3 DEF IInv, SavedSound
  <2> QED
    BY <2>1, <2>2, <2>3
<1>9. FlagsSound'
  BY <1>2 DEF IInv, FlagsSound
<1>10. Made' = Made
  <2>1. stack[running] # <<>> /\ stack'[running] # <<>>
    BY <1>2, <1>4 DEF IInv, TypeInv, TypeOK
  <2> QED
    BY <1>1, <2>1 DEF Made
<1>11. TargetsSound'
  <2> SUFFICES ASSUME NEW c \in Contexts, NEW i \in 1..Len(stack'[c])
               PROVE  TargetFor(c, stack'[c][i], Made)
    BY <1>10 DEF TargetsSound, IInv
  <2>1. CASE c = running /\ i = Depth + 1
    BY <1>1, <1>3, <2>1 DEF TargetFor
  <2>2. CASE c = running /\ i # Depth + 1
    <3>1. i \in 1..Depth /\ i \in 1..Len(stack[running])
      BY <1>1, <2>2 DEF Depth
    <3> QED
      BY <1>1, <2>2, <3>1 DEF IInv, TargetsSound
  <2>3. CASE c # running
    BY <1>1, <2>3 DEF IInv, TargetsSound
  <2> QED
    BY <2>1, <2>2, <2>3
<1> QED
  BY <1>4, <1>7, <1>8, <1>9, <1>11 DEF IInv

LEMMA HandlerReturnKeeps == IInv /\ HandlerReturn => IInv'
<1> SUFFICES ASSUME IInv, HandlerReturn PROVE IInv'
  OBVIOUS
<1>1. /\ Len(stack'[running]) = Depth - 1 /\ Depth - 1 \in 1..MaxDepth
      /\ \A i \in 1..(Depth - 1) : stack'[running][i] = stack[running][i]
      /\ \A c \in Contexts \ {running} : stack'[c] = stack[c]
      /\ Depth \in Nat
  BY HandlerReturnShrinks DEF IInv, OnlyStack
<1>2. iflag' = TRUE /\ UNCHANGED <<usage, running, saved>>
  BY DEF HandlerReturn
<1>3. TypeInv'
  BY HandlerReturnTypes DEF IInv
<1>4. Here' = stack[running][Depth - 1] /\ Depth - 1 \in 1..(Depth - 1)
  BY <1>1, <1>2 DEF Here, Depth
<1>5. Interrupted(Here', usage)
  BY <1>4, RunningFacts
<1>6. StacksSound'
  <2>1. ASSUME NEW c \in Contexts, NEW i \in 1..(Len(stack'[c]) - 1)
        PROVE  Interrupted(stack'[c][i], usage')
    <3>1. CASE c = running
      <4>1. i \in 1..(Depth - 1)
        BY <1>1, <3>1
      <4> QED
        BY <1>1, <1>2, <3>1, <4>1, RunningFacts
    <3>2. CASE c # running
      BY <1>1, <1>2, <3>2 DEF IInv, StacksSound
    <3> QED
      BY <3>1, <3>2
  <2>2. Runs(Here', iflag', usage')
    BY <1>2, <1>5 DEF Runs
  <2>3. ASSUME NEW c \in Contexts \ {running'}, stack'[c] # <<>>
        PROVE  Waits(stack'[c][Len(stack'[c])], usage'.handlers)
    BY <1>1, <1>2, <2>3 DEF IInv, StacksSound, Innermost
  <2> QED
    BY <2>1, <2>2, <2>3 DEF StacksSound, Innermost
<1>7. SavedSound'
  <2> SUFFICES ASSUME NEW c \in Contexts, NEW i \in 1..Len(stack'[c])
               PROVE  SavedFor(stack'[c][i], i, saved'[c], usage')
    BY DEF SavedSound
  <2>1. CASE c = running
    <3>1. i \in 1..(Depth - 1)
      BY <1>1, <2>1
    <3> QED
      BY <1>1, <1>2, <2>1, <3>1, RunningFacts
  <2>2. CASE c # running
    BY <1>1, <1>2, <2>2 DEF IInv, SavedSound
  <2> QED
    BY <2>1, <2>2
<1>8. FlagsSound'
  BY <1>2 DEF IInv, FlagsSound
<1>9. Made' = Made
  <2>1. stack[running] # <<>> /\ stack'[running] # <<>>
    BY <1>2, <1>3 DEF IInv, TypeInv, TypeOK
  <2> QED
    BY <1>1, <2>1 DEF Made
<1>10. TargetsSound'
  <2> SUFFICES ASSUME NEW c \in Contexts, NEW i \in 1..Len(stack'[c])
               PROVE  TargetFor(c, stack'[c][i], Made)
    BY <1>9 DEF TargetsSound, IInv
  <2>1. CASE c = running
    <3>1. i \in 1..(Depth - 1)
      BY <1>1, <2>1
    <3> QED
      BY <1>1, <2>1, <3>1, RunningFacts
  <2>2. CASE c # running
    BY <1>1, <2>2 DEF IInv, TargetsSound
  <2> QED
    BY <2>1, <2>2
<1> QED
  BY <1>3, <1>6, <1>7, <1>8, <1>10 DEF IInv

-----------------------------------------------------------------------------
(* From one stack to another.                                              *)

\* The context that a switch goes to waits where its stack pointer says.
Arrives == Waiting(Here.ucp) /\ saved[Here.ucp].esp = Len(stack[Here.ucp])

\* What a switch leaves: the context that goes is suspended or ended, the one
\* that comes is at its popf, and all else on both stacks is as it was.
LEMMA SwitchStacks ==
    ASSUME TypeInv, Switch, Arrives
    PROVE  \E c \in Contexts \ {running} : \E d \in 1..MaxDepth :
             /\ running' = c /\ d = Len(stack[c]) /\ d = saved[c].esp /\ Waiting(c)
             /\ stack' \in [Contexts -> Seq(Activations)]
             /\ IF Here.kind = "ended" THEN stack'[running] = <<>>
                ELSE /\ Len(stack'[running]) = Depth
                     /\ stack'[running][Depth] = Moved("suspended")
                     /\ \A i \in 1..(Depth - 1) : stack'[running][i] = stack[running][i]
             /\ Len(stack'[c]) = d
             /\ stack'[c][d].kind = stack[c][d].kind /\ stack'[c][d].at = "popf"
             /\ \A i \in 1..(d - 1) : stack'[c][i] = stack[c][i]
             /\ \A b \in Contexts \ {running, c} : stack'[b] = stack[b]
<1> DEFINE c == Here.ucp
           d == Len(stack[c])
           r == running
           s == stack[r]
           t == stack[c]
           e == Depth
           sn == IF Here.kind = "ended" THEN <<>> ELSE [s EXCEPT ![e] = Moved("suspended")]
           a == [kind |-> t[d].kind, at |-> "popf", ucp |-> t[d].ucp]
           tn == [t EXCEPT ![d] = a]
<1>1. /\ r \in Contexts /\ stack \in [Contexts -> Seq(Activations)]
      /\ e \in 1..MaxDepth /\ e \in Nat /\ Here \in Activations /\ Here = s[e]
      /\ s \in Seq(Activations) /\ Len(s) = e
  BY TopFacts DEF TypeInv, Depth
<1>2. Waiting(c) /\ d = saved[c].esp /\ At("switch") /\ running' = c
  BY DEF Switch, Arrives
<1>3. c \in Contexts \ {r}
  <2>1. Here.at = "switch" /\ c \in Contexts
    BY <1>1, <1>2 DEF At, Activations
  <2>2. stack[c][Len(stack[c])].at \in {"made", "suspended"}
    BY <1>2 DEF Waiting
  <2>3. stack[r][Len(stack[r])].at = "switch"
    BY <1>1, <2>1
  <2> QED
    BY <2>1, <2>2, <2>3
<1>4. d \in 1..MaxDepth /\ t \in Seq(Activations) /\ d \in 1..Len(t)
  BY <1>1, <1>2, <1>3, TopFacts DEF Waiting, TypeInv
<1>5. t[d] \in Activations
  BY <1>4, ElementOfSeq
<1>6. a \in Activations /\ Moved("suspended") \in Activations /\ a = [t[d] EXCEPT !.at = "popf"]
  <2> DEFINE old == t[d]
  <2> HIDE DEF old
  <2>1. old \in Activations
    BY <1>5 DEF old
  <2>2. /\ [kind |-> old.kind, at |-> "popf", ucp |-> old.ucp] \in Activations
        /\ [kind |-> old.kind, at |-> "popf", ucp |-> old.ucp] = [old EXCEPT !.at = "popf"]
    BY <2>1 DEF Activations, Steps
  <2>3. Moved("suspended") \in Activations
    BY <1>1 DEF Activations, Moved, Steps
  <2> QED
    BY <2>2, <2>3 DEF old
<1>7. [s EXCEPT ![e].at = "suspended"] = [s EXCEPT ![e] = Moved("suspended")]
  <2>1. [Here EXCEPT !.at = "suspended"] = Moved("suspended")
    BY <1>1 DEF Activations, Moved
  <2> QED
    BY <1>1, <2>1
<1>8. stack' = [stack EXCEPT ![r] = sn, ![c] = tn]
  BY <1>2, <1>3, <1>6, <1>7 DEF Switch
<1>9. /\ tn \in Seq(Activations) /\ Len(tn) = d /\ tn[d] = a
      /\ \A i \in 1..(d - 1) : tn[i] = t[i]
  <2> HIDE DEF a, t
  <2>1. Len(t) = d
    BY DEF t
  <2> HIDE DEF d
  <2> QED
    BY <1>4, <1>6, <2>1, ExceptSeq
<1>10. /\ sn \in Seq(Activations)
       /\ IF Here.kind = "ended" THEN sn = <<>>
          ELSE /\ Len(sn) = e /\ sn[e] = Moved("suspended")
               /\ \A i \in 1..(e - 1) : sn[i] = s[i]
  <2>1. s \in Seq(Activations) /\ e \in 1..Len(s) /\ Len(s) = e
    BY <1>1
  <2> DEFINE left == [s EXCEPT ![e] = Moved("suspended")]
  <2> HIDE DEF s, e
  <2>2. /\ left \in Seq(Activations) /\ Len(left) = e /\ left[e] = Moved("suspended")
        /\ \A i \in 1..(e - 1) : left[i] = s[i]
    BY <1>6, <2>1, ExceptSeq
  <2>3. sn = IF Here.kind = "ended" THEN <<>> ELSE left
    OBVIOUS
  <2> HIDE DEF left, sn
  <2> QED
    BY <2>2, <2>3, EmptySeq
<1> HIDE DEF sn, tn
<1>11. /\ stack'[r] = sn /\ stack'[c] = tn
       /\ \A b \in Contexts \ {r, c} : stack'[b] = stack[b]
       /\ stack' \in [Contexts -> Seq(Activations)]
  BY <1>1, <1>3, <1>8, <1>9, <1>10
<1>12. stack'[c][d].kind = stack[c][d].kind /\ stack'[c][d].at = "popf"
  BY <1>9, <1>11
<1> HIDE DEF d, c, e
<1>13. /\ IF Here.kind = "ended" THEN stack'[r] = <<>>
          ELSE /\ Len(stack'[r]) = e
               /\ stack'[r][e] = Moved("suspended")
               /\ \A i \in 1..(e - 1) : stack'[r][i] = stack[r][i]
       /\ Len(stack'[c]) = d
       /\ \A i \in 1..(d - 1) : stack'[c][i] = stack[c][i]
  BY <1>9, <1>10, <1>11
<1>14. d = Len(stack[c])
  BY DEF d
<1> QED
  BY <1>2, <1>3, <1>4, <1>11, <1>12, <1>13, <1>14 DEF e

LEMMA ArrivalTypes == TypeInv /\ Switch /\ Arrives => TypeInv'
<1> SUFFICES ASSUME TypeInv, Switch, Arrives PROVE TypeInv'
  OBVIOUS
<1>1. PICK c \in Contexts \ {running} : \E d \in 1..MaxDepth :
        /\ running' = c /\ d = Len(stack[c])
        /\ stack' \in [Contexts -> Seq(Activations)]
        /\ IF Here.kind = "ended" THEN stack'[running] = <<>>
           ELSE /\ Len(stack'[running]) = Depth
                /\ stack'[running][Depth] = Moved("suspended")
                /\ \A i \in 1..(Depth - 1) : stack'[running][i] = stack[running][i]
        /\ Len(stack'[c]) = d
        /\ stack'[c][d].kind = stack[c][d].kind
        /\ \A i \in 1..(d - 1) : stack'[c][i] = stack[c][i]
        /\ \A b \in Contexts \ {running, c} : stack'[b] = stack[b]
  BY SwitchStacks
<1>2. PICK d \in 1..MaxDepth :
        /\ running' = c /\ d = Len(stack[c])
        /\ stack' \in [Contexts -> Seq(Activations)]
        /\ IF Here.kind = "ended" THEN stack'[running] = <<>>
           ELSE /\ Len(stack'[running]) = Depth
                /\ stack'[running][Depth] = Moved("suspended")
                /\ \A i \in 1..(Depth - 1) : stack'[running][i] = stack[running][i]
        /\ Len(stack'[c]) = d
        /\ stack'[c][d].kind = stack[c][d].kind
        /\ \A i \in 1..(d - 1) : stack'[c][i] = stack[c][i]
        /\ \A b \in Contexts \ {running, c} : stack'[b] = stack[b]
  BY <1>1
<1>3. /\ UNCHANGED <<usage, saved, iflag>> /\ running \in Contexts
      /\ Depth \in 1..MaxDepth /\ MaxDepth \in Nat /\ Here = stack[running][Depth]
      /\ Len(stack[running]) = Depth /\ Len(<<>>) = 0
  BY TopFacts DEF Switch, TypeInv, Depth
<1>4. stack'[c] # <<>>
  BY <1>2, <1>3, EmptySeq
<1>5. \A b \in Contexts : Len(stack'[b]) = Len(stack[b]) \/ stack'[b] = <<>>
  BY <1>2, <1>3
<1>6. TypeOK'
  <2>1. ASSUME NEW b \in Contexts PROVE Len(stack'[b]) <= MaxDepth
    <3>1. Len(stack[b]) <= MaxDepth
      BY DEF TypeInv, TypeOK
    <3>2. CASE stack'[b] = <<>>
      <4>1. Len(stack'[b]) = 0
        BY <1>3, <3>2
      <4> QED
        BY <1>3, <4>1
    <3> QED
      BY <1>5, <3>1, <3>2
  <2>2. stack'[running'] # <<>> /\ running' \in Contexts
    BY <1>2, <1>4
  <2>3. stack' \in [Contexts -> Seq([kind : {"program", "handler", "ended"}, at : Steps,
                                      ucp : Contexts])]
    BY <1>2 DEF Activations, Kinds
  <2> QED
    BY <1>3, <2>1, <2>2, <2>3 DEF TypeInv, TypeOK
<1>7. HandlersAboveProgram'
  <2> SUFFICES ASSUME NEW b \in Contexts, NEW i \in 1..Len(stack'[b])
               PROVE  stack'[b][i].kind = "handler" <=> i > 1
    BY DEF HandlersAboveProgram
  <2>1. stack'[b] # <<>>
    <3>1. stack'[b] = <<>> => i \in 1..0
      BY <1>3
    <3> QED
      BY <3>1
  <2>2. i \in 1..Len(stack[b])
    BY <1>5, <2>1
  <2>3. stack'[b][i].kind = stack[b][i].kind
    <3>1. CASE b = c
      <4>1. i = d \/ i \in 1..(d - 1)
        BY <1>2, <1>3, <2>2, <3>1
      <4> QED
        BY <1>2, <3>1, <4>1
    <3>2. CASE b = running
      <4>1. i = Depth \/ i \in 1..(Depth - 1)
        BY <1>3, <2>2, <3>2
      <4> QED
        BY <1>2, <1>3, <2>1, <3>2, <4>1 DEF Moved
    <3>3. CASE b \notin {running, c}
      BY <1>2, <3>3
    <3> QED
      BY <3>1, <3>2, <3>3
  <2> QED
    BY <2>2, <2>3 DEF TypeInv, HandlersAboveProgram
<1> QED
  BY <1>6, <1>7 DEF TypeInv

LEMMA SwitchTypes == TypeInv /\ Switch => TypeInv'
<1> SUFFICES ASSUME TypeInv, Switch, ~Arrives PROVE TypeInv'
  BY ArrivalTypes
<1>1. Goto("lost") /\ UNCHANGED <<usage, running, saved, iflag>>
  BY DEF Switch, Arrives
<1>2. OnlyTop(Moved("lost")) /\ Moved("lost") \in Activations
  BY <1>1, GotoMoves DEF TypeInv, Steps
<1>3. saved' \in [Contexts -> UContexts] /\ iflag' \in BOOLEAN
  BY <1>1 DEF TypeInv, TypeOK, UContexts
<1>4. Moved("lost").kind = Here.kind
  BY DEF Moved
<1> QED
  BY <1>1, <1>2, <1>3, <1>4, TopKeepsTypes

LEMMA InnermostFacts ==
    ASSUME TypeInv, NEW c \in Contexts, stack[c] # <<>>
    PROVE  Len(stack[c]) \in 1..Len(stack[c]) /\ Len(stack[c]) \in Nat
BY TopFacts DEF TypeInv

\* Whoever calls setcontext goes to a context that is not running and has not
\* ended, and that was saved where it was left.
LEMMA SwitchArrives == ASSUME IInv, At("switch") PROVE Arrives
<1> DEFINE c == Here.ucp
           d == Len(stack[c])
<1>1. c \in Made \ {running}
  BY RunningFacts DEF At, TargetFor
<1>2. c \in Contexts \ {running} /\ stack[c] # <<>>
  BY <1>1 DEF Made
<1>3. Waits(stack[c][d], usage.handlers)
  BY <1>2 DEF IInv, StacksSound, Innermost
<1>4. SavedFor(stack[c][d], d, saved[c], usage)
  BY <1>2, InnermostFacts DEF IInv, SavedSound
<1> HIDE DEF c
<1>5. Waiting(c)
  BY <1>2, <1>3 DEF Waits, Waiting
<1>6. saved[c].esp = d
  BY <1>3, <1>4 DEF Waits, SavedFor, Starting
<1> QED
  BY <1>5, <1>6 DEF Arrives, c

\* No context but the running one has an activation in the middle of a swap, other
\* than that of a program that has ended.
LEMMA OthersRest ==
    ASSUME IInv, NEW b \in Contexts \ {running}, NEW i \in 1..Len(stack[b]),
           stack[b][i].at \in {"registers", "esp", "flags", "cli", "switch"}
    PROVE  stack[b][i].kind = "ended"
<1> DEFINE n == Len(stack[b])
<1>1. stack[b] # <<>>
  <2>1. Len(<<>>) = 0
    OBVIOUS
  <2>2. stack[b] = <<>> => i \in 1..0
    BY <2>1
  <2> QED
    BY <2>2
<1>2. n \in 1..n /\ n \in Nat
  BY <1>1, InnermostFacts DEF IInv
<1>3. Waits(stack[b][n], usage.handlers)
  BY <1>1 DEF IInv, StacksSound, Innermost
<1>4. i # n
  BY <1>3 DEF Waits
<1>5. i \in 1..(n - 1) /\ n > 1
  BY <1>2, <1>4
<1>6. Interrupted(stack[b][i], usage)
  BY <1>5 DEF IInv, StacksSound
<1>7. stack[b][n].kind = "handler"
  BY <1>2, <1>5 DEF IInv, TypeInv, HandlersAboveProgram
<1>8. usage.handlers
  BY <1>3, <1>7 DEF Waits
<1> QED
  BY <1>6, <1>8 DEF Interrupted, Starting

LEMMA SwitchKeeps == IInv /\ Switch => IInv'
<1> SUFFICES ASSUME IInv, Switch PROVE IInv'
  OBVIOUS
<1> DEFINE h == usage.handlers
<1>0. Arrives
  BY SwitchArrives DEF Switch
<1>1. PICK c \in Contexts \ {running}, d \in 1..MaxDepth :
        /\ running' = c /\ d = Len(stack[c]) /\ Waiting(c)
        /\ IF Here.kind = "ended" THEN stack'[running] = <<>>
           ELSE /\ Len(stack'[running]) = Depth
                /\ stack'[running][Depth] = Moved("suspended")
                /\ \A i \in 1..(Depth - 1) : stack'[running][i] = stack[running][i]
        /\ Len(stack'[c]) = d
        /\ stack'[c][d].kind = stack[c][d].kind /\ stack'[c][d].at = "popf"
        /\ \A i \in 1..(d - 1) : stack'[c][i] = stack[c][i]
        /\ \A b \in Contexts \ {running, c} : stack'[b] = stack[b]
  <2>1. TypeInv
    BY DEF IInv
  <2> QED
    BY <1>0, <2>1, SwitchStacks
<1>2. /\ UNCHANGED <<usage, saved, iflag>> /\ Here.at = "switch"
      /\ running \in Contexts
      /\ Depth \in 1..MaxDepth /\ MaxDepth \in Nat /\ Here = stack[running][Depth]
      /\ Len(stack[running]) = Depth /\ Len(<<>>) = 0
  BY TopFacts DEF Switch, At, IInv, TypeInv, Depth
<1>3. TypeInv'
  BY SwitchTypes DEF IInv
<1>4. ~iflag /\ (Here.kind # "ended" => Here.kind = IF h THEN "handler" ELSE "program")
  BY <1>2, RunningFacts DEF Runs, Interrupted, Starting, Activations, Kinds
<1>5. Waits(stack[c][d], h)
  BY <1>1 DEF Waiting, IInv, StacksSound, Innermost
<1>6. Here' = stack'[c][d]
  BY <1>1 DEF Here, Depth
<1>7. StacksSound'
  <2>1. ASSUME NEW b \in Contexts, NEW i \in 1..(Len(stack'[b]) - 1)
        PROVE  Interrupted(stack'[b][i], usage)
    <3>1. CASE b = c
      <4>1. i \in 1..(d - 1) /\ stack'[b][i] = stack[c][i]
        BY <1>1, <3>1
      <4> QED
        BY <1>1, <4>1 DEF IInv, StacksSound
    <3>2. CASE b = running /\ Here.kind # "ended"
      <4>1. i \in 1..(Depth - 1)
        BY <1>1, <3>2
      <4> QED
        BY <1>1, <3>2, <4>1, RunningFacts
    <3>3. CASE b = running /\ Here.kind = "ended"
      <4>1. i \in 1..(0 - 1)
        BY <1>1, <1>2, <3>3
      <4> QED
        BY <4>1
    <3>4. CASE b \notin {running, c}
      BY <1>1, <3>4 DEF IInv, StacksSound
    <3> QED
      BY <3>1, <3>2, <3>3, <3>4
  <2>2. Runs(Here', iflag', usage)
    BY <1>1, <1>2, <1>4, <1>5, <1>6 DEF Runs, Waits
  <2>3. ASSUME NEW b \in Contexts \ {running'}, stack'[b] # <<>>
        PROVE  Waits(stack'[b][Len(stack'[b])], h)
    <3>1. CASE b = running
      BY <1>1, <1>4, <2>3, <3>1 DEF Waits, Moved
    <3>2. CASE b # running
      BY <1>1, <2>3, <3>2 DEF IInv, StacksSound, Innermost
    <3> QED
      BY <3>1, <3>2
  <2> QED
    BY <1>2, <2>1, <2>2, <2>3 DEF StacksSound, Innermost
<1>8. SavedSound'
  <2> SUFFICES ASSUME NEW b \in Contexts, NEW i \in 1..Len(stack'[b])
               PROVE  SavedFor(stack'[b][i], i, saved[b], usage)
    BY <1>2 DEF SavedSound
  <2>1. CASE b = c
    <3>1. SavedFor(stack[c][i], i, saved[c], usage) /\ i \in 1..d
      BY <1>1, <2>1 DEF IInv, SavedSound
    <3>2. CASE i = d
      BY <1>1, <1>5, <2>1, <3>1, <3>2 DEF SavedFor, Waits, Starting
    <3>3. CASE i # d
      <4>1. i \in 1..(d - 1)
        BY <1>2, <3>1, <3>3
      <4> QED
        BY <1>1, <2>1, <3>1, <4>1
    <3> QED
      BY <3>2, <3>3
  <2>2. CASE b = running /\ Here.kind # "ended"
    <3>1. i \in 1..Depth
      BY <1>1, <2>2
    <3>2. CASE i = Depth
      BY <1>1, <1>2, <2>2, <3>2, RunningFacts DEF SavedFor, Moved, Starting
    <3>3. CASE i # Depth
      <4>1. i \in 1..(Depth - 1)
        BY <1>2, <3>1, <3>3
      <4> QED
        BY <1>1, <2>2, <4>1, RunningFacts
    <3> QED
      BY <3>2, <3>3
  <2>3. CASE b = running /\ Here.kind = "ended"
    <3>1. i \in 1..0
      BY <1>1, <1>2, <2>3
    <3> QED
      BY <3>1
  <2>4. CASE b \notin {running, c}
    BY <1>1, <2>4 DEF IInv, SavedSound
  <2> QED
    BY <2>1, <2>2, <2>3, <2>4
<1>9. FlagsSound'
  BY <1>2 DEF IInv, FlagsSound
<1>10. stack'[c] # <<>> /\ stack[c] # <<>>
  BY <1>1, <1>2 DEF Waiting
<1>11. ASSUME Here.kind # "ended" PROVE Made' = Made
  <2>1. stack'[running] # <<>> /\ stack[running] # <<>>
    BY <1>1, <1>2, <1>11
  <2> QED
    BY <1>1, <1>10, <2>1 DEF Made
<1>12. Made' \cup {running} = Made
  BY <1>1, <1>2, <1>10 DEF Made, IInv, TypeInv, TypeOK
<1>13. First \in Made'
  <2>1. Here.kind = "ended" => First # running
    BY RunningFacts DEF TargetFor
  <2> QED
    BY <1>11, <1>12, <2>1 DEF IInv, TargetsSound
\* Nobody was on the way to a program that has ended.
<1>14. ASSUME NEW b \in Contexts, NEW a, TargetFor(b, a, Made),
              b # running, a.at \in {"registers", "esp", "flags", "cli", "switch"} =>
                a.kind = "ended"
       PROVE  TargetFor(b, a, Made')
  BY <1>13, <1>14 DEF TargetFor
<1>15. TargetsSound'
  <2> SUFFICES ASSUME NEW b \in Contexts, NEW i \in 1..Len(stack'[b])
               PROVE  TargetFor(b, stack'[b][i], Made')
    BY <1>13 DEF TargetsSound
  <2>1. ASSUME i \in 1..Len(stack[b]), stack'[b][i] = stack[b][i], b # running
        PROVE  TargetFor(b, stack'[b][i], Made')
    <3>1. TargetFor(b, stack[b][i], Made)
      BY <2>1 DEF IInv, TargetsSound
    <3> QED
      BY <1>14, <2>1, <3>1, OthersRest
  <2>2. CASE b = c
    <3>1. CASE i = d
      <4>1. stack'[b][i].at = "popf" /\ stack'[b][i].kind # "ended"
        BY <1>1, <1>5, <2>2, <3>1 DEF Waits
      <4> QED
        BY <4>1 DEF TargetFor
    <3>2. CASE i # d
      <4>1. i \in 1..(d - 1) /\ i \in 1..Len(stack[b])
        BY <1>1, <1>2, <2>2, <3>2
      <4> QED
        BY <1>1, <2>1, <2>2, <4>1
    <3> QED
      BY <3>1, <3>2
  <2>3. CASE b = running /\ Here.kind # "ended"
    <3>1. i \in 1..Depth
      BY <1>1, <2>3
    <3>2. CASE i = Depth
      BY <1>1, <2>3, <3>2, RunningFacts DEF TargetFor, Moved
    <3>3. CASE i # Depth
      <4>1. i \in 1..(Depth - 1)
        BY <1>2, <3>1, <3>3
      <4> QED
        BY <1>1, <1>11, <2>3, <4>1, RunningFacts
    <3> QED
      BY <3>2, <3>3
  <2>4. CASE b = running /\ Here.kind = "ended"
    <3>1. i \in 1..0
      BY <1>1, <1>2, <2>4
    <3> QED
      BY <3>1
  <2>5. CASE b \notin {running, c}
    BY <1>1, <2>1, <2>5
  <2> QED
    BY <2>2, <2>3, <2>4, <2>5
<1> QED
  BY <1>3, <1>7, <1>8, <1>9, <1>15 DEF IInv

-----------------------------------------------------------------------------
(* Invariance.                                                             *)

LEMMA InitTypes == Init => TypeInv
<1> SUFFICES ASSUME Init PROVE TypeInv
  OBVIOUS
<1> DEFINE a == Activation("program", "run")
<1>1. First \in Contexts /\ MaxDepth \in Nat \ {0} /\ MaxArgs \in Nat /\ running = First
  BY ContextsAssumption DEF Init
<1>2. a \in Activations /\ a.kind = "program"
  BY <1>1 DEF Activation, Activations, Kinds, Steps
<1> HIDE DEF a
<1>3. /\ <<a>> \in Seq(Activations) /\ Len(<<a>>) = 1 /\ <<a>>[1] = a /\ <<a>> # <<>>
      /\ <<>> \in Seq(Activations) /\ Len(<<>>) = 0
  BY <1>2
<1>4. stack = [c \in Contexts |-> IF c = First THEN <<a>> ELSE <<>>]
  BY DEF Init, a
<1>5. /\ stack \in [Contexts -> Seq(Activations)] /\ stack[running] # <<>>
      /\ \A c \in Contexts : Len(stack[c]) <= MaxDepth
  BY <1>1, <1>3, <1>4
<1>6. /\ usage \in Usages /\ iflag \in BOOLEAN /\ saved = [c \in Contexts |-> Fresh(0)]
      /\ usage.flag \in BOOLEAN
  BY ContextsAssumption DEF Init
<1>7. Fresh(0) \in UContexts
  BY <1>1, <1>6 DEF Fresh, UContexts
<1>8. TypeOK
  BY <1>1, <1>5, <1>6, <1>7 DEF TypeOK, Activations, Kinds, UContexts
<1>9. HandlersAboveProgram
  BY <1>2, <1>3, <1>4 DEF HandlersAboveProgram
<1> QED
  BY <1>8, <1>9 DEF TypeInv

LEMMA Initially == Init => IInv
<1> SUFFICES ASSUME Init PROVE IInv
  OBVIOUS
<1> DEFINE a == Activation("program", "run")
<1>1. TypeInv
  BY InitTypes
<1>2. /\ running = First /\ First \in Contexts /\ iflag = TRUE /\ usage \in Usages
      /\ saved = [c \in Contexts |-> Fresh(0)]
  BY ContextsAssumption DEF Init
<1>3. a.kind = "program" /\ a.at = "run"
  BY DEF Activation
<1> HIDE DEF a
<1>4. stack = [c \in Contexts |-> IF c = First THEN <<a>> ELSE <<>>]
  BY DEF Init, a
<1>5. Len(<<a>>) = 1 /\ <<a>>[1] = a /\ Len(<<>>) = 0
  OBVIOUS
<1>6. /\ Len(stack[First]) = 1 /\ stack[First][1] = a
      /\ \A c \in Contexts \ {First} : stack[c] = <<>>
  BY <1>2, <1>4, <1>5
<1>7. \A c \in Contexts : Len(stack[c]) = 1 \/ Len(stack[c]) = 0
  BY <1>5, <1>6
<1>8. StacksSound
  <2>1. ASSUME NEW c \in Contexts, NEW i \in 1..(Len(stack[c]) - 1)
        PROVE  Interrupted(stack[c][i], usage)
    <3>1. i \in 1..(1 - 1) \/ i \in 1..(0 - 1)
      BY <1>7
    <3> QED
      BY <3>1
  <2>2. Here = a
    BY <1>2, <1>6 DEF Here, Depth
  <2>3. Runs(Here, iflag, usage)
    BY <1>2, <1>3, <2>2 DEF Runs, Interrupted
  <2> QED
    BY <1>2, <1>6, <2>1, <2>3 DEF StacksSound
<1>9. SavedSound
  <2> SUFFICES ASSUME NEW c \in Contexts, NEW i \in 1..Len(stack[c])
               PROVE  SavedFor(stack[c][i], i, saved[c], usage)
    BY DEF SavedSound
  <2>1. CASE c = First
    BY <1>3, <1>6, <2>1 DEF SavedFor, Starting
  <2>2. CASE c # First
    <3>1. i \in 1..0
      BY <1>5, <1>6, <2>2
    <3> QED
      BY <3>1
  <2> QED
    BY <2>1, <2>2
<1>10. FlagsSound
  BY <1>2 DEF FlagsSound, Fresh
<1>11. TargetsSound
  <2>1. First \in Made
    BY <1>1, <1>2 DEF Made, TypeInv, TypeOK
  <2>2. ASSUME NEW c \in Contexts, NEW i \in 1..Len(stack[c])
        PROVE  TargetFor(c, stack[c][i], Made)
    <3>1. CASE c = First
      BY <1>3, <1>6, <3>1 DEF TargetFor
    <3>2. CASE c # First
      <4>1. i \in 1..0
        BY <1>5, <1>6, <3>2
      <4> QED
        BY <4>1
    <3> QED
      BY <3>1, <3>2
  <2> QED
    BY <2>1, <2>2 DEF TargetsSound
<1> QED
  BY <1>1, <1>8, <1>9, <1>10, <1>11 DEF IInv

\* The steps that only move the innermost activation keep the types, whoever
\* switches.
LEMMA MovesKeepTypes ==
    ASSUME TypeInv,
           \/ \E c \in Contexts : Swap(c)
           \/ SaveRegisters \/ SaveStack \/ SaveFlags
           \/ Terminate \/ Cli \/ PopFlags \/ LoadRegisters
    PROVE  TypeInv'
<1>1. /\ Here \in Activations /\ Depth \in 1..MaxDepth /\ running \in Contexts
      /\ saved \in [Contexts -> UContexts] /\ iflag \in BOOLEAN
  BY TopFacts DEF TypeInv, TypeOK, UContexts
<1>2. UNCHANGED <<usage, running>> /\ iflag' \in BOOLEAN
  BY <1>1 DEF Swap, SaveRegisters, SaveStack, SaveFlags, Terminate, Cli, PopFlags,
              LoadRegisters, UContexts
<1>3. saved' \in [Contexts -> UContexts]
  <2>1. ASSUME NEW u, saved' = [saved EXCEPT ![running] = u], u \in UContexts
        PROVE  saved' \in [Contexts -> UContexts]
    BY <1>1, <2>1
  <2> DEFINE v == saved[running]
  <2>2. v \in UContexts
    BY <1>1
  <2>3. CASE SaveRegisters
    <3>1. [v EXCEPT !.regs = Depth] \in UContexts
      BY <1>1, <2>2 DEF UContexts
    <3> QED
      BY <2>1, <2>3, <3>1 DEF SaveRegisters
  <2>4. CASE SaveStack
    <3>1. [v EXCEPT !.esp = Depth] \in UContexts
      BY <1>1, <2>2 DEF UContexts
    <3> QED
      BY <2>1, <2>4, <3>1 DEF SaveStack
  <2>5. CASE SaveFlags
    <3>1. [v EXCEPT !.flag = iflag] \in UContexts
      BY <1>1, <2>2 DEF UContexts
    <3> QED
      BY <2>1, <2>5, <3>1 DEF SaveFlags
  <2>6. CASE UNCHANGED saved
    BY <1>1, <2>6
  <2> QED
    BY <2>3, <2>4, <2>5, <2>6 DEF Swap, Terminate, Cli, PopFlags, LoadRegisters
<1>4. ASSUME NEW step \in Steps, Goto(step)
      PROVE  \E a \in Activations : OnlyTop(a) /\ a.kind = Here.kind
  BY <1>4, GotoMoves DEF Moved, TypeInv
<1>5. ASSUME NEW c \in Contexts, Swap(c)
      PROVE  \E a \in Activations : OnlyTop(a) /\ a.kind = Here.kind
  BY <1>5, SwapMoves
<1>6. ASSUME Terminate
      PROVE  \E a \in Activations :
                OnlyTop(a) /\ (a.kind = "handler" <=> Here.kind = "handler")
  <2> DEFINE a == [kind |-> "ended", at |-> "cli", ucp |-> First]
  <2>1. a \in Activations /\ a.kind = "ended"
    BY ContextsAssumption DEF Activations, Kinds, Steps
  <2>2. stack' = [stack EXCEPT ![running] = [@ EXCEPT ![Depth] = a]] /\ Here.kind = "program"
    BY <1>6 DEF Terminate
  <2>3. OnlyTop(a)
    BY <2>1, <2>2, TopReplaced DEF TypeInv
  <2> HIDE DEF a
  <2> QED
    BY <2>1, <2>2, <2>3
<1>7. \E a \in Activations : OnlyTop(a) /\ (a.kind = "handler" <=> Here.kind = "handler")
  <2>1. CASE \E step \in Steps : Goto(step)
    BY <1>4, <2>1
  <2>2. ("esp" \in Steps /\ "flags" \in Steps /\ "cli" \in Steps /\ "switch" \in Steps)
        /\ ("load" \in Steps /\ Loaded \in Steps)
    BY DEF Steps, Loaded
  <2>3. SaveRegisters \/ SaveStack \/ SaveFlags \/ Cli \/ PopFlags \/ LoadRegisters
        => \E step \in Steps : Goto(step)
    BY <2>2 DEF SaveRegisters, SaveStack, SaveFlags, Cli, PopFlags, LoadRegisters
  <2> QED
    BY <1>5, <1>6, <2>1, <2>3
<1> QED
  BY <1>2, <1>3, <1>7, TopKeepsTypes

LEMMA TypesKeep == TypeInv /\ [Next]_vars => TypeInv'
<1> SUFFICES ASSUME TypeInv, [Next]_vars PROVE TypeInv'
  OBVIOUS
<1>1. ASSUME NEW c \in Contexts, NEW argc \in 0..MaxArgs, Make(c, argc)
      PROVE  TypeInv'
  BY <1>1, MakeTypes
<1>2. CASE Signal
  BY <1>2, SignalTypes
<1>3. CASE HandlerReturn
  BY <1>3, HandlerReturnTypes
<1>4. CASE Switch
  BY <1>4, SwitchTypes
<1>5. CASE \/ \E c \in Contexts : Swap(c)
           \/ SaveRegisters \/ SaveStack \/ SaveFlags
           \/ Terminate \/ Cli \/ PopFlags \/ LoadRegisters
  BY <1>5, MovesKeepTypes
<1>6. CASE UNCHANGED vars
  BY <1>6 DEF vars, TypeInv, TypeOK, HandlersAboveProgram
<1> QED
  BY <1>1, <1>2, <1>3, <1>4, <1>5, <1>6 DEF Next

LEMMA NextKeeps == ASSUME NotBoth PROVE IInv /\ [Next]_vars => IInv'
<1> SUFFICES ASSUME IInv, [Next]_vars PROVE IInv'
  OBVIOUS
<1>1. ASSUME NEW c \in Contexts, NEW argc \in 0..MaxArgs, Make(c, argc)
      PROVE  IInv'
  BY <1>1, MakeKeeps
<1>2. ASSUME NEW c \in Contexts, Swap(c) PROVE IInv'
  BY <1>2, SwapKeeps
<1>3. CASE Signal \/ HandlerReturn
  BY <1>3, SignalKeeps, HandlerReturnKeeps
<1>4. CASE SaveRegisters \/ SaveStack \/ SaveFlags
  BY <1>4, SaveRegistersKeeps, SaveStackKeeps, SaveFlagsKeeps
<1>5. CASE Terminate \/ Cli \/ Switch
  BY <1>5, TerminateKeeps, CliKeeps, SwitchKeeps
<1>6. CASE PopFlags \/ LoadRegisters
  BY <1>6, PopFlagsKeeps, LoadRegistersKeeps
<1>7. CASE UNCHANGED vars
  <2>1. UNCHANGED <<usage, running, stack, saved, iflag>>
    BY <1>7 DEF vars
  <2> QED
    BY <2>1 DEF IInv, TypeInv, TypeOK, HandlersAboveProgram, StacksSound, SavedSound,
                FlagsSound, TargetsSound, Made, Here, Depth, Innermost
<1> QED
  BY <1>1, <1>2, <1>3, <1>4, <1>5, <1>6, <1>7 DEF Next

LEMMA TypesHold == Spec => []TypeInv
  BY InitTypes, TypesKeep, PTL DEF Spec

LEMMA Invariance == ASSUME NotBoth PROVE Spec => []IInv
<1>1. Init => IInv
  BY Initially
<1>2. IInv /\ [Next]_vars => IInv'
  BY NextKeeps
<1> QED
  BY <1>1, <1>2, PTL DEF Spec

-----------------------------------------------------------------------------
(* makecontext's arithmetic.                                               *)

LEMMA AlignedDown ==
    ASSUME NEW a \in Nat
    PROVE  Aligned(a) \in Nat /\ Aligned(a) <= a /\ a <= Aligned(a) + 15 /\ Aligned(a) % 16 = 0
  BY DEF Aligned

LEMMA StackHolds ==
    ASSUME NEW size \in Nat, NEW argc \in Nat, NEW odd \in 0..15, size >= 4 * argc + 24
    PROVE  /\ \A w \in WordsStored(size, argc, odd) : 0 <= w /\ w + 4 <= size
           /\ LinkRead(size, argc, odd) \in WordsStored(size, argc, odd)
           /\ (odd + StackPointer(size, argc, odd) + 4) % 16 = 0
<1> DEFINE end == odd + size - 4 * argc - 4
           bottom == Aligned(end)
           pointer == StackPointer(size, argc, odd)
<1>1. end \in Nat /\ end >= odd + 20
  OBVIOUS
<1>2. bottom \in Nat /\ bottom <= end /\ end <= bottom + 15 /\ bottom % 16 = 0
  <2> HIDE DEF end
  <2> QED
    BY <1>1, AlignedDown
<1>3. pointer = bottom - 4 - odd
  BY DEF StackPointer
<1> HIDE DEF bottom, pointer
<1>4. pointer \in Nat /\ pointer + 4 * argc + 8 <= size
  BY <1>1, <1>2, <1>3
<1>5. ASSUME NEW w \in WordsStored(size, argc, odd) PROVE 0 <= w /\ w + 4 <= size
  <2>1. PICK i \in 0..(argc + 1) : w = pointer + 4 * i
    BY <1>5 DEF WordsStored, pointer
  <2>2. i \in Nat /\ 4 * i <= 4 * argc + 4
    OBVIOUS
  <2> QED
    BY <1>4, <2>1, <2>2
<1>6. LinkRead(size, argc, odd) \in WordsStored(size, argc, odd)
  <2>1. argc + 1 \in 0..(argc + 1)
    OBVIOUS
  <2>2. LinkRead(size, argc, odd) = pointer + 4 * (argc + 1)
    BY <1>4 DEF LinkRead, pointer
  <2>3. pointer + 4 * (argc + 1) \in WordsStored(size, argc, odd)
    BY <2>1 DEF WordsStored, pointer
  <2> QED
    BY <2>2, <2>3
<1>7. (odd + pointer + 4) % 16 = 0
  <2>1. odd + pointer + 4 = bottom
    BY <1>2, <1>3
  <2> QED
    BY <1>2, <2>1
<1> QED
  BY <1>5, <1>6, <1>7 DEF pointer

-----------------------------------------------------------------------------
(* The theorems.                                                           *)

\* The variables have their types whoever calls swapcontext: no stack is deeper
\* than the bound, and the running context always has one.
THEOREM ContextsTypeCorrect == Spec => []TypeOK
<1>1. TypeInv => TypeOK
  BY DEF TypeInv
<1> QED
  BY <1>1, TypesHold, PTL

\* Whatever number of arguments makecontext is given, and wherever a stack that
\* has room for them begins, they lie in it and the end of the function finds
\* uc_link behind them.
THEOREM MadeStacksHoldArguments == Spec => []StackHoldsArguments
<1>1. TypeInv => StackHoldsArguments
  <2> SUFFICES ASSUME TypeInv, NEW c \in Contexts, NEW size \in StackSizes,
                      NEW odd \in 0..15, size >= 4 * saved[c].argc + 24
               PROVE  LET argc == saved[c].argc
                      IN  /\ \A w \in WordsStored(size, argc, odd) : 0 <= w /\ w + 4 <= size
                          /\ LinkRead(size, argc, odd) \in WordsStored(size, argc, odd)
                          /\ (odd + StackPointer(size, argc, odd) + 4) % 16 = 0
    BY DEF StackHoldsArguments
  <2>1. saved[c].argc \in 0..MaxArgs
    BY DEF TypeInv, TypeOK
  <2>2. saved[c].argc \in Nat /\ size \in Nat
    BY <2>1, ContextsAssumption
  <2> QED
    BY <2>2, StackHolds
<1> QED
  BY <1>1, TypesHold, PTL

\* If programs call swapcontext or handlers do, but not both, setcontext can always
\* go back to where swapcontext left: the ucontext_t of a context that does not run
\* holds the stack pointer and the registers of its innermost activation.
THEOREM ContextsSavedWhereLeft == ASSUME NotBoth PROVE Spec => []SavedWhereLeft
<1>1. IInv => SavedWhereLeft
  <2> SUFFICES ASSUME IInv, NEW c \in Contexts \ {running}, stack[c] # <<>>
               PROVE  /\ Waiting(c)
                      /\ saved[c].esp = Len(stack[c]) /\ saved[c].regs = Len(stack[c])
    BY DEF SavedWhereLeft
  <2> DEFINE a == Innermost(c)
  <2>1. Waits(a, usage.handlers)
    BY DEF IInv, StacksSound
  <2>2. SavedFor(a, Len(stack[c]), saved[c], usage)
    BY InnermostFacts DEF IInv, SavedSound, Innermost
  <2>3. a.at \in {"made", "suspended"} /\ a.kind # "ended"
    BY <2>1 DEF Waits
  <2> QED
    BY <2>2, <2>3 DEF SavedFor, Starting, Waiting, Innermost
<1> QED
  BY <1>1, Invariance, PTL

\* If programs call swapcontext or handlers do, but not both, the registers that
\* setcontext loads are those of the activation whose stack it has loaded, and it
\* always has one to go to.  The exception is a program that begins: if handlers
\* switch and its context was made with interrupts on, as getcontext makes it in
\* the running kernel, it can begin with the registers of a handler.
THEOREM ContextsLostOnlyAtStart == ASSUME NotBoth PROVE Spec => []LostOnlyAtStart
<1>1. IInv => LostOnlyAtStart
  <2> SUFFICES ASSUME IInv, At("lost") \/ (At("load") /\ saved[running].regs # Depth)
               PROVE  StartsHit(usage) /\ Here.kind = "program"
    BY DEF LostOnlyAtStart, StartsHit
  <2>1. CASE At("lost")
    BY <2>1, RunningFacts DEF At, Runs, Interrupted, Starting
  <2>2. CASE At("load") /\ saved[running].regs # Depth
    <3>1. Here.kind # "ended"
      BY <2>2, RunningFacts DEF At, Runs, Interrupted, Starting
    <3> QED
      BY <2>2, <3>1, RunningFacts DEF At, SavedFor, Starting
  <2> QED
    BY <2>1, <2>2
<1> QED
  BY <1>1, Invariance, PTL

\* If programs call swapcontext or handlers do, but not both, a program always runs
\* with interrupts on, however its context was left and resumed.
THEOREM ContextsProgramsInterruptible ==
    ASSUME NotBoth PROVE Spec => []ProgramsInterruptible
<1>1. IInv => ProgramsInterruptible
  BY DEF IInv, StacksSound, Runs, ProgramsInterruptible, At
<1> QED
  BY <1>1, Invariance, PTL
=============================================================================
