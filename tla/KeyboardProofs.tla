--------------------------- MODULE KeyboardProofs ---------------------------
(***************************************************************************)
(* Proofs of the keyboard's invariants, and that handler and reader        *)
(* implement LineInput, for every set of keys and of line lengths.         *)
(***************************************************************************)
EXTENDS Keyboard, SequenceTheorems, WellFoundedInduction, TLAPS

-----------------------------------------------------------------------------
(* The inductive invariant.                                                *)

\* What each store of the reader leaves for a key that comes right after it.
\* Until the first read returns, the buffer counts as not ready, and only an
\* index and a limit that are both 0 keep keys out; afterwards the status does.
StoresSound ==
    /\ pc = "idle" => ~keyboard_buffer /\ (buffer_ready_status <=> served)
    /\ pc # "idle" => size \in Limits
    /\ pc \in {"index", "limit"} =>
        keyboard_buffer /\ (buffer_ready_status <=> served) /\ mem = Blank
    /\ pc \in {"idle", "index", "limit"} /\ ~served =>
        keyboard_buffer_index = 0 /\ keyboard_buffer_limit = 0
    /\ pc = "limit" => keyboard_buffer_index = 0
    /\ pc \in {"status", "spin"} =>
        keyboard_buffer_limit = size /\ keyboard_buffer_index <= size
    /\ pc = "status" /\ served =>
        /\ keyboard_buffer /\ buffer_ready_status
        /\ keyboard_buffer_index = 0 /\ mem = Blank
    /\ pc = "status" /\ ~served => (buffer_ready_status <=> ~keyboard_buffer)
    /\ pc = "spin" /\ keyboard_buffer => ~buffer_ready_status

\* A line that is ended has a NUL, in the line or right behind it.
EndedTerminated ==
    Ended => \E i \in 0..keyboard_buffer_index : mem[i] = "nul"

IInv == TypeOK /\ NoStuckModifiers /\ KeysStayInBuffer /\ StoresSound /\ EndedTerminated

-----------------------------------------------------------------------------
(* Least elements, strings and characters.                                 *)

\* A set of natural numbers that is not empty has a least element.
LEMMA LeastNatural ==
    ASSUME NEW T, T \subseteq Nat, T # {}
    PROVE  \E i \in T : \A j \in T : i <= j
<1> DEFINE R == OpToRel(<, Nat)
<1>1. IsWellFoundedOn(R, Nat)
  BY NatLessThanWellFounded
<1>2. \A i, j \in Nat : <<j, i>> \in R <=> j < i
  BY DEF OpToRel
<1> HIDE DEF R
<1>3. PICK i \in T : \A j \in T : ~(<<j, i>> \in R)
  BY <1>1, WFMin
<1>4. ASSUME NEW j \in T PROVE i <= j
  <2>1. ~(j < i)
    BY <1>2, <1>3
  <2> QED
    BY <2>1
<1> QED
  BY <1>4

\* The longest line is one of the lines.
LEMMA MaxLimitType ==
    /\ MaxLimit \in Limits /\ MaxLimit \in Nat \ {0}
    /\ \A n \in Limits : n \in Nat \ {0} /\ n <= MaxLimit
BY KeyboardAssumption DEF MaxLimit

Bytes == Characters \cup {"old"}

Mem == [0..MaxLimit -> Bytes]

\* What the handler may have to write.
LEMMA CharacterTypes ==
    /\ "nul" \in Characters /\ "nl" \in Characters /\ "old" \notin Characters
    /\ \A k \in DOMAIN Table : Translate(k) \in Characters \cup {"bs"}
<1>1. \A c : c # "bs" =>
          (c \in Characters <=> \E k \in DOMAIN Table, i \in 1..4 : c = Table[k][i])
  BY DEF Characters
<1>2. /\ "up" \in DOMAIN Table /\ "enter" \in DOMAIN Table
      /\ Table["up"][1] = "nul" /\ Table["enter"][1] = "nl"
  BY DEF Table
<1>3. "nul" \in Characters /\ "nl" \in Characters
  BY <1>1, <1>2
<1>4. "old" \notin Characters
  BY DEF Characters, Table
<1>5. \A k \in DOMAIN Table : \E i \in 1..4 : Translate(k) = Table[k][i]
  BY DEF Translate
<1>6. \A k \in DOMAIN Table : Translate(k) \in Characters \cup {"bs"}
  BY <1>1, <1>5
<1> QED
  BY <1>3, <1>4, <1>6

LEMMA FunctionSequence ==
    ASSUME NEW S, NEW n \in Nat, NEW f \in [1..n -> S]
    PROVE  f \in Seq(S) /\ Len(f) = n
<1>1. f \in Seq(S)
  BY SeqDef
<1> QED
  BY <1>1, LenProperties

\* A buffer with a NUL holds a string, which the first NUL ends.
LEMMA StringEnds ==
    ASSUME NEW m \in Mem, NEW e \in 0..MaxLimit, m[e] = "nul"
    PROVE  \E len \in 0..e :
              /\ m[len] = "nul" /\ \A j \in 0..e : m[j] = "nul" => len <= j
              /\ CString(m) = [i \in 1..len |-> m[i - 1]]
              /\ CString(m) \in Seq(Bytes)
<1> DEFINE ends == {i \in DOMAIN m : m[i] = "nul"}
           len == CHOOSE i \in ends : \A j \in ends : i <= j
<1>1. MaxLimit \in Nat /\ DOMAIN m = 0..MaxLimit
  BY MaxLimitType DEF Mem
<1>2. ends \subseteq Nat /\ e \in ends /\ ends \subseteq 0..MaxLimit
  BY <1>1
<1>3. CString(m) = [i \in 1..len |-> m[i - 1]]
  BY DEF CString
<1> HIDE DEF ends
<1>4. len \in ends /\ \A j \in ends : len <= j
  BY <1>2, LeastNatural
<1> HIDE DEF len
<1>5. len \in 0..e
  BY <1>2, <1>4
<1>6. m[len] = "nul" /\ \A j \in 0..e : m[j] = "nul" => len <= j
  BY <1>1, <1>4 DEF ends
<1>7. CString(m) \in [1..len -> Bytes]
  BY <1>1, <1>3, <1>5 DEF Mem
<1>8. CString(m) \in Seq(Bytes)
  BY <1>5, <1>7, FunctionSequence
<1> QED
  BY <1>3, <1>5, <1>6, <1>8

-----------------------------------------------------------------------------
(* The steps.                                                              *)

LEMMA Initially == Init => IInv
<1> SUFFICES ASSUME Init PROVE IInv
  OBVIOUS
<1>1. TypeOK
  BY MaxLimitType, EmptySeq DEF Init, TypeOK, Blank
<1>2. NoStuckModifiers /\ KeysStayInBuffer
  BY DEF Init, NoStuckModifiers, KeysStayInBuffer, Blank
<1>3. StoresSound /\ EndedTerminated
  BY DEF Init, StoresSound, EndedTerminated, Ended
<1> QED
  BY <1>1, <1>2, <1>3 DEF IInv

\* The modifiers: nothing but the flags and the keys that are down.
LEMMA FlagsKeep ==
    ASSUME IInv, UNCHANGED <<input, mem, reader>>,
           TypeOK', NoStuckModifiers'
    PROVE  IInv'
BY DEF IInv, input, reader, KeysStayInBuffer, StoresSound, EndedTerminated, Ended, Blank

LEMMA BreakKeeps ==
    ASSUME IInv, NEW k \in held, Break(k)
    PROVE  IInv'
<1> USE DEF IInv, Break
<1>1. TypeOK'
  BY DEF TypeOK, input, reader
<1>2. NoStuckModifiers'
  BY DEF TypeOK, NoStuckModifiers, ShiftKeys, CtrlKeys
<1> QED
  BY <1>1, <1>2, FlagsKeep

LEMMA MakeModifierKeeps ==
    ASSUME IInv, NEW k \in Keys \cap Modifiers, MakeModifier(k)
    PROVE  IInv'
<1> USE DEF IInv, MakeModifier
<1>1. TypeOK'
  BY DEF TypeOK, input, reader
<1>2. NoStuckModifiers'
  BY DEF TypeOK, NoStuckModifiers
<1> QED
  BY <1>1, <1>2, FlagsKeep

LEMMA MakeCapsKeeps == IInv /\ MakeCaps => IInv'
<1> SUFFICES ASSUME IInv, MakeCaps PROVE IInv'
  OBVIOUS
<1> USE DEF IInv, MakeCaps
<1>1. TypeOK'
  BY DEF TypeOK, input, reader
<1>2. NoStuckModifiers'
  BY DEF NoStuckModifiers
<1> QED
  BY <1>1, <1>2, FlagsKeep

\* A key that the handler stores, or erases, finds the whole of the read set up.
LEMMA KeyFindsLine ==
    ASSUME IInv, Reading, HasRoom \/ keyboard_buffer_index # 0
    PROVE  /\ pc \in {"status", "spin"} /\ (pc = "status" => ~served)
           /\ size \in Limits /\ keyboard_buffer_limit = size
           /\ keyboard_buffer_index \in 0..size
           /\ HasRoom => keyboard_buffer_index + 1 \in 1..size
           /\ size \in 1..MaxLimit
BY MaxLimitType DEF IInv, Reading, HasRoom, TypeOK, StoresSound

\* Only the line has changed; `mem' and the index, as the lemma's assumptions say.
LEMMA LineKeeps ==
    ASSUME IInv, Reading, HasRoom \/ keyboard_buffer_index # 0,
           UNCHANGED <<flags, reader, held, keyboard_buffer_limit>>,
           mem' \in Mem, \A i \in 0..MaxLimit : i > size => mem'[i] = mem[i],
           keyboard_buffer_index' \in 0..size,
           \/ KeepOpen
           \/ Finish /\ \E i \in 0..keyboard_buffer_index' : mem'[i] = "nul"
    PROVE  IInv'
<1> USE DEF reader, flags
<1>0. /\ pc \in {"status", "spin"} /\ (pc = "status" => ~served)
      /\ size \in Limits /\ keyboard_buffer_limit = size
      /\ size \in 1..MaxLimit /\ MaxLimit \in Nat
      /\ keyboard_buffer /\ ~buffer_ready_status
  BY KeyFindsLine, MaxLimitType DEF Reading
<1>1. TypeOK'
  BY <1>0 DEF IInv, TypeOK, Mem, Bytes, KeepOpen, Finish
<1>2. NoStuckModifiers'
  BY DEF IInv, NoStuckModifiers
<1>3. KeysStayInBuffer'
  BY <1>0 DEF IInv, KeysStayInBuffer, TypeOK, Mem
<1>4. StoresSound'
  <2>1. CASE KeepOpen
    BY <1>0, <2>1 DEF StoresSound, KeepOpen
  <2>2. CASE Finish
    BY <1>0, <2>2 DEF StoresSound, Finish
  <2> QED
    BY <2>1, <2>2
<1>5. EndedTerminated'
  BY <1>0 DEF EndedTerminated, Ended, KeepOpen, Finish
<1> QED
  BY <1>1, <1>2, <1>3, <1>4, <1>5 DEF IInv

LEMMA StoreEofKeeps ==
    ASSUME IInv, Reading, HasRoom, StoreEof, UNCHANGED <<flags, reader, held>>
    PROVE  IInv'
<1> DEFINE n == keyboard_buffer_index
<1>1. n \in 0..size /\ n + 1 \in 1..size /\ size \in 1..MaxLimit /\ MaxLimit \in Nat
  BY KeyFindsLine, MaxLimitType
<1>2. mem' = [mem EXCEPT ![n] = "nul"] /\ mem \in Mem /\ n \in 0..MaxLimit
  BY <1>1 DEF StoreEof, IInv, TypeOK, Mem, Bytes
<1>3. keyboard_buffer_index' = n + 1 /\ UNCHANGED keyboard_buffer_limit /\ Finish
  BY DEF StoreEof, Advance
<1> HIDE DEF n
<1>4. mem' \in Mem /\ \A i \in 0..MaxLimit : i > size => mem'[i] = mem[i]
  BY <1>1, <1>2, CharacterTypes DEF Mem, Bytes
<1>5. n \in 0..(n + 1) /\ mem'[n] = "nul"
  BY <1>1, <1>2 DEF Mem
<1> QED
  BY <1>1, <1>3, <1>4, <1>5, LineKeeps

LEMMA StoreCharacterKeeps ==
    ASSUME IInv, Reading, HasRoom, NEW c \in Characters, StoreCharacter(c),
           UNCHANGED <<flags, reader, held>>
    PROVE  IInv'
<1> DEFINE n == keyboard_buffer_index
<1>1. n \in 0..size /\ n + 1 \in 1..size /\ size \in 1..MaxLimit /\ MaxLimit \in Nat
  BY KeyFindsLine, MaxLimitType
<1>2. /\ mem' = [mem EXCEPT ![n] = c, ![n + 1] = "nul"]
      /\ mem \in Mem /\ n \in 0..MaxLimit /\ n + 1 \in 0..MaxLimit
  BY <1>1 DEF StoreCharacter, IInv, TypeOK, Mem, Bytes
<1>3. /\ keyboard_buffer_index' = n + 1 /\ UNCHANGED keyboard_buffer_limit
      /\ Finish \/ KeepOpen
  BY DEF StoreCharacter, Advance
<1> HIDE DEF n
<1>4. mem' \in Mem /\ \A i \in 0..MaxLimit : i > size => mem'[i] = mem[i]
  BY <1>1, <1>2, CharacterTypes DEF Mem, Bytes
<1>5. n + 1 \in 0..(n + 1) /\ mem'[n + 1] = "nul"
  BY <1>1, <1>2 DEF Mem
<1>6. keyboard_buffer_index' \in 0..size
  BY <1>1, <1>3
<1>7. \E i \in 0..keyboard_buffer_index' : mem'[i] = "nul"
  BY <1>3, <1>5
<1> QED
  BY <1>3, <1>4, <1>6, <1>7, LineKeeps

LEMMA EraseCharacterKeeps ==
    ASSUME IInv, Reading, keyboard_buffer_index # 0, EraseCharacter,
           UNCHANGED <<flags, reader, held>>
    PROVE  IInv'
<1> DEFINE n == keyboard_buffer_index
<1>1. n \in 1..size /\ size \in 1..MaxLimit /\ MaxLimit \in Nat
  BY KeyFindsLine, MaxLimitType
<1>2. mem' = [mem EXCEPT ![n] = "nul"] /\ mem \in Mem /\ n \in 0..MaxLimit
  BY <1>1 DEF EraseCharacter, IInv, TypeOK, Mem, Bytes
<1>3. keyboard_buffer_index' = n - 1 /\ UNCHANGED keyboard_buffer_limit /\ KeepOpen
  BY DEF EraseCharacter
<1> HIDE DEF n
<1>4. mem' \in Mem /\ \A i \in 0..MaxLimit : i > size => mem'[i] = mem[i]
  BY <1>1, <1>2, CharacterTypes DEF Mem, Bytes
<1>5. keyboard_buffer_index' \in 0..size
  BY <1>1, <1>3
<1> QED
  BY <1>3, <1>4, <1>5, KeyFindsLine, LineKeeps

LEMMA StutterKeeps == IInv /\ UNCHANGED vars => IInv'
BY DEF vars, flags, input, reader, IInv, TypeOK, NoStuckModifiers, KeysStayInBuffer,
       StoresSound, EndedTerminated, Ended, Blank

LEMMA MakeCharacterKeeps ==
    ASSUME IInv, NEW k \in Keys, MakeCharacter(k)
    PROVE  IInv'
<1> DEFINE c == Translate(k)
<1>1. c \in Characters \cup {"bs"} /\ UNCHANGED <<flags, reader, held>>
  BY CharacterTypes DEF MakeCharacter
<1>2. UNCHANGED <<input, mem>> => IInv'
  BY <1>1, StutterKeeps DEF vars
<1>3. CASE c = "bs"
  <2>1. WriteBackward
    BY <1>3 DEF MakeCharacter
  <2> QED
    BY <1>1, <1>2, <2>1, EraseCharacterKeeps DEF WriteBackward
<1>4. CASE c # "bs"
  <2>1. WriteForward(c)
    BY <1>4 DEF MakeCharacter
  <2>2. c \in Characters
    BY <1>1, <1>4
  <2> HIDE DEF c
  <2> QED
    BY <1>1, <1>2, <2>1, <2>2, StoreEofKeeps, StoreCharacterKeeps DEF WriteForward
<1> QED
  BY <1>3, <1>4

\* The reader leaves the modifiers alone.
LEMMA ReaderKeepsFlags ==
    ASSUME NoStuckModifiers, UNCHANGED <<flags, held>>
    PROVE  NoStuckModifiers'
BY DEF NoStuckModifiers, flags

LEMMA SetBufferKeeps ==
    ASSUME IInv, NEW n \in Limits, SetBuffer(n)
    PROVE  IInv'
<1> USE DEF SetBuffer, flags, IInv
<1>1. TypeOK'
  BY EmptySeq, MaxLimitType DEF TypeOK, Blank
<1>2. NoStuckModifiers' /\ KeysStayInBuffer'
  BY ReaderKeepsFlags DEF KeysStayInBuffer, Blank
<1>3. StoresSound' /\ EndedTerminated'
  BY DEF StoresSound, EndedTerminated, Ended, Blank
<1> QED
  BY <1>1, <1>2, <1>3

LEMMA SetIndexKeeps == IInv /\ SetIndex => IInv'
<1> SUFFICES ASSUME IInv, SetIndex PROVE IInv'
  OBVIOUS
<1> USE DEF SetIndex, flags, IInv
<1>1. TypeOK'
  BY MaxLimitType DEF TypeOK
<1>2. NoStuckModifiers' /\ KeysStayInBuffer'
  BY ReaderKeepsFlags DEF KeysStayInBuffer
<1>3. StoresSound' /\ EndedTerminated'
  BY DEF StoresSound, EndedTerminated, Ended, Blank
<1> QED
  BY <1>1, <1>2, <1>3

LEMMA SetLimitKeeps == IInv /\ SetLimit => IInv'
<1> SUFFICES ASSUME IInv, SetLimit PROVE IInv'
  OBVIOUS
<1> USE DEF SetLimit, flags, IInv
<1>1. TypeOK'
  BY DEF TypeOK
<1>2. NoStuckModifiers' /\ KeysStayInBuffer'
  BY ReaderKeepsFlags DEF KeysStayInBuffer
<1>3. size \in Limits /\ size \in Nat
  BY MaxLimitType DEF StoresSound
<1>4. StoresSound' /\ EndedTerminated'
  BY <1>3 DEF StoresSound, EndedTerminated, Ended, Blank
<1> QED
  BY <1>1, <1>2, <1>4

LEMMA SetStatusKeeps == IInv /\ SetStatus => IInv'
<1> SUFFICES ASSUME IInv, SetStatus PROVE IInv'
  OBVIOUS
<1> USE DEF SetStatus, flags, IInv
<1>1. TypeOK'
  BY DEF TypeOK
<1>2. NoStuckModifiers' /\ KeysStayInBuffer'
  BY ReaderKeepsFlags DEF KeysStayInBuffer
<1>3. StoresSound' /\ EndedTerminated'
  BY DEF StoresSound, EndedTerminated, Ended, Blank
<1> QED
  BY <1>1, <1>2, <1>3

\* A read that returns has a line that was ended, and so a string.
LEMMA ReturnFindsLine ==
    ASSUME IInv, Return
    PROVE  /\ Ended /\ buffer_ready_status
           /\ keyboard_buffer_index \in 0..MaxLimit
           /\ mem \in Mem
           /\ \E e \in 0..keyboard_buffer_index : mem[e] = "nul"
<1>1. Ended /\ buffer_ready_status
  BY DEF IInv, Return, StoresSound, Ended
<1> QED
  BY <1>1 DEF IInv, TypeOK, Mem, Bytes, EndedTerminated

LEMMA ReturnKeeps == IInv /\ Return => IInv'
<1> SUFFICES ASSUME IInv, Return PROVE IInv'
  OBVIOUS
<1> USE DEF Return, flags, input, IInv
<1>1. PICK e \in 0..MaxLimit : mem[e] = "nul"
  BY ReturnFindsLine, MaxLimitType
<1>2. got' \in Seq(Characters \cup {"old"})
  BY <1>1, StringEnds, ReturnFindsLine DEF Bytes
<1>3. TypeOK'
  BY <1>2 DEF TypeOK
<1>4. NoStuckModifiers' /\ KeysStayInBuffer'
  BY ReaderKeepsFlags DEF KeysStayInBuffer
<1>5. StoresSound' /\ EndedTerminated'
  BY ReturnFindsLine DEF StoresSound, EndedTerminated, Ended
<1> QED
  BY <1>3, <1>4, <1>5

LEMMA NextKeeps == IInv /\ [Next]_vars => IInv'
<1> SUFFICES ASSUME IInv, [Next]_vars PROVE IInv'
  OBVIOUS
<1>1. CASE Irq
  BY <1>1, BreakKeeps, MakeModifierKeeps, MakeCapsKeeps, MakeCharacterKeeps DEF Irq
<1>2. CASE Reader
  BY <1>2, SetBufferKeeps, SetIndexKeeps, SetLimitKeeps, SetStatusKeeps, ReturnKeeps
  DEF Reader
<1>3. CASE UNCHANGED vars
  BY <1>3, StutterKeeps
<1> QED
  BY <1>1, <1>2, <1>3 DEF Next

LEMMA Invariance == Spec => []IInv
BY Initially, NextKeeps, PTL DEF Spec

-----------------------------------------------------------------------------
(* The theorems.                                                           *)

\* The variables have their types: a backspace never takes the index below 0,
\* a key never past the longest line, and what a read returns is a string.
THEOREM TypeCorrect == Spec => []TypeOK
<1>1. IInv => TypeOK
  BY DEF IInv
<1> QED
  BY <1>1, Invariance, PTL

\* Whatever the order in which the two shift keys and the two control keys go
\* down and up, no modifier is on in the driver with none of its keys down.
THEOREM ModifiersReleased == Spec => []NoStuckModifiers
<1>1. IInv => NoStuckModifiers
  BY DEF IInv
<1> QED
  BY <1>1, Invariance, PTL

\* No key is stored behind the end of the current read's buffer, whatever the
\* reads before it were and between whichever two stores the key comes.
THEOREM KeysStoredInBuffer == Spec => []KeysStayInBuffer
<1>1. IInv => KeysStayInBuffer
  BY DEF IInv
<1> QED
  BY <1>1, Invariance, PTL

-----------------------------------------------------------------------------
(* Handler and reader implement LineInput.                                 *)

\* The line that n bytes of a buffer are.
Taken(m, n) == [i \in 1..n |-> m[i - 1]]

\* A line is open or ended only when all of the read is set up.
Limit == IF Open \/ Ended THEN keyboard_buffer_limit ELSE 0

LEMMA TakenType ==
    ASSUME NEW m \in Mem, NEW n \in 0..MaxLimit
    PROVE  /\ Taken(m, n) \in Seq(Bytes) /\ Len(Taken(m, n)) = n
           /\ \A i \in 1..n : Taken(m, n)[i] = m[i - 1]
<1>1. MaxLimit \in Nat /\ n \in Nat
  BY MaxLimitType
<1>2. Taken(m, n) \in [1..n -> Bytes]
  BY <1>1 DEF Taken, Mem
<1> QED
  BY <1>1, <1>2, FunctionSequence DEF Taken

\* What a key does to the buffer is what it does to the line.
LEMMA TakenAppend ==
    ASSUME NEW m \in Mem, NEW mm \in Mem, NEW n \in 0..MaxLimit, n + 1 \in 0..MaxLimit,
           \A i \in 0..MaxLimit : i < n => mm[i] = m[i]
    PROVE  Taken(mm, n + 1) = Append(Taken(m, n), mm[n])
<1> DEFINE s == Taken(m, n)
           t == Taken(mm, n + 1)
<1>0. MaxLimit \in Nat /\ n \in Nat /\ mm[n] \in Bytes
  BY MaxLimitType DEF Mem
<1>1. /\ s \in Seq(Bytes) /\ Len(s) = n /\ \A i \in 1..n : s[i] = m[i - 1]
      /\ t \in Seq(Bytes) /\ Len(t) = n + 1 /\ \A i \in 1..(n + 1) : t[i] = mm[i - 1]
      /\ n \in Nat /\ mm[n] \in Bytes /\ MaxLimit \in Nat
  BY <1>0, TakenType
<1> HIDE DEF s, t
<1>2. /\ Append(s, mm[n]) \in Seq(Bytes) /\ Len(Append(s, mm[n])) = n + 1
      /\ \A i \in 1..n : Append(s, mm[n])[i] = s[i]
      /\ Append(s, mm[n])[n + 1] = mm[n]
  BY <1>1, AppendProperties
<1>3. ASSUME NEW i \in 1..(n + 1) PROVE t[i] = Append(s, mm[n])[i]
  <2>1. CASE i = n + 1
    BY <1>1, <1>2, <2>1
  <2>2. CASE i # n + 1
    <3>1. i \in 1..n /\ i - 1 \in 0..MaxLimit /\ i - 1 < n
      BY <1>1, <2>2
    <3> QED
      BY <1>1, <1>2, <3>1
  <2> QED
    BY <2>1, <2>2
<1>4. t = Append(s, mm[n])
  BY <1>1, <1>2, <1>3, SeqEqual
<1> QED
  BY <1>4 DEF s, t

LEMMA TakenPrefix ==
    ASSUME NEW m \in Mem, NEW n \in 0..MaxLimit, NEW len \in 0..n
    PROVE  SubSeq(Taken(m, n), 1, len) = Taken(m, len)
<1> DEFINE s == Taken(m, n)
           t == Taken(m, len)
           u == SubSeq(s, 1, len)
<1>0. MaxLimit \in Nat /\ n \in Nat /\ len \in Nat /\ len \in 0..MaxLimit /\ len <= n
  BY MaxLimitType
<1>1. /\ s \in Seq(Bytes) /\ Len(s) = n /\ \A i \in 1..n : s[i] = m[i - 1]
      /\ t \in Seq(Bytes) /\ Len(t) = len /\ \A i \in 1..len : t[i] = m[i - 1]
  BY <1>0, TakenType
<1>2. \A i \in 1..len : s[i] \in Bytes
  BY <1>0, <1>1, ElementOfSeq
<1> HIDE DEF s, t
<1>3. u \in Seq(Bytes) /\ Len(u) = len /\ \A i \in 1..len : u[i] = s[i]
  <2>1. /\ u \in Seq(Bytes) /\ Len(u) = IF 1 <= len THEN len - 1 + 1 ELSE 0
        /\ \A i \in 1..(len - 1 + 1) : u[i] = s[1 + i - 1]
    BY <1>0, <1>1, <1>2, SubSeqProperties
  <2> QED
    BY <1>0, <2>1
<1> HIDE DEF u
<1>4. ASSUME NEW i \in 1..len PROVE t[i] = u[i]
  <2>1. i \in 1..n
    BY <1>0
  <2> QED
    BY <1>1, <1>3, <2>1
<1>5. t = u
  BY <1>1, <1>3, <1>4, SeqEqual
<1> QED
  BY <1>5 DEF s, t, u

LEMMA TakenCut ==
    ASSUME NEW m \in Mem, NEW mm \in Mem, NEW n \in 1..MaxLimit,
           \A i \in 0..MaxLimit : i < n => mm[i] = m[i]
    PROVE  Taken(mm, n - 1) = SubSeq(Taken(m, n), 1, n - 1)
<1>1. MaxLimit \in Nat /\ n \in 0..MaxLimit /\ n - 1 \in 0..n
  BY MaxLimitType
<1>2. \A i \in 1..(n - 1) : mm[i - 1] = m[i - 1]
  BY <1>1
<1>3. Taken(mm, n - 1) = Taken(m, n - 1)
  BY <1>2 DEF Taken
<1> QED
  BY <1>1, <1>3, TakenPrefix

\* The caller sees of its buffer what the abstract reader sees of the line: a NUL
\* that was typed hides the rest, and without one the NUL behind the line ends it.
LEMMA StringIsVisibleLine ==
    ASSUME NEW m \in Mem, NEW n \in 0..MaxLimit,
           \E e \in 0..n : m[e] = "nul"
    PROVE  CString(m) = Lines!Visible(Taken(m, n))
<1> DEFINE s == Taken(m, n)
           ends == {i \in 1..Len(s) : s[i] = "nul"}
           first == CHOOSE i \in ends : \A j \in ends : i <= j
<1>0. MaxLimit \in Nat /\ n \in Nat
  BY MaxLimitType
<1>1. s \in Seq(Bytes) /\ Len(s) = n /\ \A i \in 1..n : s[i] = m[i - 1]
  BY TakenType
<1>2. PICK e \in 0..n : m[e] = "nul"
  OBVIOUS
<1>3. e \in 0..MaxLimit
  BY <1>0
<1>4. PICK len \in 0..e :
        /\ m[len] = "nul" /\ \A j \in 0..e : m[j] = "nul" => len <= j
        /\ CString(m) = [i \in 1..len |-> m[i - 1]]
  BY <1>2, <1>3, StringEnds
<1>5. len \in 0..n /\ len \in Nat /\ CString(m) = Taken(m, len)
  BY <1>0, <1>4 DEF Taken
<1>6. Lines!Visible(s) = IF ends = {} THEN s ELSE SubSeq(s, 1, first - 1)
  BY DEF Lines!Visible
<1>7. \A i \in 1..n : i \in ends <=> m[i - 1] = "nul"
  BY <1>1
<1>8. ends \subseteq 1..n
  BY <1>1
<1> HIDE DEF s, ends
<1>9. CASE len = n
  <2>1. \A i \in 1..n : i - 1 \in 0..e /\ ~(len <= i - 1)
    BY <1>0, <1>4, <1>9
  <2>2. \A i \in 1..n : m[i - 1] # "nul"
    BY <1>4, <2>1
  <2>3. ends = {}
    BY <1>7, <1>8, <2>2
  <2> QED
    BY <1>5, <1>6, <1>9, <2>3 DEF s
<1>10. CASE len # n
  <2>1. len + 1 \in 1..n /\ (len + 1) - 1 = len
    BY <1>5, <1>0, <1>10
  <2>2. len + 1 \in ends
    BY <1>4, <1>7, <2>1
  <2>3. ends \subseteq Nat /\ ends # {}
    BY <1>0, <1>8, <2>2
  <2>4. first \in ends /\ \A j \in ends : first <= j
    BY <2>3, LeastNatural
  <2> HIDE DEF first
  <2>5. first \in 1..n /\ m[first - 1] = "nul" /\ first <= len + 1
    BY <1>7, <1>8, <2>2, <2>4
  <2>6. first - 1 \in 0..e
    BY <1>0, <1>4, <2>5
  <2>7. len <= first - 1
    BY <1>4, <2>5, <2>6
  <2>8. first - 1 = len
    BY <1>0, <1>5, <2>5, <2>7
  <2>9. Lines!Visible(s) = SubSeq(s, 1, len)
    BY <1>6, <2>3, <2>8
  <2>10. SubSeq(s, 1, len) = Taken(m, len)
    BY <1>0, <1>1, <1>5, <2>1, TakenPrefix DEF s
  <2> QED
    BY <1>5, <2>9, <2>10 DEF s
<1> QED
  BY <1>9, <1>10

\* The line as the mapping has it, before and after a key that finds it open.
LEMMA OpenLine ==
    ASSUME IInv, Reading, HasRoom \/ keyboard_buffer_index # 0
    PROVE  /\ Open /\ ~Ended /\ Phase = "open"
           /\ Line = Taken(mem, keyboard_buffer_index) /\ Limit = keyboard_buffer_limit
           /\ mem \in Mem /\ keyboard_buffer_index \in 0..MaxLimit
           /\ Len(Line) = keyboard_buffer_index
           /\ HasRoom => keyboard_buffer_index < keyboard_buffer_limit
                         /\ keyboard_buffer_index + 1 \in 0..MaxLimit
           /\ keyboard_buffer_limit = size /\ size \in 1..MaxLimit /\ pc # "idle"
<1>1. /\ pc \in {"status", "spin"} /\ size \in 1..MaxLimit /\ keyboard_buffer_limit = size
      /\ keyboard_buffer_index \in 0..size
      /\ HasRoom => keyboard_buffer_index + 1 \in 1..size
      /\ MaxLimit \in Nat
  BY KeyFindsLine, MaxLimitType
<1>2. Open /\ ~Ended /\ keyboard_buffer
  BY <1>1 DEF Open, Ended, Reading
<1>3. mem \in Mem /\ keyboard_buffer_index \in 0..MaxLimit
  BY <1>1 DEF IInv, TypeOK, Mem, Bytes
<1>4. Line = Taken(mem, keyboard_buffer_index)
  BY <1>2 DEF Line, Taken
<1>5. Len(Line) = keyboard_buffer_index
  BY <1>3, <1>4, TakenType
<1> QED
  BY <1>1, <1>2, <1>3, <1>4, <1>5 DEF Phase, Limit

\* A step that touches neither the buffer nor the reader touches no line.
LEMMA QuietStep ==
    ASSUME UNCHANGED <<input, mem, pc, got>>
    PROVE  UNCHANGED Lines!vars
BY DEF Lines!vars, Phase, Line, Open, Ended, Reading, input

\* Ctrl-D ends the line with a NUL.
LEMMA StoreEofImplements ==
    ASSUME IInv, IInv', Reading, HasRoom, StoreEof, UNCHANGED <<flags, reader, held>>
    PROVE  Lines!End("nul")
<1> DEFINE n == keyboard_buffer_index
<1>1. /\ Phase = "open" /\ Line = Taken(mem, n) /\ Limit = keyboard_buffer_limit
      /\ mem \in Mem /\ n \in 0..MaxLimit /\ n + 1 \in 0..MaxLimit
      /\ Len(Line) < Limit /\ keyboard_buffer_limit = size /\ pc # "idle"
  BY OpenLine
<1>2. /\ mem' = [mem EXCEPT ![n] = "nul"] /\ keyboard_buffer_index' = n + 1
      /\ UNCHANGED <<keyboard_buffer_limit, pc, got>>
      /\ buffer_ready_status' = TRUE /\ keyboard_buffer' = FALSE
  BY DEF StoreEof, Advance, Finish, reader
<1>3. Ended' /\ ~Open'
  BY <1>1, <1>2 DEF Ended, Open, Reading
<1>4. Phase' = "ended" /\ Limit' = Limit
  BY <1>1, <1>2, <1>3 DEF Phase, Limit
<1>5. mem' \in Mem
  BY DEF IInv, TypeOK, Mem, Bytes
<1>6. Taken(mem', n + 1) = Append(Taken(mem, n), mem'[n])
  <2>1. \A i \in 0..MaxLimit : i < n => mem'[i] = mem[i]
    BY <1>1, <1>2 DEF Mem
  <2> HIDE DEF n
  <2> QED
    BY <1>1, <1>5, <2>1, TakenAppend
<1>7. mem'[n] = "nul"
  BY <1>1, <1>2 DEF Mem
<1>8. Line' = Taken(mem', n + 1)
  BY <1>2, <1>3 DEF Line, Taken
<1>9. Line' = Append(Line, "nul")
  BY <1>1, <1>6, <1>7, <1>8
<1> QED
  BY <1>1, <1>2, <1>4, <1>9 DEF Lines!End, Lines!Room, Limit

\* Any other key appends its character; Enter ends the line with a newline.
LEMMA StoreCharacterImplements ==
    ASSUME IInv, IInv', Reading, HasRoom, NEW c \in Characters, StoreCharacter(c),
           UNCHANGED <<flags, reader, held>>
    PROVE  Lines!Type(c) \/ (c = "nl" /\ Lines!End(c))
<1> DEFINE n == keyboard_buffer_index
<1>1. /\ Phase = "open" /\ Line = Taken(mem, n) /\ Limit = keyboard_buffer_limit
      /\ mem \in Mem /\ n \in 0..MaxLimit /\ n + 1 \in 0..MaxLimit
      /\ Len(Line) < Limit /\ keyboard_buffer_limit = size /\ pc # "idle"
      /\ size \in 1..MaxLimit
  BY OpenLine
<1>2. /\ mem' = [mem EXCEPT ![n] = c, ![n + 1] = "nul"] /\ keyboard_buffer_index' = n + 1
      /\ UNCHANGED <<keyboard_buffer_limit, pc, got>>
      /\ IF c = "nl" THEN Finish ELSE KeepOpen
  BY DEF StoreCharacter, Advance, reader
<1>3. /\ c = "nl" => Ended' /\ ~Open'
      /\ c # "nl" => Open' /\ ~Ended'
      /\ Ended' \/ Open'
  <2>1. CASE c = "nl"
    BY <1>1, <1>2, <2>1 DEF Ended, Open, Reading, Finish
  <2>2. CASE c # "nl"
    <3>1. keyboard_buffer' /\ ~buffer_ready_status' /\ keyboard_buffer_limit' # 0
      BY <1>1, <1>2, <2>2 DEF Reading, KeepOpen
    <3> QED
      BY <2>2, <3>1 DEF Ended, Open, Reading
  <2> QED
    BY <2>1, <2>2
<1>4. /\ c = "nl" => Phase' = "ended"
      /\ c # "nl" => Phase' = "open"
      /\ Limit' = Limit
  BY <1>1, <1>2, <1>3 DEF Phase, Limit
<1>5. mem' \in Mem
  BY DEF IInv, TypeOK, Mem, Bytes
<1>6. Taken(mem', n + 1) = Append(Taken(mem, n), mem'[n])
  <2>1. \A i \in 0..MaxLimit : i < n => mem'[i] = mem[i]
    BY <1>1, <1>2 DEF Mem
  <2> HIDE DEF n
  <2> QED
    BY <1>1, <1>5, <2>1, TakenAppend
<1>7. mem'[n] = c
  BY <1>1, <1>2 DEF Mem
<1>8. Line' = Taken(mem', n + 1)
  BY <1>2, <1>3 DEF Line, Taken
<1>9. Line' = Append(Line, c)
  BY <1>1, <1>6, <1>7, <1>8
<1>10. c = "nl" => Lines!End(c)
  BY <1>1, <1>2, <1>4, <1>9 DEF Lines!End, Lines!Room, Limit
<1>11. c # "nl" => Lines!Type(c)
  BY <1>1, <1>2, <1>4, <1>9 DEF Lines!Type, Lines!Room, Limit
<1> QED
  BY <1>10, <1>11

\* Backspace takes the last character off the line.
LEMMA EraseCharacterImplements ==
    ASSUME IInv, IInv', Reading, keyboard_buffer_index # 0, EraseCharacter,
           UNCHANGED <<flags, reader, held>>
    PROVE  Lines!Rubout
<1> DEFINE n == keyboard_buffer_index
<1>1. /\ Phase = "open" /\ Line = Taken(mem, n) /\ Len(Line) = n
      /\ mem \in Mem /\ n \in 1..MaxLimit
      /\ keyboard_buffer_limit = size /\ pc # "idle" /\ size \in 1..MaxLimit
  BY OpenLine, MaxLimitType
<1>2. /\ mem' = [mem EXCEPT ![n] = "nul"] /\ keyboard_buffer_index' = n - 1
      /\ UNCHANGED <<keyboard_buffer_limit, pc, got>> /\ KeepOpen
  BY DEF EraseCharacter, reader
<1>3. Open' /\ ~Ended' /\ Open
  BY <1>1, <1>2 DEF Ended, Open, Reading, KeepOpen
<1>4. Phase' = "open" /\ Limit' = Limit
  BY <1>2, <1>3 DEF Phase, Limit
<1>5. mem' \in Mem
  BY DEF IInv, TypeOK, Mem, Bytes
<1>6. Taken(mem', n - 1) = SubSeq(Taken(mem, n), 1, n - 1)
  <2>1. \A i \in 0..MaxLimit : i < n => mem'[i] = mem[i]
    BY <1>1, <1>2 DEF Mem
  <2> HIDE DEF n
  <2> QED
    BY <1>1, <1>5, <2>1, TakenCut
<1>7. Line' = Taken(mem', n - 1)
  BY <1>2, <1>3 DEF Line, Taken
<1>8. Line' = SubSeq(Line, 1, Len(Line) - 1)
  BY <1>1, <1>6, <1>7
<1>9. Line # <<>>
  BY <1>1, EmptySeq
<1> QED
  BY <1>1, <1>2, <1>4, <1>8, <1>9 DEF Lines!Rubout, Limit

LEMMA MakeCharacterImplements ==
    ASSUME IInv, IInv', NEW k \in Keys, MakeCharacter(k)
    PROVE  [Lines!Next]_Lines!vars
<1> DEFINE c == Translate(k)
<1>1. c \in Characters \cup {"bs"} /\ UNCHANGED <<flags, reader, held, pc, got>>
  BY CharacterTypes DEF MakeCharacter, reader
<1>2. UNCHANGED <<input, mem>> => UNCHANGED Lines!vars
  BY <1>1, QuietStep
<1>3. CASE c = "bs"
  <2>1. WriteBackward
    BY <1>3 DEF MakeCharacter
  <2> QED
    BY <1>1, <1>2, <2>1, EraseCharacterImplements DEF WriteBackward, Lines!Next
<1>4. CASE c # "bs"
  <2>1. WriteForward(c)
    BY <1>4 DEF MakeCharacter
  <2>2. c \in Characters
    BY <1>1, <1>4
  <2> HIDE DEF c
  <2>3. CASE Reading /\ HasRoom /\ l_control_key /\ c = "d"
    BY <1>1, <2>1, <2>3, StoreEofImplements DEF WriteForward, Lines!Next
  <2>4. CASE Reading /\ HasRoom /\ ~(l_control_key /\ c = "d")
    BY <1>1, <2>1, <2>2, <2>4, StoreCharacterImplements DEF WriteForward, Lines!Next
  <2>5. CASE ~(Reading /\ HasRoom)
    BY <1>2, <2>1, <2>5 DEF WriteForward
  <2> QED
    BY <2>3, <2>4, <2>5
<1> QED
  BY <1>3, <1>4

-----------------------------------------------------------------------------
(* The reader: one of its stores opens the line, and Return collects it.   *)

LEMMA SetBufferImplements ==
    ASSUME IInv, IInv', NEW n \in Limits, SetBuffer(n)
    PROVE  Lines!Forget
<1>1. pc = "idle" /\ ~keyboard_buffer
  BY DEF SetBuffer, IInv, StoresSound
<1>2. ~Open /\ ~Ended
  BY <1>1 DEF Open, Reading, Ended
<1>3. keyboard_buffer' /\ pc' = "index" /\ buffer_ready_status' = buffer_ready_status
  BY DEF SetBuffer
<1>4. buffer_ready_status' \/ keyboard_buffer_limit' = 0
  BY <1>1, <1>3 DEF SetBuffer, IInv, StoresSound
<1>5. ~Open' /\ ~Ended'
  BY <1>3, <1>4 DEF Open, Reading, Ended
<1> QED
  BY <1>2, <1>5 DEF SetBuffer, Lines!Forget, Phase, Line

LEMMA SetIndexImplements ==
    ASSUME IInv, IInv', SetIndex
    PROVE  UNCHANGED Lines!vars
<1>1. /\ pc = "index" /\ pc' = "limit" /\ keyboard_buffer /\ keyboard_buffer'
      /\ UNCHANGED <<buffer_ready_status, keyboard_buffer_limit, got>>
      /\ buffer_ready_status \/ keyboard_buffer_limit = 0
  BY DEF SetIndex, IInv, StoresSound
<1>2. ~Open /\ ~Ended /\ ~Open' /\ ~Ended'
  BY <1>1 DEF Open, Reading, Ended
<1> QED
  BY <1>1, <1>2 DEF Lines!vars, Phase, Line

\* The line is opened by the first of the last two stores that lets keys in: the
\* limit for the first read of all, the status for every later one.
LEMMA OpensLine ==
    ASSUME IInv', ~Open, ~Ended, Open', ~Ended', UNCHANGED got,
           keyboard_buffer_index' = 0, keyboard_buffer_limit' \in Limits
    PROVE  \E n \in Limits : Lines!Open(n)
<1>1. Line' = <<>>
  <2>1. Line' = [i \in 1..0 |-> mem'[i - 1]]
    BY DEF Line
  <2> QED
    BY <2>1
<1>2. Lines!Open(keyboard_buffer_limit')
  BY <1>1 DEF Lines!Open, Phase, Line
<1> QED
  BY <1>2

LEMMA SetLimitImplements ==
    ASSUME IInv, IInv', SetLimit
    PROVE  [Lines!Next]_Lines!vars
<1>1. /\ pc = "limit" /\ pc' = "status" /\ keyboard_buffer /\ keyboard_buffer'
      /\ UNCHANGED <<buffer_ready_status, keyboard_buffer_index, got, served>>
      /\ keyboard_buffer_limit' = size /\ size \in Limits /\ keyboard_buffer_index = 0
      /\ buffer_ready_status <=> served
      /\ ~served => keyboard_buffer_limit = 0
  BY DEF SetLimit, IInv, StoresSound
<1>2. ~Open /\ ~Ended /\ ~Ended'
  BY <1>1 DEF Open, Reading, Ended
<1>3. size # 0
  BY <1>1, MaxLimitType
<1>4. CASE served
  <2>1. ~Open'
    BY <1>1, <1>4 DEF Open, Reading
  <2> QED
    BY <1>1, <1>2, <2>1 DEF Lines!vars, Phase, Line
<1>5. CASE ~served
  <2>1. Open'
    BY <1>1, <1>3, <1>5 DEF Open, Reading
  <2> QED
    BY <1>1, <1>2, <2>1, OpensLine DEF Lines!Next
<1> QED
  BY <1>4, <1>5

LEMMA SetStatusImplements ==
    ASSUME IInv, IInv', SetStatus
    PROVE  [Lines!Next]_Lines!vars
<1>1. /\ pc = "status" /\ pc' = "spin" /\ buffer_ready_status' = FALSE
      /\ UNCHANGED <<keyboard_buffer, keyboard_buffer_index, keyboard_buffer_limit,
                     mem, got, served>>
      /\ keyboard_buffer_limit = size /\ size \in Limits
      /\ served => keyboard_buffer /\ buffer_ready_status /\ keyboard_buffer_index = 0
      /\ ~served => (buffer_ready_status <=> ~keyboard_buffer)
  BY DEF SetStatus, IInv, StoresSound
<1>2. size # 0
  BY <1>1, MaxLimitType
<1>3. CASE served
  <2>1. ~Open /\ ~Ended /\ Open' /\ ~Ended'
    BY <1>1, <1>2, <1>3 DEF Open, Ended, Reading
  <2> QED
    BY <1>1, <1>3, <2>1, OpensLine DEF Lines!Next
<1>4. CASE ~served
  <2>1. (Open' <=> Open) /\ (Ended' <=> Ended)
    BY <1>1, <1>4 DEF Open, Ended, Reading
  <2> QED
    BY <1>1, <2>1 DEF Lines!vars, Phase, Line
<1> QED
  BY <1>3, <1>4

LEMMA ReturnImplements ==
    ASSUME IInv, IInv', Return
    PROVE  Lines!Collect
<1>1. Ended /\ ~Open /\ mem \in Mem /\ keyboard_buffer_index \in 0..MaxLimit
  BY ReturnFindsLine DEF Ended, Open, Reading
<1>2. got' = CString(mem) /\ ~Open' /\ ~Ended'
  BY <1>1 DEF Return, input, Open, Ended, Reading
<1>3. Line = Taken(mem, keyboard_buffer_index)
  BY <1>1 DEF Line, Taken
<1>4. got' = Lines!Visible(Line)
  BY <1>1, <1>2, <1>3, ReturnFindsLine, StringIsVisibleLine
<1> QED
  BY <1>1, <1>2, <1>4 DEF Lines!Collect, Phase, Line

LEMMA InitImplements == Init => Lines!Init
BY DEF Init, Lines!Init, Phase, Line, Open, Ended, Reading

LEMMA NextImplements ==
    IInv /\ IInv' /\ [Next]_vars => [Lines!Next]_Lines!vars
<1> SUFFICES ASSUME IInv, IInv', [Next]_vars PROVE [Lines!Next]_Lines!vars
  OBVIOUS
<1>1. ASSUME NEW k \in held, Break(k) PROVE UNCHANGED Lines!vars
  BY <1>1, QuietStep DEF Break, reader
<1>2. ASSUME NEW k \in Keys, MakeModifier(k) PROVE UNCHANGED Lines!vars
  BY <1>2, QuietStep DEF MakeModifier, reader
<1>3. MakeCaps => UNCHANGED Lines!vars
  BY QuietStep DEF MakeCaps, reader
<1>4. CASE Irq
  BY <1>1, <1>2, <1>3, <1>4, MakeCharacterImplements DEF Irq
<1>5. CASE Reader
  BY <1>5, SetBufferImplements, SetIndexImplements, SetLimitImplements,
     SetStatusImplements, ReturnImplements DEF Reader, Lines!Next
<1>6. CASE UNCHANGED vars
  BY <1>6, QuietStep DEF vars, reader
<1> QED
  BY <1>4, <1>5, <1>6 DEF Next

\* Handler and reader implement LineInput: a read returns the line that its own
\* keys edited, wherever the handler comes between the reader's four stores.
THEOREM KeyboardImplementsLineInput == Spec => ImplementsLineInput
<1> QED
  BY InitImplements, NextImplements, Invariance, PTL
     DEF Spec, ImplementsLineInput, Lines!Spec
=============================================================================
