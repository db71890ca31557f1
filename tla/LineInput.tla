----------------------------- MODULE LineInput -----------------------------
(***************************************************************************)
(* What a read from the keyboard promises: keys edit one line until Enter  *)
(* or Ctrl-D ends it, and the caller gets the line as a C string.          *)
(***************************************************************************)
EXTENDS Sequences, Integers

CONSTANTS
    Characters,     \* what the keys can type, "nl" and "nul" among it
    Limits          \* the line lengths that callers ask for

VARIABLES
    phase,          \* "closed", "open" (keys edit the line) or "ended"
    line,           \* the characters of the line
    limit,          \* how many it may hold
    got             \* what the last read returned

vars == <<phase, line, limit, got>>

\* A C string ends before the first NUL.
Visible(s) ==
    LET ends == {i \in 1..Len(s) : s[i] = "nul"}
    IN  IF ends = {} THEN s
        ELSE SubSeq(s, 1, (CHOOSE i \in ends : \A j \in ends : i <= j) - 1)

Init == phase = "closed" /\ line = <<>> /\ limit = 0 /\ got = <<>>

\* The caller forgets the last line and a new one is opened.
Forget == phase = "closed" /\ got' = <<>> /\ UNCHANGED <<phase, line, limit>>

Open(n) ==
    /\ phase = "closed"
    /\ phase' = "open" /\ limit' = n
    /\ UNCHANGED <<line, got>>

Room == phase = "open" /\ Len(line) < limit

Type(c) ==
    /\ Room /\ c # "nl"
    /\ line' = Append(line, c)
    /\ UNCHANGED <<phase, limit, got>>

Rubout ==
    /\ phase = "open" /\ line # <<>>
    /\ line' = SubSeq(line, 1, Len(line) - 1)
    /\ UNCHANGED <<phase, limit, got>>

\* Enter ends the line with a newline, Ctrl-D ends it with nothing to see.
End(c) ==
    /\ Room
    /\ line' = Append(line, c)
    /\ phase' = "ended"
    /\ UNCHANGED <<limit, got>>

Collect ==
    /\ phase = "ended"
    /\ got' = Visible(line)
    /\ phase' = "closed" /\ line' = <<>> /\ limit' = 0

Next ==
    \/ Forget
    \/ \E n \in Limits : Open(n)
    \/ \E c \in Characters : Type(c)
    \/ \E c \in {"nl", "nul"} : End(c)
    \/ Rubout
    \/ Collect

Spec == Init /\ [][Next]_vars
=============================================================================
