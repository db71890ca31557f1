----------------------------- MODULE MCKeyboard -----------------------------
(* The keyboard with a few keys of each kind for TLC.                      *)
EXTENDS Keyboard

\* Two shift keys, one control key, caps lock, a letter that Ctrl makes an end
\* of file, one that Ctrl makes a signal, a key with no character, Enter and
\* backspace.
SomeKeys == {"lshift", "rshift", "lctrl", "caps", "d", "c", "up", "enter", "back"}
=============================================================================
