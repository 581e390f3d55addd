-------------------------- MODULE MCKeyboardInput --------------------------
(* A shift key and a letter. *)
EXTENDS KeyboardInput

CONSTANTS shift, letter

JustShift == {shift}
JustLetter == {letter}
=============================================================================
