----------------------------- MODULE MCKeyboard -----------------------------
(***************************************************************************)
(* Instances of module Keyboard for TLC: sets of keys.                     *)
(***************************************************************************)
EXTENDS Keyboard

A == <<FALSE, 30>>
B == <<FALSE, 48>>
SpaceBar == <<FALSE, 57>>
LeftShift == <<FALSE, 42>>
LeftWin == <<TRUE, 91>>
Up == <<TRUE, 72>>

TypingKeys == {A, B, LeftShift, LeftWin, SpaceBar, Up}

=============================================================================
