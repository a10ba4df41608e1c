------------------------------- MODULE Python -------------------------------
(* What the modules of one state machine have in common of the language.   *)
CONSTANT None      \* a name that refers to nothing
=============================================================================
