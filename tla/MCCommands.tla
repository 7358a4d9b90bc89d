----------------------------- MODULE MCCommands -----------------------------
(* Commands for TLC, with ints of two bits.                                *)
EXTENDS Commands

(* Negative, an int, too large for an int, and too large to be safe.       *)
MCWholes == {-1, 1, 3, 6}
=============================================================================
