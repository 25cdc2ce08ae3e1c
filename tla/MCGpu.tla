------------------------------- MODULE MCGpu -------------------------------
(***************************************************************************)
(* Gpu with one opcode of every kind of handling: a nop, a line of one     *)
(* segment, both polylines, the image transfers and the settings the       *)
(* renderer keeps a copy of.  Of the images one has the words asked for,   *)
(* one has more, and one has none.                                         *)
(***************************************************************************)
EXTENDS Gpu

MCOpcodes == {0, \h49, \h48, \h58, \hA0, \hC0, \hE3, \hE4, \hE6}
MCImage(width, height, inside) ==
    [width |-> width, height |-> height, inside |-> inside]
MCImages == {MCImage(2, 2, TRUE), MCImage(1, 2, TRUE), MCImage(1, 1, FALSE)}
MCWholeVram == MCImage(2, 3, TRUE)
=============================================================================
