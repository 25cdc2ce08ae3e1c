----------------------------- MODULE MCCdCache -----------------------------
(* A disc of eight sectors, the second track with a pregap, for TLC. *)
EXTENDS CdCache

SmallDisc == << [start |-> 0, end |-> 2], [start |-> 4, end |-> 7] >>
=============================================================================
