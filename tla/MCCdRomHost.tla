---------------------------- MODULE MCCdRomHost ----------------------------
(* A small disc for TLC. *)
EXTENDS CdRomHost

TwoTracks == << [pregap |-> 0, start |-> 0, end |-> 1],
                [pregap |-> 2, start |-> 2, end |-> 4] >>
MCXa == {3}
AllFlags == {IntBit}
=============================================================================
