------------------------------ MODULE MCCdRom ------------------------------
(* Small discs for TLC; the guest's vocabularies are in the configurations. *)
EXTENDS CdRom

\* Two tracks; sector 3 carries XA audio.
TwoTracks == << [pregap |-> 0, start |-> 0, end |-> 1],
                [pregap |-> 2, start |-> 2, end |-> 4] >>
MCXa == {3}

\* Acknowledge everything, or bit by bit.
AllFlags == {IntBit}
AnyFlags == SUBSET IntBit

MCMasks == {IntBit}
MCCpuMasks == {{"cdrom"}}
=============================================================================
