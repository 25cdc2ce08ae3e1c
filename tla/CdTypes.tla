------------------------------ MODULE CdTypes ------------------------------
(***************************************************************************)
(* The vocabulary the drive (CdRom) and its abstract protocol (CdProtocol) *)
(* share: commands and interrupt numbers.                                  *)
(***************************************************************************)
EXTENDS Integers

None == "none"     \* no command, no reason to panic

\* Commands with a second response (a Resp2 arm), and those with one only.
TwoPhase == {"seekl", "pause", "init", "stop", "getid", "readtoc"}
OnePhase == {"nop", "setloc", "play", "readn", "mute", "demute", "setfilter",
             "setmode", "getlocl", "getlocp", "gettn", "gettd", "test"}
Command  == TwoPhase \cup OnePhase

\* Bits 0..2 of the interrupt flag register; INT1 .. INT5 as sets of bits.
IntBit == 0..2
INT(n) == {i \in IntBit : (n \div 2^i) % 2 = 1}
=============================================================================
