------------------------------ MODULE MCBlocks ------------------------------
(* The places a small guest jumps to, for TLC. *)
EXTENDS Blocks

\* Blocks that overlap, reached through two segments.
Overlapping == { [seg |-> "kuseg", word |-> 0], [seg |-> "kseg0", word |-> 1] }

\* Enough to fill both channels and have one more to send; two of the three
\* name the same word.
ThreePlaces ==
    { [seg |-> "kuseg", word |-> 0], [seg |-> "kuseg", word |-> 1], [seg |-> "kseg0", word |-> 1] }
=============================================================================
