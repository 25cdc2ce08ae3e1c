--------------------------------- MODULE Mdec ---------------------------------
(* The motion decoder (mdec.rs) as operators on its state: the command and   *)
(* parameter machine, the run-length scan that finds how many blocks an      *)
(* input holds, and the output that is read back word by word.  What a pixel *)
(* looks like (quantisation, the transform, colour) is left out: the output  *)
(* is how many pixels or words are in the FIFO.                              *)
EXTENDS Integers, FiniteSets, Sequences, SequencesExt

CONSTANTS
    BlockLen,      \* coefficients of a block, 64
    ColourPixels,  \* pixels of a colour macroblock, 256
    MonoWords,     \* words of a monochrome block, 16
    TableWords,    \* words of one quantisation table, 16; of two and of the scale, 32
    ParamWrap      \* params_remaining is taken modulo this, 2^16

ASSUME MdecAssumption ==
    /\ BlockLen \in Nat \ {0, 1} /\ ParamWrap \in Nat \ {0, 1}
    /\ ColourPixels \in Nat \ {0} /\ ColourPixels % 4 = 0 /\ MonoWords \in Nat \ {0} /\ TableWords \in Nat \ {0}

\* A halfword of an input is a run of zeroes, BlockLen - 1 at most, before the next
\* coefficient; 0xfe00, the longest run with a zero after it, ends a block like any
\* run that is too long, but before a block it is skipped.
Pad == BlockLen

\* A word is read as a command or as two halfwords, as the state has it.
\* command: 1 decode, 2 and 3 the tables; len is params_len.
Word(command, depth, len, hw) ==
    [command |-> command, depth |-> depth, len |-> len, hw |-> hw]
Depth == {"Bit4", "Bit8", "Bit24", "Bit15"}
WordType == [command : 0 .. 7, depth : Depth, len : 0 .. ParamWrap - 1, hw : Seq(0 .. Pad)]

Reset ==
    [ depth |-> "Bit4", busy |-> FALSE, in_request |-> FALSE, out_request |-> FALSE,
      in_enable |-> FALSE, out_enable |-> FALSE, state |-> "Idle", remaining |-> 0,
      in_buf |-> <<>>, fifo |-> 0, out_pos |-> 0, read_part |-> 0 ]

UpdateDmaRequests(d) ==
    [d EXCEPT !.in_request = d.in_enable /\ d.fifo = 0,
              !.out_request = d.out_enable /\ d.fifo # 0]

DmaCanWrite(d) == d.in_request /\ d.fifo = 0
DmaCanRead(d)  == d.out_request /\ d.fifo # 0

WriteControl(d, reset, in, out) ==
    IF reset THEN Reset
    ELSE UpdateDmaRequests([d EXCEPT !.in_enable = in, !.out_enable = out])
-----------------------------------------------------------------------------
\* next_halfword and the position after it; the end of the input reads as Pad.
NextHalfword(buf, p) == IF p >= Len(buf) THEN Pad ELSE buf[p + 1]
After(buf, p) == IF p >= Len(buf) THEN p ELSE p + 1

\* rl_decode_block, from src_pos p: where the block ends, or -1 when nothing
\* but padding is left.
BlockEnd(buf, p) ==
    LET started == {q \in (p + 1) .. Len(buf) : buf[q] # Pad}
        scan[q \in 0 .. Len(buf), k \in 0 .. BlockLen - 1] ==
            LET next == k + NextHalfword(buf, q) + 1
            IN IF next >= BlockLen THEN After(buf, q) ELSE scan[After(buf, q), next]
    IN IF started = {} THEN -1
       ELSE scan[CHOOSE q \in started : \A o \in started : q <= o, 0]

IsColour(depth) == depth \in {"Bit15", "Bit24"}

\* n blocks one after another.
BlocksEnd(buf, p, n) ==
    FoldLeft(LAMBDA q, x : IF q = -1 THEN -1 ELSE BlockEnd(buf, q), p, [i \in 1 .. n |-> i])

\* The outputs of a whole input: of every macroblock it holds, counted from its
\* beginning, a block having a halfword at least.  One the input breaks off is dropped.
Decoded(buf, depth) ==
    LET each  == IF IsColour(depth) THEN 6 ELSE 1
        made  == IF IsColour(depth) THEN ColourPixels ELSE MonoWords
        whole == {n \in 1 .. (Len(buf) \div each) : BlocksEnd(buf, 0, each * n) # -1}
    IN made * Cardinality(whole)

DecodeMacroblocks(d) ==
    UpdateDmaRequests([d EXCEPT !.fifo = Decoded(d.in_buf, d.depth),
                                !.out_pos = 0, !.read_part = 0])
-----------------------------------------------------------------------------
Command(d, state, remaining) ==
    [d EXCEPT !.state = state, !.remaining = remaining, !.busy = TRUE]

DecodeCommand(d, len) ==
    [ Command(d, "Decode", (len - 1) % ParamWrap) EXCEPT
          !.in_buf = <<>>, !.fifo = 0, !.out_pos = 0, !.read_part = 0 ]

\* The format of the output is taken from any command, an output that is
\* still being read included.
WriteCommand(d, w) ==
    LET e == [d EXCEPT !.depth = w.depth]
    IN UpdateDmaRequests(
           CASE w.command = 1 -> DecodeCommand(e, w.len)
             [] w.command = 2 -> Command(e, "SetQuant", (IF w.len % 2 = 1 THEN 2 ELSE 1) * TableWords - 1)
             [] w.command = 3 -> Command(e, "SetScale", 2 * TableWords - 1)
             [] OTHER -> [e EXCEPT !.remaining = w.len])

\* A parameter counts down; the last one decodes what was collected.
WriteParam(d, w) ==
    LET is_last == d.remaining = 0
        took == IF d.state = "Decode" THEN [d EXCEPT !.in_buf = @ \o w.hw] ELSE d
        done == IF d.state = "Decode" /\ is_last THEN DecodeMacroblocks(took) ELSE took
        next == [done EXCEPT !.remaining = (@ - 1) % ParamWrap]
    IN CASE d.state = "Idle" -> WriteCommand(d, w)
         [] d.state # "Idle" /\ ~is_last -> next
         [] d.state # "Idle" /\ is_last ->
                [next EXCEPT !.state = "Idle", !.busy = d.state = "Decode" /\ next.fifo > 0]
-----------------------------------------------------------------------------
\* Mutant: the last pixels of a 24-bit output are not given one by one.
ReadPosStuck(d) ==
    LET left == d.fifo - d.out_pos
    IN CASE d.depth = "Bit15" -> d.out_pos + 2
         [] d.depth = "Bit24" /\ left < 4 -> d.out_pos
         [] d.depth = "Bit24" /\ left >= 4 -> IF d.read_part = 2 THEN d.out_pos + 4 ELSE d.out_pos
         [] OTHER -> d.out_pos + 1
\* Where reading one word leaves the position: two pixels of 15 bits or none,
\* four of 24 in three words or one at the end, one word of 4 or 8 bits.
ReadPos(d) ==
    LET left == d.fifo - d.out_pos
    IN CASE d.depth = "Bit15" -> IF left >= 2 THEN d.out_pos + 2 ELSE d.out_pos
         [] d.depth = "Bit24" /\ left < 4 -> d.out_pos + 1
         [] d.depth = "Bit24" /\ left >= 4 -> IF d.read_part = 2 THEN d.out_pos + 4 ELSE d.out_pos
         [] OTHER -> d.out_pos + 1
ReadPart(d) ==
    IF d.depth = "Bit24" /\ d.fifo - d.out_pos >= 4 THEN (d.read_part + 1) % 3 ELSE d.read_part

\* Mutant: the requests are not looked at again.
DmaReadWordStale(d) ==
    IF d.out_pos >= d.fifo THEN d
    ELSE LET e == [d EXCEPT !.out_pos = ReadPos(d), !.read_part = ReadPart(d)]
         IN IF e.out_pos >= e.fifo THEN [e EXCEPT !.fifo = 0, !.out_pos = 0, !.busy = FALSE]
            ELSE e
DmaReadWord(d) ==
    IF d.out_pos >= d.fifo THEN d
    ELSE LET e == [d EXCEPT !.out_pos = ReadPos(d), !.read_part = ReadPart(d)]
         IN IF e.out_pos < e.fifo THEN e
            ELSE UpdateDmaRequests([e EXCEPT !.fifo = 0, !.out_pos = 0, !.busy = FALSE])
=============================================================================
