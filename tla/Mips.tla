-------------------------------- MODULE Mips --------------------------------
(* The instruction set both engines execute: the decoder of cpu.rs and the   *)
(* arithmetic of words.  A word has four bytes, as in the code, but a byte   *)
(* has ByteBits bits instead of eight, so that every lane, carry and sign is *)
(* there in a few bits.                                                      *)
EXTENDS Integers

CONSTANTS ByteBits,   \* width of a byte: 8 in the code
          Reg,        \* the general registers a program uses; the code has 32
          GteCommand(_, _),  \* the data register after a coprocessor command
          HandlerRam  \* 0x80000080

Pow2[k \in 0 .. 4 * ByteBits] == IF k = 0 THEN 1 ELSE 2 * Pow2[k - 1]
\* What one stands for in lane k of a word.
Lane(k) == Pow2[k * ByteBits]

B    == Lane(1)
Half == Lane(2)
Size == Lane(4)
Sign == Size \div 2
Word == 0 .. Size - 1

Wrap(x)   == x % Size
Signed(x) == IF x < Sign THEN x ELSE x - Size

\* A value of `lim` values seen as signed and widened to a word.
Extend(x, lim) == IF x < lim \div 2 THEN x ELSE Wrap(x - lim)

\* The places where a word has a one, and the word with ones in given places.
Bits(x) == {k \in 0 .. 4 * ByteBits - 1 : (x \div Pow2[k]) % 2 = 1}
OfBits(S) ==
    LET sum[k \in 0 .. 4 * ByteBits] ==
            IF k = 0 THEN 0 ELSE sum[k - 1] + IF k - 1 \in S THEN Pow2[k - 1] ELSE 0
    IN sum[4 * ByteBits]
Or(x, y)  == OfBits(Bits(x) \cup Bits(y))
And(x, y) == OfBits(Bits(x) \cap Bits(y))
Xor(x, y) == OfBits((Bits(x) \ Bits(y)) \cup (Bits(y) \ Bits(x)))
Not(x)    == Size - 1 - x

\* The quotient and remainder of Rust and of the host: truncated to zero.
Abs(x) == IF x < 0 THEN -x ELSE x
Quot(n, d) == IF (n < 0) = (d < 0) THEN Abs(n) \div Abs(d) ELSE -(Abs(n) \div Abs(d))
Rem(n, d)  == n - d * Quot(n, d)

-----------------------------------------------------------------------------
\* An instruction: its operation by the name of its handler, its register
\* fields and its immediate (half a word; the target of a jump; a shift).
Instr(op, rs, rt, rd, imm) == [op |-> op, rs |-> rs, rt |-> rt, rd |-> rd, imm |-> imm]
Nop == Instr("sll", 0, 0, 0, 0)

ImmSe(n) == Extend(n.imm, Half)
Wide(n, w) == IF n.op \in {"mult", "div"} THEN Signed(w) ELSE w

\* A jump to a target stays in the region of its address (its upper half here,
\* one of sixteen in the code).
RegionBase(a) == a - (a % Sign)
Target(n) == Wrap(4 * n.imm) % Sign

Coprocessor == {"lwc0", "lwc1", "lwc3", "swc0", "swc1", "swc3"}

\* No handler, or a coprocessor the console lacks; the block ends there.
IsIllegal(n) == n.op \in {"illegal"} \cup Coprocessor
IsUnconditionalJump(n) ==
    IsIllegal(n) \/ n.op \in {"j", "jal", "jr", "jalr", "break", "syscall"}
IsConditionalJump(n) == n.op \in {"bxx", "beq", "bne", "blez", "bgtz"}

ExceptionCode ==
    [ ExternalInterrupt |-> 0, LoadAddressError |-> 4, StoreAddressError |-> 5,
      BusErrorOnFetch |-> 6, SysCall |-> 8, Break |-> 9, IllegalInstruction |-> 10,
      CoprocessorError |-> 11, Overflow |-> 12 ]
IsAddressError(cause) == cause \in {"LoadAddressError", "StoreAddressError"}

-----------------------------------------------------------------------------
\* Guest memory: two words, repeated through the address space.
Cell(a) == (a \div 4) % 2
Load(mem, a, lim) == (mem[Cell(a)] \div Lane(a % 4)) % lim
Store(mem, a, v, lim) ==
    LET at == Lane(a % 4)
    IN [mem EXCEPT ![Cell(a)] = @ + at * ((v % lim) - ((@ \div at) % lim))]
LoadWord(mem, a) == mem[Cell(a)]
StoreWord(mem, a, v) == [mem EXCEPT ![Cell(a)] = v]

-----------------------------------------------------------------------------
\* The status register: six bits of mode stack, bit 16 (cache isolated) and
\* bit 22 (boot vectors), here bits 6 and 7.  The cause register: bits 8 and 9
\* (software interrupts), here 0 and 1, the code from bit 2, and bit 31 (branch
\* delay), here 7.
ModeMask == 64
IsIsolated(sr) == (sr \div 64) % 2 = 1
IsBoot(sr)     == (sr \div 128) % 2 = 1
CauseSoftware == 4
CauseDelay    == 128
=============================================================================
