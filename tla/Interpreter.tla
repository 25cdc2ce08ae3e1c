----------------------------- MODULE Interpreter -----------------------------
(* interpreter.rs: what one instruction does to the machine.  The machine is *)
(* a record of the Registers (r, hi, lo, pc, sr, cause, epc, baddr, load),   *)
(* the interpreter's own fields (next_pc, current_pc, branch, delay_slot,    *)
(* interrupt), memory and a coprocessor 2 of one data and one control        *)
(* register.  Every operator takes the machine and returns it changed.       *)
EXTENDS Mips

CONSTANT HandlerBoot   \* 0xbfc00180

SetReg(s, i, v) == [s EXCEPT !.r[i] = IF i = 0 THEN 0 ELSE v]

\* A load reaches its register with the instruction after it.
DelayedLoad(s) == [SetReg(s, s.load[1], s.load[2]) EXCEPT !.load = <<0, 0>>]
DelayedLoadChain(s, reg, v) ==
    [ IF s.load[1] # reg THEN SetReg(s, s.load[1], s.load[2]) ELSE s
        EXCEPT !.load = <<reg, v>> ]

Raise(s, cause, addr) ==
    LET handler == IF IsBoot(s.sr) THEN HandlerBoot ELSE HandlerRam
    IN [s EXCEPT !.sr = (@ - (@ % ModeMask)) + ((4 * @) % ModeMask),
                 !.cause = (@ % CauseSoftware) + 4 * ExceptionCode[cause]
                           + IF s.delay_slot THEN CauseDelay ELSE 0,
                 !.epc = IF s.delay_slot THEN Wrap(s.current_pc - 4) ELSE s.current_pc,
                 !.baddr = IF IsAddressError(cause) THEN addr ELSE @,
                 !.pc = handler, !.next_pc = Wrap(handler + 4), !.interrupt = TRUE]
Trap(s, cause) == Raise(s, cause, 0)

Put(s, mem) == IF IsIsolated(s.sr) THEN s ELSE [s EXCEPT !.mem = mem]
Address(s, n) == Wrap(s.r[n.rs] + ImmSe(n))
-----------------------------------------------------------------------------
\* Operations on registers alone: the value, then the pending load, then the
\* destination.
LogicOps == {"lui", "ori", "andi", "or", "xor", "xori", "nor", "and"}
LogicValue(s, n) ==
    LET a == s.r[n.rs]  b == s.r[n.rt]
    IN CASE n.op = "lui"  -> n.imm * Half
         [] n.op = "ori"  -> Or(n.imm, a)
         [] n.op = "andi" -> And(n.imm, a)
         [] n.op = "or"   -> Or(a, b)
         [] n.op = "xor"  -> Xor(a, b)
         [] n.op = "xori" -> Xor(a, n.imm)
         [] n.op = "nor"  -> Not(Or(a, b))
         [] n.op = "and"  -> And(a, b)

ShiftOps == {"sll", "sllv", "sra", "srav", "srl", "srlv"}
ShiftValue(s, n) ==
    LET i  == IF n.op \in {"sllv", "srav", "srlv"} THEN s.r[n.rs] ELSE n.imm
        by == Pow2[i % (4 * ByteBits)]
        v == s.r[n.rt]
    IN CASE n.op \in {"sll", "sllv"} -> Wrap(v * by)
         [] n.op \in {"sra", "srav"} -> Wrap(Signed(v) \div by)
         [] n.op \in {"srl", "srlv"} -> v \div by

AddOps == {"addu", "subu", "addiu"}
AddValue(s, n) ==
    CASE n.op = "addu"  -> Wrap(s.r[n.rs] + s.r[n.rt])
      [] n.op = "subu"  -> Wrap(s.r[n.rs] - s.r[n.rt])
      [] n.op = "addiu" -> Wrap(s.r[n.rs] + ImmSe(n))

SetOps == {"slt", "sltu", "slti", "sltiu"}
SetValue(s, n) ==
    LET a == s.r[n.rs]  b == IF n.op \in {"slt", "sltu"} THEN s.r[n.rt] ELSE ImmSe(n)
        less == IF n.op \in {"slt", "slti"} THEN Signed(a) < Signed(b) ELSE a < b
    IN IF less THEN 1 ELSE 0

ToRt == {"lui", "ori", "andi", "xori", "addiu", "slti", "sltiu"}
Dest(n) == IF n.op \in ToRt THEN n.rt ELSE n.rd
Value(s, n) ==
    CASE n.op \in LogicOps -> LogicValue(s, n)
      [] n.op \in ShiftOps -> ShiftValue(s, n)
      [] n.op \in AddOps   -> AddValue(s, n)
      [] n.op \in SetOps   -> SetValue(s, n)
Compute(s, n) == SetReg(DelayedLoad(s), Dest(n), Value(s, n))

\* add and addi give up before the pending load arrives, sub after it.
Checked(s, n) ==
    LET a == Signed(s.r[n.rs])
        b == Signed(IF n.op = "addi" THEN ImmSe(n) ELSE s.r[n.rt])
        v == IF n.op = "sub" THEN a - b ELSE a + b
        fits == -Sign <= v /\ v < Sign
    IN CASE fits -> SetReg(DelayedLoad(s), IF n.op = "addi" THEN n.rt ELSE n.rd, Wrap(v))
         [] ~fits /\ n.op = "sub" -> Trap(DelayedLoad(s), "Overflow")
         [] OTHER -> Trap(s, "Overflow")
-----------------------------------------------------------------------------
MoveHiLo(s, n) ==
    LET t == DelayedLoad(s)
    IN CASE n.op = "mfhi" -> SetReg(t, n.rd, t.hi)
         [] n.op = "mflo" -> SetReg(t, n.rd, t.lo)
         [] n.op = "mthi" -> [t EXCEPT !.hi = t.r[n.rs]]
         [] n.op = "mtlo" -> [t EXCEPT !.lo = t.r[n.rs]]

Multiply(s, n) ==
    LET p == Wide(n, s.r[n.rs]) * Wide(n, s.r[n.rt])
    IN [DelayedLoad(s) EXCEPT !.hi = Wrap(p \div Size), !.lo = Wrap(p)]

\* The remainder and the quotient.
Divided(a, d) ==
    CASE d = 0 -> <<Wrap(a), IF a < 0 THEN 1 ELSE Size - 1>>
      [] d = -1 /\ a = -Sign -> <<0, Sign>>
      [] OTHER -> <<Wrap(Rem(a, d)), Wrap(Quot(a, d))>>
Divide(s, n) ==
    LET result == Divided(Wide(n, s.r[n.rs]), Wide(n, s.r[n.rt]))
    IN [DelayedLoad(s) EXCEPT !.hi = result[1], !.lo = result[2]]
-----------------------------------------------------------------------------
\* Memory.
Width(n) == CASE n.op \in {"sw", "lw", "swc2", "lwc2"} -> 4
              [] n.op \in {"sh", "lh", "lhu"} -> 2
              [] OTHER -> 1
Misaligned(n, a) == a % Width(n) # 0

StoreOp(s, n) ==
    LET a == Address(s, n)
        t == DelayedLoad(s)
    IN IF Misaligned(n, a) THEN Raise(t, "StoreAddressError", a)
       ELSE Put(t, Store(t.mem, a, s.r[n.rt], Lane(Width(n))))

LoadOp(s, n) ==
    LET a == Address(s, n)
        v == Load(s.mem, a, Lane(Width(n)))
    IN IF Misaligned(n, a) THEN Raise(DelayedLoad(s), "LoadAddressError", a)
       ELSE DelayedLoadChain(s, n.rt, IF n.op = "lh" THEN Extend(v, Half) ELSE v)

LoadByteOp(s, n) ==
    LET v == Load(s.mem, Address(s, n), B)
    IN DelayedLoadChain(s, n.rt, IF n.op = "lb" THEN Extend(v, B) ELSE v)

\* The part of a word that an unaligned access keeps of the old value: the low
\* lanes for the left half, the high ones for the right half.
LoadPart(s, n) ==
    LET a   == Address(s, n)
        low == a % 4
        cur == IF s.load[1] = n.rt THEN s.load[2] ELSE s.r[n.rt]
        w   == LoadWord(s.mem, a)
        v   == IF n.op = "lwl"
               THEN (cur % Lane(3 - low)) + Wrap(w * Lane(3 - low))
               ELSE (cur - (cur % Lane(4 - low))) + (w \div Lane(low))
    IN DelayedLoadChain(s, n.rt, v)

StorePart(s, n) ==
    LET a   == Address(s, n)
        low == a % 4
        v   == s.r[n.rt]
        cur == LoadWord(s.mem, a)
        w   == IF n.op = "swl"
               THEN (cur - (cur % Lane(low + 1))) + (v \div Lane(3 - low))
               ELSE (cur % Lane(low)) + Wrap(v * Lane(low))
        t   == DelayedLoad(s)
    IN Put(t, StoreWord(t.mem, a, w))
-----------------------------------------------------------------------------
\* Jumps take effect after the instruction that follows them.
Jump(s, n) ==
    LET t == [DelayedLoad(s) EXCEPT !.branch = TRUE]
    IN CASE n.op = "j"    -> [t EXCEPT !.next_pc = RegionBase(s.current_pc) + Target(n)]
         [] n.op = "jal"  -> SetReg([t EXCEPT !.next_pc = RegionBase(s.pc) + Target(n)],
                                    31, s.next_pc)
         [] n.op = "jr"   -> [t EXCEPT !.next_pc = s.r[n.rs]]
         [] n.op = "jalr" -> SetReg([t EXCEPT !.next_pc = s.r[n.rs]], n.rd, s.next_pc)

BranchTo(s, offset) ==
    [DelayedLoad(s) EXCEPT !.next_pc = Wrap(s.pc + 4 * offset), !.branch = TRUE]
Branch(s, n) ==
    LET a == s.r[n.rs]
        taken == CASE n.op = "beq" -> a = s.r[n.rt]
                   [] n.op = "bne" -> a # s.r[n.rt]
                   [] n.op = "blez" -> Signed(a) <= 0
                   [] n.op = "bgtz" -> Signed(a) > 0
    IN IF taken THEN BranchTo(s, ImmSe(n)) ELSE DelayedLoad(s)

\* bltz, bgez, bltzal, bgezal: bit 0 of rt inverts, rt 16 and 17 link.
BranchLink(s, n) ==
    LET taken == (s.r[n.rs] >= Sign) # (n.rt % 2 = 1)
        t == DelayedLoad(s)
        u == IF n.rt \div 2 = 8 THEN SetReg(t, 31, Wrap(t.pc + 4)) ELSE t
    IN IF taken THEN BranchTo(u, ImmSe(n)) ELSE u
-----------------------------------------------------------------------------
Traps == {"syscall", "break", "illegal", "cop1"} \cup Coprocessor
TrapOp(s, n) ==
    Trap(DelayedLoad(s),
         CASE n.op = "syscall" -> "SysCall"
           [] n.op = "break"   -> "Break"
           [] n.op = "illegal" -> "IllegalInstruction"
           [] n.op \in {"cop1"} \cup Coprocessor -> "CoprocessorError")

\* Coprocessor 2 and memory: a misaligned store is reported as a load.
Lwc2(s, n) ==
    LET a == Address(s, n)  t == DelayedLoad(s)
    IN IF Misaligned(n, a) THEN Raise(t, "LoadAddressError", a)
       ELSE [t EXCEPT !.gd = LoadWord(t.mem, a)]
Swc2(s, n) ==
    LET a == Address(s, n)  t == DelayedLoad(s)
    IN IF Misaligned(n, a) THEN Raise(t, "LoadAddressError", a)
       ELSE Put(t, StoreWord(t.mem, a, s.gd))

Cop2(s, n) ==
    CASE n.op = "gte"  -> [DelayedLoad(s) EXCEPT !.gd = GteCommand(s.gd, s.gc)]
      [] n.op = "mfc2" -> DelayedLoadChain(s, n.rt, s.gd)
      [] n.op = "cfc2" -> DelayedLoadChain(s, n.rt, s.gc)
      [] n.op = "mtc2" -> [DelayedLoad(s) EXCEPT !.gd = s.r[n.rt]]
      [] n.op = "ctc2" -> [DelayedLoad(s) EXCEPT !.gc = s.r[n.rt]]

\* Reads and writes of baddr (8), the status (12), the cause (13) and, read
\* only, epc (14).  Any other write panics.
Cop0(s, n) ==
    LET v == s.r[n.rt]
        read == CASE n.rd = 8 -> s.baddr [] n.rd = 12 -> s.sr
                  [] n.rd = 13 -> s.cause [] n.rd = 14 -> s.epc
                  [] n.rd \in {6, 7} -> 0 [] n.rd = 15 -> 2
        t == DelayedLoad(s)
    IN CASE n.op = "mfc0" -> DelayedLoadChain(s, n.rt, read)
         [] n.op = "mtc0" /\ n.rd = 8  -> [t EXCEPT !.baddr = v]
         [] n.op = "mtc0" /\ n.rd = 12 -> [t EXCEPT !.sr = v]
         [] n.op = "mtc0" /\ n.rd = 13 ->
                [t EXCEPT !.cause = (@ - (@ % CauseSoftware)) + (v % CauseSoftware)]
         [] n.op = "rfe" -> [t EXCEPT !.sr = (@ - (@ % 16)) + ((@ % ModeMask) \div 4)]
-----------------------------------------------------------------------------
Execute(s, n) ==
    CASE n.op \in LogicOps \cup ShiftOps \cup AddOps \cup SetOps -> Compute(s, n)
      [] n.op \in {"add", "addi", "sub"} -> Checked(s, n)
      [] n.op \in {"mfhi", "mthi", "mflo", "mtlo"} -> MoveHiLo(s, n)
      [] n.op \in {"mult", "multu"} -> Multiply(s, n)
      [] n.op \in {"div", "divu"} -> Divide(s, n)
      [] n.op \in {"sw", "sh", "sb"} -> StoreOp(s, n)
      [] n.op \in {"lw", "lh", "lhu"} -> LoadOp(s, n)
      [] n.op \in {"lb", "lbu"} -> LoadByteOp(s, n)
      [] n.op \in {"lwl", "lwr"} -> LoadPart(s, n)
      [] n.op \in {"swl", "swr"} -> StorePart(s, n)
      [] n.op \in {"j", "jal", "jr", "jalr"} -> Jump(s, n)
      [] n.op \in {"beq", "bne", "blez", "bgtz"} -> Branch(s, n)
      [] n.op = "bxx" -> BranchLink(s, n)
      [] n.op \in Traps -> TrapOp(s, n)
      [] n.op = "cop3" -> Trap(s, "CoprocessorError")
      [] n.op = "lwc2" -> Lwc2(s, n)
      [] n.op = "swc2" -> Swc2(s, n)
      [] n.op \in {"gte", "mfc2", "cfc2", "mtc2", "ctc2"} -> Cop2(s, n)
      [] n.op \in {"mfc0", "mtc0", "rfe"} -> Cop0(s, n)

\* run_next_instruction_no_interrupts, for the instruction found at pc.
RunNext(s, n) ==
    Execute([s EXCEPT !.current_pc = s.pc, !.pc = s.next_pc,
                      !.next_pc = Wrap(@ + 4), !.delay_slot = s.branch,
                      !.branch = FALSE], n)
=============================================================================
