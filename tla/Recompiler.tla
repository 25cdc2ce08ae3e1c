----------------------------- MODULE Recompiler -----------------------------
(* dynarec.rs: the code Compiler::compile_block emits for a block, run from  *)
(* a given entry state.  The machine is a record of                          *)
(*   v, regs        the variables of the block and the set of them loaded at *)
(*                  the entry and saved at every exit, by Registers index    *)
(*   delayed_load   the load known to be pending when the block was compiled *)
(*   i, delay_slot  the index being compiled and whether in a delay slot     *)
(*   m              the Registers in memory, the ones the interpreter uses   *)
(*   mem, gd, gc    memory and coprocessor 2                                 *)
(*   done, cycles   set when the block has returned.                         *)
(* What is decided when compiling (regs, delayed_load, i) follows the order  *)
(* of the instructions, and what happens at run time the path taken.         *)
EXTENDS Mips

CONSTANT HandlerCompiled   \* 0xfbc00180

REG_HI == 32   REG_LO == 33   REG_PC == 34   REG_SR == 35   REG_CAUSE == 36
REG_EPC == 37  REG_BADDR == 38  REG_LOAD_REG == 39  REG_LOAD_VAL == 40
Var == Reg \cup REG_HI .. REG_LOAD_VAL
None == <<>>

\* A variable that was not loaded at the entry reads as zero.
Use(j, x)    == IF x \in j.regs THEN j.v[x] ELSE 0
Def(j, x, w) == [j EXCEPT !.v[x] = w]
DefReg(j, x, w) == IF x = 0 THEN j ELSE Def(j, x, w)

Enter(m, mem, gd, gc) ==
    [ v |-> m, regs |-> {}, delayed_load |-> None, i |-> 0, addr |-> m[REG_PC],
      delay_slot |-> FALSE, m |-> m, mem |-> mem, gd |-> gd, gc |-> gc,
      done |-> FALSE, cycles |-> 0 ]

\* The block returns: the variables of regs are stored, then pc.
SaveContext(j) == [j EXCEPT !.m = [x \in Var |-> IF x \in j.regs THEN j.v[x] ELSE @[x]]]
Return(j, pc, cycles) ==
    [SaveContext(j) EXCEPT !.m[REG_PC] = pc, !.done = TRUE, !.cycles = cycles]

CurrentPc(j) == Wrap(j.addr + 4 * j.i)
GetCyclesFromZero(j) == j.i
GetCycles(j) == j.i + 1
-----------------------------------------------------------------------------
\* The registers an instruction makes the block load and save.
ExceptionRegs == {REG_SR, REG_CAUSE, REG_EPC, REG_BADDR}
RegsOfSpecial(n) ==
    CASE n.op \in {"sll", "srl", "sra"} -> {n.rt, n.rd}
      [] n.op \in {"sllv", "srlv", "srav", "addu", "subu", "and", "or", "xor", "nor",
                   "slt", "sltu"} -> {n.rt, n.rs, n.rd}
      [] n.op = "jr"   -> {n.rs}
      [] n.op = "jalr" -> {n.rs, n.rd}
      [] n.op \in {"syscall", "break"} -> ExceptionRegs
      [] n.op = "mfhi" -> {REG_HI, n.rd}
      [] n.op = "mthi" -> {REG_HI, n.rs}
      [] n.op = "mflo" -> {REG_LO, n.rd}
      [] n.op = "mtlo" -> {REG_LO, n.rs}
      [] n.op \in {"mult", "multu", "div", "divu"} -> {n.rt, n.rs, REG_LO, REG_HI}
      [] n.op \in {"add", "sub"} -> ExceptionRegs \cup {n.rt, n.rs, n.rd}

RegsOfImmediate(n) ==
    CASE n.op = "bxx" -> {n.rs, 31}
      [] n.op = "j"   -> {}
      [] n.op = "jal" -> {31}
      [] n.op \in {"beq", "bne", "addiu", "slti", "sltiu", "andi", "ori", "xori"}
              -> {n.rs, n.rt}
      [] n.op \in {"blez", "bgtz"} -> {n.rs}
      [] n.op = "addi" -> ExceptionRegs \cup {n.rs, n.rt}
      [] n.op = "lui"  -> {n.rt}

RegsOfMemory(n) ==
    CASE n.op \in {"lb", "lbu", "lwl", "lwr"} -> {n.rs, n.rt}
      [] n.op \in {"lh", "lhu", "lw"} -> {n.rs, n.rt} \cup ExceptionRegs
      [] n.op \in {"sb", "swl", "swr"} -> {n.rs, n.rt, REG_SR}
      [] n.op \in {"sh", "sw"} -> {n.rs, n.rt} \cup ExceptionRegs
      [] n.op \in {"lwc2", "swc2"} -> {n.rs} \cup ExceptionRegs

RegsOfCop0(n) ==
    LET named == CASE n.rd = 8 -> {REG_BADDR} [] n.rd = 12 -> {REG_SR}
                   [] n.rd = 13 -> {REG_CAUSE} [] n.rd = 14 -> {REG_EPC}
                   [] OTHER -> {}
    IN IF n.op = "rfe" THEN {REG_SR} ELSE named \cup {n.rt}

RegsOfCop2(n) == IF n.op = "gte" THEN {} ELSE {n.rt}

Special   == {"sll", "srl", "sra", "sllv", "srlv", "srav", "jr", "jalr", "syscall",
              "break", "mfhi", "mthi", "mflo", "mtlo", "mult", "multu", "div", "divu",
              "add", "addu", "sub", "subu", "and", "or", "xor", "nor", "slt", "sltu"}
Immediate == {"bxx", "j", "jal", "beq", "bne", "blez", "bgtz", "addi", "addiu", "slti",
              "sltiu", "andi", "ori", "xori", "lui"}
MemoryOps == {"lb", "lh", "lwl", "lw", "lbu", "lhu", "lwr", "sb", "sh", "swl", "sw",
              "swr", "lwc2", "swc2"}
Cop0Ops   == {"mfc0", "mtc0", "rfe"}
Cop2Ops   == {"gte", "mfc2", "cfc2", "mtc2", "ctc2"}

GetRegisters(n) ==
    CASE n.op \in Special   -> RegsOfSpecial(n)
      [] n.op \in Immediate -> RegsOfImmediate(n)
      [] n.op \in MemoryOps -> RegsOfMemory(n)
      [] n.op \in Cop0Ops   -> RegsOfCop0(n)
      [] n.op \in Cop2Ops   -> RegsOfCop2(n)
      [] OTHER -> {}
-----------------------------------------------------------------------------
\* A load that is pending at the entry is committed by the code of the first
\* instruction, unless that instruction loads the same register.
NoReg == -1
CheckForLoadInRegs(j, current) ==
    LET reg == j.m[REG_LOAD_REG]
        val == j.m[REG_LOAD_VAL]
        k == [j EXCEPT !.v[REG_LOAD_REG] = reg, !.v[REG_LOAD_VAL] = val,
                       !.regs = @ \cup {REG_LOAD_REG}]
    IN CASE j.i # 0 -> j
         [] j.i = 0 /\ (reg = 0 \/ reg = current) -> k
         [] OTHER -> [k EXCEPT !.v[reg] = val, !.v[REG_LOAD_REG] = 0, !.m[reg] = val]

Commit(k, d) == IF d # None THEN DefReg(k, d[1], d[2]) ELSE k
CompileDelayedLoad(j, clear) ==
    LET committed(k) == [Commit(k, k.delayed_load) EXCEPT !.delayed_load = IF clear THEN None ELSE @]
    IN committed(CheckForLoadInRegs(j, NoReg))

GetRegFromDelayLoad(j, x) ==
    IF j.delayed_load # None /\ j.delayed_load[1] = x THEN j.delayed_load[2] ELSE Use(j, x)

ChainAlwaysCommits(j, reg, w) ==
    [CompileDelayedLoad(j, TRUE) EXCEPT !.delayed_load = <<reg, w>>]
CompileDelayedLoadChain(j, reg, w) ==
    LET chained(k, d) == [ IF d # None /\ d[1] = reg THEN k ELSE Commit(k, d)
                             EXCEPT !.delayed_load = <<reg, w>> ]
    IN chained(CheckForLoadInRegs(j, reg), CheckForLoadInRegs(j, reg).delayed_load)

\* At the end of a block the load goes back to the Registers.
PushDelayLoadToRegs(j) ==
    LET d == j.delayed_load
    IN IF d = None \/ d[1] = 0 THEN [j EXCEPT !.delayed_load = None]
       ELSE [j EXCEPT !.v[REG_LOAD_REG] = d[1], !.v[REG_LOAD_VAL] = d[2],
                      !.regs = @ \cup {REG_LOAD_REG, REG_LOAD_VAL}, !.delayed_load = None]

ExceptionKeepsMode(j, reason, addr) ==
    LET epc == IF j.delay_slot THEN Wrap(CurrentPc(j) - 4) ELSE CurrentPc(j)
        k == [j EXCEPT !.v[REG_CAUSE] = 4 * ExceptionCode[reason], !.v[REG_EPC] = epc]
    IN Return(k, IF IsBoot(Use(j, REG_SR)) THEN HandlerCompiled ELSE HandlerRam, GetCycles(j))
CompileException(j, reason, addr) ==
    LET sr0 == Use(j, REG_SR)
        sr  == (sr0 - (sr0 % ModeMask)) + ((4 * sr0) % ModeMask)
        cause == (Use(j, REG_CAUSE) % CauseSoftware) + 4 * ExceptionCode[reason]
                 + (IF j.delay_slot THEN CauseDelay ELSE 0)
        epc == IF j.delay_slot THEN Wrap(CurrentPc(j) - 4) ELSE CurrentPc(j)
        k == [j EXCEPT !.v[REG_SR] = sr, !.v[REG_CAUSE] = cause, !.v[REG_EPC] = epc,
                       !.v[REG_BADDR] = IF IsAddressError(reason) THEN addr ELSE @]
    IN Return(k, IF IsBoot(sr) THEN HandlerCompiled ELSE HandlerRam, GetCycles(j))
-----------------------------------------------------------------------------
\* Operations on registers: the operands, the pending load, the destination.
CompileAdd(j, n) ==
    LET a == Signed(Use(j, n.rs))
        b == Signed(IF n.op = "addi" THEN ImmSe(n) ELSE Use(j, n.rt))
        res == IF n.op = "sub" THEN a - b ELSE a + b
        k == CompileDelayedLoad(j, TRUE)
    IN IF res >= Sign \/ res < -Sign THEN CompileException(k, "Overflow", 0)
       ELSE DefReg(k, IF n.op = "addi" THEN n.rt ELSE n.rd, Wrap(res))

CompileAddu(j, n) ==
    LET a == Use(j, n.rs)
        res == CASE n.op = "addu"  -> a + Use(j, n.rt)
                 [] n.op = "subu"  -> a - Use(j, n.rt)
                 [] n.op = "addiu" -> a + ImmSe(n)
    IN DefReg(CompileDelayedLoad(j, TRUE), IF n.op = "addiu" THEN n.rt ELSE n.rd, Wrap(res))

HiLo(j, hi, lo) == Def(Def(CompileDelayedLoad(j, TRUE), REG_HI, hi), REG_LO, lo)

CompileDivu(j, n) ==
    LET a == Use(j, n.rs)  d == Use(j, n.rt)
    IN IF d = 0 THEN HiLo(j, a, Size - 1) ELSE HiLo(j, a % d, a \div d)

CompileMult(j, n) ==
    LET result == (Wide(n, Use(j, n.rs)) * Wide(n, Use(j, n.rt))) % (Size * Size)
    IN HiLo(j, result \div Size, result % Size)

\* Division by zero without a branch: -1 times (n >= 0), or else 1.
CompileDiv(j, n) ==
    LET a == Signed(Use(j, n.rs))
        d == Signed(Use(j, n.rt))
        not_neg == IF a >= 0 THEN 1 ELSE 0
    IN CASE d = 0 -> HiLo(j, Wrap(a), Wrap(not_neg * (Size - 1) + (1 - not_neg)))
         [] d # 0 /\ Wrap(a) = Sign /\ d = -1 -> HiLo(j, 0, Sign)
         [] OTHER -> HiLo(j, Wrap(Rem(a, d)), Wrap(Quot(a, d)))

CompileMove(j, n) ==
    LET k == CompileDelayedLoad(j, TRUE)
    IN CASE n.op = "mfhi" -> DefReg(k, n.rd, Use(k, REG_HI))
         [] n.op = "mflo" -> DefReg(k, n.rd, Use(k, REG_LO))
         [] n.op = "mtlo" -> Def(k, REG_LO, Use(j, n.rs))
         [] n.op = "mthi" -> Def(k, REG_HI, Use(j, n.rs))

CompileSet(j, n) ==
    LET a == Use(j, n.rs)
        b == IF n.op \in {"slt", "sltu"} THEN Use(j, n.rt) ELSE ImmSe(n)
        res == IF n.op \in {"slt", "slti"} THEN Signed(a) < Signed(b) ELSE a < b
    IN DefReg(CompileDelayedLoad(j, TRUE), IF n.op \in {"slt", "sltu"} THEN n.rd ELSE n.rt,
              IF res THEN 1 ELSE 0)

CompileLogic(j, n) ==
    LET a == Use(j, n.rs)  b == Use(j, n.rt)
        res == CASE n.op = "lui"  -> n.imm * Half
                 [] n.op = "ori"  -> Or(a, n.imm)
                 [] n.op = "xori" -> Xor(a, n.imm)
                 [] n.op = "andi" -> And(n.imm, a)
                 [] n.op = "and"  -> And(a, b)
                 [] n.op = "or"   -> Or(a, b)
                 [] n.op = "nor"  -> Not(Or(a, b))
                 [] n.op = "xor"  -> Xor(a, b)
    IN DefReg(CompileDelayedLoad(j, TRUE),
              IF n.op \in {"lui", "ori", "xori", "andi"} THEN n.rt ELSE n.rd, res)

CompileShift(j, n) ==
    LET w == Use(j, n.rt)
        by == IF n.op \in {"sllv", "srlv", "srav"} THEN Use(j, n.rs) % (4 * ByteBits) ELSE n.imm
        res == CASE n.op \in {"sll", "sllv"} -> Wrap(w * Pow2[by])
                 [] n.op \in {"srl", "srlv"} -> w \div Pow2[by]
                 [] n.op \in {"sra", "srav"} -> Wrap(Signed(w) \div Pow2[by])
    IN DefReg(CompileDelayedLoad(j, TRUE), n.rd, res)
-----------------------------------------------------------------------------
\* Memory.
Effective(j, n) == Wrap(ImmSe(n) + Use(j, n.rs))
StoreUnlessIsolated(j, mem) ==
    IF IsIsolated(Use(j, REG_SR)) THEN j ELSE [j EXCEPT !.mem = mem]

CompileSw(j, n) ==
    LET a == Effective(j, n)
        k == CompileDelayedLoad(j, TRUE)
    IN IF a % 4 # 0 THEN CompileException(k, "StoreAddressError", a)
       ELSE StoreUnlessIsolated(k, StoreWord(k.mem, a, Use(j, n.rt)))

CompileSh(j, n) ==
    LET a == Effective(j, n)
        k == CompileDelayedLoad(j, TRUE)
    IN IF a % 2 # 0 THEN CompileException(k, "StoreAddressError", a)
       ELSE StoreUnlessIsolated(k, Store(k.mem, a, Use(j, n.rt), Half))

CompileSb(j, n) ==
    LET k == CompileDelayedLoad(j, TRUE)
    IN StoreUnlessIsolated(k, Store(k.mem, Effective(j, n), Use(j, n.rt), B))

CompileLh(j, n) ==
    LET a == Effective(j, n)
        w == Load(j.mem, a, Half)
    IN IF a % 2 # 0 THEN CompileException(CompileDelayedLoad(j, FALSE), "LoadAddressError", a)
       ELSE CompileDelayedLoadChain(j, n.rt, IF n.op = "lh" THEN Extend(w, Half) ELSE w)

CompileLw(j, n) ==
    LET a == Effective(j, n)
    IN IF a % 4 # 0 THEN CompileException(CompileDelayedLoad(j, FALSE), "LoadAddressError", a)
       ELSE CompileDelayedLoadChain(j, n.rt, LoadWord(j.mem, a))

CompileLb(j, n) ==
    LET w == Load(j.mem, Effective(j, n), B)
    IN CompileDelayedLoadChain(j, n.rt, IF n.op = "lb" THEN Extend(w, B) ELSE w)

\* Unaligned words, with masks and shifts computed from the address:
\* 0x00ffffff >> 8 bits keeps the low lanes, 0xffffff00 << 8 bits the high ones.
LowLanes(w, kept)  == w % Lane(kept)
HighLanes(w, gone) == w - (w % Lane(gone))

CompileLwl(j, n) ==
    LET bits == Effective(j, n) % 4
        cur  == GetRegFromDelayLoad(j, n.rt)
        w    == LoadWord(j.mem, Effective(j, n))
    IN CompileDelayedLoadChain(j, n.rt,
           LowLanes(cur, 3 - bits) + Wrap(w * Lane(3 - bits)))

CompileLwr(j, n) ==
    LET bits == Effective(j, n) % 4
        cur  == GetRegFromDelayLoad(j, n.rt)
        w    == LoadWord(j.mem, Effective(j, n))
    IN CompileDelayedLoadChain(j, n.rt,
           HighLanes(cur, 1 + (3 - bits)) + (w \div Lane(bits)))

\* The mode is not looked at here: an isolated cache does not hold these back.
CompileSwl(j, n) ==
    LET a == Effective(j, n)
        w == HighLanes(LoadWord(j.mem, a), 1 + (a % 4))
             + (Use(j, n.rt) \div Lane(3 - (a % 4)))
        k == CompileDelayedLoad(j, TRUE)
    IN [k EXCEPT !.mem = StoreWord(@, a, w)]

CompileSwr(j, n) ==
    LET a == Effective(j, n)
        w == LowLanes(LoadWord(j.mem, a), 3 - (3 - (a % 4)))
             + Wrap(Use(j, n.rt) * Lane(a % 4))
        k == CompileDelayedLoad(j, TRUE)
    IN [k EXCEPT !.mem = StoreWord(@, a, w)]
-----------------------------------------------------------------------------
\* Coprocessors.
CompileCop0(j, n) ==
    LET v == CASE n.rd = 8 -> Use(j, REG_BADDR) [] n.rd = 12 -> Use(j, REG_SR)
               [] n.rd = 13 -> Use(j, REG_CAUSE) [] n.rd = 14 -> Use(j, REG_EPC)
               [] n.rd \in {6, 7} -> 0 [] n.rd = 15 -> 2
        value == Use(j, n.rt)
        k == CompileDelayedLoad(j, TRUE)
        cause == Use(k, REG_CAUSE)
    IN CASE n.op = "mfc0" -> CompileDelayedLoadChain(j, n.rt, v)
         [] n.op = "mtc0" /\ n.rd = 8  -> Def(k, REG_BADDR, value)
         [] n.op = "mtc0" /\ n.rd = 12 -> Def(k, REG_SR, value)
         [] n.op = "mtc0" /\ n.rd = 13 ->
                Def(k, REG_CAUSE, (cause - (cause % CauseSoftware)) + (value % CauseSoftware))

CompileRfe(j) ==
    LET k == CompileDelayedLoad(j, TRUE)
        sr == Use(k, REG_SR)
    IN Def(k, REG_SR, (sr - (sr % 16)) + ((sr % ModeMask) \div 4))

CompileCop2(j, n) ==
    LET k == CompileDelayedLoad(j, TRUE)
    IN CASE n.op = "gte"  -> [k EXCEPT !.gd = GteCommand(j.gd, j.gc)]
         [] n.op = "mfc2" -> CompileDelayedLoadChain(j, n.rt, j.gd)
         [] n.op = "cfc2" -> CompileDelayedLoadChain(j, n.rt, j.gc)
         [] n.op = "mtc2" -> [k EXCEPT !.gd = Use(j, n.rt)]
         [] n.op = "ctc2" -> [k EXCEPT !.gc = Use(j, n.rt)]

CompileLwc2(j, n) ==
    LET a == Effective(j, n)
        k == CompileDelayedLoad(j, TRUE)
    IN IF a % 4 # 0 THEN CompileException(k, "LoadAddressError", a)
       ELSE [k EXCEPT !.gd = LoadWord(k.mem, a)]

CompileSwc2(j, n) ==
    LET a == Effective(j, n)
        k == CompileDelayedLoad(j, TRUE)
    IN IF a % 4 # 0 THEN CompileException(k, "StoreAddressError", a)
       ELSE StoreUnlessIsolated(k, StoreWord(k.mem, a, k.gd))
-----------------------------------------------------------------------------
\* One instruction, not a jump, at index i.
CompileTrap(j, n) ==
    CompileException(CompileDelayedLoad(j, TRUE),
        CASE n.op = "break" -> "Break" [] n.op = "syscall" -> "SysCall"
          [] OTHER -> "IllegalInstruction", 0)

CompileInstr(j, n) ==
    CASE n.op \in {"add", "sub", "addi"} -> CompileAdd(j, n)
      [] n.op \in {"addu", "subu", "addiu"} -> CompileAddu(j, n)
      [] n.op = "divu" -> CompileDivu(j, n)
      [] n.op \in {"mult", "multu"} -> CompileMult(j, n)
      [] n.op = "div" -> CompileDiv(j, n)
      [] n.op \in {"mfhi", "mflo", "mtlo", "mthi"} -> CompileMove(j, n)
      [] n.op \in {"slt", "sltu", "slti", "sltiu"} -> CompileSet(j, n)
      [] n.op \in {"lui", "ori", "xori", "andi", "and", "or", "nor", "xor"} -> CompileLogic(j, n)
      [] n.op \in {"sll", "sllv", "srl", "srlv", "sra", "srav"} -> CompileShift(j, n)
      [] n.op = "sw" -> CompileSw(j, n)
      [] n.op = "sh" -> CompileSh(j, n)
      [] n.op = "sb" -> CompileSb(j, n)
      [] n.op \in {"lh", "lhu"} -> CompileLh(j, n)
      [] n.op = "lw" -> CompileLw(j, n)
      [] n.op \in {"lb", "lbu"} -> CompileLb(j, n)
      [] n.op = "lwl" -> CompileLwl(j, n)
      [] n.op = "lwr" -> CompileLwr(j, n)
      [] n.op = "swl" -> CompileSwl(j, n)
      [] n.op = "swr" -> CompileSwr(j, n)
      [] n.op \in {"mfc0", "mtc0"} -> CompileCop0(j, n)
      [] n.op = "rfe" -> CompileRfe(j)
      [] n.op \in Cop2Ops -> CompileCop2(j, n)
      [] n.op = "lwc2" -> CompileLwc2(j, n)
      [] n.op = "swc2" -> CompileSwc2(j, n)
      [] OTHER -> CompileTrap(j, n)

\* The instruction after a jump is compiled with it, at the index of the jump.
CompileInDelaySlot(j, slot) ==
    LET left(k) == IF k.done THEN k ELSE [PushDelayLoadToRegs(k) EXCEPT !.delay_slot = FALSE]
    IN left(CompileInstr([j EXCEPT !.delay_slot = TRUE], slot))

Leave(j, pc) == IF j.done THEN j ELSE Return(j, pc, GetCycles(j) + 1)

CompileJ(j, n, slot) ==
    Leave(CompileInDelaySlot(CompileDelayedLoad(j, TRUE), slot),
          RegionBase(j.addr) + Target(n))

CompileJr(j, n, slot) ==
    Leave(CompileInDelaySlot(CompileDelayedLoad(j, TRUE), slot), Use(j, n.rs))

CompileJalr(j, n, slot) ==
    LET k == DefReg(CompileDelayedLoad(j, TRUE), n.rd, Wrap(CurrentPc(j) + 8))
    IN Leave(CompileInDelaySlot(k, slot), Use(j, n.rs))

CompileJal(j, n, slot) ==
    LET link(k) == IF k.done THEN k ELSE Def(k, 31, Wrap(CurrentPc(j) + 8))
    IN Leave(link(CompileInDelaySlot(CompileDelayedLoad(j, TRUE), slot)),
             RegionBase(j.addr) + Target(n))

CompileBranch(j, offset, slot) ==
    Leave(CompileInDelaySlot(j, slot), Wrap(Wrap(CurrentPc(j) + 4 * offset) + 4))

\* Not taken: the load registers a load in the slot added to regs remain.
Passed(j, slot) ==
    LET pushed == slot.rt # 0 /\ CompileInstr(j, slot).delayed_load # None
    IN IF pushed THEN [j EXCEPT !.regs = @ \cup {REG_LOAD_REG, REG_LOAD_VAL}] ELSE j

CompileCompare(j, n, slot) ==
    LET a == Use(j, n.rs)
        res == CASE n.op = "bne" -> a # Use(j, n.rt)
                 [] n.op = "beq" -> a = Use(j, n.rt)
                 [] n.op = "blez" -> Signed(a) <= 0
                 [] n.op = "bgtz" -> Signed(a) > 0
        k == CompileDelayedLoad(j, TRUE)
    IN IF res THEN CompileBranch(k, ImmSe(n), slot) ELSE Passed(k, slot)

CompileBxx(j, n, slot) ==
    LET a == Signed(Use(j, n.rs))
        res == IF n.rt % 2 = 1 THEN a >= 0 ELSE a < 0
        k == CompileDelayedLoad(j, TRUE)
        t == IF n.rt \div 2 = 8 THEN Def(k, 31, Wrap(CurrentPc(j) + 8)) ELSE k
    IN IF res THEN CompileBranch(t, ImmSe(n), slot) ELSE Passed(t, slot)

\* A block as long as a block may be, without a jump at its end.
FallThrough(j) ==
    LET k == PushDelayLoadToRegs(j)
    IN Return(k, Wrap(j.addr + 4 * j.i + 4), j.i)
=============================================================================
