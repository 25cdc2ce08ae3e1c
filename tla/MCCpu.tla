------------------------------- MODULE MCCpu -------------------------------
(* Words of eight bits, bytes of two, three registers besides zero.  Every   *)
(* operation stands first in a block and after any other; the third place    *)
(* and most delay slots hold a few.                                          *)
EXTENDS Cpu, TLC

GteStep(d, c) == Wrap(2 * d + c + 1)

In(op, rs, rt, rd, imm) == Instr(op, rs, rt, rd, imm)
Alu ==
    {In(op, 1, 2, 31, 0) : op \in {"addu", "subu", "and", "or", "xor", "nor", "slt", "sltu",
                                   "add", "sub", "mult", "multu", "div", "divu", "sllv",
                                   "srav", "srlv"}}
    \cup {In(op, 0, 2, 1, 3) : op \in {"sll", "sra", "srl"}}
    \cup {In(op, 1, 2, 0, 13) : op \in {"addi", "addiu", "slti", "sltiu", "andi", "ori",
                                        "xori", "lui"}}
    \cup {In(op, 0, 0, 2, 0) : op \in {"mfhi", "mflo"}}
    \cup {In(op, 2, 0, 0, 0) : op \in {"mthi", "mtlo"}}
Memory ==
    {In(op, 1, 2, 0, 1) : op \in {"lb", "lbu", "lh", "lhu", "lw", "lwl", "lwr", "sb", "sh",
                                  "sw", "swl", "swr", "lwc2", "swc2"}}
    \cup {In(op, 2, 1, 0, 2) : op \in {"lh", "lwl", "lwr", "lb"}}
    \cup {In("lw", 2, 31, 0, 2)}
Cop ==
    {In(op, 0, 2, 12, 0) : op \in {"mfc0", "mtc0"}} \cup {In("mtc0", 0, 1, 13, 0)}
    \cup {In("mfc0", 0, 1, rd, 0) : rd \in {8, 13, 14}} \cup {In("mtc0", 0, 31, 8, 0)}
    \cup {In(op, 0, 2, 0, 0) : op \in {"rfe", "gte", "mfc2", "cfc2", "mtc2", "ctc2"}}
Jumps ==
    {In("j", 0, 0, 0, 5), In("jal", 0, 0, 0, 7), In("jr", 1, 0, 0, 0), In("jr", 2, 0, 0, 0),
     In("jalr", 1, 0, 31, 0), In("jalr", 2, 0, 2, 0),
     In("beq", 1, 2, 0, 3), In("bne", 1, 2, 0, 14), In("blez", 1, 0, 0, 3), In("bgtz", 2, 0, 0, 3)}
    \cup {In("bxx", 2, rt, 0, 14) : rt \in {0, 1, 16, 17}}
TrapOps == {In(op, 0, 0, 0, 0) : op \in {"syscall", "break", "illegal", "lwc0", "cop1", "cop3"}}

Everything == Alu \cup Memory \cup Cop \cup Jumps \cup TrapOps
Few == {Nop, In("addu", 1, 2, 31, 0), In("lw", 1, 2, 0, 1), In("mtc0", 0, 2, 12, 0)}
CodeAt(i) == CASE i = 0 -> Everything [] i = 1 -> Everything
               [] OTHER -> {In("jr", 31, 0, 0, 0), Nop}
SlotAt(i) == IF i = 0 THEN Alu \cup Memory \cup Cop ELSE Few

\* Registers a block may find: a pending load or none, and the modes.
Regs(a, b, sr, reg, val) ==
    [x \in Var |-> CASE x = 1 -> a [] x = 2 -> b [] x = 31 -> 20
                       [] x = REG_PC -> 132 [] x = REG_SR -> sr
                       [] x = REG_LOAD_REG -> reg [] x = REG_LOAD_VAL -> val
                       [] x = REG_HI -> 9 [] x = REG_CAUSE -> 1
                       [] OTHER -> 0]
State(m) == [m |-> m, mem |-> (0 :> 228 @@ 1 :> 27), gd |-> 77, gc |-> 5]
StartStates ==
    {State(Regs(p[1], p[2], sr, reg, IF reg = 0 THEN 0 ELSE 254)) :
        p \in {<<127, 3>>, <<200, 0>>}, sr \in {1, 64, 128}, reg \in {0, 1, 2, 31}}
    \cup {State(Regs(128, 255, 1, reg, 254)) : reg \in {0, 2}}
    \cup {State([Regs(1, 2, 1, 0, 0) EXCEPT ![REG_PC] = pc]) : pc \in {124, 134}}
=============================================================================
