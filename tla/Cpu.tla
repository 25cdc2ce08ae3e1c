--------------------------------- MODULE Cpu ---------------------------------
(* One block of guest code, from the boundary where the main loop (main.rs,  *)
(* update) decides how to run it to the boundary after it.  The loop takes   *)
(* the compiled block when the cache has it and the interpreter when it has  *)
(* not, whichever the compiler thread and the cache happen to allow, so the  *)
(* guest must not be able to tell.  Here both run the same block, one        *)
(* instruction at a time, from the same Registers.                           *)
EXTENDS Interpreter, Recompiler

CONSTANTS Starts,         \* the states a block is entered from
          Code(_),        \* the instructions that may stand at an index
          Slot(_),        \* the ones that may follow a jump at an index
          BlockLen        \* BLOCK_LEN, 2371: where parse_block gives up

\* Bytes wide enough for a sign, the register that is zero and the link.
ASSUME CpuAssumption ==
    /\ BlockLen \in Nat \ {0}
    /\ ByteBits \in Nat \ {0, 1}
    /\ {0, 31} \subseteq Reg /\ Reg \subseteq 0 .. 31
    /\ {HandlerBoot, HandlerCompiled, HandlerRam} \subseteq Word
    /\ \A d, c \in Word : GteCommand(d, c) \in Word

\* An instruction names registers, but for the link bit of bxx and the number
\* of a register of coprocessor 0; on any other of those the code panics.
Ops == LogicOps \cup ShiftOps \cup AddOps \cup SetOps \cup Traps \cup MemoryOps
       \cup Cop0Ops \cup Cop2Ops
       \cup {"add", "addi", "sub", "mfhi", "mthi", "mflo", "mtlo", "mult", "multu", "div",
             "divu", "j", "jal", "jr", "jalr", "beq", "bne", "blez", "bgtz", "bxx", "cop3"}
IsInstruction(n) ==
    /\ n \in [op : Ops, rs : Reg, rt : 0 .. 31, rd : 0 .. 31, imm : Nat]
    /\ n.op # "bxx" => n.rt \in Reg
    /\ n.op \notin Cop0Ops => n.rd \in Reg
    /\ n.op = "mfc0" => n.rd \in {6, 7, 8, 12, 13, 14, 15}
    /\ n.op = "mtc0" => n.rd \in {8, 12, 13}
    /\ n.op \in {"sll", "sra", "srl"} => n.imm < 4 * ByteBits
    /\ n.op \notin {"j", "jal"} => n.imm < Half

ASSUME ProgramAssumption ==
    \A i \in 0 .. BlockLen - 1 : \A n \in Code(i) \cup Slot(i) : IsInstruction(n)

\* The Registers: words, the first of them zero, and a load of a register.
IsRegisters(m) ==
    /\ m \in [Var -> Word]
    /\ m[0] = 0 /\ m[REG_LOAD_REG] \in Reg
ASSUME StartsAssumption ==
    \A c \in Starts :
        /\ c \in [m : [Var -> Word], mem : [{0, 1} -> Word], gd : Word, gc : Word]
        /\ IsRegisters(c.m)

VARIABLES
    phase,    \* "boundary", "block" or "done"
    cpu,      \* at the boundary: m (the Registers), mem, gd, gc
    ref,      \* the interpreter
    jit,      \* the compiled block
    fetched,  \* the instruction after a branch not taken, or <<>>
    count,    \* instructions the interpreter has run
    odd       \* the known ways in which the two part, met so far
vars == <<phase, cpu, ref, jit, fetched, count, odd>>

Nothing == <<>>
-----------------------------------------------------------------------------
\* The Registers as both engines keep them.
Machine(c) ==
    [ r |-> [x \in Reg |-> c.m[x]], hi |-> c.m[REG_HI], lo |-> c.m[REG_LO],
      pc |-> c.m[REG_PC], sr |-> c.m[REG_SR], cause |-> c.m[REG_CAUSE],
      epc |-> c.m[REG_EPC], baddr |-> c.m[REG_BADDR],
      load |-> <<c.m[REG_LOAD_REG], c.m[REG_LOAD_VAL]>>,
      next_pc |-> Wrap(c.m[REG_PC] + 4), current_pc |-> 0, branch |-> FALSE,
      delay_slot |-> FALSE, interrupt |-> FALSE, mem |-> c.mem, gd |-> c.gd, gc |-> c.gc ]

\* What the guest can see of a machine; a load of register 0 is no load.
Visible == {"r", "hi", "lo", "pc", "sr", "cause", "epc", "baddr", "load", "mem", "gd", "gc"}
View(s) == [f \in Visible |-> IF f = "load" /\ s.load[1] = 0 THEN <<0, 0>> ELSE s[f]]
Interpreted == View(ref)
Compiled == View(Machine(jit))
Differences == {f \in Visible : Interpreted[f] # Compiled[f]}

Init ==
    /\ phase = "boundary" /\ cpu \in Starts
    /\ ref = Nothing /\ jit = Nothing /\ fetched = Nothing
    /\ count = 0 /\ odd = {}
-----------------------------------------------------------------------------
\* Dynarec::exception: between blocks there is no delay slot.
BoundaryException(c, cause, addr) ==
    LET m == c.m
        sr == m[REG_SR]
    IN [c EXCEPT !.m = [m EXCEPT
          ![REG_SR] = (sr - (sr % ModeMask)) + ((4 * sr) % ModeMask),
          ![REG_CAUSE] = (m[REG_CAUSE] % CauseSoftware) + 4 * ExceptionCode[cause],
          ![REG_EPC] = m[REG_PC],
          ![REG_BADDR] = IF IsAddressError(cause) THEN addr ELSE m[REG_BADDR],
          ![REG_PC] = IF IsBoot(sr) THEN HandlerBoot ELSE HandlerRam]]

\* Whether a line is pending and unmasked is the environment's.
Interrupt ==
    /\ phase = "boundary" /\ cpu.m[REG_SR] % 2 = 1
    /\ cpu' = BoundaryException(cpu, "ExternalInterrupt", 0)
    /\ UNCHANGED <<phase, ref, jit, fetched, count, odd>>

Aligned == cpu.m[REG_PC] % 4 = 0
BadPc ==
    /\ phase = "boundary" /\ ~Aligned
    /\ cpu' = BoundaryException(cpu, "LoadAddressError", cpu.m[REG_PC])
    /\ UNCHANGED <<phase, ref, jit, fetched, count, odd>>

EnterBlock ==
    /\ phase = "boundary" /\ Aligned
    /\ phase' = "block"
    /\ ref' = Machine(cpu)
    /\ jit' = Enter(cpu.m, cpu.mem, cpu.gd, cpu.gc)
    /\ UNCHANGED <<cpu, fetched, count, odd>>
-----------------------------------------------------------------------------
\* Where the two are known to part; each is a line of the source.
Pending(x) == ref.load[1] # 0 /\ ref.load[1] = x
LoadOps == {"lw", "lh", "lhu", "lb", "lbu", "lwl", "lwr", "mfc0", "mfc2", "cfc2"}
Links(n) == n.op = "jalr" \/ (n.op = "bxx" /\ n.rt \div 2 = 8)
LinkOf(n) == IF n.op = "jalr" THEN n.rd ELSE 31
\* Words the console lacks a handler for that is_illegal does not list.
Unlisted == {"cop1", "cop3"}
Touches31(n) == 31 \in {n.rs, n.rt, n.rd}

\* n at index i, s the interpreter after it.
OddStep(n, s) ==
    {o \in {"bootHandler", "undelivered", "staleLoad", "moveToHiLo", "isolated",
            "swc2Cause", "illegal"} :
        CASE o = "bootHandler"  -> s.interrupt /\ IsBoot(ref.sr)
          [] o = "undelivered" -> s.interrupt /\ n.op \in {"add", "addi", "cop3"}
                                  /\ ref.load[1] # 0
          [] o = "staleLoad"    -> jit.i = 0 /\ n.op \in LoadOps /\ Pending(n.rt)
          [] o = "moveToHiLo"   -> n.op \in {"mthi", "mtlo"} /\ Pending(n.rs)
          [] o = "isolated"     -> n.op \in {"swl", "swr"} /\ IsIsolated(ref.sr)
          [] o = "swc2Cause"    -> n.op = "swc2" /\ s.interrupt
          [] o = "illegal"      -> IsIllegal(n) \/ n.op \in Unlisted}

\* A jump n and its slot, s the interpreter after both.
OddJump(n, slot, s) ==
    {o \in {"slotEpc", "jalLink", "linkReload", "isolated", "bootHandler", "swc2Cause",
            "illegal", "region"} :
        CASE o = "slotEpc"    -> s.interrupt
          [] o = "jalLink"    -> n.op = "jal" /\ (Touches31(slot) \/ s.interrupt)
          [] o = "linkReload" -> jit.i = 0 /\ Links(n) /\ Pending(LinkOf(n))
          [] o = "isolated"   -> slot.op \in {"swl", "swr"} /\ IsIsolated(ref.sr)
          [] o = "bootHandler" -> s.interrupt /\ IsBoot(ref.sr)
          [] o = "swc2Cause"  -> slot.op = "swc2" /\ s.interrupt
          [] o = "illegal"    -> slot.op \in Unlisted
          [] o = "region"     ->
                \/ n.op = "j" /\ RegionBase(ref.pc) # RegionBase(jit.addr)
                \/ n.op = "jal" /\ RegionBase(ref.next_pc) # RegionBase(jit.addr)}
-----------------------------------------------------------------------------
\* The comparison ends with the block, or where the two have parted.
Running == phase = "block" /\ odd = {}

\* The registers of every instruction are known before the first is compiled.
Known(n) == [jit EXCEPT !.regs = @ \cup GetRegisters(n)]
Known2(n, slot) == [jit EXCEPT !.regs = @ \cup GetRegisters(n) \cup GetRegisters(slot)]

IsJump(n) == IsUnconditionalJump(n) \/ IsConditionalJump(n)

\* An instruction that is no jump: it may raise an exception and end the block.
Straight(n) ==
    /\ Running /\ ~IsJump(n)
    /\ IF fetched = Nothing THEN jit.i < BlockLen ELSE n = fetched
    /\ fetched' = Nothing
    /\ \E s \in {RunNext(ref, n)}, k \in {CompileInstr(Known(n), n)} :
          /\ ref' = s
          /\ jit' = IF k.done THEN k ELSE [k EXCEPT !.i = @ + 1]
          /\ odd' = odd \cup OddStep(n, s)
          /\ phase' = IF s.interrupt \/ k.done THEN "done" ELSE "block"
    /\ count' = count + 1
    /\ UNCHANGED cpu

\* syscall, break and what the console lacks; the next instruction is parsed
\* with the block and not run.
TrapStep(n, slot) ==
    /\ Running /\ jit.i < BlockLen /\ fetched = Nothing
    /\ IsUnconditionalJump(n) /\ n.op \in Traps
    /\ \E s \in {RunNext(ref, n)} :
          /\ ref' = s
          /\ jit' = CompileTrap(Known2(n, slot), n)
          /\ odd' = odd \cup OddStep(n, s)
    /\ phase' = "done" /\ count' = count + 1
    /\ UNCHANGED <<cpu, fetched>>

Compile(j, n, slot) ==
    CASE n.op = "j"    -> CompileJ(j, n, slot)
      [] n.op = "jal"  -> CompileJal(j, n, slot)
      [] n.op = "jr"   -> CompileJr(j, n, slot)
      [] n.op = "jalr" -> CompileJalr(j, n, slot)
      [] n.op = "bxx"  -> CompileBxx(j, n, slot)
      [] n.op \in {"beq", "bne", "blez", "bgtz"} -> CompileCompare(j, n, slot)

\* A jump, or a branch that is taken, with the instruction in its delay slot.
JumpTaken(n, slot) ==
    /\ Running /\ jit.i < BlockLen /\ fetched = Nothing
    /\ IsJump(n) /\ n.op \notin Traps /\ ~IsJump(slot)
    /\ \E s \in {RunNext(ref, n)} : \E t \in {RunNext(s, slot)} :
          /\ s.branch
          /\ ref' = t
          /\ jit' = Compile(Known2(n, slot), n, slot)
          /\ odd' = odd \cup OddJump(n, slot, t)
    /\ phase' = "done" /\ count' = count + 2
    /\ UNCHANGED <<cpu, fetched>>

\* A branch that is not taken: the next instruction is as any other.
NotTaken(n, slot) ==
    /\ Running /\ jit.i < BlockLen /\ fetched = Nothing
    /\ IsConditionalJump(n) /\ ~IsJump(slot)
    /\ \E s \in {RunNext(ref, n)} :
          /\ ~s.branch
          /\ ref' = s
          /\ jit' = [Compile(Known2(n, slot), n, slot) EXCEPT !.i = @ + 1]
    /\ fetched' = slot
    /\ count' = count + 1
    /\ UNCHANGED <<cpu, phase, odd>>

\* parse_block gave up: the compiled block returns, and the interpreter, which
\* knows no such bound, is compared where the block left off.
Limit ==
    /\ Running /\ jit.i >= BlockLen /\ fetched = Nothing
    /\ jit' = FallThrough(jit)
    /\ odd' = odd \cup {"fallThrough"}
    /\ phase' = "done"
    /\ UNCHANGED <<cpu, ref, fetched, count>>

Next ==
    \/ Interrupt \/ BadPc \/ EnterBlock \/ Limit
    \/ /\ phase = "block"
       /\ \E n \in Code(jit.i) :
              \/ Straight(n)
              \/ \E slot \in Slot(jit.i) : TrapStep(n, slot) \/ JumpTaken(n, slot) \/ NotTaken(n, slot)
    \/ phase = "block" /\ fetched # Nothing /\ Straight(fetched)

Spec == Init /\ [][Next]_vars
-----------------------------------------------------------------------------
\* The guest sees the same machine after a block whichever engine ran it:
\* registers, the load still pending, exception state, memory, coprocessor 2.
BlocksAgree ==
    phase = "done" /\ odd = {} => jit.done /\ Differences = {}

\* Where they part at the end of a block, the difference is no more than the
\* line of the source that makes it accounts for.
Extent ==
    [ bootHandler |-> {"pc"}, slotEpc |-> {"epc"}, swc2Cause |-> {"cause"},
      undelivered |-> {"r", "load"}, linkReload |-> {"r"}, fallThrough |-> {"pc"},
      illegal |-> {"sr", "cause", "epc", "pc"}, region |-> {"pc"} ]
PartingsConfined ==
    phase = "done" /\ odd \subseteq DOMAIN Extent =>
        Differences \subseteq UNION {Extent[o] : o \in odd}

\* And the same time: the loop advances the scheduler by what run_block returns.
CyclesAgree == phase = "done" /\ odd = {} => jit.cycles = count
=============================================================================
