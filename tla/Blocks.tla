-------------------------------- MODULE Blocks --------------------------------
(***************************************************************************)
(* The recompiler (dynarec.rs, block_cache.rs, fastmem.rs, main.rs): the   *)
(* emulator thread runs compiled blocks out of a cache and interprets what *)
(* is not compiled; a compiler thread turns words of guest memory into     *)
(* blocks.  They talk over two bounded channels, on which both block when  *)
(* the channel is full.                                                    *)
(*                                                                         *)
(* The compiler's code memory fills up.  It then forgets what is asked of  *)
(* it, asks the emulator to let go of every block and, once told to        *)
(* proceed, starts again with empty code memory: what its predecessor      *)
(* compiled is gone (the drop of Compiler).                                *)
(*                                                                         *)
(* A block is a copy of the words it was compiled from.  Pages that hold   *)
(* compiled code are write protected in the mapping of guest memory at     *)
(* 0x10000 and a fault marks their blocks dirty; recompiled code stores    *)
(* through the mapping of the segment it addresses, and those of KSEG0     *)
(* and KSEG1 are never protected.  BIOS code, which is never written, is   *)
(* left out; blocks that would run over the end of memory panic.           *)
(***************************************************************************)
EXTENDS Integers, Sequences, FiniteSets

CONSTANTS
    MemWords,     \* words of guest memory
    PageBytes,    \* bytes of a page
    BlockLen,     \* BLOCK_LEN
    Ops, Jumps,   \* what a word can hold: plain instructions, jumps
    PCs,          \* where the guest executes: [seg, word]
    CompileRoom,  \* capacity of the channel to the compiler
    CodeRoom,     \* capacity of the channel back
    Waterline,    \* WATERLINE: how many blocks fill the code memory
    Unprotected   \* does recompiled code store through KSEG0 and KSEG1

Words == 0..(MemWords - 1)

ASSUME BlocksAssumption ==
    /\ MemWords \in Nat /\ PageBytes \in Nat \ {0} /\ BlockLen \in Nat \ {0}
    /\ PCs \subseteq [seg : STRING, word : Words]
    /\ CompileRoom \in Nat \ {0} /\ CodeRoom \in Nat \ {0}
    /\ Waterline \in Nat \ {0}
    /\ Unprotected \in BOOLEAN

VARIABLES
    memory,        \* word -> what it holds
    emulator,      \* "receiving", "proceeding", "sending" or "running"
    outgoing,      \* the message the emulator is sending
    running,       \* the compiled block it is running, or NoBlock
    in_flight,     \* the pcs it has asked for
    blocks,        \* masked pc -> the block its cache entry names
    pages,         \* <<page, masked pc>> of the blocks registered in each page
    protected,     \* the pages write protected in the mapping at 0x10000
    compileQueue,  \* emulator -> compiler
    codeQueue,     \* compiler -> emulator
    compiler,      \* "idle", "posting", "draining", "requesting", "waiting"
    compiled,      \* the block the compiler is posting
    num_functions, \* how many blocks the code memory holds
    generation     \* which Compiler it is, modulo 2

guestVars    == <<memory, running>>
cacheVars    == <<blocks, pages, protected>>
emulatorVars == <<emulator, outgoing, in_flight, guestVars, cacheVars>>
compilerVars == <<compiler, compiled, num_functions, generation>>
vars == <<emulatorVars, compileQueue, codeQueue, compilerVars>>

NoBlock       == [kind |-> "none"]
ProceedWithGC == [kind |-> "ProceedWithGC"]
RequestGC     == [kind |-> "RequestGC"]
CompileBlock(pc, code) == [kind |-> "CompileBlock", pc |-> pc, code |-> code]
Block(pc, code) ==
    [kind |-> "Block", pc |-> pc, code |-> code, gen |-> generation, dirty |-> FALSE]

Init ==
    /\ memory \in [Words -> Ops \cup Jumps]
    /\ emulator = "receiving" /\ outgoing = NoBlock /\ running = NoBlock
    /\ in_flight = {}
    /\ blocks = <<>> /\ protected = {}
    /\ pages = {}
    /\ compileQueue = <<>> /\ codeQueue = <<>>
    /\ compiler = "idle" /\ compiled = NoBlock
    /\ num_functions = 0 /\ generation = 0

-----------------------------------------------------------------------------
(* Blocks and the memory they were compiled from.                          *)

\* A block ends with the delay slot of its first jump, or at BlockLen words.
ParsedLength(w) ==
    LET ends == {n \in 2..(BlockLen + 1) :
                    /\ w + n - 2 \in Words /\ memory[w + n - 2] \in Jumps
                    /\ \A i \in 0..(n - 3) : memory[w + i] \notin Jumps}
    IN  IF ends = {} THEN BlockLen ELSE CHOOSE n \in ends : TRUE

Fits(w) == w + ParsedLength(w) <= MemWords

Parse(w) == [i \in 1..ParsedLength(w) |-> memory[w + i - 1]]

\* is_block_valid, of both modules: does memory still hold the block's words.
StillThere(block) ==
    \A i \in DOMAIN block.code : memory[block.pc.word + i - 1] = block.code[i]

\* The pages a block is registered in.  Its length counts instructions and
\* is added to an address in bytes.
Page(byte) == byte \div PageBytes
WatchedPages(block) ==
    Page(4 * block.pc.word)..Page(4 * block.pc.word + Len(block.code))

Register(block) ==
    /\ pages' = pages \cup (WatchedPages(block) \X {block.pc.word})
    /\ protected' = protected \cup WatchedPages(block)

\* The cache entry of a pc, with its segment masked off.
Store(block) ==
    blocks' = [w \in DOMAIN blocks \cup {block.pc.word} |->
                  IF w = block.pc.word THEN block ELSE blocks[w]]

\* Mutant: a block is taken as it comes.
InsertUnchecked(block) == Store(block) /\ Register(block)

\* insert_block: memory may have changed since the block was asked for.
Insert(block) ==
    IF StillThere(block)
    THEN Store(block) /\ Register(block)
    ELSE UNCHANGED cacheVars

MarkFresh(w) ==
    /\ blocks' = [blocks EXCEPT ![w].dirty = FALSE]
    /\ Register(blocks[w])

\* The protection flags of the pages are never set, so the pages stay write
\* protected.
InvalidateAll ==
    /\ blocks' = <<>>
    /\ pages' = {}
    /\ UNCHANGED protected

-----------------------------------------------------------------------------
(* The emulator thread: receive_compiled_blocks, then one block of guest   *)
(* code, over and over.                                                    *)

ReceiveBlock ==
    /\ emulator = "receiving"
    /\ codeQueue # <<>> /\ Head(codeQueue).kind = "Block"
    /\ in_flight' = in_flight \ {Head(codeQueue).pc}
    /\ Insert(Head(codeQueue))
    /\ codeQueue' = Tail(codeQueue)
    /\ UNCHANGED <<emulator, outgoing, guestVars, compileQueue, compilerVars>>

\* Mutant: requests the compiler has forgotten stay in flight.
ReceiveRequestGCKeeping ==
    /\ emulator = "receiving"
    /\ codeQueue # <<>> /\ Head(codeQueue) = RequestGC
    /\ InvalidateAll
    /\ codeQueue' = Tail(codeQueue)
    /\ emulator' = "proceeding" /\ outgoing' = ProceedWithGC
    /\ UNCHANGED <<in_flight, guestVars, compileQueue, compilerVars>>

\* Mutant: the compiler is not told to proceed.
ReceiveRequestGCUnanswered ==
    /\ emulator = "receiving"
    /\ codeQueue # <<>> /\ Head(codeQueue) = RequestGC
    /\ in_flight' = {}
    /\ InvalidateAll
    /\ codeQueue' = Tail(codeQueue)
    /\ UNCHANGED <<emulator, outgoing, guestVars, compileQueue, compilerVars>>

\* Mutant: the blocks stay in the cache.
ReceiveRequestGCLeaving ==
    /\ emulator = "receiving"
    /\ codeQueue # <<>> /\ Head(codeQueue) = RequestGC
    /\ in_flight' = {}
    /\ codeQueue' = Tail(codeQueue)
    /\ emulator' = "proceeding" /\ outgoing' = ProceedWithGC
    /\ UNCHANGED <<cacheVars, guestVars, compileQueue, compilerVars>>

ReceiveRequestGC ==
    /\ emulator = "receiving"
    /\ codeQueue # <<>> /\ Head(codeQueue) = RequestGC
    /\ in_flight' = {}
    /\ InvalidateAll
    /\ codeQueue' = Tail(codeQueue)
    /\ emulator' = "proceeding" /\ outgoing' = ProceedWithGC
    /\ UNCHANGED <<guestVars, compileQueue, compilerVars>>

\* crossbeam's send blocks while the channel is full.
Send(after) ==
    /\ Len(compileQueue) < CompileRoom
    /\ compileQueue' = Append(compileQueue, outgoing)
    /\ emulator' = after /\ outgoing' = NoBlock
    /\ UNCHANGED <<in_flight, guestVars, cacheVars, codeQueue, compilerVars>>

SendProceed == emulator = "proceeding" /\ Send("receiving")
SendCompile == emulator = "sending" /\ Send("running")

\* Ask for a block, unless it has been asked for; interpret meanwhile.
Schedule(pc) ==
    /\ in_flight' = in_flight \cup {pc}
    /\ IF pc \in in_flight
       THEN emulator' = "running" /\ UNCHANGED outgoing
       ELSE emulator' = "sending" /\ outgoing' = CompileBlock(pc, Parse(pc.word))
    /\ UNCHANGED <<running, cacheVars>>

Run(block) ==
    /\ emulator' = "running" /\ running' = block
    /\ UNCHANGED <<outgoing, in_flight>>

\* Mutant: one message is received per block of guest code.
LookupEarly(pc) ==
    LET w == pc.word IN
    /\ emulator = "receiving" /\ Fits(w)
    /\ IF w \notin DOMAIN blocks THEN Schedule(pc)
       ELSE IF ~blocks[w].dirty THEN Run(blocks[w]) /\ UNCHANGED cacheVars
       ELSE IF StillThere(blocks[w]) THEN Run(blocks[w]) /\ MarkFresh(w)
       ELSE Schedule(pc)
    /\ UNCHANGED <<memory, compileQueue, codeQueue, compilerVars>>

\* Nothing is left to receive: find the block at the guest's pc.
Lookup(pc) ==
    LET w == pc.word IN
    /\ emulator = "receiving" /\ codeQueue = <<>> /\ Fits(w)
    /\ IF w \notin DOMAIN blocks THEN Schedule(pc)
       ELSE IF ~blocks[w].dirty THEN Run(blocks[w]) /\ UNCHANGED cacheVars
       ELSE IF StillThere(blocks[w]) THEN Run(blocks[w]) /\ MarkFresh(w)
       ELSE Schedule(pc)
    /\ UNCHANGED <<memory, compileQueue, codeQueue, compilerVars>>

\* A store through the mapping at 0x10000 (the interpreter, DMA, a loaded
\* state, KUSEG): when its page is protected the fault handler runs first.
GuardedStore(w, v) ==
    LET p == Page(4 * w) IN
    /\ memory' = [memory EXCEPT ![w] = v]
    /\ IF p \in protected
       THEN /\ blocks' = [b \in DOMAIN blocks |->
                             IF <<p, b>> \in pages THEN [blocks[b] EXCEPT !.dirty = TRUE]
                             ELSE blocks[b]]
            /\ pages' = {e \in pages : e[1] # p}
            /\ protected' = protected \ {p}
       ELSE UNCHANGED cacheVars

UnguardedStore(w, v) ==
    /\ Unprotected
    /\ running # NoBlock
    /\ memory' = [memory EXCEPT ![w] = v]
    /\ UNCHANGED cacheVars

\* Run the block or the interpreter; what matters here is what it stores.
Execute ==
    /\ emulator = "running"
    /\ \/ UNCHANGED <<memory, cacheVars>>
       \/ \E w \in Words, v \in Ops \cup Jumps : GuardedStore(w, v) \/ UnguardedStore(w, v)
    /\ emulator' = "receiving" /\ running' = NoBlock
    /\ UNCHANGED <<outgoing, in_flight, compileQueue, codeQueue, compilerVars>>

Emulator ==
    \/ ReceiveBlock \/ ReceiveRequestGC \/ SendProceed \/ SendCompile
    \/ \E pc \in PCs : Lookup(pc)
    \/ Execute

-----------------------------------------------------------------------------
(* The compiler thread.                                                    *)

Compile ==
    /\ compiler = "idle" /\ num_functions < Waterline
    /\ compileQueue # <<>> /\ Head(compileQueue).kind = "CompileBlock"
    /\ LET m == Head(compileQueue) IN compiled' = Block(m.pc, m.code)
    /\ compileQueue' = Tail(compileQueue)
    /\ num_functions' = num_functions + 1
    /\ compiler' = "posting"
    /\ UNCHANGED <<emulatorVars, codeQueue, generation>>

\* crossbeam's send blocks while the channel is full.
Post ==
    /\ compiler = "posting"
    /\ Len(codeQueue) < CodeRoom
    /\ codeQueue' = Append(codeQueue, compiled)
    /\ compiler' = "idle" /\ compiled' = NoBlock
    /\ UNCHANGED <<emulatorVars, compileQueue, num_functions, generation>>

\* The code memory is full: what is asked for is forgotten.
Drain ==
    /\ compiler \in {"idle", "draining"} /\ num_functions >= Waterline
    /\ IF compileQueue # <<>>
       THEN compileQueue' = Tail(compileQueue) /\ compiler' = "draining"
       ELSE compiler' = "requesting" /\ UNCHANGED compileQueue
    /\ UNCHANGED <<emulatorVars, codeQueue, compiled, num_functions, generation>>

Request ==
    /\ compiler = "requesting"
    /\ Len(codeQueue) < CodeRoom
    /\ codeQueue' = Append(codeQueue, RequestGC)
    /\ compiler' = "waiting"
    /\ UNCHANGED <<emulatorVars, compileQueue, compiled, num_functions, generation>>

\* Whatever else arrives while it waits was asked for too early.
Await ==
    /\ compiler = "waiting" /\ compileQueue # <<>>
    /\ compileQueue' = Tail(compileQueue)
    /\ IF Head(compileQueue) = ProceedWithGC
       THEN compiler' = "idle" /\ num_functions' = 0 /\ generation' = 1 - generation
       ELSE UNCHANGED <<compiler, num_functions, generation>>
    /\ UNCHANGED <<emulatorVars, codeQueue, compiled>>

Compiler == Compile \/ Post \/ Drain \/ Request \/ Await

Next == Emulator \/ Compiler

\* Both threads keep running; which code the guest runs is its own affair.
Fairness == WF_vars(Emulator) /\ WF_vars(Compiler)

Spec == Init /\ [][Next]_vars /\ Fairness

-----------------------------------------------------------------------------
(* Properties.                                                             *)

Codes == Seq(Ops \cup Jumps)
CompileMessages == [kind : {"CompileBlock"}, pc : PCs, code : Codes] \cup {ProceedWithGC}
BlockRecords == [kind : {"Block"}, pc : PCs, code : Codes, gen : {0, 1}, dirty : BOOLEAN]

EmulatorType ==
    /\ memory \in [Words -> Ops \cup Jumps]
    /\ emulator \in {"receiving", "proceeding", "sending", "running"}
    /\ outgoing \in CompileMessages \cup {NoBlock}
    /\ outgoing = NoBlock <=> emulator \notin {"proceeding", "sending"}
    /\ running \in BlockRecords \cup {NoBlock}
    /\ running = NoBlock \/ emulator = "running"
    /\ in_flight \subseteq PCs

CacheType ==
    /\ \A w \in DOMAIN blocks : blocks[w] \in BlockRecords /\ blocks[w].pc.word = w
    /\ pages \subseteq Int \X Words
    /\ protected \subseteq Int

CompilerType ==
    /\ compileQueue \in Seq(CompileMessages) /\ Len(compileQueue) <= CompileRoom
    /\ codeQueue \in Seq(BlockRecords \cup {RequestGC}) /\ Len(codeQueue) <= CodeRoom
    /\ compiler \in {"idle", "posting", "draining", "requesting", "waiting"}
    /\ compiled \in BlockRecords \cup {NoBlock}
    /\ compiled = NoBlock <=> compiler # "posting"
    /\ num_functions \in 0..Waterline
    /\ generation \in {0, 1}

TypeOK == EmulatorType /\ CacheType /\ CompilerType

\* No block that can still run was made by a compiler that has been dropped.
NoDanglingCode ==
    /\ \A w \in DOMAIN blocks : blocks[w].gen = generation
    /\ running # NoBlock => running.gen = generation

\* The two threads never block on full channels at once.
SomeChannelHasRoom ==
    ~ /\ emulator \in {"proceeding", "sending"} /\ Len(compileQueue) = CompileRoom
      /\ compiler \in {"posting", "requesting"} /\ Len(codeQueue) = CodeRoom

\* A block that is not dirty equals the memory it came from, in every page it
\* is registered in.
WatchedCodeIsFresh ==
    \A w \in DOMAIN blocks : ~blocks[w].dirty =>
        \A i \in DOMAIN blocks[w].code :
            Page(4 * (w + i - 1)) \in WatchedPages(blocks[w]) =>
                memory[w + i - 1] = blocks[w].code[i]

\* Every block that is asked for arrives or is asked for again.
RequestsAnswered == \A pc \in PCs : pc \in in_flight ~> pc \notin in_flight

\* The compiler always gets its code memory back.
CollectionsEnd == compiler = "waiting" ~> compiler = "idle"
=============================================================================
