----------------------------- MODULE BlocksProofs -----------------------------
(***************************************************************************)
(* The recompiler for every memory, page size, channel capacity and size   *)
(* of the code memory.  Types first; then the write protection (Watched), the  *)
(* hand-over of code memory (Protocol) and the room in the channels (Room),*)
(* each an invariant that uses those before it.                            *)
(***************************************************************************)
EXTENDS Blocks, SequenceTheorems, TLAPS

USE BlocksAssumption
USE DEF vars, emulatorVars, guestVars, cacheVars, compilerVars

-----------------------------------------------------------------------------
(* Types.                                                                  *)

LEMMA ParsedLengthType == ASSUME NEW w \in Words PROVE ParsedLength(w) \in Nat
  BY DEF ParsedLength

\* What is read at a pc is a sequence of words.
LEMMA ParseType ==
  ASSUME EmulatorType, NEW w \in Words, Fits(w)
  PROVE  Parse(w) \in Codes
  <1> DEFINE n == ParsedLength(w)
  <1>1. n \in Nat
    BY ParsedLengthType
  <1>2. \A i \in 1..n : w + i - 1 \in Words
    BY <1>1 DEF Fits, Words
  <1>3. \A i \in 1..n : memory[w + i - 1] \in Ops \cup Jumps
    BY <1>2 DEF EmulatorType
  <1> HIDE DEF n
  <1>4. [i \in 1..n |-> memory[w + i - 1]] \in [1..n -> Ops \cup Jumps]
    BY <1>3
  <1> QED BY <1>1, <1>4 DEF Parse, Codes, n

\* Registering a block and marking others dirty keep the cache's types.
LEMMA WatchedPagesType ==
  ASSUME NEW block PROVE WatchedPages(block) \subseteq Int
  BY DEF WatchedPages

LEMMA RegisterType ==
  ASSUME CacheType, NEW block, block.pc.word \in Words, Register(block)
  PROVE  pages' \subseteq Int \X Words /\ protected' \subseteq Int
  BY WatchedPagesType DEF CacheType, Register

LEMMA BlockFields ==
  ASSUME NEW block \in BlockRecords
  PROVE  /\ block.pc \in PCs /\ block.pc.word \in Words /\ block.code \in Codes
         /\ \A d \in BOOLEAN : /\ [block EXCEPT !.dirty = d] \in BlockRecords
                               /\ [block EXCEPT !.dirty = d].pc = block.pc
                               /\ [block EXCEPT !.dirty = d].code = block.code
                               /\ [block EXCEPT !.dirty = d].gen = block.gen
                               /\ [block EXCEPT !.dirty = d].dirty = d
  BY DEF BlockRecords

\* The four kinds of message are told apart by their kind.
LEMMA Kinds ==
  /\ NoBlock \notin BlockRecords /\ NoBlock \notin CompileMessages
  /\ RequestGC \notin BlockRecords /\ ProceedWithGC # NoBlock
  /\ NoBlock.kind = "none" /\ RequestGC.kind = "RequestGC"
  /\ ProceedWithGC.kind = "ProceedWithGC"
  /\ \A b \in BlockRecords : b.kind = "Block"
  /\ \A m \in CompileMessages : m.kind \in {"CompileBlock", "ProceedWithGC"}
  /\ \A m \in CompileMessages : m.kind = "ProceedWithGC" <=> m = ProceedWithGC
  BY DEF NoBlock, RequestGC, ProceedWithGC, BlockRecords, CompileMessages

LEMMA TypeInit == Init => TypeOK
  BY DEF Init, TypeOK, EmulatorType, CacheType, CompilerType, Words

LEMMA TypeReceiveBlock ==
  ASSUME TypeOK, ReceiveBlock PROVE TypeOK'
  <1> DEFINE b == Head(codeQueue)
  <1>1. b \in BlockRecords /\ codeQueue' \in Seq(BlockRecords \cup {RequestGC})
        /\ Len(codeQueue') <= CodeRoom
    BY Kinds, HeadTailProperties DEF TypeOK, CompilerType, ReceiveBlock
  <1>2. EmulatorType' /\ CompilerType'
    BY <1>1 DEF TypeOK, EmulatorType, CompilerType, ReceiveBlock
  <1>3. b.pc.word \in Words
    BY <1>1, BlockFields
  <1> HIDE DEF b
  <1>4. ASSUME UNCHANGED cacheVars PROVE CacheType'
    BY <1>4 DEF TypeOK, CacheType
  <1>5. ASSUME Store(b), Register(b) PROVE CacheType'
    <2>1. pages' \subseteq Int \X Words /\ protected' \subseteq Int
      BY <1>3, <1>5, RegisterType DEF TypeOK
    <2>2. \A w \in DOMAIN blocks' : blocks'[w] \in BlockRecords /\ blocks'[w].pc.word = w
      BY <1>1, <1>5 DEF TypeOK, CacheType, Store
    <2> QED BY <2>1, <2>2 DEF CacheType
  <1>6. Insert(b)
    BY DEF ReceiveBlock, b
  <1>7. CacheType'
    BY <1>4, <1>5, <1>6 DEF Insert
  <1> QED BY <1>2, <1>7 DEF TypeOK

LEMMA TypeSends ==
  ASSUME TypeOK, ReceiveRequestGC \/ SendProceed \/ SendCompile PROVE TypeOK'
  <1>1. CASE ReceiveRequestGC
    <2>1. codeQueue' \in Seq(BlockRecords \cup {RequestGC}) /\ Len(codeQueue') <= CodeRoom
      BY <1>1, HeadTailProperties DEF TypeOK, CompilerType, ReceiveRequestGC
    <2>2. EmulatorType' /\ CompilerType'
      BY <1>1, <2>1, Kinds DEF TypeOK, EmulatorType, CompilerType, ReceiveRequestGC, CompileMessages
    <2>3. CacheType'
      BY <1>1 DEF TypeOK, CacheType, ReceiveRequestGC, InvalidateAll
    <2> QED BY <2>2, <2>3 DEF TypeOK
  <1>2. CASE SendProceed \/ SendCompile
    <2>1. outgoing \in CompileMessages
      BY <1>2 DEF TypeOK, EmulatorType, SendProceed, SendCompile
    <2>5. compileQueue' = Append(compileQueue, outgoing) /\ Len(compileQueue) < CompileRoom
      BY <1>2 DEF Send, SendProceed, SendCompile
    <2>2. compileQueue' \in Seq(CompileMessages) /\ Len(compileQueue') <= CompileRoom
      BY <2>1, <2>5, AppendProperties DEF TypeOK, CompilerType
    <2>3. EmulatorType' /\ CompilerType'
      BY <1>2, <2>2 DEF TypeOK, EmulatorType, CompilerType, Send, SendProceed, SendCompile
    <2>4. CacheType'
      BY <1>2 DEF TypeOK, CacheType, Send, SendProceed, SendCompile
    <2> QED BY <2>3, <2>4 DEF TypeOK
  <1> QED BY <1>1, <1>2

LEMMA TypeLookup ==
  ASSUME TypeOK, NEW pc \in PCs, Lookup(pc) PROVE TypeOK'
  <1> DEFINE w == pc.word
  <1>1. w \in Words /\ Fits(w) /\ emulator = "receiving"
    BY DEF Lookup
  <1>2. outgoing = NoBlock /\ running = NoBlock
    BY <1>1 DEF TypeOK, EmulatorType
  <1>3. CompilerType'
    BY DEF TypeOK, CompilerType, Lookup
  <1>4. ASSUME Schedule(pc) PROVE TypeOK'
    <2>1. CompileBlock(pc, Parse(w)) \in CompileMessages
      BY <1>1, ParseType DEF TypeOK, CompileBlock, CompileMessages
    <2>2. memory' = memory
      BY DEF Lookup
    <2>3. EmulatorType'
      BY <1>1, <1>2, <1>4, <2>1, <2>2, Kinds DEF TypeOK, EmulatorType, Schedule
    <2>4. CacheType'
      BY <1>4 DEF TypeOK, CacheType, Schedule
    <2> QED BY <1>3, <2>3, <2>4 DEF TypeOK
  <1>5. ASSUME w \in DOMAIN blocks, Run(blocks[w]) PROVE EmulatorType'
    <2>1. blocks[w] \in BlockRecords
      BY <1>5 DEF TypeOK, CacheType
    <2>2. memory' = memory
      BY DEF Lookup
    <2> QED BY <1>1, <1>2, <1>5, <2>1, <2>2 DEF TypeOK, EmulatorType, Run
  <1>6. ASSUME w \in DOMAIN blocks, MarkFresh(w) PROVE CacheType'
    <2>1. blocks[w] \in BlockRecords /\ blocks[w].pc.word = w
      BY <1>6 DEF TypeOK, CacheType
    <2>2. pages' \subseteq Int \X Words /\ protected' \subseteq Int
      BY <1>1, <1>6, <2>1, RegisterType DEF TypeOK, MarkFresh
    <2>3. \A v \in DOMAIN blocks' : blocks'[v] \in BlockRecords /\ blocks'[v].pc.word = v
      BY <1>6, <2>1, BlockFields DEF TypeOK, CacheType, MarkFresh
    <2> QED BY <2>2, <2>3 DEF CacheType
  <1>7. CASE w \in DOMAIN blocks /\ Run(blocks[w]) /\ UNCHANGED cacheVars
    BY <1>3, <1>5, <1>7 DEF TypeOK, CacheType
  <1>8. CASE w \in DOMAIN blocks /\ Run(blocks[w]) /\ MarkFresh(w)
    BY <1>3, <1>5, <1>6, <1>8 DEF TypeOK
  <1> QED BY <1>4, <1>7, <1>8 DEF Lookup

LEMMA GuardedStoreType ==
  ASSUME TypeOK, NEW w \in Words, NEW v \in Ops \cup Jumps, GuardedStore(w, v)
  PROVE  memory' \in [Words -> Ops \cup Jumps] /\ CacheType'
  <1>1. memory' \in [Words -> Ops \cup Jumps]
    BY DEF TypeOK, EmulatorType, GuardedStore
  <1>2. CASE UNCHANGED cacheVars
    BY <1>1, <1>2 DEF TypeOK, CacheType
  <1>3. CASE Page(4 * w) \in protected
    <2>1. pages' \subseteq Int \X Words /\ protected' \subseteq Int
      BY <1>3 DEF TypeOK, CacheType, GuardedStore
    <2>2. \A b \in DOMAIN blocks' : blocks'[b] \in BlockRecords /\ blocks'[b].pc.word = b
      <3> SUFFICES ASSUME NEW b \in DOMAIN blocks'
                   PROVE  blocks'[b] \in BlockRecords /\ blocks'[b].pc.word = b
        OBVIOUS
      <3>1. b \in DOMAIN blocks /\ blocks[b] \in BlockRecords /\ blocks[b].pc.word = b
        BY <1>3 DEF TypeOK, CacheType, GuardedStore
      <3>2. blocks'[b] = blocks[b] \/ blocks'[b] = [blocks[b] EXCEPT !.dirty = TRUE]
        BY <1>3, <3>1 DEF GuardedStore
      <3> QED BY <3>1, <3>2, BlockFields
    <2> QED BY <1>1, <2>1, <2>2 DEF CacheType
  <1> QED BY <1>2, <1>3 DEF GuardedStore

LEMMA TypeExecute ==
  ASSUME TypeOK, Execute PROVE TypeOK'
  <1>1. CompilerType'
    BY DEF TypeOK, CompilerType, Execute
  <1>2. memory' \in [Words -> Ops \cup Jumps] /\ CacheType'
    <2>1. CASE UNCHANGED <<memory, cacheVars>>
      BY <2>1 DEF TypeOK, EmulatorType, CacheType
    <2>2. ASSUME NEW w \in Words, NEW v \in Ops \cup Jumps, UnguardedStore(w, v)
          PROVE  memory' \in [Words -> Ops \cup Jumps] /\ CacheType'
      BY <2>2 DEF TypeOK, EmulatorType, CacheType, UnguardedStore
    <2> QED BY <2>1, <2>2, GuardedStoreType DEF Execute
  <1>3. EmulatorType'
    BY <1>2, Kinds DEF TypeOK, EmulatorType, Execute
  <1> QED BY <1>1, <1>2, <1>3 DEF TypeOK

\* A message taken off the compiler's channel.
LEMMA TakeOne ==
  ASSUME TypeOK, compileQueue # <<>>, compileQueue' = Tail(compileQueue)
  PROVE  /\ compileQueue' \in Seq(CompileMessages) /\ Len(compileQueue') <= CompileRoom
         /\ Head(compileQueue) \in CompileMessages
  <1>1. compileQueue \in Seq(CompileMessages) /\ Len(compileQueue) <= CompileRoom
    BY DEF TypeOK, CompilerType
  <1>2. /\ Head(compileQueue) \in CompileMessages
        /\ compileQueue' \in Seq(CompileMessages) /\ Len(compileQueue') = Len(compileQueue) - 1
    BY <1>1, HeadTailProperties
  <1>3. Len(compileQueue) \in Nat
    BY <1>1, LenProperties
  <1> QED BY <1>1, <1>2, <1>3

LEMMA TypeCompiler ==
  ASSUME TypeOK, Compiler PROVE TypeOK'
  <1>1. EmulatorType' /\ CacheType'
    BY DEF TypeOK, EmulatorType, CacheType, Compiler, Compile, Post, Drain, Request, Await
  <1>2. CASE Compile
    <2> DEFINE m == Head(compileQueue)
    <2>6. /\ compileQueue' \in Seq(CompileMessages) /\ Len(compileQueue') <= CompileRoom
          /\ m \in CompileMessages
      BY <1>2, TakeOne DEF Compile
    <2>1. m \in CompileMessages /\ m # ProceedWithGC
      BY <1>2, <2>6, Kinds DEF Compile
    <2>2. Block(m.pc, m.code) \in BlockRecords
      BY <2>1 DEF TypeOK, CompilerType, Block, BlockRecords, CompileMessages
    <2> HIDE DEF m
    <2>3. compiled' = Block(m.pc, m.code)
      BY <1>2 DEF Compile, m
    <2>4. CompilerType'
      BY <1>2, <2>1, <2>2, <2>3, <2>6, Kinds DEF TypeOK, CompilerType, Compile
    <2> QED BY <1>1, <2>4 DEF TypeOK
  <1>3. CASE Post
    <2>1. codeQueue' \in Seq(BlockRecords \cup {RequestGC}) /\ Len(codeQueue') <= CodeRoom
      BY <1>3, AppendProperties DEF TypeOK, CompilerType, Post
    <2> QED BY <1>1, <1>3, <2>1 DEF TypeOK, CompilerType, Post
  <1>4. CASE Drain
    <2>1. compileQueue' \in Seq(CompileMessages) /\ Len(compileQueue') <= CompileRoom
      BY <1>4, TakeOne DEF TypeOK, CompilerType, Drain
    <2> QED BY <1>1, <1>4, <2>1 DEF TypeOK, CompilerType, Drain
  <1>5. CASE Request
    <2>1. codeQueue' \in Seq(BlockRecords \cup {RequestGC}) /\ Len(codeQueue') <= CodeRoom
      BY <1>5, AppendProperties DEF TypeOK, CompilerType, Request
    <2> QED BY <1>1, <1>5, <2>1 DEF TypeOK, CompilerType, Request
  <1>6. CASE Await
    <2>1. compileQueue' \in Seq(CompileMessages) /\ Len(compileQueue') <= CompileRoom
      BY <1>6, TakeOne DEF Await
    <2> QED BY <1>1, <1>6, <2>1 DEF TypeOK, CompilerType, Await
  <1> QED BY <1>2, <1>3, <1>4, <1>5, <1>6 DEF Compiler

LEMMA TypeNext == TypeOK /\ [Next]_vars => TypeOK'
  <1>1. CASE UNCHANGED vars
    BY <1>1 DEF TypeOK, EmulatorType, CacheType, CompilerType
  <1> QED
    BY <1>1, TypeReceiveBlock, TypeSends, TypeLookup, TypeExecute, TypeCompiler
    DEF Next, Emulator

\* Types of both threads, the cache and the channels.
THEOREM BlocksTypeCorrect == Spec => []TypeOK
  BY TypeInit, TypeNext, PTL DEF Spec
-----------------------------------------------------------------------------
(* The write protection.                                                   *)

\* Every page a clean block is registered in is protected and lists it.
BlocksWatched ==
    \A w \in DOMAIN blocks : ~blocks[w].dirty =>
        \A p \in WatchedPages(blocks[w]) : p \in protected /\ <<p, w>> \in pages

Watched == ~Unprotected => BlocksWatched /\ WatchedCodeIsFresh

\* Both speak of the blocks one at a time.
WatchedBlock(w) ==
    ~blocks[w].dirty =>
        /\ \A p \in WatchedPages(blocks[w]) : p \in protected /\ <<p, w>> \in pages
        /\ \A i \in DOMAIN blocks[w].code :
              Page(4 * (w + i - 1)) \in WatchedPages(blocks[w]) =>
                  memory[w + i - 1] = blocks[w].code[i]

LEMMA WatchedIsPerBlock ==
  ASSUME ~Unprotected
  PROVE  Watched <=> \A w \in DOMAIN blocks : WatchedBlock(w)
  BY DEF Watched, BlocksWatched, WatchedCodeIsFresh, WatchedBlock

\* A block that is registered while memory still holds its words is watched,
\* and registering it takes nothing from the others.
LEMMA RegisterWatches ==
  ASSUME Watched, ~Unprotected, NEW w, NEW block, block.pc.word = w,
         StillThere(block), Register(block), memory' = memory,
         \A v \in DOMAIN blocks' \ {w} : v \in DOMAIN blocks /\ blocks'[v] = blocks[v],
         w \in DOMAIN blocks' => /\ blocks'[w].pc = block.pc
                                 /\ blocks'[w].code = block.code
  PROVE  Watched'
  <1> SUFFICES ASSUME NEW v \in DOMAIN blocks' PROVE WatchedBlock(v)'
    BY DEF Watched, BlocksWatched, WatchedCodeIsFresh, WatchedBlock
  <1>1. protected \subseteq protected' /\ pages \subseteq pages'
    BY DEF Register
  <1>2. CASE v = w
    <2>1. WatchedPages(blocks'[w]) = WatchedPages(block)
      BY <1>2 DEF WatchedPages
    <2>2. \A p \in WatchedPages(block) : p \in protected' /\ <<p, w>> \in pages'
      BY DEF Register
    <2>3. \A i \in DOMAIN blocks'[w].code : memory'[w + i - 1] = blocks'[w].code[i]
      BY <1>2 DEF StillThere
    <2> QED BY <1>2, <2>1, <2>2, <2>3 DEF WatchedBlock, WatchedPages
  <1>3. CASE v # w
    <2>1. v \in DOMAIN blocks /\ blocks'[v] = blocks[v] /\ WatchedBlock(v)
      BY <1>3, WatchedIsPerBlock
    <2> QED BY <1>1, <2>1 DEF WatchedBlock, WatchedPages
  <1> QED BY <1>2, <1>3

LEMMA StoreWatches ==
  ASSUME TypeOK, Watched, ~Unprotected,
         NEW w \in Words, NEW v \in Ops \cup Jumps, GuardedStore(w, v)
  PROVE  Watched'
  <1> DEFINE p == Page(4 * w)
  <1> SUFFICES ASSUME NEW b \in DOMAIN blocks', ~blocks'[b].dirty
               PROVE  WatchedBlock(b)'
    BY DEF Watched, BlocksWatched, WatchedCodeIsFresh, WatchedBlock
  <1>1. b \in DOMAIN blocks /\ WatchedBlock(b)
    BY WatchedIsPerBlock DEF GuardedStore
  <1>2. blocks'[b] = blocks[b]
        /\ (p \in protected => <<p, b>> \notin pages)
    <2>1. CASE p \notin protected
      BY <2>1 DEF GuardedStore
    <2>2. CASE p \in protected
      <3>1. blocks' = [c \in DOMAIN blocks |->
                         IF <<p, c>> \in pages THEN [blocks[c] EXCEPT !.dirty = TRUE]
                         ELSE blocks[c]]
        BY <2>2 DEF GuardedStore
      <3>2. <<p, b>> \notin pages
        <4> SUFFICES ASSUME <<p, b>> \in pages PROVE FALSE
          OBVIOUS
        <4>1. blocks'[b] = [blocks[b] EXCEPT !.dirty = TRUE]
          BY <1>1, <3>1
        <4>2. blocks[b] \in BlockRecords
          BY <1>1 DEF TypeOK, CacheType
        <4> QED BY <4>1, <4>2, BlockFields
      <3> QED BY <1>1, <3>1, <3>2
    <2> QED BY <2>1, <2>2
  <1>3. p \notin WatchedPages(blocks[b])
    BY <1>1, <1>2 DEF WatchedBlock
  <1>4. \A q \in WatchedPages(blocks[b]) : q \in protected' /\ <<q, b>> \in pages'
    BY <1>1, <1>2, <1>3 DEF WatchedBlock, GuardedStore
  <1>5. \A i \in DOMAIN blocks[b].code :
          Page(4 * (b + i - 1)) \in WatchedPages(blocks[b]) =>
              memory'[b + i - 1] = blocks[b].code[i]
    BY <1>1, <1>2, <1>3 DEF WatchedBlock, GuardedStore, TypeOK, EmulatorType
  <1> QED BY <1>2, <1>4, <1>5 DEF WatchedBlock, WatchedPages

LEMMA MarkFreshKeeps ==
  ASSUME CacheType, NEW w \in DOMAIN blocks, MarkFresh(w)
  PROVE  /\ DOMAIN blocks' = DOMAIN blocks
         /\ \A v \in DOMAIN blocks' \ {w} : blocks'[v] = blocks[v]
         /\ blocks'[w].pc = blocks[w].pc /\ blocks'[w].code = blocks[w].code
         /\ blocks'[w].gen = blocks[w].gen
  <1>1. blocks[w] \in BlockRecords
    BY DEF CacheType
  <1>2. blocks' = [blocks EXCEPT ![w].dirty = FALSE]
    BY DEF MarkFresh
  <1> QED BY <1>1, <1>2 DEF BlockRecords

LEMMA WatchedNext == TypeOK /\ Watched /\ [Next]_vars => Watched'
  <1> SUFFICES ASSUME TypeOK, Watched, [Next]_vars, ~Unprotected PROVE Watched'
    BY DEF Watched
  <1>1. ASSUME UNCHANGED <<memory, cacheVars>> PROVE Watched'
    BY <1>1 DEF Watched, BlocksWatched, WatchedCodeIsFresh, WatchedPages
  <1>2. CASE ReceiveBlock
    <2> DEFINE b == Head(codeQueue)
    <2>1. memory' = memory /\ Insert(b)
      BY <1>2 DEF ReceiveBlock
    <2>2. CASE StillThere(b)
      <3>1. Store(b) /\ Register(b)
        BY <2>1, <2>2 DEF Insert
      <3> HIDE DEF b
      <3>2. \A v \in DOMAIN blocks' \ {b.pc.word} :
               v \in DOMAIN blocks /\ blocks'[v] = blocks[v]
        BY <3>1 DEF Store
      <3>3. blocks'[b.pc.word] = b
        BY <3>1 DEF Store
      <3> QED BY <2>1, <2>2, <3>1, <3>2, <3>3, RegisterWatches
    <2>3. CASE ~StillThere(b)
      BY <1>1, <2>1, <2>3 DEF Insert
    <2> QED BY <2>2, <2>3
  <1>3. CASE ReceiveRequestGC
    <2>1. blocks' = <<>> /\ 1..0 = {}
      BY <1>3 DEF ReceiveRequestGC, InvalidateAll
    <2>2. DOMAIN blocks' = {}
      BY <2>1
    <2> QED BY <2>2 DEF Watched, BlocksWatched, WatchedCodeIsFresh
  <1>4. CASE SendProceed \/ SendCompile
    BY <1>1, <1>4 DEF SendProceed, SendCompile, Send
  <1>5. ASSUME NEW pc \in PCs, Lookup(pc) PROVE Watched'
    <2> DEFINE w == pc.word
    <2>1. memory' = memory
      BY <1>5 DEF Lookup
    <2>2. CASE UNCHANGED cacheVars
      BY <1>1, <2>1, <2>2
    <2>3. CASE w \in DOMAIN blocks /\ StillThere(blocks[w]) /\ MarkFresh(w)
      <3>1. blocks[w].pc.word = w
        BY <2>3 DEF TypeOK, CacheType
      <3>2. /\ DOMAIN blocks' = DOMAIN blocks
            /\ \A v \in DOMAIN blocks' \ {w} : blocks'[v] = blocks[v]
            /\ blocks'[w].pc = blocks[w].pc /\ blocks'[w].code = blocks[w].code
        BY <2>3, MarkFreshKeeps DEF TypeOK
      <3>4. Register(blocks[w])
        BY <2>3 DEF MarkFresh
      <3> QED BY <2>1, <2>3, <3>1, <3>2, <3>4, RegisterWatches
    <2> QED BY <1>5, <2>2, <2>3 DEF Lookup, Schedule
  <1>6. CASE Execute
    <2>1. CASE UNCHANGED <<memory, cacheVars>>
      BY <1>1, <2>1
    <2> QED BY <1>6, <2>1, StoreWatches DEF Execute, UnguardedStore
  <1>7. CASE Compiler
    BY <1>1, <1>7 DEF Compiler, Compile, Post, Drain, Request, Await
  <1>8. CASE UNCHANGED vars
    BY <1>1, <1>8
  <1> QED
    BY <1>2, <1>3, <1>4, <1>5, <1>6, <1>7, <1>8 DEF Next, Emulator

\* As long as no store goes round the protection, a block that is not dirty
\* equals the memory it came from, in every page it is registered in.
THEOREM WatchedFresh == Spec => [](~Unprotected => WatchedCodeIsFresh)
  <1>1. Init => Watched
    <2> SUFFICES ASSUME Init PROVE DOMAIN blocks = {}
      BY DEF Watched, BlocksWatched, WatchedCodeIsFresh
    <2> QED BY 1..0 = {} DEF Init
  <1>2. Watched => (~Unprotected => WatchedCodeIsFresh)
    BY DEF Watched
  <1> QED BY <1>1, <1>2, WatchedNext, BlocksTypeCorrect, PTL DEF Spec

-----------------------------------------------------------------------------
(* The hand-over of the code memory.                                       *)

NotIn(m, queue) == \A i \in DOMAIN queue : queue[i] # m
Once(m, queue)  == \E i \in DOMAIN queue :
                      /\ queue[i] = m
                      /\ \A j \in DOMAIN queue \ {i} : queue[j] # m

\* What is in the cache, on its way to it or running is of this generation.
Current ==
    /\ NoDanglingCode
    /\ \A i \in DOMAIN codeQueue : codeQueue[i].kind = "Block" => codeQueue[i].gen = generation
    /\ compiled # NoBlock => compiled.gen = generation

\* While the compiler waits, its request is the last word the emulator will
\* receive; once received, nothing of the old generation is left and exactly
\* one permission is on its way.
Asking ==
    /\ codeQueue # <<>> /\ codeQueue[Len(codeQueue)] = RequestGC
    /\ \A i \in 1..(Len(codeQueue) - 1) : codeQueue[i] # RequestGC
    /\ emulator # "proceeding" /\ NotIn(ProceedWithGC, compileQueue)

Granted ==
    /\ codeQueue = <<>> /\ DOMAIN blocks = {} /\ running = NoBlock
    /\ IF emulator = "proceeding" THEN NotIn(ProceedWithGC, compileQueue)
       ELSE Once(ProceedWithGC, compileQueue)

Quiet ==
    /\ NotIn(RequestGC, codeQueue) /\ NotIn(ProceedWithGC, compileQueue)
    /\ emulator # "proceeding"

Protocol ==
    /\ Current
    /\ outgoing = ProceedWithGC <=> emulator = "proceeding"
    /\ IF compiler = "waiting" THEN Asking \/ Granted ELSE Quiet

\* What adding to and taking from a channel does to the messages in it.
LEMMA Added ==
  ASSUME NEW S, NEW queue \in Seq(S), NEW m \in S
  PROVE  /\ Len(Append(queue, m)) = Len(queue) + 1 /\ Append(queue, m) # <<>>
         /\ DOMAIN queue = 1..Len(queue) /\ Len(queue) \in Nat
         /\ DOMAIN Append(queue, m) = 1..(Len(queue) + 1)
         /\ \A i \in 1..Len(queue) : Append(queue, m)[i] = queue[i]
         /\ Append(queue, m)[Len(queue) + 1] = m
  BY AppendProperties, LenProperties

LEMMA NoLength ==
  ASSUME NEW S, NEW queue \in Seq(S), Len(queue) = 0
  PROVE  queue = <<>>
  BY EmptySeq

LEMMA Taken ==
  ASSUME NEW S, NEW queue \in Seq(S), queue # <<>>
  PROVE  /\ Len(queue) \in Nat \ {0} /\ DOMAIN queue = 1..Len(queue)
         /\ Len(Tail(queue)) = Len(queue) - 1
         /\ DOMAIN Tail(queue) = 1..(Len(queue) - 1)
         /\ \A i \in 1..(Len(queue) - 1) : Tail(queue)[i] = queue[i + 1]
         /\ Head(queue) = queue[1] /\ Head(queue) \in S
         /\ (Len(queue) = 1 => Tail(queue) = <<>>)
  <1>1. Len(queue) \in Nat \ {0} /\ DOMAIN queue = 1..Len(queue)
    BY EmptySeq, LenProperties
  <1>2. /\ Tail(queue) \in Seq(S) /\ Len(Tail(queue)) = Len(queue) - 1
        /\ \A i \in 1..Len(Tail(queue)) : Tail(queue)[i] = queue[i + 1]
        /\ Head(queue) \in S
    BY HeadTailProperties
  <1>3. DOMAIN Tail(queue) = 1..(Len(queue) - 1)
    BY <1>2, LenProperties
  <1>4. Len(queue) = 1 => Tail(queue) = <<>>
    <2> SUFFICES ASSUME Len(queue) = 1 PROVE Tail(queue) = <<>>
      OBVIOUS
    <2>1. Len(Tail(queue)) = 0
      BY <1>2
    <2> QED BY <1>2, <2>1, NoLength
  <1>5. Head(queue) = queue[1]
    OBVIOUS
  <1> QED BY <1>1, <1>2, <1>3, <1>4, <1>5

LEMMA NotInAdded ==
  ASSUME NEW S, NEW queue \in Seq(S), NEW m \in S, NEW x, x # m
  PROVE  /\ NotIn(x, Append(queue, m)) <=> NotIn(x, queue)
         /\ Once(x, queue) => Once(x, Append(queue, m))
  BY Added DEF NotIn, Once

LEMMA OnceAdded ==
  ASSUME NEW S, NEW queue \in Seq(S), NEW m \in S, NotIn(m, queue)
  PROVE  Once(m, Append(queue, m))
  <1> DEFINE n == Len(queue) + 1
             q == Append(queue, m)
  <1>1. n \in DOMAIN q /\ q[n] = m
    BY Added
  <1>2. \A j \in DOMAIN q \ {n} : q[j] # m
    BY Added DEF NotIn
  <1> QED BY <1>1, <1>2 DEF Once

LEMMA NotInTaken ==
  ASSUME NEW S, NEW queue \in Seq(S), queue # <<>>, NEW x
  PROVE  /\ NotIn(x, queue) => NotIn(x, Tail(queue))
         /\ Head(queue) = x /\ Once(x, queue) => NotIn(x, Tail(queue))
         /\ Head(queue) # x /\ Once(x, queue) => Once(x, Tail(queue))
  <1>1. NotIn(x, queue) => NotIn(x, Tail(queue))
    BY Taken DEF NotIn
  <1>2. ASSUME Head(queue) = x, Once(x, queue) PROVE NotIn(x, Tail(queue))
    <2>1. \A j \in DOMAIN queue \ {1} : queue[j] # x
      BY <1>2, Taken DEF Once
    <2> QED BY <2>1, Taken DEF NotIn
  <1>3. ASSUME Head(queue) # x, Once(x, queue) PROVE Once(x, Tail(queue))
    <2>1. PICK i \in DOMAIN queue : queue[i] = x /\ \A j \in DOMAIN queue \ {i} : queue[j] # x
      BY <1>3 DEF Once
    <2>2. i # 1 /\ i \in 1..Len(queue)
      BY <1>3, <2>1, Taken
    <2>3. i - 1 \in DOMAIN Tail(queue) /\ Tail(queue)[i - 1] = x
      BY <2>1, <2>2, Taken
    <2>4. \A j \in DOMAIN Tail(queue) \ {i - 1} : Tail(queue)[j] # x
      BY <2>1, <2>2, Taken
    <2> QED BY <2>3, <2>4 DEF Once
  <1> QED BY <1>1, <1>2, <1>3

\* What an action leaves of each generation.
LEMMA SameGeneration ==
  ASSUME Current, generation' = generation, running' = running,
         DOMAIN blocks' \subseteq DOMAIN blocks,
         \A w \in DOMAIN blocks' : blocks'[w].gen = blocks[w].gen,
         UNCHANGED codeQueue, UNCHANGED compiled
  PROVE  Current'
  BY DEF Current, NoDanglingCode

LEMMA ProtocolReceiveBlock ==
  ASSUME TypeOK, Protocol, ReceiveBlock PROVE Protocol'
  <1> DEFINE S == BlockRecords \cup {RequestGC}
             b == Head(codeQueue)
  <1>1. codeQueue \in Seq(S) /\ codeQueue # <<>> /\ codeQueue' = Tail(codeQueue)
    BY DEF TypeOK, CompilerType, ReceiveBlock
  <1>2. /\ emulator = "receiving" /\ emulator' = emulator /\ outgoing' = outgoing
        /\ running' = running /\ compileQueue' = compileQueue
        /\ UNCHANGED compilerVars
    BY DEF ReceiveBlock
  <1>3. b.kind = "Block" /\ b # RequestGC
    BY Kinds DEF ReceiveBlock
  <1>4. b.gen = generation
    BY <1>1, <1>3, Taken DEF Protocol, Current
  <1>5. \A w \in DOMAIN blocks' : blocks'[w] = b \/ (w \in DOMAIN blocks /\ blocks'[w] = blocks[w])
    <2>1. Insert(b)
      BY DEF ReceiveBlock
    <2> HIDE DEF b
    <2> QED BY <2>1 DEF Insert, Store
  <1>6. Current'
    <2>1. \A i \in DOMAIN codeQueue' : i + 1 \in DOMAIN codeQueue /\ codeQueue'[i] = codeQueue[i + 1]
      BY <1>1, Taken
    <2>2. \A i \in DOMAIN codeQueue' : codeQueue'[i].kind = "Block" => codeQueue'[i].gen = generation'
      BY <1>2, <2>1 DEF Protocol, Current
    <2> HIDE DEF b
    <2> QED BY <1>2, <1>4, <1>5, <2>2 DEF Protocol, Current, NoDanglingCode
  <1>7. CASE compiler = "waiting"
    <2>1. Asking
      BY <1>1, <1>7 DEF Protocol, Granted
    <2>2. Len(codeQueue) # 1
      BY <1>1, <1>3, <2>1, Taken DEF Asking
    <2>3. codeQueue' # <<>> /\ Len(codeQueue') = Len(codeQueue) - 1
          /\ Len(codeQueue) \in Nat \ {0, 1}
      <3> HIDE DEF S
      <3>1. Len(codeQueue) \in Nat \ {0, 1} /\ Len(codeQueue') = Len(codeQueue) - 1
        BY <1>1, <2>2, Taken
      <3>2. Len(codeQueue') # 0
        BY <3>1
      <3>3. codeQueue' # <<>>
        BY <3>2, EmptySeq
      <3> QED BY <3>1, <3>3
    <2>4. codeQueue'[Len(codeQueue')] = RequestGC
          /\ \A i \in 1..(Len(codeQueue') - 1) : codeQueue'[i] # RequestGC
      BY <1>1, <2>1, <2>3, Taken DEF Asking
    <2>5. Asking'
      BY <1>2, <2>1, <2>3, <2>4 DEF Asking
    <2> QED BY <1>2, <1>6, <1>7, <2>5 DEF Protocol
  <1>8. CASE compiler # "waiting"
    <2>1. Quiet'
      BY <1>1, <1>2, <1>8, NotInTaken DEF Protocol, Quiet
    <2> QED BY <1>2, <1>6, <1>8, <2>1 DEF Protocol
  <1> QED BY <1>7, <1>8

LEMMA ProtocolReceiveRequest ==
  ASSUME TypeOK, Protocol, ReceiveRequestGC PROVE Protocol'
  <1> DEFINE S == BlockRecords \cup {RequestGC}
  <1>1. codeQueue \in Seq(S) /\ codeQueue # <<>> /\ codeQueue' = Tail(codeQueue)
    BY DEF TypeOK, CompilerType, ReceiveRequestGC
  <1>2. /\ emulator = "receiving" /\ emulator' = "proceeding"
        /\ outgoing' = ProceedWithGC
        /\ running' = running /\ compileQueue' = compileQueue
        /\ UNCHANGED compilerVars
    BY DEF ReceiveRequestGC
  <1>3. codeQueue[1] = RequestGC
    BY <1>1, Taken DEF ReceiveRequestGC
  <1>4. compiler = "waiting" /\ Asking
    BY <1>1, <1>3, Taken DEF Protocol, Quiet, NotIn, Granted
  <1>5. codeQueue' = <<>>
    <2>1. Len(codeQueue) = 1
      <3> HIDE DEF S
      <3>1. Len(codeQueue) \in Nat \ {0}
        BY <1>1, Taken
      <3>2. ASSUME Len(codeQueue) > 1 PROVE FALSE
        <4>1. 1 \in 1..(Len(codeQueue) - 1)
          BY <3>1, <3>2
        <4> QED BY <1>3, <1>4, <4>1 DEF Asking
      <3> DEFINE n == Len(codeQueue)
      <3>3. n \in Nat \ {0} /\ ~(n > 1)
        BY <3>1, <3>2
      <3> HIDE DEF n
      <3>4. n = 1
        BY <3>3
      <3> QED BY <3>4 DEF n
    <2> QED BY <1>1, <2>1, Taken
  <1>6. DOMAIN blocks' = {} /\ DOMAIN codeQueue' = {}
    BY <1>5, 1..0 = {} DEF ReceiveRequestGC, InvalidateAll
  <1>7. running = NoBlock
    BY <1>2 DEF TypeOK, EmulatorType
  <1>8. Current'
    BY <1>2, <1>6, <1>7 DEF Protocol, Current, NoDanglingCode
  <1>9. Granted'
    BY <1>2, <1>4, <1>5, <1>6, <1>7 DEF Granted, Asking
  <1> QED BY <1>2, <1>4, <1>8, <1>9 DEF Protocol

LEMMA ProtocolSends ==
  ASSUME TypeOK, Protocol, SendProceed \/ SendCompile PROVE Protocol'
  <1>1. /\ compileQueue \in Seq(CompileMessages) /\ outgoing \in CompileMessages
        /\ compileQueue' = Append(compileQueue, outgoing)
    BY DEF TypeOK, EmulatorType, CompilerType, SendProceed, SendCompile, Send
  <1>2. /\ emulator' # "proceeding" /\ outgoing' = NoBlock
        /\ UNCHANGED <<guestVars, cacheVars, codeQueue, compilerVars>>
    BY DEF SendProceed, SendCompile, Send
  <1>3. Current'
    BY <1>2 DEF Protocol, Current, NoDanglingCode
  <1>4. outgoing' # ProceedWithGC
    BY <1>2, Kinds
  <1>5. CASE SendProceed
    <2>1. outgoing = ProceedWithGC /\ compiler = "waiting" /\ Granted
      BY <1>5 DEF SendProceed, Protocol, Quiet, Asking
    <2>2. NotIn(ProceedWithGC, compileQueue)
      BY <1>5, <2>1 DEF SendProceed, Granted
    <2>3. Once(ProceedWithGC, compileQueue')
      BY <1>1, <2>1, <2>2, OnceAdded
    <2>4. Granted'
      BY <1>2, <2>1, <2>3 DEF Granted
    <2> QED BY <1>2, <1>3, <1>4, <2>1, <2>4 DEF Protocol
  <1>6. CASE SendCompile
    <2>1. emulator = "sending" /\ outgoing # ProceedWithGC
      BY <1>6 DEF SendCompile, Protocol
    <2>2. /\ NotIn(ProceedWithGC, compileQueue) => NotIn(ProceedWithGC, compileQueue')
          /\ Once(ProceedWithGC, compileQueue) => Once(ProceedWithGC, compileQueue')
      BY <1>1, <2>1, NotInAdded
    <2>3. /\ Quiet => Quiet'
          /\ Asking => Asking'
          /\ Granted => Granted'
      BY <1>2, <2>1, <2>2 DEF Quiet, Asking, Granted
    <2>4. compiler' = compiler
      BY <1>2
    <2>6. CASE compiler = "waiting"
      <3>1. Asking \/ Granted
        BY <2>6 DEF Protocol
      <3>2. Asking' \/ Granted'
        BY <2>3, <3>1
      <3> QED BY <1>2, <1>3, <1>4, <2>4, <2>6, <3>2 DEF Protocol
    <2>7. CASE compiler # "waiting"
      <3>1. Quiet
        BY <2>7 DEF Protocol
      <3>2. Quiet'
        BY <2>3, <3>1
      <3> QED BY <1>2, <1>3, <1>4, <2>4, <2>7, <3>2 DEF Protocol
    <2> QED BY <2>6, <2>7
  <1> QED BY <1>5, <1>6

\* Permission is only given while the compiler waits for it, so whatever the
\* emulator looks up is either compiled already or cannot confuse it.
LEMMA ProtocolLookup ==
  ASSUME TypeOK, Protocol, NEW pc \in PCs, Lookup(pc) PROVE Protocol'
  <1> DEFINE w == pc.word
  <1>1. /\ emulator = "receiving" /\ codeQueue = <<>>
        /\ UNCHANGED <<memory, compileQueue, codeQueue, compilerVars>>
    BY DEF Lookup
  <1>2. DOMAIN blocks' = DOMAIN blocks
        /\ \A x \in DOMAIN blocks' : blocks'[x].gen = blocks[x].gen
    <2>1. CASE UNCHANGED cacheVars
      BY <2>1
    <2>2. CASE w \in DOMAIN blocks /\ MarkFresh(w)
      BY <2>2, MarkFreshKeeps DEF TypeOK
    <2> QED BY <2>1, <2>2 DEF Lookup, Schedule
  <1>3. /\ emulator' # "proceeding"
        /\ outgoing' # ProceedWithGC
    <2>1. outgoing # ProceedWithGC
      BY <1>1 DEF Protocol
    <2>2. CompileBlock(pc, Parse(w)) # ProceedWithGC
      BY DEF CompileBlock, ProceedWithGC
    <2> QED BY <1>1, <2>1, <2>2 DEF Lookup, Schedule, Run
  <1>4. running' = running \/ (w \in DOMAIN blocks /\ running' = blocks[w])
    BY DEF Lookup, Schedule, Run
  <1>5. Current'
    BY <1>1, <1>2, <1>4 DEF Protocol, Current, NoDanglingCode
  <1>6. CASE compiler = "waiting"
    <2>1. Granted
      BY <1>1, <1>6 DEF Protocol, Asking
    <2>2. running' = NoBlock
      BY <1>4, <2>1 DEF Granted
    <2>3. Once(ProceedWithGC, compileQueue')
      BY <1>1, <2>1 DEF Granted
    <2>4. Granted'
      BY <1>1, <1>2, <1>3, <2>1, <2>2, <2>3 DEF Granted
    <2> QED BY <1>1, <1>3, <1>5, <1>6, <2>4 DEF Protocol
  <1>7. CASE compiler # "waiting"
    <2>1. Quiet'
      BY <1>1, <1>3, <1>7 DEF Protocol, Quiet, NotIn
    <2> QED BY <1>1, <1>3, <1>5, <1>7, <2>1 DEF Protocol
  <1> QED BY <1>6, <1>7

\* Running a block changes no generation: a store only marks blocks dirty.
LEMMA StoreKeepsGeneration ==
  ASSUME CacheType, NEW w \in Words, NEW v, GuardedStore(w, v)
  PROVE  /\ DOMAIN blocks' = DOMAIN blocks
         /\ \A b \in DOMAIN blocks' : blocks'[b].gen = blocks[b].gen
  <1>1. \A b \in DOMAIN blocks : [blocks[b] EXCEPT !.dirty = TRUE].gen = blocks[b].gen
    BY BlockFields DEF CacheType
  <1> QED BY <1>1 DEF GuardedStore

LEMMA ProtocolExecute ==
  ASSUME TypeOK, Protocol, Execute PROVE Protocol'
  <1>1. /\ emulator = "running" /\ emulator' = "receiving" /\ running' = NoBlock
        /\ outgoing' = outgoing
        /\ UNCHANGED <<compileQueue, codeQueue, compilerVars>>
    BY DEF Execute
  <1>2. DOMAIN blocks' = DOMAIN blocks
        /\ \A b \in DOMAIN blocks' : blocks'[b].gen = blocks[b].gen
    BY StoreKeepsGeneration DEF Execute, TypeOK, UnguardedStore
  <1>3. Current'
    BY <1>1, <1>2 DEF Protocol, Current, NoDanglingCode
  <1>4. /\ Quiet => Quiet'
        /\ Asking => Asking'
        /\ Granted => Granted'
    BY <1>1, <1>2 DEF Quiet, Asking, Granted, NotIn, Once
  <1>5. CASE compiler = "waiting"
    <2>1. Asking' \/ Granted'
      BY <1>4, <1>5 DEF Protocol
    <2> QED BY <1>1, <1>3, <1>5, <2>1 DEF Protocol
  <1>6. CASE compiler # "waiting"
    <2>1. Quiet'
      BY <1>4, <1>6 DEF Protocol
    <2> QED BY <1>1, <1>3, <1>6, <2>1 DEF Protocol
  <1> QED BY <1>5, <1>6

\* The compiler's own steps, before it asks for its code memory.
LEMMA ProtocolCompile ==
  ASSUME TypeOK, Protocol, Compile PROVE Protocol'
  <1>1. /\ compiler = "idle" /\ compiler' = "posting" /\ compileQueue # <<>>
        /\ compileQueue' = Tail(compileQueue) /\ compileQueue \in Seq(CompileMessages)
        /\ UNCHANGED <<emulatorVars, codeQueue, generation>>
    BY DEF Compile, TypeOK, CompilerType
  <1>2. compiled'.gen = generation
    BY DEF Compile, Block
  <1>3. Current'
    BY <1>1, <1>2 DEF Protocol, Current, NoDanglingCode
  <1>4. Quiet'
    BY <1>1, NotInTaken DEF Protocol, Quiet
  <1> QED BY <1>1, <1>3, <1>4 DEF Protocol

LEMMA ProtocolPost ==
  ASSUME TypeOK, Protocol, Post PROVE Protocol'
  <1> DEFINE S == BlockRecords \cup {RequestGC}
  <1>1. /\ compiler = "posting" /\ compiler' = "idle" /\ compiled' = NoBlock
        /\ codeQueue' = Append(codeQueue, compiled) /\ codeQueue \in Seq(S)
        /\ UNCHANGED <<emulatorVars, compileQueue, generation>>
    BY DEF Post, TypeOK, CompilerType
  <1>2. compiled \in S /\ compiled # RequestGC /\ compiled # NoBlock
    BY <1>1, Kinds DEF TypeOK, CompilerType
  <1>3. \A i \in DOMAIN codeQueue' :
           \/ i \in DOMAIN codeQueue /\ codeQueue'[i] = codeQueue[i]
           \/ codeQueue'[i] = compiled
    <2> HIDE DEF S
    <2>1. /\ Len(codeQueue) \in Nat /\ DOMAIN codeQueue = 1..Len(codeQueue)
          /\ DOMAIN codeQueue' = 1..(Len(codeQueue) + 1)
          /\ \A i \in 1..Len(codeQueue) : codeQueue'[i] = codeQueue[i]
          /\ codeQueue'[Len(codeQueue) + 1] = compiled
      BY <1>1, <1>2, Added
    <2> QED BY <2>1
  <1>4. Current'
    BY <1>1, <1>2, <1>3 DEF Protocol, Current, NoDanglingCode
  <1>5. Quiet'
    BY <1>1, <1>2, NotInAdded DEF Protocol, Quiet
  <1> QED BY <1>1, <1>4, <1>5 DEF Protocol

LEMMA ProtocolDrain ==
  ASSUME TypeOK, Protocol, Drain PROVE Protocol'
  <1>1. /\ compiler \in {"idle", "draining"} /\ compiler' \in {"draining", "requesting"}
        /\ UNCHANGED <<emulatorVars, codeQueue, compiled, generation>>
        /\ compileQueue \in Seq(CompileMessages)
    BY DEF Drain, TypeOK, CompilerType
  <1>2. \/ compileQueue # <<>> /\ compileQueue' = Tail(compileQueue)
        \/ compileQueue' = compileQueue
    BY DEF Drain
  <1>3. Current'
    BY <1>1 DEF Protocol, Current, NoDanglingCode
  <1>4. Quiet'
    BY <1>1, <1>2, NotInTaken DEF Protocol, Quiet
  <1> QED BY <1>1, <1>3, <1>4 DEF Protocol

LEMMA ProtocolRequest ==
  ASSUME TypeOK, Protocol, Request PROVE Protocol'
  <1> DEFINE S == BlockRecords \cup {RequestGC}
             n == Len(codeQueue)
  <1>1. /\ compiler = "requesting" /\ compiler' = "waiting"
        /\ codeQueue' = Append(codeQueue, RequestGC) /\ codeQueue \in Seq(S)
        /\ UNCHANGED <<emulatorVars, compileQueue, compiled, generation>>
    BY DEF Request, TypeOK, CompilerType
  <1>2. Quiet
    BY <1>1 DEF Protocol
  <1>3. /\ n \in Nat /\ DOMAIN codeQueue = 1..n /\ codeQueue' # <<>>
        /\ Len(codeQueue') = n + 1 /\ DOMAIN codeQueue' = 1..(n + 1)
        /\ \A i \in 1..n : codeQueue'[i] = codeQueue[i]
        /\ codeQueue'[n + 1] = RequestGC
    <2> RequestGC \in S
      OBVIOUS
    <2> HIDE DEF S
    <2> QED BY <1>1, Added
  <1>4. Current'
    <2>1. \A i \in DOMAIN codeQueue' : codeQueue'[i].kind = "Block" => codeQueue'[i].gen = generation'
      <3> SUFFICES ASSUME NEW i \in DOMAIN codeQueue', codeQueue'[i].kind = "Block"
                   PROVE  codeQueue'[i].gen = generation'
        OBVIOUS
      <3>1. i # n + 1
        BY <1>3, Kinds
      <3> HIDE DEF n
      <3>2. i \in 1..n
        BY <1>3, <3>1
      <3> QED BY <1>1, <1>3, <3>2 DEF Protocol, Current
    <2> QED BY <1>1, <2>1 DEF Protocol, Current, NoDanglingCode
  <1>5. Asking'
    <2>1. \A i \in 1..(Len(codeQueue') - 1) : codeQueue'[i] # RequestGC
      <3> HIDE DEF n
      <3>1. Len(codeQueue') - 1 = n
        BY <1>3
      <3> QED BY <1>2, <1>3, <3>1 DEF Quiet, NotIn
    <2>2. codeQueue'[Len(codeQueue')] = RequestGC
      BY <1>3
    <2>3. emulator' # "proceeding" /\ NotIn(ProceedWithGC, compileQueue')
      BY <1>1, <1>2 DEF Quiet, NotIn
    <2> QED BY <1>3, <2>1, <2>2, <2>3 DEF Asking
  <1> QED BY <1>1, <1>4, <1>5 DEF Protocol

\* With the permission taken nothing of the old generation is left anywhere.
LEMMA ProtocolAwait ==
  ASSUME TypeOK, Protocol, Await PROVE Protocol'
  <1>1. /\ compiler = "waiting" /\ compileQueue # <<>>
        /\ compileQueue' = Tail(compileQueue) /\ compileQueue \in Seq(CompileMessages)
        /\ UNCHANGED <<emulatorVars, codeQueue, compiled>>
    BY DEF Await, TypeOK, CompilerType
  <1>2. CASE Head(compileQueue) = ProceedWithGC
    <2>1. compiler' = "idle" /\ generation' = 1 - generation
      BY <1>2 DEF Await
    <2>2. Head(compileQueue) = compileQueue[1] /\ 1 \in DOMAIN compileQueue
      BY <1>1, Taken
    <2>3. Granted /\ emulator # "proceeding"
      BY <1>1, <1>2, <2>2 DEF Protocol, Asking, Granted, NotIn
    <2>4. Once(ProceedWithGC, compileQueue)
      BY <2>3 DEF Granted
    <2>5. NotIn(ProceedWithGC, compileQueue')
      BY <1>1, <1>2, <2>4, NotInTaken
    <2>6. DOMAIN codeQueue' = {} /\ DOMAIN blocks' = {} /\ running' = NoBlock
      BY <1>1, <2>3, 1..0 = {} DEF Granted
    <2>7. compiled' = NoBlock
      BY <1>1 DEF TypeOK, CompilerType
    <2>8. Current'
      BY <2>6, <2>7 DEF Current, NoDanglingCode
    <2>9. Quiet'
      BY <1>1, <2>3, <2>5, <2>6 DEF Quiet, NotIn
    <2> QED BY <1>1, <2>1, <2>8, <2>9 DEF Protocol
  <1>3. CASE Head(compileQueue) # ProceedWithGC
    <2>1. compiler' = compiler /\ generation' = generation
      BY <1>3 DEF Await
    <2>2. Current'
      BY <1>1, <2>1 DEF Protocol, Current, NoDanglingCode
    <2>3. /\ NotIn(ProceedWithGC, compileQueue) => NotIn(ProceedWithGC, compileQueue')
          /\ Once(ProceedWithGC, compileQueue) => Once(ProceedWithGC, compileQueue')
      BY <1>1, <1>3, NotInTaken
    <2>4. /\ Asking => Asking'
          /\ Granted => Granted'
      BY <1>1, <2>3 DEF Asking, Granted
    <2>5. Asking' \/ Granted'
      BY <1>1, <2>4 DEF Protocol
    <2> QED BY <1>1, <2>1, <2>2, <2>5 DEF Protocol
  <1> QED BY <1>2, <1>3

LEMMA ProtocolInit == Init => Protocol
  <1> SUFFICES ASSUME Init PROVE Protocol
    OBVIOUS
  <1>1. DOMAIN blocks = {} /\ DOMAIN codeQueue = {} /\ DOMAIN compileQueue = {}
    BY 1..0 = {} DEF Init
  <1>2. Current
    BY <1>1 DEF Init, Current, NoDanglingCode
  <1>3. Quiet
    BY <1>1 DEF Init, Quiet, NotIn
  <1> QED BY <1>2, <1>3, Kinds DEF Init, Protocol

LEMMA ProtocolNext == TypeOK /\ Protocol /\ [Next]_vars => Protocol'
  <1> SUFFICES ASSUME TypeOK, Protocol, [Next]_vars PROVE Protocol'
    OBVIOUS
  <1>1. CASE UNCHANGED vars
    BY <1>1 DEF Protocol, Current, NoDanglingCode, Asking, Granted, Quiet, NotIn, Once
  <1>2. CASE Emulator
    BY <1>2, ProtocolReceiveBlock, ProtocolReceiveRequest, ProtocolSends, ProtocolLookup,
       ProtocolExecute DEF Emulator
  <1>3. CASE Compiler
    BY <1>3, ProtocolCompile, ProtocolPost, ProtocolDrain, ProtocolRequest, ProtocolAwait
       DEF Compiler
  <1> QED BY <1>1, <1>2, <1>3 DEF Next

\* No block that can still run, in the cache or on the emulator's stack, was
\* made by a compiler that has been dropped with its code memory.
THEOREM NoCodeDangles == Spec => []NoDanglingCode
  <1>1. Protocol => NoDanglingCode
    BY DEF Protocol, Current
  <1> QED BY <1>1, ProtocolInit, ProtocolNext, BlocksTypeCorrect, PTL DEF Spec

-----------------------------------------------------------------------------
(* Room in the channels.                                                   *)

\* The emulator only asks when nothing is left for it to receive.  From then
\* until its request is sent every answer made room for it in the other
\* channel, but for the one the compiler may have been working on.
Room ==
    emulator = "sending" =>
        /\ compiler = "posting" => Len(compileQueue) + Len(codeQueue) <= CompileRoom
        /\ compiler = "idle" => Len(compileQueue) + Len(codeQueue) <= CompileRoom + 1
        /\ compiler = "requesting" => codeQueue = <<>> \/ compileQueue = <<>>

LEMMA Lengths ==
  ASSUME TypeOK
  PROVE  /\ Len(compileQueue) \in Nat /\ Len(compileQueue) <= CompileRoom
         /\ Len(codeQueue) \in Nat /\ Len(codeQueue) <= CodeRoom
         /\ Len(<<>>) = 0 /\ CompileRoom \in Nat \ {0} /\ CodeRoom \in Nat \ {0}
  BY LenProperties, EmptySeq DEF TypeOK, CompilerType

\* The emulator asks on empty hands.
LEMMA RoomLookup ==
  ASSUME TypeOK, NEW pc \in PCs, Lookup(pc) PROVE Room'
  <1>1. codeQueue' = <<>> /\ Len(compileQueue') = Len(compileQueue)
    BY DEF Lookup
  <1> DEFINE m == Len(compileQueue')
             n == Len(codeQueue')
  <1>2. m \in Nat /\ m <= CompileRoom /\ n = 0 /\ CompileRoom \in Nat
    BY <1>1, Lengths
  <1> HIDE DEF m, n
  <1>3. m + n <= CompileRoom /\ m + n <= CompileRoom + 1
    BY <1>2
  <1> QED BY <1>1, <1>3 DEF Room, m, n

LEMMA RoomCompiler ==
  ASSUME TypeOK, Protocol, Room, Compiler PROVE Room'
  <1> SUFFICES ASSUME emulator = "sending" PROVE Room'
    <2>1. emulator' = emulator
      BY DEF Compiler, Compile, Post, Drain, Request, Await
    <2> QED BY <2>1 DEF Room
  <1> DEFINE m == Len(compileQueue)
             n == Len(codeQueue)
  <1>1. m \in Nat /\ n \in Nat /\ m <= CompileRoom /\ CompileRoom \in Nat
    BY Lengths
  <1>2. compileQueue \in Seq(CompileMessages)
        /\ codeQueue \in Seq(BlockRecords \cup {RequestGC})
    BY DEF TypeOK, CompilerType
  <1>3. CASE Compile
    <2>1. /\ compiler = "idle" /\ compiler' = "posting" /\ codeQueue' = codeQueue
          /\ compileQueue # <<>> /\ compileQueue' = Tail(compileQueue)
      BY <1>3 DEF Compile
    <2>2. m + n <= CompileRoom + 1
      BY <2>1 DEF Room
    <2>3. Len(compileQueue') = m - 1
      BY <1>2, <2>1, Taken
    <2>4. Len(codeQueue') = n
      BY <2>1
    <2> HIDE DEF m, n
    <2>5. Len(compileQueue') + Len(codeQueue') <= CompileRoom
      BY <1>1, <2>2, <2>3, <2>4
    <2> QED BY <2>1, <2>5 DEF Room
  <1>4. CASE Post
    <2>1. /\ compiler = "posting" /\ compiler' = "idle" /\ compileQueue' = compileQueue
          /\ codeQueue' = Append(codeQueue, compiled)
      BY <1>4 DEF Post
    <2>2. m + n <= CompileRoom
      BY <2>1 DEF Room
    <2>3. Len(codeQueue') = n + 1
      <3>1. compiled \in BlockRecords \cup {RequestGC}
        BY <2>1 DEF TypeOK, CompilerType
      <3> QED BY <1>2, <2>1, <3>1, Added
    <2>4. Len(compileQueue') = m
      BY <2>1
    <2> HIDE DEF m, n
    <2>5. Len(compileQueue') + Len(codeQueue') <= CompileRoom + 1
      BY <1>1, <2>2, <2>3, <2>4
    <2> QED BY <2>1, <2>5 DEF Room
  <1>5. CASE Drain
    BY <1>5 DEF Drain, Room
  <1>6. CASE Request
    BY <1>6 DEF Request, Room
  <1>7. CASE Await
    <2>1. compiler = "waiting" /\ codeQueue' = codeQueue
          /\ compileQueue # <<>> /\ compileQueue' = Tail(compileQueue)
      BY <1>7 DEF Await
    <2>2. CASE compiler' = "waiting"
      BY <2>2 DEF Room
    <2>3. CASE compiler' # "waiting"
      <3>1. Head(compileQueue) = ProceedWithGC /\ compiler' = "idle"
        BY <1>7, <2>1, <2>3 DEF Await
      <3>2. Head(compileQueue) = compileQueue[1] /\ 1 \in DOMAIN compileQueue
        BY <1>2, <2>1, Taken
      <3>3. codeQueue = <<>>
        BY <2>1, <3>1, <3>2 DEF Protocol, Asking, Granted, NotIn
      <3>4. Len(codeQueue') = 0
        BY <2>1, <3>3
      <3>5. Len(compileQueue') = m - 1
        BY <1>2, <2>1, Taken
      <3> HIDE DEF m, n
      <3>6. Len(compileQueue') + Len(codeQueue') <= CompileRoom + 1
        BY <1>1, <3>4, <3>5
      <3> QED BY <3>1, <3>6 DEF Room
    <2> QED BY <2>2, <2>3
  <1> QED BY <1>3, <1>4, <1>5, <1>6, <1>7 DEF Compiler

LEMMA RoomNext == TypeOK /\ Protocol /\ Room /\ [Next]_vars => Room'
  <1> SUFFICES ASSUME TypeOK, Protocol, Room, [Next]_vars PROVE Room'
    OBVIOUS
  <1>1. CASE UNCHANGED vars
    BY <1>1 DEF Room
  <1>2. CASE ReceiveBlock \/ ReceiveRequestGC \/ SendProceed \/ SendCompile \/ Execute
    <2>1. emulator' # "sending"
      BY <1>2 DEF ReceiveBlock, ReceiveRequestGC, SendProceed, SendCompile, Send, Execute
    <2> QED BY <2>1 DEF Room
  <1> QED BY <1>1, <1>2, RoomLookup, RoomCompiler DEF Next, Emulator

\* The two threads never block on full channels at once, whatever the
\* capacities of the channels.
THEOREM ChannelsHaveRoom == Spec => []SomeChannelHasRoom
  <1>1. Init => Protocol /\ Room
    <2> SUFFICES ASSUME Init PROVE Protocol /\ Room
      OBVIOUS
    <2>1. Room
      BY DEF Init, Room
    <2> QED BY <2>1, ProtocolInit
  <1>2. TypeOK /\ Protocol /\ Room => SomeChannelHasRoom
    <2> SUFFICES ASSUME TypeOK, Protocol, Room,
                        emulator \in {"proceeding", "sending"}, Len(compileQueue) = CompileRoom,
                        compiler \in {"posting", "requesting"}, Len(codeQueue) = CodeRoom
                 PROVE  FALSE
      BY DEF SomeChannelHasRoom
    <2>1. emulator = "sending"
      BY DEF Protocol, Quiet
    <2>2. CASE compiler = "posting"
      BY <2>1, <2>2, Lengths DEF Room
    <2>3. CASE compiler = "requesting"
      BY <2>1, <2>3, Lengths DEF Room
    <2> QED BY <2>2, <2>3
  <1> QED BY <1>1, <1>2, ProtocolNext, RoomNext, BlocksTypeCorrect, PTL DEF Spec
=============================================================================
