# Formal models of rpsx-emu

rpsx-emu is a PlayStation emulator in Rust: a MIPS interpreter and a
recompiler, the console's devices, and a window around them. These modules
model the parts of it whose correctness depends on the order in which things
happen: device state machines driven by the guest on one side and by elapsed
time on the other, the pairs of threads that share work, and the two engines
that run the guest's code and must not be told apart. TLC checks
each model on small instances; TLAPS proves the invariants that matter most
for every value of the constants.

Paths below are relative to the repository's `src/` directory.

## 1. The system

### How it runs

One thread runs the emulator (`main.rs`, `update`). It repeats:

1. take at most **one** due event from the scheduler and handle it;
2. sample the interrupt controller and, if an interrupt is pending, enter the
   guest's exception vector;
3. receive what the compiler thread has finished (`receive_compiled_blocks`);
4. look up the block at the guest's program counter; run it, or ask for it to
   be compiled and interpret meanwhile;
5. step the drive (`CDRom::tick`) by the cycles the block took;
6. advance the scheduler's clock by them.

Three more threads do work that must not hold the emulator up: the prefetcher of
the disc cache (`cd_cache.rs`), the compiler (`dynarec.rs`) and the renderer. A
fourth, owned by the audio library, drains samples. Devices are plain structs; they interact
by calls made from guest loads and stores, by events in the scheduler's queue
and through the interrupt controller.

### Inventory

| component | state | operations | interacts with | what is hard | what makes it correct | status |
|---|---|---|---|---|---|---|
| CD-ROM controller, `cdrom.rs` | command in progress and its phase, one queued command, parameter and response FIFOs, two delays, reader state, status, mode, pending interrupt | register loads and stores, `tick` | interrupt controller, sector cache, DMA, SPU | a guest and a drive that both move it; three meeting points (acknowledge, queue, delay) | each command answered once and in order; no interrupt overwritten; nothing hangs; sectors announced | modelled |
| interrupt controller, `irq.rs` | status, its latched copy, mask | `set_*`, stores to I_STAT and I_MASK, `pending` | every device, CPU | edge triggered: the order of two acknowledgements decides | no edge lost; both copies agree | modelled |
| CD sector cache, `cd_cache.rs` | LRU cache, what to prefetch next and how much, quit flag | `read_sector`, `run_prefetcher`, `Drop` | CD-ROM controller, files | two threads, one condition variable, errors | right data, no lost wakeup, every read returns | modelled |
| block cache and compiler thread, `dynarec.rs`, `block_cache.rs` | blocks, pages and their blocks, requests in flight, channels, code memory | schedule, receive, compile, collect | main loop, fault handler | two threads on two bounded channels; code memory reclaimed while blocks may run | no freed code runs; no stale code runs; requests answered; no mutual wait | modelled, but for what a block does and how it becomes machine code |
| recompiler, `dynarec.rs` | registers held in variables, loads still pending, block index | one routine per opcode, exits, exceptions | CPU, memory | what is decided when compiling against what happens when run; delay slots | a block leaves the machine the interpreter leaves, in the same time | emitted behaviour of every instruction; not the machine code |
| fault handler, `fastmem.rs` | page protection | `protect_page`, SIGSEGV handler | block cache | runs in the middle of a block | a clean block equals memory | protection modelled, patching of accesses not |
| scheduler, `scheduler.rs` | sorted queue of at most 32 tasks, clock | schedule, unschedule, next event, advance | timers, GPU, DMA, SIO, SPU | late events, repeated events, capacity | sorted, no event twice, none starves | modelled |
| timers, `timers.rs` | three counters, modes, targets, blanking flags | loads, stores, blanking events, interrupt events | scheduler, interrupt controller | lazily updated counters, predicted interrupts | interrupts on time, no cycle lost | one counter at a time |
| DMA controller, `dma.rs` | seven channels, DPCR, DICR | stores, block, slice and list transfers | RAM and most devices | lists the guest builds in memory; a transfer turned down; the edge of the master flag | lists arrive whole and in order; no completion lost | modelled but for the slices of channels 2 to 4 |
| serial port, pads, cards, `sio.rs` | byte protocol state of pads and memory cards | stores, two events | scheduler, interrupt controller | commands broken off anywhere; which device listens | a command starts afresh, no torn write, at most one byte lost | one of two ports at a time |
| second serial port, `sio2.rs` | registers | loads, stores | none | nothing | nothing | not modelled |
| GPU, `gpu.rs` | GP0 word machine, settings, answers it waits for | GP0 and GP1 words, VRAM transfers, frames, saved states | DMA, timers, renderer | commands of variable length broken off by resets; two threads and two channels | framing never lost; every wait answered, by its own answer; both copies of the settings agree | GP0 and the channels |
| renderers, `renderer.rs`, `hw_renderer.rs`, `compute_renderer.rs`, `dummy_renderer.rs`, `presenter.rs` | pixels, triangles not yet drawn | draw, copy, fill, present | GPU | drawing later, and in batches | what is shown is what was drawn in order | when each draws and what the compute shader makes of a pixel; not rasterisation, nor the software renderer's pixels |
| motion decoder, `mdec.rs` | command, parameters, output | words in and out, resets | DMA | a format that changes while output waits; transfers longer than a command | requests agree with buffers; every output drains | modelled, without pixels |
| sound processor, `spu.rs`, `adpcm.rs` | voices, envelopes, transfer FIFO | stores, `tick` | DMA, audio, CD-ROM | arithmetic | samples | not modelled |
| audio output, `audio.rs` | bounded sample channel | push, drain | SPU, main loop | the emulator blocks on it | | not modelled |
| CPU and interpreter, `cpu.rs`, `interpreter.rs` | registers, load and branch delay, COP0 | one operation per opcode, block runner | memory, recompiler | load and branch delay, exceptions in them | the reference the recompiler is held to | modelled |
| geometry engine, `gte.rs` | matrices, flags | fixed-point operations | CPU | saturation | arithmetic | not modelled |
| memory map, `system.rs`, `ram.rs`, `scratchpad.rs`, `bios.rs` | arrays, cache control | loads, stores | everything | address decoding | each address one owner | not modelled |
| save states, `save_state.rs` | everything, on disk | save, load | everything | what is not saved has to be rebuilt | a load leaves nothing stale | its effect on the GPU and renderer |
| frontend, `main.rs` | window, input, menus | frame loop | everything | none of its own | see the components | through the components |
| disc images, `cue.rs`, `iso9660.rs` | track table | parse | CD-ROM | none | parsing | not modelled |
| XA audio, `cdrom_xa.rs`, `cdxa.rs` | decoder history | decode | CD-ROM, SPU | none | arithmetic | filter flag only |
| retired CPU, `cpu_mine.rs` | | | | | | not compiled |

`PROJECT.json` lists the same components and, line by line, the hazards each
property is aimed at. Hazards without a property carry the reason.

## 2. The modules

| module | role |
|---|---|
| `Irq` | the interrupt controller as operators on its register file |
| `CdTypes`, `CdProtocol` | the commands; what the drive promises a guest, with no disc, no FIFO and no timing |
| `CdRom` | the drive: guest register accesses and `tick` |
| `CdRomHost` | the drive, the interrupt controller and a guest with an interrupt handler |
| `CdDisc`, `CdCache` | a disc that simply answers; the two threads and the cache that implement it |
| `Blocks` | emulator thread and compiler thread, channels, block cache, page protection |
| `Scheduler` | the event queue as operators |
| `Timers` | one root counter on the event queue, with the main loop's rounds |
| `Mips` | decoding and arithmetic of words, for both engines |
| `Interpreter`, `Recompiler` | what an instruction does interpreted; what the code compiled for it does |
| `Cpu` | one block run by both engines from the same registers |
| `Mdec`, `Dma` | the motion decoder as operators; the DMA controller with decoder, ordering table and interrupts |
| `Sio` | the serial port with the pads and cards behind it |
| `Gp0Commands`, `Gpu` | the table of GP0 commands; the GPU, the channels and the renderer's message loop |
| `Renderers` | the compute renderer, which runs by default, and the hardware renderer, given the same messages |
| `CdRomProofs`, `BlocksProofs`, `TimersProofs`, `CpuProofs`, `DmaProofs`, `SioProofs`, `GpuProofs`, `RenderersProofs` | theorems, each about the component it is named for; `CdRomProofs` also about `CdRomHost` and `CdCache` |
| `MCCdRom`, `MCCdDrive`, `MCCdRomHost`, `MCCdCache`, `MCBlocks`, `MCTimers`, `MCCpu`, `MCDma`, `MCSio`, `MCGpu`, `MCRenderers` | the instances TLC checks |

Definitions commented "Mutant" are not part of any specification: each is a
plausible mistake in the definition that follows it, kept so that every
property can be seen to fail on some mistake (`PROJECT.json`, "mutants").

### CdRom

Variables are the fields of `CDRom`. Bit fields are sets of bits, `Option`s use
a distinguished value, and the response FIFO holds one tag per response instead
of its bytes (`results`), which is what tells an answer from a mixture of two.
The guest's actions are `WriteCommand` (`exec_command`), `WriteParam`,
`AckInterrupt` (`ack_interrupt`, including the command it takes out of the
queue and may answer at once), `WriteIrqMask`, `ReadResult`, `ReadData` and
`StoreIrqCtl`. The drive's are `TickCommand` (`step_command` and every
`cmd_*` response) and `TickStream` (`step_reading`, `step_playing`,
`advance_sector`). `panic` holds the reason when a step would panic; nothing
happens after that.

Abstractions:

- Delays are armed or not. `tick` counts the command delay first and the read
  delay only when no command delay runs, so exactly one of them counts at a time
  and their lengths never decide which fires.
- Bytes of data, samples and volumes are not kept. A sector is its number.
- The INT5 branch of `advance_sector` that reports a failed seek tests the same
  predicate as the validity test around it, so it cannot be taken and is not an
  action.
- `FifoSize` is 16 and `ReportFrames` 10 in the code; the runs shrink them.

### CdRomHost

Adds a guest that behaves like driver code: it takes the exception when
`pending` holds, acknowledges I_STAT, reads the response, acknowledges the
drive and returns. `HostInit` is the state boot code leaves: the drive's
interrupts enabled in both masks. `StatFirst = FALSE` is the other order of
acknowledgements, which loses edges because the controller is edge triggered.

### CdCache

Both threads work under one mutex and give it up only in `Condvar::wait` or at
the end of an iteration, so each stretch under the lock is one action:
`BeginRead` and `ResumeRead` (the loop of `read_sector`), `Quit`, `Sleep`,
`Skip`, `Fetch` and `FetchFails` (`run_prefetcher`), and `DropCache`. Condition variables may wake spuriously
and `notify_one` is lost on a thread that is not waiting. An I/O error is the
death of the prefetcher (its `expect`s panic with the mutex held). The LRU order
is an age per sector. `Stride` is what the code adds to the next sector
(`0x930`, the size of a sector in bytes, not 1): the properties hold for every
stride, only the usefulness of readahead depends on it. `Capacity` is at least
`Readahead`, as the two constants in the code are.

### Blocks

The emulator alternates between receiving, looking up a block and executing;
`Send` and `Post` block on a full channel as crossbeam's `send` does. `Parse`
ends a block after the delay slot of its first jump or at `BlockLen`.
`Execute` is a block or an interpreted stretch; of what it does only one
store matters here, guarded (through the mapping at `0x10000`: interpreter,
DMA, KUSEG, a loaded state) or unguarded (through KSEG0 and KSEG1, when
`Unprotected`). Several stores in one block are several executions; a block
that stores into itself is among the behaviours because the block keeps running
from its copy. `generation` names the `Compiler` object modulo two, which is enough
because a block can at most be one `Compiler` behind: the third one would only
exist after another collection, which empties the cache again. BIOS code is never written and is left
out. A pc whose block would run over the end of memory panics in the code and is
excluded by `Fits`.

### Scheduler and Timers

Due times are relative to the clock, so the clock itself, which grows for ever,
disappears. A round of the main loop is one event at most (`Handle`), any
number of loads and stores, and `EndBlock`, after which time advances. Accesses
within a block see the same clock because the scheduler advances only after it.
One counter is modelled at a time (`Which`); all sync modes and clock sources
are in the model, the run exercises those of its `MCModes`. `overran` is kept for
`TargetOnTime` and notes a prediction made from a counter stored beyond its period,
which underflows in the code's 32 bits. Left out: the flags that report what the counter reached
(nothing but the guest reads them), the request to the interrupt controller,
and the events of other devices, which would only make these later.

### Mips, Interpreter, Recompiler and Cpu

A word has four bytes, as in the code, but a byte has `ByteBits` bits: every
lane, carry and sign exists in a few bits. Both engines are operators on a
machine. `Interpreter` has one definition per `op_*` function and `RunNext`,
which fetches through the branch and load delay as `run_next_instruction` does.
`Recompiler` does not model machine code: it runs what `compile_block` emits,
following the order of compilation for what is decided then (the registers a
block loads and saves, the load known to be pending, the index) and the path
taken for what is decided at run time (a load pending at the entry, branches,
exceptions). Each `compile_*` routine is one definition.

`Cpu` starts at the boundary where `update` chooses an engine, enters the block
with both and gives both the same instruction, chosen from `Code(i)` and, in a
delay slot, `Slot(i)`. `count` is what the interpreter reports as cycles. Where the two are
known to differ, each time because of one line of the source, the step is noted
in `odd` and the comparison ends there. `BlocksAgree` says there is no difference
without such a note, `PartingsConfined` that with one the difference is limited to
what the line accounts for. The notes are the result of the comparison, not its
premise: each was found by a run, or by a proof that did not go through, without
it, and section 6 lists them.
The assumptions say what a program and the registers are: `IsInstruction` (registers in the
places for registers, shifts and immediates as wide as their fields, the registers of
coprocessor 0 on which the code does not panic), `StartsAssumption` (words, register 0 zero,
a pending load of a register), `CpuAssumption` (a byte has at least two bits, registers 0
and 31 exist).
Jumps in delay slots and the breakpoint registers make the code panic and are
left out; so are the segments of addresses, device registers and the GTE's
arithmetic (`GteCommand` is a parameter).

### Mdec and Dma

`Mdec` returns the decoder's next state for a word written, a word read and a
store to its control register. An input word is two halfwords, each a run of
zeroes or the end of a block; `DecodeMacroblocks` counts the whole macroblocks a
transfer holds as `rle_decode_block` does, padding and end of input included. `Dma` runs
a transfer whole inside the store that starts it, as `start` does. The ordering
table is the list `otc` writes; `linked` and `bottom` are kept for the property
and record what the guest linked to an entry and where clearing began. Channels
2, 3 and 4 hand words to devices in slices; their completion and interrupts are
there, the words are not. DICR has six bits of masks and flags (`IrqPort`), because the
code's accessors keep six: the end of channel 6 never interrupts.

### Sio

One store to the transmit register exchanges one byte with the device it
selects, as `try_send_data` does; the acknowledge and the interrupt are events
counted in `offs` and `sends`, which may be handled at any moment afterwards. The
controls the guest stores select, deselect and reset. `sent`, `heard` and
`missed` are kept for the properties: what a card was sent and answered since
it was selected and how many first bytes in a row found nobody. Left out: the
mode and baud registers, the bits of a button, and saving a dirty card to its file.

### Gp0Commands and Gpu

`GP0_COMMANDS` is the code's table of 256 entries; of a handler it keeps how
many words it indexes and what it tells the renderer. `Gpu` is GP0's machine:
`mode`, `remaining`, the words collected (`len`), polylines of any length,
images in both directions; GP1's two resets; the frame, which blocks for its
answer or, when all of VRAM is shown, does not take it; saving, which
reads VRAM back; and loading, which puts another Gpu beside the renderer. The
renderer's thread takes a message, keeps its copy of the drawing area and masks
and answers questions. Both channels hold `Capacity`, and a send to a full one
blocks. An image has a width and a height, because the Gpu and the renderers count its words
differently: the Gpu counts the halfwords of the whole image (`WordsOf`), and so does
the software renderer's answer; the compute renderer and the hardware renderer fill up every row to
a whole word, and answer nothing for an image whose corner is outside VRAM
(`AnswerWords`). `Renderer` says which of them runs. `ReadsAreServed` says that a read never goes past the data
and that the data has more than is read only for such an image (`Skewed`). `behind` names the settings a reset or a loaded state changed without a message;
`FullFrames` bounds the unanswered frames: in the code each leaves one answer
in the channel for ever, and when they fill it the renderer blocks on its next
answer and soon the emulator on the renderer. Left out: GP1's other registers,
the status word, the timing of lines, the words of a texture.

### Renderers

Both get the same messages. `picture` is the specification: VRAM had every
message been drawn when it came. A pixel is what the compute shader makes of it
(`Shaded`), so the specification is the compute renderer without its buffer, and the question is
whether drawing late can be told from drawing at once. The renderer's `texture` is VRAM without
the triangles in `vertices` not drawn yet; `Flush` draws them, clipped to the drawing
area of that moment. The hardware renderer's
`batches` are closed by a change of blending, area or masks, or when `Room`
is used up, and dropped when drawn at the end of a frame. A triangle covers one
cell, and its texture is one too; a rectangle is two triangles, a polygon one or two. A
polygon without a texture that is to be blended is blended as page 0 says (`PolygonBlending`).
`DrawLine` changes nothing, because neither of the two draws lines.
The software renderer is not part of the model: it draws at once, so it has nothing to get out
of order, and its pixels are others (section 6).

Left out: edges and coverage, texture formats, shading and dithering; the pixels of
the batches, and what a batch looks like beside the copies and fills of its
frame, which the hardware renderer does at once; images of which a part is outside VRAM (`fits`)
otherwise than dropped; drawing areas whose bottom is above their top, whose height `flush` would
compute below zero (`compute_renderer.rs:482`). A triangle whose texture is
drawn over within the same flush is left out by `Apart`: the shader draws cell by cell, in
no order between cells, so what it reads there is undefined.

## 3. The runs

| run | instance | what it shows |
|---|---|---|
| `cd_drive` | two tracks, one XA sector, 3-byte FIFO; five guests, each with a vocabulary of three or four commands that share state | eight commands, those of a vocabulary in any order, queued or not, acknowledged wholly or in part, past the end of the disc: `NoInterruptOverwritten`, `QueuedCommandHasWaker`, `SectorsAreAnnounced`, `TypeOK`, and that the drive implements `CdProtocol` |
| `cd_errors` | no disc, ten commands including an unknown one, wrong parameters, changing masks | refused commands take every error path; `IrqRegistersAgree` |
| `cd_guest` | two tracks, five commands | with a handler that acknowledges in the right order: `NoLostEdge`, `CommandsFinish`, `QueuedCommandsStart` |
| `cd_cache` | eight sectors in two tracks with a pregap, six of them asked for, one beyond the end; capacity and readahead 3, stride 2 | every interleaving with spurious wakeups, an I/O error and the drop: data, requests, wakeups, `ReadsReturn`, and that the cache implements `CdDisc` |
| `blocks` | channels of one message, three pcs of which two share a cache entry, code memory for two blocks, two words in two pages | no freed and no stale code, no mutual wait, every request answered, every collection ends |
| `timers` | counter 0 up to 2, lines of 3 and frames of 5 cycles, blocks of 2, three stored modes besides the one after reset | `QueueSound`, `TargetOnTime`, and that every repeating event recurs |
| `cpu_block` | bytes of two bits; every operation first in a block and after any other, every operation but a jump in the first delay slot; a pending load of each register or none; overflow, sign and alignment in the values | `BlocksAgree`, `CyclesAgree`, `PartingsConfined` |
| `dma` | a guest that draws, with interrupts, from a table of three entries with two packets beside another channel, or one that decodes a frame of six blocks by both channels and by hand | `DrawOrder`, `MasterRaisesEdge`, `RequestsAgree`, `OutputsDrain` |
| `sio` | a pad and a card of two sectors of two bytes; the bytes that mean something to them and one that does not | `ReadsAreTrue`, `WritesAreWhole`, `OneMissAtMost` |
| `gpu_commands` | the compute renderer; one opcode of every kind of handling; images of two columns, of one column in two rows, and with their corner outside VRAM; channels of two messages, one frame of all VRAM | `HandlersHaveTheirWords`, `AnswersMatch`, `ReadsAreServed`, `RendererFollows`, `WaitsEnd`; the assumption `TableFits` of `Gpu` runs over all 256 entries of the table |
| `gpu_renderers` | two cells, two areas, masks off or on, two blendings besides that of page 0, textures from either cell or none, fills of two colours, room for three triangles | `ComputeKeepsUp`, `ShownAsDrawn`, `BatchesAreTrue` |

One more run states what a comment in the code says and finds that the code does
otherwise:

| run | property | finding |
|---|---|---|
| `blocks_stale` | `WatchedCodeIsFresh` | stores of recompiled code through KSEG0 and KSEG1 bypass the page protection, so a clean block no longer equals memory |

### Bounds, and why they are enough

- **Drive.** A disc of five sectors has a first sector, a track boundary, a
  pregap, an XA sector, a last sector and one beyond. One slot of queue is all
  there is. The vocabulary is split by what shares state: the target of Setloc
  (Setloc, Seek, Read, Pause, Stop), the stream (Read, Play, Setmode, Pause, Stop) and what
  resets both (Init); errors share nothing but the command path. I_MASK, which boot code
  has stored, tells the five guests of `cd_drive` apart, and the constraint `KeepsTo`
  follows each only within its vocabulary; what an order of commands from two vocabularies
  does is left to the theorems, which hold for every guest. Runs stop where the modelled process panics, so
  deadlock is not checked there; the liveness run plays its part.
- **Cache.** Capacity 3 with readahead 3 is the tightest relation the code's
  constants allow, where an eviction too many would hit the wanted sector;
  stride 2 makes readahead of different requests meet.
- **Blocks.** Channels of one message block at every chance; three pcs are the
  fewest that fill both and leave one to send, two of them are aliases, and two
  blocks fill the code memory so that collections happen again and again. A
  block is one word, or two when it begins with a jump: it then overlaps the other and
  runs on into a page it is not registered in. Larger memories and blocks are what
  the theorems are for.
- **Timers.** `Top` is 2 so that the counter wraps within a line; `Word` (2^32 in
  the code) is 64, larger than any sum that does not underflow. Blocks of 2
  cycles against periods 3 and 5 make several events overdue at once: lateness
  comes from handling one per round. `ElapsedBound` stops a block from ending
  later than 20 cycles after the last update, far beyond the 3 cycles between
  two blanks that update the counter. It never cuts a behaviour off: a guest whose
  block could not end would be stuck there, against `EventsRecur`. `HBlankBound` caps a count that counter 0 never uses.

- **Cpu.** The compiled code depends on an instruction's place only through the
  first place (a load may be pending from outside), the one before (a load known
  to be pending) and the end of the block: three places cover them. Two bits a byte
  distinguish the lanes, and the values chosen overflow, compare and misalign
  both ways. Wider bytes, other programs and later places are what the theorems are for.
- **Dma.** Three entries make a walk from the middle and a table cleared in
  part; two packets order within an entry and between entries. The guest that draws and
  the one that decodes are kept apart by the constraint `KeepsTo`, as nothing but DPCR and DICR is
  common to their channels; only the first takes interrupts. The frame holds a
  block of each shape: ended, padded, and cut off by the end of the input. `ParamWrap` (2^16) shrinks
  to 8, more than the longest command.
- **Sio.** A transfer is two bytes long, so that one can be half done; the FIFO is
  bounded to one byte, as the guest does not wait for it. An event scheduled again replaces
  itself, as in the scheduler, so there is one of each at most. Of the orders of the guest's
  reads and the two events the constraint `TakesInOrder` keeps the usual one, and the one where the
  next byte is sent before any of them; no property depends on the others, and the theorems hold for all.
- **Gpu.** Two messages of capacity make the emulator run ahead of the renderer
  and block; two areas and two mask values tell a stale copy from a fresh one; of the
  images one has the words that are counted, one more, one none, and they end at once or later. `FullFrames` is 1: after one such frame `AnswersMatch`
  states how far answers and questions are apart, and nothing new happens with more until the channel is full.
- **Renderers.** Two cells are a source and a target of a copy, a triangle and its
  texture, inside and outside an area; three triangles overflow both buffers. "subtract" does not commute with
  the average of page 0, so the order of triangles shows. `MaxTriangles` bounds a frame.

Deadlock is checked for the blocks, the timers, the DMA controller, the serial
port and the GPU, which may never stop.

### Fairness

- `CdRomHost`: weak fairness of `DriveTick`, because `tick` runs after every
  block, and of the handler, because it is code the CPU executes once entered.
  The main program owes nothing: it need not issue any command.
- `CdCache`: weak fairness of the prefetcher and of a woken reader; both are
  threads the operating system runs. Nothing obliges the emulator to read, the
  cache to be dropped, or a wait to return spuriously. An I/O error may happen
  and `ReadsReturn` says what then still holds: the code does hang after it.
- `Blocks`: weak fairness of each thread as a whole, not of any particular
  action of it. Which code the guest runs is unconstrained.
- `Gpu`: weak fairness of `RendererStep`, the thread that receives in a loop, and
  of a wait that is answered. The emulator need not send anything.
- `Timers`: weak fairness of `Handle` and `EndBlock`: the main loop goes on and
  a guest's block ends.

## 4. The proofs

Every safety property, action property and refinement that a passing run checks is a
theorem for every value of the constants; only liveness is left to TLC, listed at the end. The
constants' assumptions are the named `ASSUME`s of the modules: a drive has
at least one track, a FIFO some room; the cache holds at least the readahead;
channels, code memory and pages are not empty; what the guest stores has the fields of
the register it is stored to; a program consists of instructions. Nothing else is assumed, but for what is said below.

Where a definition is recursive (a transfer, a walk along a list, the triangles flushed,
the sum of a sector, the queue without an event) it is a recursive function, and the proofs
carry their own induction: `Induction` says that a set of numbers that holds zero and
with each number the next one holds them all, from the well-foundedness of the naturals. From
it follows first that the recursive function exists (`CourseExists` and its likes), then what it computes.

**Drive** (`CdRomProofs`, parts one and two). The inductive invariant is `IInv`:
types, `CommandIsArmed`, `QueuedCommandHasWaker` and `UnreachableArms` together.
They support each other: that a step of the drive leaves a queued command its
waker needs the phase `CommandIsArmed` ties to the command, and that no arm is
unreachable needs the types of phase, command and reader. From it follow `TypeCorrect`, `Armed`,
`QueuedHasWaker` and `NoUnreachableArm`; `IdleShows` needs one more induction, on
the stream. `InterruptsKept` and `SectorsAnnounced` are action properties, proved
action by action. `Refinement` shows that every step of the drive is a step
of `CdProtocol` or leaves it as it is, under the mapping of `cmd_state` to the
phase: for every disc and every guest each command is answered once, in order,
with nothing in between.

**Cache** (`CdRomProofs`, part four). `CacheInv` joins the types, `CacheMatchesDisc`,
`RequestNotForgotten`, `NoLostWakeup`, `WantedIsKnown` (only an idle reader
wants nothing, and nobody reads a dropped cache) and `WantedIsYoung`: the age of
the wanted sector plus what is left of its readahead stays below the readahead.
Without the last one the prefetcher could evict the sector before the reader
has woken up; with it, `Capacity >= Readahead` rules that out. `CacheRefines` is the
refinement of `CdDisc`.

**Blocks** (`BlocksProofs`), one induction per concern, each on top of the types:

- `Watched`: every page of a clean block is protected and lists the block.
  Without it a store could miss a block; with it `WatchedCodeIsFresh` follows
  for every memory, page size and interleaving, as long as `Unprotected` is
  false. The run `blocks_stale` shows that the premise is needed.
- `Protocol`: follows the request for a collection, its receipt and the single
  permission through both channels; between request and receipt the compiler
  makes nothing, and after the receipt nothing of the old code remains.
- `Room`: an emulator that asks for a block has just emptied the channel of
  answers, so every answer that arrives before its request is sent has made room
  in the channel of requests, but for the one the compiler was working on.
  `SomeChannelHasRoom` alone says nothing about the steps on the way to two full
  channels.

**Interrupts** (`CdRomProofs`, part three). `IrqAgree`: the two copies of I_STAT agree,
because every step either leaves the controller alone, raises one source in both,
or stores to both. `EdgesKept` rests on `EdgeInv`: unless the handler stands
between its two acknowledgements, an unacknowledged interrupt of the drive is in
the sampled register. It needs the agreement, since the acknowledgement
is made on one copy and the sampling on the other, and the premise `StatFirst`.

**Queue and timers** (`TimersProofs`). First the queue, whatever is in it: `Unscheduled`
(what is left is in order, without the event, and nothing else is gone), `Inserted`,
`Scheduled`, `Taken` and `Advanced`; `Room` counts the events. `QueueStaysSound` needs in
addition that a blanking interval's task repeats, or it would be gone after it was handled
(`SoundQueue`), and the width of the counter, since what is predicted from it is queued.
`TargetsAreOnTime` rests on `OnTime`, which says of a task what the property says of
the moment it falls due: counter, cycles since its update and time to go add up to
the target, some periods later. It has to hold while the counter waits for the
end of a blank as well (`Armed`), as that end frees it without a new prediction but in counter 0.
Each update takes whole periods off the counter (`Reduced`), and only the target itself is
left below a period (`Unique`).

**Two engines** (`CpuProofs`). `EnginesAgree`, `TimesAgree` and `PartingsAreConfined`, for
every width of a byte, set of registers, program, length of a block and machine at its entry. The
arithmetic comes first, because the provers know nothing of powers: `Powers` and
`PowersMultiply` of the table of powers, then `Lanes` (where a byte or halfword stands
in a word), `WrapTwice` and `SignedWord` (sums, signs), `BitsWord` and `LogicWord` (bits), `JoinLow` and
`JoinHigh` (lwl, lwr and their stores), `ProductHalves` and `QuotientFits` (multiplication, division),
each of which says that a result is a word. The simulation relation is `Same`: equal registers,
coprocessors and memory, where a variable the block has not loaded stands for what is in the Registers.
The pending load is what makes it hard, as the interpreter keeps it in a
field and the compiler in what it knows at compile time. `Ready` gives its three
forms: `Fresh`, the one the block was entered with; `InFlight`, one the compiler knows;
`Empty`. `Held` says how an instruction leaves it. `Deliver` and `SetSame` handle the delivery,
which the interpreter does after an instruction and the compiled code before it, and there are two lemmas for each
kind of instruction, what it does interpreted (`ExecuteAdd`, ...) and that the compiled code does the same (`AddSteps`, ...). They
meet in `Instruction`: an instruction that is no jump has either run in both engines
(`Ran`) or raised its exception in both, with a difference of at most `Parting`. Above
it the steps of `Cpu`: `StraightGoes`, `TrapGoes`, `JumpGoes`, `NotTakenGoes`, `LimitEnds`. A jump takes its delay slot along:
`Jumped` is the state between the two, where a link may be written in one engine and not
yet in the other, `SlotRuns` is `Instruction` in that state and `SlotEnds` and `JalEnds` bring both to the target. The inductive
invariant `Inv` is the relation at the boundary, within the block (`InStep`, and the
instruction after a branch not taken) and at its end; the three properties
follow from its last part.

**DMA** (`DmaProofs`). `EdgeRaised` rests on `IrqInv`, the types of DICR and of the
interrupt controller and the agreement of its copies. A transfer either does nothing
or first moves data, which touches neither, and then ends: the lemmas
`MdecTransfers`, `GpuTransfers`, `OtcTransfers` and `SlicesTransfer` say so of each
channel, and `CompleteReaches` that an end which puts the master flag up has left the
line pending. `RequestsFollow` carries `Good` of the decoder through every word (`ParameterIsGood`,
`ReadIsGood`) and every transfer (`FedIsGood`, `ReadTimes`): the position is within an output that stands,
a busy decoder has a command or an output, and both requests say so. `OutputsAreRead` says a
reader comes to an end because what is `Left` to read, three for each place of the output less
the ones of a group already read, shrinks with every word. `PacketsInOrder` rests on `ListInv`: entries
are empty and packets are not, each leads to the next of its entry or to the entry below, and no packet
hangs twice. A walk then meets what `Expected` lists (`WalkIsExpected`), and is not cut short, because
what hangs in the table are different addresses and the bound of the walk is the number of addresses
(`LiveSize`): this is why `Packets` is assumed finite.

**Serial port** (`SioProofs`). The invariant `PortGood` says of each card which bytes it was sent
and has answered since it was selected, by the command and the place in it (`CardGood`): for a read, that
the answers from the eleventh on are the sector it was asked for and the sum of what it has answered so far (`ReadGood`),
for a write, that its buffer holds what was sent (`WriteGood`). `SpecReadsAreTrue` is its
last place. `SpecWritesAreWhole` follows from it step by step: a card changes at the last byte of a
write and then in one sector only. `SpecOneMissAtMost` needs that the port listens to nobody after a missed byte.
Of the exclusive or (`BitXor`) it is assumed that it stays within bytes and that zero changes nothing; that a sum is
a sum of a sequence is proved (`XorSums`).

**GPU** (`GpuProofs`). `WordsThere`: while a command comes in, the words collected and
the words left add up to the length in the table (`WordsInv`), which is at least
what its handler indexes (`TableFits`, evaluated by TLC over all 256
entries); a polyline is never left with a handler that indexes more than a segment holds.
`RendererTold` follows the settings through the channel: the last message about
a setting that is still on the way, or the renderer's copy if there is none,
equals the Gpu's register (`AreaInv`, `MasksInv`), for every capacity and however
often the Gpu is reset or replaced, until one of those changes a register without a message.
`AnswersAreAwaited` and `ImagesAreServed` rest on `AnswersInv`, three parts: `CountInv` balances
questions and answers (those on their way, counted in both channels, are the frames that were never
answered for and the one question the emulator waits with); `AwaitedInv` says whose they are as long
as there is no such frame; `StoreInv` ties the words taken and left of an image that is read to
its size and its data to what the renderer answers (`AnswerWords`). The rest is arithmetic: rows filled up one by one are
as many words as the image, and more only with an odd width in more than one row. The channel holds more than one message (`Capacity`), as in the code.

**Renderers** (`RenderersProofs`). `BatchesTrue` rests on `BatchInv`: every batch of
the hardware renderer fits its buffer and has the blending, area and masks of each of
its triangles (`TrueBatch`). `RoomEnsured` says that what closes a batch leaves
room for a rectangle, and `PushTrue` that pushing into such a batch keeps it true. Its
assumption is `Room > 2`: the code's buffer holds far more. `ComputeInStep`, with the invariant `KeepUpInv` that
flushing the waiting triangles onto the texture gives `picture`, is an induction over the
triangles: one more is drawn after all the others (`FlushedMore`), and a flush leaves nothing to draw. It needs nothing of
the shader but that a triangle outside the drawing area draws nothing (`OutsideIsNotDrawn`), and holds for every VRAM.
`ShownIsDrawn` follows, as both show after a flush.

### Only model-checked

- Liveness: `CommandsFinish`, `QueuedCommandsStart`, `ReadsReturn`,
  `RequestsAnswered`, `CollectionsEnd`, `EventsRecur`, `WaitsEnd`.
  TLAPS does not reason about `ENABLED`, on which fairness rests.

## 5. Not modelled, and why

| part | why |
|---|---|
| sound processor, XA and ADPCM decoding | fixed-point arithmetic on samples, advanced by one thread in one fixed order: a model would repeat the code |
| audio output | one bounded channel to a callback of the host; the code does block on it (section 6) |
| geometry engine | arithmetic without control; `Cpu` takes a command as a parameter |
| memory map, RAM, BIOS | decoding of addresses; device modules start at their registers |
| disc image parsers | run once, on files, before anything else does |
| second serial port, retired CPU core | no behaviour; not compiled |
| save states, other than the GPU's | fields copied one by one; `LoadState` of `Gpu` is the part with two threads in it |
| window, menus, input, presenter | I/O |
| display registers, status word and line timing of the GPU | registers that only the guest reads; their events are ordinary users of the queue of `Scheduler` |
| rasterisation, shading and dithering, texture formats, the picture of a hardware batch | pixels |
| the pixels of the software renderer | it draws every message when it comes; where its pixels are others than the compute renderer's is listed in section 6 |
| textures drawn over within one flush | the shader gives no order, so there is no result to compare with |
| images over the edge of VRAM in transfers to the guest | an error of the graphics library's |
| the words of DMA channels 2 to 4 in slices | a device takes them one after the other |
| machine code, and the patching of faulting accesses | `Recompiler` says what emitted code does, `Blocks` when it may run |
| flags of the timers, mode and baud registers of SIO | nothing but the guest reads them |

## 6. Disagreements seen

What the models found where two parts of the code, or the code and its
comments, disagree. Those the properties leave out are named by what leaves
them out.

**Two engines** (`Cpu`, the notes in `odd`). Interpreted and compiled code differ in:

- `bootHandler`: with SR's boot vectors a compiled exception jumps to `0xfbc00180`; the
  comment above it and the interpreter say `0xbfc00180` (`dynarec.rs:1889`).
- `staleLoad`: a load pending at the entry, of the register the block's first instruction
  loads (or merges, with lwl and lwr), is delivered once more after the block (`dynarec.rs:1688`).
- `undelivered`: when add or addi overflows, or at cop3, the interpreter leaves the pending load
  undelivered and the compiled code has delivered it (`interpreter.rs:474`, `840`).
- `moveToHiLo`: mthi and mtlo read their source before or after the pending load (`interpreter.rs:520`).
- `isolated`: compiled swl and swr ignore the isolated cache (`dynarec.rs:3396`).
- `swc2Cause`, `illegal`: the cause an unaligned swc2 and an unknown word report; cop1 and
  cop3 are not among the words `is_illegal` ends a block for (`cpu.rs:126`).
- `region`: a compiled j or jal takes the upper bits of its target from the address the block
  starts at (`dynarec.rs:1921`, `1982`), the interpreter from the current one (`interpreter.rs:592`).
- `slotEpc`: an exception in a delay slot is reported four bytes early (`dynarec.rs:1535`).
- `jalLink`, `linkReload`: when jal and jalr write their link, seen from the delay slot (`dynarec.rs:1976`).
- `fallThrough`: a block that ends for its length continues one instruction too far (`dynarec.rs:696`).

**Drive.** Stop leaves the read stream running with its motor bit clear
(`cdrom.rs:1336`); Init leaves the XA setting's copy (`cdrom.rs:1164`); Setloc followed by Readn shows
Seek beside Read (`cdrom.rs:1445`); a stream that fails stops without an interrupt (`cdrom.rs:1529`); the prefetcher
strides by the size of a sector in bytes (`cd_cache.rs:141`).

**Blocks.** The finding of `blocks_stale`; and a block over a page boundary is
registered in its first page only, because its length in words is added to an address in bytes
(`block_cache.rs:94`).

**Timers.** A free-running counter 0 stands still during blanks (`timers.rs:190`);
a target below half the counter underflows the prediction (`timers.rs:110`); an
interrupt stays queued when it is switched off (`timers.rs:274`).

**DMA.** A transfer turned down when it is started is never resumed (`dma.rs:193`); DICR's
accessors keep six bits, so channel 6 cannot interrupt (`dma.rs:727`); a
store to DICR that raises the master flag raises no interrupt (`dma.rs:102`).

**Serial port.** A sector sent with a wrong checksum is reported as bad and written all
the same; a sector number past the end panics; deselecting leaves the port's own state
behind (`sio.rs:98`), which costs a byte; the second card is saved to the first one's file (`save_state.rs:97`).

**GPU.** The answer to a frame that shows all of VRAM is not received (`gpu.rs:1442`): later
waits get the answer before theirs, and when such frames have filled the channel
both threads wait for each other. A reset and a loaded state change masks, and a reset
the drawing area, without telling the renderer (`gpu.rs:1045`, `save_state.rs:111`). Rows of an image of odd width are filled up
to a whole word by two renderers (`compute_renderer.rs:1633`, `hw_renderer.rs:2005`) but not counted so
(`gpu.rs`, `gp0_image_store`): the guest reads a skewed image and the last words are dropped. An image
whose corner is outside VRAM is answered with nothing by these two, and the next read of GPUREAD indexes past
the data and panics; the software renderer wraps. `ReadsAreServed` leaves out both.

**Renderers.** Whether a game looks the same depends on the renderer in more than rounding:

- Lines are drawn by the software renderer (`renderer.rs:480`) and by no other: `draw_line` of
  the others clips and returns (`compute_renderer.rs:731`, `hw_renderer.rs:1143`).
- A polygon without a texture is sent with page 0 (`gpu.rs:612`, `629`, `780`, `799`). The compute
  renderer takes the blending from it, so all of them are averaged (`compute_renderer.rs:830`, `846`); the
  software renderer takes the one the guest has set (`renderer.rs:685`, `759`), and the hardware renderer that
  one for the batch.
- The shader compares the mask bit, which is 0x8000, with 1 (`compute.wgsl:475`): masked pixels are never
  preserved. Without a texture it always sets the bit. A semi-transparent
  texture's texels without mask bit are not drawn at all (`compute.wgsl:463`).
- The bins of the shader begin one pixel left of and above the drawing area and may leave out its last column
  and row (`compute.wgsl:1179`).
- Textures are read while the triangles collected with them are drawn, in no order.
- A fill drops a bit of blue in the software renderer only (`renderer.rs:475`).
- An image to VRAM that reaches over the edge is dropped by the compute renderer
  (`compute_renderer.rs:1475`) and wrapped by the software renderer.
- The hardware renderer draws its batches after copies and fills that came later (`hw_renderer.rs:1000`).

**Audio.** The emulator blocks when the host stops taking samples (`audio.rs:17`).
