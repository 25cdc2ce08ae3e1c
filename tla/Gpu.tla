-------------------------------- MODULE Gpu --------------------------------
(***************************************************************************)
(* The GPU of gpu.rs and its renderer, which runs on a thread of its own   *)
(* (renderer.rs, hw_renderer.rs, compute_renderer.rs).  The emulator's     *)
(* thread decodes the words written to GP0 and GP1 and sends messages      *)
(* through a bounded channel; what it needs to know - a frame is drawn,    *)
(* the contents of VRAM - it gets by blocking on a second one.  Two copies *)
(* of the drawing area and of the mask settings are kept, one by the Gpu   *)
(* and one by the renderer.                                                *)
(***************************************************************************)
EXTENDS Gp0Commands, Sequences, FiniteSets

CONSTANTS
    Opcodes,     \* the opcodes the guest begins a command with
    Areas,       \* the drawing areas, 0 the one of a reset
    MaskValues,  \* the values of the mask setting: bit 0 force, bit 1 preserve
    Images,      \* the images the guest moves
    WholeVram,   \* all of VRAM: 1024 * 512 in the code
    Renderer,    \* the one that runs: "software", "compute" or "hardware"
    Capacity,    \* of each channel
    FullFrames   \* bounds the frames shown as the whole of VRAM

\* An image, in halfwords, and whether its corner is inside VRAM; its other corner
\* is too, then: of an image over the edge wgpu makes an error of its own.
Image == [width : Nat \ {0}, height : Nat \ {0}, inside : BOOLEAN]

ASSUME GpuAssumption ==
    /\ Opcodes \subseteq 0..255 /\ 0 \in Areas /\ 0 \in MaskValues
    /\ Images \subseteq Image /\ WholeVram \in Image
    /\ Renderer \in {"software", "compute", "hardware"}
    /\ Capacity \in Nat \ {0, 1} /\ FullFrames \in 0..(Capacity - 1)

\* The table is as it should be: a command has as many words as its handler
\* indexes, the handler of a polyline indexes no more than a segment, and what is
\* sent is something the renderers have a routine for.
ASSUME TableFits ==
    \A op \in 0..255 :
        LET c == GP0_COMMANDS[op]
        IN /\ c.len \in Nat \ {0} /\ c.handler.needs \in 0..c.len
           /\ Polylines(op) = "PolylineMono" => c.handler.needs <= 3
           /\ Polylines(op) = "PolylineShaded" => c.handler.needs <= 4
           /\ HasRoutine(c.handler.does)

VARIABLES
    mode,       \* gp0_mode, of Gp0Mode
    remaining,  \* gp0_words_remaining
    opcode,     \* gp0_command_word, of the command whose words come in, else 0
    len,        \* gp0_command.len, likewise
    store,      \* of Gp0Mode::ImageStore: current_word, the length of its data,
                \* whether the data came from VRAM, and the image asked for
    area,       \* the registers drawing_area_*, as one value
    masks,      \* force_set_mask_bit and preserve_masked_pixels
    waiting,    \* what the emulator's thread blocks for, "no" when it runs
    panicked,   \* CommandBuffer::index was given a word that is not there
    toRenderer, \* the channel of RendererMsg
    toGpu,      \* the channel of RendererResponse
    rArea, rMasks, \* the renderer's copies
    behind,     \* the settings changed without a message since the last one
    swallowed,  \* a word was sent to GP0 during the image store
    fullFrames  \* frames shown as the whole of VRAM so far

port == <<mode, remaining, opcode, len, store>>
vars == <<port, area, masks, waiting, panicked, toRenderer, toGpu, rArea,
          rMasks, behind, swallowed, fullFrames>>

NoImage == [width |-> 1, height |-> 1, inside |-> TRUE]
NoStore == [at |-> 0, words |-> 0, real |-> TRUE, image |-> NoImage]

Init ==
    /\ mode = "Command" /\ remaining = 0 /\ opcode = 0 /\ len = 0
    /\ store = NoStore
    /\ area = 0 /\ rArea = 0
    /\ masks = 0 /\ rMasks = 0
    /\ waiting = "no" /\ panicked = FALSE
    /\ toRenderer = <<>> /\ toGpu = <<>>
    /\ behind = {} /\ swallowed = FALSE /\ fullFrames = 0

\* A send on a bounded channel: the thread goes on when there is room.
Send(m) ==
    /\ Len(toRenderer) < Capacity
    /\ toRenderer' = Append(toRenderer, m)

AreaMessage(a)  == [type |-> "area", area |-> a]
MasksMessage(m) == [type |-> "masks", masks |-> m]
ReadMessage(i)  == [type |-> "read", image |-> i]

(***************************************************************************)
(* GP0.                                                                    *)
(***************************************************************************)
\* A word decoded: the first of a command looks its opcode up and empties the
\* buffer, any other counts down.
Decoded(op) ==
    IF remaining = 0
    THEN [op |-> op, len |-> 0, left |-> GP0_COMMANDS[op].len - 1,
          mode |-> IF Polylines(op) = "Command" THEN mode ELSE Polylines(op)]
    ELSE [op |-> opcode, len |-> len, left |-> remaining - 1, mode |-> mode]

\* A handler reads the command buffer of n words.
Reads(handler, n) == panicked' = (handler.needs > n)

Gather(op) ==
    LET d == Decoded(op) IN
    /\ d.mode = "Command" /\ d.left > 0
    /\ mode' = d.mode /\ opcode' = d.op /\ len' = d.len + 1 /\ remaining' = d.left
    /\ UNCHANGED <<store, area, masks, waiting, panicked, toRenderer, toGpu,
                   rArea, rMasks, behind, swallowed, fullFrames>>

\* The opcode and the buffer of a finished command are not read again: the next
\* one sets both.
Forgotten == opcode' = 0 /\ len' = 0

\* The last word of a command: its handler runs.
Finish(op, type) ==
    LET d == Decoded(op)
        h == GP0_COMMANDS[d.op].handler
    IN /\ d.mode = "Command" /\ d.left = 0
       /\ h.does.type = type
       /\ Forgotten
       /\ Reads(h, d.len + 1)
       /\ UNCHANGED <<toGpu, rArea, rMasks, fullFrames>>

Idle == remaining' = 0 /\ mode' = "Command" /\ UNCHANGED store

DrawCommand(op) ==
    \E type \in {"polygon", "line", "rectangle", "fill", "blit"} :
        /\ Finish(op, type) /\ Idle
        /\ Send([type |-> "draw"])
        /\ UNCHANGED <<area, masks, waiting, behind, swallowed>>

RegisterCommand(op) ==
    /\ \E type \in {"nothing", "register"} : Finish(op, type)
    /\ Idle
    /\ UNCHANGED <<toRenderer, area, masks, waiting, behind, swallowed>>

SendDrawingAreaChange(a) == Send(AreaMessage(a)) /\ behind' = behind \ {"area"}

\* Either corner: the four registers are one value here.
DrawingArea(op) ==
    /\ \E corner \in {"top left", "bottom right"} : Finish(op, corner)
    /\ Idle
    /\ area' \in Areas
    /\ SendDrawingAreaChange(area')
    /\ UNCHANGED <<masks, waiting, swallowed>>

ToldOfPreserve(old, new) == Bit(old, 1) # Bit(new, 1)

\* The renderer hears of a mask setting only when it is another than before.
ToldOf(old, new) == old # new

MaskBitSetting(op) ==
    /\ Finish(op, "masks") /\ Idle
    /\ masks' \in MaskValues
    /\ IF ToldOf(masks, masks')
       THEN Send(MasksMessage(masks')) /\ behind' = behind \ {"masks"}
       ELSE UNCHANGED <<toRenderer, behind>>
    /\ UNCHANGED <<area, waiting, swallowed>>

\* The words of an image as the Gpu counts them: two halfwords each, and one more
\* for the last of an odd number.
WordsOf(i) == (i.width * i.height + 1) \div 2

ImageLoad(op) ==
    /\ Finish(op, "load")
    /\ mode' = "ImageLoad" /\ remaining' \in {WordsOf(i) : i \in Images}
    /\ UNCHANGED <<store, toRenderer, area, masks, waiting, behind, swallowed>>

\* The image is asked for at once and the thread blocks until it comes.
ImageStore(op) ==
    /\ Finish(op, "store")
    /\ mode' = "Command"
    /\ \E i \in Images :
         /\ remaining' = WordsOf(i)
         /\ Send(ReadMessage(i))
         /\ store' = [NoStore EXCEPT !.image = i]
    /\ waiting' = "store"
    /\ UNCHANGED <<area, masks, behind, swallowed>>

ImageLoadWord(op) ==
    LET d == Decoded(op) IN
    /\ d.mode = "ImageLoad"
    /\ remaining' = d.left
    /\ IF d.left = 0 THEN mode' = "Command" /\ Send([type |-> "load"])
                     ELSE mode' = "ImageLoad" /\ UNCHANGED toRenderer
    /\ UNCHANGED <<opcode, len, store, area, masks, waiting, panicked, toGpu,
                   rArea, rMasks, behind, swallowed, fullFrames>>

\* A word sent while VRAM is being read is lost, and counted all the same.
ImageStoreWord(op) ==
    LET d == Decoded(op) IN
    /\ d.mode = "ImageStore"
    /\ remaining' = d.left /\ Forgotten
    /\ swallowed' = TRUE
    /\ UNCHANGED <<mode, store, area, masks, waiting, panicked, toRenderer,
                   toGpu, rArea, rMasks, behind, fullFrames>>

SegmentAtThree(m, n) == m \in {"PolylineMono", "PolylineShaded"} /\ n = 3

\* A polyline: a segment is drawn as soon as its words are there, and the end of
\* it stays in the buffer as the beginning of the next.
Segment(m, n) ==
    \/ m = "PolylineMono" /\ n = 3
    \/ m = "PolylineShaded" /\ n = 4

PolylineWord(op) ==
    LET d == Decoded(op)
        h == GP0_COMMANDS[d.op].handler
        n == d.len + 1
    IN /\ d.mode \in {"PolylineMono", "PolylineShaded"}
       /\ mode' = d.mode /\ opcode' = d.op /\ remaining' = 2
       /\ IF Segment(d.mode, n)
          THEN len' = 2 /\ Reads(h, n) /\ Send([type |-> "draw"])
          ELSE len' = n /\ UNCHANGED <<panicked, toRenderer>>
       /\ UNCHANGED <<store, area, masks, waiting, toGpu, rArea, rMasks, behind,
                      swallowed, fullFrames>>

\* Any word of a polyline may match the terminator.
PolylineEnd(op) ==
    LET d == Decoded(op) IN
    /\ d.mode \in {"PolylineMono", "PolylineShaded"}
    /\ remaining = 0 => op >= \h50
    /\ mode' = "Command" /\ remaining' = 0 /\ Forgotten
    /\ UNCHANGED <<store, area, masks, waiting, panicked, toRenderer, toGpu,
                   rArea, rMasks, behind, swallowed, fullFrames>>

Gp0(op) ==
    /\ waiting = "no"
    /\ \/ Gather(op) \/ DrawCommand(op) \/ RegisterCommand(op)
       \/ DrawingArea(op) \/ MaskBitSetting(op)
       \/ ImageLoad(op) \/ ImageStore(op)
       \/ ImageLoadWord(op) \/ ImageStoreWord(op)
       \/ PolylineWord(op) \/ PolylineEnd(op)

(***************************************************************************)
(* GP1, reads of VRAM, frames and save states.                             *)
(***************************************************************************)
ResetBufferOnly == mode' = mode /\ remaining' = 0 /\ Forgotten /\ UNCHANGED <<store, swallowed>>
ResetCommandBuffer ==
    mode' = "Command" /\ remaining' = 0 /\ Forgotten /\ store' = NoStore
    /\ swallowed' = FALSE

Gp1ResetCommandBuffer ==
    /\ waiting = "no"
    /\ ResetCommandBuffer
    /\ UNCHANGED <<area, masks, waiting, panicked, toRenderer, toGpu,
                   rArea, rMasks, behind, fullFrames>>

\* The registers are cleared, and the renderer is not told.
Gp1Reset ==
    /\ waiting = "no"
    /\ ResetCommandBuffer
    /\ area' = 0 /\ masks' = 0
    /\ behind' = behind \union (IF area = 0 THEN {} ELSE {"area"})
                        \union (IF masks = 0 THEN {} ELSE {"masks"})
    /\ UNCHANGED <<waiting, panicked, toRenderer, toGpu, rArea, rMasks,
                   fullFrames>>

\* A read past the data panics, and what follows is not modelled.
Read ==
    /\ waiting = "no" /\ mode = "ImageStore"
    /\ store.at < store.words /\ remaining > 0
    /\ remaining' = remaining - 1
    /\ IF remaining = 1
       THEN mode' = "Command" /\ store' = NoStore /\ swallowed' = FALSE
       ELSE mode' = mode /\ store' = [store EXCEPT !.at = @ + 1] /\ UNCHANGED swallowed
    /\ UNCHANGED <<opcode, len, area, masks, waiting, panicked, toRenderer,
                   toGpu, rArea, rMasks, behind, fullFrames>>

\* The vertical blank asks for the picture.  Of a frame that shows all of VRAM
\* the answer is not waited for.
RenderFb ==
    /\ waiting = "no"
    /\ Send([type |-> "frame"])
    /\ waiting' = "frame"
    /\ UNCHANGED <<port, area, masks, panicked, toGpu, rArea, rMasks, behind,
                   swallowed, fullFrames>>

RenderFbFull ==
    /\ waiting = "no" /\ fullFrames < FullFrames
    /\ Send([type |-> "frame"])
    /\ fullFrames' = fullFrames + 1
    /\ UNCHANGED <<port, area, masks, waiting, panicked, toGpu, rArea, rMasks,
                   behind, swallowed>>

SaveVramUnanswered ==
    /\ waiting = "no"
    /\ Send(ReadMessage(WholeVram))
    /\ UNCHANGED <<port, area, masks, waiting, panicked, toGpu, rArea, rMasks,
                   behind, swallowed, fullFrames>>

SaveVram ==
    /\ waiting = "no"
    /\ Send(ReadMessage(WholeVram))
    /\ waiting' = "save"
    /\ UNCHANGED <<port, area, masks, panicked, toGpu, rArea, rMasks, behind,
                   swallowed, fullFrames>>

\* A state saved between two commands replaces the Gpu; the renderer's thread and
\* the channels stay.  The drawing area is sent, the masks are not.
LoadState ==
    /\ waiting = "no"
    /\ area' \in Areas
    /\ masks' \in MaskValues
    /\ mode' = "Command" /\ remaining' = 0 /\ Forgotten
    /\ store' = NoStore /\ swallowed' = FALSE
    /\ Len(toRenderer) + 2 <= Capacity
    /\ toRenderer' = toRenderer \o <<AreaMessage(area'), [type |-> "load"]>>
    /\ behind' = (behind \ {"area"})
                    \union (IF masks' = masks THEN {} ELSE {"masks"})
    /\ UNCHANGED <<waiting, panicked, toGpu, rArea, rMasks, fullFrames>>

\* The emulator's thread takes the answer it blocks for, or another: the words of
\* an image are zeros then, and a saved state keeps the VRAM of before.
StoreAnswered ==
    /\ waiting = "store" /\ toGpu # <<>>
    /\ toGpu' = Tail(toGpu) /\ waiting' = "no"
    /\ mode' = "ImageStore"
    /\ store' = LET m == Head(toGpu) IN
                IF m.type = "vram" THEN [store EXCEPT !.words = m.words]
                ELSE [store EXCEPT !.words = remaining, !.real = FALSE]
    /\ UNCHANGED <<remaining, opcode, len, area, masks, panicked, toRenderer,
                   rArea, rMasks, behind, swallowed, fullFrames>>

OtherAnswered ==
    /\ waiting \in {"frame", "save"} /\ toGpu # <<>>
    /\ toGpu' = Tail(toGpu) /\ waiting' = "no"
    /\ UNCHANGED <<port, area, masks, panicked, toRenderer, rArea, rMasks, behind,
                   swallowed, fullFrames>>

(***************************************************************************)
(* The renderer's thread.                                                  *)
(***************************************************************************)
\* Two renderers begin every row with a word of its own and answer nothing about a
\* corner outside VRAM; the software renderer counts as the Gpu does and wraps.
AnswerWords(i) ==
    CASE Renderer = "software" -> WordsOf(i)
      [] Renderer # "software" /\ i.inside -> ((i.width + 1) \div 2) * i.height
      [] OTHER -> 0

AnswerOf(m) ==
    IF m.type = "read" THEN [type |-> "vram", words |-> AnswerWords(m.image)]
                       ELSE [type |-> "fb"]

AsksRead(m)  == m.type \in {"read"}

Asks(m)      == m.type \in {"read", "frame"}

Answer(m) ==
    IF Asks(m)
    THEN Len(toGpu) < Capacity /\ toGpu' = Append(toGpu, AnswerOf(m))
    ELSE UNCHANGED toGpu

RendererStep ==
    /\ toRenderer # <<>>
    /\ toRenderer' = Tail(toRenderer)
    /\ LET m == Head(toRenderer) IN
       /\ Answer(m)
       /\ rArea'  = IF m.type = "area"  THEN m.area  ELSE rArea
       /\ rMasks' = IF m.type = "masks" THEN m.masks ELSE rMasks
    /\ UNCHANGED <<port, area, masks, waiting, panicked, behind, swallowed, fullFrames>>

\* The high byte of a word is an opcode only where a command begins.
Next ==
    \/ \E op \in (IF remaining = 0 THEN Opcodes ELSE {0}) : Gp0(op)
    \/ Gp1ResetCommandBuffer \/ Gp1Reset
    \/ Read \/ RenderFb \/ RenderFbFull \/ SaveVram \/ LoadState
    \/ StoreAnswered \/ OtherAnswered
    \/ RendererStep

\* The renderer's thread receives in a loop, and a thread blocked on an answer
\* wakes when it comes.
Spec ==
    /\ Init /\ [][Next]_vars
    /\ WF_vars(RendererStep) /\ WF_vars(StoreAnswered \/ OtherAnswered)

(***************************************************************************)
(* Properties.                                                             *)
(***************************************************************************)
\* No handler reaches for a word that has not been sent, whatever command it
\* belongs to and however polylines are cut short or resets come in between: the
\* command buffer is never indexed past its length.
HandlersHaveTheirWords == ~panicked

\* The messages on their way that ask for an answer, by their place in the channel.
Questions == {i \in DOMAIN toRenderer : Asks(toRenderer[i])}

\* The channel back holds one answer for every question but those of the frames
\* that showed all of VRAM, which nobody takes: until there is one, the answer a
\* thread blocks for is the answer it gets.
AnswersMatch ==
    /\ Len(toGpu) + Cardinality(Questions) = fullFrames + (IF waiting = "no" THEN 0 ELSE 1)
    /\ (fullFrames = 0 /\ waiting # "no" /\ toGpu # <<>>) =>
          \/ waiting = "frame" /\ Head(toGpu).type = "fb"
          \/ /\ waiting = "save"
             /\ Head(toGpu) = [type |-> "vram", words |-> AnswerWords(WholeVram)]
          \/ /\ waiting = "store"
             /\ Head(toGpu) = [type |-> "vram", words |-> AnswerWords(store.image)]

\* An image of more than one row of an odd width, whose rows the renderers fill up
\* and the Gpu does not.
Skewed(i) == Renderer # "software" /\ i.width % 2 = 1 /\ i.height > 1

\* While VRAM is read, the words taken and the words left to take are those of the
\* image asked for, and the data has them all: `read` does not index past its end.
\* It has no others but for the filled rows of a skewed image.  Left out are an image
\* whose corner is outside VRAM, of which two renderers answer nothing, a word sent
\* to GP0 meanwhile, and the answer of a full frame that came in between.
ReadsAreServed ==
    (mode = "ImageStore" /\ ~swallowed /\ fullFrames = 0) =>
        /\ store.real /\ remaining > 0
        /\ store.at + remaining = WordsOf(store.image)
        /\ store.image.inside =>
              /\ store.words - store.at >= remaining
              /\ ~Skewed(store.image) => store.words - store.at = remaining

Pending(type) == \E i \in 1..Len(toRenderer) : toRenderer[i].type = type

\* Once it has taken what was sent, the renderer clips to the drawing area and
\* obeys the masks of the Gpu's registers, but for those a reset or a loaded state
\* has changed without telling it.
RendererFollows ==
    /\ ("area" \notin behind /\ ~Pending("area")) => rArea = area
    /\ ("masks" \notin behind /\ ~Pending("masks")) => rMasks = masks

\* A thread that blocks for an answer gets one.
WaitsEnd == (waiting # "no") ~> (waiting = "no")
=============================================================================
