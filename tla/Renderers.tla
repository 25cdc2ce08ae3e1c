----------------------------- MODULE Renderers -----------------------------
(***************************************************************************)
(* What two of the renderers do with the messages of the Gpu: the compute  *)
(* renderer, which is the one that runs by default (compute_renderer.rs),  *)
(* collects triangles and draws them when it has to, and the hardware      *)
(* renderer (hw_renderer.rs) collects batches of them and draws once a     *)
(* frame.  Both are given the same messages.                               *)
(*                                                                         *)
(* VRAM is a few cells of a colour and a mask bit, a triangle covers one   *)
(* and takes its texture from another, and a drawing area is a set of      *)
(* cells.  A pixel is what the compute shader makes of it, which is not    *)
(* what the software renderer draws.  What a batch of the hardware         *)
(* renderer looks like once it is drawn is a matter of its pipelines and   *)
(* their stencil, which are not modelled.                                  *)
(***************************************************************************)
EXTENDS Naturals, Sequences, SequencesExt

CONSTANTS
    Cells,          \* the cells of VRAM
    Areas,          \* the drawing areas, sets of cells
    ResetArea,      \* the one of a reset, a pixel in a corner
    Blendings,      \* with what is there, by the guest: "opaque" or a mode
    Masks,          \* the mask settings in use
    Room,           \* the triangles VERT_BUFFER_SIZE has room for
    MaxTriangles    \* bounds the triangles drawn between two frames

Unmasked == [force |-> FALSE, preserve |-> FALSE]

ASSUME RendererAssumption ==
    /\ Cells # {} /\ "none" \notin Cells
    /\ Areas \subseteq SUBSET Cells /\ ResetArea \in Areas
    /\ Blendings \subseteq {"opaque", "average", "add", "subtract", "quarter"}
    /\ Masks \subseteq [force : BOOLEAN, preserve : BOOLEAN] /\ Unmasked \in Masks
    /\ Room \in Nat /\ Room > 2
    /\ MaxTriangles \in Nat

VARIABLES
    picture,       \* VRAM had every message been drawn as it came
    area, masks,   \* the settings of the Gpu, in every message's context: the
                   \* renderers have been told of them, as Gpu.tla shows
    texture,       \* of the compute renderer: vram_texture,
    vertices,      \* and the triangles not drawn yet
    blending,      \* of the hardware renderer: current_blending
    batches,       \* and the batches not drawn yet
    triangles      \* drawn since the last frame

hardware == <<blending, batches>>
vars == <<picture, area, masks, texture, vertices, hardware, triangles>>

Brightest == 2
Pixel(colour, masked) == [colour |-> colour, masked |-> masked]
Black == [c \in Cells |-> Pixel(0, FALSE)]

Init ==
    /\ picture = Black /\ texture = Black
    /\ area = ResetArea /\ masks = Unmasked
    /\ vertices = <<>> /\ batches = <<>> /\ blending = "add"
    /\ triangles = 0

(***************************************************************************)
(* The compute renderer.                                                   *)
(***************************************************************************)
\* blend_with_background of the shader.
Blend(colour, background, how) ==
    CASE how = "opaque"   -> colour
      [] how = "average"  -> (background + colour) \div 2
      [] how = "add"      -> IF background + colour > Brightest THEN Brightest
                             ELSE background + colour
      [] how = "subtract" -> IF background < colour THEN 0 ELSE background - colour
      [] how = "quarter"  -> background + colour \div 4

\* A texel of 0 is never drawn, and with semi-transparency none is without mask bit.
Drawn(texel, how) == texel # Pixel(0, FALSE) /\ (how = "opaque" \/ texel.masked)

\* What the shader makes of a pixel.  Without a texture it always sets the mask bit;
\* a mask bit that is there it never heeds.
Shaded(memory, v) ==
    LET old == memory[v.cell] IN
    IF v.from = "none" THEN Pixel(Blend(1, old.colour, v.how), TRUE)
    ELSE LET texel == memory[v.from] IN
         IF Drawn(texel, v.how)
         THEN Pixel(Blend(texel.colour, old.colour, v.how), texel.masked \/ v.force)
         ELSE old

Draw(memory, v, clip) ==
    IF v.cell \in clip THEN [memory EXCEPT ![v.cell] = Shaded(memory, v)] ELSE memory

\* Triangles drawn in order, clipped to the area of now.
Flushed(memory, pending) ==
    LET drawn[n \in 0..Len(pending)] ==
            IF n = 0 THEN memory ELSE Draw(drawn[n - 1], pending[n], area)
    IN drawn[Len(pending)]

\* The triangles of a message as the vertex buffer has them: their flags are those of
\* the message's context, and the renderer is not asked for any other.
Vertices(cs, from, how) ==
    [i \in 1..Len(cs) |->
        [cell |-> cs[i], from |-> from, how |-> how, force |-> masks.force]]

\* The shader draws the triangles of a flush pixel by pixel, and there is no order
\* between the pixel a triangle draws and another's texel.  A guest whose textures
\* are drawn and used without anything in between that flushes is not modelled.
Apart(vs) ==
    LET all == vertices \o vs
    IN \A i, j \in 1..Len(all) : all[i].from # all[j].cell

\* A polygon is blended as the texture page it names says.  Without a texture it
\* names page 0, whatever the guest has set.
PolygonBlending(from, how) ==
    IF from = "none" /\ how # "opaque" THEN "average" ELSE how

\* When the buffer would be full it is emptied before.
EnsureRoom(state) ==
    IF Len(state.vertices) + 1 >= Room
    THEN [texture |-> Flushed(state.texture, state.vertices), vertices |-> <<>>]
    ELSE state

Collect(state, v) ==
    LET roomy == EnsureRoom(state)
    IN [roomy EXCEPT !.vertices = Append(@, v)]

Outside(ts) == \A i \in 1..Len(ts) : ts[i].cell \notin area

\* A polygon makes room for a triangle before it looks where it is.
CollectInside(state, v) ==
    IF Outside(<<v>>) THEN EnsureRoom(state) ELSE Collect(state, v)

\* The one or two triangles of a message.
Collected(Op(_, _), vs) ==
    LET first == Op([texture |-> texture, vertices |-> vertices], vs[1])
        after == IF Len(vs) = 1 THEN first ELSE Op(first, vs[2])
    IN texture' = after.texture /\ vertices' = after.vertices

\* The triangles of a polygon are looked at one by one, a rectangle as a whole.
ComputePolygon(vs) == Collected(CollectInside, vs)
ComputeRectangle(vs) ==
    IF Outside(vs) THEN UNCHANGED <<texture, vertices>> ELSE Collected(Collect, vs)

\* After everything is drawn, one cell is written or none.
FlushNothing == UNCHANGED <<texture, vertices>>
Flush == texture' = Flushed(texture, vertices) /\ vertices' = <<>>
FlushAndWrite(c, pixel) ==
    /\ texture' = [Flushed(texture, vertices) EXCEPT ![c] = pixel]
    /\ vertices' = <<>>

(***************************************************************************)
(* The hardware renderer.                                                  *)
(***************************************************************************)
\* A triangle with the settings its message's context has.
Triangle(cell, how) == [cell |-> cell, how |-> how, masks |-> masks, area |-> area]
Triangles(cs, how)  == [i \in 1..Len(cs) |-> Triangle(cs[i], how)]

BlendingOf(how) == IF how = "subtract" THEN "subtract" ELSE "add"

\* What a batch is drawn with.
State(how) == [blending |-> BlendingOf(how), area |-> area, masks |-> masks]
NewBatch(how) == [state |-> State(how), triangles |-> <<>>]

EnsureVertexRoom(bs, n, how) ==
    IF bs = <<>> \/ Len(Last(bs).triangles) + n >= Room
    THEN Append(bs, NewBatch(how))
    ELSE bs

SameArea(b, how)  == b.state.area = area /\ b.state.blending = BlendingOf(how)

SameState(b, how) == b.state = State(how)

\* The triangles go to the last batch if it is drawn with what they need, and to
\* a batch of their own if not.
PushVertices(bs, ts, how) ==
    LET roomy == EnsureVertexRoom(bs, Len(ts), how)
        last  == Last(roomy)
    IN IF SameState(last, how)
       THEN Front(roomy) \o <<[last EXCEPT !.triangles = @ \o ts]>>
       ELSE Append(roomy, [state |-> State(how), triangles |-> ts])

PushPolygon(bs, ts) ==
    LET first == PushVertices(bs, <<ts[1]>>, ts[1].how)
    IN IF Len(ts) = 1 THEN first ELSE PushVertices(first, <<ts[2]>>, ts[2].how)

\* A polygon's triangles are pushed one by one, a rectangle's together, and those
\* of neither when all of it is outside.
HardwarePolygon(ts) ==
    IF Outside(ts) THEN UNCHANGED hardware
    ELSE /\ blending' = BlendingOf(ts[1].how)
         /\ batches' = PushPolygon(batches, ts)

HardwareRectangle(ts) ==
    IF Outside(ts) THEN UNCHANGED hardware
    ELSE /\ blending' = BlendingOf(ts[1].how)
         /\ batches' = PushVertices(batches, ts, ts[1].how)

(***************************************************************************)
(* The messages.                                                           *)
(***************************************************************************)
Bounded(n) == triangles + n <= MaxTriangles /\ triangles' = triangles + n

DrawPolygon(cs, from, how) ==
    /\ Bounded(Len(cs))
    /\ LET vs == Vertices(cs, from, PolygonBlending(from, how))
       IN Apart(vs) /\ picture' = Flushed(picture, vs) /\ ComputePolygon(vs)
    /\ HardwarePolygon(Triangles(cs, how))
    /\ UNCHANGED <<area, masks>>

DrawRectangle(cs, from, how) ==
    /\ Bounded(Len(cs))
    /\ LET vs == Vertices(cs, from, how)
       IN Apart(vs) /\ picture' = Flushed(picture, vs) /\ ComputeRectangle(vs)
    /\ HardwareRectangle(Triangles(cs, how))
    /\ UNCHANGED <<area, masks>>

\* Neither renderer draws a line: it is clipped, and that is all.
DrawLine == UNCHANGED vars

\* A fill is not clipped and heeds no masks; the compute renderer draws what it
\* has and fills at once, the hardware renderer makes two triangles of it.
FillRect(c, colour) ==
    /\ Bounded(2)
    /\ picture' = [picture EXCEPT ![c] = Pixel(colour, FALSE)]
    /\ FlushAndWrite(c, Pixel(colour, FALSE))
    /\ blending' = "add"
    /\ batches' = LET t == Triangle(c, "opaque")
                  IN PushVertices(batches, <<t, t>>, "opaque")
    /\ UNCHANGED <<area, masks>>

\* An image from the guest: written whatever the masks say, unless it reaches over
\* the edge of VRAM.
CpuToVramCopy(c, pixel, fits) ==
    /\ IF fits
       THEN picture' = [picture EXCEPT ![c] = pixel] /\ FlushAndWrite(c, pixel)
       ELSE UNCHANGED <<picture, texture, vertices>>
    /\ UNCHANGED <<area, masks, hardware, triangles>>

\* The compute renderer copies by way of the texture that is shown.
Vram2VramBlit(src, dst) ==
    /\ picture' = [picture EXCEPT ![dst] = picture[src]]
    /\ FlushAndWrite(dst, Flushed(texture, vertices)[src])
    /\ UNCHANGED <<area, masks, hardware, triangles>>

\* The answer is read off the texture.
VramToCpuCopy ==
    /\ Flush
    /\ UNCHANGED <<picture, area, masks, hardware, triangles>>

\* The texture is shown, and the batches are drawn.
RenderFb ==
    /\ Flush
    /\ batches' = <<>> /\ triangles' = 0
    /\ UNCHANGED <<picture, area, masks, blending>>

AreaChangeUnflushed(a) == UNCHANGED <<texture, vertices>>

\* The compute renderer draws what it has under the area it had.
AreaChangeOf(a) == Flush

DrawingAreaChange(a) ==
    /\ area' = a
    /\ AreaChangeOf(a)
    /\ UNCHANGED <<picture, masks, hardware, triangles>>

\* The compute renderer ignores the message: its vertices have the flags.
PreservedMaskedPixelsChanged(m) ==
    /\ masks' = m
    /\ UNCHANGED <<picture, area, texture, vertices, hardware, triangles>>

Next ==
    \/ \E how \in Blendings, from \in Cells \union {"none"} :
          \/ \E cs \in [1..1 -> Cells] \union [1..2 -> Cells] : DrawPolygon(cs, from, how)
          \/ \E cs \in [1..2 -> Cells] : DrawRectangle(cs, from, how)
    \/ DrawLine
    \/ \E c \in Cells, colour \in {0, Brightest} : FillRect(c, colour)
    \/ \E c \in Cells, masked, fits \in BOOLEAN : CpuToVramCopy(c, Pixel(1, masked), fits)
    \/ \E src, dst \in Cells : Vram2VramBlit(src, dst)
    \/ VramToCpuCopy \/ RenderFb
    \/ \E a \in Areas : DrawingAreaChange(a)
    \/ \E m \in Masks : PreservedMaskedPixelsChanged(m)

Spec == Init /\ [][Next]_vars

(***************************************************************************)
(* Properties.                                                             *)
(***************************************************************************)
\* What the compute renderer has drawn and what it has still to draw make the
\* picture that drawing every message as it came had made: no triangle is drawn
\* twice, not at all, behind a fill or a copy that came after it, with a texture or
\* under a drawing area of another time.
ComputeKeepsUp == Flushed(texture, vertices) = picture

\* The batches of the hardware renderer, drawn in order, draw every triangle with
\* the drawing area, the masks and the blending it was sent with, and none is
\* larger than the vertex buffer.
BatchesAreTrue ==
    \A i \in 1..Len(batches) :
        /\ Len(batches[i].triangles) < Room
        /\ \A k \in 1..Len(batches[i].triangles) :
              LET t == batches[i].triangles[k] IN
              batches[i].state = [blending |-> BlendingOf(t.how), area |-> t.area,
                                  masks |-> t.masks]

\* What is shown, and what the guest reads back, is the picture of that moment: the
\* compute renderer has nothing left to draw then.
ShownAsDrawn ==
    [][(RenderFb \/ VramToCpuCopy) => texture' = picture]_vars
=============================================================================
