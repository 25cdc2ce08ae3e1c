---------------------------- MODULE Gp0Commands ----------------------------
(***************************************************************************)
(* The commands of the GPU's GP0 port: what each handler of gpu.rs takes   *)
(* from the command buffer and sends to the renderer, and GP0_COMMANDS,    *)
(* the table that says for an opcode how many words belong to it and which *)
(* handler runs once they are there.  Vertices, colours and textures are   *)
(* abstracted: a handler is the words it indexes, a message the flags the  *)
(* renderers choose their routine by.                                      *)
(***************************************************************************)
EXTENDS Naturals

Bit(op, n) == (op \div 2^n) % 2 = 1

\* A handler: `needs` words are indexed, `sends` goes to the renderer ("" for
\* none), or `sets` names what it changes in the Gpu itself.
Drawing(type, textured, shaded, blend, semi) ==
    [type |-> type, textured |-> textured, shaded |-> shaded,
     blend |-> blend, semi |-> semi]

Handler(needs, does) == [needs |-> needs, does |-> does]

PolyMono(quad, semi) ==
    Handler(IF quad THEN 5 ELSE 4, Drawing("polygon", FALSE, FALSE, FALSE, semi))
PolyTexture(quad, semi, blend) ==
    Handler(IF quad THEN 9 ELSE 7, Drawing("polygon", TRUE, FALSE, blend, semi))
PolyShaded(quad, semi) ==
    Handler(IF quad THEN 8 ELSE 6, Drawing("polygon", FALSE, TRUE, FALSE, semi))
PolyTextureShaded(quad, semi, blend) ==
    Handler(IF quad THEN 12 ELSE 9, Drawing("polygon", TRUE, TRUE, blend, semi))

LineMono(semi)   == Handler(3, Drawing("line", FALSE, FALSE, FALSE, semi))
LineShaded(semi) == Handler(4, Drawing("line", FALSE, TRUE, FALSE, semi))

RectFixed(semi)    == Handler(2, Drawing("rectangle", FALSE, FALSE, FALSE, semi))
RectVariable(semi) == Handler(3, Drawing("rectangle", FALSE, FALSE, FALSE, semi))
RectTextureFixed(semi, blend) ==
    Handler(3, Drawing("rectangle", TRUE, FALSE, blend, semi))
RectTextureVariable(semi, blend) ==
    Handler(4, Drawing("rectangle", TRUE, FALSE, blend, semi))

FillRect == Handler(3, Drawing("fill", FALSE, FALSE, FALSE, FALSE))
Blit     == Handler(4, Drawing("blit", FALSE, FALSE, FALSE, FALSE))
Nop      == Handler(0, [type |-> "nothing"])
Does(what, needs) == Handler(needs, [type |-> what])

(***************************************************************************)
(* GP0_COMMANDS, by the blocks it is laid out in.                          *)
(***************************************************************************)
Entry(len, handler) == [len |-> len, handler |-> handler]

Miscellaneous(op) == IF op = 2 THEN Entry(3, FillRect) ELSE Entry(1, Nop)

\* 20 to 2F: bit 3 the quad, 2 the texture, 1 semi-transparency, 0 a raw texture.
FlatPolygons(op) ==
    LET quad == Bit(op, 3)
    IN IF Bit(op, 2)
       THEN Entry(IF quad THEN 9 ELSE 7, PolyTexture(quad, Bit(op, 1), ~Bit(op, 0)))
       ELSE Entry(IF quad THEN 5 ELSE 4, PolyMono(quad, Bit(op, 1)))

ShadedPolygons(op) ==
    LET quad == Bit(op, 3)
    IN IF Bit(op, 2)
       THEN Entry(IF quad THEN 12 ELSE 9,
                  PolyTextureShaded(quad, Bit(op, 1), ~Bit(op, 0)))
       ELSE Entry(IF quad THEN 8 ELSE 6, PolyShaded(quad, Bit(op, 1)))

FlatLines(op)   == Entry(3, LineMono(Bit(op, 1)))
ShadedLines(op) == Entry(4, LineShaded(Bit(op, 1)))

VariableRectangles(op) ==
    IF Bit(op, 2) THEN Entry(4, RectTextureVariable(Bit(op, 1), ~Bit(op, 0)))
                  ELSE Entry(3, RectVariable(Bit(op, 1)))

\* 68 to 7F: dots, 8 and 16 pixels square.
FixedRectangles(op) ==
    IF Bit(op, 2) THEN Entry(3, RectTextureFixed(Bit(op, 1), ~Bit(op, 0)))
                  ELSE Entry(2, RectFixed(Bit(op, 1)))

BlitCommands(op)       == IF op = \h80 THEN Entry(4, Blit) ELSE Entry(1, Nop)
ImageLoadCommands(op)  == IF op = \hA0 THEN Entry(3, Does("load", 3)) ELSE Entry(1, Nop)
ImageStoreCommands(op) == IF op = \hC0 THEN Entry(3, Does("store", 3)) ELSE Entry(1, Nop)

Settings(op) ==
    Entry(1, CASE op = \hE3 -> Does("top left", 1)
               [] op = \hE4 -> Does("bottom right", 1)
               [] op = \hE6 -> Does("masks", 1)
               [] op \in {\hE1, \hE2, \hE5} -> Does("register", 1)
               [] OTHER -> Nop)

CommandAt(op) ==
    CASE op < \h20 -> Miscellaneous(op)
      [] op \in \h20..\h2F -> FlatPolygons(op)
      [] op \in \h30..\h3F -> ShadedPolygons(op)
      [] op \in \h40..\h4F -> FlatLines(op)
      [] op \in \h50..\h5F -> ShadedLines(op)
      [] op \in \h60..\h67 -> VariableRectangles(op)
      [] op \in \h68..\h7F -> FixedRectangles(op)
      [] op \in \h80..\h9F -> BlitCommands(op)
      [] op \in \hA0..\hBF -> ImageLoadCommands(op)
      [] op \in \hC0..\hDF -> ImageStoreCommands(op)
      [] OTHER -> Settings(op)

GP0_COMMANDS == [op \in 0..255 |-> CommandAt(op)]

\* The opcodes that put the port into Polyline mode; their neighbours with bit 0
\* set are lines of one segment.
Polylines(op) ==
    CASE op \in {\h48, \h4A, \h4C, \h4E} -> "PolylineMono"
      [] op \in {\h58, \h5A, \h5C, \h5E} -> "PolylineShaded"
      [] OTHER -> "Command"

\* The flags for which the software renderer has a routine; any others are its
\* unreachable!("wrong combo").
RectangleRoutine(m) == m.textured \/ ~m.blend
PolygonRoutine(m)   == m.textured \/ ~m.blend
HasRoutine(m) ==
    CASE m.type = "rectangle" -> RectangleRoutine(m)
      [] m.type = "polygon"   -> PolygonRoutine(m)
      [] OTHER -> TRUE
=============================================================================
