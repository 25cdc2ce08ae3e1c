-------------------------- MODULE RenderersProofs --------------------------
(***************************************************************************)
(* The batches of the hardware renderer, and the triangles the compute     *)
(* renderer has still to draw, for every size of the vertex buffer, every  *)
(* VRAM and every set of areas, masks and blendings.                       *)
(***************************************************************************)
EXTENDS Renderers, WellFoundedInduction, TLAPS

Blending == {"opaque", "average", "add", "subtract", "quarter"}
AnyTriangle == [cell : Cells, how : Blending, masks : Masks, area : Areas]

\* What a triangle is drawn with.
Needs(t) == [blending |-> BlendingOf(t.how), area |-> t.area, masks |-> t.masks]

\* The batches that draw each of their triangles as it was sent.
TrueBatch ==
    {b \in [state : [blending : {"add", "subtract"}, area : Areas, masks : Masks],
            triangles : Seq(AnyTriangle)] :
        /\ Len(b.triangles) < Room
        /\ \A k \in 1..Len(b.triangles) : b.state = Needs(b.triangles[k])}

BatchInv == area \in Areas /\ masks \in Masks /\ batches \in Seq(TrueBatch)

\* Triangles sent with the settings of now, all blended alike.
Sent(ts, how) ==
    /\ ts \in Seq(AnyTriangle) /\ Len(ts) \in 1..2
    /\ \A k \in 1..Len(ts) : Needs(ts[k]) = State(how)

LEMMA StateType ==
  ASSUME BatchInv, NEW how \in Blending
  PROVE  State(how) \in [blending : {"add", "subtract"}, area : Areas, masks : Masks]
  BY DEF BatchInv, State, BlendingOf

\* There is a batch with room for the triangles.
LEMMA RoomEnsured ==
  ASSUME BatchInv, NEW bs \in Seq(TrueBatch), NEW how \in Blending, NEW n \in 1..2
  PROVE  LET r == EnsureVertexRoom(bs, n, how)
         IN r \in Seq(TrueBatch) /\ r # <<>> /\ Len(r[Len(r)].triangles) + n < Room
<1> DEFINE b == NewBatch(how)
<1>1. Room \in Nat /\ Room > 2
  BY RendererAssumption DEF RendererAssumption
<1>2. b \in TrueBatch /\ b.triangles = <<>>
  <2>1. <<>> \in Seq(AnyTriangle) /\ Len(<<>>) = 0
    OBVIOUS
  <2> QED
    BY <1>1, <2>1, StateType DEF NewBatch, TrueBatch
<1> HIDE DEF b
<1>3. CASE bs = <<>> \/ Len(bs[Len(bs)].triangles) + n >= Room
  <2>1. EnsureVertexRoom(bs, n, how) = Append(bs, b)
    BY <1>3 DEF EnsureVertexRoom, b, Last
  <2>2. /\ Append(bs, b) \in Seq(TrueBatch) /\ Append(bs, b) # <<>>
        /\ Append(bs, b)[Len(Append(bs, b))] = b
    BY <1>2
  <2>3. Len(b.triangles) + n < Room
    BY <1>1, <1>2
  <2> QED
    BY <2>1, <2>2, <2>3
<1>4. CASE ~(bs = <<>> \/ Len(bs[Len(bs)].triangles) + n >= Room)
  <2>1. EnsureVertexRoom(bs, n, how) = bs /\ bs # <<>>
    BY <1>4 DEF EnsureVertexRoom, Last
  <2>2. Len(bs[Len(bs)].triangles) \in Nat
    <3>1. bs[Len(bs)] \in TrueBatch
      BY <2>1
    <3> QED
      BY <3>1 DEF TrueBatch
  <2> QED
    BY <1>1, <1>4, <2>1, <2>2
<1> QED
  BY <1>3, <1>4

LEMMA PushTrue ==
  ASSUME BatchInv, NEW bs \in Seq(TrueBatch), NEW how \in Blending, NEW ts, Sent(ts, how)
  PROVE  PushVertices(bs, ts, how) \in Seq(TrueBatch)
<1> DEFINE r == EnsureVertexRoom(bs, Len(ts), how)
           last == r[Len(r)]
           all == last.triangles \o ts
           larger == [last EXCEPT !.triangles = all]
           own == [state |-> State(how), triangles |-> ts]
<1>1. ts \in Seq(AnyTriangle) /\ Len(ts) \in 1..2 /\ \A k \in 1..Len(ts) : Needs(ts[k]) = State(how)
  BY DEF Sent
<1>2. Room \in Nat /\ Room > 2
  BY RendererAssumption DEF RendererAssumption
<1>3. r \in Seq(TrueBatch) /\ r # <<>> /\ Len(last.triangles) + Len(ts) < Room
  BY <1>1, RoomEnsured
<1>4. PushVertices(bs, ts, how) = IF last.state = State(how)
                                  THEN SubSeq(r, 1, Len(r) - 1) \o <<larger>>
                                  ELSE Append(r, own)
  BY DEF PushVertices, SameState, Last, Front
<1> HIDE DEF r
<1>5. last \in TrueBatch
  BY <1>3
<1>6. own \in TrueBatch
  BY <1>1, <1>2, StateType DEF TrueBatch
<1>7. ASSUME last.state = State(how) PROVE larger \in TrueBatch
  <2> DEFINE xs == last.triangles
  <2>1. /\ xs \in Seq(AnyTriangle) /\ \A k \in 1..Len(xs) : Needs(xs[k]) = State(how)
        /\ last = [state |-> State(how), triangles |-> xs] /\ last.triangles = xs
    BY <1>5, <1>7 DEF TrueBatch
  <2>2. larger = [state |-> State(how), triangles |-> all]
    <3> HIDE DEF xs, last, all
    <3> QED
      BY <2>1
  <2> HIDE DEF larger
  <2>3. /\ all \in Seq(AnyTriangle) /\ Len(all) = Len(xs) + Len(ts)
        /\ \A k \in 1..Len(all) : Needs(all[k]) = State(how)
    <3> HIDE DEF xs, last
    <3>1. all = xs \o ts
      BY <2>1 DEF all
    <3> QED
      BY <1>1, <2>1, <3>1
  <2>4. Len(all) < Room
    BY <1>3, <2>3
  <2> HIDE DEF all
  <2> QED
    BY <2>2, <2>3, <2>4, StateType DEF TrueBatch
<1> HIDE DEF larger, own, all
<1>8. SubSeq(r, 1, Len(r) - 1) \in Seq(TrueBatch)
  BY <1>3
<1> QED
  BY <1>3, <1>4, <1>6, <1>7, <1>8

-----------------------------------------------------------------------------
(* The messages.                                                           *)

LEMMA FunctionIsSeq ==
  ASSUME NEW S, NEW n \in Nat, NEW f \in [1..n -> S]
  PROVE  f \in Seq(S) /\ Len(f) = n
  OBVIOUS

\* One triangle, or two of one message.
LEMMA TrianglesSent ==
  ASSUME BatchInv, NEW how \in Blending, NEW cs \in Seq(Cells), Len(cs) \in 1..2
  PROVE  /\ Len(Triangles(cs, how)) = Len(cs) /\ Sent(Triangles(cs, how), how)
         /\ \A i \in 1..Len(cs) : /\ Triangles(cs, how)[i].how = how
                                  /\ Sent(<<Triangles(cs, how)[i]>>, how)
<1> DEFINE ts == Triangles(cs, how)
<1>2. /\ ts = [i \in 1..Len(cs) |-> Triangle(cs[i], how)] /\ Len(ts) = Len(cs)
  BY DEF Triangles
<1>3. ASSUME NEW i \in 1..Len(cs)
      PROVE  ts[i] \in AnyTriangle /\ ts[i].how = how /\ Needs(ts[i]) = State(how)
  BY <1>2 DEF Triangle, AnyTriangle, Needs, State, BatchInv
<1> HIDE DEF ts
<1>4. ts \in Seq(AnyTriangle)
  BY <1>2, <1>3
<1>5. ASSUME NEW i \in 1..Len(cs) PROVE Sent(<<ts[i]>>, how)
  BY <1>3 DEF Sent
<1>6. Sent(ts, how)
  BY <1>2, <1>3, <1>4 DEF Sent
<1> QED
  BY <1>2, <1>3, <1>5, <1>6 DEF ts

LEMMA PolygonTrue ==
  ASSUME BatchInv, NEW how \in Blending, NEW cs \in Seq(Cells), Len(cs) \in 1..2,
         HardwarePolygon(Triangles(cs, how))
  PROVE  batches' \in Seq(TrueBatch)
<1> DEFINE ts == Triangles(cs, how)
           first == PushVertices(batches, <<ts[1]>>, ts[1].how)
           n == Len(cs)
<1>1. Len(ts) = n /\ \A i \in 1..n : ts[i].how = how /\ Sent(<<ts[i]>>, how)
  BY TrianglesSent
<1>2. \/ UNCHANGED batches
      \/ batches' = IF n = 1 THEN first ELSE PushVertices(first, <<ts[2]>>, ts[2].how)
  BY <1>1 DEF HardwarePolygon, hardware, PushPolygon
<1> HIDE DEF ts
<1>3. first \in Seq(TrueBatch)
  BY <1>1, PushTrue DEF BatchInv
<1>4. n # 1 => PushVertices(first, <<ts[2]>>, ts[2].how) \in Seq(TrueBatch)
  <2> HIDE DEF first
  <2> QED
    BY <1>1, <1>3, PushTrue
<1> QED
  BY <1>2, <1>3, <1>4 DEF BatchInv

LEMMA RectangleTrue ==
  ASSUME BatchInv, NEW how \in Blending, NEW cs \in Seq(Cells), Len(cs) = 2,
         HardwareRectangle(Triangles(cs, how))
  PROVE  batches' \in Seq(TrueBatch)
<1> DEFINE ts == Triangles(cs, how)
<1>1. Sent(ts, how) /\ ts[1].how = how
  <2>1. Len(cs) \in 1..2 /\ 1 \in 1..Len(cs)
    OBVIOUS
  <2> QED
    BY <2>1, TrianglesSent
<1>2. UNCHANGED batches \/ batches' = PushVertices(batches, ts, how)
  BY <1>1 DEF HardwareRectangle, hardware
<1> HIDE DEF ts
<1> QED
  BY <1>1, <1>2, PushTrue DEF BatchInv

\* A fill is two opaque triangles with the settings of now.
LEMMA FillTrue ==
  ASSUME BatchInv, NEW c \in Cells, NEW colour, FillRect(c, colour)
  PROVE  batches' \in Seq(TrueBatch)
<1> DEFINE t == Triangle(c, "opaque")
<1>1. batches' = PushVertices(batches, <<t, t>>, "opaque")
  BY DEF FillRect
<1>2. t \in AnyTriangle /\ Needs(t) = State("opaque")
  BY DEF BatchInv, Triangle, AnyTriangle, Blending, Needs, State
<1> HIDE DEF t
<1>3. Sent(<<t, t>>, "opaque")
  BY <1>2 DEF Sent
<1> QED
  BY <1>1, <1>3, PushTrue DEF BatchInv, Blending

LEMMA BatchStep == BatchInv /\ [Next]_vars => BatchInv'
<1> SUFFICES ASSUME BatchInv, [Next]_vars PROVE BatchInv'
  OBVIOUS
<1>0. Blendings \subseteq Blending
  BY RendererAssumption DEF RendererAssumption, Blending
<1>1. ASSUME NEW cs \in [1..1 -> Cells] \union [1..2 -> Cells], NEW how \in Blendings,
             NEW from, DrawPolygon(cs, from, how)
      PROVE  BatchInv'
  <2>1. HardwarePolygon(Triangles(cs, how)) /\ UNCHANGED <<area, masks>>
    BY <1>1 DEF DrawPolygon
  <2>2. cs \in Seq(Cells) /\ Len(cs) \in 1..2
    <3>1. CASE cs \in [1..1 -> Cells]
      <4>1. cs \in Seq(Cells) /\ Len(cs) = 1
        BY <3>1, FunctionIsSeq
      <4> QED
        BY <4>1
    <3>2. CASE cs \in [1..2 -> Cells]
      <4>1. cs \in Seq(Cells) /\ Len(cs) = 2
        BY <3>2, FunctionIsSeq
      <4> QED
        BY <4>1
    <3> QED
      BY <3>1, <3>2
  <2> QED
    BY <1>0, <2>1, <2>2, PolygonTrue DEF BatchInv
<1>2. ASSUME NEW cs \in [1..2 -> Cells], NEW how \in Blendings,
             NEW from, DrawRectangle(cs, from, how)
      PROVE  BatchInv'
  <2>1. HardwareRectangle(Triangles(cs, how)) /\ UNCHANGED <<area, masks>>
    BY <1>2 DEF DrawRectangle
  <2>2. cs \in Seq(Cells) /\ Len(cs) = 2
    BY FunctionIsSeq
  <2> QED
    BY <1>0, <1>2, <2>1, <2>2, RectangleTrue DEF BatchInv
<1>3. ASSUME NEW c \in Cells, NEW colour, FillRect(c, colour) PROVE BatchInv'
  BY <1>3, FillTrue DEF FillRect, BatchInv
<1>4. CASE \/ DrawLine
           \/ \E c \in Cells, masked, fits \in BOOLEAN : CpuToVramCopy(c, Pixel(1, masked), fits)
           \/ \E src, dst \in Cells : Vram2VramBlit(src, dst)
           \/ VramToCpuCopy
           \/ UNCHANGED vars
  <2>1. UNCHANGED <<area, masks, batches>>
    BY <1>4 DEF DrawLine, CpuToVramCopy, Vram2VramBlit, VramToCpuCopy, hardware, vars
  <2> QED
    BY <2>1 DEF BatchInv
<1>5. CASE RenderFb
  BY <1>5 DEF RenderFb, BatchInv
<1>6. ASSUME NEW a \in Areas, DrawingAreaChange(a) PROVE BatchInv'
  BY <1>6 DEF DrawingAreaChange, hardware, BatchInv
<1>7. ASSUME NEW m \in Masks, PreservedMaskedPixelsChanged(m) PROVE BatchInv'
  BY <1>7 DEF PreservedMaskedPixelsChanged, hardware, BatchInv
<1> QED
  BY <1>1, <1>2, <1>3, <1>4, <1>5, <1>6, <1>7 DEF Next

LEMMA BatchInit == Init => BatchInv
<1> SUFFICES ASSUME Init PROVE BatchInv
  OBVIOUS
<1>1. /\ batches = <<>> /\ area = ResetArea /\ masks = Unmasked
      /\ ResetArea \in Areas /\ Unmasked \in Masks
  BY RendererAssumption DEF RendererAssumption, Init
<1> QED
  BY <1>1 DEF BatchInv

\* However triangles, fills, and changes of the drawing area and the masks come,
\* no batch of the hardware renderer outgrows its buffer, and each of its
\* triangles is drawn with the settings it was sent with.
THEOREM BatchesTrue == Spec => []BatchesAreTrue
<1>1. BatchInv => BatchesAreTrue
  <2> SUFFICES ASSUME BatchInv, NEW i \in 1..Len(batches)
               PROVE  /\ Len(batches[i].triangles) < Room
                      /\ \A k \in 1..Len(batches[i].triangles) :
                            batches[i].state = Needs(batches[i].triangles[k])
    BY DEF BatchesAreTrue, Needs
  <2>1. batches[i] \in TrueBatch
    BY DEF BatchInv
  <2> QED
    BY <2>1 DEF TrueBatch
<1> QED
  BY <1>1, BatchInit, BatchStep, PTL DEF Spec

-----------------------------------------------------------------------------
(* Triangles drawn in order.                                               *)

\* Induction over the natural numbers, for a set: the numbers are well-founded.
LEMMA Induction ==
  ASSUME NEW T, 0 \in T, \A n \in Nat : n \in T => n + 1 \in T
  PROVE  Nat \subseteq T
<1> DEFINE B == {n \in Nat : n \notin T}
           R == OpToRel(<, Nat)
<1> SUFFICES ASSUME B # {} PROVE FALSE
  OBVIOUS
<1>1. IsWellFoundedOn(R, Nat)
  BY NatLessThanWellFounded
<1> HIDE DEF R
<1>2. PICK x \in B : \A y \in B : ~ (<<y, x>> \in R)
  <2>1. B \subseteq Nat
    OBVIOUS
  <2> HIDE DEF B
  <2> QED
    BY <1>1, <2>1, WFMin
<1>3. x - 1 \in Nat /\ x - 1 \in B /\ x - 1 < x
  BY <1>2
<1>4. <<x - 1, x>> \in R
  BY <1>2, <1>3 DEF R, OpToRel
<1> QED
  BY <1>2, <1>3, <1>4

\* The pictures on the way, of the first n triangles.
Pictures(g, n, memory, ts, clip) ==
    g = [k \in 0..n |-> IF k = 0 THEN memory ELSE Draw(g[k - 1], ts[k], clip)]

LEMMA PicturesExist ==
  ASSUME NEW memory, NEW ts, NEW clip
  PROVE  \A n \in Nat : \E g : Pictures(g, n, memory, ts, clip)
<1> DEFINE T == {n \in Nat : \E g : Pictures(g, n, memory, ts, clip)}
<1>1. 0 \in T
  <2>1. Pictures([k \in 0..0 |-> memory], 0, memory, ts, clip)
    BY DEF Pictures
  <2> QED
    BY <2>1
<1>2. ASSUME NEW n \in Nat, n \in T PROVE n + 1 \in T
  <2>1. PICK g : Pictures(g, n, memory, ts, clip)
    BY <1>2
  <2> DEFINE v == Draw(g[n], ts[n + 1], clip)
             h == [k \in 0..(n + 1) |-> IF k = n + 1 THEN v ELSE g[k]]
             W(k) == IF k = 0 THEN memory ELSE Draw(h[k - 1], ts[k], clip)
  <2>2. /\ g = [k \in 0..n |-> IF k = 0 THEN memory ELSE Draw(g[k - 1], ts[k], clip)]
    BY <2>1 DEF Pictures
  <2>3. ASSUME NEW k \in 0..(n + 1) PROVE h[k] = W(k)
    <3>1. CASE k = n + 1
      <4>1. h[k] = v
        BY <3>1
      <4>2. k # 0 /\ k - 1 = n /\ n \in 0..(n + 1) /\ n # n + 1
        BY <3>1
      <4>3. h[k - 1] = g[n]
        <5> HIDE DEF v
        <5> QED
          BY <4>2
      <4> HIDE DEF h
      <4> QED
        BY <3>1, <4>1, <4>2, <4>3
    <3>2. CASE k # n + 1
      <4>1. k \in 0..n /\ h[k] = g[k]
        <5> HIDE DEF v
        <5> QED
          BY <3>2
      <4>2. g[k] = IF k = 0 THEN memory ELSE Draw(g[k - 1], ts[k], clip)
        BY <2>2, <4>1
      <4>3. k # 0 => h[k - 1] = g[k - 1]
        <5> HIDE DEF v
        <5>1. k # 0 => k - 1 \in 0..(n + 1) /\ k - 1 # n + 1
          BY <4>1
        <5> QED
          BY <5>1
      <4> HIDE DEF h
      <4> QED
        BY <4>1, <4>2, <4>3
    <3> QED
      BY <3>1, <3>2
  <2>4. h = [k \in 0..(n + 1) |-> h[k]]
    <3> HIDE DEF v
    <3> QED
      OBVIOUS
  <2>5. h = [k \in 0..(n + 1) |-> W(k)]
    <3> HIDE DEF h, W
    <3> QED
      BY <2>3, <2>4
  <2>6. Pictures(h, n + 1, memory, ts, clip)
    <3> HIDE DEF h
    <3> QED
      BY <2>5 DEF Pictures
  <2> QED
    BY <2>6
<1>3. Nat \subseteq T
  <2>1. \A n \in Nat : n \in T => n + 1 \in T
    BY <1>2
  <2> HIDE DEF T
  <2> QED
    BY <1>1, <2>1, Induction
<1> QED
  BY <1>3

\* The pictures of triangles that begin alike are alike.
LEMMA PicturesAgree ==
  ASSUME NEW memory, NEW ts, NEW us, NEW clip, NEW g, NEW h, NEW n \in Nat, NEW m \in Nat,
         n <= m, \A k \in 1..n : ts[k] = us[k],
         Pictures(g, n, memory, ts, clip), Pictures(h, m, memory, us, clip)
  PROVE  \A k \in 0..n : g[k] = h[k]
<1> DEFINE T == {k \in Nat : k <= n => g[k] = h[k]}
<1>0. /\ \A k \in 0..n : g[k] = IF k = 0 THEN memory ELSE Draw(g[k - 1], ts[k], clip)
      /\ \A k \in 0..m : h[k] = IF k = 0 THEN memory ELSE Draw(h[k - 1], us[k], clip)
  BY Zenon DEF Pictures
<1>1. 0 \in T
  BY <1>0
<1>2. ASSUME NEW k \in Nat, k \in T PROVE k + 1 \in T
  <2> SUFFICES ASSUME k + 1 <= n PROVE g[k + 1] = h[k + 1]
    OBVIOUS
  <2>1. /\ k + 1 \in 1..n /\ k + 1 \in 0..n /\ k + 1 \in 0..m
        /\ k + 1 # 0 /\ (k + 1) - 1 = k /\ g[k] = h[k]
    BY <1>2
  <2>2. /\ g[k + 1] = Draw(g[k], ts[k + 1], clip)
        /\ h[k + 1] = Draw(h[k], us[k + 1], clip)
    BY <1>0, <2>1
  <2> QED
    BY <2>1, <2>2
<1>3. Nat \subseteq T
  <2>1. \A k \in Nat : k \in T => k + 1 \in T
    BY <1>2
  <2> HIDE DEF T
  <2> QED
    BY <1>1, <2>1, Induction
<1> QED
  BY <1>3

\* What is flushed is the last of the pictures.
LEMMA FlushedIsLast ==
  ASSUME NEW memory, NEW ts, Len(ts) \in Nat
  PROVE  \E g : Pictures(g, Len(ts), memory, ts, area) /\ Flushed(memory, ts) = g[Len(ts)]
<1> DEFINE n == Len(ts)
           drawn == CHOOSE g : g = [k \in 0..n |-> IF k = 0 THEN memory
                                                   ELSE Draw(g[k - 1], ts[k], area)]
<1>1. \E g : g = [k \in 0..n |-> IF k = 0 THEN memory ELSE Draw(g[k - 1], ts[k], area)]
  <2>1. \E g : Pictures(g, n, memory, ts, area)
    BY PicturesExist
  <2> QED
    BY <2>1, Zenon DEF Pictures
<1>2. drawn = [k \in 0..n |-> IF k = 0 THEN memory ELSE Draw(drawn[k - 1], ts[k], area)]
  BY <1>1
<1>3. Flushed(memory, ts) = drawn[n]
  BY Zenon DEF Flushed
<1> HIDE DEF drawn
<1> QED
  BY <1>2, <1>3 DEF Pictures

LEMMA FlushedNone == ASSUME NEW memory PROVE Flushed(memory, <<>>) = memory
<1>1. Len(<<>>) = 0
  OBVIOUS
<1>2. PICK g : Pictures(g, 0, memory, <<>>, area) /\ Flushed(memory, <<>>) = g[0]
  BY <1>1, FlushedIsLast
<1> QED
  BY <1>2 DEF Pictures

\* One triangle more is drawn after all the others.
LEMMA FlushedMore ==
  ASSUME NEW memory, NEW S, NEW ts \in Seq(S), NEW t \in S
  PROVE  Flushed(memory, Append(ts, t)) = Draw(Flushed(memory, ts), t, area)
<1> DEFINE us == Append(ts, t)
           n == Len(ts)
<1>1. /\ n \in Nat /\ Len(us) = n + 1 /\ us[n + 1] = t /\ \A k \in 1..n : ts[k] = us[k]
  OBVIOUS
<1> HIDE DEF us
<1>2. PICK g : Pictures(g, n, memory, ts, area) /\ Flushed(memory, ts) = g[n]
  BY <1>1, FlushedIsLast
<1>3. PICK h : Pictures(h, n + 1, memory, us, area) /\ Flushed(memory, us) = h[n + 1]
  <2>1. Len(us) \in Nat
    BY <1>1
  <2> QED
    BY <1>1, <2>1, FlushedIsLast
<1> HIDE DEF n
<1>4. g[n] = h[n]
  <2>1. n + 1 \in Nat /\ n <= n + 1 /\ n \in 0..n
    BY <1>1
  <2> QED
    BY <1>1, <1>2, <1>3, <2>1, PicturesAgree
<1>5. h[n + 1] = Draw(h[n], us[n + 1], area)
  <2>1. n + 1 \in 0..(n + 1) /\ n + 1 # 0 /\ (n + 1) - 1 = n
    BY <1>1
  <2> QED
    BY <1>3, <2>1 DEF Pictures
<1> QED
  BY <1>1, <1>2, <1>3, <1>4, <1>5 DEF us

LEMMA FlushedOne ==
  ASSUME NEW memory, NEW t
  PROVE  Flushed(memory, Append(<<>>, t)) = Draw(memory, t, area)
<1>1. <<>> \in Seq({t}) /\ t \in {t}
  OBVIOUS
<1>2. Flushed(memory, Append(<<>>, t)) = Draw(Flushed(memory, <<>>), t, area)
  BY <1>1, FlushedMore
<1> QED
  BY <1>2, FlushedNone

-----------------------------------------------------------------------------
(* The compute renderer.                                                   *)

\* A rectangle or a polygon has one triangle or two.
LEMMA OneOrTwo ==
  ASSUME NEW S, NEW ts \in Seq(S), Len(ts) \in 1..2
  PROVE  /\ ts[1] \in S
         /\ Len(ts) = 1 => ts = Append(<<>>, ts[1])
         /\ Len(ts) # 1 => ts[2] \in S /\ ts = Append(Append(<<>>, ts[1]), ts[2])
  OBVIOUS

LEMMA FlushedFew ==
  ASSUME NEW memory, NEW S, NEW ts \in Seq(S), Len(ts) \in 1..2
  PROVE  Flushed(memory, ts) =
            LET first == Draw(memory, ts[1], area)
            IN IF Len(ts) = 1 THEN first ELSE Draw(first, ts[2], area)
<1> DEFINE one == Append(<<>>, ts[1])
<1>1. <<>> \in Seq(S) /\ ts[1] \in S /\ one \in Seq(S)
  BY OneOrTwo
<1>2. Flushed(memory, one) = Draw(memory, ts[1], area)
  BY FlushedOne
<1>3. Len(ts) # 1 => ts[2] \in S /\ ts = Append(one, ts[2])
  BY OneOrTwo
<1>4. Len(ts) = 1 => ts = one
  BY OneOrTwo
<1> HIDE DEF one
<1>5. Len(ts) # 1 => Flushed(memory, ts) = Draw(Flushed(memory, one), ts[2], area)
  BY <1>1, <1>3, FlushedMore
<1> QED
  BY <1>2, <1>4, <1>5

\* A triangle as the vertex buffer has it.
AnyVertex == [cell : Cells, from : Cells \union {"none"}, how : Blending,
              force : BOOLEAN]

\* What is collected, drawn: what is to be seen.
KeepsUp(state, seen) ==
    /\ state.vertices \in Seq(AnyVertex)
    /\ Flushed(state.texture, state.vertices) = seen

\* Room made is the same triangles drawn, and leaves a texture and a buffer.
LEMMA RoomKeepsUp ==
  ASSUME NEW texture1, NEW vertices1, NEW seen,
         KeepsUp([texture |-> texture1, vertices |-> vertices1], seen)
  PROVE  LET after == EnsureRoom([texture |-> texture1, vertices |-> vertices1])
         IN /\ after = [texture |-> after.texture, vertices |-> after.vertices]
            /\ KeepsUp(after, seen)
<1> DEFINE state == [texture |-> texture1, vertices |-> vertices1]
           after == EnsureRoom(state)
<1>1. /\ state.texture = texture1 /\ state.vertices = vertices1
      /\ vertices1 \in Seq(AnyVertex) /\ Flushed(texture1, vertices1) = seen
  BY DEF KeepsUp
<1>2. CASE Len(vertices1) + 1 >= Room
  <2>1. after = [texture |-> seen, vertices |-> <<>>]
    BY <1>1, <1>2 DEF EnsureRoom
  <2>2. /\ after = [texture |-> after.texture, vertices |-> after.vertices]
        /\ after.texture = seen /\ after.vertices = <<>>
    BY <2>1
  <2>3. Flushed(seen, <<>>) = seen /\ <<>> \in Seq(AnyVertex)
    BY FlushedNone
  <2> HIDE DEF after
  <2>4. KeepsUp(after, seen)
    BY <2>2, <2>3 DEF KeepsUp
  <2> QED
    BY <2>2, <2>4 DEF after
<1>3. CASE ~(Len(vertices1) + 1 >= Room)
  <2>1. after = state
    BY <1>1, <1>3 DEF EnsureRoom
  <2>2. state = [texture |-> state.texture, vertices |-> state.vertices]
    OBVIOUS
  <2>3. KeepsUp(state, seen)
    OBVIOUS
  <2> HIDE DEF after, state
  <2> QED
    BY <2>1, <2>2, <2>3 DEF after, state
<1> QED
  BY <1>2, <1>3

\* A triangle collected is a triangle drawn.
LEMMA CollectKeepsUp ==
  ASSUME NEW texture1, NEW vertices1, NEW seen, NEW t \in AnyVertex,
         KeepsUp([texture |-> texture1, vertices |-> vertices1], seen)
  PROVE  LET after == Collect([texture |-> texture1, vertices |-> vertices1], t)
         IN /\ after = [texture |-> after.texture, vertices |-> after.vertices]
            /\ KeepsUp(after, Draw(seen, t, area))
<1> DEFINE state == [texture |-> texture1, vertices |-> vertices1]
           roomy == EnsureRoom(state)
           tx == roomy.texture
           vs == roomy.vertices
           after == Collect(state, t)
<1>1. roomy = [texture |-> tx, vertices |-> vs] /\ KeepsUp(roomy, seen)
  BY RoomKeepsUp
<1>2. after = [roomy EXCEPT !.vertices = Append(roomy.vertices, t)]
  BY DEF Collect
<1> HIDE DEF roomy, after
<1>3. vs \in Seq(AnyVertex) /\ Flushed(tx, vs) = seen
  BY <1>1 DEF KeepsUp
<1>4. after = [texture |-> tx, vertices |-> Append(vs, t)]
  BY <1>1, <1>2
<1> HIDE DEF tx, vs
<1>5. Append(vs, t) \in Seq(AnyVertex)
  BY <1>3
<1>6. Flushed(tx, Append(vs, t)) = Draw(seen, t, area)
  BY <1>3, FlushedMore
<1>7. /\ after.texture = tx /\ after.vertices = Append(vs, t)
      /\ after = [texture |-> after.texture, vertices |-> after.vertices]
  BY <1>4
<1>8. KeepsUp(after, Draw(seen, t, area))
  BY <1>5, <1>6, <1>7 DEF KeepsUp
<1> QED
  BY <1>7, <1>8 DEF after

\* One that is outside the drawing area is neither.
LEMMA OutsideIsNotDrawn ==
  ASSUME NEW memory, NEW t, t.cell \notin area
  PROVE  Draw(memory, t, area) = memory
  BY DEF Draw

LEMMA CollectInsideKeepsUp ==
  ASSUME NEW texture1, NEW vertices1, NEW seen, NEW t \in AnyVertex,
         KeepsUp([texture |-> texture1, vertices |-> vertices1], seen)
  PROVE  LET after == CollectInside([texture |-> texture1, vertices |-> vertices1], t)
         IN /\ after = [texture |-> after.texture, vertices |-> after.vertices]
            /\ KeepsUp(after, Draw(seen, t, area))
<1> DEFINE state == [texture |-> texture1, vertices |-> vertices1]
           after == CollectInside(state, t)
<1>1. Outside(<<t>>) <=> t.cell \notin area
  BY DEF Outside
<1>2. CASE t.cell \notin area
  <2> DEFINE roomy == EnsureRoom(state)
  <2>1. after = roomy
    BY <1>1, <1>2 DEF CollectInside
  <2>2. /\ roomy = [texture |-> roomy.texture, vertices |-> roomy.vertices]
        /\ KeepsUp(roomy, seen)
    BY RoomKeepsUp
  <2>3. Draw(seen, t, area) = seen
    BY <1>2, OutsideIsNotDrawn
  <2> HIDE DEF after, roomy
  <2> QED
    BY <2>1, <2>2, <2>3 DEF after
<1>3. CASE t.cell \in area
  <2>1. after = Collect(state, t)
    BY <1>1, <1>3 DEF CollectInside
  <2>2. LET c == Collect(state, t)
        IN /\ c = [texture |-> c.texture, vertices |-> c.vertices]
           /\ KeepsUp(c, Draw(seen, t, area))
    BY CollectKeepsUp
  <2> HIDE DEF after
  <2> QED
    BY <2>1, <2>2 DEF after
<1> QED
  BY <1>2, <1>3

KeepUpInv ==
    /\ area \in Areas /\ masks \in Masks /\ vertices \in Seq(AnyVertex)
    /\ Flushed(texture, vertices) = picture

\* A message of one or two triangles: what it adds to what is collected is what it
\* draws when it is drawn as it comes.
LEMMA CollectedKeepsUp ==
  ASSUME KeepUpInv, UNCHANGED area, NEW ts \in Seq(AnyVertex), Len(ts) \in 1..2,
         picture' = Flushed(picture, ts),
         \/ Collected(Collect, ts)
         \/ Collected(CollectInside, ts)
         \/ Outside(ts) /\ UNCHANGED <<texture, vertices>>
  PROVE  vertices' \in Seq(AnyVertex) /\ (Flushed(texture, vertices) = picture)'
<1> DEFINE state == [texture |-> texture, vertices |-> vertices]
           p1 == Draw(picture, ts[1], area)
           p2 == Draw(p1, ts[2], area)
<1>1. picture' = IF Len(ts) = 1 THEN p1 ELSE p2
  BY FlushedFew
<1>2. KeepsUp(state, picture)
  BY DEF KeepUpInv, KeepsUp
<1>3. /\ ts[1] \in AnyVertex /\ 1 \in 1..Len(ts)
      /\ Len(ts) # 1 => ts[2] \in AnyVertex /\ 2 \in 1..Len(ts)
  <2>1. \A n \in 1..2 : 1 \in 1..n /\ (n # 1 => 2 \in 1..n)
    OBVIOUS
  <2> QED
    BY <2>1, OneOrTwo
<1>4. ASSUME NEW after, KeepsUp(after, picture'), texture' = after.texture, vertices' = after.vertices
      PROVE  vertices' \in Seq(AnyVertex) /\ (Flushed(texture, vertices) = picture)'
  <2>1. /\ vertices' \in Seq(AnyVertex)
        /\ Flushed(texture', vertices') = picture'
    BY <1>4 DEF KeepsUp
  <2>2. Flushed(texture', vertices') = Flushed(texture, vertices)'
    BY DEF Flushed, Draw
  <2> QED
    BY <2>1, <2>2
<1>5. CASE Collected(Collect, ts)
  <2> DEFINE first == Collect(state, ts[1])
             after == IF Len(ts) = 1 THEN first ELSE Collect(first, ts[2])
  <2>1. texture' = after.texture /\ vertices' = after.vertices
    BY <1>5 DEF Collected
  <2>2. first = [texture |-> first.texture, vertices |-> first.vertices] /\ KeepsUp(first, p1)
    BY <1>2, <1>3, CollectKeepsUp
  <2> HIDE DEF first, p1
  <2>3. Len(ts) # 1 => KeepsUp(Collect(first, ts[2]), p2)
    <3> DEFINE tx == first.texture
               vs == first.vertices
    <3>1. first = [texture |-> tx, vertices |-> vs]
      BY <2>2
    <3> HIDE DEF tx, vs
    <3>2. KeepsUp([texture |-> tx, vertices |-> vs], p1)
      BY <2>2, <3>1
    <3>3. Len(ts) # 1 => KeepsUp(Collect([texture |-> tx, vertices |-> vs], ts[2]), p2)
      BY <1>3, <3>2, CollectKeepsUp
    <3> QED
      BY <3>1, <3>3
  <2> HIDE DEF p2
  <2>4. KeepsUp(after, picture')
    BY <1>1, <2>2, <2>3
  <2> HIDE DEF after
  <2> QED
    BY <1>4, <2>1, <2>4
<1>6. CASE Collected(CollectInside, ts)
  <2> DEFINE first == CollectInside(state, ts[1])
             after == IF Len(ts) = 1 THEN first ELSE CollectInside(first, ts[2])
  <2>1. texture' = after.texture /\ vertices' = after.vertices
    BY <1>6 DEF Collected
  <2>2. first = [texture |-> first.texture, vertices |-> first.vertices] /\ KeepsUp(first, p1)
    BY <1>2, <1>3, CollectInsideKeepsUp
  <2> HIDE DEF first, p1
  <2>3. Len(ts) # 1 => KeepsUp(CollectInside(first, ts[2]), p2)
    <3> DEFINE tx == first.texture
               vs == first.vertices
    <3>1. first = [texture |-> tx, vertices |-> vs]
      BY <2>2
    <3> HIDE DEF tx, vs
    <3>2. KeepsUp([texture |-> tx, vertices |-> vs], p1)
      BY <2>2, <3>1
    <3>3. Len(ts) # 1 => KeepsUp(CollectInside([texture |-> tx, vertices |-> vs], ts[2]), p2)
      BY <1>3, <3>2, CollectInsideKeepsUp
    <3> QED
      BY <3>1, <3>3
  <2> HIDE DEF p2
  <2>4. KeepsUp(after, picture')
    BY <1>1, <2>2, <2>3
  <2> HIDE DEF after
  <2> QED
    BY <1>4, <2>1, <2>4
<1>7. CASE Outside(ts) /\ UNCHANGED <<texture, vertices>>
  <2>1. \A i \in 1..Len(ts) : ts[i].cell \notin area
    BY <1>7 DEF Outside
  <2>2. p1 = picture
    BY <1>3, <2>1, OutsideIsNotDrawn
  <2>3. Len(ts) # 1 => p2 = p1
    BY <1>3, <2>1, OutsideIsNotDrawn
  <2>4. picture' = picture
    BY <1>1, <2>2, <2>3
  <2>5. KeepsUp(state, picture')
    BY <1>2, <2>4
  <2>6. texture' = state.texture /\ vertices' = state.vertices
    BY <1>7
  <2> HIDE DEF state
  <2> QED
    BY <1>4, <2>5, <2>6
<1> QED
  BY <1>5, <1>6, <1>7

\* Everything drawn, and then a cell written.
LEMMA WrittenKeepsUp ==
  ASSUME KeepUpInv, UNCHANGED <<area, masks>>, NEW c, NEW pixel, FlushAndWrite(c, pixel),
         picture' = [picture EXCEPT ![c] = pixel]
  PROVE  KeepUpInv'
<1>1. vertices' = <<>> /\ texture' = picture'
  BY DEF FlushAndWrite, KeepUpInv
<1>2. Flushed(texture', <<>>) = texture'
  BY FlushedNone
<1>3. Flushed(texture', vertices') = Flushed(texture, vertices)'
  BY DEF Flushed, Draw
<1>4. (Flushed(texture, vertices) = picture)'
  BY <1>1, <1>2, <1>3
<1> QED
  BY <1>1, <1>4 DEF KeepUpInv

LEMMA NoneFlushed == \A memory : Flushed(memory, <<>>) = memory
  BY FlushedNone

\* Everything drawn, under the area of before.
LEMMA FlushKeepsUp ==
  ASSUME KeepUpInv, Flush, UNCHANGED <<picture, masks>>, area' \in Areas
  PROVE  KeepUpInv' /\ texture' = picture'
<1>1. vertices' = <<>> /\ texture' = picture'
  BY DEF Flush, KeepUpInv
<1>2. (\A memory : Flushed(memory, <<>>) = memory)'
  BY NoneFlushed, PTL
<1>3. Flushed(texture, vertices)' = Flushed(texture, <<>>)'
  BY <1>1 DEF Flushed, Draw
<1>4. (Flushed(texture, vertices) = picture)'
  BY <1>1, <1>2, <1>3
<1> QED
  BY <1>1, <1>4 DEF KeepUpInv

LEMMA KeepUpStep == KeepUpInv /\ [Next]_vars => KeepUpInv'
<1> SUFFICES ASSUME KeepUpInv, [Next]_vars PROVE KeepUpInv'
  OBVIOUS
<1>0. Blendings \subseteq Blending
  BY RendererAssumption DEF RendererAssumption, Blending
<1>1. ASSUME NEW cs \in Seq(Cells), Len(cs) \in 1..2, NEW from \in Cells \union {"none"}, NEW how \in Blending
      PROVE  /\ Vertices(cs, from, how) \in Seq(AnyVertex)
             /\ Len(Vertices(cs, from, how)) \in 1..2
  <2> DEFINE vs == Vertices(cs, from, how)
  <2>1. masks.force \in BOOLEAN
    BY RendererAssumption DEF RendererAssumption, KeepUpInv
  <2>2. /\ vs = [i \in 1..Len(cs) |-> [cell |-> cs[i], from |-> from, how |-> how,
                                       force |-> masks.force]]
        /\ Len(vs) = Len(cs)
    BY DEF Vertices
  <2>3. \A i \in 1..Len(cs) : vs[i] \in AnyVertex
    BY <1>1, <2>1, <2>2 DEF AnyVertex
  <2> HIDE DEF vs
  <2>4. vs \in Seq(AnyVertex)
    BY <1>1, <2>2, <2>3
  <2> QED
    BY <1>1, <2>2, <2>4 DEF vs
<1>2. ASSUME NEW cs \in [1..1 -> Cells] \union [1..2 -> Cells], NEW from \in Cells \union {"none"},
             NEW how \in Blendings, DrawPolygon(cs, from, how)
      PROVE  KeepUpInv'
  <2> DEFINE drawn == PolygonBlending(from, how)
             ts == Vertices(cs, from, drawn)
  <2>1. /\ picture' = Flushed(picture, ts) /\ Collected(CollectInside, ts)
        /\ UNCHANGED <<area, masks>>
    BY <1>2 DEF DrawPolygon, ComputePolygon
  <2>2. cs \in Seq(Cells) /\ Len(cs) \in 1..2
    <3>1. CASE cs \in [1..1 -> Cells]
      <4>1. cs \in Seq(Cells) /\ Len(cs) = 1
        BY <3>1, FunctionIsSeq
      <4> QED
        BY <4>1
    <3>2. CASE cs \in [1..2 -> Cells]
      <4>1. cs \in Seq(Cells) /\ Len(cs) = 2
        BY <3>2, FunctionIsSeq
      <4> QED
        BY <4>1
    <3> QED
      BY <3>1, <3>2
  <2>3. ts \in Seq(AnyVertex) /\ Len(ts) \in 1..2
    <3>1. drawn \in Blending
      BY <1>0 DEF PolygonBlending, Blending
    <3> HIDE DEF drawn
    <3> QED
      BY <1>1, <2>2, <3>1
  <2> HIDE DEF ts
  <2> QED
    BY <2>1, <2>3, CollectedKeepsUp DEF KeepUpInv
<1>3. ASSUME NEW cs \in [1..2 -> Cells], NEW from \in Cells \union {"none"}, NEW how \in Blendings,
             DrawRectangle(cs, from, how)
      PROVE  KeepUpInv'
  <2> DEFINE ts == Vertices(cs, from, how)
  <2>1. /\ picture' = Flushed(picture, ts) /\ UNCHANGED <<area, masks>>
        /\ \/ Collected(Collect, ts)
           \/ Outside(ts) /\ UNCHANGED <<texture, vertices>>
    BY <1>3 DEF DrawRectangle, ComputeRectangle
  <2>2. cs \in Seq(Cells) /\ Len(cs) = 2
    BY FunctionIsSeq
  <2>3. ts \in Seq(AnyVertex) /\ Len(ts) \in 1..2
    BY <1>0, <1>1, <2>2
  <2> HIDE DEF ts
  <2> QED
    BY <2>1, <2>3, CollectedKeepsUp DEF KeepUpInv
<1>4. ASSUME NEW c, NEW pixel,
             \/ \E colour : FillRect(c, colour) /\ pixel = Pixel(colour, FALSE)
             \/ CpuToVramCopy(c, pixel, TRUE)
             \/ \E src : Vram2VramBlit(src, c) /\ pixel = picture[src]
      PROVE  KeepUpInv'
  <2>1. /\ picture' = [picture EXCEPT ![c] = pixel] /\ UNCHANGED <<area, masks>>
        /\ FlushAndWrite(c, pixel)
    BY <1>4 DEF FillRect, CpuToVramCopy, Vram2VramBlit, KeepUpInv
  <2> QED
    BY <2>1, WrittenKeepsUp
<1>5. CASE VramToCpuCopy \/ RenderFb
  <2>1. Flush /\ UNCHANGED <<picture, area, masks>>
    BY <1>5 DEF VramToCpuCopy, RenderFb
  <2>2. area' \in Areas
    BY <2>1 DEF KeepUpInv
  <2> QED
    BY <2>1, <2>2, FlushKeepsUp
<1>6. ASSUME NEW a \in Areas, DrawingAreaChange(a) PROVE KeepUpInv'
  BY <1>6, FlushKeepsUp DEF DrawingAreaChange, AreaChangeOf
<1>7. CASE \/ \E m \in Masks : PreservedMaskedPixelsChanged(m)
           \/ \E c, pixel : CpuToVramCopy(c, pixel, FALSE)
           \/ DrawLine \/ UNCHANGED vars
  <2>1. masks' \in Masks /\ UNCHANGED <<picture, area, texture, vertices>>
    BY <1>7 DEF PreservedMaskedPixelsChanged, CpuToVramCopy, DrawLine, vars, KeepUpInv
  <2>2. Flushed(texture, vertices)' = Flushed(texture, vertices)
    BY <2>1 DEF Flushed, Draw
  <2> QED
    BY <2>1, <2>2 DEF KeepUpInv
<1> QED
  BY <1>2, <1>3, <1>4, <1>5, <1>6, <1>7 DEF Next

LEMMA KeepUpInit == Init => KeepUpInv
<1> SUFFICES ASSUME Init PROVE KeepUpInv
  OBVIOUS
<1>1. /\ vertices = <<>> /\ texture = picture /\ area = ResetArea /\ masks = Unmasked
      /\ ResetArea \in Areas /\ Unmasked \in Masks
  BY RendererAssumption DEF RendererAssumption, Init
<1> QED
  BY <1>1, FlushedNone DEF KeepUpInv

\* However full the buffer gets, and however fills, copies and changes of the
\* drawing area and the masks come between, what the compute renderer has drawn and
\* what it has still to draw make the picture of every message drawn as it came.
THEOREM ComputeInStep == Spec => []ComputeKeepsUp
<1>1. KeepUpInv => ComputeKeepsUp
  BY DEF KeepUpInv, ComputeKeepsUp
<1> QED
  BY <1>1, KeepUpInit, KeepUpStep, PTL DEF Spec

\* A frame is shown and an image read back with everything drawn that was sent
\* before.
THEOREM ShownIsDrawn == Spec => ShownAsDrawn
<1>1. KeepUpInv /\ [Next]_vars => [(RenderFb \/ VramToCpuCopy) => texture' = picture]_vars
  BY DEF KeepUpInv, RenderFb, VramToCpuCopy, Flush
<1> QED
  BY <1>1, KeepUpInit, KeepUpStep, PTL DEF Spec, ShownAsDrawn

=============================================================================
