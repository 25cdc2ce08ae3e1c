----------------------------- MODULE GpuProofs -----------------------------
(***************************************************************************)
(* GP0's framing, the settings on their way to the renderer and the        *)
(* answers on their way back, for every vocabulary of opcodes, every       *)
(* capacity of the channels, every number of areas, masks and images, and  *)
(* each of the renderers.                                                  *)
(***************************************************************************)
EXTENDS Gpu, FiniteSetTheorems, TLAPS

Polyline == {"PolylineMono", "PolylineShaded"}

-----------------------------------------------------------------------------
(* The words of a command.                                                 *)

\* While a command comes in, what has come and what is left make up its length;
\* a polyline waits for more under an opcode that began it.  (An image that is
\* read counts its own words, and the opcode is forgotten.)
WordsInv ==
    /\ remaining \in Nat /\ len \in Nat /\ opcode \in 0..255
    /\ mode \in {"Command", "ImageLoad", "ImageStore"} \cup Polyline
    /\ (mode = "Command" /\ waiting # "store" /\ remaining > 0) =>
          len + remaining = GP0_COMMANDS[opcode].len
    /\ mode \in Polyline => Polylines(opcode) = mode /\ remaining = 2
    /\ ~panicked

LEMMA OpcodesAreBytes ==
  ASSUME NEW op \in (IF remaining = 0 THEN Opcodes ELSE {0})
  PROVE  op \in 0..255
  BY GpuAssumption DEF GpuAssumption

\* An image has a word at least.  With its rows filled up it has no fewer, and no
\* more either but for more than one row of an odd width.
LEMMA WordsOfImage ==
  ASSUME NEW i \in Image
  PROVE  /\ WordsOf(i) \in Nat \ {0} /\ AnswerWords(i) \in Nat
         /\ i.inside => /\ AnswerWords(i) >= WordsOf(i)
                        /\ ~Skewed(i) => AnswerWords(i) = WordsOf(i)
<1> DEFINE w == i.width
           h == i.height
           n == w * h
           k == (w + 1) \div 2
<1>1. w \in Nat \ {0} /\ h \in Nat \ {0}
  BY DEF Image
<1>2. /\ WordsOf(i) = (n + 1) \div 2
      /\ Renderer = "software" => AnswerWords(i) = WordsOf(i)
      /\ Renderer # "software" => AnswerWords(i) = IF i.inside THEN k * h ELSE 0
      /\ Skewed(i) <=> Renderer # "software" /\ w % 2 = 1 /\ h > 1
  BY DEF WordsOf, AnswerWords, Skewed
<1>3. i.inside \in BOOLEAN
  BY DEF Image
<1> HIDE DEF w, h
<1>4. n \in Nat \ {0}
  <2>1. n = (w - 1) * h + h /\ (w - 1) * h \in Nat
    BY <1>1
  <2> HIDE DEF n
  <2> QED
    BY <1>1, <2>1
<1>5. k \in Nat /\ k * h \in Nat
  <2>1. k \in Nat
    BY <1>1
  <2> HIDE DEF k
  <2> QED
    BY <1>1, <2>1
<1>6. /\ w % 2 = 0 => n = 2 * (k * h)
      /\ w % 2 = 1 => n + h = 2 * (k * h)
      /\ w % 2 \in {0, 1}
  <2>1. w % 2 \in {0, 1} /\ w + (w % 2) = 2 * k
    BY <1>1
  <2> HIDE DEF k
  <2>2. (w + (w % 2)) * h = n + (w % 2) * h /\ (2 * k) * h = 2 * (k * h)
    BY <1>1, <1>5, <2>1
  <2> HIDE DEF n
  <2> QED
    BY <1>1, <1>4, <1>5, <2>1, <2>2
<1> DEFINE m == k * h
<1>7. /\ (n + 1) \div 2 \in Nat \ {0}
      /\ m >= (n + 1) \div 2
      /\ (w % 2 = 0 \/ h = 1) => m = (n + 1) \div 2
  <2> HIDE DEF n, m
  <2> QED
    BY <1>1, <1>4, <1>5, <1>6 DEF m
<1> HIDE DEF n, k
<1> QED
  BY <1>1, <1>2, <1>3, <1>5, <1>6, <1>7

LEMMA ImagesOnly == Images \subseteq Image /\ WholeVram \in Image
  BY GpuAssumption DEF GpuAssumption

LEMMA WordsToMove == \A i \in Images : WordsOf(i) \in Nat \ {0}
  BY ImagesOnly, WordsOfImage

\* The word decoded: where it stands in which command.
LEMMA DecodedWord ==
  ASSUME WordsInv, waiting = "no", NEW op \in 0..255
  PROVE  LET d == Decoded(op)
             c == GP0_COMMANDS[d.op]
         IN /\ d.op \in 0..255 /\ d.len \in Nat /\ d.left \in Nat
            /\ d.mode = "Command" => d.len + 1 + d.left = c.len
            /\ d.mode \in Polyline => Polylines(d.op) = d.mode
            /\ d.mode \in {"Command", "ImageLoad", "ImageStore"} \cup Polyline
<1>1. Polylines(op) \in {"Command"} \cup Polyline
  BY DEF Polylines, Polyline
<1>2. GP0_COMMANDS[op].len \in Nat \ {0}
  BY TableFits
<1>3. CASE remaining = 0
  BY <1>1, <1>2, <1>3 DEF Decoded, WordsInv, Polyline
<1>4. CASE remaining # 0
  BY <1>4 DEF Decoded, WordsInv
<1> QED
  BY <1>3, <1>4

\* A handler that runs finds the words it indexes.
LEMMA FinishHasWords ==
  ASSUME WordsInv, waiting = "no", NEW op \in 0..255, NEW type, Finish(op, type)
  PROVE  ~panicked' /\ opcode' = 0 /\ len' = 0
<1> DEFINE d == Decoded(op)
           c == GP0_COMMANDS[d.op]
<1>1. /\ d.op \in 0..255 /\ d.len \in Nat
      /\ d.mode = "Command" => d.len + 1 + d.left = c.len
  BY DecodedWord
<1>2. /\ d.mode = "Command" /\ d.left = 0
      /\ panicked' = (c.handler.needs > d.len + 1)
      /\ opcode' = 0 /\ len' = 0
  BY DEF Finish, Reads, Forgotten
<1>3. c.handler.needs \in 0..c.len /\ c.len \in Nat
  BY <1>1, TableFits
<1> HIDE DEF d, c
<1>4. c.len = d.len + 1
  BY <1>1, <1>2
<1>5. ~(c.handler.needs > d.len + 1)
  BY <1>3, <1>4
<1> QED
  BY <1>2, <1>5

LEMMA Gp0Words ==
  ASSUME WordsInv, NEW op \in 0..255, Gp0(op)
  PROVE  WordsInv'
<1> USE DEF WordsInv
<1>0. waiting = "no"
  BY DEF Gp0
<1>1. CASE Gather(op)
  <2> DEFINE d == Decoded(op)
             c == GP0_COMMANDS[d.op]
  <2>1. /\ d.op \in 0..255 /\ d.len \in Nat /\ d.left \in Nat
        /\ d.mode = "Command" => d.len + 1 + d.left = c.len
    BY <1>0, DecodedWord
  <2>2. /\ mode' = "Command" /\ opcode' = d.op /\ len' = d.len + 1
        /\ remaining' = d.left /\ d.mode = "Command" /\ UNCHANGED panicked
    BY <1>1 DEF Gather
  <2>3. GP0_COMMANDS[opcode'] = c
    BY <2>2
  <2> HIDE DEF d, c
  <2> QED
    BY <2>1, <2>2, <2>3 DEF Polyline
<1>2. CASE \/ DrawCommand(op) \/ RegisterCommand(op) \/ DrawingArea(op)
           \/ MaskBitSetting(op)
  <2>1. (\E type : Finish(op, type)) /\ Idle
    BY <1>2 DEF DrawCommand, RegisterCommand, DrawingArea, MaskBitSetting
  <2> QED
    BY <1>0, <2>1, FinishHasWords DEF Idle, Polyline
<1>3. CASE ImageLoad(op)
  <2>1. Finish(op, "load")
    BY <1>3 DEF ImageLoad
  <2> QED
    BY <1>0, <1>3, <2>1, FinishHasWords, WordsToMove DEF ImageLoad, Polyline
<1>4. CASE ImageStore(op)
  <2>1. Finish(op, "store")
    BY <1>4 DEF ImageStore
  <2> QED
    BY <1>0, <1>4, <2>1, FinishHasWords, WordsToMove DEF ImageStore, Polyline
<1>5. CASE ImageLoadWord(op)
  <2>1. Decoded(op).left \in Nat
    BY <1>0, DecodedWord
  <2>2. /\ remaining' = Decoded(op).left
        /\ (mode' = "Command" /\ remaining' = 0) \/ mode' = "ImageLoad"
        /\ UNCHANGED <<opcode, len, panicked>>
    BY <1>5 DEF ImageLoadWord
  <2> QED
    BY <2>1, <2>2 DEF Polyline
<1>6. CASE ImageStoreWord(op)
  <2>1. Decoded(op).left \in Nat
    BY <1>0, DecodedWord
  <2>2. mode = "ImageStore"
    BY <1>6 DEF ImageStoreWord, Decoded, Polylines
  <2>3. /\ remaining' = Decoded(op).left /\ opcode' = 0 /\ len' = 0
        /\ UNCHANGED <<mode, panicked>>
    BY <1>6 DEF ImageStoreWord, Forgotten
  <2> QED
    BY <2>1, <2>2, <2>3 DEF Polyline
<1>7. CASE PolylineWord(op)
  <2> DEFINE d == Decoded(op)
             h == GP0_COMMANDS[d.op].handler
  <2>1. /\ d.op \in 0..255 /\ d.len \in Nat
        /\ d.mode \in Polyline /\ Polylines(d.op) = d.mode
    BY <1>0, <1>7, DecodedWord DEF PolylineWord, Polyline
  <2>2. /\ d.mode = "PolylineMono" => h.needs <= 3
        /\ d.mode = "PolylineShaded" => h.needs <= 4
        /\ h.needs \in Nat
    <3>1. LET c == GP0_COMMANDS[d.op]
          IN /\ c.len \in Nat \ {0} /\ c.handler.needs \in 0..c.len
             /\ Polylines(d.op) = "PolylineMono" => c.handler.needs <= 3
             /\ Polylines(d.op) = "PolylineShaded" => c.handler.needs <= 4
      <4> HIDE DEF d
      <4> QED
        BY <2>1, TableFits
    <3> QED
      BY <2>1, <3>1
  <2>3. /\ mode' = d.mode /\ opcode' = d.op /\ remaining' = 2
        /\ \/ /\ Segment(d.mode, d.len + 1) /\ len' = 2
              /\ panicked' = (h.needs > d.len + 1)
           \/ len' = d.len + 1 /\ UNCHANGED panicked
    BY <1>7 DEF PolylineWord, Reads
  <2>4. ~panicked'
    <3>1. CASE UNCHANGED panicked
      BY <3>1
    <3>2. CASE Segment(d.mode, d.len + 1) /\ panicked' = (h.needs > d.len + 1)
      <4> HIDE DEF d, h
      <4>1. h.needs <= d.len + 1 /\ d.len + 1 \in Nat
        BY <2>1, <2>2, <3>2 DEF Segment
      <4>2. ~(h.needs > d.len + 1)
        BY <2>2, <4>1
      <4> QED
        BY <3>2, <4>2
    <3> QED
      BY <2>3, <3>1, <3>2
  <2> QED
    BY <2>1, <2>3, <2>4 DEF Polyline
<1>8. CASE PolylineEnd(op)
  BY <1>8 DEF PolylineEnd, Forgotten, Polyline
<1> QED
  BY <1>1, <1>2, <1>3, <1>4, <1>5, <1>6, <1>7, <1>8 DEF Gp0

LEMMA WordsStep == WordsInv /\ [Next]_vars => WordsInv'
<1> SUFFICES ASSUME WordsInv, [Next]_vars PROVE WordsInv'
  OBVIOUS
<1> USE DEF WordsInv
<1>1. ASSUME NEW op \in (IF remaining = 0 THEN Opcodes ELSE {0}), Gp0(op)
      PROVE  WordsInv'
  BY <1>1, Gp0Words, OpcodesAreBytes
<1>2. CASE Gp1ResetCommandBuffer \/ Gp1Reset
  BY <1>2 DEF Gp1ResetCommandBuffer, Gp1Reset, ResetCommandBuffer, Forgotten, Polyline
<1>3. CASE Read
  BY <1>3 DEF Read, Polyline
<1>4. CASE RenderFb \/ RenderFbFull \/ SaveVram
  BY <1>4 DEF RenderFb, RenderFbFull, SaveVram, port
<1>5. CASE LoadState
  BY <1>5 DEF LoadState, Forgotten, Polyline
<1>6. CASE StoreAnswered
  BY <1>6 DEF StoreAnswered, Polyline
<1>7. CASE OtherAnswered
  BY <1>7 DEF OtherAnswered, port
<1>8. CASE RendererStep
  BY <1>8 DEF RendererStep, port
<1>9. CASE UNCHANGED vars
  BY <1>9 DEF vars, port
<1> QED
  BY <1>1, <1>2, <1>3, <1>4, <1>5, <1>6, <1>7, <1>8, <1>9 DEF Next

LEMMA WordsInit == Init => WordsInv
  BY DEF Init, WordsInv, Polyline

\* No handler indexes a word that has not come, whatever the guest sends and
\* wherever it breaks a command off.
THEOREM WordsThere == Spec => []HandlersHaveTheirWords
<1>1. WordsInv => HandlersHaveTheirWords
  BY DEF WordsInv, HandlersHaveTheirWords
<1> QED
  BY <1>1, WordsInit, WordsStep, PTL DEF Spec

-----------------------------------------------------------------------------
(* The settings on their way.                                              *)

Message ==
    [type : {"draw", "load", "frame"}] \cup [type : {"read"}, image : Image]
    \cup [type : {"area"}, area : Areas] \cup [type : {"masks"}, masks : MaskValues]

\* The last message of the type in the channel is m; with none of them left the
\* renderer has been told.
Last(q, type, m) ==
    \A i \in 1..Len(q) :
        (q[i].type = type /\ \A j \in (i + 1)..Len(q) : q[j].type # type) => q[i] = m
None(q, type) == \A i \in 1..Len(q) : q[i].type # type

ChannelInv == toRenderer \in Seq(Message) /\ area \in Areas /\ masks \in MaskValues

\* Unless a register was changed without a message, the last message about it
\* that is on its way, or the renderer's copy if none is, holds what it holds.
AreaInv ==
    "area" \notin behind =>
        /\ Last(toRenderer, "area", AreaMessage(area))
        /\ None(toRenderer, "area") => rArea = area
MasksInv ==
    "masks" \notin behind =>
        /\ Last(toRenderer, "masks", MasksMessage(masks))
        /\ None(toRenderer, "masks") => rMasks = masks

FollowInv == ChannelInv /\ AreaInv /\ MasksInv

LEMMA MessageTypes ==
  /\ \A a : AreaMessage(a).type = "area" /\ AreaMessage(a).area = a
  /\ \A m : MasksMessage(m).type = "masks" /\ MasksMessage(m).masks = m
  /\ \A i : ReadMessage(i).type = "read"
  /\ \A a \in Areas : AreaMessage(a) \in Message
  /\ \A m \in MaskValues : MasksMessage(m) \in Message
  /\ \A i \in Image : ReadMessage(i) \in Message
  /\ \A t \in {"draw", "load", "frame"} : [type |-> t] \in Message
  BY DEF AreaMessage, MasksMessage, ReadMessage, Message

\* A message sent is the last of its type, and no other type sees it.
LEMMA Appended ==
  ASSUME NEW q \in Seq(Message), NEW n \in Message, NEW type, NEW m
  PROVE  /\ Append(q, n) \in Seq(Message)
         /\ n.type # type => /\ Last(q, type, m) => Last(Append(q, n), type, m)
                             /\ None(Append(q, n), type) <=> None(q, type)
         /\ n.type = type => /\ Last(Append(q, n), type, n)
                             /\ ~None(Append(q, n), type)
<1> DEFINE r == Append(q, n)
<1>1. /\ r \in Seq(Message) /\ Len(q) \in Nat /\ Len(r) = Len(q) + 1
      /\ r[Len(r)] = n /\ \A i \in 1..Len(q) : r[i] = q[i]
  OBVIOUS
<1> HIDE DEF r
<1>2. ASSUME n.type # type, Last(q, type, m) PROVE Last(r, type, m)
  <2> SUFFICES ASSUME NEW i \in 1..Len(r), r[i].type = type,
                      \A j \in (i + 1)..Len(r) : r[j].type # type
               PROVE  r[i] = m
    BY DEF Last
  <2>1. i \in 1..Len(q)
    BY <1>1, <1>2
  <2>2. \A j \in (i + 1)..Len(q) : q[j].type # type
    BY <1>1, <2>1
  <2> QED
    BY <1>1, <1>2, <2>1, <2>2 DEF Last
<1>3. n.type # type => (None(r, type) <=> None(q, type))
  BY <1>1 DEF None
<1>4. n.type = type => Last(r, type, n) /\ ~None(r, type)
  BY <1>1 DEF Last, None
<1> QED
  BY <1>1, <1>2, <1>3, <1>4 DEF r

\* A message taken: if it was the only one of its type it was the last.
LEMMA Taken ==
  ASSUME NEW q \in Seq(Message), q # <<>>, NEW type, NEW m, Last(q, type, m)
  PROVE  /\ Tail(q) \in Seq(Message) /\ Head(q) \in Message
         /\ Last(Tail(q), type, m)
         /\ None(Tail(q), type) => IF Head(q).type = type THEN Head(q) = m
                                                          ELSE None(q, type)
<1> DEFINE r == Tail(q)
<1>1. /\ r \in Seq(Message) /\ Len(q) \in Nat /\ Len(r) = Len(q) - 1 /\ Len(q) > 0
      /\ Head(q) = q[1] /\ Head(q) \in Message
      /\ \A i \in 1..Len(r) : r[i] = q[i + 1]
  OBVIOUS
<1> HIDE DEF r
<1>2. Last(r, type, m)
  <2> SUFFICES ASSUME NEW i \in 1..Len(r), r[i].type = type,
                      \A j \in (i + 1)..Len(r) : r[j].type # type
               PROVE  r[i] = m
    BY DEF Last
  <2>1. i + 1 \in 1..Len(q) /\ q[i + 1].type = type
    BY <1>1
  <2>2. ASSUME NEW j \in (i + 1 + 1)..Len(q) PROVE q[j].type # type
    <3>1. j - 1 \in (i + 1)..Len(r) /\ j - 1 \in 1..Len(r) /\ (j - 1) + 1 = j
      BY <1>1, <2>2
    <3> QED
      BY <1>1, <3>1
  <2> QED
    BY <1>1, <2>1, <2>2 DEF Last
<1>3. ASSUME None(r, type) PROVE \A j \in 2..Len(q) : q[j].type # type
  <2> SUFFICES ASSUME NEW j \in 2..Len(q) PROVE q[j].type # type
    OBVIOUS
  <2>1. j - 1 \in 1..Len(r) /\ (j - 1) + 1 = j
    BY <1>1
  <2> QED
    BY <1>1, <1>3, <2>1 DEF None
<1>4. None(r, type) => IF q[1].type = type THEN q[1] = m ELSE None(q, type)
  BY <1>1, <1>3 DEF Last, None
<1> QED
  BY <1>1, <1>2, <1>4 DEF r

\* A step that sends a message about neither setting, or nothing.
Silent ==
    /\ toRenderer' = toRenderer \/ \E m \in Message : /\ m.type \notin {"area", "masks"}
                                                      /\ toRenderer' = Append(toRenderer, m)
    /\ UNCHANGED <<rArea, rMasks, area, masks, behind>>

LEMMA SilentFollows == ASSUME FollowInv, Silent PROVE FollowInv'
<1>1. CASE toRenderer' = toRenderer
  BY <1>1 DEF FollowInv, Silent, ChannelInv, AreaInv, MasksInv
<1>2. ASSUME NEW m \in Message, m.type \notin {"area", "masks"},
             toRenderer' = Append(toRenderer, m)
      PROVE  FollowInv'
  <2>1. toRenderer' \in Seq(Message)
    BY <1>2, Appended DEF FollowInv, ChannelInv
  <2>2. /\ Last(toRenderer, "area", AreaMessage(area)) => Last(toRenderer', "area", AreaMessage(area))
        /\ None(toRenderer', "area") <=> None(toRenderer, "area")
    BY <1>2, Appended DEF FollowInv, ChannelInv
  <2>3. /\ Last(toRenderer, "masks", MasksMessage(masks)) => Last(toRenderer', "masks", MasksMessage(masks))
        /\ None(toRenderer', "masks") <=> None(toRenderer, "masks")
    BY <1>2, Appended DEF FollowInv, ChannelInv
  <2> QED
    BY <2>1, <2>2, <2>3 DEF FollowInv, ChannelInv, AreaInv, MasksInv, Silent
<1> QED
  BY <1>1, <1>2 DEF Silent

\* A drawing area sent, whatever was pending before.
LEMMA AreaFollows ==
  ASSUME FollowInv, area' \in Areas, toRenderer' = Append(toRenderer, AreaMessage(area')),
         behind' = behind \ {"area"}, UNCHANGED <<masks, rArea, rMasks>>
  PROVE  FollowInv'
<1>1. AreaMessage(area') \in Message /\ AreaMessage(area').type = "area"
  BY MessageTypes
<1>2. toRenderer \in Seq(Message)
  BY DEF FollowInv, ChannelInv
<1>3. /\ toRenderer' \in Seq(Message)
      /\ Last(toRenderer', "area", AreaMessage(area')) /\ ~None(toRenderer', "area")
  BY <1>1, <1>2, Appended
<1>4. /\ Last(toRenderer, "masks", MasksMessage(masks)) => Last(toRenderer', "masks", MasksMessage(masks))
      /\ None(toRenderer', "masks") <=> None(toRenderer, "masks")
  BY <1>1, <1>2, Appended
<1>5. AreaInv'
  BY <1>3 DEF AreaInv
<1>6. MasksInv'
  BY <1>4 DEF MasksInv, FollowInv
<1> QED
  BY <1>3, <1>5, <1>6 DEF FollowInv, ChannelInv

LEMMA MasksFollow ==
  ASSUME FollowInv, masks' \in MaskValues, toRenderer' = Append(toRenderer, MasksMessage(masks')),
         behind' = behind \ {"masks"}, UNCHANGED <<area, rArea, rMasks>>
  PROVE  FollowInv'
<1>1. MasksMessage(masks') \in Message /\ MasksMessage(masks').type = "masks"
  BY MessageTypes
<1>2. toRenderer \in Seq(Message)
  BY DEF FollowInv, ChannelInv
<1>3. /\ toRenderer' \in Seq(Message)
      /\ Last(toRenderer', "masks", MasksMessage(masks')) /\ ~None(toRenderer', "masks")
  BY <1>1, <1>2, Appended
<1>4. /\ Last(toRenderer, "area", AreaMessage(area)) => Last(toRenderer', "area", AreaMessage(area))
      /\ None(toRenderer', "area") <=> None(toRenderer, "area")
  BY <1>1, <1>2, Appended
<1>5. MasksInv'
  BY <1>3 DEF MasksInv
<1>6. AreaInv'
  BY <1>4 DEF AreaInv, FollowInv
<1> QED
  BY <1>3, <1>5, <1>6 DEF FollowInv, ChannelInv

\* What GP0 sends: a drawing area, masks if they are others, or neither.
LEMMA Gp0Follows == ASSUME FollowInv, NEW op, Gp0(op) PROVE FollowInv'
<1>1. /\ [type |-> "draw"] \in Message /\ [type |-> "load"] \in Message
      /\ \A i \in Images : ReadMessage(i) \in Message
  BY MessageTypes, ImagesOnly
<1>2. \A type : Finish(op, type) => UNCHANGED <<rArea, rMasks>>
  BY DEF Finish
<1>3. CASE \/ Gather(op) \/ RegisterCommand(op) \/ ImageLoad(op)
           \/ ImageStoreWord(op) \/ PolylineEnd(op)
  <2>1. UNCHANGED <<toRenderer, rArea, rMasks, area, masks, behind>>
    BY <1>2, <1>3 DEF Gather, RegisterCommand, ImageLoad, ImageStoreWord, PolylineEnd
  <2> QED
    BY <2>1, SilentFollows DEF Silent
<1>4. CASE DrawCommand(op) \/ ImageLoadWord(op) \/ PolylineWord(op)
  <2>1. /\ \/ toRenderer' = toRenderer
           \/ toRenderer' = Append(toRenderer, [type |-> "draw"])
           \/ toRenderer' = Append(toRenderer, [type |-> "load"])
        /\ UNCHANGED <<rArea, rMasks, area, masks, behind>>
    BY <1>2, <1>4 DEF DrawCommand, ImageLoadWord, PolylineWord, Send
  <2> QED
    BY <1>1, <2>1, SilentFollows DEF Silent
<1>5. CASE ImageStore(op)
  <2>1. /\ \E i \in Images : toRenderer' = Append(toRenderer, ReadMessage(i))
        /\ UNCHANGED <<rArea, rMasks, area, masks, behind>>
    BY <1>2, <1>5 DEF ImageStore, Send
  <2> QED
    BY <1>1, <2>1, MessageTypes, SilentFollows DEF Silent
<1>6. CASE DrawingArea(op)
  BY <1>2, <1>6, AreaFollows DEF DrawingArea, SendDrawingAreaChange, Send
<1>7. CASE MaskBitSetting(op)
  <2>1. CASE ToldOf(masks, masks')
    BY <1>2, <1>7, <2>1, MasksFollow DEF MaskBitSetting, Send
  <2>2. CASE ~ToldOf(masks, masks')
    BY <1>2, <1>7, <2>2, SilentFollows DEF MaskBitSetting, Silent, ToldOf
  <2> QED
    BY <2>1, <2>2
<1> QED
  BY <1>3, <1>4, <1>5, <1>6, <1>7 DEF Gp0

\* A reset tells nobody, and says so.
LEMMA ResetFollows == ASSUME FollowInv, Gp1Reset PROVE FollowInv'
<1>1. /\ toRenderer' = toRenderer /\ area' = 0 /\ masks' = 0
      /\ "area" \notin behind' => "area" \notin behind /\ area = 0
      /\ "masks" \notin behind' => "masks" \notin behind /\ masks = 0
      /\ UNCHANGED <<rArea, rMasks>>
  BY DEF Gp1Reset
<1>2. 0 \in Areas /\ 0 \in MaskValues
  BY GpuAssumption DEF GpuAssumption
<1> QED
  BY <1>1, <1>2 DEF FollowInv, ChannelInv, AreaInv, MasksInv

\* A loaded state sends its drawing area, and its picture after it.
LEMMA LoadFollows == ASSUME FollowInv, LoadState PROVE FollowInv'
<1> DEFINE q == toRenderer
           a == AreaMessage(area')
           l == [type |-> "load"]
<1>1. /\ a \in Message /\ a.type = "area" /\ l \in Message /\ l.type = "load"
      /\ q \in Seq(Message) /\ area' \in Areas /\ masks' \in MaskValues
  BY MessageTypes DEF LoadState, FollowInv, ChannelInv
<1>2. toRenderer' = Append(Append(q, a), l)
  <2>1. toRenderer' = q \o <<a, l>>
    BY DEF LoadState
  <2> HIDE DEF q, a, l
  <2>2. q \o <<a, l>> = Append(Append(q, a), l)
    BY <1>1
  <2> QED
    BY <2>1, <2>2
<1>3. /\ "masks" \notin behind' => "masks" \notin behind /\ masks' = masks
      /\ UNCHANGED <<rArea, rMasks>>
  BY DEF LoadState
<1> HIDE DEF q, a, l
<1>4. Append(q, a) \in Seq(Message) /\ Last(Append(q, a), "area", a) /\ ~None(Append(q, a), "area")
  BY <1>1, Appended
<1>5. /\ toRenderer' \in Seq(Message)
      /\ Last(toRenderer', "area", a) /\ ~None(toRenderer', "area")
  BY <1>1, <1>2, <1>4, Appended
<1>6. /\ Last(q, "masks", MasksMessage(masks)) => Last(toRenderer', "masks", MasksMessage(masks))
      /\ None(toRenderer', "masks") <=> None(q, "masks")
  <2>1. /\ Last(q, "masks", MasksMessage(masks)) => Last(Append(q, a), "masks", MasksMessage(masks))
        /\ None(Append(q, a), "masks") <=> None(q, "masks")
    BY <1>1, Appended
  <2>2. /\ Last(Append(q, a), "masks", MasksMessage(masks)) => Last(toRenderer', "masks", MasksMessage(masks))
        /\ None(toRenderer', "masks") <=> None(Append(q, a), "masks")
    BY <1>1, <1>2, <1>4, Appended
  <2> QED
    BY <2>1, <2>2
<1>7. AreaInv'
  BY <1>5 DEF AreaInv, a
<1>8. MasksInv'
  BY <1>3, <1>6 DEF MasksInv, FollowInv, q
<1> QED
  BY <1>1, <1>5, <1>7, <1>8 DEF FollowInv, ChannelInv

\* The renderer takes a message and keeps what it says.
LEMMA RendererFollowsStep == ASSUME FollowInv, RendererStep PROVE FollowInv'
<1> DEFINE q == toRenderer
           m == Head(q)
<1>1. /\ q # <<>> /\ toRenderer' = Tail(q)
      /\ rArea' = IF m.type = "area" THEN m.area ELSE rArea
      /\ rMasks' = IF m.type = "masks" THEN m.masks ELSE rMasks
      /\ UNCHANGED <<area, masks, behind>>
  BY DEF RendererStep
<1>2. q \in Seq(Message)
  BY DEF FollowInv, ChannelInv
<1>3. Tail(q) \in Seq(Message)
  BY <1>1, <1>2
<1>4. AreaInv'
  <2>1. CASE "area" \notin behind
    <3> DEFINE a == AreaMessage(area)
    <3>1. Last(q, "area", a) /\ (None(q, "area") => rArea = area)
      BY <2>1 DEF FollowInv, AreaInv
    <3>2. a.area = area
      BY MessageTypes
    <3> HIDE DEF q, a
    <3>3. /\ Last(Tail(q), "area", a)
          /\ None(Tail(q), "area") => IF Head(q).type = "area" THEN Head(q) = a ELSE None(q, "area")
      BY <1>1, <1>2, <3>1, Taken
    <3>4. None(Tail(q), "area") => rArea' = area
      BY <1>1, <3>1, <3>2, <3>3
    <3> QED
      BY <1>1, <3>3, <3>4 DEF AreaInv, a
  <2>2. CASE "area" \in behind
    BY <1>1, <2>2 DEF AreaInv
  <2> QED
    BY <2>1, <2>2
<1>5. MasksInv'
  <2>1. CASE "masks" \notin behind
    <3> DEFINE a == MasksMessage(masks)
    <3>1. Last(q, "masks", a) /\ (None(q, "masks") => rMasks = masks)
      BY <2>1 DEF FollowInv, MasksInv
    <3>2. a.masks = masks
      BY MessageTypes
    <3> HIDE DEF q, a
    <3>3. /\ Last(Tail(q), "masks", a)
          /\ None(Tail(q), "masks") => IF Head(q).type = "masks" THEN Head(q) = a ELSE None(q, "masks")
      BY <1>1, <1>2, <3>1, Taken
    <3>4. None(Tail(q), "masks") => rMasks' = masks
      BY <1>1, <3>1, <3>2, <3>3
    <3> QED
      BY <1>1, <3>3, <3>4 DEF MasksInv, a
  <2>2. CASE "masks" \in behind
    BY <1>1, <2>2 DEF MasksInv
  <2> QED
    BY <2>1, <2>2
<1> QED
  BY <1>1, <1>3, <1>4, <1>5 DEF FollowInv, ChannelInv

LEMMA FollowStep == FollowInv /\ [Next]_vars => FollowInv'
<1> SUFFICES ASSUME FollowInv, [Next]_vars PROVE FollowInv'
  OBVIOUS
<1>1. ASSUME NEW op, Gp0(op) PROVE FollowInv'
  BY <1>1, Gp0Follows
<1>2. CASE \/ Gp1ResetCommandBuffer \/ Read \/ StoreAnswered \/ OtherAnswered
           \/ UNCHANGED vars
  <2>1. UNCHANGED <<toRenderer, rArea, rMasks, area, masks, behind>>
    BY <1>2 DEF Gp1ResetCommandBuffer, Read, StoreAnswered, OtherAnswered, vars
  <2> QED
    BY <2>1, SilentFollows DEF Silent
<1>3. CASE RenderFb \/ RenderFbFull \/ SaveVram
  <2>1. /\ \/ toRenderer' = Append(toRenderer, [type |-> "frame"])
           \/ toRenderer' = Append(toRenderer, ReadMessage(WholeVram))
        /\ UNCHANGED <<rArea, rMasks, area, masks, behind>>
    BY <1>3 DEF RenderFb, RenderFbFull, SaveVram, Send
  <2>2. [type |-> "frame"] \in Message /\ ReadMessage(WholeVram) \in Message
    BY MessageTypes, ImagesOnly
  <2> QED
    BY <2>1, <2>2, MessageTypes, SilentFollows DEF Silent
<1>4. CASE Gp1Reset
  BY <1>4, ResetFollows
<1>5. CASE LoadState
  BY <1>5, LoadFollows
<1>6. CASE RendererStep
  BY <1>6, RendererFollowsStep
<1> QED
  BY <1>1, <1>2, <1>3, <1>4, <1>5, <1>6 DEF Next

LEMMA FollowInit == Init => FollowInv
<1> SUFFICES ASSUME Init PROVE FollowInv
  OBVIOUS
<1>1. /\ toRenderer = <<>> /\ area = 0 /\ masks = 0 /\ rArea = 0 /\ rMasks = 0
      /\ 0 \in Areas /\ 0 \in MaskValues
  BY GpuAssumption DEF GpuAssumption, Init
<1> QED
  BY <1>1 DEF FollowInv, ChannelInv, AreaInv, MasksInv, Last, None

\* With nothing about a setting on its way the renderer clips to the drawing area
\* and obeys the masks the Gpu holds, for every capacity of the channel, unless a
\* reset or a loaded state has changed the one or the other in silence.
THEOREM RendererTold == Spec => []RendererFollows
<1>1. FollowInv => RendererFollows
  BY DEF FollowInv, AreaInv, MasksInv, None, RendererFollows, Pending
<1> QED
  BY <1>1, FollowInit, FollowStep, PTL DEF Spec

-----------------------------------------------------------------------------
(* Questions and their answers.                                            *)

Answers == [type : {"fb"}] \cup [type : {"vram"}, words : Nat]

\* The answer the blocked thread waits for.
Awaited(a) ==
    \/ waiting = "frame" /\ a = [type |-> "fb"]
    \/ waiting = "save"  /\ a = [type |-> "vram", words |-> AnswerWords(WholeVram)]
    \/ waiting = "store" /\ a = [type |-> "vram", words |-> AnswerWords(store.image)]

QuestionsIn(q) == {i \in DOMAIN q : Asks(q[i])}
Outstanding == IF waiting = "no" THEN 0 ELSE 1

ChannelsInv == toRenderer \in Seq(Message) /\ toGpu \in Seq(Answers)

CountInv ==
    Len(toGpu) + Cardinality(QuestionsIn(toRenderer)) = fullFrames + Outstanding

\* While no frame was shown whole, nothing is on its way, there or back, but the
\* question of the blocked thread or its answer.
AwaitedInv ==
    fullFrames = 0 =>
        /\ \A i \in DOMAIN toRenderer :
              Asks(toRenderer[i]) => Awaited(AnswerOf(toRenderer[i]))
        /\ \A i \in DOMAIN toGpu : Awaited(toGpu[i])

\* The image asked for is kept beside the words it has as the Gpu counts them; once
\* it has come, so are the words of the renderer's answer.
StoreInv ==
    /\ waiting \in {"no", "frame", "save", "store"}
    /\ remaining \in Nat /\ fullFrames \in Nat
    /\ store \in [at : Nat, words : Nat, real : BOOLEAN, image : Image]
    /\ waiting = "store" =>
          store.at = 0 /\ store.real /\ remaining = WordsOf(store.image)
    /\ (mode = "ImageStore" /\ ~swallowed /\ fullFrames = 0) =>
          /\ store.real /\ remaining > 0
          /\ store.words = AnswerWords(store.image)
          /\ store.at + remaining = WordsOf(store.image)

TalkInv == ChannelsInv /\ CountInv /\ AwaitedInv

AnswersInv == TalkInv /\ StoreInv

LEMMA FinitelyMany ==
  ASSUME NEW S, NEW q \in Seq(S)
  PROVE  /\ IsFiniteSet(QuestionsIn(q)) /\ Cardinality(QuestionsIn(q)) \in Nat
         /\ QuestionsIn(q) \subseteq 1..Len(q)
<1>1. DOMAIN q = 1..Len(q) /\ Len(q) \in Nat
  OBVIOUS
<1>2. IsFiniteSet(1..Len(q))
  BY <1>1, FS_Interval
<1>3. QuestionsIn(q) \subseteq 1..Len(q)
  BY <1>1 DEF QuestionsIn
<1>4. IsFiniteSet(QuestionsIn(q))
  BY <1>2, <1>3, FS_Subset
<1> QED
  BY <1>3, <1>4, FS_CardinalityType

One(m) == IF Asks(m) THEN 1 ELSE 0

\* A message sent is one question more, or none.
LEMMA QuestionSent ==
  ASSUME NEW S, NEW q \in Seq(S), NEW m \in S
  PROVE  Cardinality(QuestionsIn(Append(q, m))) = Cardinality(QuestionsIn(q)) + One(m)
<1> DEFINE r == Append(q, m)
           n == Len(q)
<1>1. /\ n \in Nat /\ DOMAIN q = 1..n /\ DOMAIN r = 1..(n + 1)
      /\ r[n + 1] = m /\ \A i \in 1..n : r[i] = q[i]
  OBVIOUS
<1>2. /\ IsFiniteSet(QuestionsIn(q)) /\ Cardinality(QuestionsIn(q)) \in Nat
      /\ QuestionsIn(q) \subseteq 1..n
  BY FinitelyMany
<1> HIDE DEF r, n
<1>3. CASE Asks(m)
  <2>1. QuestionsIn(r) = QuestionsIn(q) \cup {n + 1}
    BY <1>1, <1>3 DEF QuestionsIn
  <2>2. n + 1 \notin QuestionsIn(q)
    BY <1>1, <1>2
  <2>3. Cardinality(QuestionsIn(q) \cup {n + 1}) = Cardinality(QuestionsIn(q)) + 1
    BY <1>2, <2>2, FS_AddElement
  <2> QED
    BY <1>3, <2>1, <2>3 DEF One, r
<1>4. CASE ~Asks(m)
  <2>1. QuestionsIn(r) = QuestionsIn(q)
    BY <1>1, <1>4 DEF QuestionsIn
  <2> QED
    BY <1>2, <1>4, <2>1 DEF One, r
<1> QED
  BY <1>3, <1>4

\* A message taken is one question less, or none.
LEMMA QuestionTaken ==
  ASSUME NEW S, NEW q \in Seq(S), q # <<>>
  PROVE  Cardinality(QuestionsIn(q)) = Cardinality(QuestionsIn(Tail(q))) + One(Head(q))
<1> DEFINE r == Tail(q)
           n == Len(r)
           A == QuestionsIn(q)
           B == QuestionsIn(r)
           R == A \ {1}
           f == [i \in B |-> i + 1]
<1>1. /\ r \in Seq(S) /\ n \in Nat /\ DOMAIN r = 1..n /\ DOMAIN q = 1..(n + 1)
      /\ q[1] = Head(q) /\ \A i \in 1..n : r[i] = q[i + 1]
  OBVIOUS
<1>2. /\ IsFiniteSet(A) /\ Cardinality(A) \in Nat /\ A \subseteq 1..(n + 1)
      /\ IsFiniteSet(B) /\ Cardinality(B) \in Nat /\ B \subseteq 1..n
  <2>1. Len(q) = n + 1
    OBVIOUS
  <2> QED
    BY <1>1, <2>1, FinitelyMany
<1> HIDE DEF r, n
<1>3. \A i \in 1..n : i \in B <=> i + 1 \in R
  BY <1>1 DEF QuestionsIn
<1>4. f \in Bijection(B, R)
  <2> HIDE DEF A, B
  <2>1. \A i \in B : i + 1 \in R /\ i \in Nat
    BY <1>1, <1>2, <1>3
  <2>2. \A j \in R : j - 1 \in B /\ (j - 1) + 1 = j
    <3> SUFFICES ASSUME NEW j \in R PROVE j - 1 \in B /\ (j - 1) + 1 = j
      OBVIOUS
    <3>1. j \in 2..(n + 1)
      BY <1>1, <1>2
    <3> QED
      BY <1>1, <1>3, <3>1
  <2> HIDE DEF R
  <2>3. f \in [B -> R] /\ \A i \in B : f[i] = i + 1
    BY <2>1
  <2> HIDE DEF f
  <2>4. \A i, j \in B : f[i] = f[j] => i = j
    BY <2>1, <2>3
  <2>5. \A j \in R : \E i \in B : f[i] = j
    BY <2>2, <2>3
  <2> QED
    BY <2>3, <2>4, <2>5 DEF Bijection, Injection, Surjection, IsInjective
<1>5. IsFiniteSet(R) /\ Cardinality(R) = Cardinality(B)
  BY <1>2, <1>4, FS_Bijection DEF ExistsBijection
<1>6. CASE Asks(Head(q))
  <2>1. 1 \in A
    BY <1>1, <1>6 DEF QuestionsIn
  <2>2. Cardinality(R) = Cardinality(A) - 1
    BY <1>2, <2>1, FS_RemoveElement
  <2> QED
    BY <1>2, <1>5, <1>6, <2>2 DEF One, r
<1>7. CASE ~Asks(Head(q))
  <2>1. R = A
    BY <1>1, <1>7 DEF QuestionsIn
  <2>2. Cardinality(A) = Cardinality(B) /\ One(Head(q)) = 0
    BY <1>5, <1>7, <2>1 DEF One
  <2> HIDE DEF A, B
  <2>3. Cardinality(A) = Cardinality(B) + One(Head(q))
    BY <1>2, <2>2
  <2> QED
    BY <2>3 DEF A, B, r
<1> QED
  BY <1>6, <1>7

LEMMA MessageAsks ==
  /\ \A m \in Message : Asks(m) => AnswerOf(m) \in Answers
  /\ \A a : ~Asks(AreaMessage(a))
  /\ \A m : ~Asks(MasksMessage(m))
  /\ ~Asks([type |-> "draw"]) /\ ~Asks([type |-> "load"])
  /\ \A i : /\ Asks(ReadMessage(i))
             /\ AnswerOf(ReadMessage(i)) = [type |-> "vram", words |-> AnswerWords(i)]
  /\ Asks([type |-> "frame"]) /\ AnswerOf([type |-> "frame"]) = [type |-> "fb"]
<1>1. ASSUME NEW m \in Message, Asks(m) PROVE AnswerOf(m) \in Answers
  <2>1. m.type = "read" => m.image \in Image
    BY DEF Message
  <2> QED
    BY <1>1, <2>1, WordsOfImage DEF Asks, AnswerOf, Answers
<1> QED
  BY <1>1 DEF Asks, AnswerOf, AreaMessage, MasksMessage, ReadMessage

\* With nobody blocked, nothing is awaited.
LEMMA NobodyWaits == waiting = "no" => \A a : ~Awaited(a)
  BY DEF Awaited

LEMMA NobodyWaitsNext == waiting' = "no" => \A a : ~(Awaited(a)')
  BY DEF Awaited

\* Nothing is said on either channel.
LEMMA SilentTalk ==
  ASSUME TalkInv, waiting = "no", UNCHANGED <<toRenderer, toGpu, waiting, fullFrames>>
  PROVE  TalkInv'
<1>1. CountInv' /\ ChannelsInv'
  BY DEF TalkInv, CountInv, ChannelsInv, Outstanding, QuestionsIn
<1>2. AwaitedInv'
  BY NobodyWaits, NobodyWaitsNext DEF TalkInv, AwaitedInv
<1> QED
  BY <1>1, <1>2 DEF TalkInv

\* A message sent with nobody blocked: one that asks for nothing, or a question
\* the sender blocks for.
LEMMA SentTalk ==
  ASSUME TalkInv, waiting = "no", fullFrames \in Nat, NEW m \in Message,
         toRenderer' = Append(toRenderer, m), UNCHANGED <<toGpu, fullFrames>>,
         IF Asks(m) THEN waiting' # "no" /\ Awaited(AnswerOf(m))'
                    ELSE waiting' = "no"
  PROVE  TalkInv'
<1> DEFINE q == toRenderer
<1>1. /\ q \in Seq(Message) /\ toGpu \in Seq(Answers)
      /\ Len(toGpu) + Cardinality(QuestionsIn(q)) = fullFrames
      /\ fullFrames = 0 => (\A i \in DOMAIN q : ~Asks(q[i])) /\ DOMAIN toGpu = {}
  BY NobodyWaits DEF TalkInv, ChannelsInv, CountInv, Outstanding, AwaitedInv
<1> HIDE DEF q
<1>2. /\ Len(toGpu) \in Nat /\ Cardinality(QuestionsIn(q)) \in Nat
      /\ Cardinality(QuestionsIn(Append(q, m))) = Cardinality(QuestionsIn(q)) + One(m)
      /\ Append(q, m) \in Seq(Message)
  BY <1>1, FinitelyMany, QuestionSent
<1>3. Outstanding' = One(m)
  BY DEF Outstanding, One
<1>4. CountInv'
  <2>1. CountInv' <=> Len(toGpu) + Cardinality(QuestionsIn(Append(q, m))) = fullFrames + One(m)
    BY <1>3 DEF CountInv, QuestionsIn, q
  <2>2. One(m) \in Nat
    BY DEF One
  <2> QED
    BY <1>1, <1>2, <2>1, <2>2
<1>5. AwaitedInv'
  <2>1. /\ DOMAIN Append(q, m) = 1..(Len(q) + 1) /\ DOMAIN q = 1..Len(q) /\ Len(q) \in Nat
        /\ Append(q, m)[Len(q) + 1] = m
        /\ \A i \in DOMAIN q : Append(q, m)[i] = q[i]
    BY <1>1
  <2>2. ASSUME fullFrames = 0, NEW i \in DOMAIN Append(q, m), Asks(Append(q, m)[i])
        PROVE  Append(q, m)[i] = m
    BY <1>1, <2>1, <2>2
  <2> DEFINE Answered(x) == Awaited(AnswerOf(x))'
  <2>3. Asks(m) => Answered(m)
    OBVIOUS
  <2> HIDE DEF Answered
  <2>4. ASSUME fullFrames = 0, NEW i \in DOMAIN Append(q, m), Asks(Append(q, m)[i])
        PROVE  Answered(Append(q, m)[i])
    BY <2>2, <2>3, <2>4
  <2>5. toRenderer' = Append(q, m) /\ toGpu' = toGpu /\ fullFrames' = fullFrames
    BY DEF q
  <2> QED
    BY <1>1, <2>4, <2>5 DEF AwaitedInv, Answered
<1> QED
  BY <1>1, <1>2, <1>4, <1>5 DEF TalkInv, ChannelsInv, q

\* The blocked thread takes an answer; with no frame shown whole there is no other.
LEMMA TakenTalk ==
  ASSUME TalkInv, waiting # "no", toGpu # <<>>, fullFrames \in Nat,
         toGpu' = Tail(toGpu), waiting' = "no", UNCHANGED <<toRenderer, fullFrames>>
  PROVE  /\ TalkInv'
         /\ fullFrames = 0 => Awaited(Head(toGpu))
         /\ Head(toGpu) \in Answers
<1> DEFINE q == toRenderer
           g == toGpu
           Qs == QuestionsIn(q)
<1>1. /\ q \in Seq(Message) /\ g \in Seq(Answers)
      /\ Len(g) + Cardinality(Qs) = fullFrames + 1
      /\ fullFrames = 0 => \A i \in DOMAIN g : Awaited(g[i])
  BY DEF TalkInv, ChannelsInv, CountInv, Outstanding, AwaitedInv
<1>2. IsFiniteSet(Qs) /\ Cardinality(Qs) \in Nat
  BY <1>1, FinitelyMany
<1>3. /\ Tail(g) \in Seq(Answers) /\ Len(g) \in Nat /\ Len(g) > 0
      /\ Len(Tail(g)) = Len(g) - 1 /\ Head(g) = g[1] /\ Head(g) \in Answers
      /\ 1 \in DOMAIN g /\ DOMAIN Tail(g) = 1..Len(Tail(g))
  BY <1>1
<1>4. fullFrames = 0 => DOMAIN Tail(g) = {} /\ Qs = {}
  <2> HIDE DEF q, g, Qs
  <2>1. fullFrames = 0 => Len(Tail(g)) = 0 /\ Cardinality(Qs) = 0
    BY <1>1, <1>2, <1>3
  <2>2. Cardinality(Qs) = 0 => Qs = {}
    BY <1>2, FS_EmptySet
  <2>3. Len(Tail(g)) = 0 => DOMAIN Tail(g) = {}
    <3>1. 1..0 = {}
      OBVIOUS
    <3> QED
      BY ONLY <1>3, <3>1
  <2> QED
    BY <2>1, <2>2, <2>3
<1>5. CountInv'
  <2>1. CountInv' <=> Len(Tail(g)) + Cardinality(Qs) = fullFrames + 0
    BY DEF CountInv, QuestionsIn, Outstanding
  <2> HIDE DEF q, g, Qs
  <2> QED
    BY <1>1, <1>2, <1>3, <2>1
<1>6. AwaitedInv'
  BY <1>4 DEF AwaitedInv, QuestionsIn
<1> QED
  BY <1>1, <1>3, <1>5, <1>6 DEF TalkInv, ChannelsInv

\* The renderer's thread turns a question into its answer.
LEMMA RendererTalks ==
  ASSUME TalkInv, RendererStep, fullFrames \in Nat
  PROVE  TalkInv'
<1> DEFINE q == toRenderer
           g == toGpu
           m == Head(q)
<1>1. /\ q # <<>> /\ toRenderer' = Tail(q)
      /\ IF Asks(m) THEN toGpu' = Append(g, AnswerOf(m)) ELSE toGpu' = g
      /\ UNCHANGED <<store, waiting, fullFrames>>
  BY DEF RendererStep, Answer, port
<1>2. /\ q \in Seq(Message) /\ g \in Seq(Answers)
      /\ Len(g) + Cardinality(QuestionsIn(q)) = fullFrames + Outstanding
      /\ fullFrames = 0 => /\ \A i \in DOMAIN q : Asks(q[i]) => Awaited(AnswerOf(q[i]))
                           /\ \A i \in DOMAIN g : Awaited(g[i])
  BY DEF TalkInv, ChannelsInv, CountInv, AwaitedInv
<1>3. Outstanding' = Outstanding /\ fullFrames' = fullFrames /\ \A a : Awaited(a)' <=> Awaited(a)
  BY <1>1 DEF Outstanding, Awaited
<1>4. Outstanding \in Nat /\ One(m) \in Nat
  BY DEF Outstanding, One
<1> HIDE DEF q, g, m
<1>5. /\ Tail(q) \in Seq(Message) /\ m \in Message
      /\ DOMAIN Tail(q) = 1..Len(Tail(q)) /\ DOMAIN q = 1..Len(q) /\ Len(q) \in Nat
      /\ Len(Tail(q)) = Len(q) - 1 /\ Len(q) > 0
      /\ m = q[1] /\ \A i \in 1..Len(Tail(q)) : Tail(q)[i] = q[i + 1]
  BY <1>1, <1>2 DEF m
<1>6. /\ Cardinality(QuestionsIn(q)) = Cardinality(QuestionsIn(Tail(q))) + One(m)
      /\ Cardinality(QuestionsIn(Tail(q))) \in Nat
  BY <1>1, <1>2, <1>5, QuestionTaken, FinitelyMany DEF m
<1>7. /\ toGpu' \in Seq(Answers) /\ Len(toGpu') = Len(g) + One(m)
      /\ \A i \in DOMAIN toGpu' :
            \/ i \in DOMAIN g /\ toGpu'[i] = g[i]
            \/ Asks(m) /\ toGpu'[i] = AnswerOf(m)
  <2>1. CASE Asks(m)
    <3>1. AnswerOf(m) \in Answers
      BY <1>5, <2>1, MessageAsks
    <3>2. toGpu' = Append(g, AnswerOf(m)) /\ One(m) = 1
      BY <1>1, <2>1 DEF One
    <3> DEFINE a == AnswerOf(m)
    <3> HIDE DEF a
    <3>3. /\ Append(g, a) \in Seq(Answers) /\ Len(Append(g, a)) = Len(g) + 1
          /\ \A i \in DOMAIN Append(g, a) :
                \/ i \in DOMAIN g /\ Append(g, a)[i] = g[i]
                \/ Append(g, a)[i] = a
      BY <1>2, <3>1 DEF a
    <3> QED
      BY <2>1, <3>2, <3>3 DEF a
  <2>2. CASE ~Asks(m)
    <3>1. toGpu' = g /\ One(m) = 0 /\ Len(g) \in Nat
      BY <1>1, <1>2, <2>2 DEF One
    <3> QED
      BY <1>2, <3>1
  <2> QED
    BY <2>1, <2>2
<1>8. CountInv'
  <2>1. CountInv' <=> Len(toGpu') + Cardinality(QuestionsIn(Tail(q))) = fullFrames + Outstanding
    <3>1. toRenderer' = Tail(q)
      BY <1>1
    <3> QED
      BY <1>3, <3>1 DEF CountInv, QuestionsIn
  <2>2. Len(g) \in Nat
    BY <1>2
  <2> QED
    BY <1>2, <1>4, <1>6, <1>7, <2>1, <2>2
<1>9. AwaitedInv'
  <2> DEFINE Right(a) == Awaited(a)
  <2>1. AwaitedInv' <=> (fullFrames = 0 => /\ \A i \in DOMAIN Tail(q) : Asks(Tail(q)[i]) => Right(AnswerOf(Tail(q)[i]))
                                           /\ \A i \in DOMAIN toGpu' : Right(toGpu'[i]))
    BY <1>1, <1>3 DEF AwaitedInv
  <2>2. fullFrames = 0 => /\ \A i \in DOMAIN q : Asks(q[i]) => Right(AnswerOf(q[i]))
                          /\ \A i \in DOMAIN g : Right(g[i])
    BY <1>2
  <2> HIDE DEF Right
  <2>3. \A i \in DOMAIN Tail(q) : i + 1 \in DOMAIN q /\ Tail(q)[i] = q[i + 1]
    BY <1>5
  <2>4. 1 \in DOMAIN q
    BY <1>5
  <2> QED
    BY <1>5, <1>7, <2>1, <2>2, <2>3, <2>4
<1> QED
  BY <1>1, <1>5, <1>7, <1>8, <1>9 DEF TalkInv, ChannelsInv

-----------------------------------------------------------------------------

LEMMA Gp0Talks ==
  ASSUME AnswersInv, WordsInv, NEW op \in 0..255, Gp0(op)
  PROVE  TalkInv'
<1>0. waiting = "no" /\ TalkInv /\ fullFrames \in Nat
  BY DEF Gp0, AnswersInv, StoreInv
<1>1. CASE \/ Gather(op) \/ RegisterCommand(op) \/ ImageLoad(op)
           \/ ImageStoreWord(op) \/ PolylineEnd(op)
  <2>1. UNCHANGED <<toRenderer, toGpu, waiting, fullFrames>>
    BY <1>1 DEF Gather, RegisterCommand, ImageLoad, ImageStoreWord, PolylineEnd, Finish
  <2> QED
    BY <1>0, <2>1, SilentTalk
<1>2. CASE \/ DrawCommand(op) \/ ImageLoadWord(op) \/ PolylineWord(op)
           \/ DrawingArea(op) \/ MaskBitSetting(op)
  <2>1. /\ UNCHANGED <<toGpu, waiting, fullFrames>>
        /\ \/ toRenderer' = toRenderer
           \/ toRenderer' = Append(toRenderer, [type |-> "draw"])
           \/ toRenderer' = Append(toRenderer, [type |-> "load"])
           \/ area' \in Areas /\ toRenderer' = Append(toRenderer, AreaMessage(area'))
           \/ masks' \in MaskValues /\ toRenderer' = Append(toRenderer, MasksMessage(masks'))
    BY <1>2 DEF DrawCommand, ImageLoadWord, PolylineWord, DrawingArea, MaskBitSetting,
                Finish, Send, SendDrawingAreaChange
  <2>2. CASE toRenderer' = toRenderer
    BY <1>0, <2>1, <2>2, SilentTalk
  <2>3. ASSUME NEW m \in Message, ~Asks(m), toRenderer' = Append(toRenderer, m)
        PROVE  TalkInv'
    BY <1>0, <2>1, <2>3, SentTalk
  <2> QED
    BY <2>1, <2>2, <2>3, MessageAsks, MessageTypes
<1>3. CASE ImageStore(op)
  <2>1. PICK i \in Images : /\ UNCHANGED <<toGpu, fullFrames>>
                            /\ waiting' = "store" /\ store' = [NoStore EXCEPT !.image = i]
                            /\ toRenderer' = Append(toRenderer, ReadMessage(i))
    BY <1>3 DEF ImageStore, Finish, Send
  <2>2. /\ ReadMessage(i) \in Message /\ Asks(ReadMessage(i))
        /\ AnswerOf(ReadMessage(i)) = [type |-> "vram", words |-> AnswerWords(i)]
    BY MessageAsks, MessageTypes, ImagesOnly
  <2>3. store'.image = i
    BY <2>1 DEF NoStore
  <2>4. Awaited(AnswerOf(ReadMessage(i)))'
    BY <2>1, <2>2, <2>3 DEF Awaited
  <2> QED
    BY <1>0, <2>1, <2>2, <2>4, SentTalk
<1> QED
  BY <1>1, <1>2, <1>3 DEF Gp0

\* A frame that shows all of VRAM is one more answer nobody takes.
LEMMA FullFrameTalks ==
  ASSUME TalkInv, fullFrames \in Nat, RenderFbFull
  PROVE  TalkInv'
<1> DEFINE m == [type |-> "frame"]
           q == toRenderer
<1>1. /\ waiting = "no" /\ waiting' = "no" /\ toGpu' = toGpu
      /\ fullFrames' = fullFrames + 1 /\ toRenderer' = Append(q, m)
  BY DEF RenderFbFull, Send
<1>2. m \in Message /\ One(m) = 1
  BY MessageAsks, MessageTypes DEF One
<1>3. /\ q \in Seq(Message) /\ toGpu \in Seq(Answers)
      /\ Len(toGpu) + Cardinality(QuestionsIn(q)) = fullFrames
  BY <1>1 DEF TalkInv, ChannelsInv, CountInv, Outstanding
<1> HIDE DEF m, q
<1>4. /\ Len(toGpu) \in Nat /\ Cardinality(QuestionsIn(q)) \in Nat
      /\ Cardinality(QuestionsIn(Append(q, m))) = Cardinality(QuestionsIn(q)) + 1
      /\ Append(q, m) \in Seq(Message)
  BY <1>2, <1>3, FinitelyMany, QuestionSent
<1>5. CountInv'
  <2>1. CountInv' <=> Len(toGpu) + Cardinality(QuestionsIn(Append(q, m))) = (fullFrames + 1) + 0
    BY <1>1 DEF CountInv, QuestionsIn, Outstanding
  <2> QED
    BY <1>3, <1>4, <2>1
<1> QED
  BY <1>1, <1>3, <1>4, <1>5 DEF TalkInv, ChannelsInv, AwaitedInv

\* A loaded state sends two messages that ask for nothing.
LEMMA LoadTalks ==
  ASSUME TalkInv, fullFrames \in Nat, LoadState
  PROVE  TalkInv'
<1> DEFINE q == toRenderer
           a == AreaMessage(area')
           l == [type |-> "load"]
           r == Append(q, a)
<1>1. /\ waiting = "no" /\ UNCHANGED <<waiting, toGpu, fullFrames>>
      /\ area' \in Areas /\ toRenderer' = q \o <<a, l>>
  BY DEF LoadState
<1>2. a \in Message /\ One(a) = 0 /\ l \in Message /\ One(l) = 0
  BY <1>1, MessageAsks, MessageTypes DEF One
<1>3. /\ q \in Seq(Message) /\ toGpu \in Seq(Answers)
      /\ Len(toGpu) + Cardinality(QuestionsIn(q)) = fullFrames
      /\ fullFrames = 0 => (\A i \in DOMAIN q : ~Asks(q[i])) /\ DOMAIN toGpu = {}
  BY <1>1, NobodyWaits DEF TalkInv, ChannelsInv, CountInv, Outstanding, AwaitedInv
<1> HIDE DEF q, a, l
<1>4. r \in Seq(Message) /\ toRenderer' = Append(r, l)
  BY <1>1, <1>2, <1>3
<1>5. Cardinality(QuestionsIn(r)) = Cardinality(QuestionsIn(q)) /\ Cardinality(QuestionsIn(q)) \in Nat
  BY <1>2, <1>3, QuestionSent, FinitelyMany
<1> HIDE DEF r
<1>6. /\ Cardinality(QuestionsIn(Append(r, l))) = Cardinality(QuestionsIn(q))
      /\ Append(r, l) \in Seq(Message)
  BY <1>2, <1>4, <1>5, QuestionSent
<1>7. CountInv'
  <2>1. CountInv' <=> Len(toGpu) + Cardinality(QuestionsIn(Append(r, l))) = fullFrames + 0
    BY <1>1, <1>4 DEF CountInv, QuestionsIn, Outstanding
  <2>2. fullFrames + 0 = fullFrames
    OBVIOUS
  <2> QED
    BY <1>3, <1>6, <2>1, <2>2
<1>8. AwaitedInv'
  <2>1. fullFrames = 0 => QuestionsIn(Append(r, l)) = {}
    <3>1. fullFrames = 0 => QuestionsIn(q) = {}
      BY <1>3 DEF QuestionsIn
    <3>2. IsFiniteSet(QuestionsIn(Append(r, l)))
      BY <1>6, FinitelyMany
    <3> QED
      BY <1>6, <3>1, <3>2, FS_EmptySet
  <2> QED
    BY <1>1, <1>3, <1>4, <2>1 DEF AwaitedInv, QuestionsIn
<1> QED
  BY <1>1, <1>3, <1>4, <1>6, <1>7, <1>8 DEF TalkInv, ChannelsInv

LEMMA TalkStep ==
  ASSUME AnswersInv, WordsInv, ChannelInv, [Next]_vars
  PROVE  TalkInv'
<1>0. TalkInv /\ fullFrames \in Nat /\ waiting \in {"no", "frame", "save", "store"}
  BY DEF AnswersInv, StoreInv
<1>1. ASSUME NEW op \in (IF remaining = 0 THEN Opcodes ELSE {0}), Gp0(op)
      PROVE  TalkInv'
  BY <1>1, Gp0Talks, OpcodesAreBytes
<1>2. CASE Gp1ResetCommandBuffer \/ Gp1Reset \/ Read
  <2>1. waiting = "no" /\ UNCHANGED <<toRenderer, toGpu, waiting, fullFrames>>
    BY <1>2 DEF Gp1ResetCommandBuffer, Gp1Reset, Read
  <2> QED
    BY <1>0, <2>1, SilentTalk
<1>3. CASE RenderFb \/ SaveVram
  <2>1. \E m \in Message : /\ Asks(m) /\ toRenderer' = Append(toRenderer, m)
                           /\ Awaited(AnswerOf(m))'
    <3>1. CASE RenderFb
      <4>1. waiting' = "frame" /\ toRenderer' = Append(toRenderer, [type |-> "frame"])
        BY <3>1 DEF RenderFb, Send
      <4>2. Awaited([type |-> "fb"])'
        BY <4>1 DEF Awaited
      <4> QED
        BY <4>1, <4>2, MessageAsks, MessageTypes
    <3>2. CASE SaveVram
      <4>1. waiting' = "save" /\ toRenderer' = Append(toRenderer, ReadMessage(WholeVram))
        BY <3>2 DEF SaveVram, Send
      <4>2. Awaited([type |-> "vram", words |-> AnswerWords(WholeVram)])'
        BY <4>1 DEF Awaited
      <4> QED
        BY <4>1, <4>2, ImagesOnly, MessageAsks, MessageTypes
    <3> QED
      BY <1>3, <3>1, <3>2
  <2>2. waiting = "no" /\ waiting' # "no" /\ UNCHANGED <<toGpu, fullFrames>>
    BY <1>3 DEF RenderFb, SaveVram
  <2> QED
    BY <1>0, <2>1, <2>2, SentTalk
<1>4. CASE RenderFbFull
  BY <1>0, <1>4, FullFrameTalks
<1>5. CASE LoadState
  BY <1>0, <1>5, LoadTalks
<1>6. CASE StoreAnswered \/ OtherAnswered
  <2>1. /\ waiting # "no" /\ toGpu # <<>> /\ toGpu' = Tail(toGpu) /\ waiting' = "no"
        /\ UNCHANGED <<toRenderer, fullFrames>>
    BY <1>6 DEF StoreAnswered, OtherAnswered
  <2> QED
    BY <1>0, <2>1, TakenTalk
<1>7. CASE RendererStep
  BY <1>0, <1>7, RendererTalks
<1>8. CASE UNCHANGED vars
  BY <1>0, <1>8 DEF vars, port, TalkInv, ChannelsInv, CountInv, AwaitedInv, Awaited,
                   Outstanding, QuestionsIn
<1> QED
  BY <1>1, <1>2, <1>3, <1>4, <1>5, <1>6, <1>7, <1>8 DEF Next

-----------------------------------------------------------------------------
(* The image that is read.                                                 *)

LEMMA NoStoreType ==
  /\ NoStore \in [at : Nat, words : Nat, real : BOOLEAN, image : Image]
  /\ NoStore.at = 0
  BY DEF NoStore, NoImage, Image

LEMMA Gp0Stores ==
  ASSUME StoreInv, WordsInv, NEW op \in 0..255, Gp0(op)
  PROVE  StoreInv'
<1>0. waiting = "no"
  BY DEF Gp0
<1>1. WordsInv'
  BY Gp0Words
<1>2. remaining' \in Nat
  BY <1>1 DEF WordsInv
<1>3. UNCHANGED fullFrames
  BY DEF Gp0, Gather, DrawCommand, RegisterCommand, DrawingArea, MaskBitSetting, ImageLoad,
         ImageStore, ImageLoadWord, ImageStoreWord, PolylineWord, PolylineEnd, Finish
<1>4. CASE \/ Gather(op) \/ DrawCommand(op) \/ RegisterCommand(op) \/ DrawingArea(op)
           \/ MaskBitSetting(op) \/ ImageLoad(op) \/ ImageLoadWord(op)
           \/ PolylineWord(op) \/ PolylineEnd(op)
  <2>1. waiting' = waiting /\ store' = store /\ mode' # "ImageStore"
    BY <1>4 DEF Gather, DrawCommand, RegisterCommand, DrawingArea, MaskBitSetting, ImageLoad,
         ImageLoadWord, PolylineWord, PolylineEnd, Finish, Idle
  <2> QED
    BY <1>0, <1>2, <1>3, <2>1 DEF StoreInv
<1>5. CASE ImageStore(op)
  <2>1. PICK i \in Images :
            /\ waiting' = "store" /\ mode' = "Command" /\ remaining' = WordsOf(i)
            /\ store' = [NoStore EXCEPT !.image = i]
    BY <1>5 DEF ImageStore
  <2>2. store' = [at |-> 0, words |-> 0, real |-> TRUE, image |-> i] /\ i \in Image
    BY <2>1, ImagesOnly DEF NoStore
  <2>3. store' \in [at : Nat, words : Nat, real : BOOLEAN, image : Image]
    BY <2>2
  <2>4. store'.at = 0 /\ store'.real /\ store'.image = i
    BY <2>2
  <2>5. fullFrames' \in Nat
    BY <1>3 DEF StoreInv
  <2> QED
    BY <1>2, <2>1, <2>3, <2>4, <2>5 DEF StoreInv
<1>6. CASE ImageStoreWord(op)
  BY <1>0, <1>2, <1>3, <1>6 DEF ImageStoreWord, StoreInv
<1> QED
  BY <1>4, <1>5, <1>6 DEF Gp0

LEMMA StoreStep ==
  ASSUME AnswersInv, WordsInv, ChannelInv, [Next]_vars
  PROVE  StoreInv'
<1>0. StoreInv
  BY DEF AnswersInv
<1>1. ASSUME NEW op \in (IF remaining = 0 THEN Opcodes ELSE {0}), Gp0(op)
      PROVE  StoreInv'
  BY <1>0, <1>1, Gp0Stores, OpcodesAreBytes
<1>2. CASE Gp1ResetCommandBuffer \/ Gp1Reset \/ LoadState
  <2>1. /\ waiting = "no" /\ waiting' = waiting /\ mode' = "Command" /\ remaining' = 0
        /\ store' = NoStore /\ fullFrames' = fullFrames
    BY <1>2 DEF Gp1ResetCommandBuffer, Gp1Reset, LoadState, ResetCommandBuffer
  <2> QED
    BY <1>0, <2>1, NoStoreType DEF StoreInv
<1>3. CASE Read
  <2>1. /\ waiting = "no" /\ waiting' = waiting /\ fullFrames' = fullFrames
        /\ remaining' = remaining - 1 /\ remaining > 0 /\ store.at < store.words
    BY <1>3 DEF Read
  <2>2. CASE remaining = 1
    <3>1. mode' = "Command" /\ store' = NoStore
      BY <1>3, <2>2 DEF Read
    <3> QED
      BY <1>0, <2>1, <2>2, <3>1, NoStoreType DEF StoreInv
  <2>3. CASE remaining # 1
    <3>1. /\ mode' = mode /\ swallowed' = swallowed
          /\ store' = [store EXCEPT !.at = store.at + 1]
      BY <1>3, <2>3 DEF Read
    <3>2. store.at \in Nat /\ store.words \in Nat
      BY <1>0 DEF StoreInv
    <3>3. /\ store' \in [at : Nat, words : Nat, real : BOOLEAN, image : Image]
          /\ store'.real = store.real /\ store'.words = store.words
          /\ store'.at = store.at + 1 /\ store'.image = store.image
      BY <1>0, <3>1 DEF StoreInv
    <3>4. remaining' \in Nat /\ remaining' > 0
      BY <1>0, <2>1, <2>3 DEF StoreInv
    <3>5. (store.at + 1) + (remaining - 1) = store.at + remaining
      BY <1>0, <3>2 DEF StoreInv
    <3> QED
      BY <1>0, <2>1, <3>1, <3>3, <3>4, <3>5 DEF StoreInv
  <2> QED
    BY <2>2, <2>3
<1>4. CASE RenderFb \/ SaveVram
  <2>1. /\ UNCHANGED <<port, swallowed, fullFrames>>
        /\ waiting' \in {"frame", "save"}
    BY <1>4 DEF RenderFb, SaveVram
  <2> QED
    BY <1>0, <2>1 DEF StoreInv, port
<1>5. CASE RenderFbFull
  <2>1. UNCHANGED <<port, swallowed, waiting>> /\ fullFrames' = fullFrames + 1
    BY <1>5 DEF RenderFbFull
  <2> QED
    BY <1>0, <2>1 DEF StoreInv, port
<1>6. CASE StoreAnswered
  <2> DEFINE m == Head(toGpu)
  <2>1. /\ waiting = "store" /\ toGpu # <<>> /\ waiting' = "no" /\ mode' = "ImageStore"
        /\ toGpu' = Tail(toGpu)
        /\ store' = IF m.type = "vram" THEN [store EXCEPT !.words = m.words]
                                       ELSE [store EXCEPT !.words = remaining, !.real = FALSE]
        /\ UNCHANGED <<remaining, toRenderer, swallowed, fullFrames>>
    BY <1>6 DEF StoreAnswered
  <2>2. (fullFrames = 0 => Awaited(m)) /\ m \in Answers
    BY <1>0, <2>1, TakenTalk DEF AnswersInv, StoreInv
  <2> HIDE DEF m
  <2>3. fullFrames = 0 => m = [type |-> "vram", words |-> AnswerWords(store.image)]
    BY <2>1, <2>2 DEF Awaited
  <2>4. m.type = "vram" => m.words \in Nat
    BY <2>2 DEF Answers
  <2>5. /\ store \in [at : Nat, words : Nat, real : BOOLEAN, image : Image]
        /\ store.at = 0 /\ store.real /\ remaining = WordsOf(store.image)
        /\ remaining \in Nat /\ fullFrames \in Nat
    BY <1>0, <2>1 DEF StoreInv
  <2>6. store' \in [at : Nat, words : Nat, real : BOOLEAN, image : Image]
    BY <2>1, <2>4, <2>5
  <2>7. store'.at = 0 /\ store'.image = store.image
    BY <2>1, <2>5
  <2>8. fullFrames = 0 => store'.real /\ store'.words = AnswerWords(store.image)
    <3>1. fullFrames = 0 => m.type = "vram" /\ m.words = AnswerWords(store.image)
      BY <2>3
    <3> QED
      BY <2>1, <2>5, <3>1
  <2>9. remaining > 0 /\ 0 + remaining = remaining
    BY <2>5, WordsOfImage
  <2> QED
    BY <2>1, <2>5, <2>6, <2>7, <2>8, <2>9 DEF StoreInv
<1>7. CASE OtherAnswered
  <2>1. UNCHANGED <<port, swallowed, fullFrames>> /\ waiting' = "no"
    BY <1>7 DEF OtherAnswered
  <2> QED
    BY <1>0, <2>1 DEF StoreInv, port
<1>8. CASE RendererStep \/ UNCHANGED vars
  <2>1. UNCHANGED <<port, waiting, swallowed, fullFrames>>
    BY <1>8 DEF RendererStep, vars
  <2> QED
    BY <1>0, <2>1 DEF StoreInv, port
<1> QED
  BY <1>1, <1>2, <1>3, <1>4, <1>5, <1>6, <1>7, <1>8 DEF Next

LEMMA AnswersInit == Init => AnswersInv
<1> SUFFICES ASSUME Init PROVE AnswersInv
  OBVIOUS
<1>1. /\ toRenderer = <<>> /\ toGpu = <<>> /\ waiting = "no" /\ fullFrames = 0
      /\ remaining = 0 /\ store = NoStore /\ mode = "Command"
  BY DEF Init
<1>2. /\ QuestionsIn(<<>>) = {} /\ Len(<<>>) = 0
      /\ <<>> \in Seq(Message) /\ <<>> \in Seq(Answers)
  BY DEF QuestionsIn
<1>3. Len(<<>>) + Cardinality(QuestionsIn(<<>>)) = 0
  BY <1>2, FS_EmptySet
<1>4. CountInv
  BY <1>1, <1>3 DEF CountInv, Outstanding
<1>5. AwaitedInv
  BY <1>1 DEF AwaitedInv
<1>6. StoreInv
  BY <1>1, NoStoreType DEF StoreInv
<1> QED
  BY <1>1, <1>2, <1>4, <1>5, <1>6 DEF AnswersInv, TalkInv, ChannelsInv

LEMMA AnswersStep == AnswersInv /\ WordsInv /\ ChannelInv /\ [Next]_vars => AnswersInv'
  BY TalkStep, StoreStep DEF AnswersInv

\* The channel back holds one answer for every question that nobody takes and one
\* for the thread that blocks, and until a frame is shown whole the first answer
\* in it is the one awaited: for every capacity, every image and each renderer.
THEOREM AnswersAreAwaited == Spec => []AnswersMatch
<1>1. AnswersInv => AnswersMatch
  <2> SUFFICES ASSUME AnswersInv PROVE AnswersMatch
    OBVIOUS
  <2>1. Len(toGpu) + Cardinality(Questions) = fullFrames + (IF waiting = "no" THEN 0 ELSE 1)
    BY DEF AnswersInv, TalkInv, CountInv, Outstanding, QuestionsIn, Questions
  <2>2. toGpu # <<>> => Head(toGpu) = toGpu[1] /\ 1 \in DOMAIN toGpu
    BY DEF AnswersInv, TalkInv, ChannelsInv
  <2>3. fullFrames = 0 /\ toGpu # <<>> => Awaited(Head(toGpu))
    BY <2>2 DEF AnswersInv, TalkInv, AwaitedInv
  <2>4. ASSUME NEW a, Awaited(a)
        PROVE  \/ waiting = "frame" /\ a.type = "fb"
               \/ waiting = "save"  /\ a = [type |-> "vram", words |-> AnswerWords(WholeVram)]
               \/ waiting = "store" /\ a = [type |-> "vram", words |-> AnswerWords(store.image)]
    BY <2>4 DEF Awaited
  <2> QED
    BY <2>1, <2>3, <2>4 DEF AnswersMatch
<1>2. FollowInv => ChannelInv
  BY DEF FollowInv
<1> QED
  BY <1>1, <1>2, AnswersInit, AnswersStep, WordsInit, WordsStep, FollowInit, FollowStep, PTL
     DEF Spec

\* An image that is read came from VRAM, the words taken and left are its own, and
\* its data has as many as are left or, where rows of an odd width are filled up,
\* more: for every image that begins inside VRAM and each renderer.
THEOREM ImagesAreServed == Spec => []ReadsAreServed
<1>1. AnswersInv => ReadsAreServed
  <2> SUFFICES ASSUME AnswersInv, mode = "ImageStore", ~swallowed, fullFrames = 0
               PROVE  /\ store.real /\ remaining > 0
                      /\ store.at + remaining = WordsOf(store.image)
                      /\ store.image.inside =>
                            /\ store.words - store.at >= remaining
                            /\ ~Skewed(store.image) => store.words - store.at = remaining
    BY DEF ReadsAreServed
  <2>1. /\ store.real /\ remaining > 0 /\ store.words = AnswerWords(store.image)
        /\ store.at + remaining = WordsOf(store.image)
        /\ store.at \in Nat /\ remaining \in Nat /\ store.image \in Image
    BY DEF AnswersInv, StoreInv
  <2>2. /\ WordsOf(store.image) \in Nat /\ AnswerWords(store.image) \in Nat
        /\ store.image.inside =>
              /\ AnswerWords(store.image) >= WordsOf(store.image)
              /\ ~Skewed(store.image) => AnswerWords(store.image) = WordsOf(store.image)
    BY <2>1, WordsOfImage
  <2> QED
    BY <2>1, <2>2
<1>2. FollowInv => ChannelInv
  BY DEF FollowInv
<1> QED
  BY <1>1, <1>2, AnswersInit, AnswersStep, WordsInit, WordsStep, FollowInit, FollowStep, PTL
     DEF Spec

=============================================================================
