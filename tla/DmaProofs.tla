------------------------------ MODULE DmaProofs ------------------------------
(***************************************************************************)
(* For every table, every set of packets, every frame in memory and every  *)
(* sequence of stores: no completion is lost, the decoder's requests       *)
(* follow its output, which can always be read to its end, and a walk of   *)
(* the ordering table draws the packets in order.                          *)
(***************************************************************************)
EXTENDS Dma, FiniteSetTheorems, SequenceTheorems, TLAPS

\* The registers the proof is about; the others may hold anything.
Interrupts(d, ic) == d \in DicrType /\ ic \in IrqCtl /\ ic.status = ic.int

\* A state of a transfer, and one whose interrupts are those of another.
Fields == {"channel", "dicr", "mdec", "mem", "drawn", "linked", "bottom", "irq"}
IsState(s) == s = [f \in Fields |-> s[f]]
Beside(z, s) == IsState(z) /\ z.dicr = s.dicr /\ z.irq = s.irq

\* What a transfer may do to the interrupts of s.
Reaches(s, t) ==
    /\ Interrupts(t.dicr, t.irq)
    /\ ~s.dicr.master /\ t.dicr.master => "dma" \in t.irq.int
    /\ "dma" \in s.irq.int => "dma" \in t.irq.int

LEMMA RaiseReaches ==
  ASSUME NEW ic \in IrqCtl, ic.status = ic.int
  PROVE  /\ Raise(ic, "dma") \in IrqCtl
         /\ Raise(ic, "dma").status = Raise(ic, "dma").int
         /\ "dma" \in Raise(ic, "dma").int
  BY DEF Raise, IrqCtl, IrqSource

LEMMA MasterType == ASSUME NEW d \in DicrType PROVE UpdateMasterIrq(d) \in DicrType
  BY DEF UpdateMasterIrq, DicrType

\* The end of a block or of a transfer.
LEMMA ChannelIrqReaches ==
  ASSUME NEW s, IsState(s), Interrupts(s.dicr, s.irq), NEW port \in Port,
         NEW full \in BOOLEAN
  PROVE  /\ IsState(ChannelIrq(s, port, full))
         /\ Reaches(s, ChannelIrq(s, port, full))
<1> DEFINE d == UpdateMasterIrq([s.dicr EXCEPT !.flags = @ \cup {port}])
           t == [s EXCEPT !.dicr = d,
                          !.irq = IF d.master THEN Raise(@, "dma") ELSE @]
<1>3. IsState(t) /\ t.dicr = d
      /\ t.irq = IF d.master THEN Raise(s.irq, "dma") ELSE s.irq
  BY DEF IsState, Fields
<1>4. CASE ChannelIrq(s, port, full) = s
  BY <1>4 DEF Reaches
<1>5. CASE port \in s.dicr.mask /\ ChannelIrq(s, port, full) = t
  <2>1. [s.dicr EXCEPT !.flags = @ \cup {port}] \in DicrType
    BY <1>5 DEF Interrupts, DicrType
  <2>2. d \in DicrType
    BY <2>1, MasterType
  <2>3. Interrupts(t.dicr, t.irq)
    BY <2>2, <1>3, RaiseReaches DEF Interrupts
  <2>4. t.dicr.master => "dma" \in t.irq.int
    BY <1>3, RaiseReaches DEF Interrupts
  <2>5. "dma" \in s.irq.int => "dma" \in t.irq.int
    BY <1>3, RaiseReaches DEF Interrupts
  <2> QED
    BY <1>3, <1>5, <2>3, <2>4, <2>5 DEF Reaches
<1> QED
  BY <1>4, <1>5 DEF ChannelIrq

\* A transfer that ends: the ends of its blocks, the release, its own end.
LEMMA CompleteReaches ==
  ASSUME NEW s, IsState(s), Interrupts(s.dicr, s.irq), NEW port \in Port,
         NEW blocks
  PROVE  Reaches(s, Complete(s, port, blocks))
<1> DEFINE t == IF blocks > 0 THEN ChannelIrq(s, port, FALSE) ELSE s
           v == [t EXCEPT !.channel[port].ctrl.start = FALSE]
           u == [v EXCEPT !.channel[port].ctrl.force = FALSE]
<1>1. IsState(t) /\ Reaches(s, t)
  BY ChannelIrqReaches DEF Reaches
<1>2. Beside(u, t)
  <2> HIDE DEF t
  <2>1. Beside(v, t)
    BY <1>1 DEF Beside, IsState, Fields
  <2> HIDE DEF v
  <2>2. Beside(u, v)
    BY <2>1 DEF Beside, IsState, Fields
  <2> QED
    BY <2>1, <2>2 DEF Beside
<1>3. Interrupts(u.dicr, u.irq)
  BY <1>1, <1>2 DEF Reaches, Beside
<1>4. Reaches(u, ChannelIrq(u, port, TRUE))
  <2> HIDE DEF u
  <2> QED
    BY <1>2, <1>3, ChannelIrqReaches DEF Beside
<1>5. Complete(s, port, blocks) = ChannelIrq(u, port, TRUE)
  BY DEF Complete
<1> QED
  <2> HIDE DEF t, u
  <2> QED
    BY <1>1, <1>2, <1>4, <1>5 DEF Reaches, Beside

\* A transfer does nothing, or it moves data and completes.
Transfers(s, t) ==
    \/ t = s
    \/ \E z, blocks : \E port \in Port : Beside(z, s) /\ t = Complete(z, port, blocks)

LEMMA TransferReaches ==
  ASSUME NEW s, NEW t, IsState(s), Interrupts(s.dicr, s.irq), Transfers(s, t)
  PROVE  Reaches(s, t)
<1>1. CASE t = s
  BY <1>1 DEF Reaches
<1>2. ASSUME NEW z, NEW blocks, NEW port \in Port, Beside(z, s),
             t = Complete(z, port, blocks)
      PROVE  Reaches(s, t)
  <2>1. Reaches(z, t)
    BY <1>2, CompleteReaches DEF Beside
  <2> QED
    BY <1>2, <2>1 DEF Beside, Reaches
<1> QED
  BY <1>1, <1>2 DEF Transfers

\* The two channels of the decoder leave their address and count behind.
LEMMA MovedBeside ==
  ASSUME NEW s, IsState(s), NEW port, NEW data, NEW count, NEW maddr
  PROVE  Beside([s EXCEPT !.mdec = data, !.channel[port].count = count,
                          !.channel[port].maddr = maddr], s)
<1> DEFINE a == [s EXCEPT !.mdec = data]
           b == [a EXCEPT !.channel[port].count = count]
           c == [b EXCEPT !.channel[port].maddr = maddr]
<1>1. Beside(a, s)
  BY DEF Beside, IsState, Fields
<1> HIDE DEF a
<1>2. Beside(b, a)
  BY <1>1 DEF Beside, IsState, Fields
<1> HIDE DEF b
<1>3. Beside(c, b)
  BY <1>2 DEF Beside, IsState, Fields
<1>4. Beside(c, s)
  BY <1>1, <1>2, <1>3 DEF Beside
<1> QED
  BY <1>4 DEF a, b

LEMMA MdecTransfers ==
  ASSUME NEW s, IsState(s)
  PROVE  Transfers(s, DoMdecIn(s)) /\ Transfers(s, DoMdecOut(s))
<1>1. MdecIn \in Port /\ MdecOut \in Port
  BY DEF MdecIn, MdecOut, Port
<1>2. Transfers(s, DoMdecIn(s))
  BY <1>1, MovedBeside DEF DoMdecIn, Transfers
<1>3. Transfers(s, DoMdecOut(s))
  BY <1>1, MovedBeside DEF DoMdecOut, Transfers
<1> QED
  BY <1>2, <1>3

LEMMA SlicesTransfer ==
  ASSUME NEW s, IsState(s), NEW port \in Port
  PROVE  Transfers(s, DoSlices(s, port))
<1>1. ASSUME NEW maddr PROVE Beside([s EXCEPT !.channel[port].maddr = maddr], s)
  BY DEF Beside, IsState, Fields
<1> QED
  BY <1>1 DEF DoSlices, Transfers

LEMMA GpuTransfers == ASSUME NEW s, IsState(s) PROVE Transfers(s, DoGpu(s))
<1>1. ASSUME NEW list PROVE Beside([s EXCEPT !.drawn = list], s)
  BY DEF Beside, IsState, Fields
<1>2. Gpu \in Port
  BY DEF Gpu, Port
<1>3. Transfers(s, DoGpuLinkedList(s))
  BY <1>1, <1>2 DEF DoGpuLinkedList, Transfers
<1>4. Transfers(s, DoSlices(s, Gpu))
  BY <1>2, SlicesTransfer
<1>5. Transfers(s, s)
  BY DEF Transfers
<1> QED
  BY <1>3, <1>4, <1>5 DEF DoGpu

LEMMA OtcTransfers == ASSUME NEW s, IsState(s) PROVE Transfers(s, DoOtc(s))
<1>1. ASSUME NEW m, NEW ls, NEW bs
      PROVE  Beside([s EXCEPT !.mem = m, !.linked = ls, !.bottom = bs], s)
  <2> DEFINE a == [s EXCEPT !.mem = m]
             b == [a EXCEPT !.linked = ls]
             c == [b EXCEPT !.bottom = bs]
  <2>1. Beside(a, s)
    BY DEF Beside, IsState, Fields
  <2> HIDE DEF a
  <2>2. Beside(b, a)
    BY <2>1 DEF Beside, IsState, Fields
  <2> HIDE DEF b
  <2>3. Beside(c, b)
    BY <2>2 DEF Beside, IsState, Fields
  <2>4. Beside(c, s)
    BY <2>1, <2>2, <2>3 DEF Beside
  <2> QED
    BY <2>4 DEF a, b
<1>2. Otc \in Port
  BY DEF Otc, Port
<1> QED
  BY <1>1, <1>2 DEF DoOtc, Transfers

-----------------------------------------------------------------------------
\* The registers and the copies of the interrupt controller's status, always.
IrqInv == Interrupts(dicr, irq)

\* A step with a transfer: from the stored control bits to what it left.
LEMMA ControlReaches ==
  ASSUME IrqInv, NEW port \in Port \ {5}, NEW ctrl, StoreControl(port, ctrl)
  PROVE  IrqInv' /\ (~dicr.master /\ dicr'.master => "dma" \in irq'.int)
<1> DEFINE s == [Now EXCEPT !.channel[port].ctrl = ctrl]
           t == CASE port = MdecIn  -> DoMdecIn(s)
                  [] port = MdecOut -> DoMdecOut(s)
                  [] port = Gpu     -> DoGpu(s)
                  [] port \in {CdRom, Spu} -> DoSlices(s, port)
                  [] port = Otc     -> DoOtc(s)
<1>1. IsState(Now) /\ Now.dicr = dicr /\ Now.irq = irq
  BY DEF IsState, Fields, Now
<1>2. IsState(s) /\ s.dicr = dicr /\ s.irq = irq
  <2> HIDE DEF Now
  <2> QED
    BY <1>1 DEF IsState, Fields
<1>3. port \in Port /\ port \in {MdecIn, MdecOut, Gpu, CdRom, Spu, Otc}
  BY DEF Port, MdecIn, MdecOut, Gpu, CdRom, Spu, Otc
<1>4. dicr' = t.dicr /\ irq' = t.irq
  BY DEF StoreControl
<1>5. Transfers(s, t)
  <2> HIDE DEF s
  <2>1. /\ Transfers(s, DoMdecIn(s)) /\ Transfers(s, DoMdecOut(s))
        /\ Transfers(s, DoGpu(s)) /\ Transfers(s, DoOtc(s))
        /\ Transfers(s, DoSlices(s, port))
    BY <1>2, <1>3, MdecTransfers, GpuTransfers, OtcTransfers, SlicesTransfer
  <2> QED
    BY <1>3, <2>1
<1>6. Reaches(s, t)
  <2> HIDE DEF s, t
  <2> QED
    BY <1>2, <1>5, TransferReaches DEF IrqInv
<1> QED
  <2> HIDE DEF s, t
  <2> QED
    BY <1>2, <1>4, <1>6 DEF Reaches, IrqInv

\* Only a step that touches a channel's control bits may owe an edge: a store to
\* DICR itself may raise the master flag and tells nobody.
LEMMA StepReaches ==
  ASSUME IrqInv, [Next]_vars
  PROVE  /\ IrqInv'
         /\ ~dicr.master /\ dicr'.master /\ channel' # channel
               => "dma" \in irq'.int
<1>1. ASSUME NEW p \in Port \ {5}, NEW a, StoreMaddr(p, a)
      PROVE  UNCHANGED <<dicr, irq>>
  BY <1>1 DEF StoreMaddr, Registers
<1>2. ASSUME NEW p \in Port \ {5}, NEW b, StoreBlock(p, b)
      PROVE  UNCHANGED <<dicr, irq>>
  BY <1>2 DEF StoreBlock, Registers
<1>3. ASSUME NEW on, StoreDpcr(on) PROVE UNCHANGED <<dicr, irq>>
  BY <1>3 DEF StoreDpcr
<1>4. ASSUME NEW w \in DicrStores, StoreDicr(w)
      PROVE  IrqInv' /\ UNCHANGED channel
  <2>1. [w EXCEPT !.flags = dicr.flags \ w.flags] \in DicrType
    BY <1>4, DmaAssumption DEF DicrType, IrqInv, Interrupts
  <2>2. [w EXCEPT !.flags = dicr.flags \ w.flags, !.master = dicr.master]
           \in DicrType
    BY <2>1 DEF DicrType, IrqInv, Interrupts
  <2> QED
    BY <1>4, <2>2, MasterType DEF StoreDicr, IrqInv, Interrupts
<1>5. CASE \/ \E c \in MdecControls : MdecControl(c[1], c[2], c[3])
           \/ \E w \in MdecStores : MdecStore(w)
           \/ MdecLoad
           \/ \E p \in Packets, e \in Entries : Link(p, e)
  BY <1>5 DEF MdecControl, MdecStore, MdecLoad, Link, IrqInv
<1>6. ASSUME AckIrq PROVE IrqInv' /\ UNCHANGED channel
  BY <1>6 DEF AckIrq, StoreStat, IrqInv, Interrupts, IrqCtl
<1>7. CASE UNCHANGED vars
  BY <1>7 DEF vars, IrqInv
<1>8. UNCHANGED <<dicr, irq>> => IrqInv' /\ dicr' = dicr
  BY DEF IrqInv
<1> QED
  BY <1>1, <1>2, <1>3, <1>4, <1>5, <1>6, <1>7, <1>8, ControlReaches DEF Next

LEMMA InitReaches == Init => IrqInv
  BY DEF Init, IrqInv, Interrupts, DicrType, Port, IrqReset, IrqCtl

\* When a transfer puts the master flag up, the edge reaches the interrupt
\* controller: whichever channel ends, whether an end of block or of transfer was
\* asked for, and however the guest acknowledged what came before.
THEOREM EdgeRaised == Spec => MasterRaisesEdge
<1>1. IrqInv /\ [Next]_vars
         => IrqInv' /\ [~dicr.master /\ dicr'.master /\ channel' # channel
                           => "dma" \in irq'.int]_vars
  BY StepReaches
<1> QED
  BY <1>1, InitReaches, PTL DEF Spec, MasterRaisesEdge

-----------------------------------------------------------------------------
(* The motion decoder.                                                     *)

DecoderType ==
    [depth : Depth, busy : BOOLEAN, in_request : BOOLEAN, out_request : BOOLEAN,
     in_enable : BOOLEAN, out_enable : BOOLEAN,
     state : {"Idle", "Decode", "SetQuant", "SetScale"}, remaining : Nat,
     in_buf : Seq(0 .. Pad), fifo : Nat, out_pos : Nat, read_part : 0 .. 2]

\* The position is within an output that stands; the decoder is busy with a
\* command or an output.
Sound(d) ==
    /\ d \in DecoderType
    /\ d.out_pos = 0 \/ d.out_pos < d.fifo
    /\ d.busy => (d.state # "Idle" \/ d.fifo # 0)

\* Its requests follow.
Good(d) ==
    /\ Sound(d)
    /\ d.in_request <=> (d.in_enable /\ d.fifo = 0)
    /\ d.out_request <=> (d.out_enable /\ d.fifo # 0)

LEMMA MdecNumbers ==
  /\ Pad \in Nat /\ ParamWrap \in Nat \ {0, 1} /\ TableWords \in Nat \ {0}
  /\ ColourPixels \in Nat /\ MonoWords \in Nat
  /\ \A n \in Int : n % ParamWrap \in 0 .. ParamWrap - 1
  BY MdecAssumption DEF MdecAssumption, Pad

LEMMA UpdatedIsGood ==
  ASSUME NEW d, Sound(d)
  PROVE  Good(UpdateDmaRequests(d))
  BY DEF Sound, Good, DecoderType, UpdateDmaRequests

LEMMA ResetIsGood == Good(Reset)
<1>1. <<>> \in Seq(0 .. Pad)
  OBVIOUS
<1> QED
  BY <1>1 DEF Good, Sound, DecoderType, Reset, Depth

LEMMA ControlledIsGood ==
  ASSUME NEW d, Good(d), NEW reset \in BOOLEAN, NEW in \in BOOLEAN, NEW out \in BOOLEAN
  PROVE  Good(WriteControl(d, reset, in, out))
<1> DEFINE e == [d EXCEPT !.in_enable = in, !.out_enable = out]
<1>1. Sound(e)
  BY DEF Good, Sound, DecoderType
<1>2. Good(UpdateDmaRequests(e))
  BY <1>1, UpdatedIsGood
<1> QED
  BY <1>2, ResetIsGood DEF WriteControl

LEMMA DecodedIsNat ==
  ASSUME NEW buf \in Seq(0 .. Pad), NEW depth
  PROVE  Decoded(buf, depth) \in Nat
<1> DEFINE each  == IF IsColour(depth) THEN 6 ELSE 1
           made  == IF IsColour(depth) THEN ColourPixels ELSE MonoWords
           most  == Len(buf) \div each
           whole == {n \in 1 .. most : BlocksEnd(buf, 0, each * n) # -1}
<1>1. most \in Int /\ made \in Nat
  BY MdecNumbers
<1>2. IsFiniteSet(1 .. most)
  <2> HIDE DEF most
  <2> QED
    BY <1>1, FS_Interval
<1>3. Cardinality(whole) \in Nat
  <2>1. whole \subseteq 1 .. most
    OBVIOUS
  <2> HIDE DEF whole, most
  <2> QED
    BY <1>2, <2>1, FS_Subset, FS_CardinalityType
<1>4. Decoded(buf, depth) = made * Cardinality(whole)
  BY DEF Decoded
<1> HIDE DEF made, whole
<1> QED
  BY <1>1, <1>3, <1>4

\* A decoder at work may be given any output, none included.
LEMMA GivenIsSound ==
  ASSUME NEW d \in DecoderType, d.state # "Idle", NEW n \in Nat
  PROVE  LET f == [d EXCEPT !.fifo = n, !.out_pos = 0, !.read_part = 0]
         IN Sound(f) /\ f.state = d.state
<1> DEFINE a == [d EXCEPT !.fifo = n]
           b == [a EXCEPT !.out_pos = 0]
           f == [b EXCEPT !.read_part = 0]
<1>1. a \in DecoderType /\ a.state = d.state
  BY DEF DecoderType
<1> HIDE DEF a
<1>2. b \in DecoderType /\ b.state = d.state /\ b.out_pos = 0
  BY <1>1 DEF DecoderType
<1> HIDE DEF b
<1>3. f \in DecoderType /\ f.state = d.state /\ f.out_pos = 0
  BY <1>2 DEF DecoderType
<1>4. f = [d EXCEPT !.fifo = n, !.out_pos = 0, !.read_part = 0]
  BY DEF a, b
<1> HIDE DEF f
<1>5. Sound(f)
  BY <1>3 DEF Sound
<1> QED
  BY <1>3, <1>4, <1>5

LEMMA EmptiedIsSound ==
  ASSUME NEW d \in DecoderType, d.state # "Idle"
  PROVE  Sound([d EXCEPT !.in_buf = <<>>, !.fifo = 0, !.out_pos = 0, !.read_part = 0])
<1> DEFINE c == [d EXCEPT !.in_buf = <<>>]
           f == [c EXCEPT !.fifo = 0, !.out_pos = 0, !.read_part = 0]
<1>1. <<>> \in Seq(0 .. Pad)
  OBVIOUS
<1>2. c \in DecoderType /\ c.state # "Idle"
  BY <1>1 DEF DecoderType
<1> HIDE DEF c
<1>3. Sound(f)
  BY <1>2, GivenIsSound
<1>4. f = [d EXCEPT !.in_buf = <<>>, !.fifo = 0, !.out_pos = 0, !.read_part = 0]
  BY DEF c
<1> QED
  BY <1>3, <1>4

LEMMA CommandedIsGood ==
  ASSUME NEW d, Good(d), NEW w \in WordType
  PROVE  Good(WriteCommand(d, w))
<1> DEFINE e == [d EXCEPT !.depth = w.depth]
           quant == (IF w.len % 2 = 1 THEN 2 ELSE 1) * TableWords - 1
           left == (w.len - 1) % ParamWrap
<1>0. w.len \in 0 .. ParamWrap - 1 /\ w.depth \in Depth /\ ParamWrap \in Nat
  BY MdecNumbers DEF WordType
<1>1. Sound(e) /\ e \in DecoderType /\ w.len \in Nat /\ left \in Nat
  <2>1. w.len \in Nat /\ w.len - 1 \in Int
    BY <1>0
  <2>2. left \in 0 .. ParamWrap - 1
    BY <2>1, MdecNumbers
  <2>3. Sound(e) /\ e \in DecoderType
    BY <1>0 DEF Good, Sound, DecoderType
  <2> HIDE DEF left, e
  <2> QED
    BY <1>0, <2>1, <2>2, <2>3
<1>2. quant \in Nat /\ 2 * TableWords - 1 \in Nat
  BY MdecNumbers, <1>1
<1> HIDE DEF e, quant, left
<1>3. ASSUME NEW state \in {"SetQuant", "SetScale"}, NEW n \in Nat
      PROVE  Sound(Command(e, state, n))
  BY <1>1, <1>3 DEF Sound, DecoderType, Command
<1>4. Sound(DecodeCommand(e, w.len))
  <2> DEFINE c == Command(e, "Decode", left)
  <2>1. c \in DecoderType /\ c.state = "Decode"
    BY <1>1 DEF Command, DecoderType
  <2>2. DecodeCommand(e, w.len) = [c EXCEPT !.in_buf = <<>>, !.fifo = 0, !.out_pos = 0, !.read_part = 0]
    BY DEF DecodeCommand, left
  <2> HIDE DEF c
  <2> QED
    BY <2>1, <2>2, EmptiedIsSound
<1>5. Sound([e EXCEPT !.remaining = w.len])
  BY <1>1 DEF Sound, DecoderType
<1>6. WriteCommand(d, w) = UpdateDmaRequests(
          CASE w.command = 1 -> DecodeCommand(e, w.len)
            [] w.command = 2 -> Command(e, "SetQuant", quant)
            [] w.command = 3 -> Command(e, "SetScale", 2 * TableWords - 1)
            [] OTHER -> [e EXCEPT !.remaining = w.len])
  BY DEF WriteCommand, e, quant
<1>7. Sound(CASE w.command = 1 -> DecodeCommand(e, w.len)
              [] w.command = 2 -> Command(e, "SetQuant", quant)
              [] w.command = 3 -> Command(e, "SetScale", 2 * TableWords - 1)
              [] OTHER -> [e EXCEPT !.remaining = w.len])
  <2>1. Sound(Command(e, "SetQuant", quant)) /\ Sound(Command(e, "SetScale", 2 * TableWords - 1))
    BY <1>2, <1>3
  <2>2. CASE w.command = 1
    BY <1>4, <2>2
  <2>3. CASE w.command = 2
    BY <2>1, <2>3
  <2>4. CASE w.command = 3
    BY <2>1, <2>4
  <2>5. CASE w.command \notin {1, 2, 3}
    BY <1>5, <2>5
  <2> QED
    BY <2>2, <2>3, <2>4, <2>5
<1> QED
  BY <1>6, <1>7, UpdatedIsGood

\* A parameter, the last one included.
LEMMA ParameterIsGood ==
  ASSUME NEW d, Good(d), NEW w \in WordType
  PROVE  Good(WriteParam(d, w))
<1> DEFINE is_last == d.remaining = 0
           took == IF d.state = "Decode" THEN [d EXCEPT !.in_buf = @ \o w.hw] ELSE d
           done == IF d.state = "Decode" /\ is_last THEN DecodeMacroblocks(took) ELSE took
           next == [done EXCEPT !.remaining = (@ - 1) % ParamWrap]
           rest == [next EXCEPT !.state = "Idle", !.busy = d.state = "Decode" /\ next.fifo > 0]
<1>1. CASE d.state = "Idle"
  BY <1>1, CommandedIsGood DEF WriteParam
<1>2. CASE d.state # "Idle"
  <2>1. Good(took) /\ took.state = d.state /\ took.busy = d.busy /\ took.remaining = d.remaining
    <3>1. w.hw \in Seq(0 .. Pad) /\ d.in_buf \in Seq(0 .. Pad)
      BY DEF WordType, Good, Sound, DecoderType
    <3>2. d.in_buf \o w.hw \in Seq(0 .. Pad)
      BY <3>1
    <3> DEFINE b == d.in_buf \o w.hw
    <3> HIDE DEF b
    <3>3. [d EXCEPT !.in_buf = b] \in DecoderType /\ Good([d EXCEPT !.in_buf = b])
      BY <3>2 DEF Good, Sound, DecoderType, b
    <3> QED
      BY <3>3 DEF b, Good, Sound, DecoderType
  <2> HIDE DEF took
  <2>2. Good(done) /\ done.state = d.state
    <3>1. CASE d.state = "Decode" /\ is_last
      <4> DEFINE n == Decoded(took.in_buf, took.depth)
                 f == [took EXCEPT !.fifo = n, !.out_pos = 0, !.read_part = 0]
      <4>1. n \in Nat
        BY <2>1, DecodedIsNat DEF Good, Sound, DecoderType
      <4>2. done = UpdateDmaRequests(f)
        BY <3>1 DEF DecodeMacroblocks
      <4> HIDE DEF n
      <4>3. Sound(f) /\ f.state = d.state
        BY <1>2, <2>1, <4>1, GivenIsSound DEF Good, Sound
      <4> HIDE DEF f
      <4>4. Good(UpdateDmaRequests(f)) /\ UpdateDmaRequests(f).state = f.state
        BY <4>3, UpdatedIsGood DEF Sound, DecoderType, UpdateDmaRequests
      <4> QED
        BY <4>2, <4>3, <4>4
    <3>2. CASE ~(d.state = "Decode" /\ is_last)
      BY <2>1, <3>2
    <3> QED
      BY <3>1, <3>2
  <2> HIDE DEF done
  <2>3. Good(next) /\ next.state = d.state
    <3>1. (done.remaining - 1) % ParamWrap \in Nat
      <4>1. done.remaining \in Nat
        BY <2>2 DEF Good, Sound, DecoderType
      <4>2. \A n \in Nat : n - 1 \in Int
        OBVIOUS
      <4>3. \A n \in 0 .. ParamWrap - 1 : n \in Nat
        BY MdecNumbers
      <4> QED
        BY <4>1, <4>2, <4>3, MdecNumbers
    <3> DEFINE r == (done.remaining - 1) % ParamWrap
    <3>2. next = [done EXCEPT !.remaining = r]
      OBVIOUS
    <3> HIDE DEF r, next
    <3> QED
      BY <1>2, <2>2, <3>1, <3>2 DEF Good, Sound, DecoderType, r
  <2> HIDE DEF next
  <2>4. Good(rest)
    <3> DEFINE b == d.state = "Decode" /\ next.fifo > 0
    <3>1. b \in BOOLEAN /\ (b => next.fifo # 0)
      BY <2>3 DEF Good, Sound, DecoderType
    <3>2. rest = [next EXCEPT !.state = "Idle", !.busy = b]
      OBVIOUS
    <3> HIDE DEF b, rest
    <3> QED
      BY <2>3, <3>1, <3>2 DEF Good, Sound, DecoderType
  <2>5. WriteParam(d, w) = IF is_last THEN rest ELSE next
    BY <1>2, Zenon DEF WriteParam, rest, next, done, took
  <2> QED
    BY <2>3, <2>4, <2>5
<1> QED
  BY <1>1, <1>2

\* A word read: the position moves on within the output, and past its end the
\* output is gone.
LEMMA ReadIsGood ==
  ASSUME NEW d, Good(d)
  PROVE  Good(DmaReadWord(d))
<1> DEFINE e == [d EXCEPT !.out_pos = ReadPos(d), !.read_part = ReadPart(d)]
<1>1. d \in DecoderType /\ d.out_pos \in Nat /\ d.fifo \in Nat /\ d.read_part \in 0 .. 2
  BY DEF Good, Sound, DecoderType
<1>2. ReadPos(d) \in Nat
  BY <1>1 DEF ReadPos
<1>3. ReadPart(d) \in 0 .. 2
  BY <1>1 DEF ReadPart
<1>4. /\ e \in DecoderType /\ e.out_pos = ReadPos(d) /\ e.fifo = d.fifo
      /\ e.state = d.state /\ e.busy = d.busy /\ e.in_request = d.in_request
      /\ e.out_request = d.out_request /\ e.in_enable = d.in_enable /\ e.out_enable = d.out_enable
  <2> DEFINE p == ReadPos(d)
             q == ReadPart(d)
  <2> HIDE DEF p, q
  <2>1. e = [d EXCEPT !.out_pos = p, !.read_part = q]
    BY DEF p, q
  <2> HIDE DEF e
  <2> QED
    BY <1>1, <1>2, <1>3, <2>1 DEF DecoderType, p, q
<1> HIDE DEF e
<1>5. CASE d.out_pos >= d.fifo
  BY <1>5 DEF DmaReadWord
<1>6. CASE ~(d.out_pos >= d.fifo) /\ e.out_pos < e.fifo
  <2>1. DmaReadWord(d) = e
    BY <1>6 DEF DmaReadWord, e
  <2> QED
    BY <1>4, <1>6, <2>1 DEF Good, Sound
<1>7. CASE ~(d.out_pos >= d.fifo) /\ ~(e.out_pos < e.fifo)
  <2> DEFINE f == [e EXCEPT !.fifo = 0, !.out_pos = 0, !.busy = FALSE]
  <2>1. DmaReadWord(d) = UpdateDmaRequests(f)
    BY <1>7 DEF DmaReadWord, e
  <2>2. Sound(f)
    BY <1>4 DEF Sound, DecoderType
  <2> HIDE DEF f
  <2> QED
    BY <2>1, <2>2, UpdatedIsGood
<1> QED
  BY <1>5, <1>6, <1>7

-----------------------------------------------------------------------------
(* Words one after another.                                                *)

\* Induction over the natural numbers, for a set: the numbers are well-founded.
LEMMA Induction ==
  ASSUME NEW T, 0 \in T, \A n \in Nat : n \in T => n + 1 \in T
  PROVE  Nat \subseteq T
<1> DEFINE B == {n \in Nat : n \notin T}
           R == OpToRel(<, Nat)
<1> SUFFICES ASSUME B # {} PROVE FALSE
  OBVIOUS
<1>1. IsWellFoundedOn(R, Nat)
  BY NatLessThanWellFounded
<1> HIDE DEF R
<1>2. PICK x \in B : \A y \in B : ~ (<<y, x>> \in R)
  <2>1. B \subseteq Nat
    OBVIOUS
  <2> HIDE DEF B
  <2> QED
    BY <1>1, <2>1, WFMin
<1>3. x - 1 \in Nat /\ x - 1 \in B /\ x - 1 < x
  BY <1>2
<1>4. <<x - 1, x>> \in R
  BY <1>2, <1>3 DEF R, OpToRel
<1> QED
  BY <1>2, <1>3, <1>4

GoodDecoder == {d \in DecoderType : Good(d)}

\* The states the decoder goes through, from d, by what step makes of each.
Course(g, n, d, step) ==
    g = [i \in 0 .. n |-> IF i = 0 THEN d ELSE step[<<i, g[i - 1]>>]]

LEMMA CourseExists ==
  ASSUME NEW S, NEW d \in S, NEW step \in [Nat \X S -> S]
  PROVE  \A n \in Nat : \E g \in [0 .. n -> S] : Course(g, n, d, step)
<1> DEFINE T == {n \in Nat : \E g \in [0 .. n -> S] : Course(g, n, d, step)}
<1>1. 0 \in T
  <2> DEFINE g == [i \in 0 .. 0 |-> d]
  <2>1. g \in [0 .. 0 -> S] /\ Course(g, 0, d, step)
    BY DEF Course
  <2> QED
    BY <2>1
<1>2. ASSUME NEW n \in Nat, n \in T PROVE n + 1 \in T
  <2>1. PICK g \in [0 .. n -> S] : Course(g, n, d, step)
    BY <1>2
  <2> DEFINE v == step[<<n + 1, g[n]>>]
             h == [i \in 0 .. n + 1 |-> IF i = n + 1 THEN v ELSE g[i]]
             W(i) == IF i = 0 THEN d ELSE step[<<i, h[i - 1]>>]
  <2>2. \A i \in 0 .. n : g[i] = IF i = 0 THEN d ELSE step[<<i, g[i - 1]>>]
    BY <2>1, Zenon DEF Course
  <2>3. v \in S
    <3>1. g[n] \in S /\ n + 1 \in Nat
      OBVIOUS
    <3> QED
      BY <3>1
  <2>4. /\ h \in [0 .. n + 1 -> S] /\ h[n + 1] = v
        /\ \A i \in 0 .. n : h[i] = g[i]
    <3> HIDE DEF v
    <3> QED
      BY <2>3
  <2> HIDE DEF h
  <2>5. ASSUME NEW i \in 0 .. n + 1 PROVE h[i] = W(i)
    <3>1. CASE i = n + 1
      <4>1. i # 0 /\ i - 1 = n /\ n \in 0 .. n
        BY <3>1
      <4> QED
        BY <2>4, <3>1, <4>1
    <3>2. CASE i # n + 1
      <4>1. i \in 0 .. n /\ (i # 0 => i - 1 \in 0 .. n)
        BY <3>2
      <4> QED
        BY <2>2, <2>4, <4>1
    <3> QED
      BY <3>1, <3>2
  <2>6. h = [i \in 0 .. n + 1 |-> W(i)]
    <3> HIDE DEF W
    <3> QED
      BY <2>4, <2>5
  <2>7. Course(h, n + 1, d, step)
    BY <2>6 DEF Course
  <2> QED
    BY <2>4, <2>7
<1>3. Nat \subseteq T
  <2>1. \A n \in Nat : n \in T => n + 1 \in T
    BY <1>2
  <2> HIDE DEF T
  <2> QED
    BY <1>1, <2>1, Induction
<1> QED
  BY <1>3

\* Words read one after another.
LEMMA ReadTimes ==
  ASSUME NEW d, Good(d), NEW n \in Nat
  PROVE  \E g \in [0 .. n -> GoodDecoder] :
            /\ g[0] = d /\ \A i \in 1 .. n : g[i] = DmaReadWord(g[i - 1])
            /\ Times(n, DmaReadWord, d) = g[n]
<1> DEFINE S == GoodDecoder
           step == [p \in Nat \X S |-> DmaReadWord(p[2])]
           after == CHOOSE g : g = [i \in 0 .. n |-> IF i = 0 THEN d ELSE DmaReadWord(g[i - 1])]
<1>1. d \in S /\ \A x \in S : DmaReadWord(x) \in S
  BY ReadIsGood DEF GoodDecoder, Good, Sound
<1>2. step \in [Nat \X S -> S]
  BY <1>1
<1>3. \A i \in Nat, x \in S : step[<<i, x>>] = DmaReadWord(x)
  OBVIOUS
<1> HIDE DEF S, step
<1>4. PICK h \in [0 .. n -> S] : Course(h, n, d, step)
  BY <1>1, <1>2, CourseExists
<1>5. h = [i \in 0 .. n |-> IF i = 0 THEN d ELSE DmaReadWord(h[i - 1])]
  <2>1. ASSUME NEW i \in 0 .. n PROVE h[i] = IF i = 0 THEN d ELSE DmaReadWord(h[i - 1])
    <3>1. h[i] = IF i = 0 THEN d ELSE step[<<i, h[i - 1]>>]
      BY <1>4, Zenon DEF Course
    <3>2. i # 0 => h[i - 1] \in S /\ i \in Nat
      OBVIOUS
    <3> QED
      BY <1>3, <3>1, <3>2
  <2> QED
    BY <2>1
<1>6. after = [i \in 0 .. n |-> IF i = 0 THEN d ELSE DmaReadWord(after[i - 1])]
  BY <1>5
<1>7. Times(n, DmaReadWord, d) = after[n]
  BY Zenon DEF Times
<1> HIDE DEF after
<1> DEFINE T == {i \in Nat : i <= n => after[i] \in S}
<1>8. Nat \subseteq T
  <2>1. 0 \in T
    BY <1>1, <1>6
  <2>2. ASSUME NEW i \in Nat, i \in T PROVE i + 1 \in T
    <3>1. i + 1 <= n => after[i + 1] = DmaReadWord(after[i])
      <4>1. i + 1 <= n => i + 1 \in 0 .. n /\ i + 1 # 0 /\ (i + 1) - 1 = i
        OBVIOUS
      <4> QED
        BY <1>6, <4>1
    <3> QED
      BY <1>1, <2>2, <3>1
  <2>3. \A i \in Nat : i \in T => i + 1 \in T
    BY <2>2
  <2> HIDE DEF T
  <2> QED
    BY <2>1, <2>3, Induction
<1>9. after \in [0 .. n -> S]
  <2>1. \A i \in 0 .. n : after[i] \in S
    BY <1>8
  <2> QED
    BY <1>6, <2>1
<1>10. after[0] = d /\ \A i \in 1 .. n : after[i] = DmaReadWord(after[i - 1])
  BY <1>6
<1> QED
  BY <1>7, <1>9, <1>10 DEF S

\* Words written one after another, from the frame in memory.
LEMMA FedIsGood ==
  ASSUME NEW d, Good(d), NEW n \in Nat, NEW c, c.maddr \in Nat
  PROVE  Good(Fed(d, c, n))
<1> DEFINE S == GoodDecoder
           word(i) == Frame[1 + Step(c, i - 1, Len(Frame))]
           step == [p \in (1 .. n) \X S |-> WriteParam(p[2], word(p[1]))]
           full == [p \in Nat \X S |-> IF p[1] \in 1 .. n THEN step[p] ELSE p[2]]
           after == CHOOSE g : g = [i \in 0 .. n |-> IF i = 0 THEN d ELSE WriteParam(g[i - 1], word(i))]
<1>1. ASSUME NEW i \in 1 .. n PROVE word(i) \in WordType
  <2>1. Step(c, i - 1, Len(Frame)) \in 0 .. Len(Frame) - 1
    BY DmaAssumption DEF Step
  <2>2. Frame \in Seq(WordType) /\ 1 + Step(c, i - 1, Len(Frame)) \in 1 .. Len(Frame)
    BY <2>1, DmaAssumption
  <2> QED
    BY <2>2
<1> HIDE DEF word
<1>2. d \in S /\ \A i \in 1 .. n, x \in S : WriteParam(x, word(i)) \in S
  BY <1>1, ParameterIsGood DEF GoodDecoder, Good, Sound
<1>3. step \in [(1 .. n) \X S -> S]
  BY <1>2
<1>4. \A i \in 1 .. n, x \in S : step[<<i, x>>] = WriteParam(x, word(i))
  OBVIOUS
<1> HIDE DEF step
<1>5. full \in [Nat \X S -> S] /\ \A i \in 1 .. n, x \in S : full[<<i, x>>] = step[<<i, x>>]
  BY <1>3
<1> HIDE DEF full, S
<1>6. PICK h \in [0 .. n -> S] : Course(h, n, d, full)
  BY <1>2, <1>5, CourseExists
<1>7. h = [i \in 0 .. n |-> IF i = 0 THEN d ELSE WriteParam(h[i - 1], word(i))]
  <2>1. ASSUME NEW i \in 0 .. n PROVE h[i] = IF i = 0 THEN d ELSE WriteParam(h[i - 1], word(i))
    <3>1. h[i] = IF i = 0 THEN d ELSE full[<<i, h[i - 1]>>]
      BY <1>6, Zenon DEF Course
    <3>2. i # 0 => h[i - 1] \in S /\ i \in 1 .. n
      OBVIOUS
    <3> QED
      BY <1>4, <1>5, <3>1, <3>2
  <2> QED
    BY <2>1
<1>8. after = [i \in 0 .. n |-> IF i = 0 THEN d ELSE WriteParam(after[i - 1], word(i))]
  BY <1>7
<1>9. Fed(d, c, n) = after[n]
  BY Zenon DEF Fed, word
<1> HIDE DEF after
<1> DEFINE T == {i \in Nat : i <= n => after[i] \in S}
<1>10. Nat \subseteq T
  <2>1. 0 \in T
    BY <1>2, <1>8
  <2>2. ASSUME NEW i \in Nat, i \in T PROVE i + 1 \in T
    <3>1. i + 1 <= n => after[i + 1] = WriteParam(after[i], word(i + 1)) /\ i + 1 \in 1 .. n
      <4>1. i + 1 <= n => i + 1 \in 0 .. n /\ i + 1 # 0 /\ (i + 1) - 1 = i /\ i + 1 \in 1 .. n
        OBVIOUS
      <4> QED
        BY <1>8, <4>1
    <3> QED
      BY <1>2, <2>2, <3>1
  <2>3. \A i \in Nat : i \in T => i + 1 \in T
    BY <2>2
  <2> HIDE DEF T
  <2> QED
    BY <2>1, <2>3, Induction
<1>11. after[n] \in S
  BY <1>10
<1> QED
  BY <1>9, <1>11 DEF S, GoodDecoder

-----------------------------------------------------------------------------
(* The channels, and what a transfer leaves of the decoder.                *)

ChannelType == [maddr : Nat, size : Halfword, count : Halfword, ctrl : ControlType]

Device(s) == s.channel \in [Port -> ChannelType] /\ Good(s.mdec)

\* A field of a channel, given a value of its own.
LEMMA ChannelFields ==
  ASSUME NEW c \in ChannelType
  PROVE  /\ c.maddr \in Nat /\ c.size \in Halfword /\ c.count \in Halfword /\ c.ctrl \in ControlType
         /\ \A k \in ControlType : [c EXCEPT !.ctrl = k] \in ChannelType
         /\ \A a \in Nat : [c EXCEPT !.maddr = a] \in ChannelType
         /\ \A n \in Halfword : [c EXCEPT !.count = n] \in ChannelType
         /\ \A n \in Halfword : [c EXCEPT !.size = n] \in ChannelType
  BY DEF ChannelType

\* The control bits of a channel, let go.
LEMMA ReleasedControl ==
  ASSUME NEW k \in ControlType
  PROVE  [k EXCEPT !.start = FALSE] \in ControlType /\ [k EXCEPT !.force = FALSE] \in ControlType
  BY DEF ControlType

LEMMA ReleasedType ==
  ASSUME NEW ch \in [Port -> ChannelType], NEW port \in Port
  PROVE  /\ [ch EXCEPT ![port].ctrl.start = FALSE] \in [Port -> ChannelType]
         /\ [ch EXCEPT ![port].ctrl.force = FALSE] \in [Port -> ChannelType]
<1> DEFINE c == ch[port]
           ks == [c.ctrl EXCEPT !.start = FALSE]
           kf == [c.ctrl EXCEPT !.force = FALSE]
           cs == [c EXCEPT !.ctrl = ks]
           cf == [c EXCEPT !.ctrl = kf]
<1>1. c \in ChannelType
  OBVIOUS
<1>2. /\ [ch EXCEPT ![port].ctrl.start = FALSE] = [ch EXCEPT ![port] = cs]
      /\ [ch EXCEPT ![port].ctrl.force = FALSE] = [ch EXCEPT ![port] = cf]
  OBVIOUS
<1> HIDE DEF c
<1>3. ks \in ControlType /\ kf \in ControlType
  <2>1. c.ctrl \in ControlType
    BY <1>1, ChannelFields
  <2> QED
    BY <2>1, ReleasedControl
<1> HIDE DEF ks, kf
<1>4. cs \in ChannelType /\ cf \in ChannelType
  BY <1>1, <1>3, ChannelFields
<1> HIDE DEF cs, cf
<1> QED
  BY <1>2, <1>4

\* The end of a block or of a transfer touches neither.
LEMMA ChannelIrqDevice ==
  ASSUME NEW s, IsState(s), Device(s), NEW port, NEW full
  PROVE  /\ IsState(ChannelIrq(s, port, full)) /\ Device(ChannelIrq(s, port, full))
         /\ ChannelIrq(s, port, full).mdec = s.mdec
<1> DEFINE d == UpdateMasterIrq([s.dicr EXCEPT !.flags = @ \cup {port}])
           i == IF d.master THEN Raise(s.irq, "dma") ELSE s.irq
           t == [s EXCEPT !.dicr = d, !.irq = i]
<1>1. ChannelIrq(s, port, full) \in {s, t}
  BY DEF ChannelIrq
<1> HIDE DEF d, i
<1>2. IsState(t) /\ t.channel = s.channel /\ t.mdec = s.mdec
  BY DEF IsState, Fields
<1> HIDE DEF t
<1>3. Device(t)
  BY <1>2 DEF Device
<1>4. \/ ChannelIrq(s, port, full) = s
      \/ ChannelIrq(s, port, full) = t
  BY <1>1
<1> QED
  BY <1>2, <1>3, <1>4

LEMMA CompleteDevice ==
  ASSUME NEW s, IsState(s), Device(s), NEW port \in Port, NEW blocks
  PROVE  Device(Complete(s, port, blocks))
<1> DEFINE t == IF blocks > 0 THEN ChannelIrq(s, port, FALSE) ELSE s
           v == [t EXCEPT !.channel[port].ctrl.start = FALSE]
           u == [v EXCEPT !.channel[port].ctrl.force = FALSE]
<1>1. IsState(t) /\ Device(t)
  BY ChannelIrqDevice
<1>2. IsState(u) /\ Device(u)
  <2> HIDE DEF t
  <2> DEFINE a == [t.channel EXCEPT ![port].ctrl.start = FALSE]
             b == [a EXCEPT ![port].ctrl.force = FALSE]
  <2>1. v = [t EXCEPT !.channel = a]
    BY <1>1 DEF IsState, Fields
  <2>2. a \in [Port -> ChannelType]
    BY <1>1, ReleasedType DEF Device
  <2> HIDE DEF a, v
  <2>3. IsState(v) /\ v.channel = a /\ v.mdec = t.mdec
    BY <1>1, <2>1 DEF IsState, Fields
  <2>4. u = [v EXCEPT !.channel = b]
    BY <2>3 DEF IsState, Fields
  <2>5. b \in [Port -> ChannelType]
    BY <2>2, ReleasedType
  <2> HIDE DEF b, u
  <2>6. IsState(u) /\ u.channel = b /\ u.mdec = v.mdec
    BY <2>3, <2>4 DEF IsState, Fields
  <2> QED
    BY <1>1, <2>3, <2>5, <2>6 DEF Device
<1>3. Complete(s, port, blocks) = ChannelIrq(u, port, TRUE)
  BY DEF Complete
<1> HIDE DEF u
<1> QED
  BY <1>2, <1>3, ChannelIrqDevice

\* The sizes, counts and addresses of a transfer.
LEMMA ChannelNumbers ==
  ASSUME NEW c \in ChannelType
  PROVE  /\ BlockSize(c) \in Nat /\ BlockCount(c) \in Nat /\ c.count \in Nat
         /\ \A n \in Nat : Step(c, n, Len(Frame)) \in Nat
<1> DEFINE K == 65536
<1>1. K \in Nat
  OBVIOUS
<1>2. BlockSize(c) = IF c.size = 0 THEN K ELSE c.size
  BY DEF BlockSize
<1> HIDE DEF K
<1>3. \A h \in Halfword : h \in Nat
  BY SMT DEF Halfword
<1>4. c.size \in Nat /\ c.count \in Nat /\ c.maddr \in Nat /\ c.ctrl.sync \in {"Burst", "Slice", "LinkedList"}
  BY <1>3, ChannelFields DEF ControlType
<1>5. BlockSize(c) \in Nat
  BY <1>1, <1>2, <1>4
<1>6. BlockCount(c) \in Nat
  BY <1>4 DEF BlockCount
<1>7. ASSUME NEW n \in Nat PROVE Step(c, n, Len(Frame)) \in Nat
  <2>1. Len(Frame) \in Nat \ {0}
    BY DmaAssumption
  <2>2. c.maddr - n \in Int /\ c.maddr + n \in Int
    BY <1>4
  <2>3. \A m \in Int, l \in Nat \ {0} : m % l \in Nat
    OBVIOUS
  <2> QED
    BY <2>1, <2>2, <2>3 DEF Step
<1> QED
  BY <1>4, <1>5, <1>6, <1>7

\* A channel that moved its address on, and one that also used up its count.
LEMMA MovedType ==
  ASSUME NEW ch \in [Port -> ChannelType], NEW port \in Port, NEW a \in Nat
  PROVE  /\ [ch EXCEPT ![port].maddr = a] \in [Port -> ChannelType]
         /\ [ch EXCEPT ![port].count = 0] \in [Port -> ChannelType]
<1> DEFINE c == ch[port]
           ca == [c EXCEPT !.maddr = a]
           cn == [c EXCEPT !.count = 0]
<1>1. c \in ChannelType
  OBVIOUS
<1>2. /\ [ch EXCEPT ![port].maddr = a] = [ch EXCEPT ![port] = ca]
      /\ [ch EXCEPT ![port].count = 0] = [ch EXCEPT ![port] = cn]
  OBVIOUS
<1> HIDE DEF c
<1>3. ca \in ChannelType /\ cn \in ChannelType
  <2>1. 0 \in Halfword
    BY SMT DEF Halfword
  <2> QED
    BY <1>1, <2>1, ChannelFields
<1> HIDE DEF ca, cn
<1> QED
  BY <1>2, <1>3

LEMMA SteppedDevice ==
  ASSUME NEW s, IsState(s), Device(s), NEW port \in Port, NEW a \in Nat
  PROVE  LET z == [s EXCEPT !.channel[port].maddr = a] IN IsState(z) /\ Device(z)
<1> DEFINE ch == [s.channel EXCEPT ![port].maddr = a]
           z == [s EXCEPT !.channel = ch]
<1>1. ch \in [Port -> ChannelType]
  BY MovedType DEF Device
<1> HIDE DEF ch
<1>2. IsState(z) /\ z.channel = ch /\ z.mdec = s.mdec
  BY DEF IsState, Fields
<1>3. [s EXCEPT !.channel[port].maddr = a] = z
  BY DEF ch
<1> HIDE DEF z
<1> QED
  BY <1>1, <1>2, <1>3 DEF Device

LEMMA MovedDevice ==
  ASSUME NEW s, IsState(s), Device(s), NEW port \in Port, NEW data, Good(data), NEW a \in Nat
  PROVE  LET z == [s EXCEPT !.mdec = data, !.channel[port].count = 0, !.channel[port].maddr = a]
         IN IsState(z) /\ Device(z)
<1> DEFINE x == [s EXCEPT !.mdec = data]
           ch == [x.channel EXCEPT ![port].count = 0]
           y == [x EXCEPT !.channel = ch]
<1>1. IsState(x) /\ x.channel = s.channel /\ x.mdec = data
  BY DEF IsState, Fields
<1> HIDE DEF x
<1>2. ch \in [Port -> ChannelType]
  BY <1>1, MovedType DEF Device
<1>3. IsState(y) /\ y.channel = ch /\ y.mdec = data
  BY <1>1 DEF IsState, Fields
<1>4. Device(y)
  BY <1>2, <1>3 DEF Device
<1>5. y = [s EXCEPT !.mdec = data, !.channel[port].count = 0]
  BY DEF x
<1>6. [s EXCEPT !.mdec = data, !.channel[port].count = 0, !.channel[port].maddr = a]
         = [y EXCEPT !.channel[port].maddr = a]
  BY <1>5
<1> HIDE DEF y
<1> QED
  BY <1>3, <1>4, <1>6, SteppedDevice

\* The decoder's two channels.
LEMMA DecoderTransfers ==
  ASSUME NEW s, IsState(s), Device(s)
  PROVE  Device(DoMdecIn(s)) /\ Device(DoMdecOut(s))
<1>1. MdecIn \in Port /\ MdecOut \in Port
  BY DEF MdecIn, MdecOut, Port
<1>2. ASSUME NEW port \in Port, NEW c, c = s.channel[port]
      PROVE  /\ c \in ChannelType /\ c.maddr \in Nat /\ c.count * BlockSize(c) \in Nat
             /\ \A n \in Nat : Step(c, n, Len(Frame)) \in Nat
  <2>1. c \in ChannelType /\ c.maddr \in Nat
    BY <1>2, ChannelFields DEF Device
  <2>2. c.count \in Nat /\ BlockSize(c) \in Nat
    BY <2>1, ChannelNumbers
  <2>3. \A m, n \in Nat : m * n \in Nat
    OBVIOUS
  <2> QED
    BY <2>1, <2>2, <2>3, ChannelNumbers
<1>3. Device(DoMdecIn(s))
  <2> DEFINE c == s.channel[MdecIn]
             n == c.count * BlockSize(c)
             a == Step(c, n, Len(Frame))
             d == Fed(s.mdec, c, n)
             z == [s EXCEPT !.mdec = d, !.channel[MdecIn].count = 0, !.channel[MdecIn].maddr = a]
  <2>1. c.maddr \in Nat /\ n \in Nat /\ a \in Nat
    BY <1>1, <1>2
  <2>2. \/ DoMdecIn(s) = s
        \/ DoMdecIn(s) = Complete(z, MdecIn, 0)
    BY DEF DoMdecIn
  <2> HIDE DEF n, c
  <2>3. Good(d)
    BY <2>1, FedIsGood DEF Device
  <2> HIDE DEF a, d
  <2>4. IsState(z) /\ Device(z)
    BY <1>1, <2>1, <2>3, MovedDevice
  <2> HIDE DEF z
  <2>5. Device(Complete(z, MdecIn, 0))
    BY <1>1, <2>4, CompleteDevice
  <2> QED
    BY <2>2, <2>5
<1>4. Device(DoMdecOut(s))
  <2> DEFINE c == s.channel[MdecOut]
             n == c.count * BlockSize(c)
             a == Step(c, n, Len(Frame))
             d == Times(n, DmaReadWord, s.mdec)
             z == [s EXCEPT !.mdec = d, !.channel[MdecOut].count = 0, !.channel[MdecOut].maddr = a]
  <2>1. n \in Nat /\ a \in Nat
    BY <1>1, <1>2
  <2>2. \/ DoMdecOut(s) = s
        \/ DoMdecOut(s) = Complete(z, MdecOut, 0)
    BY DEF DoMdecOut
  <2> HIDE DEF n, c
  <2>3. Good(d)
    <3>1. PICK g \in [0 .. n -> GoodDecoder] : Times(n, DmaReadWord, s.mdec) = g[n]
      BY <2>1, ReadTimes DEF Device
    <3>2. g[n] \in GoodDecoder
      BY <2>1
    <3> QED
      BY <3>1, <3>2 DEF GoodDecoder
  <2> HIDE DEF a, d
  <2>4. IsState(z) /\ Device(z)
    BY <1>1, <2>1, <2>3, MovedDevice
  <2> HIDE DEF z
  <2>5. Device(Complete(z, MdecOut, 0))
    BY <1>1, <2>4, CompleteDevice
  <2> QED
    BY <2>2, <2>5
<1> QED
  BY <1>3, <1>4

\* The other channels only move their address.
LEMMA SlicesDevice ==
  ASSUME NEW s, IsState(s), Device(s), NEW port \in Port
  PROVE  Device(DoSlices(s, port))
<1> DEFINE c == s.channel[port]
           n == BlockCount(c) * BlockSize(c)
           a == Step(c, n, Len(Frame))
           z == [s EXCEPT !.channel[port].maddr = a]
           b == BlockCount(c)
<1>1. a \in Nat
  <2>1. c \in ChannelType
    BY DEF Device
  <2> HIDE DEF c
  <2>2. BlockCount(c) \in Nat /\ BlockSize(c) \in Nat
    BY <2>1, ChannelNumbers
  <2>3. \A l, m \in Nat : l * m \in Nat
    OBVIOUS
  <2>4. n \in Nat
    BY <2>2, <2>3
  <2> HIDE DEF n
  <2> QED
    BY <2>1, <2>4, ChannelNumbers
<1>2. \/ DoSlices(s, port) = s
      \/ DoSlices(s, port) = Complete(z, port, b)
  BY DEF DoSlices
<1> HIDE DEF a, b, c
<1>3. IsState(z) /\ Device(z)
  BY <1>1, SteppedDevice
<1> HIDE DEF z
<1>4. Device(Complete(z, port, b))
  BY <1>3, CompleteDevice
<1> QED
  BY <1>2, <1>4

LEMMA GpuDevice ==
  ASSUME NEW s, IsState(s), Device(s)
  PROVE  Device(DoGpu(s))
<1>1. Gpu \in Port
  BY DEF Gpu, Port
<1>2. ASSUME NEW list, NEW n PROVE Device(Complete([s EXCEPT !.drawn = list], Gpu, n))
  <2> DEFINE z == [s EXCEPT !.drawn = list]
  <2>1. IsState(z) /\ z.channel = s.channel /\ z.mdec = s.mdec
    BY DEF IsState, Fields
  <2> HIDE DEF z
  <2>2. Device(z)
    BY <2>1 DEF Device
  <2>3. Device(Complete(z, Gpu, n))
    BY <1>1, <2>1, <2>2, CompleteDevice
  <2> QED
    BY <2>3 DEF z
<1>3. Device(DoGpuLinkedList(s))
  BY <1>2 DEF DoGpuLinkedList
<1> QED
  BY <1>1, <1>3, SlicesDevice DEF DoGpu

LEMMA OtcDevice ==
  ASSUME NEW s, IsState(s), Device(s)
  PROVE  Device(DoOtc(s))
<1>1. Otc \in Port
  BY DEF Otc, Port
<1>2. ASSUME NEW m, NEW ls, NEW bs
      PROVE  Device(Complete([s EXCEPT !.mem = m, !.linked = ls, !.bottom = bs], Otc, 0))
  <2> DEFINE a == [s EXCEPT !.mem = m]
             b == [a EXCEPT !.linked = ls]
             z == [b EXCEPT !.bottom = bs]
  <2>1. IsState(a) /\ a.channel = s.channel /\ a.mdec = s.mdec
    BY DEF IsState, Fields
  <2> HIDE DEF a
  <2>2. IsState(b) /\ b.channel = a.channel /\ b.mdec = a.mdec
    BY <2>1 DEF IsState, Fields
  <2> HIDE DEF b
  <2>3. IsState(z) /\ z.channel = b.channel /\ z.mdec = b.mdec
    BY <2>2 DEF IsState, Fields
  <2> HIDE DEF z
  <2>4. Device(z)
    BY <2>1, <2>2, <2>3 DEF Device
  <2>5. Device(Complete(z, Otc, 0))
    BY <1>1, <2>3, <2>4, CompleteDevice
  <2>6. z = [s EXCEPT !.mem = m, !.linked = ls, !.bottom = bs]
    BY DEF a, b, z
  <2> QED
    BY <2>5, <2>6
<1> QED
  BY <1>2 DEF DoOtc

-----------------------------------------------------------------------------
\* The channels are well-typed and the decoder's requests follow its output.
DeviceInv == channel \in [Port -> ChannelType] /\ Good(mdec)

LEMMA ControlKeepsDevice ==
  ASSUME DeviceInv, NEW port \in Port \ {5}, NEW ctrl \in ControlType, StoreControl(port, ctrl)
  PROVE  DeviceInv'
<1> DEFINE ch == [channel EXCEPT ![port].ctrl = ctrl]
           s == [Now EXCEPT !.channel[port].ctrl = ctrl]
           t == CASE port = MdecIn  -> DoMdecIn(s)
                  [] port = MdecOut -> DoMdecOut(s)
                  [] port = Gpu     -> DoGpu(s)
                  [] port \in {CdRom, Spu} -> DoSlices(s, port)
                  [] port = Otc     -> DoOtc(s)
<1>1. IsState(Now) /\ Now.channel = channel /\ Now.mdec = mdec
  BY DEF IsState, Fields, Now
<1>2. ch \in [Port -> ChannelType]
  <2> DEFINE c == channel[port]
             k == [c EXCEPT !.ctrl = ctrl]
  <2>1. c \in ChannelType
    BY DEF DeviceInv
  <2>2. ch = [channel EXCEPT ![port] = k]
    OBVIOUS
  <2> HIDE DEF c
  <2>3. k \in ChannelType
    BY <2>1, ChannelFields
  <2> HIDE DEF k
  <2> QED
    BY <2>2, <2>3 DEF DeviceInv
<1>3. IsState(s) /\ Device(s)
  <2>1. s = [Now EXCEPT !.channel = ch]
    BY <1>1
  <2> HIDE DEF Now, s, ch
  <2>2. IsState(s) /\ s.channel = ch /\ s.mdec = mdec
    BY <1>1, <2>1 DEF IsState, Fields
  <2> QED
    BY <1>2, <2>2 DEF Device, DeviceInv
<1>4. port \in Port /\ port \in {MdecIn, MdecOut, Gpu, CdRom, Spu, Otc}
  BY DEF Port, MdecIn, MdecOut, Gpu, CdRom, Spu, Otc
<1>5. channel' = t.channel /\ mdec' = t.mdec
  BY DEF StoreControl
<1>6. Device(t)
  <2> HIDE DEF s
  <2>1. /\ Device(DoMdecIn(s)) /\ Device(DoMdecOut(s)) /\ Device(DoGpu(s)) /\ Device(DoOtc(s))
        /\ Device(DoSlices(s, port))
    BY <1>3, <1>4, DecoderTransfers, GpuDevice, OtcDevice, SlicesDevice
  <2> QED
    BY <1>4, <2>1
<1> HIDE DEF t
<1> QED
  BY <1>5, <1>6 DEF Device, DeviceInv

LEMMA StepKeepsDevice ==
  ASSUME DeviceInv, [Next]_vars
  PROVE  DeviceInv'
<1>1. ASSUME NEW p \in Port \ {5}, NEW a \in Maddrs(p), StoreMaddr(p, a) PROVE DeviceInv'
  <2>1. p \in Port /\ a \in Nat
    BY DmaAssumption
  <2>2. [channel EXCEPT ![p].maddr = a] \in [Port -> ChannelType]
    BY <2>1, MovedType DEF DeviceInv
  <2> QED
    BY <1>1, <2>2 DEF StoreMaddr, Registers, DeviceInv
<1>2. ASSUME NEW p \in Port \ {5}, NEW b \in BlockControls(p), StoreBlock(p, b) PROVE DeviceInv'
  <2> DEFINE c == channel[p]
             d == [c EXCEPT !.size = b.size]
             e == [d EXCEPT !.count = b.count]
  <2>1. p \in Port /\ b \in BlockType
    BY DmaAssumption
  <2>2. b.size \in Halfword /\ b.count \in Halfword
    BY <2>1 DEF BlockType
  <2>3. c \in ChannelType /\ channel' = [channel EXCEPT ![p] = e]
    BY <1>2, <2>1 DEF StoreBlock, DeviceInv
  <2> HIDE DEF c
  <2>4. d \in ChannelType
    BY <2>2, <2>3, ChannelFields
  <2> HIDE DEF d
  <2>5. e \in ChannelType
    BY <2>2, <2>4, ChannelFields
  <2> HIDE DEF e
  <2>6. mdec' = mdec
    BY <1>2 DEF StoreBlock, Registers
  <2> QED
    BY <2>1, <2>3, <2>5, <2>6 DEF DeviceInv
<1>3. ASSUME NEW p \in Port \ {5}, NEW c \in Controls(p), StoreControl(p, c) PROVE DeviceInv'
  <2>1. c \in ControlType
    BY DmaAssumption
  <2> QED
    BY <1>3, <2>1, ControlKeepsDevice
<1>4. CASE \/ \E on \in Enables : StoreDpcr(on)
           \/ \E w \in DicrStores : StoreDicr(w)
           \/ \E p \in Packets, e \in Entries : Link(p, e)
           \/ AckIrq
           \/ UNCHANGED vars
  BY <1>4 DEF StoreDpcr, StoreDicr, Link, AckIrq, vars, DeviceInv
<1>5. ASSUME NEW c \in MdecControls, MdecControl(c[1], c[2], c[3]) PROVE DeviceInv'
  <2>1. c[1] \in BOOLEAN /\ c[2] \in BOOLEAN /\ c[3] \in BOOLEAN
    BY DmaAssumption
  <2>2. Good(WriteControl(mdec, c[1], c[2], c[3]))
    BY <2>1, ControlledIsGood DEF DeviceInv
  <2> QED
    BY <1>5, <2>2 DEF MdecControl, DeviceInv
<1>6. ASSUME NEW w \in MdecStores, MdecStore(w) PROVE DeviceInv'
  <2>1. Good(WriteParam(mdec, w))
    BY DmaAssumption, ParameterIsGood DEF DeviceInv
  <2> QED
    BY <1>6, <2>1 DEF MdecStore, DeviceInv
<1>7. ASSUME MdecLoad PROVE DeviceInv'
  BY <1>7, ReadIsGood DEF MdecLoad, DeviceInv
<1> QED
  BY <1>1, <1>2, <1>3, <1>4, <1>5, <1>6, <1>7 DEF Next

LEMMA InitDevice == Init => DeviceInv
<1> DEFINE K == Control(FALSE, FALSE, FALSE, "Burst", "ToRam", FALSE)
<1>1. K \in ControlType
  BY DEF Control, ControlType
<1> HIDE DEF K
<1>2. 0 \in Halfword
  BY SMT DEF Halfword
<1>3. [maddr |-> 0, size |-> 0, count |-> 0, ctrl |-> K] \in ChannelType
  BY <1>1, <1>2 DEF ChannelType
<1> QED
  BY <1>3, ResetIsGood DEF Init, DeviceInv, K

\* The decoder asks for input when it has none to give and for a reader when it
\* has, as far as each is enabled, and is busy only with a command or an output:
\* whatever the guest writes to it, or reads of it, by itself or by its channels.
THEOREM RequestsFollow == Spec => []RequestsAgree
<1>1. DeviceInv /\ [Next]_vars => DeviceInv'
  BY StepKeepsDevice
<1>2. DeviceInv => RequestsAgree
  BY DEF DeviceInv, Good, Sound, RequestsAgree
<1> QED
  BY <1>1, <1>2, InitDevice, PTL DEF Spec

-----------------------------------------------------------------------------
(* An output is read to its end.                                           *)

\* Nothing is left that a reader never takes.
Even(d) == d.depth = "Bit15" => (d.fifo - d.out_pos) % 2 = 0

\* What is still to be read, in words at most: three for each pixel or word of
\* the output, less the ones of a group of four pixels that were read.
Left(d) == 3 * (d.fifo - d.out_pos) - d.read_part

LEMMA LeftIsInt ==
  ASSUME NEW d, Good(d)
  PROVE  Left(d) \in Int /\ (d.fifo # 0 => Left(d) >= 1)
<1>1. d.fifo \in Nat /\ d.out_pos \in Nat /\ d.read_part \in 0 .. 2
  BY DEF Good, Sound, DecoderType
<1>2. d.fifo # 0 => d.out_pos < d.fifo
  BY <1>1 DEF Good, Sound
<1> QED
  BY <1>1, <1>2 DEF Left

\* Each word read takes something off it, and leaves no odd pixel.
LEMMA ReadTakes ==
  ASSUME NEW d, Good(d), d.fifo # 0, Even(d)
  PROVE  \/ DmaReadWord(d).fifo = 0
         \/ /\ DmaReadWord(d).fifo = d.fifo /\ Even(DmaReadWord(d))
            /\ Left(DmaReadWord(d)) <= Left(d) - 1
<1> DEFINE e == [d EXCEPT !.out_pos = ReadPos(d), !.read_part = ReadPart(d)]
           l == d.fifo - d.out_pos
<1>1. /\ d.fifo \in Nat \ {0} /\ d.out_pos \in Nat /\ d.read_part \in 0 .. 2
      /\ d.out_pos < d.fifo /\ l \in Nat \ {0}
  BY DEF Good, Sound, DecoderType
<1>2. e.fifo = d.fifo /\ e.depth = d.depth /\ e.out_pos = ReadPos(d) /\ e.read_part = ReadPart(d)
  BY DEF Good, Sound, DecoderType
<1> HIDE DEF e
<1>3. CASE ~(e.out_pos < e.fifo)
  <2> DEFINE f == [e EXCEPT !.fifo = 0, !.out_pos = 0, !.busy = FALSE]
  <2>1. DmaReadWord(d) = UpdateDmaRequests(f)
    BY <1>1, <1>3 DEF DmaReadWord, e
  <2>2. f.fifo = 0
    BY DEF e, Good, Sound, DecoderType
  <2> HIDE DEF f
  <2>3. UpdateDmaRequests(f).fifo = f.fifo
    BY DEF UpdateDmaRequests
  <2> QED
    BY <2>1, <2>2, <2>3
<1>4. CASE e.out_pos < e.fifo
  <2>1. DmaReadWord(d) = e
    BY <1>1, <1>4 DEF DmaReadWord, e
  <2>2. Even(e) /\ Left(e) <= Left(d) - 1
    <3>1. CASE d.depth = "Bit15"
      <4>1. l % 2 = 0
        BY <3>1 DEF Even
      <4>2. l >= 2
        BY <1>1, <4>1
      <4>3. e.out_pos = d.out_pos + 2 /\ e.read_part = d.read_part
        BY <1>1, <1>2, <3>1, <4>2 DEF ReadPos, ReadPart
      <4>4. e.fifo - e.out_pos = l - 2 /\ (l - 2) % 2 = 0
        BY <1>1, <1>2, <4>1, <4>3
      <4> QED
        BY <1>1, <1>2, <4>3, <4>4 DEF Even, Left
    <3>2. CASE d.depth = "Bit24" /\ l >= 4
      <4>1. \/ d.read_part = 2 /\ e.out_pos = d.out_pos + 4 /\ e.read_part = 0
            \/ d.read_part \in 0 .. 1 /\ e.out_pos = d.out_pos /\ e.read_part = d.read_part + 1
        BY <1>1, <1>2, <3>2 DEF ReadPos, ReadPart
      <4> QED
        BY <1>1, <1>2, <3>2, <4>1 DEF Even, Left
    <3>3. CASE d.depth # "Bit15" /\ ~(d.depth = "Bit24" /\ l >= 4)
      <4>1. e.out_pos = d.out_pos + 1 /\ e.read_part = d.read_part
        BY <1>1, <1>2, <3>3 DEF ReadPos, ReadPart
      <4> QED
        BY <1>1, <1>2, <3>3, <4>1 DEF Even, Left
    <3> QED
      BY <3>1, <3>2, <3>3
  <2> QED
    BY <1>2, <2>1, <2>2
<1> QED
  BY <1>3, <1>4

LEMMA GoodDrains ==
  ASSUME NEW d, Good(d), Even(d)
  PROVE  Drained(d).fifo = 0
<1> DEFINE n == 3 * d.fifo
<1>1. d.fifo \in Nat /\ d.out_pos \in Nat /\ d.read_part \in 0 .. 2 /\ n \in Nat
  BY DEF Good, Sound, DecoderType
<1>2. PICK g \in [0 .. n -> GoodDecoder] :
          /\ g[0] = d /\ \A i \in 1 .. n : g[i] = DmaReadWord(g[i - 1])
          /\ Times(n, DmaReadWord, d) = g[n]
  BY <1>1, ReadTimes
<1> HIDE DEF n
<1> DEFINE Less(i) == \/ g[i].fifo = 0
                      \/ Even(g[i]) /\ Left(g[i]) <= n - i
           T == {i \in Nat : i <= n => Less(i)}
<1>3. Nat \subseteq T
  <2>1. 0 \in T
    BY <1>1, <1>2 DEF Left, n
  <2>2. ASSUME NEW i \in Nat, i \in T PROVE i + 1 \in T
    <3> SUFFICES ASSUME i + 1 <= n PROVE Less(i + 1)
      OBVIOUS
    <3>1. i \in 0 .. n /\ i + 1 \in 1 .. n /\ (i + 1) - 1 = i /\ i + 1 \in 0 .. n
      BY <1>1
    <3>2. /\ Less(i) /\ Good(g[i]) /\ g[i + 1] = DmaReadWord(g[i]) /\ Good(g[i + 1])
      BY <1>1, <1>2, <2>2, <3>1 DEF GoodDecoder
    <3>3. CASE g[i].fifo = 0
      <4>1. g[i].out_pos \in Nat
        BY <3>2 DEF Good, Sound, DecoderType
      <4>2. g[i + 1] = g[i]
        BY <3>2, <3>3, <4>1 DEF DmaReadWord
      <4> QED
        BY <3>3, <4>2
    <3>4. CASE g[i].fifo # 0
      <4>1. Even(g[i]) /\ Left(g[i]) <= n - i
        BY <3>2, <3>4
      <4>2. \/ g[i + 1].fifo = 0
            \/ Even(g[i + 1]) /\ Left(g[i + 1]) <= Left(g[i]) - 1
        BY <3>2, <3>4, <4>1, ReadTakes
      <4>3. Left(g[i]) \in Int /\ Left(g[i + 1]) \in Int
        BY <3>2, LeftIsInt
      <4> QED
        BY <1>1, <4>1, <4>2, <4>3
    <3> QED
      BY <3>3, <3>4
  <2>3. \A i \in Nat : i \in T => i + 1 \in T
    BY <2>2
  <2> HIDE DEF T
  <2> QED
    BY <2>1, <2>3, Induction
<1>4. Less(n) /\ Good(g[n])
  BY <1>1, <1>2, <1>3 DEF GoodDecoder
<1>5. Left(g[n]) \in Int /\ (g[n].fifo # 0 => Left(g[n]) >= 1)
  BY <1>4, LeftIsInt
<1>6. Left(g[n]) <= n - n => Left(g[n]) <= 0
  BY <1>1
<1>7. g[n].fifo = 0
  BY <1>4, <1>5, <1>6
<1> QED
  BY <1>2, <1>7 DEF Drained, n

\* A reader that reads on gets to the end of every output, however much of it was
\* read before and by whom, so that the decoder takes input again.
THEOREM OutputsAreRead == Spec => []OutputsDrain
<1>1. DeviceInv /\ [Next]_vars => DeviceInv'
  BY StepKeepsDevice
<1>2. DeviceInv => OutputsDrain
  BY GoodDrains DEF DeviceInv, OutputsDrain, Even
<1> QED
  BY <1>1, <1>2, InitDevice, PTL DEF Spec

-----------------------------------------------------------------------------
(* The ordering table.                                                     *)

Far == Cardinality(Address)   \* a list is no longer than memory

LEMMA AddressesAreFinite ==
  /\ IsFiniteSet(Address) /\ Far \in Nat /\ Table \in Nat \ {0}
  /\ End \notin Address /\ Entries \subseteq Address /\ Packets \subseteq Address
  /\ Entries = 0 .. Table - 1 /\ Packets \cap Entries = {}
<1>1. Table \in Nat \ {0} /\ Packets \subseteq Nat /\ IsFiniteSet(Packets) /\ Packets \cap Entries = {}
  BY DmaAssumption DEF DmaAssumption
<1>2. IsFiniteSet(0 .. Table - 1)
  <2>1. 0 \in Int /\ Table - 1 \in Int
    BY <1>1
  <2> QED
    BY <2>1, FS_Interval
<1>3. IsFiniteSet(Address) /\ Cardinality(Address) \in Nat
  <2>1. IsFiniteSet(Address)
    BY <1>1, <1>2, FS_Union DEF Address, Entries
  <2> QED
    BY <2>1, FS_CardinalityType
<1>4. \A a \in Address : a \in Nat
  BY <1>1 DEF Address, Entries
<1>5. End \notin Nat
  BY DEF End
<1> QED
  BY <1>1, <1>3, <1>4, <1>5 DEF Far, Address, Entries

HeaderType == [count : Nat, next : Address \cup {End}]

\* A header's own part of what a walk collects.
Own(m, a) == IF m[a].count > 0 THEN <<a>> ELSE <<>>

\* What walks of at most n headers collect, for each n.
LEMMA WalkExists ==
  ASSUME NEW m \in [Address -> HeaderType]
  PROVE  \E f \in [0 .. Far -> [Address \cup {End} -> Seq(Address)]] :
            /\ \A n \in 0 .. Far : f[n][End] = <<>>
            /\ \A n \in 1 .. Far, a \in Address : f[n][a] = Own(m, a) \o f[n - 1][m[a].next]
            /\ \A a \in Address : Walk(m, a) = f[Far][a]
<1> DEFINE A == Address \cup {End}
           S == [A -> Seq(Address)]
           none == [a \in A |-> <<>>]
           onto(g) == [a \in A |-> IF a = End THEN <<>> ELSE Own(m, a) \o g[m[a].next]]
           step == [p \in Nat \X S |-> onto(p[2])]
           from == CHOOSE f : f = [n \in 0 .. Far |->
                       [a \in A |-> IF a = End \/ n = 0 THEN <<>>
                                    ELSE Own(m, a) \o f[n - 1][m[a].next]]]
<1>1. \A a \in Address : m[a].next \in A /\ Own(m, a) \in Seq(Address)
  BY DEF HeaderType, Own
<1>2. none \in S
  <2>1. <<>> \in Seq(Address)
    OBVIOUS
  <2> QED
    BY <2>1
<1>3. ASSUME NEW g \in S PROVE onto(g) \in S
  <2>1. \A a \in Address : g[m[a].next] \in Seq(Address)
    BY <1>1
  <2>2. \A a \in Address : Own(m, a) \o g[m[a].next] \in Seq(Address)
    BY <1>1, <2>1
  <2>3. <<>> \in Seq(Address)
    OBVIOUS
  <2> QED
    BY <2>2, <2>3
<1>4. step \in [Nat \X S -> S] /\ \A i \in Nat, g \in S : step[<<i, g>>] = onto(g)
  <2> HIDE DEF S, onto
  <2> QED
    BY <1>3
<1> HIDE DEF S, step
<1>5. PICK f \in [0 .. Far -> S] : Course(f, Far, none, step)
  BY <1>2, <1>4, AddressesAreFinite, CourseExists
<1>6. f = [n \in 0 .. Far |-> [a \in A |-> IF a = End \/ n = 0 THEN <<>>
                                           ELSE Own(m, a) \o f[n - 1][m[a].next]]]
  <2>1. ASSUME NEW n \in 0 .. Far
        PROVE  f[n] = [a \in A |-> IF a = End \/ n = 0 THEN <<>>
                                   ELSE Own(m, a) \o f[n - 1][m[a].next]]
    <3>1. f[n] = IF n = 0 THEN none ELSE step[<<n, f[n - 1]>>]
      BY <1>5, Zenon DEF Course
    <3>2. CASE n = 0
      BY <3>1, <3>2
    <3>3. CASE n # 0
      <4>1. n - 1 \in 0 .. Far /\ n \in Nat
        BY <3>3, AddressesAreFinite
      <4>2. f[n] = onto(f[n - 1])
        BY <1>4, <3>1, <3>3, <4>1
      <4> QED
        BY <3>3, <4>2
    <3> QED
      BY <3>2, <3>3
  <2> QED
    BY <2>1
<1>7. from = [n \in 0 .. Far |-> [a \in A |-> IF a = End \/ n = 0 THEN <<>>
                                              ELSE Own(m, a) \o from[n - 1][m[a].next]]]
  BY <1>6
<1>8. \A a \in Address : Walk(m, a) = from[Far][a]
  BY Zenon DEF Walk, from, Far, Own, A
<1> HIDE DEF from
<1> DEFINE T == {n \in Nat : n <= Far => from[n] \in S}
<1>9. Nat \subseteq T
  <2>1. 0 \in T
    <3>1. from[0] = none
      BY <1>7, AddressesAreFinite
    <3> QED
      BY <1>2, <3>1
  <2>2. ASSUME NEW n \in Nat, n \in T PROVE n + 1 \in T
    <3> SUFFICES ASSUME n + 1 <= Far PROVE from[n + 1] \in S
      OBVIOUS
    <3>1. n + 1 \in 0 .. Far /\ n + 1 # 0 /\ (n + 1) - 1 = n /\ from[n] \in S
      BY <2>2, AddressesAreFinite
    <3>2. from[n + 1] = onto(from[n])
      BY <1>7, <3>1
    <3> QED
      BY <1>3, <3>1, <3>2
  <2>3. \A n \in Nat : n \in T => n + 1 \in T
    BY <2>2
  <2> HIDE DEF T
  <2> QED
    BY <2>1, <2>3, Induction
<1>10. from \in [0 .. Far -> S]
  <2>1. \A n \in 0 .. Far : from[n] \in S
    BY <1>9, AddressesAreFinite
  <2> QED
    BY <1>7, <2>1
<1>11. \A n \in 0 .. Far : from[n][End] = <<>>
  BY <1>7
<1>12. ASSUME NEW n \in 1 .. Far, NEW a \in Address
       PROVE  from[n][a] = Own(m, a) \o from[n - 1][m[a].next]
  <2>1. n \in 0 .. Far /\ n # 0 /\ a \in A /\ a # End
    BY AddressesAreFinite
  <2>2. from[n] = [b \in A |-> IF b = End \/ n = 0 THEN <<>>
                               ELSE Own(m, b) \o from[n - 1][m[b].next]]
    BY <1>7, <2>1
  <2> QED
    BY <2>1, <2>2
<1> QED
  BY <1>8, <1>10, <1>11, <1>12 DEF S

\* What is expected of a walk from each entry.
LEMMA ExpectedExists ==
  ASSUME linked \in [Entries -> Seq(Packets)], 0 \in bottom
  PROVE  \E x \in [Entries -> Seq(Packets)] :
            /\ \A e \in Entries : x[e] = linked[e] \o (IF e \in bottom THEN <<>> ELSE x[e - 1])
            /\ \A e \in Entries : Expected(e) = x[e]
<1> DEFINE S == Seq(Packets)
           N == Table - 1
           step == [p \in Nat \X S |-> linked[p[1]] \o (IF p[1] \in bottom THEN <<>> ELSE p[2])]
           full == [p \in Nat \X S |-> IF p[1] \in Entries THEN step[p] ELSE p[2]]
           from == CHOOSE x : x = [e \in Entries |->
                       linked[e] \o (IF e \in bottom THEN <<>> ELSE x[e - 1])]
<1>1. N \in Nat /\ Entries = 0 .. N /\ 0 \in Entries
  BY AddressesAreFinite
<1>2. linked[0] \in S /\ <<>> \in S
  BY <1>1
<1>3. ASSUME NEW i \in Entries, NEW s \in S
      PROVE  linked[i] \o (IF i \in bottom THEN <<>> ELSE s) \in S
  <2>1. linked[i] \in S /\ (IF i \in bottom THEN <<>> ELSE s) \in S
    BY <1>2
  <2> QED
    BY <2>1
<1>4. /\ full \in [Nat \X S -> S]
      /\ \A i \in Entries, s \in S :
            full[<<i, s>>] = linked[i] \o (IF i \in bottom THEN <<>> ELSE s)
  <2>1. \A i \in Entries : i \in Nat
    BY <1>1
  <2>2. \A p \in Nat \X S : p[1] \in Nat /\ p[2] \in S /\ p = <<p[1], p[2]>>
    OBVIOUS
  <2> HIDE DEF S
  <2> QED
    BY <1>3, <2>1, <2>2
<1> HIDE DEF S, full, step, N
<1>5. PICK h \in [0 .. N -> S] : Course(h, N, linked[0], full)
  BY <1>1, <1>2, <1>4, CourseExists
<1>6. \A e \in Entries : h[e] = linked[e] \o (IF e \in bottom THEN <<>> ELSE h[e - 1])
  <2> SUFFICES ASSUME NEW e \in Entries
               PROVE  h[e] = linked[e] \o (IF e \in bottom THEN <<>> ELSE h[e - 1])
    OBVIOUS
  <2>1. h[e] = IF e = 0 THEN linked[0] ELSE full[<<e, h[e - 1]>>]
    BY <1>1, <1>5, Zenon DEF Course
  <2>2. CASE e = 0
    <3>1. linked[0] \o <<>> = linked[0]
      BY <1>2 DEF S
    <3> QED
      BY <2>1, <2>2, <3>1
  <2>3. CASE e # 0
    <3>1. e - 1 \in 0 .. N
      BY <1>1, <2>3
    <3>2. h[e - 1] \in S
      BY <3>1
    <3> QED
      BY <1>4, <2>1, <2>3, <3>2
  <2> QED
    BY <2>2, <2>3
<1>7. h = [e \in Entries |-> linked[e] \o (IF e \in bottom THEN <<>> ELSE h[e - 1])]
  BY <1>1, <1>6
<1>8. from = [e \in Entries |-> linked[e] \o (IF e \in bottom THEN <<>> ELSE from[e - 1])]
  BY <1>7
<1>9. \A e \in Entries : Expected(e) = from[e]
  BY Zenon DEF Expected, from
<1> HIDE DEF from
<1>10. \A e \in Entries : from[e] = linked[e] \o (IF e \in bottom THEN <<>> ELSE from[e - 1])
  BY <1>8
<1> DEFINE T == {n \in Nat : n \in Entries => from[n] \in S}
<1>11. Nat \subseteq T
  <2>1. 0 \in T
    BY <1>1, <1>2, <1>3, <1>10
  <2>2. ASSUME NEW n \in Nat, n \in T PROVE n + 1 \in T
    <3> SUFFICES ASSUME n + 1 \in Entries PROVE from[n + 1] \in S
      OBVIOUS
    <3>1. n \in Entries /\ (n + 1) - 1 = n
      BY <1>1
    <3>2. from[n] \in S
      BY <2>2, <3>1
    <3>3. from[n + 1] = linked[n + 1] \o (IF n + 1 \in bottom THEN <<>> ELSE from[n])
      BY <1>10, <3>1
    <3> QED
      BY <1>3, <3>2, <3>3
  <2>3. \A n \in Nat : n \in T => n + 1 \in T
    BY <2>2
  <2> HIDE DEF T
  <2> QED
    BY <2>1, <2>3, Induction
<1>12. \A e \in Entries : e \in Nat
  BY <1>1
<1>13. from \in [Entries -> S]
  BY <1>8, <1>11, <1>12
<1> QED
  BY <1>9, <1>10, <1>13 DEF S

\* The table and the packets linked into it: an entry has no words and leads to
\* its packets, the last of them, or the entry itself, to the entry below or,
\* where the list ends, to the end; a packet is linked once.
At(e, i) == IF i = 0 THEN e ELSE linked[e][i]
Below(e) == IF e \in bottom THEN End ELSE e - 1

ListTypes ==
    /\ mem \in [Address -> HeaderType] /\ linked \in [Entries -> Seq(Packets)]
    /\ 0 \in bottom
Counts ==
    /\ \A e \in Entries : mem[e].count = 0
    /\ \A e \in Entries : \A i \in 1 .. Len(linked[e]) : mem[linked[e][i]].count > 0
Leads ==
    \A e \in Entries : \A i \in 0 .. Len(linked[e]) :
        mem[At(e, i)].next = IF i < Len(linked[e]) THEN linked[e][i + 1] ELSE Below(e)
Once ==
    \A x, y \in Entries : \A i \in 1 .. Len(linked[x]), j \in 1 .. Len(linked[y]) :
        linked[x][i] = linked[y][j] => x = y /\ i = j
ListInv == ListTypes /\ Counts /\ Leads /\ Once

\* What hangs below an entry, itself included.
Hung(e) == {At(e, i) : i \in 0 .. Len(linked[e])}
Live(e) == UNION {Hung(x) : x \in 0 .. e}

LEMMA HungSize ==
  ASSUME ListInv, NEW e \in Entries
  PROVE  /\ Hung(e) \subseteq Address /\ IsFiniteSet(Hung(e))
         /\ Cardinality(Hung(e)) = Len(linked[e]) + 1
<1> DEFINE l == Len(linked[e])
           f == [i \in 0 .. l |-> At(e, i)]
<1>1. l \in Nat /\ \A i \in 1 .. l : linked[e][i] \in Packets
  BY DEF ListInv, ListTypes
<1>2. ASSUME NEW i \in 0 .. l PROVE At(e, i) \in Address
  <2>1. i # 0 => i \in 1 .. l
    BY <1>1
  <2>2. i # 0 => linked[e][i] \in Packets
    BY <1>1, <2>1
  <2>3. e \in Address /\ Packets \subseteq Address
    BY AddressesAreFinite
  <2> QED
    BY <2>2, <2>3 DEF At
<1>3. \A i, j \in 0 .. l : At(e, i) = At(e, j) => i = j
  <2>1. \A i \in 1 .. l : linked[e][i] # e
    BY <1>1, AddressesAreFinite
  <2>2. \A i, j \in 1 .. l : linked[e][i] = linked[e][j] => i = j
    BY DEF ListInv, Once
  <2> QED
    BY <1>1, <2>1, <2>2 DEF At
<1> HIDE DEF l
<1>4. f \in Bijection(0 .. l, Hung(e))
  <2>1. Hung(e) = {At(e, i) : i \in 0 .. l}
    BY DEF Hung, l
  <2>2. f \in Injection(0 .. l, Hung(e))
    BY <1>3, <2>1 DEF Injection, IsInjective
  <2>3. f \in Surjection(0 .. l, Hung(e))
    BY <2>1 DEF Surjection
  <2> QED
    BY <2>2, <2>3 DEF Bijection
<1>5. IsFiniteSet(0 .. l) /\ Cardinality(0 .. l) = l + 1
  <2>1. 0 \in Int /\ l \in Int /\ ~(0 > l)
    BY <1>1
  <2>2. IsFiniteSet(0 .. l) /\ Cardinality(0 .. l) = l - 0 + 1
    BY <2>1, FS_Interval
  <2> QED
    BY <2>1, <2>2
<1>6. IsFiniteSet(Hung(e)) /\ Cardinality(Hung(e)) = Cardinality(0 .. l)
  <2>1. ExistsBijection(0 .. l, Hung(e))
    BY <1>4 DEF ExistsBijection
  <2> QED
    BY <1>5, <2>1, FS_Bijection
<1>7. Hung(e) \subseteq Address
  BY <1>2 DEF Hung, l
<1> QED
  BY <1>5, <1>6, <1>7 DEF l

\* What hangs below an entry is the entry's own and what hangs below the next.
LEMMA LiveSize ==
  ASSUME ListInv, NEW e \in Entries
  PROVE  /\ Live(e) \subseteq Address /\ Cardinality(Live(e)) \in 0 .. Far
         /\ Cardinality(Live(e)) >= Len(linked[e]) + 1
         /\ e # 0 => Cardinality(Live(e)) = Len(linked[e]) + 1 + Cardinality(Live(e - 1))
<1>1. e \in Nat /\ \A x \in 0 .. e : x \in Entries
  BY AddressesAreFinite
<1>2. ASSUME NEW n \in Nat, n <= e
      PROVE  Live(n) \subseteq Address /\ IsFiniteSet(Live(n)) /\ Cardinality(Live(n)) \in 0 .. Far
  <2>1. \A x \in 0 .. n : x \in Entries
    BY <1>1, <1>2
  <2>2. Live(n) \subseteq Address
    BY <2>1, HungSize DEF Live
  <2>3. IsFiniteSet(Live(n)) /\ Cardinality(Live(n)) \in Nat /\ Cardinality(Live(n)) <= Far
    BY <2>2, AddressesAreFinite, FS_Subset, FS_CardinalityType DEF Far
  <2> QED
    BY <2>2, <2>3, AddressesAreFinite
<1>3. Hung(e) \subseteq Live(e)
  BY <1>1 DEF Live
<1>4. Len(linked[e]) \in Nat
  BY DEF ListInv, ListTypes
<1>5. Cardinality(Live(e)) >= Len(linked[e]) + 1
  <2>1. IsFiniteSet(Live(e)) /\ Cardinality(Live(e)) \in Nat
    BY <1>1, <1>2, FS_CardinalityType
  <2>2. Cardinality(Hung(e)) <= Cardinality(Live(e))
    BY <1>3, <2>1, FS_Subset
  <2> QED
    BY <1>4, <2>1, <2>2, HungSize
<1>6. ASSUME e # 0
      PROVE  Cardinality(Live(e)) = Len(linked[e]) + 1 + Cardinality(Live(e - 1))
  <2>1. e - 1 \in Nat /\ e - 1 <= e
    BY <1>1, <1>6
  <2>2. Live(e) = Hung(e) \cup Live(e - 1)
    <3>1. 0 .. e = {e} \cup (0 .. e - 1)
      BY <1>1, <2>1
    <3> QED
      BY <3>1 DEF Live
  <2>3. Hung(e) \cap Live(e - 1) = {}
    <3> SUFFICES ASSUME NEW x \in 0 .. e - 1, NEW i \in 0 .. Len(linked[e]),
                        NEW j \in 0 .. Len(linked[x]), At(e, i) = At(x, j)
                 PROVE  FALSE
      BY DEF Hung, Live
    <3>1. x \in Entries /\ x # e
      BY <1>1, <2>1
    <3>2. /\ i # 0 => linked[e][i] \in Packets /\ i \in 1 .. Len(linked[e])
          /\ j # 0 => linked[x][j] \in Packets /\ j \in 1 .. Len(linked[x])
      BY <3>1 DEF ListInv, ListTypes
    <3>3. ~(i # 0 /\ j # 0)
      BY <3>1, <3>2 DEF ListInv, Once, At
    <3> QED
      BY <3>1, <3>2, <3>3, AddressesAreFinite DEF At
  <2>4. IsFiniteSet(Live(e - 1)) /\ Cardinality(Live(e - 1)) \in Nat
    BY <1>2, <2>1, FS_CardinalityType
  <2>5. IsFiniteSet(Hung(e)) /\ Cardinality(Hung(e)) = Len(linked[e]) + 1
    BY HungSize
  <2>6. Cardinality(Hung(e) \cup Live(e - 1))
            = Cardinality(Hung(e)) + Cardinality(Live(e - 1)) - Cardinality(Hung(e) \cap Live(e - 1))
    BY <2>4, <2>5, FS_Union
  <2>7. Cardinality(Hung(e) \cap Live(e - 1)) = 0
    BY <2>3, FS_EmptySet
  <2> QED
    BY <1>4, <2>2, <2>4, <2>5, <2>6, <2>7
<1> QED
  BY <1>1, <1>2, <1>5, <1>6

\* The end of a sequence, from one element on.
LEMMA FromOnePlaceOn ==
  ASSUME NEW S, NEW s \in Seq(S), NEW u \in Seq(S)
  PROVE  /\ SubSeq(s, Len(s) + 1, Len(s)) \o u = u
         /\ SubSeq(s, 1, Len(s)) = s
         /\ \A k \in 1 .. Len(s) :
               <<s[k]>> \o (SubSeq(s, k + 1, Len(s)) \o u) = SubSeq(s, k, Len(s)) \o u
<1>1. SubSeq(s, Len(s) + 1, Len(s)) = <<>>
  OBVIOUS
<1>2. <<>> \o u = u
  OBVIOUS
<1>3. SubSeq(s, 1, Len(s)) = s
  OBVIOUS
<1>4. ASSUME NEW k \in 1 .. Len(s)
      PROVE  <<s[k]>> \o (SubSeq(s, k + 1, Len(s)) \o u) = SubSeq(s, k, Len(s)) \o u
  <2> DEFINE v == SubSeq(s, k + 1, Len(s))
  <2>1. Len(s) \in Nat /\ Len(s) \in k .. Len(s) /\ k \in Int
    OBVIOUS
  <2>2. SubSeq(s, k, Len(s)) = <<s[k]>> \o v
    BY <2>1, SubSeqRecursiveFirst
  <2>3. v \in Seq(S) /\ <<s[k]>> \in Seq(S)
    <3>1. \A i \in k + 1 .. Len(s) : s[i] \in S
      OBVIOUS
    <3>2. v \in Seq(S)
      BY <2>1, <3>1, SubSeqProperties
    <3> QED
      BY <3>2
  <2> HIDE DEF v
  <2>4. (<<s[k]>> \o v) \o u = <<s[k]>> \o (v \o u)
    BY <2>3, ConcatAssociative
  <2> QED
    BY <2>2, <2>4 DEF v
<1> QED
  BY <1>1, <1>2, <1>3, <1>4

\* A walk from an entry: its packets, then what there is from its end on.
LEMMA EntryWalk ==
  ASSUME ListInv, NEW f \in [0 .. Far -> [Address \cup {End} -> Seq(Address)]],
         \A n \in 1 .. Far, a \in Address : f[n][a] = Own(mem, a) \o f[n - 1][mem[a].next],
         NEW e \in Entries, NEW u \in Seq(Address), NEW need \in Nat,
         \A n \in 0 .. Far : n >= need => f[n][Below(e)] = u
  PROVE  \A n \in 0 .. Far : n >= need + Len(linked[e]) + 1 => f[n][e] = linked[e] \o u
<1> DEFINE s == linked[e]
           l == Len(s)
           Rest(i) == SubSeq(s, l - i + 1, l) \o u
           Goal(i) == \A n \in 0 .. Far : n >= need + i => f[n][mem[At(e, l - i)].next] = Rest(i)
           T == {i \in Nat : i <= l => Goal(i)}
<1>1. s \in Seq(Address) /\ l \in Nat /\ Far \in Nat /\ e \in Address
  <2>1. s \in Seq(Packets) /\ Packets \subseteq Address
    BY AddressesAreFinite DEF ListInv, ListTypes
  <2>2. s \in Seq(Address)
    BY <2>1
  <2> QED
    BY <2>2, AddressesAreFinite
<1>2. /\ \A i \in 0 .. l : mem[At(e, i)].next = IF i < l THEN s[i + 1] ELSE Below(e)
      /\ \A i \in 1 .. l : Own(mem, s[i]) = <<s[i]>> /\ s[i] \in Address
      /\ Own(mem, e) = <<>>
  <2>1. \A i \in 0 .. l : mem[At(e, i)].next = IF i < l THEN s[i + 1] ELSE Below(e)
    BY DEF ListInv, Leads
  <2>2. \A i \in 1 .. l : mem[s[i]].count > 0 /\ s[i] \in Address
    BY <1>1 DEF ListInv, Counts
  <2>3. mem[e].count = 0
    BY DEF ListInv, Counts
  <2> QED
    BY <2>1, <2>2, <2>3 DEF Own
<1>3. /\ Rest(0) = u /\ Rest(l) = s \o u
      /\ \A k \in 1 .. l : <<s[k]>> \o (SubSeq(s, k + 1, l) \o u) = SubSeq(s, k, l) \o u
  <2>1. l - 0 + 1 = l + 1 /\ l - l + 1 = 1
    BY <1>1
  <2>2. /\ SubSeq(s, l + 1, l) \o u = u /\ SubSeq(s, 1, l) = s
        /\ \A k \in 1 .. l : <<s[k]>> \o (SubSeq(s, k + 1, l) \o u) = SubSeq(s, k, l) \o u
    BY <1>1, FromOnePlaceOn
  <2> HIDE DEF s, l
  <2> QED
    BY <2>1, <2>2
<1> HIDE DEF s, l
<1>4. Goal(0)
  <2>1. l - 0 = l /\ l \in 0 .. l /\ ~(l < l)
    BY <1>1
  <2>2. mem[At(e, l - 0)].next = Below(e)
    BY <1>2, <2>1
  <2> HIDE DEF Rest
  <2> QED
    BY <1>3, <2>2
<1>5. ASSUME NEW i \in Nat, i + 1 <= l, Goal(i) PROVE Goal(i + 1)
  <2> SUFFICES ASSUME NEW n \in 0 .. Far, n >= need + (i + 1)
               PROVE  f[n][mem[At(e, l - (i + 1))].next] = Rest(i + 1)
    OBVIOUS
  <2> DEFINE k == l - i
  <2>1. k \in 1 .. l /\ k - 1 = l - (i + 1) /\ k - 1 \in 0 .. l /\ k - 1 < l /\ (k - 1) + 1 = k
    BY <1>1, <1>5
  <2>2. n \in 1 .. Far /\ n - 1 \in 0 .. Far /\ n - 1 >= need + i
    BY <1>1
  <2>3. mem[At(e, k - 1)].next = s[k]
    BY <1>2, <2>1
  <2>4. f[n][s[k]] = <<s[k]>> \o f[n - 1][mem[s[k]].next]
    <3>1. s[k] \in Address /\ Own(mem, s[k]) = <<s[k]>>
      BY <1>2, <2>1
    <3>2. f[n][s[k]] = Own(mem, s[k]) \o f[n - 1][mem[s[k]].next]
      BY <2>2, <3>1
    <3> QED
      BY <3>1, <3>2
  <2>5. s[k] = At(e, k)
    BY <2>1 DEF At, s
  <2>6. f[n - 1][mem[At(e, k)].next] = Rest(i)
    BY <1>5, <2>2
  <2>7. Rest(i) = SubSeq(s, k + 1, l) \o u /\ Rest(i + 1) = SubSeq(s, k, l) \o u
    <3>1. l - i + 1 = k + 1 /\ l - (i + 1) + 1 = k
      BY <1>1
    <3> QED
      BY <3>1
  <2> HIDE DEF Rest, k
  <2> QED
    BY <1>3, <2>1, <2>3, <2>4, <2>5, <2>6, <2>7
<1>6. Nat \subseteq T
  <2>1. 0 \in T
    BY <1>4
  <2>2. \A i \in Nat : i \in T => i + 1 \in T
    <3> HIDE DEF Goal
    <3> QED
      BY <1>1, <1>5
  <2> HIDE DEF T
  <2> QED
    BY <2>1, <2>2, Induction
<1>7. Goal(l)
  <2> HIDE DEF Goal
  <2> QED
    BY <1>1, <1>6
<1>8. ASSUME NEW n \in 0 .. Far, n >= need + l + 1 PROVE f[n][e] = s \o u
  <2>1. n \in 1 .. Far /\ n - 1 \in 0 .. Far /\ n - 1 >= need + l /\ l - l = 0
    BY <1>1, <1>8
  <2>2. f[n][e] = <<>> \o f[n - 1][mem[e].next]
    <3>1. f[n][e] = Own(mem, e) \o f[n - 1][mem[e].next]
      BY <1>1, <2>1
    <3> QED
      BY <1>2, <3>1
  <2>3. f[n - 1][mem[At(e, 0)].next] = Rest(l)
    <3> HIDE DEF Rest
    <3> QED
      BY <1>7, <2>1
  <2>4. At(e, 0) = e
    BY DEF At
  <2>5. s \o u \in Seq(Address)
    BY <1>1
  <2>6. <<>> \o (s \o u) = s \o u
    BY <2>5
  <2> HIDE DEF Rest
  <2> QED
    BY <1>3, <2>2, <2>3, <2>4, <2>6
<1> QED
  BY <1>8 DEF s, l

\* A walk from an entry collects what is expected of it.
LEMMA WalkIsExpected ==
  ASSUME ListInv, NEW a \in Entries
  PROVE  Walk(mem, a) = Expected(a)
<1>1. PICK f \in [0 .. Far -> [Address \cup {End} -> Seq(Address)]] :
          /\ \A n \in 0 .. Far : f[n][End] = <<>>
          /\ \A n \in 1 .. Far, b \in Address : f[n][b] = Own(mem, b) \o f[n - 1][mem[b].next]
          /\ \A b \in Address : Walk(mem, b) = f[Far][b]
  BY WalkExists DEF ListInv, ListTypes
<1>2. PICK x \in [Entries -> Seq(Packets)] :
          /\ \A e \in Entries : x[e] = linked[e] \o (IF e \in bottom THEN <<>> ELSE x[e - 1])
          /\ \A e \in Entries : Expected(e) = x[e]
  BY ExpectedExists DEF ListInv, ListTypes
<1> DEFINE Goal(e) == \A n \in 0 .. Far : n >= Cardinality(Live(e)) => f[n][e] = x[e]
           T == {e \in Nat : e \in Entries => Goal(e)}
<1>3. ASSUME NEW e \in Entries, e \notin bottom => e - 1 \in Entries /\ Goal(e - 1)
      PROVE  Goal(e)
  <2> DEFINE u == IF e \in bottom THEN <<>> ELSE x[e - 1]
             need == IF e \in bottom THEN 0 ELSE Cardinality(Live(e - 1))
  <2>1. u \in Seq(Address) /\ need \in Nat
    <3>1. CASE e \in bottom
      BY <3>1
    <3>2. CASE e \notin bottom
      <4>1. e - 1 \in Entries
        BY <1>3, <3>2
      <4>2. x[e - 1] \in Seq(Packets) /\ Packets \subseteq Address
        BY <4>1, AddressesAreFinite
      <4>3. x[e - 1] \in Seq(Address)
        BY <4>2
      <4>4. Cardinality(Live(e - 1)) \in 0 .. Far
        BY <4>1, LiveSize
      <4> QED
        BY <3>2, <4>3, <4>4, AddressesAreFinite
    <3> QED
      BY <3>1, <3>2
  <2>2. ASSUME NEW n \in 0 .. Far, n >= need PROVE f[n][Below(e)] = u
    <3>1. CASE e \in bottom
      BY <1>1, <3>1 DEF Below
    <3>2. CASE e \notin bottom
      BY <1>3, <2>2, <3>2 DEF Below
    <3> QED
      BY <3>1, <3>2
  <2>3. Cardinality(Live(e)) >= need + Len(linked[e]) + 1 /\ Cardinality(Live(e)) \in Nat
    <3>1. Len(linked[e]) \in Nat
      BY DEF ListInv, ListTypes
    <3>2. CASE e \in bottom
      BY <3>1, <3>2, LiveSize, AddressesAreFinite
    <3>3. CASE e \notin bottom
      <4>1. e # 0
        BY <3>3 DEF ListInv, ListTypes
      <4>2. need = Cardinality(Live(e - 1))
        BY <3>3
      <4>3. Cardinality(Live(e)) \in 0 .. Far
            /\ Cardinality(Live(e)) = Len(linked[e]) + 1 + Cardinality(Live(e - 1))
        BY <4>1, LiveSize
      <4>4. Cardinality(Live(e)) \in Nat
        BY <4>3, AddressesAreFinite
      <4> HIDE DEF need
      <4> QED
        BY <2>1, <3>1, <4>2, <4>3, <4>4
    <3> QED
      BY <3>2, <3>3
  <2>4. x[e] = linked[e] \o u
    BY <1>2
  <2> HIDE DEF u, need
  <2>5. \A n \in 0 .. Far : n >= need + Len(linked[e]) + 1 => f[n][e] = linked[e] \o u
    BY <1>1, <2>1, <2>2, EntryWalk
  <2> SUFFICES ASSUME NEW n \in 0 .. Far, n >= Cardinality(Live(e)) PROVE f[n][e] = x[e]
    OBVIOUS
  <2>6. n >= need + Len(linked[e]) + 1
    <3>1. Len(linked[e]) \in Nat /\ n \in Nat
      BY AddressesAreFinite DEF ListInv, ListTypes
    <3> QED
      BY <2>1, <2>3, <3>1
  <2> QED
    BY <2>4, <2>5, <2>6
<1>4. Nat \subseteq T
  <2>1. 0 \in T
    BY <1>3 DEF ListInv, ListTypes
  <2>2. ASSUME NEW e \in Nat, e \in T PROVE e + 1 \in T
    <3> SUFFICES ASSUME e + 1 \in Entries PROVE Goal(e + 1)
      OBVIOUS
    <3>1. (e + 1) - 1 = e /\ e \in Entries
      BY AddressesAreFinite
    <3> HIDE DEF Goal
    <3> QED
      BY <1>3, <2>2, <3>1
  <2>3. \A e \in Nat : e \in T => e + 1 \in T
    BY <2>2
  <2> HIDE DEF T
  <2> QED
    BY <2>1, <2>3, Induction
<1>5. Goal(a)
  <2>1. a \in Nat
    BY AddressesAreFinite
  <2> HIDE DEF Goal
  <2> QED
    BY <1>4, <2>1
<1>6. Far \in 0 .. Far /\ Far >= Cardinality(Live(a)) /\ a \in Address
  <2>1. Cardinality(Live(a)) \in 0 .. Far
    BY LiveSize
  <2> QED
    BY <2>1, AddressesAreFinite
<1> QED
  BY <1>1, <1>2, <1>5, <1>6

-----------------------------------------------------------------------------
\* What a transfer leaves of the lists, and what it drew.
Lists(s) == <<s.mem, s.linked, s.bottom, s.drawn>>

LEMMA ChannelIrqLists ==
  ASSUME NEW s, IsState(s), NEW port, NEW full
  PROVE  IsState(ChannelIrq(s, port, full)) /\ Lists(ChannelIrq(s, port, full)) = Lists(s)
<1> DEFINE d == UpdateMasterIrq([s.dicr EXCEPT !.flags = @ \cup {port}])
           i == IF d.master THEN Raise(s.irq, "dma") ELSE s.irq
           t == [s EXCEPT !.dicr = d, !.irq = i]
<1>1. \/ ChannelIrq(s, port, full) = s
      \/ ChannelIrq(s, port, full) = t
  BY DEF ChannelIrq
<1> HIDE DEF d, i
<1>2. IsState(t) /\ Lists(t) = Lists(s)
  BY DEF IsState, Fields, Lists
<1> HIDE DEF t
<1> QED
  BY <1>1, <1>2

LEMMA CompleteLists ==
  ASSUME NEW s, IsState(s), NEW port, NEW blocks
  PROVE  Lists(Complete(s, port, blocks)) = Lists(s)
<1> DEFINE t == IF blocks > 0 THEN ChannelIrq(s, port, FALSE) ELSE s
           v == [t EXCEPT !.channel[port].ctrl.start = FALSE]
           u == [v EXCEPT !.channel[port].ctrl.force = FALSE]
<1>1. IsState(t) /\ Lists(t) = Lists(s)
  BY ChannelIrqLists
<1>2. Complete(s, port, blocks) = ChannelIrq(u, port, TRUE)
  BY DEF Complete
<1> HIDE DEF t
<1>3. IsState(v) /\ Lists(v) = Lists(t)
  BY <1>1 DEF IsState, Fields, Lists
<1> HIDE DEF v
<1>4. IsState(u) /\ Lists(u) = Lists(v)
  BY <1>3 DEF IsState, Fields, Lists
<1> HIDE DEF u
<1>5. Lists(ChannelIrq(u, port, TRUE)) = Lists(u)
  BY <1>4, ChannelIrqLists
<1> QED
  BY <1>1, <1>2, <1>3, <1>4, <1>5

\* Most transfers leave them alone.
LEMMA OtherTransfersLists ==
  ASSUME NEW s, IsState(s), NEW port
  PROVE  /\ Lists(DoMdecIn(s)) = Lists(s) /\ Lists(DoMdecOut(s)) = Lists(s)
         /\ Lists(DoSlices(s, port)) = Lists(s)
<1>1. ASSUME NEW q, NEW data, NEW count, NEW maddr
      PROVE  LET z == [s EXCEPT !.mdec = data, !.channel[q].count = count, !.channel[q].maddr = maddr]
             IN Lists(Complete(z, q, 0)) = Lists(s)
  <2> DEFINE a == [s EXCEPT !.mdec = data]
             b == [a EXCEPT !.channel[q].count = count]
             z == [b EXCEPT !.channel[q].maddr = maddr]
  <2>1. IsState(a) /\ Lists(a) = Lists(s)
    BY DEF IsState, Fields, Lists
  <2>2. z = [s EXCEPT !.mdec = data, !.channel[q].count = count, !.channel[q].maddr = maddr]
    OBVIOUS
  <2> HIDE DEF a
  <2>3. IsState(b) /\ Lists(b) = Lists(a)
    BY <2>1 DEF IsState, Fields, Lists
  <2> HIDE DEF b
  <2>4. IsState(z) /\ Lists(z) = Lists(b)
    BY <2>3 DEF IsState, Fields, Lists
  <2> HIDE DEF z
  <2> QED
    BY <2>1, <2>2, <2>3, <2>4, CompleteLists
<1>2. Lists(DoMdecIn(s)) = Lists(s)
  BY <1>1 DEF DoMdecIn
<1>3. Lists(DoMdecOut(s)) = Lists(s)
  BY <1>1 DEF DoMdecOut
<1>4. ASSUME NEW maddr, NEW n
      PROVE  Lists(Complete([s EXCEPT !.channel[port].maddr = maddr], port, n)) = Lists(s)
  <2> DEFINE z == [s EXCEPT !.channel[port].maddr = maddr]
  <2>1. IsState(z) /\ Lists(z) = Lists(s)
    BY DEF IsState, Fields, Lists
  <2> HIDE DEF z
  <2>2. Lists(Complete(z, port, n)) = Lists(s)
    BY <2>1, CompleteLists
  <2> QED
    BY <2>2 DEF z
<1>5. Lists(DoSlices(s, port)) = Lists(s)
  BY <1>4 DEF DoSlices
<1> QED
  BY <1>2, <1>3, <1>5

\* The GPU's draws what it walks, and the clearing channel rewrites a range.
LEMMA GpuLists ==
  ASSUME NEW s, IsState(s)
  PROVE  \/ Lists(DoGpu(s)) = Lists(s)
         \/ /\ s.channel[Gpu].ctrl.sync = "LinkedList"
            /\ Lists(DoGpu(s)) = <<s.mem, s.linked, s.bottom, Walk(s.mem, s.channel[Gpu].maddr)>>
<1>1. ASSUME NEW list
      PROVE  Lists(Complete([s EXCEPT !.drawn = list], Gpu, 1)) = <<s.mem, s.linked, s.bottom, list>>
  <2> DEFINE z == [s EXCEPT !.drawn = list]
  <2>1. IsState(z) /\ Lists(z) = <<s.mem, s.linked, s.bottom, list>>
    BY DEF IsState, Fields, Lists
  <2> HIDE DEF z
  <2>2. Lists(Complete(z, Gpu, 1)) = <<s.mem, s.linked, s.bottom, list>>
    BY <2>1, CompleteLists
  <2> QED
    BY <2>2 DEF z
<1>2. Lists(DoGpuLinkedList(s)) = <<s.mem, s.linked, s.bottom, Walk(s.mem, s.channel[Gpu].maddr)>>
  BY <1>1 DEF DoGpuLinkedList
<1> QED
  BY <1>2, OtherTransfersLists DEF DoGpu

LEMMA OtcLists ==
  ASSUME NEW s, IsState(s)
  PROVE  LET c == s.channel[Otc]
             n == BlockSize(c) * BlockCount(c)
             range == (c.maddr - n + 1) .. c.maddr
         IN \/ Lists(DoOtc(s)) = Lists(s)
            \/ Lists(DoOtc(s)) =
                  << Cleared(s.mem, c.maddr, n),
                     [e \in Entries |-> IF e \in range THEN <<>> ELSE s.linked[e]],
                     (s.bottom \ range) \cup {c.maddr - n + 1}, s.drawn >>
<1>1. ASSUME NEW m, NEW ls, NEW bs
      PROVE  Lists(Complete([s EXCEPT !.mem = m, !.linked = ls, !.bottom = bs], Otc, 0))
                 = <<m, ls, bs, s.drawn>>
  <2> DEFINE a == [s EXCEPT !.mem = m]
             b == [a EXCEPT !.linked = ls]
             z == [b EXCEPT !.bottom = bs]
  <2>1. z = [s EXCEPT !.mem = m, !.linked = ls, !.bottom = bs]
    OBVIOUS
  <2>2. IsState(a) /\ Lists(a) = <<m, s.linked, s.bottom, s.drawn>>
    BY DEF IsState, Fields, Lists
  <2> HIDE DEF a
  <2>3. IsState(b) /\ Lists(b) = <<m, ls, s.bottom, s.drawn>>
    BY <2>2 DEF IsState, Fields, Lists
  <2> HIDE DEF b
  <2>4. IsState(z) /\ Lists(z) = <<m, ls, bs, s.drawn>>
    BY <2>3 DEF IsState, Fields, Lists
  <2> HIDE DEF z
  <2> QED
    BY <2>1, <2>4, CompleteLists
<1> QED
  BY <1>1, Zenon DEF DoOtc

-----------------------------------------------------------------------------
\* A range of the table cleared: its entries have no packet and lead to the one
\* below, and the lowest ends the list.
LEMMA ClearedIsList ==
  ASSUME ListInv, NEW top \in Nat, NEW n \in 1 .. top + 1,
         mem' = Cleared(mem, top, n),
         linked' = [e \in Entries |-> IF e \in (top - n + 1) .. top THEN <<>> ELSE linked[e]],
         bottom' = (bottom \ ((top - n + 1) .. top)) \cup {top - n + 1}
  PROVE  ListInv'
<1> DEFINE low == top - n + 1
           Within(e) == e \in low .. top
<1>1. low \in Nat /\ low <= top /\ Within(low) /\ n \in Nat
  OBVIOUS
<1>2. ASSUME NEW e \in Entries
      PROVE  /\ e \in Nat /\ e \in Address
             /\ Within(e) => (/\ Len(linked'[e]) = 0
                              /\ mem'[e].count = 0
                              /\ mem'[e].next = IF e = low THEN End ELSE e - 1
                              /\ (e \in bottom') = (e = low))
             /\ ~Within(e) => (/\ linked'[e] = linked[e] /\ mem'[e] = mem[e]
                               /\ (e \in bottom') = (e \in bottom))
             /\ mem'[e] \in HeaderType
  <2>1. e \in Nat /\ e \in Address
    BY AddressesAreFinite
  <2>2. Within(e) <=> (top - n < e /\ e <= top)
    BY <1>1, <2>1
  <2>3. Within(e) => mem'[e] = [count |-> 0, next |-> IF e = low THEN End ELSE e - 1]
    BY <2>1, <2>2 DEF Cleared
  <2>4. ~Within(e) => mem'[e] = mem[e]
    BY <2>1, <2>2 DEF Cleared
  <2>5. (e \in bottom') = ((e \in bottom /\ ~Within(e)) \/ e = low)
    OBVIOUS
  <2>6. linked'[e] = IF Within(e) THEN <<>> ELSE linked[e]
    OBVIOUS
  <2>7. Within(e) /\ e # low => e - 1 \in Entries
    BY <1>1, <2>1, AddressesAreFinite
  <2>8. mem[e] \in HeaderType
    BY <2>1 DEF ListInv, ListTypes
  <2> HIDE DEF Within, low
  <2>9. CASE Within(e)
    <3>1. Len(linked'[e]) = 0
      BY <2>6, <2>9
    <3>2. mem'[e].count = 0 /\ mem'[e].next = IF e = low THEN End ELSE e - 1
      BY <2>3, <2>9
    <3>3. (e \in bottom') = (e = low)
      BY <2>5, <2>9
    <3>4. (IF e = low THEN End ELSE e - 1) \in Address \cup {End}
      BY <2>7, <2>9, AddressesAreFinite
    <3>5. mem'[e] \in HeaderType
      BY <2>3, <2>9, <3>4 DEF HeaderType
    <3> QED
      BY <2>1, <2>9, <3>1, <3>2, <3>3, <3>5
  <2>10. CASE ~Within(e)
    <3>1. e # low
      BY <1>1, <2>10
    <3> QED
      BY <2>1, <2>4, <2>5, <2>6, <2>8, <2>10, <3>1
  <2> QED
    BY <2>9, <2>10
<1>3. \A p \in Packets : mem'[p] = mem[p]
  BY AddressesAreFinite DEF Cleared
<1>4. \A a \in Address : mem'[a] \in HeaderType
  <2>1. \A a \in Address \ Entries : mem'[a] = mem[a] /\ mem[a] \in HeaderType
    BY DEF Cleared, ListInv, ListTypes
  <2>2. \A e \in Entries : mem'[e] \in HeaderType
    BY <1>2
  <2> QED
    BY <2>1, <2>2
<1>5. ListTypes'
  <2>1. mem' \in [Address -> HeaderType]
    BY <1>4 DEF Cleared
  <2>2. linked' \in [Entries -> Seq(Packets)]
    <3>1. <<>> \in Seq(Packets)
      OBVIOUS
    <3> QED
      BY <3>1 DEF ListInv, ListTypes
  <2>3. 0 \in bottom'
    <3>1. CASE low = 0
      BY <3>1
    <3>2. CASE low # 0
      BY <1>1, <3>2 DEF ListInv, ListTypes
    <3> QED
      BY <3>1, <3>2
  <2> QED
    BY <2>1, <2>2, <2>3 DEF ListTypes
<1> HIDE DEF low, Within
<1>6. Counts'
  <2>1. ASSUME NEW e \in Entries PROVE mem'[e].count = 0
    <3>1. mem[e].count = 0
      BY DEF ListInv, Counts
    <3> QED
      BY <1>2, <3>1
  <2>2. ASSUME NEW e \in Entries, NEW i \in 1 .. Len(linked'[e])
        PROVE  mem'[linked'[e][i]].count > 0
    <3>1. ~Within(e)
      BY <1>2, <2>2
    <3>2. linked'[e] = linked[e]
      BY <1>2, <3>1
    <3>3. linked[e][i] \in Packets /\ mem[linked[e][i]].count > 0
      BY <2>2, <3>2 DEF ListInv, ListTypes, Counts
    <3> QED
      BY <1>3, <3>2, <3>3
  <2> QED
    BY <2>1, <2>2 DEF Counts
<1>7. Leads'
  <2> SUFFICES ASSUME NEW e \in Entries, NEW i \in 0 .. Len(linked'[e])
               PROVE  mem'[At(e, i)'].next =
                          IF i < Len(linked'[e]) THEN linked'[e][i + 1] ELSE Below(e)'
    BY DEF Leads
  <2>1. CASE Within(e)
    <3>1. i = 0 /\ ~(i < Len(linked'[e]))
      BY <1>2, <2>1
    <3>2. At(e, i)' = e
      BY <3>1 DEF At
    <3> QED
      BY <1>2, <2>1, <3>1, <3>2 DEF Below
  <2>2. CASE ~Within(e)
    <3>1. linked'[e] = linked[e] /\ mem'[e] = mem[e] /\ Below(e)' = Below(e)
      BY <1>2, <2>2 DEF Below
    <3>2. At(e, i)' = At(e, i)
      BY <3>1 DEF At
    <3>3. mem'[At(e, i)] = mem[At(e, i)]
      <4>1. CASE i = 0
        BY <3>1, <4>1 DEF At
      <4>2. CASE i # 0
        <5>1. linked[e][i] \in Packets
          <6>1. linked[e] \in Seq(Packets) /\ i \in 1 .. Len(linked[e])
            BY <3>1, <4>2 DEF ListInv, ListTypes
          <6> QED
            BY <6>1
        <5> QED
          BY <1>3, <4>2, <5>1 DEF At
      <4> QED
        BY <4>1, <4>2
    <3>4. mem[At(e, i)].next = IF i < Len(linked[e]) THEN linked[e][i + 1] ELSE Below(e)
      BY <3>1 DEF ListInv, Leads
    <3> QED
      BY <3>1, <3>2, <3>3, <3>4
  <2> QED
    BY <2>1, <2>2
<1>8. Once'
  <2> SUFFICES ASSUME NEW x \in Entries, NEW y \in Entries,
                      NEW i \in 1 .. Len(linked'[x]), NEW j \in 1 .. Len(linked'[y]),
                      linked'[x][i] = linked'[y][j]
               PROVE  x = y /\ i = j
    BY DEF Once
  <2>1. ~Within(x) /\ ~Within(y)
    BY <1>2
  <2>2. linked'[x] = linked[x] /\ linked'[y] = linked[y]
    BY <1>2, <2>1
  <2> QED
    BY <2>2 DEF ListInv, Once
<1> QED
  BY <1>5, <1>6, <1>7, <1>8 DEF ListInv

\* A packet in no list put in front of what an entry holds.
LEMMA LinkedIsList ==
  ASSUME ListInv, NEW p \in Packets, NEW e \in Entries, Link(p, e)
  PROVE  ListInv'
<1> DEFINE s == linked[e]
           l == Len(s)
           s1 == <<p>> \o s
           h == [count |-> 1, next |-> mem[e].next]
<1>1. p \in Address /\ e \in Address /\ p # e /\ p \notin Entries /\ e \notin Packets
  BY AddressesAreFinite
<1>2. /\ mem \in [Address -> HeaderType] /\ linked \in [Entries -> Seq(Packets)]
      /\ s \in Seq(Packets) /\ l \in Nat
  BY DEF ListInv, ListTypes
<1>3. \A x \in Entries : \A i \in 1 .. Len(linked[x]) : linked[x][i] \in Packets /\ linked[x][i] # p
  <2> SUFFICES ASSUME NEW x \in Entries, NEW i \in 1 .. Len(linked[x])
               PROVE  linked[x][i] \in Packets /\ linked[x][i] # p
    OBVIOUS
  <2>1. linked[x] \in Seq(Packets) /\ p \notin Range(linked[x])
    BY <1>2 DEF Link
  <2>2. i \in DOMAIN linked[x] /\ linked[x][i] \in Packets
    BY <2>1
  <2> QED
    BY <2>1, <2>2 DEF Range
<1>4. /\ s1 \in Seq(Packets) /\ Len(s1) = l + 1 /\ s1[1] = p
      /\ \A i \in 1 .. l : s1[i + 1] = s[i]
      /\ \A i \in 2 .. l + 1 : i - 1 \in 1 .. l /\ s1[i] = s[i - 1]
  BY <1>2
<1>5. /\ linked' = [linked EXCEPT ![e] = s1] /\ bottom' = bottom
      /\ mem' = [mem EXCEPT ![p] = h, ![e].next = p]
  BY DEF Link
<1>6. linked'[e] = s1 /\ \A x \in Entries : x # e => linked'[x] = linked[x]
  BY <1>2, <1>5
<1>7. h \in HeaderType /\ h.count = 1 /\ h.next = mem[e].next
  BY <1>1, <1>2 DEF HeaderType
<1> HIDE DEF h, s1, l, s
<1>8. /\ mem'[p] = h
      /\ mem'[e].next = p /\ mem'[e].count = mem[e].count /\ mem'[e] \in HeaderType
      /\ \A a \in Address : a # p /\ a # e => mem'[a] = mem[a]
      /\ mem' \in [Address -> HeaderType]
  <2>1. mem[e] \in HeaderType /\ p \in Address \cup {End}
    BY <1>1, <1>2
  <2> DEFINE m1 == [mem EXCEPT ![p] = h]
             k == [mem[e] EXCEPT !.next = p]
  <2>2. k \in HeaderType /\ k.next = p /\ k.count = mem[e].count
    BY <2>1 DEF HeaderType
  <2>3. m1 \in [Address -> HeaderType] /\ m1[e] = mem[e] /\ m1[p] = h
    BY <1>1, <1>2, <1>7
  <2>4. mem' = [m1 EXCEPT ![e] = k]
    BY <1>1, <1>2, <1>5
  <2> HIDE DEF k
  <2>5. \A a \in Address : a # p => m1[a] = mem[a]
    BY <1>2
  <2> HIDE DEF m1
  <2> QED
    BY <1>1, <2>2, <2>3, <2>4, <2>5
<1>9. ListTypes'
  <2>1. linked' \in [Entries -> Seq(Packets)]
    BY <1>2, <1>4, <1>5
  <2> QED
    BY <1>5, <1>8, <2>1 DEF ListTypes, ListInv
<1>10. ASSUME NEW x \in Entries, NEW i \in 1 .. Len(linked[x])
       PROVE  mem'[linked[x][i]] = mem[linked[x][i]]
  <2>1. linked[x][i] \in Packets /\ linked[x][i] # p
    BY <1>3
  <2> QED
    BY <1>1, <1>8, <2>1, AddressesAreFinite
<1>11. Counts'
  <2>1. ASSUME NEW x \in Entries PROVE mem'[x].count = 0
    <3>1. mem[x].count = 0 /\ x \in Address /\ x # p
      BY <1>1, AddressesAreFinite DEF ListInv, Counts
    <3> QED
      BY <1>8, <3>1
  <2>2. ASSUME NEW x \in Entries, NEW i \in 1 .. Len(linked'[x])
        PROVE  mem'[linked'[x][i]].count > 0
    <3>1. \A y \in Entries : \A j \in 1 .. Len(linked[y]) : mem'[linked[y][j]].count > 0
      BY <1>10 DEF ListInv, Counts
    <3>2. CASE x # e
      BY <1>6, <2>2, <3>1, <3>2
    <3>3. CASE x = e /\ i = 1
      BY <1>4, <1>6, <1>7, <1>8, <3>3
    <3>4. CASE x = e /\ i # 1
      <4>1. i \in 2 .. l + 1
        BY <1>2, <1>4, <1>6, <2>2, <3>4
      <4>2. linked'[x][i] = s[i - 1] /\ i - 1 \in 1 .. l
        BY <1>4, <1>6, <3>4, <4>1
      <4> QED
        BY <3>1, <4>2 DEF s, l
    <3> QED
      BY <3>2, <3>3, <3>4
  <2> QED
    BY <2>1, <2>2 DEF Counts
<1>12. Leads'
  <2> SUFFICES ASSUME NEW x \in Entries, NEW i \in 0 .. Len(linked'[x])
               PROVE  mem'[At(x, i)'].next =
                          IF i < Len(linked'[x]) THEN linked'[x][i + 1] ELSE Below(x)'
    BY DEF Leads
  <2>1. Below(x)' = Below(x)
    BY <1>5 DEF Below
  <2>2. \A j \in 0 .. Len(linked[x]) :
            mem[At(x, j)].next = IF j < Len(linked[x]) THEN linked[x][j + 1] ELSE Below(x)
    BY DEF ListInv, Leads
  <2>3. \A j \in 1 .. Len(linked[x]) : At(x, j) = linked[x][j] /\ mem'[At(x, j)] = mem[At(x, j)]
    BY <1>10 DEF At
  <2>4. CASE x # e
    <3>1. linked'[x] = linked[x] /\ At(x, i)' = At(x, i)
      BY <1>6, <2>4 DEF At
    <3>2. mem'[At(x, i)] = mem[At(x, i)]
      <4>1. CASE i = 0
        <5>1. x \in Address /\ x # p
          BY <1>1, AddressesAreFinite
        <5> QED
          BY <1>8, <2>4, <4>1, <5>1 DEF At
      <4>2. CASE i # 0
        <5>1. i \in 1 .. Len(linked[x])
          BY <3>1, <4>2
        <5> QED
          BY <2>3, <5>1
      <4> QED
        BY <4>1, <4>2
    <3> QED
      BY <2>1, <2>2, <3>1, <3>2
  <2>5. CASE x = e
    <3>1. linked'[x] = s1 /\ Len(s1) = l + 1 /\ i \in 0 .. l + 1 /\ s = linked[x] /\ l = Len(linked[x])
      BY <1>4, <1>6, <2>5 DEF s, l
    <3>2. CASE i = 0
      <4>1. At(x, i)' = e /\ i < l + 1 /\ i + 1 = 1
        BY <1>2, <2>5, <3>2 DEF At
      <4> QED
        BY <1>4, <1>8, <3>1, <4>1
    <3>3. CASE i = 1
      <4>1. At(x, i)' = p
        BY <1>4, <1>6, <2>5, <3>3 DEF At
      <4>2. mem'[p].next = mem[At(x, 0)].next
        BY <1>7, <1>8, <2>5 DEF At
      <4>3. 0 \in 0 .. l /\ (0 < l <=> i < l + 1) /\ 0 + 1 = 1 /\ i + 1 = 1 + 1
        BY <1>2, <3>3
      <4>4. mem[At(x, 0)].next = IF i < l + 1 THEN s[1] ELSE Below(x)
        BY <2>2, <3>1, <4>3
      <4>5. i < l + 1 => s1[i + 1] = s[1]
        BY <1>2, <1>4, <3>3
      <4> QED
        BY <2>1, <3>1, <4>1, <4>2, <4>4, <4>5
    <3>4. CASE i >= 2
      <4> DEFINE j == i - 1
      <4>1. j \in 1 .. l /\ j \in 0 .. l /\ i # 0 /\ (j < l <=> i < l + 1) /\ i \in 2 .. l + 1 /\ j + 1 = i
        BY <1>2, <3>1, <3>4
      <4>2. At(x, i)' = s1[i] /\ s1[i] = s[j] /\ At(x, j) = s[j]
        BY <1>4, <3>1, <4>1 DEF At
      <4>3. mem'[s[j]] = mem[At(x, j)]
        BY <2>3, <3>1, <4>1, <4>2
      <4>4. mem[At(x, j)].next = IF j < l THEN s[j + 1] ELSE Below(x)
        BY <2>2, <3>1, <4>1
      <4>5. j < l => i \in 1 .. l /\ s1[i + 1] = s[j + 1]
        BY <1>2, <1>4, <4>1
      <4> HIDE DEF j
      <4> QED
        BY <2>1, <3>1, <4>1, <4>2, <4>3, <4>4, <4>5
    <3> QED
      BY <1>2, <3>1, <3>2, <3>3, <3>4
  <2> QED
    BY <2>4, <2>5
<1>13. Once'
  <2> SUFFICES ASSUME NEW x \in Entries, NEW y \in Entries,
                      NEW i \in 1 .. Len(linked'[x]), NEW j \in 1 .. Len(linked'[y]),
                      linked'[x][i] = linked'[y][j]
               PROVE  x = y /\ i = j
    BY DEF Once
  <2> DEFINE New(z, k) == z = e /\ k = 1
             old(z, k) == IF z = e THEN k - 1 ELSE k
  <2>1. ASSUME NEW z \in Entries, NEW k \in 1 .. Len(linked'[z])
        PROVE  \/ New(z, k) /\ linked'[z][k] = p
               \/ /\ ~New(z, k) /\ old(z, k) \in 1 .. Len(linked[z])
                  /\ linked'[z][k] = linked[z][old(z, k)] /\ linked'[z][k] # p
    <3>1. CASE New(z, k)
      BY <1>4, <1>6, <3>1
    <3>2. CASE z = e /\ k # 1
      <4>1. k \in 2 .. l + 1
        BY <1>2, <1>4, <1>6, <2>1, <3>2
      <4>2. linked'[z][k] = s[k - 1] /\ k - 1 \in 1 .. l
        BY <1>4, <1>6, <3>2, <4>1
      <4> QED
        BY <1>3, <3>2, <4>2 DEF s, l
    <3>3. CASE z # e
      BY <1>3, <1>6, <2>1, <3>3
    <3> QED
      BY <3>1, <3>2, <3>3
  <2>2. CASE New(x, i) \/ New(y, j)
    BY <2>1, <2>2
  <2>3. CASE ~New(x, i) /\ ~New(y, j)
    <3>1. /\ old(x, i) \in 1 .. Len(linked[x]) /\ old(y, j) \in 1 .. Len(linked[y])
          /\ linked[x][old(x, i)] = linked[y][old(y, j)]
      BY <2>1, <2>3
    <3> HIDE DEF old
    <3>2. x = y /\ old(x, i) = old(y, j)
      BY <3>1 DEF ListInv, Once
    <3> QED
      BY <3>2 DEF old
  <2> QED
    BY <2>2, <2>3
<1> QED
  BY <1>9, <1>11, <1>12, <1>13 DEF ListInv

-----------------------------------------------------------------------------
\* A step without a transfer draws nothing.
Drawn == drawn' # <<>> => drawn' = Expected(channel[Gpu].maddr)

LEMMA SameLists ==
  ASSUME ListInv, UNCHANGED lists
  PROVE  ListInv'
  BY DEF ListInv, ListTypes, Counts, Leads, Once, At, Below, lists

LEMMA ControlDraws ==
  ASSUME ListInv, DeviceInv, NEW port \in Port \ {5}, NEW ctrl \in ControlType,
         StoreControl(port, ctrl)
  PROVE  ListInv' /\ Drawn
<1> DEFINE ch == [channel EXCEPT ![port].ctrl = ctrl]
           s == [Now EXCEPT !.channel[port].ctrl = ctrl]
           t == CASE port = MdecIn  -> DoMdecIn(s)
                  [] port = MdecOut -> DoMdecOut(s)
                  [] port = Gpu     -> DoGpu(s)
                  [] port \in {CdRom, Spu} -> DoSlices(s, port)
                  [] port = Otc     -> DoOtc(s)
<1>1. /\ IsState(Now) /\ Now.channel = channel
      /\ Now.mem = mem /\ Now.linked = linked /\ Now.bottom = bottom /\ Now.drawn = <<>>
  BY DEF IsState, Fields, Now
<1>2. /\ port \in Port /\ port \in {MdecIn, MdecOut, Gpu, CdRom, Spu, Otc}
      /\ channel \in [Port -> ChannelType] /\ Gpu # Otc
      /\ Gpu \in Port /\ Otc \in Port
  BY DEF Port, MdecIn, MdecOut, Gpu, CdRom, Spu, Otc, DeviceInv
<1>3. /\ ch[port] = [channel[port] EXCEPT !.ctrl = ctrl] /\ ch[port] \in ChannelType
      /\ ch[port].ctrl = ctrl /\ ch[port].maddr = channel[port].maddr
  <2> DEFINE c == channel[port]
             k == [c EXCEPT !.ctrl = ctrl]
  <2>1. c \in ChannelType /\ ch[port] = k
    BY <1>2
  <2> HIDE DEF c
  <2>2. k \in ChannelType /\ k.ctrl = ctrl /\ k.maddr = c.maddr
    BY <2>1, ChannelFields DEF ChannelType
  <2> HIDE DEF k
  <2> QED
    BY <2>1, <2>2 DEF c, k
<1>4. /\ IsState(s) /\ s.channel = ch
      /\ s.mem = mem /\ s.linked = linked /\ s.bottom = bottom /\ s.drawn = <<>>
  <2>1. s = [Now EXCEPT !.channel = ch]
    BY <1>1
  <2> HIDE DEF Now, s, ch
  <2> QED
    BY <1>1, <2>1 DEF IsState, Fields
<1>5. Lists(t) = <<mem', linked', bottom', drawn'>>
  BY DEF StoreControl, Lists
<1>6. Lists(s) = <<mem, linked, bottom, <<>>>>
  BY <1>4 DEF Lists
<1>7. /\ port = Gpu /\ ctrl.sync = "LinkedList" => channel[Gpu].maddr \in Entries
      /\ port = Otc => FitsTable(channel[Otc], ctrl)
  BY DEF StoreControl
<1>8. CASE Lists(t) = Lists(s)
  <2>1. mem' = mem /\ linked' = linked /\ bottom' = bottom /\ drawn' = <<>>
    <3> HIDE DEF s, t
    <3> QED
      BY <1>5, <1>6, <1>8
  <2> QED
    BY <2>1, SameLists DEF Drawn, lists
<1>9. CASE port = Gpu /\ Lists(t) # Lists(s)
  <2>1. t = DoGpu(s)
    <3> HIDE DEF s
    <3>1. port = Gpu /\ port # MdecIn /\ port # MdecOut /\ port \notin {CdRom, Spu} /\ port # Otc
      BY <1>9 DEF Gpu, MdecIn, MdecOut, CdRom, Spu, Otc
    <3> QED
      BY <3>1
  <2> HIDE DEF s, t, ch
  <2>2. /\ s.channel[Gpu].ctrl.sync = "LinkedList"
        /\ Lists(t) = <<s.mem, s.linked, s.bottom, Walk(s.mem, s.channel[Gpu].maddr)>>
    BY <1>4, <1>9, <2>1, GpuLists
  <2>3. channel[Gpu].maddr \in Entries /\ s.channel[Gpu].maddr = channel[Gpu].maddr
    BY <1>3, <1>4, <1>7, <1>9, <2>2
  <2>4. Walk(mem, channel[Gpu].maddr) = Expected(channel[Gpu].maddr)
    BY <2>3, WalkIsExpected
  <2>5. /\ mem' = mem /\ linked' = linked /\ bottom' = bottom
        /\ drawn' = Walk(mem, channel[Gpu].maddr)
    BY <1>4, <1>5, <2>2, <2>3
  <2> QED
    BY <2>4, <2>5, SameLists DEF Drawn, lists
<1>10. CASE port = Otc /\ Lists(t) # Lists(s)
  <2> DEFINE c == ch[Otc]
             n == BlockSize(c) * BlockCount(c)
             range == (c.maddr - n + 1) .. c.maddr
  <2>1. t = DoOtc(s)
    BY <1>10 DEF Otc, Gpu, MdecIn, MdecOut, CdRom, Spu
  <2>2. n \in 1 .. (c.maddr + 1)
    BY <1>3, <1>7, <1>10, Zenon DEF FitsTable
  <2>3. c.maddr \in Nat
    BY <1>3, <1>10, ChannelFields
  <2> HIDE DEF s, t, ch
  <2>4. Lists(t) = << Cleared(s.mem, c.maddr, n),
                      [e \in Entries |-> IF e \in range THEN <<>> ELSE s.linked[e]],
                      (s.bottom \ range) \cup {c.maddr - n + 1}, s.drawn >>
    BY <1>4, <1>10, <2>1, OtcLists
  <2> HIDE DEF n, c
  <2>5. /\ mem' = Cleared(mem, c.maddr, n)
        /\ linked' = [e \in Entries |-> IF e \in range THEN <<>> ELSE linked[e]]
        /\ bottom' = (bottom \ range) \cup {c.maddr - n + 1} /\ drawn' = <<>>
    BY <1>4, <1>5, <2>4
  <2>6. ListInv'
    BY <2>2, <2>3, <2>5, ClearedIsList
  <2> QED
    BY <2>5, <2>6 DEF Drawn
<1>11. port # Gpu /\ port # Otc => Lists(t) = Lists(s)
  <2> HIDE DEF s
  <2>1. Lists(DoMdecIn(s)) = Lists(s) /\ Lists(DoMdecOut(s)) = Lists(s) /\ Lists(DoSlices(s, port)) = Lists(s)
    BY <1>4, OtherTransfersLists
  <2> QED
    BY <1>2, <2>1
<1> QED
  BY <1>8, <1>9, <1>10, <1>11

LEMMA StepDraws ==
  ASSUME ListInv, DeviceInv, [Next]_vars
  PROVE  ListInv' /\ [Drawn]_vars
<1>1. ASSUME NEW p \in Port \ {5}, NEW c \in Controls(p), StoreControl(p, c) PROVE ListInv' /\ Drawn
  <2>1. c \in ControlType
    BY DmaAssumption
  <2> QED
    BY <1>1, <2>1, ControlDraws
<1>2. ASSUME NEW p \in Packets, NEW e \in Entries, Link(p, e) PROVE ListInv' /\ Drawn
  BY <1>2, LinkedIsList DEF Link, Idle, Drawn
<1>3. ASSUME UNCHANGED lists, Idle PROVE ListInv' /\ Drawn
  BY <1>3, SameLists DEF Idle, Drawn
<1>4. ASSUME NEW p \in Port \ {5}, NEW a, StoreMaddr(p, a) PROVE UNCHANGED lists /\ Idle
  BY <1>4 DEF StoreMaddr, Registers
<1>5. ASSUME NEW p \in Port \ {5}, NEW b, StoreBlock(p, b) PROVE UNCHANGED lists /\ Idle
  BY <1>5 DEF StoreBlock, Registers
<1>6. CASE \/ \E on \in Enables : StoreDpcr(on)
           \/ \E w \in DicrStores : StoreDicr(w)
           \/ \E c \in MdecControls : MdecControl(c[1], c[2], c[3])
           \/ \E w \in MdecStores : MdecStore(w)
           \/ MdecLoad
           \/ AckIrq
  <2>1. UNCHANGED lists /\ Idle
    BY <1>6 DEF StoreDpcr, StoreDicr, MdecControl, MdecStore, MdecLoad, AckIrq
  <2> QED
    BY <1>3, <2>1
<1>7. CASE UNCHANGED vars
  <2>1. UNCHANGED lists
    BY <1>7 DEF vars, lists
  <2> QED
    BY <1>7, <2>1, SameLists
<1> QED
  BY <1>1, <1>2, <1>3, <1>4, <1>5, <1>6, <1>7 DEF Next

LEMMA InitLists == Init => ListInv
<1> SUFFICES ASSUME Init PROVE ListInv
  OBVIOUS
<1>1. /\ mem = [a \in Address |-> [count |-> 0, next |-> End]]
      /\ linked = [e \in Entries |-> <<>>] /\ bottom = Entries
  BY DEF Init
<1>2. ListTypes
  BY <1>1, AddressesAreFinite DEF ListTypes, HeaderType
<1>3. \A e \in Entries : linked[e] = <<>> /\ Len(linked[e]) = 0
  BY <1>1
<1>4. Counts /\ Once
  BY <1>1, <1>3, AddressesAreFinite DEF Counts, Once
<1>5. Leads
  <2> SUFFICES ASSUME NEW e \in Entries, NEW i \in 0 .. Len(linked[e])
               PROVE  mem[At(e, i)].next =
                          IF i < Len(linked[e]) THEN linked[e][i + 1] ELSE Below(e)
    BY DEF Leads
  <2>1. i = 0 /\ ~(i < Len(linked[e])) /\ e \in Address
    BY <1>3, AddressesAreFinite
  <2> QED
    BY <1>1, <2>1 DEF At, Below
<1> QED
  BY <1>2, <1>4, <1>5 DEF ListInv

\* Packets come in drawing order: whatever the guest cleared, linked and drew
\* before, for every table and every set of packets, a walk from an entry hands
\* the GPU the packets of that entry and of the ones below it, each once.
THEOREM PacketsInOrder == Spec => DrawOrder
<1>1. ListInv /\ DeviceInv /\ [Next]_vars
         => ListInv' /\ DeviceInv' /\ [drawn' # <<>> => drawn' = Expected(channel[Gpu].maddr)]_vars
  BY StepDraws, StepKeepsDevice DEF Drawn
<1> QED
  BY <1>1, InitLists, InitDevice, PTL DEF Spec, DrawOrder

=============================================================================
