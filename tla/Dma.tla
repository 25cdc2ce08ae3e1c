--------------------------------- MODULE Dma ---------------------------------
(* The DMA controller (dma.rs) with what hangs on it: the motion decoder,    *)
(* the ordering table in memory that channel 6 clears and channel 2 walks,   *)
(* and the interrupt controller.  A transfer runs whole inside the store to  *)
(* the channel control register that starts it.  The guest may store any     *)
(* register in any order.                                                    *)
EXTENDS Mdec, Irq

CONSTANTS
    Frame,       \* the words the decoder's channel finds in memory
    Table,       \* number of entries the guest's ordering table has
    Packets,     \* addresses of the guest's drawing packets, past the table
    Maddrs(_), BlockControls(_), Controls(_),  \* what the guest stores, by port
    Enables,     \* sets of ports it enables in DPCR
    DicrStores,  \* the records it stores to DICR
    MdecStores,  \* the words it stores to the decoder itself
    MdecControls \* and to its control register: <<reset, in, out>>

Port == 0 .. 6
MdecIn == 0   MdecOut == 1   Gpu == 2   CdRom == 3   Spu == 4   Otc == 6
End == -1           \* 0xffffff

Entries == 0 .. Table - 1
Address == Entries \cup Packets

\* DICR as the code reads it: six bits each, so that channel 6 has none and
\* its end interrupts nobody.
IrqPort == Port \ {Otc}
DicrType == [mode : SUBSET IrqPort, mask : SUBSET IrqPort, flags : SUBSET IrqPort,
             enable : BOOLEAN, bus_error : BOOLEAN, master : BOOLEAN]

\* A channel: its address, its block control and its control register.
Halfword    == 0 .. 65535
BlockType   == [size : Halfword, count : Halfword]
ControlType == [start : BOOLEAN, force : BOOLEAN, pause : BOOLEAN,
                sync : {"Burst", "Slice", "LinkedList"}, dir : {"ToRam", "FromRam"}, dec : BOOLEAN]

ASSUME DmaAssumption ==
    /\ Table \in Nat \ {0} /\ Packets \subseteq Nat /\ IsFiniteSet(Packets) /\ Packets \cap Entries = {}
    /\ Frame \in Seq(WordType) /\ Len(Frame) > 0
    /\ DicrStores \subseteq DicrType
    /\ MdecStores \subseteq WordType /\ MdecControls \subseteq BOOLEAN \X BOOLEAN \X BOOLEAN
    /\ \A p \in Port : /\ Maddrs(p) \subseteq Nat /\ BlockControls(p) \subseteq BlockType
                       /\ Controls(p) \subseteq ControlType

VARIABLES
    channel,   \* maddr, size, count and the control bits, by port
    dpcr,      \* the ports enabled
    dicr,
    mdec,
    mem,       \* the header at each address: how many words and which next
    drawn,     \* the packets this step handed to the GPU, in order
    linked,    \* history: the packets linked to each entry since it was cleared
    bottom,    \* history: the entries the list ends with
    irq
vars == <<channel, dpcr, dicr, mdec, mem, drawn, linked, bottom, irq>>
lists == <<mem, linked, bottom>>

Control(start, force, pause, sync, dir, dec) ==
    [start |-> start, force |-> force, pause |-> pause, sync |-> sync, dir |-> dir, dec |-> dec]
IsActive(c) == (c.start \/ c.force) /\ ~c.pause

Init ==
    /\ channel = [p \in Port |-> [maddr |-> 0, size |-> 0, count |-> 0,
                                  ctrl |-> Control(FALSE, FALSE, FALSE, "Burst", "ToRam", FALSE)]]
    /\ dpcr = {}   \* 0x07654321 has no enable bit
    /\ dicr = [mode |-> {}, mask |-> {}, flags |-> {}, enable |-> FALSE,
               bus_error |-> FALSE, master |-> FALSE]
    /\ mdec = Reset
    /\ mem = [a \in Address |-> [count |-> 0, next |-> End]]
    /\ drawn = <<>> /\ linked = [e \in Entries |-> <<>>] /\ bottom = Entries
    /\ irq = IrqReset
-----------------------------------------------------------------------------
UpdateMasterIrq(d) ==
    [d EXCEPT !.master = d.bus_error \/ (d.enable /\ d.flags \cap d.mask # {})]

\* set_channel_irq: the mode bit of the port chooses whether the end of every
\* block or only of the transfer counts.
ChannelIrq(s, port, is_full_transfer) ==
    LET d == UpdateMasterIrq([s.dicr EXCEPT !.flags = @ \cup {port}])
    IN CASE port \notin s.dicr.mask -> s
         [] port \in s.dicr.mask /\ (port \in s.dicr.mode) = is_full_transfer -> s
         [] OTHER -> [s EXCEPT !.dicr = d, !.irq = IF d.master THEN Raise(@, "dma") ELSE @]

\* Mutant: the interrupt controller hears of a full transfer only.
CompleteQuiet(s, port, blocks) ==
    [ s EXCEPT !.dicr = UpdateMasterIrq([@ EXCEPT !.flags = @ \cup ({port} \cap s.dicr.mask)]),
               !.irq = IF port \in s.dicr.mode THEN @ ELSE Raise(@, "dma"),
               !.channel[port].ctrl.start = FALSE, !.channel[port].ctrl.force = FALSE ]
\* `blocks` ends of a block, then the channel is released, then its end.
Complete(s, port, blocks) ==
    LET t == IF blocks > 0 THEN ChannelIrq(s, port, FALSE) ELSE s
    IN ChannelIrq([t EXCEPT !.channel[port].ctrl.start = FALSE,
                            !.channel[port].ctrl.force = FALSE], port, TRUE)

BlockSize(c) == IF c.size = 0 THEN 65536 ELSE c.size
BlockCount(c) == CASE c.ctrl.sync = "Burst" -> 1
                   [] c.ctrl.sync = "Slice" -> c.count
                   [] c.ctrl.sync = "LinkedList" -> 0
\* An address after n words, within the part of memory the channel uses.
Step(c, n, span) == (IF c.ctrl.dec THEN c.maddr - n ELSE c.maddr + n) % span

\* n steps of f from x.
Times(n, f(_), x) ==
    LET after[i \in 0 .. n] == IF i = 0 THEN x ELSE f(after[i - 1])
    IN after[n]
-----------------------------------------------------------------------------
\* The state the stores to a control register work on.
Now == [channel |-> channel, dicr |-> dicr, mdec |-> mdec, mem |-> mem, drawn |-> <<>>,
        linked |-> linked, bottom |-> bottom, irq |-> irq]

\* The decoder given n words from the channel's address on.
Fed(d, c, n) ==
    LET after[i \in 0 .. n] ==
            IF i = 0 THEN d ELSE WriteParam(after[i - 1], Frame[1 + Step(c, i - 1, Len(Frame))])
    IN after[n]

DoMdecIn(s) ==
    LET c == s.channel[MdecIn]
        n == c.count * BlockSize(c)
    IN IF ~c.ctrl.start \/ ~DmaCanWrite(s.mdec) \/ MdecIn \notin dpcr THEN s
       ELSE Complete([s EXCEPT !.mdec = Fed(@, c, n), !.channel[MdecIn].count = 0,
                               !.channel[MdecIn].maddr = Step(c, n, Len(Frame))], MdecIn, 0)

DoMdecOut(s) ==
    LET c == s.channel[MdecOut]
        n == c.count * BlockSize(c)
    IN IF ~c.ctrl.start \/ ~DmaCanRead(s.mdec) \/ MdecOut \notin dpcr THEN s
       ELSE Complete([s EXCEPT !.mdec = Times(n, DmaReadWord, @),
                               !.channel[MdecOut].count = 0,
                               !.channel[MdecOut].maddr = Step(c, n, Len(Frame))], MdecOut, 0)

\* Channels 3 and 4, and 2 in slices: the data go through a register of the
\* device, and DPCR is not looked at.
DoSlices(s, port) ==
    LET c == s.channel[port]
    IN IF ~IsActive(c.ctrl) THEN s
       ELSE Complete([s EXCEPT !.channel[port].maddr =
                          Step(c, BlockCount(c) * BlockSize(c), Len(Frame))],
                     port, BlockCount(c))

\* The list from `addr`: the headers with words, in order.  The code has no
\* bound; a list that came back to itself would never end.
Walk(m, addr) ==
    LET from[n \in 0 .. Cardinality(Address)] ==
            [a \in Address \cup {End} |->
                IF a = End \/ n = 0 THEN <<>>
                ELSE (IF m[a].count > 0 THEN <<a>> ELSE <<>>) \o from[n - 1][m[a].next]]
    IN from[Cardinality(Address)][addr]

\* An address is never the end, so that there is a header, the end of a block.
DoGpuLinkedList(s) ==
    Complete([s EXCEPT !.drawn = Walk(s.mem, s.channel[Gpu].maddr)], Gpu, 1)

DoGpu(s) ==
    LET c == s.channel[Gpu]
    IN IF ~IsActive(c.ctrl) THEN s
       ELSE IF c.ctrl.sync = "LinkedList" THEN DoGpuLinkedList(s) ELSE DoSlices(s, Gpu)

\* Mutant: one entry short.
ClearedShort(m, addr, n) ==
    [a \in Address |-> IF a \in Entries /\ addr - n + 1 < a /\ a <= addr
                       THEN [count |-> 0, next |-> IF a = addr - n + 2 THEN End ELSE a - 1]
                       ELSE m[a]]
\* n headers downwards from addr, each naming the one below, the last the end.
Cleared(m, addr, n) ==
    [a \in Address |-> IF a \in Entries /\ addr - n < a /\ a <= addr
                       THEN [count |-> 0, next |-> IF a = addr - n + 1 THEN End ELSE a - 1]
                       ELSE m[a]]

DoOtc(s) ==
    LET c == s.channel[Otc]
        n == BlockSize(c) * BlockCount(c)
    IN IF ~IsActive(c.ctrl) \/ Otc \notin dpcr THEN s
       ELSE LET range == (c.maddr - n + 1) .. c.maddr
            IN Complete([s EXCEPT !.mem = Cleared(@, c.maddr, n),
                                  !.linked = [e \in Entries |-> IF e \in range THEN <<>> ELSE @[e]],
                                  !.bottom = (@ \ range) \cup {c.maddr - n + 1}],
                        Otc, 0)
-----------------------------------------------------------------------------
Idle == drawn' = <<>>
Registers == <<dpcr, dicr, mdec, lists, irq>>

StoreMaddr(port, a) ==
    /\ channel' = [channel EXCEPT ![port].maddr = a]
    /\ Idle
    /\ UNCHANGED Registers

StoreBlock(port, b) ==
    /\ channel' = [channel EXCEPT ![port].size = b.size, ![port].count = b.count]
    /\ Idle
    /\ UNCHANGED Registers

\* The guest clears no more than its table.
FitsTable(c, ctrl) ==
    LET d == [c EXCEPT !.ctrl = ctrl]
    IN BlockSize(d) * BlockCount(d) \in 1 .. (d.maddr + 1)

\* The control register, and the transfer it may start: no burst for the GPU, which
\* panics.
StoreControl(port, ctrl) ==
    /\ port = Gpu /\ IsActive(ctrl) => ctrl.sync # "Burst"
    /\ port = Otc => FitsTable(channel[Otc], ctrl)
    /\ port = Gpu /\ ctrl.sync = "LinkedList" => channel[Gpu].maddr \in Entries
    /\ LET s == [Now EXCEPT !.channel[port].ctrl = ctrl]
           t == CASE port = MdecIn  -> DoMdecIn(s)
                  [] port = MdecOut -> DoMdecOut(s)
                  [] port = Gpu     -> DoGpu(s)
                  [] port \in {CdRom, Spu} -> DoSlices(s, port)
                  [] port = Otc     -> DoOtc(s)
       IN /\ channel' = t.channel /\ dicr' = t.dicr /\ mdec' = t.mdec /\ mem' = t.mem
          /\ drawn' = t.drawn /\ linked' = t.linked /\ bottom' = t.bottom /\ irq' = t.irq
    /\ UNCHANGED dpcr

StoreDpcr(on) ==
    /\ dpcr' = on
    /\ Idle
    /\ UNCHANGED <<channel, dicr, mdec, lists, irq>>

\* Writing 1 to a flag clears it; the master flag follows, without an edge.
StoreDicr(w) ==
    /\ dicr' = UpdateMasterIrq([w EXCEPT !.flags = dicr.flags \ w.flags, !.master = dicr.master])
    /\ Idle
    /\ UNCHANGED <<channel, dpcr, mdec, lists, irq>>

\* The guest at the decoder's own registers.
MdecControl(reset, in, out) ==
    /\ mdec' = WriteControl(mdec, reset, in, out)
    /\ Idle
    /\ UNCHANGED <<channel, dpcr, dicr, lists, irq>>
MdecStore(w) ==
    /\ mdec' = WriteParam(mdec, w)
    /\ Idle
    /\ UNCHANGED <<channel, dpcr, dicr, lists, irq>>
MdecLoad ==
    /\ mdec' = DmaReadWord(mdec)
    /\ Idle
    /\ UNCHANGED <<channel, dpcr, dicr, lists, irq>>

\* The guest puts a packet that is in no list in front of what an entry holds.
Link(p, e) ==
    /\ \A x \in Entries : p \notin Range(linked[x])
    /\ mem' = [mem EXCEPT ![p] = [count |-> 1, next |-> mem[e].next], ![e].next = p]
    /\ linked' = [linked EXCEPT ![e] = <<p>> \o @]
    /\ Idle
    /\ UNCHANGED <<channel, dpcr, dicr, mdec, bottom, irq>>

AckIrq ==
    /\ irq' = StoreStat(irq, IrqSource \ {"dma"})
    /\ Idle
    /\ UNCHANGED <<channel, dpcr, dicr, mdec, lists>>

Next ==
    \/ \E p \in Port \ {5} :
           \/ \E a \in Maddrs(p) : StoreMaddr(p, a)
           \/ \E b \in BlockControls(p) : StoreBlock(p, b)
           \/ \E c \in Controls(p) : StoreControl(p, c)
    \/ \E on \in Enables : StoreDpcr(on)
    \/ \E w \in DicrStores : StoreDicr(w)
    \/ \E c \in MdecControls : MdecControl(c[1], c[2], c[3])
    \/ \E w \in MdecStores : MdecStore(w)
    \/ MdecLoad
    \/ \E p \in Packets, e \in Entries : Link(p, e)
    \/ AckIrq

Spec == Init /\ [][Next]_vars
-----------------------------------------------------------------------------
\* Whatever was cleared and linked, and in whatever order, a walk from an entry
\* hands the GPU the packets of that entry and of the ones below it: each once,
\* the far ones first, the last linked to an entry first.
Expected(a) ==
    LET from[e \in Entries] == linked[e] \o (IF e \in bottom THEN <<>> ELSE from[e - 1])
    IN from[a]
DrawOrder ==
    [][ drawn' # <<>> => drawn' = Expected(channel[Gpu].maddr) ]_vars

\* The decoder asks for input or for a reader, never for both, as it is enabled
\* and its output stands; it is busy only with a command or an output.
RequestsAgree ==
    /\ mdec.in_request <=> (mdec.in_enable /\ mdec.fifo = 0)
    /\ mdec.out_request <=> (mdec.out_enable /\ mdec.fifo # 0)
    /\ mdec.busy => (mdec.state # "Idle" \/ mdec.fifo # 0)

\* A guest that only reads gets to the end of an output, so that the decoder
\* takes input again: unless it is left the odd pixel that two-pixel reads never
\* take, which needs the format to change while the output is being read.
Drained(d) == Times(3 * d.fifo, DmaReadWord, d)
OutputsDrain ==
    (mdec.depth = "Bit15" => (mdec.fifo - mdec.out_pos) % 2 = 0) => Drained(mdec).fifo = 0

\* When a transfer puts the master flag up, the interrupt controller gets the
\* edge, whichever channel ends and whatever is already pending.
MasterRaisesEdge ==
    [][ ~dicr.master /\ dicr'.master /\ channel' # channel => "dma" \in irq'.int ]_vars
=============================================================================
