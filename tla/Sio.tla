--------------------------------- MODULE Sio ---------------------------------
(* The serial port of the controllers and memory cards (sio.rs): the port's  *)
(* registers, the two pads and two cards behind it with the byte protocol    *)
(* each speaks, the acknowledge line, and the two events it schedules.  The  *)
(* guest stores what it likes to the registers, in any order.                *)
EXTENDS Integers, Sequences, Irq

CONSTANTS
    Ports,       \* 0 and 1
    SectorLen,   \* bytes of a sector, 128
    Sectors,     \* the sectors of a card, 0 .. 0x3ff, as their low byte
    File,        \* what the cards' files hold, by sector
    Bytes,       \* what the guest sends
    Data,        \* bound: the bytes of a sector and of its sum
    Controls,    \* what it stores to the control register
    FifoLen,     \* bytes the receive buffer holds, 8
    BitXor(_, _)    \* the exclusive or of two bytes

\* What the port keeps of the control register.
ControlBits == [tx : BOOLEAN, dtr : BOOLEAN, rx : BOOLEAN, dsr_irq : BOOLEAN, port : Ports]

ASSUME SioAssumption ==
    /\ Ports \subseteq {0, 1} /\ 0 \in Ports
    /\ SectorLen \in Nat \ {0} /\ FifoLen \in Nat \ {0}
    /\ Bytes \subseteq 0 .. 255 /\ Data \subseteq Bytes /\ Sectors \subseteq Bytes
    /\ File \in [Sectors -> [1 .. SectorLen -> 0 .. 255]]
    /\ Controls \subseteq [bits : ControlBits, acknowledge : BOOLEAN, reset : BOOLEAN]
    /\ \A b \in 0 .. 255 : BitXor(0, b) = b /\ \A a \in 0 .. 255 : BitXor(a, b) \in 0 .. 255

VARIABLES
    control, status, transfer, received,
    comm,      \* Sio::state: which kind of device the bytes go to
    pad, card, \* by port
    sends, offs,  \* SerialSend and DsrOff events in the scheduler, one of each at most
    irq,
    sent, heard,  \* history: what each card was sent and answered since it was at rest
    fresh,        \* history: nothing was sent since the devices were deselected
    missed        \* history: first bytes in a row that nobody acknowledged
vars == <<control, status, transfer, received, comm, pad, card, sends, offs, irq,
          sent, heard, fresh, missed>>

None == -1      \* no byte waits, and a check that takes any byte
Free == None
HiZ == 255      \* 0xff, what an idle line reads as
-----------------------------------------------------------------------------
NoControl == [tx |-> FALSE, dtr |-> FALSE, rx |-> FALSE, dsr_irq |-> FALSE, port |-> 0]

\* What a device must be sent to go on to each of its states.
PadTable(mode) ==
    CASE mode = "Digital" -> <<Free, 1, 66, Free, Free>>
      [] mode = "Analog" -> <<0, 1, 66, Free, Free, Free, 0, 0, 0>>   \* and the NeGcon

Entry(state, check) == [state |-> state, check |-> check]
CardHead(id) == << Entry("Init", Free), Entry("Flag", 129), Entry("CardId1", id), Entry("CardId2", 0) >>
Address == << Entry("SendMsb", 0), Entry("SendLsb", Free) >>
CardTable(command) ==
    CASE command = "GetId" ->
           CardHead(83) \o << Entry("CmdAck1", 0), Entry("CmdAck2", 0), Entry("Recv04h", 0),
                          Entry("Recv00h", 0), Entry("Recv00h", 0), Entry("Recv80h", 0) >>
      [] command = "Read" ->
           CardHead(82) \o Address \o
               << Entry("CmdAck1", Free), Entry("CmdAck2", 0), Entry("AckMsb", 0), Entry("AckLsb", 0),
                  Entry("RecvSector", 0), Entry("RecvChecksum", 0), Entry("MemEnd", 0) >>
      [] command = "Write" ->
           CardHead(87) \o Address \o
               << Entry("SendSector", Free), Entry("SendChecksum", Free), Entry("CmdAck1", Free),
                  Entry("CmdAck2", 0), Entry("MemEnd", 0) >>
CommandOf == [b \in {82, 83, 87} |-> CASE b = 82 -> "Read" [] b = 83 -> "GetId" [] b = 87 -> "Write"]

PadReset(d) == [d EXCEPT !.ack = FALSE, !.idx = 0]
Switched(d) == PadReset([d EXCEPT !.mode = IF d.mode = "Digital" THEN "Analog" ELSE "Digital"])
CardReset(c) == [c EXCEPT !.ack = FALSE, !.idx = 0]
CardState(c) == CardTable(c.command)[c.idx + 1].state

Init ==
    /\ control = NoControl
    /\ status = [rx_ready |-> FALSE, dsr |-> FALSE, irq |-> FALSE]
    /\ transfer = None /\ received = <<>> /\ comm = "None"
    /\ pad = [p \in Ports |-> [idx |-> 0, mode |-> "Digital", ack |-> FALSE]]
    /\ card = [p \in Ports |->
                  [ idx |-> 0, command |-> "Read", ack |-> FALSE, sector |-> 0, checksum |-> 0,
                    buffer |-> [i \in 1 .. SectorLen |-> 0], left |-> 0, end |-> "Good",
                    unread |-> TRUE, data |-> File ]]
    /\ sends = 0 /\ offs = 0 /\ irq = IrqReset
    /\ sent = [p \in Ports |-> <<>>] /\ heard = sent /\ fresh = TRUE /\ missed = 0
-----------------------------------------------------------------------------
\* A pad's answer is its idx-th byte, written 256 + idx: what a button or a
\* stick reads as is left out.
PadByte(d, b) ==
    LET table == PadTable(d.mode)
        next == (d.idx + 1) % Len(table)
    IN IF table[next + 1] \in {Free, b}
       THEN [dev |-> [d EXCEPT !.idx = next, !.ack = next # 0],
             answer |-> IF d.idx = 0 THEN HiZ ELSE 256 + d.idx]
       ELSE [dev |-> PadReset(d), answer |-> HiZ]

\* The answer a card gives in each state.
CardAnswer(c) ==
    LET s == CardState(c)
    IN CASE s = "Init"    -> HiZ
         [] s = "CardId1" -> 90
         [] s = "CardId2" -> 93
         [] s = "CmdAck1" -> 92
         [] s = "CmdAck2" -> 93
         [] s = "Recv04h" -> 4
         [] s = "Recv80h" -> 128
         [] s = "AckMsb"  -> 0
         [] s = "AckLsb"  -> c.sector
         [] s = "Flag"    -> IF c.unread THEN 8 ELSE 0
         [] s = "RecvSector" -> c.buffer[SectorLen - c.left + 1]
         [] s = "RecvChecksum" -> c.checksum
         [] s = "MemEnd"  -> IF c.end = "Good" THEN 71 ELSE 78
         [] OTHER -> 0   \* SendMsb, SendLsb, SendSector, SendChecksum, Recv00h

\* What the byte does in the state it arrives in.
Take(c, b) ==
    LET s == CardState(c)
        at == SectorLen - c.left + 1
    IN CASE s = "SendMsb" -> [c EXCEPT !.checksum = b]
         [] s = "SendLsb" -> [c EXCEPT !.sector = b, !.checksum = BitXor(@, b)]
         [] s = "RecvSector" -> [c EXCEPT !.left = @ - 1, !.checksum = BitXor(@, c.buffer[at])]
         [] s = "SendSector" -> [c EXCEPT !.buffer[at] = b, !.left = @ - 1, !.checksum = BitXor(@, b)]
         [] s = "SendChecksum" -> [c EXCEPT !.end = IF c.checksum = b THEN "Good" ELSE "BadChecksum"]
         [] s = "MemEnd" ->
                [ c EXCEPT !.unread = FALSE,
                           !.data[c.sector] = IF c.command = "Write" THEN c.buffer ELSE @ ]
         [] OTHER -> c

NextCommand(c, b) == IF CardState(c) = "Flag" THEN CommandOf[b] ELSE c.command

\* Mutant: the sector is read when its number arrives, before it is known.
AdvanceEarly(c, b) ==
    LET load(d, state) ==
            CASE state = "SendLsb" -> [d EXCEPT !.buffer = d.data[d.sector]]
              [] state \in {"RecvSector", "SendSector"} -> [d EXCEPT !.left = SectorLen]
              [] OTHER -> d
        arrive(d, e) == IF e.check \in {Free, b} THEN load(d, e.state) ELSE CardReset(d)
        step(table, next) == arrive([c EXCEPT !.command = NextCommand(c, b), !.idx = next,
                                              !.ack = next # 0], table[next + 1])
        table_of == CardTable(NextCommand(c, b))
    IN step(table_of, (c.idx + 1) % Len(table_of))
\* MemcardCommand::next and what entering a state loads.
Advance(c, b) ==
    LET load(d, state) ==
            CASE state = "RecvSector" -> [d EXCEPT !.buffer = d.data[d.sector], !.left = SectorLen]
              [] state = "SendSector" -> [d EXCEPT !.left = SectorLen]
              [] OTHER -> d
        arrive(d, e) == IF e.check \in {Free, b} THEN load(d, e.state) ELSE CardReset(d)
        step(table, next) == arrive([c EXCEPT !.command = NextCommand(c, b), !.idx = next,
                                              !.ack = next # 0], table[next + 1])
        table_of == CardTable(NextCommand(c, b))
    IN step(table_of, (c.idx + 1) % Len(table_of))

\* The bytes of a sector pass one after another without a step of the table.
CardByte(c, b) ==
    LET refused == CardState(c) = "Flag" /\ b \notin DOMAIN CommandOf
        ended(moved) == moved.idx = 0 /\ CardState(c) \notin {"MemEnd", "Recv80h"}
        reply(d, lost) == [dev |-> d, answer |-> IF lost THEN HiZ ELSE CardAnswer(c)]
        pass(t) == LET moved == IF refused THEN CardReset(t) ELSE Advance(t, b)
                   IN IF CardState(c) \in {"RecvSector", "SendSector"} /\ t.left > 0
                      THEN reply(t, FALSE)
                      ELSE reply(moved, ended(moved))
    IN pass(Take(c, b))
-----------------------------------------------------------------------------
Now == [control |-> control, status |-> status, transfer |-> transfer, received |-> received,
        comm |-> comm, pad |-> pad, card |-> card, sends |-> sends, offs |-> offs,
        sent |-> sent, heard |-> heard, fresh |-> fresh, missed |-> missed]
Become(s) ==
    /\ control' = s.control /\ status' = s.status /\ transfer' = s.transfer
    /\ received' = s.received /\ comm' = s.comm /\ pad' = s.pad /\ card' = s.card
    /\ sends' = s.sends /\ offs' = s.offs /\ sent' = s.sent /\ heard' = s.heard
    /\ fresh' = s.fresh /\ missed' = s.missed

PushReceived(s, b) ==
    IF ~s.control.rx /\ ~s.control.dtr THEN s
    ELSE [ s EXCEPT !.received = IF Len(@) = FifoLen THEN [@ EXCEPT ![FifoLen] = b] ELSE Append(@, b),
                    !.status.rx_ready = TRUE, !.control.rx = FALSE ]

\* Which kind of device takes the byte: the one that took the last and
\* acknowledged it, or the one the byte names.
Addressed(s, b) ==
    CASE s.comm # "None" -> s.comm
      [] s.comm = "None" /\ b = 1 -> "GamepadComm"
      [] s.comm = "None" /\ b = 129 -> "MemcardComm"
      [] OTHER -> "None"

Answer(s, b) ==
    LET p == s.control.port
    IN CASE Addressed(s, b) = "GamepadComm" -> PadByte(s.pad[p], b)
         [] Addressed(s, b) = "MemcardComm" -> CardByte(s.card[p], b)
         [] Addressed(s, b) = "None" -> [dev |-> [ack |-> FALSE], answer |-> HiZ]

\* Mutant: the port keeps to a device that did not acknowledge.
ExchangeStays(s, b) ==
    LET p == s.control.port
        after(to, x) ==
            [ state |-> CASE to = "GamepadComm" -> [s EXCEPT !.pad[p] = x.dev, !.comm = to]
                          [] to = "MemcardComm" -> [s EXCEPT !.card[p] = x.dev, !.comm = to]
                          [] to = "None" -> s,
              answer |-> x.answer, ack |-> x.dev.ack ]
    IN after(Addressed(s, b), Answer(s, b))
Exchange(s, b) ==
    LET p == s.control.port
        log(d, h, v) == IF d.idx = 0 THEN <<>> ELSE Append(h, v)
        told(to, x) ==
            CASE to = "GamepadComm" -> [s EXCEPT !.pad[p] = x.dev]
              [] to = "MemcardComm" -> [s EXCEPT !.card[p] = x.dev, !.sent[p] = log(x.dev, @, b),
                                                 !.heard[p] = log(x.dev, @, x.answer)]
              [] to = "None" -> s
        after(to, x) == [ state |-> [told(to, x) EXCEPT !.comm = IF x.dev.ack THEN to ELSE "None"],
                          answer |-> x.answer, ack |-> x.dev.ack ]
    IN after(Addressed(s, b), Answer(s, b))

\* try_send_data.  An event that is scheduled already is replaced.
TrySend(s) ==
    LET first == s.fresh /\ s.transfer \in {1, 129}
        exchanged(x) ==
            PushReceived(
              [ x.state EXCEPT !.status.dsr = x.ack,
                               !.sends = IF s.control.dsr_irq /\ x.ack THEN 1 ELSE @,
                               !.offs = IF x.ack THEN 1 ELSE @,
                               !.fresh = FALSE,
                               !.missed = CASE x.ack -> 0 [] first /\ ~x.ack -> @ + 1 [] OTHER -> @ ],
              x.answer)
    IN IF ~s.control.tx \/ s.transfer = None THEN s
       ELSE exchanged(Exchange([s EXCEPT !.transfer = None], s.transfer))

\* Mutant: the cards are not told.
ResetPads(s) ==
    [ s EXCEPT !.pad = [p \in Ports |-> PadReset(@[p])],
               !.sent = [p \in Ports |-> <<>>], !.heard = [p \in Ports |-> <<>>], !.fresh = TRUE ]
ResetDevices(s) ==
    [ s EXCEPT !.pad = [p \in Ports |-> PadReset(@[p])], !.card = [p \in Ports |-> CardReset(@[p])],
               !.sent = [p \in Ports |-> <<>>], !.heard = [p \in Ports |-> <<>>], !.fresh = TRUE ]

ResetRegs(s) ==
    ResetDevices([ s EXCEPT !.transfer = None, !.received = <<>>, !.comm = "None",
                            !.status = [rx_ready |-> FALSE, dsr |-> FALSE, irq |-> FALSE],
                            !.control = NoControl ])

\* The devices are told when DTR is down; Sio::state is not.
Deselect(s) ==
    IF s.control.dtr THEN s ELSE ResetDevices([s EXCEPT !.status.dsr = FALSE])
-----------------------------------------------------------------------------
\* A guest names a sector that exists, on another number the code panics; what
\* it writes is bounded by Data.  Only a first byte waits for the port to be on.
MaySend(b) ==
    \A p \in Ports :
        /\ CardState(card[p]) = "SendMsb" => b = 0
        /\ CardState(card[p]) = "SendLsb" => b \in Sectors
        /\ CardState(card[p]) \in {"SendSector", "SendChecksum"} => b \in Data
        /\ ~control.tx => b \in {1, 129}

\* The guest stores a byte to send.
StoreTx(b) ==
    /\ MaySend(b)
    /\ Become(TrySend([Now EXCEPT !.transfer = b]))
    /\ UNCHANGED irq

\* write_control: acknowledge, reset, deselect and send, in this order.
WriteControl(w) ==
    /\ LET s == [Now EXCEPT !.control = w.bits, !.status.irq = @ /\ ~w.acknowledge]
           t == IF w.reset THEN ResetRegs(s) ELSE s
       IN Become(TrySend(Deselect(t)))
    /\ UNCHANGED irq

\* pop_received_data.
LoadRx ==
    /\ LET rest == SubSeq(received, 2, Len(received))
       IN Become([Now EXCEPT !.received = rest, !.status.rx_ready = @ /\ rest # <<>>])
    /\ UNCHANGED irq

\* process_serial_send.
SerialSend ==
    /\ sends > 0
    /\ Become([Now EXCEPT !.sends = @ - 1, !.status.irq = TRUE])
    /\ irq' = Raise(irq, "ctl_mem")

\* turn_dsr_off.
DsrOff ==
    /\ offs > 0
    /\ Become([Now EXCEPT !.offs = @ - 1, !.status.dsr = FALSE])
    /\ UNCHANGED irq

\* The player switches the first pad between digital and analog.
SetAnalogMode ==
    /\ 0 \in Ports
    /\ Become([Now EXCEPT !.pad[0] = Switched(@)])
    /\ UNCHANGED irq

Next ==
    \/ \E b \in Bytes : StoreTx(b)
    \/ \E w \in Controls : WriteControl(w)
    \/ LoadRx
    \/ SerialSend \/ DsrOff
    \/ SetAnalogMode

Spec == Init /\ [][Next]_vars
-----------------------------------------------------------------------------
\* The bytes of a whole write of a sector, up to the one that ends it.
IsWrite(s, sector, data) ==
    \E sum \in Data : s = <<129, 87, 0, 0, 0, sector>> \o data \o <<sum, 0, 0>>

\* A card changes in one step only, the end of a write none of whose bytes was
\* lost or left over from one broken off: and to what was sent, where it was
\* addressed.
WritesAreWhole ==
    [][ \A p \in Ports :
          card'[p].data # card[p].data =>
              \E s \in Sectors :
                  /\ IsWrite(sent[p], s, card'[p].data[s])
                  /\ \A t \in Sectors \ {s} : card'[p].data[t] = card[p].data[t] ]_vars

\* The exclusive or of the first n bytes, by n.
XorSums(bytes) ==
    LET sum[n \in 0 .. Len(bytes)] == IF n = 0 THEN 0 ELSE BitXor(sum[n - 1], bytes[n]) IN sum
XorOf(bytes) == XorSums(bytes)[Len(bytes)]

\* What a card has answered by the end of a read is the sector it was asked for
\* and the sum of it and its number, whatever was broken off before.
ReadsAreTrue ==
    \A p \in Ports :
        card[p].command = "Read" /\ CardState(card[p]) = "MemEnd" =>
            LET sector == card[p].data[sent[p][6]]
            IN /\ SubSeq(heard[p], 11, 10 + SectorLen) = sector
               /\ heard[p][11 + SectorLen] = XorOf(<<sent[p][5], sent[p][6]>> \o sector)

\* The first byte of a poll may be lost, to a device of the other kind whose
\* transfer was broken off, but not twice in a row.
OneMissAtMost == missed <= 1
=============================================================================
