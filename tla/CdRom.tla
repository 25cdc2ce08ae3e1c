------------------------------- MODULE CdRom -------------------------------
(***************************************************************************)
(* The CD-ROM controller (cdrom.rs): register stores by the guest on one   *)
(* side, the drive's own progress (CDRom::tick, called after every block   *)
(* of guest code) on the other.                                            *)
(*                                                                         *)
(* One command is in progress at a time (cmd); a command written while     *)
(* another is in progress, or while an interrupt is unacknowledged, waits  *)
(* in the single slot pending_cmd.  A command is stepped through RecvCmd,  *)
(* Resp1 and, for six of them, Resp2; each response is posted with an      *)
(* interrupt number in irq_pending.  Reading and playing are driven by a   *)
(* second delay that counts only while no command delay is running.        *)
(*                                                                         *)
(* Delays are abstracted to "armed or not": only one of the two counts at  *)
(* any time, so their lengths never decide which fires first.              *)
(***************************************************************************)
EXTENDS Sequences, Irq, CdTypes

CONSTANTS
    Disk,        \* is a disc inserted (CDRom.disk is Some)
    Tracks,      \* sequence of [pregap, start, end], in sectors
    XaSectors,   \* sectors that carry real-time XA audio
    Opcodes,     \* the commands the guest issues
    Bytes,       \* the parameter bytes the guest writes
    Masks,       \* the values it stores to the drive's interrupt enable register
    CpuMasks,    \* the values it stores to I_MASK
    Acks,        \* the sets of flags it acknowledges with one store
    FifoSize,    \* capacity of the parameter FIFO (16 in the code)
    ReportFrames \* a playing drive reports every so many frames (10)

NoSector == -1     \* no Setloc target, no buffered sector

\* Any other opcode falls through to the panic at the end of step_command.
Unhandled == "unhandled"

ASSUME DiskAssumption   == Disk \in BOOLEAN
ASSUME TracksAssumption ==
    /\ Tracks \in Seq([pregap : Nat, start : Nat, end : Nat])
    /\ Tracks # <<>>
ASSUME GuestAssumption  ==
    /\ Opcodes \subseteq Command \cup {Unhandled}
    /\ Bytes \subseteq 0..255
    /\ Masks \subseteq SUBSET (0..2)
    /\ CpuMasks \subseteq SUBSET IrqSource
    /\ Acks \subseteq SUBSET (0..2)
    /\ XaSectors \subseteq Nat
    /\ FifoSize \in Nat \ {0}
    /\ ReportFrames \in Nat \ {0}

VARIABLES
    stat,            \* the Play / Seek / Read / Motor bits that are set
    mode,            \* the bits of the last Setmode byte
    xa_adpcm,        \* XaState.xa_adpcm_enabled, a copy of mode bit 6
    cmd, cmd_state, cmd_params, cmd_timer,
    pending_cmd, pending_params,
    results,         \* one tag per response whose bytes are still unread
    seekloc, head,   \* Setloc target; Image.read_head
    data,            \* the sector held by data_buffer, or NoSector
    read_state, read_timer,
    irq_mask, irq_pending,   \* sets of bits 0..2
    irqctl,
    panic            \* why the process died, or None

cmdVars   == <<cmd, cmd_state, cmd_params, cmd_timer>>
queueVars == <<pending_cmd, pending_params>>
readVars  == <<seekloc, head, data, read_state, read_timer>>
modeVars  == <<mode, xa_adpcm>>
irqVars   == <<irq_mask, irq_pending, irqctl>>
vars == <<stat, modeVars, cmdVars, queueVars, results, readVars, irqVars,
          panic>>

-----------------------------------------------------------------------------
(* Data: bytes, positions, sectors.                                        *)

StatBit == {"play", "seek", "read", "motor"}
Tag     == {"stat", "info", "error", "data", "report", "end"}
Panic   == {None, "unhandled command", "parameter fifo full", "bad parameter",
            "no seekloc", "no disc"}

ModeBits(b) == {i \in 0..7 : (b \div 2^i) % 2 = 1}
AutoPause == 1
Report    == 2
XaAdpcm   == 6

IsBcd(b)    == b \div 16 <= 9 /\ b % 16 <= 9
FromBcd(b)  == 10 * (b \div 16) + (b % 16)
PosToSectors(mm, ss, ff) == (mm * 60 + ss) * 75 + ff

Last(s) == s[Len(s)]

ValidSector(h) == \E t \in DOMAIN Tracks : Tracks[t].end >= h

\* The last track whose pregap starts at or before h (partition_point).
CurrentTrack(h) ==
    LET begun == {t \in DOMAIN Tracks :
                    \A u \in 1..t : Tracks[u].pregap <= h}
    IN  Tracks[IF begun = {} THEN 1
               ELSE CHOOSE t \in begun : \A u \in begun : u <= t]

AtEndOfTrack(h) == h >= CurrentTrack(h).end - 1

\* get_track_by_number: 0 is the last track, ids count from 1.
TrackNumbers == 0..Len(Tracks)
TrackByNumber(n) == Tracks[IF n = 0 THEN Len(Tracks) ELSE n]

Location == Nat
Running == panic = None

-----------------------------------------------------------------------------
StatusType ==
    /\ stat \subseteq StatBit
    /\ mode \subseteq 0..7
    /\ xa_adpcm \in BOOLEAN
    /\ panic \in Panic

CommandType ==
    /\ cmd \in Command \cup {None}
    /\ cmd_state \in {"RecvCmd", "Resp1", "Resp2"}
    /\ cmd_params \in Seq(0..255)
    /\ cmd_timer \in BOOLEAN
    /\ results \in Seq(Tag)

QueueType ==
    /\ pending_cmd \in Command \cup {Unhandled, None}
    /\ pending_params \in Seq(0..255)
    /\ Len(pending_params) <= FifoSize

ReaderType ==
    /\ seekloc \in Location \cup {NoSector}
    /\ head \in Nat
    /\ data \in Nat \cup {NoSector}
    /\ read_state \in {"Idle", "Reading", "Playing"}
    /\ read_timer \in BOOLEAN

IrqType ==
    /\ irq_mask \subseteq IntBit
    /\ irq_pending \subseteq IntBit
    /\ irqctl \in IrqCtl

TypeOK == StatusType /\ CommandType /\ QueueType /\ ReaderType /\ IrqType

Init ==
    /\ stat = {} /\ mode = {} /\ xa_adpcm = FALSE
    /\ cmd = None /\ cmd_state = "RecvCmd" /\ cmd_params = <<>>
    /\ cmd_timer = FALSE
    /\ pending_cmd = None /\ pending_params = <<>>
    /\ results = <<>>
    /\ seekloc = NoSector /\ head = 0 /\ data = NoSector
    /\ read_state = "Idle" /\ read_timer = FALSE
    /\ irq_mask = {} /\ irq_pending = {} /\ irqctl = IrqReset
    /\ panic = None

-----------------------------------------------------------------------------
(* Building blocks shared by the handlers.                                 *)

\* The emulator process dies; nothing it held matters any more.
Die(why) ==
    /\ panic' = why
    /\ UNCHANGED <<stat, modeVars, cmdVars, queueVars, results, readVars,
                   irqVars>>

\* Mutant: the flags are set but the edge never reaches the controller.
SetInterruptSilent(n) ==
    /\ irq_pending' = INT(n)
    /\ UNCHANGED <<irqctl, irq_mask>>

\* set_interrupt: replaces whatever was pending.  Every caller needs it to be
\* enabled by an empty irq_pending; that is NoInterruptOverwritten below.
SetInterrupt(n) ==
    /\ irq_pending' = INT(n)
    /\ irqctl' = IF INT(n) \cap irq_mask # {} THEN Raise(irqctl, "cdrom")
                 ELSE irqctl
    /\ UNCHANGED irq_mask

\* finish_command
FinishCommand ==
    /\ cmd' = None
    /\ cmd_state' = "RecvCmd"
    /\ cmd_params' = <<>>

\* The status bits set by reset_read_state and what it does to the drive.
AfterReset(s) == s \ {"seek", "read", "play"}

ResetReadState ==
    /\ read_state' = "Idle"
    /\ read_timer' = FALSE
    /\ data' = NoSector

-----------------------------------------------------------------------------
(* Starting a command: begin_command with the RecvCmd step.                *)

RecvBits(c) ==
    CASE c = "seekl"            -> {"seek", "motor"}
      [] c \in {"readn", "play"} -> {"motor"}
      [] OTHER                  -> {}

\* All commands but Gettn only arm the command delay on receipt.
ArmCommand(c, params) ==
    /\ c \in Command \ {"gettn"}
    /\ cmd' = c
    /\ cmd_state' = "Resp1"
    /\ cmd_params' = params
    /\ cmd_timer' = TRUE
    /\ stat' = stat \cup RecvBits(c)
    /\ results' = <<>>
    /\ irq_pending' = {}
    /\ UNCHANGED <<irq_mask, irqctl>>

\* Gettn answers at once.
AnswerGettn(c) ==
    /\ c = "gettn"
    /\ FinishCommand
    /\ results' = <<IF Disk THEN "info" ELSE "error">>
    /\ SetInterrupt(IF Disk THEN 3 ELSE 5)
    /\ UNCHANGED <<cmd_timer, stat>>

BeginCommand(c, params) ==
    \/ /\ ArmCommand(c, params) \/ AnswerGettn(c)
       /\ pending_params' = <<>>
       /\ UNCHANGED <<modeVars, readVars, panic>>
    \/ /\ c = Unhandled
       /\ panic' = "unhandled command"
       /\ UNCHANGED <<stat, modeVars, cmdVars, pending_params, results,
                      readVars, irqVars>>

-----------------------------------------------------------------------------
(* Register stores and loads by the guest.  A store is the pair "select    *)
(* the bank, write the register"; the bank index has no other effect.      *)

\* Mutant: only the interrupt flags are looked at.
WriteCommandAborts(c) ==
    /\ Running
    /\ IF irq_pending = {}
       THEN BeginCommand(c, pending_params) /\ UNCHANGED pending_cmd
       ELSE /\ pending_cmd' = c
            /\ UNCHANGED <<stat, modeVars, cmdVars, pending_params, results,
                           readVars, irqVars, panic>>

\* write_command
WriteCommand(c) ==
    /\ Running
    /\ IF cmd = None /\ irq_pending = {}
       THEN BeginCommand(c, pending_params) /\ UNCHANGED pending_cmd
       ELSE /\ pending_cmd' = c
            /\ UNCHANGED <<stat, modeVars, cmdVars, pending_params, results,
                           readVars, irqVars, panic>>

\* Mutant: a parameter is pushed whatever the length.
WriteParamUnbounded(b) ==
    /\ Running
    /\ Len(pending_params) <= FifoSize
    /\ pending_params' = Append(pending_params, b)
    /\ UNCHANGED <<stat, modeVars, cmdVars, pending_cmd, results, readVars,
                   irqVars, panic>>

\* write_param: pushing to a full ArrayVec panics.
WriteParam(b) ==
    /\ Running
    /\ IF Len(pending_params) < FifoSize
       THEN /\ pending_params' = Append(pending_params, b)
            /\ UNCHANGED <<stat, modeVars, cmdVars, pending_cmd, results,
                           readVars, irqVars, panic>>
       ELSE Die("parameter fifo full")

\* Mutant: the queued command waits for the next write.
AckInterruptKeepsQueue(bits, clear_params) ==
    /\ Running
    /\ irq_pending' = irq_pending \ bits
    /\ pending_params' = IF clear_params THEN <<>> ELSE pending_params
    /\ UNCHANGED <<stat, modeVars, cmdVars, pending_cmd, results, readVars,
                   irq_mask, irqctl, panic>>

\* ack_interrupt: clears the chosen bits, perhaps the parameter FIFO, and
\* starts the queued command once nothing is in progress or pending.
AckInterrupt(bits, clear_params) ==
    /\ Running
    /\ LET params == IF clear_params THEN <<>> ELSE pending_params
           left   == irq_pending \ bits
       IN  IF left = {} /\ cmd = None /\ pending_cmd # None
           THEN BeginCommand(pending_cmd, params) /\ pending_cmd' = None
           ELSE /\ irq_pending' = left
                /\ pending_params' = params
                /\ UNCHANGED <<stat, modeVars, cmdVars, pending_cmd, results,
                               readVars, irq_mask, irqctl, panic>>

\* The interrupt enable register; no pending interrupt is re-evaluated.
WriteIrqMask(m) ==
    /\ Running
    /\ irq_mask' = m
    /\ UNCHANGED <<stat, modeVars, cmdVars, queueVars, results, readVars,
                   irq_pending, irqctl, panic>>

\* consume_result_byte, up to the last byte of the oldest response.
ReadResult ==
    /\ Running
    /\ results # <<>>
    /\ results' = Tail(results)
    /\ UNCHANGED <<stat, modeVars, cmdVars, queueVars, readVars, irqVars,
                   panic>>

\* read_sector_data / DMA channel 3, until data_buffer is empty.
ReadData ==
    /\ Running
    /\ data # NoSector
    /\ data' = NoSector
    /\ UNCHANGED <<stat, modeVars, cmdVars, queueVars, results, seekloc,
                   head, read_state, read_timer, irqVars, panic>>

\* The guest's stores to I_STAT and I_MASK.
StoreIrqCtl ==
    /\ Running
    /\ irqctl' \in {StoreStat(irqctl, IrqSource \ {"cdrom"})}
                     \cup {StoreMask(irqctl, m) : m \in CpuMasks}
    /\ UNCHANGED <<stat, modeVars, cmdVars, queueVars, results, readVars,
                   irq_mask, irq_pending, panic>>

-----------------------------------------------------------------------------
(* Responses.  Each of these is one step_command of the command in         *)
(* progress, run by tick when the command delay reaches zero.              *)

\* The last response of a command: post it, finish the command.
Answer(tag, n) ==
    /\ results' = <<tag>>
    /\ SetInterrupt(n)
    /\ FinishCommand
    /\ cmd_timer' = FALSE

\* Mutant: the delay of the second response is not armed.
AcknowledgeUnarmed ==
    /\ results' = <<"stat">>
    /\ SetInterrupt(3)
    /\ cmd_state' = "Resp2"
    /\ cmd_timer' = FALSE
    /\ UNCHANGED <<cmd, cmd_params>>

\* The first of two responses: post INT3 and wait for the second.
Acknowledge ==
    /\ results' = <<"stat">>
    /\ SetInterrupt(3)
    /\ cmd_state' = "Resp2"
    /\ cmd_timer' = TRUE
    /\ UNCHANGED <<cmd, cmd_params>>

\* assert_param_count
ParamCount == [setloc |-> 3, setmode |-> 1, setfilter |-> 2, test |-> 1]
WrongCount ==
    cmd \in DOMAIN ParamCount /\ Len(cmd_params) # ParamCount[cmd]

RejectCount ==
    /\ WrongCount
    /\ Answer("error", 5)
    /\ UNCHANGED <<stat, modeVars, readVars, panic>>

\* Nop, Mute, Demute, Setfilter, Getlocl: a reply that leaves the state
\* modelled here alone.  Getlocp needs a disc, Gettd a disc and a track.
Resp1Plain ==
    /\ cmd \in {"nop", "mute", "demute", "setfilter", "getlocl", "getlocp",
                "gettd"}
    /\ ~WrongCount
    /\ LET track == IF cmd_params # <<>> /\ IsBcd(Last(cmd_params))
                    THEN FromBcd(Last(cmd_params)) ELSE 0
           refused == \/ cmd \in {"getlocp", "gettd"} /\ ~Disk
                      \/ cmd = "gettd" /\ track \notin TrackNumbers
       IN  IF refused THEN Answer("error", 5)
           ELSE Answer(IF cmd \in {"nop", "mute", "demute", "setfilter"}
                       THEN "stat" ELSE "info", 3)
    /\ UNCHANGED <<stat, modeVars, readVars, panic>>

\* Only sub-command 20h of Test is implemented.
Resp1Test ==
    /\ cmd = "test"
    /\ ~WrongCount
    /\ IF cmd_params = <<32>>
       THEN Answer("info", 3) /\ UNCHANGED <<stat, modeVars, readVars, panic>>
       ELSE Die("bad parameter")

Resp1Setloc ==
    /\ cmd = "setloc"
    /\ ~WrongCount
    /\ IF \A i \in 1..3 : IsBcd(cmd_params[i])
       THEN /\ seekloc' = PosToSectors(FromBcd(cmd_params[1]),
                                       FromBcd(cmd_params[2]),
                                       FromBcd(cmd_params[3]))
            /\ Answer("stat", 3)
            /\ UNCHANGED <<stat, modeVars, head, data, read_state,
                           read_timer, panic>>
       ELSE Die("bad parameter")

Resp1Setmode ==
    /\ cmd = "setmode"
    /\ ~WrongCount
    /\ mode' = ModeBits(cmd_params[1])
    /\ xa_adpcm' = (XaAdpcm \in mode')
    /\ Answer("stat", 3)
    /\ UNCHANGED <<stat, readVars, panic>>

\* begin_reading; with XA-ADPCM on it looks at the disc.
Resp1Readn ==
    /\ cmd = "readn"
    /\ IF XaAdpcm \in mode /\ ~Disk
       THEN Die("no disc")
       ELSE /\ read_state' = "Reading"
            /\ read_timer' = TRUE
            /\ stat' = stat \cup {IF seekloc # NoSector THEN "seek" ELSE "read"}
            /\ Answer("stat", 3)
            /\ UNCHANGED <<modeVars, seekloc, head, data, panic>>

\* Play leaves a command delay running behind it, with no command.
Resp1Play ==
    /\ cmd = "play"
    /\ LET byte == Last(cmd_params)
           target == IF cmd_params = <<>> THEN seekloc
                     ELSE TrackByNumber(FromBcd(byte)).start
       IN  IF cmd_params # <<>> /\ ~(IsBcd(byte) /\ Disk
                                      /\ FromBcd(byte) \in TrackNumbers)
           THEN Die("bad parameter")
           ELSE /\ seekloc' = target
                /\ read_state' = "Playing"
                /\ read_timer' = TRUE
                /\ stat' = stat \cup {IF target # NoSector THEN "seek" ELSE "play"}
                /\ results' = <<"stat">>
                /\ SetInterrupt(3)
                /\ FinishCommand
                /\ cmd_timer' = TRUE
                /\ UNCHANGED <<modeVars, head, data, panic>>

Resp1Seekl ==
    /\ cmd = "seekl"
    /\ IF seekloc = NoSector
       THEN Die("no seekloc")
       ELSE Acknowledge /\ UNCHANGED <<stat, modeVars, readVars, panic>>

\* Stop clears the status bits, but neither read_state nor read_delay.
Resp1Stop ==
    /\ cmd = "stop"
    /\ stat' = stat \ {"read", "play"}
    /\ Acknowledge
    /\ UNCHANGED <<modeVars, readVars, panic>>

Resp1TwoPhase ==
    /\ cmd \in {"pause", "init", "getid", "readtoc"}
    /\ Acknowledge
    /\ UNCHANGED <<stat, modeVars, readVars, panic>>

Resp1 ==
    \/ RejectCount
    \/ Resp1Plain
    \/ Resp1Test
    \/ Resp1Setloc
    \/ Resp1Setmode
    \/ Resp1Readn
    \/ Resp1Play
    \/ Resp1Seekl
    \/ Resp1Stop
    \/ Resp1TwoPhase

Resp2Seekl ==
    /\ cmd = "seekl"
    /\ IF Disk
       THEN /\ head' = seekloc
            /\ seekloc' = NoSector
            /\ stat' = stat \ {"seek"}
            /\ Answer("stat", 2)
            /\ UNCHANGED <<modeVars, data, read_state, read_timer, panic>>
       ELSE Die("no disc")

Resp2Pause ==
    /\ cmd = "pause"
    /\ ResetReadState
    /\ stat' = AfterReset(stat)
    /\ Answer("stat", 2)
    /\ UNCHANGED <<modeVars, seekloc, head, panic>>

\* Init assigns the mode register without calling XaState.set_mode.
Resp2Init ==
    /\ cmd = "init"
    /\ ResetReadState
    /\ stat' = AfterReset(stat \cup {"motor"})
    /\ mode' = ModeBits(32)
    /\ Answer("stat", 2)
    /\ UNCHANGED <<xa_adpcm, seekloc, head, panic>>

Resp2Stop ==
    /\ cmd = "stop"
    /\ stat' = stat \ {"motor"}
    /\ Answer("stat", 2)
    /\ UNCHANGED <<modeVars, readVars, panic>>

Resp2Report ==
    /\ cmd \in {"getid", "readtoc"}
    /\ IF cmd = "getid" THEN Answer("info", IF Disk THEN 2 ELSE 5)
       ELSE Answer("stat", 2)
    /\ UNCHANGED <<stat, modeVars, readVars, panic>>

Resp2 ==
    \/ Resp2Seekl
    \/ Resp2Pause
    \/ Resp2Init
    \/ Resp2Stop
    \/ Resp2Report

-----------------------------------------------------------------------------
(* Reading and playing: one step per expiry of the read delay.             *)

\* Mutant: sectors keep coming while an interrupt is pending.
StreamingUngated == read_timer /\ ~cmd_timer

Streaming == read_timer /\ ~cmd_timer /\ irq_pending = {}

\* Both start by completing an outstanding seek.
StreamSeek ==
    /\ read_state # "Idle"
    /\ seekloc # NoSector
    /\ head' = seekloc
    /\ seekloc' = NoSector
    /\ stat' = stat \ {"seek"}
    /\ UNCHANGED <<modeVars, cmdVars, queueVars, results, data, read_state,
                   read_timer, irqVars, panic>>

\* The head is past the last track: an error is pushed, the stream stops,
\* and no interrupt is raised.
StreamOffDisc ==
    /\ read_state # "Idle"
    /\ seekloc = NoSector
    /\ ~ValidSector(head)
    /\ results' = Append(results, "error")
    /\ ResetReadState
    /\ stat' = AfterReset(stat \ {"motor"})
    /\ UNCHANGED <<modeVars, cmdVars, queueVars, seekloc, head, irqVars,
                   panic>>

\* Mutant: the buffer is filled one sector ahead of its interrupt.
ReadSectorAhead ==
    /\ read_state = "Reading"
    /\ seekloc = NoSector
    /\ ValidSector(head)
    /\ stat' = stat \cup {"read"}
    /\ head' = head + 1
    /\ data' = head
    /\ IF data = NoSector
       THEN results' = <<>> /\ UNCHANGED irqVars
       ELSE results' = <<"data">> /\ SetInterrupt(1)
    /\ UNCHANGED <<modeVars, cmdVars, queueVars, seekloc, read_state,
                   read_timer, panic>>

ReadSector ==
    /\ read_state = "Reading"
    /\ seekloc = NoSector
    /\ ValidSector(head)
    /\ stat' = stat \cup {"read"}
    /\ head' = head + 1
    /\ IF xa_adpcm /\ head \in XaSectors
       THEN results' = <<>> /\ UNCHANGED <<data, irqVars>>
       ELSE /\ data' = head
            /\ results' = <<"data">>
            /\ SetInterrupt(1)
    /\ UNCHANGED <<modeVars, cmdVars, queueVars, seekloc, read_state,
                   read_timer, panic>>

AutoPauses == AutoPause \in mode /\ AtEndOfTrack(head)

PlayAutoPause ==
    /\ read_state = "Playing"
    /\ seekloc = NoSector
    /\ ValidSector(head)
    /\ AutoPauses
    /\ results' = Append(results, "end")
    /\ ResetReadState
    /\ stat' = AfterReset(stat)
    /\ SetInterrupt(4)
    /\ UNCHANGED <<modeVars, cmdVars, queueVars, seekloc, head, panic>>

\* A report is posted every ReportFrames frames (push_play_report).
PlaySector ==
    /\ read_state = "Playing"
    /\ seekloc = NoSector
    /\ ValidSector(head)
    /\ ~AutoPauses
    /\ stat' = stat \cup {"play"}
    /\ head' = head + 1
    /\ IF Report \in mode /\ (head' % 75) % ReportFrames = 0
       THEN results' = <<"report">> /\ SetInterrupt(1)
       ELSE UNCHANGED <<results, irqVars>>
    /\ UNCHANGED <<modeVars, cmdVars, queueVars, seekloc, data, read_state,
                   read_timer, panic>>

Stream ==
    IF ~Disk THEN Die("no disc")
    ELSE \/ StreamSeek
         \/ StreamOffDisc
         \/ ReadSector
         \/ PlayAutoPause
         \/ PlaySector

-----------------------------------------------------------------------------
\* CDRom::tick.  Nothing moves while an interrupt is unacknowledged.
TickCommand ==
    /\ Running
    /\ irq_pending = {}
    /\ cmd_timer
    /\ \/ /\ cmd = None
          /\ cmd_timer' = FALSE
          /\ UNCHANGED <<stat, modeVars, cmd, cmd_state, cmd_params,
                         queueVars, results, readVars, irqVars, panic>>
       \/ /\ cmd_state = "Resp1" /\ Resp1
          /\ UNCHANGED queueVars
       \/ /\ cmd_state = "Resp2" /\ Resp2
          /\ UNCHANGED queueVars

TickStream ==
    /\ Running
    /\ Streaming
    /\ Stream

Tick == TickCommand \/ TickStream

Guest ==
    \/ \E c \in Opcodes : WriteCommand(c)
    \/ \E b \in Bytes : WriteParam(b)
    \/ \E bits \in Acks, p \in BOOLEAN : AckInterrupt(bits, p)
    \/ \E m \in Masks : WriteIrqMask(m)
    \/ ReadResult
    \/ ReadData
    \/ StoreIrqCtl

Next == Guest \/ Tick

Spec == Init /\ [][Next]_vars

-----------------------------------------------------------------------------
(* Properties.                                                             *)

\* A command in progress has its delay running and a response still to come,
\* so tick will step it; between commands cmd_state is back at RecvCmd.  A
\* step that forgot to re-arm cmd_delay would hang the drive for ever.
CommandIsArmed ==
    /\ cmd # None => cmd_timer /\ cmd_state \in {"Resp1", "Resp2"}
    /\ cmd = None => cmd_state = "RecvCmd"

\* A command parked in pending_cmd always has something that will start it:
\* only ack_interrupt takes it, so while it waits either a command is still
\* to post its interrupt or an interrupt is still to be acknowledged.
QueuedCommandHasWaker ==
    pending_cmd # None => cmd # None \/ irq_pending # {}

\* The states in which tick would reach an unreachable!() or an unwrap of
\* None: a read delay running with no reader, a second response owed by a
\* command that has only one, the second response of a seek without target.
UnreachableArms ==
    /\ read_timer => read_state # "Idle"
    /\ cmd_state = "Resp2" => cmd \in TwoPhase
    /\ cmd_state = "Resp2" /\ cmd = "seekl" => seekloc # NoSector

\* The Play and Read bits the guest sees are never left over from a stream
\* that has ended: Pause, Init, auto-pause and the end of the disc all drop
\* them together with read_state.
IdleShowsNoStream == read_state = "Idle" => stat \cap {"play", "read"} = {}

\* The status word the guest reads and the one the CPU samples are two
\* registers; no sequence of edges and stores lets them disagree.
IrqRegistersAgree == irqctl.status = irqctl.int

\* The inductive invariant behind the theorems of CdRomProofs.
IInv == TypeOK /\ CommandIsArmed /\ QueuedCommandHasWaker /\ UnreachableArms

\* set_interrupt never replaces an interrupt the guest has not acknowledged
\* (the case its warn! reports): from a pending interrupt a step can only
\* clear bits, unless all were acknowledged and a queued Gettn answered.
NoInterruptOverwritten ==
    [][\/ irq_pending = {}
       \/ irq_pending' \subseteq irq_pending
       \/ pending_cmd # None /\ pending_cmd' = None]_vars

\* The sector buffer is refilled only by a step that also posts INT1, and
\* only when the previous INT1 has been acknowledged: the guest never finds
\* sector n+1 in the buffer while handling the interrupt of sector n.
SectorsAreAnnounced ==
    [][data' \notin {data, NoSector} =>
            irq_pending = {} /\ irq_pending' = INT(1)]_vars

\* Where the drive is with the command in progress.
Phase == CASE cmd_state = "RecvCmd" -> "idle"
           [] cmd_state = "Resp1"   -> "accepted"
           [] cmd_state = "Resp2"   -> "acknowledged"

\* The drive implements the command protocol of CdProtocol.
Protocol == INSTANCE CdProtocol
            WITH phase <- Phase, active <- cmd, irq <- irq_pending

ImplementsProtocol == Protocol!Spec

=============================================================================
