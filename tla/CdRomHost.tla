----------------------------- MODULE CdRomHost -----------------------------
(***************************************************************************)
(* The drive together with the interrupt controller and a guest that       *)
(* services interrupts the way driver code does: the CPU takes an          *)
(* exception while irqctl.pending() holds (check_for_pending_interrupts),  *)
(* and the handler acknowledges I_STAT first, then reads the response,     *)
(* then acknowledges the drive.  The main program writes commands and      *)
(* parameters at any time it is not in the handler.                        *)
(*                                                                         *)
(* The order matters because the controller is edge triggered: a handler   *)
(* that acknowledged the drive first could let a queued command answer at  *)
(* once and then wipe out that answer's edge.                              *)
(***************************************************************************)
EXTENDS CdRom

CONSTANT StatFirst   \* does the handler acknowledge I_STAT before the drive

VARIABLE isr         \* where the guest is: "main" or a step of the handler

hostVars == <<vars, isr>>

\* The boot code has enabled the drive's interrupts everywhere.
HostInit ==
    /\ stat = {} /\ mode = {} /\ xa_adpcm = FALSE
    /\ cmd = None /\ cmd_state = "RecvCmd" /\ cmd_params = <<>>
    /\ cmd_timer = FALSE
    /\ pending_cmd = None /\ pending_params = <<>>
    /\ results = <<>>
    /\ seekloc = NoSector /\ head = 0 /\ data = NoSector
    /\ read_state = "Idle" /\ read_timer = FALSE
    /\ irq_mask = IntBit /\ irq_pending = {}
    /\ irqctl = StoreMask(IrqReset, {"cdrom"})
    /\ panic = None
    /\ isr = "main"

MainProgram ==
    /\ isr = "main"
    /\ \/ \E c \in Opcodes : WriteCommand(c)
       \/ \E b \in Bytes : WriteParam(b)
    /\ UNCHANGED isr

\* check_for_pending_interrupts and external_interrupt before a block.
TakeException ==
    /\ Running
    /\ isr = "main"
    /\ IrqPending(irqctl)
    /\ isr' = "first"
    /\ UNCHANGED vars

AckStat ==
    /\ Running
    /\ irqctl' = StoreStat(irqctl, IrqSource \ {"cdrom"})
    /\ UNCHANGED <<stat, modeVars, cmdVars, queueVars, results, readVars,
                   irq_mask, irq_pending, panic>>

AckDrive == AckInterrupt(IntBit, FALSE)

HandlerFirst ==
    /\ isr = "first"
    /\ IF StatFirst THEN AckStat ELSE AckDrive
    /\ isr' = "read"

HandlerRead ==
    /\ Running
    /\ isr = "read"
    /\ isr' = "last"
    /\ results' = <<>>
    /\ UNCHANGED <<stat, modeVars, cmdVars, queueVars, readVars, irqVars,
                   panic>>

HandlerLast ==
    /\ isr = "last"
    /\ IF StatFirst THEN AckDrive ELSE AckStat
    /\ isr' = "main"

Handler == TakeException \/ HandlerFirst \/ HandlerRead \/ HandlerLast

DriveTick == Tick /\ UNCHANGED isr

HostNext == MainProgram \/ Handler \/ DriveTick

\* tick runs after every block of guest code and the guest's handler is code
\* the CPU executes once it is entered; the main program owes nothing.
HostFairness == WF_hostVars(DriveTick) /\ WF_hostVars(Handler)

HostSpec == HostInit /\ [][HostNext]_hostVars /\ HostFairness

-----------------------------------------------------------------------------
\* No edge is lost: while an interrupt of the drive is unacknowledged and the
\* guest is not already handling one, the CPU will be interrupted.
NoLostEdge ==
    Running /\ irq_pending # {} /\ isr = "main" => IrqPending(irqctl)

\* With a guest that serves its interrupts every accepted command gets its
\* last response ...
CommandsFinish ==
    \A c \in Opcodes : cmd = c ~> (cmd # c \/ ~Running)

\* ... and no command stays parked behind the one in progress.
QueuedCommandsStart == pending_cmd # None ~> (pending_cmd = None \/ ~Running)
=============================================================================
