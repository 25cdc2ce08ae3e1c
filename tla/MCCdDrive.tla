----------------------------- MODULE MCCdDrive -----------------------------
(***************************************************************************)
(* The drive under a guest that keeps to one vocabulary of commands.       *)
(* I_MASK, which the boot code has stored and nothing changes after, tells *)
(* the guests apart.                                                       *)
(***************************************************************************)
EXTENDS MCCdRom

\* Everything, or the lowest flag alone, which leaves a part of INT3 and INT5.
SomeFlags == {IntBit, {0}}

Program(mask, commands, params) == [mask |-> mask, commands |-> commands, params |-> params]

\* As many bytes as Setloc takes, and more than the FIFO holds.
SetlocParams == {<<0>>, <<0, 0>>, <<0, 0, 0>>}

\* What shares the target of Setloc, what shares the stream, and what resets both.
\* 1 is a track, 70 no track, and a mode with XA sectors, reports and auto-pause.
Programs == {
    Program({}, {"setloc", "readn", "pause", "seekl"}, SetlocParams),
    Program({"vblank"}, {"setloc", "readn", "stop"}, SetlocParams),
    Program({"dma"}, {"play", "readn", "setmode"}, {<<1>>, <<70>>}),
    Program({"spu"}, {"play", "init", "stop", "pause"}, {<<1>>}),
    Program({"cdrom"}, {"readn", "init", "setmode"}, {<<70>>}) }

\* The states of a guest that keeps to its vocabulary.
KeepsTo ==
    \E g \in Programs :
        /\ irqctl.mask = g.mask
        /\ {cmd, pending_cmd} \subseteq g.commands \union {None}
        /\ {cmd_params, pending_params} \subseteq g.params \union {<<>>}

DriveInit ==
    \E g \in Programs :
        /\ stat = {} /\ mode = {} /\ xa_adpcm = FALSE
        /\ cmd = None /\ cmd_state = "RecvCmd" /\ cmd_params = <<>> /\ cmd_timer = FALSE
        /\ pending_cmd = None /\ pending_params = <<>> /\ results = <<>>
        /\ seekloc = NoSector /\ head = 0 /\ data = NoSector
        /\ read_state = "Idle" /\ read_timer = FALSE
        /\ irq_mask = {} /\ irq_pending = {} /\ irqctl = StoreMask(IrqReset, g.mask)
        /\ panic = None

DriveSpec == DriveInit /\ [][Next]_vars
=============================================================================
