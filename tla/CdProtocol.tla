----------------------------- MODULE CdProtocol -----------------------------
(***************************************************************************)
(* What the drive promises the guest about commands and interrupts, with   *)
(* no disc, no head, no FIFO and no timing:                                *)
(*   - an accepted command is answered once (INT3, or INT5 on error) or,   *)
(*     if it has two phases, acknowledged by INT3 and then completed once; *)
(*   - from acceptance to the last response no other command starts and    *)
(*     no unsolicited interrupt (INT1 data, INT4 end) intervenes;          *)
(*   - an interrupt is posted only when none is unacknowledged, and only   *)
(*     the guest takes it away.                                            *)
(***************************************************************************)
EXTENDS CdTypes

VARIABLES phase,    \* "idle", "accepted" or "acknowledged"
          active,   \* the command in progress, or None
          irq       \* the unacknowledged interrupt, as a set of bits

vars == <<phase, active, irq>>

Init ==
    /\ phase = "idle"
    /\ active = None
    /\ irq = {}

\* A command starts, perhaps in the same step as the guest's acknowledgement.
Accept(c) ==
    /\ phase = "idle"
    /\ phase' = "accepted"
    /\ active' = c
    /\ irq' = {}

AnswerAtOnce(n) ==
    /\ phase = "idle"
    /\ irq' = INT(n)
    /\ UNCHANGED <<phase, active>>

Answer(n) ==
    /\ phase = "accepted"
    /\ active \in OnePhase
    /\ irq = {}
    /\ phase' = "idle"
    /\ active' = None
    /\ irq' = INT(n)

Acknowledge ==
    /\ phase = "accepted"
    /\ active \in TwoPhase
    /\ irq = {}
    /\ phase' = "acknowledged"
    /\ irq' = INT(3)
    /\ UNCHANGED active

\* Getid is the one command whose second response can be an error.
Complete(n) ==
    /\ phase = "acknowledged"
    /\ n = 5 => active = "getid"
    /\ irq = {}
    /\ phase' = "idle"
    /\ active' = None
    /\ irq' = INT(n)

Unsolicited(n) ==
    /\ phase = "idle"
    /\ irq = {}
    /\ irq' = INT(n)
    /\ UNCHANGED <<phase, active>>

GuestAcknowledges ==
    /\ irq' \subseteq irq
    /\ UNCHANGED <<phase, active>>

Next ==
    \/ \E c \in Command \ {"gettn"} : Accept(c)
    \/ \E n \in {3, 5} : AnswerAtOnce(n) \/ Answer(n)
    \/ Acknowledge
    \/ \E n \in {2, 5} : Complete(n)
    \/ \E n \in {1, 4} : Unsolicited(n)
    \/ GuestAcknowledges

Spec == Init /\ [][Next]_vars
=============================================================================
