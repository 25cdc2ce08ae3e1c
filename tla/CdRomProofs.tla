----------------------------- MODULE CdRomProofs -----------------------------
(***************************************************************************)
(* Theorems about the CD-ROM controller, for every disc, guest vocabulary  *)
(* and FIFO size.  The argument is one inductive invariant, IInv: the type *)
(* invariant needs UnreachableArms (a seek target is a number when Seekl   *)
(* completes), QueuedCommandHasWaker needs CommandIsArmed (a command in    *)
(* progress is one that will post an interrupt), and so on.  On top of it: *)
(* the drive implements the command protocol of CdProtocol; the two copies *)
(* of the interrupt status agree whatever the guest stores; and with a     *)
(* handler that acknowledges I_STAT before the drive no edge is lost.      *)
(* Last, the sector cache and its prefetch thread.                         *)
(***************************************************************************)
EXTENDS CdRomHost, CdCache, SequenceTheorems, TLAPS

-----------------------------------------------------------------------------
(* Data.                                                                   *)

\* Every interrupt number the drive posts is a set of flag bits ...
LEMMA IntType == \A n \in 1..5 : INT(n) \subseteq IntBit
  BY DEF INT

\* ... and none of them is empty, so a posted interrupt is pending.
LEMMA IntNonEmpty == \A n \in 1..5 : INT(n) # {}
<1>1. 0 \in IntBit /\ 1 \in IntBit /\ 2 \in IntBit
  BY DEF IntBit
<1>2. 2^0 = 1 /\ 2^1 = 2 /\ 2^2 = 4
  OBVIOUS
<1>3. /\ (1 \div 1) % 2 = 1 /\ (2 \div 2) % 2 = 1 /\ (3 \div 1) % 2 = 1
      /\ (4 \div 4) % 2 = 1 /\ (5 \div 1) % 2 = 1
  OBVIOUS
<1>4. 0 \in INT(1) /\ 0 \in INT(3) /\ 0 \in INT(5)
  BY <1>1, <1>2, <1>3 DEF INT
<1>5. 1 \in INT(2)
  BY <1>1, <1>2, <1>3 DEF INT
<1>6. 2 \in INT(4)
  BY <1>1, <1>2, <1>3 DEF INT
<1> QED
  BY <1>4, <1>5, <1>6

\* The controller's registers keep their type.
LEMMA RaiseType == \A ic \in IrqCtl, s \in IrqSource : Raise(ic, s) \in IrqCtl
  BY DEF Raise, IrqCtl

LEMMA StoreType ==
  \A ic \in IrqCtl, m \in SUBSET IrqSource :
     StoreStat(ic, m) \in IrqCtl /\ StoreMask(ic, m) \in IrqCtl
<1> SUFFICES ASSUME NEW ic \in IrqCtl, NEW m \in SUBSET IrqSource
             PROVE  StoreStat(ic, m) \in IrqCtl /\ StoreMask(ic, m) \in IrqCtl
  OBVIOUS
<1>1. StoreStat(ic, m) \in IrqCtl
  BY DEF StoreStat, IrqCtl
<1>2. StoreMask(ic, m) \in IrqCtl
  BY DEF StoreMask, IrqCtl
<1> QED
  BY <1>1, <1>2

\* set_interrupt leaves a pending interrupt of flag bits.
LEMMA SetInterruptType ==
  ASSUME TypeOK, NEW n \in 1..5, SetInterrupt(n)
  PROVE  /\ irq_pending' \subseteq IntBit /\ irq_pending' # {}
         /\ irqctl' \in IrqCtl
         /\ irq_mask' = irq_mask
  BY IntType, IntNonEmpty, RaiseType DEF SetInterrupt, TypeOK, IrqType, IrqSource

\* The start sector of a track the guest may name.
LEMMA TrackStart ==
  \A n \in TrackNumbers : TrackByNumber(n).start \in Nat
<1> DEFINE Track == [pregap : Nat, start : Nat, end : Nat]
<1>1. Tracks \in Seq(Track) /\ Tracks # <<>>
  BY TracksAssumption DEF TracksAssumption
<1>2. \A t \in Track : t.start \in Nat
  OBVIOUS
<1> HIDE DEF Track
<1>3. \A i \in 1..Len(Tracks) : Tracks[i] \in Track
  BY <1>1
<1>4. Len(Tracks) \in 1..Len(Tracks)
  BY <1>1
<1>5. \A n \in TrackNumbers : TrackByNumber(n) \in Track
  BY <1>1, <1>3, <1>4 DEF TrackNumbers, TrackByNumber
<1> QED
  BY <1>2, <1>5

LEMMA PositionType ==
  \A m \in 0..255, s \in 0..255, f \in 0..255 :
     PosToSectors(FromBcd(m), FromBcd(s), FromBcd(f)) \in Nat
  BY DEF PosToSectors, FromBcd
-----------------------------------------------------------------------------
(* Steps.                                                                  *)

\* A command is begun only when none is in progress and no interrupt is
\* pending, and leaves the queue empty.
LEMMA BeginCommandStep ==
  ASSUME IInv, NEW c \in Command \cup {Unhandled}, NEW params \in Seq(0..255),
         cmd = None, pending_cmd' = None,
         BeginCommand(c, params)
  PROVE  IInv'
<1> USE DEF IInv, TypeOK, cmdVars, modeVars, readVars, irqVars
<1>1. CASE /\ ArmCommand(c, params) /\ pending_params' = <<>>
           /\ UNCHANGED <<modeVars, readVars, panic>>
  <2>11. StatusType' /\ ReaderType'
    BY <1>1 DEF ArmCommand, RecvBits, StatBit, StatusType, ReaderType
  <2>12. CommandType' /\ QueueType' /\ IrqType'
    BY <1>1, GuestAssumption DEF ArmCommand, GuestAssumption, CommandType, QueueType, IrqType
  <2>13. CommandIsArmed' /\ QueuedCommandHasWaker' /\ UnreachableArms'
    BY <1>1 DEF ArmCommand, Command, OnePhase, TwoPhase, None,
         CommandIsArmed, QueuedCommandHasWaker,
           UnreachableArms
  <2> QED
    BY <2>11, <2>12, <2>13
<1>2. CASE /\ AnswerGettn(c) /\ pending_params' = <<>>
           /\ UNCHANGED <<modeVars, readVars, panic>>
  <2>11. StatusType' /\ ReaderType'
    BY <1>2 DEF AnswerGettn, StatusType, ReaderType
  <2>12. CommandType' /\ QueueType' /\ IrqType'
    BY <1>2, SetInterruptType, GuestAssumption DEF AnswerGettn, FinishCommand, GuestAssumption, Tag,
         CommandType, QueueType, IrqType
  <2>13. CommandIsArmed' /\ QueuedCommandHasWaker' /\ UnreachableArms'
    BY <1>2 DEF AnswerGettn, FinishCommand, CommandIsArmed, QueuedCommandHasWaker,
           UnreachableArms
  <2> QED
    BY <2>11, <2>12, <2>13
<1>3. CASE /\ c = Unhandled /\ panic' = "unhandled command"
           /\ UNCHANGED <<stat, modeVars, cmdVars, pending_params, results,
                          readVars, irqVars>>
  <2>11. StatusType' /\ ReaderType'
    BY <1>3 DEF Panic, StatusType, ReaderType
  <2>12. CommandType' /\ QueueType' /\ IrqType'
    BY <1>3 DEF CommandType, QueueType, IrqType
  <2>13. CommandIsArmed' /\ QueuedCommandHasWaker' /\ UnreachableArms'
    BY <1>3 DEF CommandIsArmed, QueuedCommandHasWaker,
           UnreachableArms
  <2> QED
    BY <2>11, <2>12, <2>13
<1> QED
  BY <1>1, <1>2, <1>3 DEF BeginCommand

\* A process that dies leaves its state as it was.
LEMMA DieStep == ASSUME IInv, NEW why \in Panic, Die(why) PROVE IInv'
<1> USE DEF IInv, TypeOK, Die, cmdVars, queueVars, modeVars, readVars, irqVars
<1>11. StatusType' /\ ReaderType'
  BY DEF StatusType, ReaderType
<1>12. CommandType' /\ QueueType' /\ IrqType'
  BY DEF CommandType, QueueType, IrqType
<1>13. CommandIsArmed' /\ QueuedCommandHasWaker' /\ UnreachableArms'
  BY DEF CommandIsArmed, QueuedCommandHasWaker,
         UnreachableArms
<1> QED
  BY <1>11, <1>12, <1>13

\* Every store and load of the guest preserves the invariant.
LEMMA GuestStep == ASSUME IInv, Guest PROVE IInv'
<1> USE DEF IInv, TypeOK, cmdVars, queueVars, modeVars, readVars, irqVars
<1>1. ASSUME NEW c \in Opcodes, WriteCommand(c) PROVE IInv'
  <2>1. c \in Command \cup {Unhandled}
    BY GuestAssumption DEF GuestAssumption
  <2>2. CASE cmd = None /\ irq_pending = {}
    <3>1. BeginCommand(c, pending_params) /\ pending_cmd' = None
      BY <1>1, <2>2 DEF WriteCommand, QueuedCommandHasWaker
    <3>2. pending_params \in Seq(0..255)
      BY DEF QueueType
    <3> QED
      BY <2>1, <2>2, <3>1, <3>2, BeginCommandStep
  <2>3. CASE ~(cmd = None /\ irq_pending = {})
    <3>11. StatusType' /\ ReaderType'
      BY <1>1, <2>1, <2>3 DEF WriteCommand, StatusType, ReaderType
    <3>12. CommandType' /\ QueueType' /\ IrqType'
      BY <1>1, <2>1, <2>3 DEF WriteCommand, CommandType, QueueType, IrqType
    <3>13. CommandIsArmed' /\ QueuedCommandHasWaker' /\ UnreachableArms'
      BY <1>1, <2>1, <2>3 DEF WriteCommand, CommandIsArmed, QueuedCommandHasWaker,
             UnreachableArms
    <3> QED
      BY <3>11, <3>12, <3>13
  <2> QED
    BY <2>2, <2>3
<1>2. ASSUME NEW b \in Bytes, WriteParam(b) PROVE IInv'
  <2>1. b \in 0..255 /\ FifoSize \in Nat
    BY GuestAssumption DEF GuestAssumption
  <2>2. CASE Len(pending_params) < FifoSize
    <3>1. /\ pending_params' = Append(pending_params, b)
          /\ UNCHANGED <<stat, modeVars, cmdVars, pending_cmd, results,
                         readVars, irqVars, panic>>
      BY <1>2, <2>2 DEF WriteParam
    <3>2. pending_params' \in Seq(0..255) /\ Len(pending_params') <= FifoSize
      BY <2>1, <2>2, <3>1 DEF QueueType
    <3>11. StatusType' /\ ReaderType'
      BY <3>1, <3>2 DEF StatusType, ReaderType
    <3>12. CommandType' /\ QueueType' /\ IrqType'
      BY <3>1, <3>2 DEF CommandType, QueueType, IrqType
    <3>13. CommandIsArmed' /\ QueuedCommandHasWaker' /\ UnreachableArms'
      BY <3>1, <3>2 DEF CommandIsArmed, QueuedCommandHasWaker,
             UnreachableArms
    <3> QED
      BY <3>11, <3>12, <3>13
  <2>3. CASE ~(Len(pending_params) < FifoSize)
    BY <1>2, <2>3, DieStep DEF WriteParam, Panic
  <2> QED
    BY <2>2, <2>3
<1>3. ASSUME NEW bits \in Acks, NEW clear \in BOOLEAN,
             AckInterrupt(bits, clear)
      PROVE  IInv'
  <2> DEFINE params == IF clear THEN <<>> ELSE pending_params
             left   == irq_pending \ bits
  <2>1. params \in Seq(0..255) /\ Len(params) <= FifoSize
    BY GuestAssumption DEF GuestAssumption, QueueType
  <2>2. CASE left = {} /\ cmd = None /\ pending_cmd # None
    <3>1. BeginCommand(pending_cmd, params) /\ pending_cmd' = None
      BY <1>3, <2>2 DEF AckInterrupt
    <3>2. pending_cmd \in Command \cup {Unhandled}
      BY <2>2 DEF QueueType
    <3> QED
      BY <2>1, <2>2, <3>1, <3>2, BeginCommandStep
  <2>3. CASE ~(left = {} /\ cmd = None /\ pending_cmd # None)
    <3>1. /\ irq_pending' = left /\ pending_params' = params
          /\ UNCHANGED <<stat, modeVars, cmdVars, pending_cmd, results,
                         readVars, irq_mask, irqctl, panic>>
      BY <1>3, <2>3 DEF AckInterrupt
    <3>11. StatusType' /\ ReaderType'
      BY <2>1, <2>3, <3>1 DEF StatusType, ReaderType
    <3>12. CommandType' /\ QueueType' /\ IrqType'
      BY <2>1, <2>3, <3>1 DEF CommandType, QueueType, IrqType
    <3>13. CommandIsArmed' /\ QueuedCommandHasWaker' /\ UnreachableArms'
      BY <2>1, <2>3, <3>1 DEF CommandIsArmed, QueuedCommandHasWaker,
             UnreachableArms
    <3> QED
      BY <3>11, <3>12, <3>13
  <2> QED
    BY <2>2, <2>3
<1>4. ASSUME NEW m \in Masks, WriteIrqMask(m) PROVE IInv'
  <2>11. StatusType' /\ ReaderType'
    BY <1>4 DEF WriteIrqMask, StatusType, ReaderType
  <2>12. CommandType' /\ QueueType' /\ IrqType'
    BY <1>4, GuestAssumption DEF WriteIrqMask, GuestAssumption, IntBit, CommandType, QueueType, IrqType
  <2>13. CommandIsArmed' /\ QueuedCommandHasWaker' /\ UnreachableArms'
    BY <1>4 DEF WriteIrqMask, CommandIsArmed, QueuedCommandHasWaker,
           UnreachableArms
  <2> QED
    BY <2>11, <2>12, <2>13
<1>5. CASE ReadResult
  <2>11. StatusType' /\ ReaderType'
    BY <1>5 DEF ReadResult, StatusType, ReaderType
  <2>12. CommandType' /\ QueueType' /\ IrqType'
    BY <1>5 DEF ReadResult, CommandType, QueueType, IrqType
  <2>13. CommandIsArmed' /\ QueuedCommandHasWaker' /\ UnreachableArms'
    BY <1>5 DEF ReadResult, CommandIsArmed, QueuedCommandHasWaker,
           UnreachableArms
  <2> QED
    BY <2>11, <2>12, <2>13
<1>6. CASE ReadData
  <2>11. StatusType' /\ ReaderType'
    BY <1>6 DEF ReadData, StatusType, ReaderType
  <2>12. CommandType' /\ QueueType' /\ IrqType'
    BY <1>6 DEF ReadData, CommandType, QueueType, IrqType
  <2>13. CommandIsArmed' /\ QueuedCommandHasWaker' /\ UnreachableArms'
    BY <1>6 DEF ReadData, CommandIsArmed, QueuedCommandHasWaker,
           UnreachableArms
  <2> QED
    BY <2>11, <2>12, <2>13
<1>7. CASE StoreIrqCtl
  <2>1. irqctl' \in IrqCtl
    BY <1>7, StoreType, GuestAssumption
    DEF StoreIrqCtl, GuestAssumption, IrqType
  <2>11. StatusType' /\ ReaderType'
    BY <1>7, <2>1 DEF StoreIrqCtl, StatusType, ReaderType
  <2>12. CommandType' /\ QueueType' /\ IrqType'
    BY <1>7, <2>1 DEF StoreIrqCtl, CommandType, QueueType, IrqType
  <2>13. CommandIsArmed' /\ QueuedCommandHasWaker' /\ UnreachableArms'
    BY <1>7, <2>1 DEF StoreIrqCtl, CommandIsArmed, QueuedCommandHasWaker,
           UnreachableArms
  <2> QED
    BY <2>11, <2>12, <2>13
<1> QED
  BY <1>1, <1>2, <1>3, <1>4, <1>5, <1>6, <1>7 DEF Guest

\* A last response ends the command; what is left to show is that the step
\* kept the types of the registers it names and the reader consistent.
LEMMA AnswerStep ==
  ASSUME IInv, NEW tag \in Tag, NEW n \in 1..5, Answer(tag, n),
         UNCHANGED queueVars,
         StatusType', ReaderType', read_timer' => read_state' # "Idle"
  PROVE  IInv'
<1>1. irq_pending' \subseteq IntBit /\ irq_pending' # {} /\ irqctl' \in IrqCtl
      /\ irq_mask' = irq_mask
  BY SetInterruptType DEF Answer, IInv
<1>2. cmd' = None /\ cmd_state' = "RecvCmd" /\ cmd_params' = <<>>
      /\ cmd_timer' = FALSE /\ results' = <<tag>>
  BY DEF Answer, FinishCommand
<1>3. CommandType' /\ QueueType' /\ IrqType'
  <2>1. results' \in Seq(Tag) /\ cmd_params' \in Seq(0..255)
    BY <1>2
  <2>2. CommandType'
    BY <1>2, <2>1 DEF CommandType
  <2>3. QueueType' /\ IrqType'
    BY <1>1 DEF IInv, TypeOK, QueueType, IrqType, queueVars
  <2> QED
    BY <2>2, <2>3
<1>4. CommandIsArmed' /\ QueuedCommandHasWaker' /\ UnreachableArms'
  BY <1>1, <1>2 DEF CommandIsArmed, QueuedCommandHasWaker, UnreachableArms
<1> QED
  BY <1>3, <1>4 DEF IInv, TypeOK

\* A first response leaves a command with two phases to its second one.
LEMMA AcknowledgeStep ==
  ASSUME IInv, cmd \in TwoPhase, Acknowledge,
         cmd = "seekl" => seekloc # NoSector,
         stat' \subseteq StatBit,
         UNCHANGED <<queueVars, modeVars, readVars, panic>>
  PROVE  IInv'
<1>1. irq_pending' \subseteq IntBit /\ irq_pending' # {} /\ irqctl' \in IrqCtl
      /\ irq_mask' = irq_mask
  BY SetInterruptType DEF Acknowledge, IInv
<1>2. cmd' = cmd /\ cmd_params' = cmd_params /\ cmd_state' = "Resp2"
      /\ cmd_timer' = TRUE /\ results' = <<"stat">>
  BY DEF Acknowledge
<1>3. CommandType' /\ QueueType' /\ IrqType'
  <2>1. CommandType'
    BY <1>2 DEF IInv, TypeOK, CommandType, Tag
  <2>2. QueueType' /\ IrqType'
    BY <1>1 DEF IInv, TypeOK, QueueType, IrqType, queueVars
  <2> QED
    BY <2>1, <2>2
<1>4. StatusType' /\ ReaderType'
  BY DEF IInv, TypeOK, StatusType, ReaderType, modeVars, readVars
<1>5. cmd # None
  BY DEF TwoPhase, None
<1>6. CommandIsArmed' /\ QueuedCommandHasWaker' /\ UnreachableArms'
  BY <1>1, <1>2, <1>5 DEF IInv, CommandIsArmed, QueuedCommandHasWaker,
                          UnreachableArms, readVars
<1> QED
  BY <1>3, <1>4, <1>6 DEF IInv, TypeOK

\* A response of a command with parameters it rejects, or that touches
\* nothing but the command and the interrupt.
LEMMA PlainAnswerStep ==
  ASSUME IInv, NEW tag \in Tag, NEW n \in 1..5, Answer(tag, n),
         UNCHANGED <<stat, queueVars, modeVars, readVars, panic>>
  PROVE  IInv'
<1>1. StatusType' /\ ReaderType'
  BY DEF IInv, TypeOK, StatusType, ReaderType, modeVars, readVars
<1>2. read_timer' => read_state' # "Idle"
  BY DEF IInv, UnreachableArms, readVars
<1>3. UNCHANGED queueVars
  OBVIOUS
<1> QED
  BY <1>1, <1>2, <1>3, AnswerStep

LEMMA ThreeBytes ==
  \A s \in Seq(0..255) :
     Len(s) = 3 => s[1] \in 0..255 /\ s[2] \in 0..255 /\ s[3] \in 0..255
<1> SUFFICES ASSUME NEW s \in Seq(0..255), Len(s) = 3
             PROVE  s[1] \in 0..255 /\ s[2] \in 0..255 /\ s[3] \in 0..255
  OBVIOUS
<1>1. 1 \in 1..Len(s) /\ 2 \in 1..Len(s) /\ 3 \in 1..Len(s)
  OBVIOUS
<1>2. \A i \in 1..Len(s) : s[i] \in 0..255
  BY ElementOfSeq
<1> QED
  BY <1>1, <1>2

\* The first response of every command preserves the invariant.
LEMMA Resp1Step ==
  ASSUME IInv, cmd_timer, Resp1, UNCHANGED queueVars
  PROVE  IInv'
<1> USE DEF IInv, TypeOK, cmdVars, queueVars, modeVars, readVars, irqVars
<1>1. CASE RejectCount
  BY <1>1, PlainAnswerStep DEF RejectCount, Tag
<1>2. CASE Resp1Plain
  <2>1. PICK tag \in {"stat", "info", "error"}, n \in {3, 5} : Answer(tag, n)
    BY <1>2 DEF Resp1Plain
  <2>2. tag \in Tag /\ n \in 1..5
    BY DEF Tag
  <2>3. UNCHANGED <<stat, queueVars, modeVars, readVars, panic>>
    BY <1>2 DEF Resp1Plain
  <2> QED
    BY <2>1, <2>2, <2>3, PlainAnswerStep
<1>3. CASE Resp1Test
  <2>1. CASE cmd_params = <<32>>
    BY <1>3, <2>1, PlainAnswerStep DEF Resp1Test, Tag
  <2>2. CASE cmd_params # <<32>>
    BY <1>3, <2>2, DieStep DEF Resp1Test, Panic
  <2> QED
    BY <2>1, <2>2
<1>4. CASE Resp1Setloc
  <2>1. CASE \A i \in 1..3 : IsBcd(cmd_params[i])
    <3>1. Len(cmd_params) = 3
      BY <1>4 DEF Resp1Setloc, WrongCount, ParamCount
    <3>2. cmd_params[1] \in 0..255 /\ cmd_params[2] \in 0..255
          /\ cmd_params[3] \in 0..255
      BY <3>1, ThreeBytes DEF CommandType
    <3>3. /\ seekloc' = PosToSectors(FromBcd(cmd_params[1]),
                                     FromBcd(cmd_params[2]),
                                     FromBcd(cmd_params[3]))
          /\ Answer("stat", 3)
          /\ UNCHANGED <<stat, modeVars, head, data, read_state, read_timer,
                         panic>>
      BY <1>4, <2>1 DEF Resp1Setloc
    <3>5. seekloc' \in Nat
      BY <3>2, <3>3, PositionType
    <3>4. StatusType' /\ ReaderType'
      BY <3>3, <3>5 DEF StatusType, ReaderType, Location
    <3> QED
      BY <3>3, <3>4, AnswerStep DEF UnreachableArms, Tag
  <2>2. CASE ~\A i \in 1..3 : IsBcd(cmd_params[i])
    BY <1>4, <2>2, DieStep DEF Resp1Setloc, Panic
  <2> QED
    BY <2>1, <2>2
<1>5. CASE Resp1Setmode
  <2>1. Answer("stat", 3) /\ UNCHANGED <<stat, readVars, panic>>
        /\ mode' \subseteq 0..7 /\ xa_adpcm' \in BOOLEAN
    BY <1>5 DEF Resp1Setmode, ModeBits
  <2>2. StatusType' /\ ReaderType'
    BY <2>1 DEF StatusType, ReaderType
  <2> QED
    BY <2>1, <2>2, AnswerStep DEF UnreachableArms, Tag
<1>6. CASE Resp1Readn
  <2>1. CASE XaAdpcm \in mode /\ ~Disk
    BY <1>6, <2>1, DieStep DEF Resp1Readn, Panic
  <2>2. CASE ~(XaAdpcm \in mode /\ ~Disk)
    <3>1. Answer("stat", 3) /\ read_state' = "Reading" /\ read_timer' = TRUE
          /\ stat' \subseteq StatBit
          /\ UNCHANGED <<modeVars, seekloc, head, data, panic>>
      BY <1>6, <2>2 DEF Resp1Readn, StatusType, StatBit
    <3>2. StatusType' /\ ReaderType'
      BY <3>1 DEF StatusType, ReaderType
    <3> QED
      BY <3>1, <3>2, AnswerStep DEF Tag
  <2> QED
    BY <2>1, <2>2
<1>7. CASE Resp1Play
  <2> DEFINE byte   == Last(cmd_params)
             target == IF cmd_params = <<>> THEN seekloc
                       ELSE TrackByNumber(FromBcd(byte)).start
             bad    == cmd_params # <<>>
                       /\ ~(IsBcd(byte) /\ Disk /\ FromBcd(byte) \in TrackNumbers)
  <2>1. CASE bad
    BY <1>7, <2>1, DieStep DEF Resp1Play, Panic
  <2>2. CASE ~bad
    <3>1. target \in Location \cup {NoSector}
      BY <2>2, TrackStart DEF ReaderType, Location
    <3>2. /\ seekloc' = target /\ read_state' = "Playing" /\ read_timer' = TRUE
          /\ stat' \subseteq StatBit
          /\ UNCHANGED <<modeVars, head, data, panic>>
      BY <1>7, <2>2 DEF Resp1Play, StatusType, StatBit
    <3>3. /\ SetInterrupt(3) /\ cmd' = None /\ cmd_state' = "RecvCmd"
          /\ cmd_params' = <<>> /\ cmd_timer' = TRUE /\ results' = <<"stat">>
      BY <1>7, <2>2 DEF Resp1Play, FinishCommand
    <3>4. irq_pending' \subseteq IntBit /\ irq_pending' # {}
          /\ irqctl' \in IrqCtl /\ irq_mask' = irq_mask
      BY <3>3, SetInterruptType
    <3>5. StatusType' /\ ReaderType'
      BY <3>1, <3>2 DEF StatusType, ReaderType
    <3>6. CommandType' /\ QueueType' /\ IrqType'
      BY <3>3, <3>4 DEF CommandType, QueueType, IrqType, Tag
    <3>7. CommandIsArmed' /\ QueuedCommandHasWaker' /\ UnreachableArms'
      BY <3>2, <3>3, <3>4
      DEF CommandIsArmed, QueuedCommandHasWaker, UnreachableArms
    <3> QED
      BY <3>5, <3>6, <3>7
  <2> QED
    BY <2>1, <2>2
<1>8. CASE Resp1Seekl
  <2>1. CASE seekloc = NoSector
    BY <1>8, <2>1, DieStep DEF Resp1Seekl, Panic
  <2>2. CASE seekloc # NoSector
    BY <1>8, <2>2, AcknowledgeStep DEF Resp1Seekl, TwoPhase, StatusType
  <2> QED
    BY <2>1, <2>2
<1>9. CASE Resp1Stop
  BY <1>9, AcknowledgeStep DEF Resp1Stop, TwoPhase, StatusType
<1>10. CASE Resp1TwoPhase
  BY <1>10, AcknowledgeStep DEF Resp1TwoPhase, TwoPhase, StatusType
<1> QED
  BY <1>1, <1>2, <1>3, <1>4, <1>5, <1>6, <1>7, <1>8, <1>9, <1>10 DEF Resp1

\* The second response of every command preserves the invariant.
LEMMA Resp2Step ==
  ASSUME IInv, cmd_state = "Resp2", Resp2, UNCHANGED queueVars
  PROVE  IInv'
<1> USE DEF IInv, TypeOK, cmdVars, queueVars, modeVars, readVars, irqVars
<1>1. CASE Resp2Seekl
  <2>1. CASE Disk
    <3>1. /\ Answer("stat", 2) /\ head' = seekloc /\ seekloc' = NoSector
          /\ stat' = stat \ {"seek"}
          /\ UNCHANGED <<modeVars, data, read_state, read_timer, panic>>
      BY <1>1, <2>1 DEF Resp2Seekl
    <3>2. seekloc \in Nat
      BY <1>1 DEF Resp2Seekl, UnreachableArms, ReaderType, Location
    <3>3. StatusType' /\ ReaderType'
      BY <3>1, <3>2 DEF StatusType, ReaderType
    <3> QED
      BY <3>1, <3>3, AnswerStep DEF UnreachableArms, Tag
  <2>2. CASE ~Disk
    BY <1>1, <2>2, DieStep DEF Resp2Seekl, Panic
  <2> QED
    BY <2>1, <2>2
<1>2. ASSUME \/ Resp2Pause
             \/ Resp2Init
      PROVE  IInv'
  <2>1. /\ Answer("stat", 2) /\ ResetReadState
        /\ stat' \subseteq StatBit /\ mode' \subseteq 0..7
        /\ UNCHANGED <<xa_adpcm, seekloc, head, panic>>
    BY <1>2 DEF Resp2Pause, Resp2Init, AfterReset, ModeBits, StatusType, StatBit
  <2>2. StatusType' /\ ReaderType'
    BY <2>1 DEF ResetReadState, StatusType, ReaderType
  <2> QED
    BY <2>1, <2>2, AnswerStep DEF ResetReadState, Tag
<1>3. CASE Resp2Stop
  <2>1. /\ Answer("stat", 2) /\ stat' \subseteq StatBit
        /\ UNCHANGED <<modeVars, readVars, panic>>
    BY <1>3 DEF Resp2Stop, StatusType
  <2>2. StatusType' /\ ReaderType'
    BY <2>1 DEF StatusType, ReaderType
  <2> QED
    BY <2>1, <2>2, AnswerStep DEF UnreachableArms, Tag
<1>4. CASE Resp2Report
  <2>1. PICK tag \in {"stat", "info"}, n \in {2, 5} : Answer(tag, n)
    BY <1>4 DEF Resp2Report
  <2>2. UNCHANGED <<stat, queueVars, modeVars, readVars, panic>>
    BY <1>4 DEF Resp2Report
  <2> QED
    BY <2>1, <2>2, PlainAnswerStep DEF Tag
<1> QED
  BY <1>1, <1>2, <1>3, <1>4 DEF Resp2

\* A step of the reader leaves the command in progress alone, and the queued
\* command with it.
LEMMA StreamStep ==
  ASSUME IInv, Streaming, Stream
  PROVE  IInv'
<1> USE DEF IInv, TypeOK, cmdVars, queueVars, modeVars, readVars, irqVars
<1>1. CASE ~Disk
  BY <1>1, DieStep DEF Stream, Panic
<1>2. cmd = None /\ pending_cmd = None
  BY DEF Streaming, CommandIsArmed, QueuedCommandHasWaker
<1>3. ASSUME UNCHANGED <<cmdVars, queueVars>>, results' \in Seq(Tag),
             StatusType', ReaderType', IrqType',
             read_timer' => read_state' # "Idle"
      PROVE  IInv'
  <2>1. CommandType' /\ QueueType'
    BY <1>3 DEF CommandType, QueueType
  <2>2. CommandIsArmed' /\ QueuedCommandHasWaker' /\ UnreachableArms'
    BY <1>2, <1>3
    DEF CommandIsArmed, QueuedCommandHasWaker, UnreachableArms
  <2> QED
    BY <1>3, <2>1, <2>2
<1>4. \A tag \in Tag : Append(results, tag) \in Seq(Tag) /\ <<tag>> \in Seq(Tag)
  BY DEF CommandType
<1>5. \A n \in 1..5 : SetInterrupt(n) => IrqType'
  BY SetInterruptType DEF IrqType
<1>6. CASE StreamSeek
  <2>1. StatusType' /\ ReaderType'
    BY <1>6 DEF StreamSeek, StatusType, ReaderType, Location
  <2>2. results' \in Seq(Tag) /\ IrqType' /\ UNCHANGED <<cmdVars, queueVars>>
    BY <1>6 DEF StreamSeek, CommandType, IrqType
  <2> QED
    BY <1>3, <1>6, <2>1, <2>2 DEF StreamSeek, UnreachableArms
<1>7. CASE StreamOffDisc
  <2>1. StatusType' /\ ReaderType'
    BY <1>7 DEF StreamOffDisc, ResetReadState, AfterReset, StatusType, ReaderType
  <2>2. results' \in Seq(Tag) /\ IrqType' /\ UNCHANGED <<cmdVars, queueVars>>
    BY <1>4, <1>7 DEF StreamOffDisc, IrqType, Tag
  <2> QED
    BY <1>3, <1>7, <2>1, <2>2 DEF StreamOffDisc, ResetReadState
<1>8. CASE ReadSector
  <2>1. StatusType' /\ ReaderType'
    BY <1>8 DEF ReadSector, StatusType, StatBit, ReaderType
  <2>2. UNCHANGED <<cmdVars, queueVars, read_state, read_timer>>
    BY <1>8 DEF ReadSector
  <2>3. results' \in Seq(Tag) /\ IrqType'
    <3>1. CASE xa_adpcm /\ head \in XaSectors
      <4>1. results' = <<>> /\ UNCHANGED irqVars
        BY <1>8, <3>1 DEF ReadSector
      <4> QED
        BY <4>1 DEF IrqType
    <3>2. CASE ~(xa_adpcm /\ head \in XaSectors)
      <4>1. results' = <<"data">> /\ SetInterrupt(1)
        BY <1>8, <3>2 DEF ReadSector
      <4> QED
        BY <1>4, <1>5, <4>1 DEF Tag
    <3> QED
      BY <3>1, <3>2
  <2> QED
    BY <1>3, <2>1, <2>2, <2>3 DEF UnreachableArms
<1>9. CASE PlayAutoPause
  <2>1. StatusType' /\ ReaderType'
    BY <1>9 DEF PlayAutoPause, ResetReadState, AfterReset, StatusType, ReaderType
  <2>2. results' \in Seq(Tag) /\ IrqType' /\ UNCHANGED <<cmdVars, queueVars>>
    BY <1>4, <1>5, <1>9 DEF PlayAutoPause, Tag
  <2> QED
    BY <1>3, <1>9, <2>1, <2>2 DEF PlayAutoPause, ResetReadState
<1>10. CASE PlaySector
  <2>1. StatusType' /\ ReaderType'
    BY <1>10 DEF PlaySector, StatusType, StatBit, ReaderType
  <2>2. UNCHANGED <<cmdVars, queueVars, read_state, read_timer>>
    BY <1>10 DEF PlaySector
  <2>3. results' \in Seq(Tag) /\ IrqType'
    <3>1. CASE Report \in mode /\ (head' % 75) % ReportFrames = 0
      <4>1. results' = <<"report">> /\ SetInterrupt(1)
        BY <1>10, <3>1 DEF PlaySector
      <4> QED
        BY <1>4, <1>5, <4>1 DEF Tag
    <3>2. CASE ~(Report \in mode /\ (head' % 75) % ReportFrames = 0)
      BY <1>10, <3>2 DEF PlaySector, CommandType, IrqType
    <3> QED
      BY <3>1, <3>2
  <2> QED
    BY <1>3, <2>1, <2>2, <2>3 DEF UnreachableArms
<1> QED
  BY <1>1, <1>6, <1>7, <1>8, <1>9, <1>10 DEF Stream

\* CDRom::tick preserves the invariant.
LEMMA TickStep == ASSUME IInv, Tick PROVE IInv'
<1>1. CASE TickCommand
  <2>1. cmd_timer /\ irq_pending = {}
    BY <1>1 DEF TickCommand
  <2>2. CASE /\ cmd = None /\ cmd_timer' = FALSE
             /\ UNCHANGED <<stat, modeVars, cmd, cmd_state, cmd_params,
                            queueVars, results, readVars, irqVars, panic>>
    <3> USE DEF queueVars, modeVars, readVars, irqVars
    <3>1. StatusType' /\ ReaderType' /\ IrqType'
      BY <2>2 DEF IInv, TypeOK, StatusType, ReaderType, IrqType
    <3>2. CommandType' /\ QueueType'
      BY <2>2 DEF IInv, TypeOK, CommandType, QueueType
    <3>3. CommandIsArmed' /\ QueuedCommandHasWaker' /\ UnreachableArms'
      BY <2>2 DEF IInv, CommandIsArmed, QueuedCommandHasWaker, UnreachableArms
    <3> QED
      BY <3>1, <3>2, <3>3 DEF IInv, TypeOK
  <2>3. CASE Resp1 /\ UNCHANGED queueVars
    BY <2>1, <2>3, Resp1Step
  <2>4. CASE cmd_state = "Resp2" /\ Resp2 /\ UNCHANGED queueVars
    BY <2>4, Resp2Step
  <2> QED
    BY <1>1, <2>2, <2>3, <2>4 DEF TickCommand
<1>2. CASE TickStream
  BY <1>2, StreamStep DEF TickStream
<1> QED
  BY <1>1, <1>2 DEF Tick

-----------------------------------------------------------------------------
(* The theorems.                                                           *)

LEMMA InitIInv == Init => IInv
<1> SUFFICES ASSUME Init PROVE IInv
  OBVIOUS
<1> USE DEF Init
<1>1. StatusType /\ ReaderType
  BY DEF StatusType, ReaderType, Panic
<1>2. CommandType
  <2>1. cmd_params \in Seq(0..255) /\ results \in Seq(Tag)
    OBVIOUS
  <2> QED
    BY <2>1 DEF CommandType
<1>3. QueueType /\ IrqType
  BY GuestAssumption
  DEF GuestAssumption, QueueType, IrqType, IrqReset, IrqCtl
<1>4. CommandIsArmed /\ QueuedCommandHasWaker /\ UnreachableArms
  BY DEF CommandIsArmed, QueuedCommandHasWaker, UnreachableArms
<1> QED
  BY <1>1, <1>2, <1>3, <1>4 DEF IInv, TypeOK

LEMMA StutterIInv == ASSUME IInv, UNCHANGED vars PROVE IInv'
<1> USE DEF IInv, TypeOK, vars, cmdVars, queueVars, modeVars, readVars, irqVars
<1>1. StatusType' /\ ReaderType'
  BY DEF StatusType, ReaderType
<1>2. CommandType' /\ QueueType' /\ IrqType'
  BY DEF CommandType, QueueType, IrqType
<1>3. CommandIsArmed' /\ QueuedCommandHasWaker' /\ UnreachableArms'
  BY DEF CommandIsArmed, QueuedCommandHasWaker, UnreachableArms
<1> QED
  BY <1>1, <1>2, <1>3

\* IInv is inductive: it holds at reset and every step of the guest or of the
\* drive preserves it.
LEMMA NextIInv == IInv /\ [Next]_vars => IInv'
  BY GuestStep, TickStep, StutterIInv DEF Next

\* Whatever the guest writes and acknowledges, and on every disc, the drive
\* keeps IInv.
THEOREM Invariance == Spec => []IInv
  BY InitIInv, NextIInv, PTL DEF Spec

\* The registers, the queue and the FIFO keep their types and bounds.
THEOREM TypeCorrect == Spec => []TypeOK
<1>1. IInv => TypeOK
  BY DEF IInv
<1> QED
  BY Invariance, <1>1, PTL

\* No command in progress is ever without a running delay.
THEOREM Armed == Spec => []CommandIsArmed
<1>1. IInv => CommandIsArmed
  BY DEF IInv
<1> QED
  BY Invariance, <1>1, PTL

\* No queued command is ever forgotten.
THEOREM QueuedHasWaker == Spec => []QueuedCommandHasWaker
<1>1. IInv => QueuedCommandHasWaker
  BY DEF IInv
<1> QED
  BY Invariance, <1>1, PTL

\* tick never reaches one of its unreachable!() arms.
THEOREM NoUnreachableArm == Spec => []UnreachableArms
<1>1. IInv => UnreachableArms
  BY DEF IInv
<1> QED
  BY Invariance, <1>1, PTL

-----------------------------------------------------------------------------
(* The status bits: an invariant that is inductive on its own.             *)

LEMMA IdleBegin ==
  ASSUME IdleShowsNoStream, NEW c, NEW params, BeginCommand(c, params)
  PROVE  IdleShowsNoStream'
<1>1. CASE ArmCommand(c, params) /\ UNCHANGED readVars
  BY <1>1 DEF ArmCommand, RecvBits, readVars, IdleShowsNoStream
<1>2. CASE UNCHANGED <<stat, readVars>>
  BY <1>2 DEF readVars, IdleShowsNoStream
<1>3. BeginCommand(c, params) =>
         \/ ArmCommand(c, params) /\ UNCHANGED readVars
         \/ UNCHANGED <<stat, readVars>>
  BY DEF BeginCommand, AnswerGettn, readVars
<1> QED
  BY <1>1, <1>2, <1>3

\* Every action that clears read_state clears the bits; the ones that set
\* them leave read_state at Reading or Playing.
LEMMA IdleStep == ASSUME IdleShowsNoStream, [Next]_vars PROVE IdleShowsNoStream'
<1> USE DEF readVars
<1>1. ASSUME UNCHANGED <<stat, read_state>> PROVE IdleShowsNoStream'
  BY <1>1 DEF IdleShowsNoStream
<1>2. CASE Guest
  <2>1. ASSUME NEW c \in Opcodes, WriteCommand(c) PROVE IdleShowsNoStream'
    BY <1>1, <2>1, IdleBegin DEF WriteCommand
  <2>2. ASSUME NEW bits \in Acks, NEW clear \in BOOLEAN,
               AckInterrupt(bits, clear)
        PROVE  IdleShowsNoStream'
    <3>1. \/ \E params : BeginCommand(pending_cmd, params)
          \/ UNCHANGED <<stat, read_state>>
      BY <2>2 DEF AckInterrupt
    <3> QED
      BY <1>1, <3>1, IdleBegin
  <2>3. CASE \/ \E b \in Bytes : WriteParam(b)
             \/ \E m \in Masks : WriteIrqMask(m)
             \/ ReadResult
             \/ ReadData
             \/ StoreIrqCtl
    BY <1>1, <2>3
    DEF WriteParam, Die, WriteIrqMask, ReadResult, ReadData, StoreIrqCtl
  <2> QED
    BY <1>2, <2>1, <2>2, <2>3 DEF Guest
<1>3. CASE Resp1
  <2>1. CASE \/ RejectCount \/ Resp1Plain \/ Resp1Test \/ Resp1Setloc
             \/ Resp1Setmode \/ Resp1Seekl \/ Resp1TwoPhase
    BY <1>1, <2>1 DEF RejectCount, Resp1Plain, Resp1Test, Resp1Setloc,
                      Resp1Setmode, Resp1Seekl, Resp1TwoPhase, Die
  <2>2. CASE Resp1Readn
    BY <1>1, <2>2 DEF Resp1Readn, Die, IdleShowsNoStream
  <2>3. CASE Resp1Play
    BY <1>1, <2>3 DEF Resp1Play, Die, IdleShowsNoStream
  <2>4. CASE Resp1Stop
    BY <2>4 DEF Resp1Stop, IdleShowsNoStream
  <2> QED
    BY <1>3, <2>1, <2>2, <2>3, <2>4 DEF Resp1
<1>4. CASE Resp2
  <2>1. CASE Resp2Seekl
    BY <1>1, <2>1 DEF Resp2Seekl, Die, IdleShowsNoStream
  <2>2. CASE Resp2Pause \/ Resp2Init
    BY <2>2 DEF Resp2Pause, Resp2Init, AfterReset, IdleShowsNoStream
  <2>3. CASE Resp2Stop
    BY <2>3 DEF Resp2Stop, IdleShowsNoStream
  <2>4. CASE Resp2Report
    BY <1>1, <2>4 DEF Resp2Report
  <2> QED
    BY <1>4, <2>1, <2>2, <2>3, <2>4 DEF Resp2
<1>5. CASE TickStream
  <2>1. CASE StreamSeek
    BY <2>1 DEF StreamSeek, IdleShowsNoStream
  <2>2. CASE StreamOffDisc
    BY <2>2 DEF StreamOffDisc, AfterReset, IdleShowsNoStream
  <2>3. CASE ReadSector
    BY <2>3 DEF ReadSector, IdleShowsNoStream
  <2>4. CASE PlayAutoPause
    BY <2>4 DEF PlayAutoPause, AfterReset, IdleShowsNoStream
  <2>5. CASE PlaySector
    BY <2>5 DEF PlaySector, IdleShowsNoStream
  <2>6. CASE Die("no disc")
    BY <1>1, <2>6 DEF Die
  <2> QED
    BY <1>5, <2>1, <2>2, <2>3, <2>4, <2>5, <2>6 DEF TickStream, Stream
<1>6. CASE TickCommand
  BY <1>1, <1>3, <1>4, <1>6 DEF TickCommand
<1>7. CASE UNCHANGED vars
  BY <1>1, <1>7 DEF vars
<1> QED
  BY <1>2, <1>5, <1>6, <1>7 DEF Next, Tick

\* The guest never sees Play or Read when nothing is being played or read.
THEOREM IdleShows == Spec => []IdleShowsNoStream
<1>1. Init => IdleShowsNoStream
  BY DEF Init, IdleShowsNoStream
<1> QED
  BY <1>1, IdleStep, PTL DEF Spec

-----------------------------------------------------------------------------
(***************************************************************************)
(* The refinement, and the action properties that follow from the shape of *)
(* the steps.  IInv supplies what the refinement needs of reachable        *)
(* states: a command in progress is past RecvCmd, so the abstract phase is *)
(* "idle" exactly when cmd is None.                                        *)
(***************************************************************************)
-----------------------------------------------------------------------------
(* Action properties.                                                      *)

\* An interrupt is replaced only when none is pending: every set_interrupt of
\* tick is behind its guard, every one of begin_command behind the test of
\* write_command or the taking of the queued command.
LEMMA StepKeepsInterrupt ==
  ASSUME [Next]_vars
  PROVE  \/ irq_pending = {}
         \/ irq_pending' \subseteq irq_pending
         \/ pending_cmd # None /\ pending_cmd' = None
<1> USE DEF irqVars
<1>1. ASSUME NEW c \in Opcodes, WriteCommand(c), irq_pending # {}
      PROVE  irq_pending' = irq_pending
  BY <1>1 DEF WriteCommand
<1>2. ASSUME NEW b \in Bytes, WriteParam(b)
      PROVE  irq_pending' = irq_pending
  BY <1>2 DEF WriteParam, Die
<1>3. ASSUME NEW bits \in Acks, NEW clear \in BOOLEAN,
             AckInterrupt(bits, clear)
      PROVE  \/ irq_pending' \subseteq irq_pending
             \/ pending_cmd # None /\ pending_cmd' = None
  BY <1>3 DEF AckInterrupt
<1>4. CASE \/ \E m \in Masks : WriteIrqMask(m)
           \/ ReadResult \/ ReadData \/ StoreIrqCtl
  BY <1>4 DEF WriteIrqMask, ReadResult, ReadData, StoreIrqCtl
<1>5. CASE Tick
  BY <1>5 DEF Tick, TickCommand, TickStream, Streaming
<1>6. CASE UNCHANGED vars
  BY <1>6 DEF vars
<1> QED
  BY <1>1, <1>2, <1>3, <1>4, <1>5, <1>6 DEF Next, Guest

\* set_interrupt never destroys an unacknowledged interrupt.
THEOREM InterruptsKept == Spec => NoInterruptOverwritten
  BY StepKeepsInterrupt, PTL DEF Spec, NoInterruptOverwritten

\* Only step_reading refills the buffer, and it posts INT1 when it does.
LEMMA StepAnnouncesSector ==
  ASSUME [Next]_vars, data' \notin {data, NoSector}
  PROVE  irq_pending = {} /\ irq_pending' = INT(1)
<1> USE DEF readVars
<1>1. ASSUME NEW c, NEW params, BeginCommand(c, params) PROVE data' = data
  BY <1>1 DEF BeginCommand
<1>2. ASSUME Guest PROVE FALSE
  BY <1>1, <1>2 DEF Guest, WriteCommand, WriteParam, Die, AckInterrupt,
                    WriteIrqMask, ReadResult, ReadData, StoreIrqCtl
<1>3. ASSUME Resp1 PROVE FALSE
  BY <1>3 DEF Resp1, RejectCount, Resp1Plain, Resp1Test, Resp1Setloc,
              Resp1Setmode, Resp1Readn, Resp1Play, Resp1Seekl, Resp1Stop,
              Resp1TwoPhase, Die
<1>4. ASSUME Resp2 PROVE FALSE
  BY <1>4 DEF Resp2, Resp2Seekl, Resp2Pause, Resp2Init, Resp2Stop,
              Resp2Report, ResetReadState, Die
<1>5. CASE TickStream
  <2>1. CASE ReadSector
    BY <1>5, <2>1 DEF TickStream, Streaming, ReadSector, SetInterrupt
  <2>2. ASSUME ~ReadSector PROVE FALSE
    BY <1>5, <2>2 DEF TickStream, Stream, Die, StreamSeek, StreamOffDisc,
                      PlayAutoPause, PlaySector, ResetReadState
  <2> QED
    BY <2>1, <2>2
<1>6. ASSUME TickCommand PROVE FALSE
  BY <1>3, <1>4, <1>6 DEF TickCommand
<1>7. ASSUME UNCHANGED vars PROVE FALSE
  BY <1>7 DEF vars
<1> QED
  BY <1>2, <1>5, <1>6, <1>7 DEF Next, Tick

\* The guest never finds a sector in the buffer whose INT1 it has not got.
THEOREM SectorsAnnounced == Spec => SectorsAreAnnounced
  BY StepAnnouncesSector, PTL DEF Spec, SectorsAreAnnounced
-----------------------------------------------------------------------------
(* The refinement.                                                         *)

\* The abstract phase before and after a step.
LEMMA PhaseValue ==
  /\ cmd_state = "RecvCmd" => Phase = "idle"
  /\ cmd_state = "Resp1" => Phase = "accepted"
  /\ cmd_state = "Resp2" => Phase = "acknowledged"
  BY DEF Phase

LEMMA PhaseNext ==
  /\ cmd_state' = "RecvCmd" => Phase' = "idle"
  /\ cmd_state' = "Resp1" => Phase' = "accepted"
  /\ cmd_state' = "Resp2" => Phase' = "acknowledged"
  /\ cmd_state' = cmd_state => Phase' = Phase
  BY DEF Phase

\* The instance's copy of the shared vocabulary is the same vocabulary.
LEMMA SameVocabulary ==
  /\ \A n \in 1..5 : Protocol!INT(n) = INT(n)
  /\ Protocol!None = None
  /\ Protocol!OnePhase = OnePhase /\ Protocol!TwoPhase = TwoPhase
  /\ Protocol!Command = Command
<1>1. \A n \in 1..5 : Protocol!INT(n) = INT(n)
  BY DEF Protocol!INT, INT, Protocol!IntBit, IntBit
<1>2. Protocol!OnePhase = OnePhase /\ Protocol!TwoPhase = TwoPhase
      /\ Protocol!None = None
  BY DEF Protocol!OnePhase, OnePhase, Protocol!TwoPhase, TwoPhase,
         Protocol!None, None
<1>3. Protocol!Command = Command
  BY <1>2 DEF Protocol!Command, Command
<1> QED
  BY <1>1, <1>2, <1>3

\* A step that leaves command and interrupt alone is an abstract stutter.
LEMMA Stutters ==
  ASSUME UNCHANGED <<cmd, cmd_state, irq_pending>>
  PROVE  UNCHANGED Protocol!vars
  BY PhaseNext DEF Protocol!vars

\* Starting a command is Accept, or AnswerAtOnce for Gettn.
LEMMA BeginRefines ==
  ASSUME IInv, NEW c \in Command \cup {Unhandled}, NEW params,
         cmd = None, BeginCommand(c, params)
  PROVE  [Protocol!Next]_Protocol!vars
<1>0. cmd_state = "RecvCmd"
  BY DEF IInv, CommandIsArmed
<1>1. CASE ArmCommand(c, params)
  <2>1. Protocol!Accept(c)
    BY <1>0, <1>1, SameVocabulary, PhaseValue, PhaseNext DEF ArmCommand, Protocol!Accept
  <2> QED
    BY <1>1, <2>1, SameVocabulary DEF ArmCommand, Protocol!Next
<1>2. CASE AnswerGettn(c)
  <2>1. PICK n \in {3, 5} : SetInterrupt(n)
    BY <1>2 DEF AnswerGettn
  <2>2. cmd' = None /\ cmd_state' = "RecvCmd"
    BY <1>2 DEF AnswerGettn, FinishCommand
  <2>3. Protocol!AnswerAtOnce(n)
    BY <1>0, <2>1, <2>2, SameVocabulary, PhaseValue, PhaseNext
    DEF SetInterrupt, Protocol!AnswerAtOnce
  <2> QED
    BY <2>3 DEF Protocol!Next
<1>3. CASE UNCHANGED <<cmdVars, irqVars>>
  BY <1>3, Stutters DEF cmdVars, irqVars
<1> QED
  BY <1>1, <1>2, <1>3 DEF BeginCommand

LEMMA GuestRefines ==
  ASSUME IInv, Guest
  PROVE  [Protocol!Next]_Protocol!vars
<1>1. ASSUME NEW c \in Opcodes, WriteCommand(c)
      PROVE  [Protocol!Next]_Protocol!vars
  <2>1. c \in Command \cup {Unhandled}
    BY GuestAssumption DEF GuestAssumption
  <2>2. CASE cmd = None /\ irq_pending = {}
    BY <1>1, <2>1, <2>2, BeginRefines DEF WriteCommand
  <2>3. CASE ~(cmd = None /\ irq_pending = {})
    BY <1>1, <2>3, Stutters DEF WriteCommand, cmdVars, irqVars
  <2> QED
    BY <2>2, <2>3
<1>2. ASSUME NEW bits \in Acks, NEW clear \in BOOLEAN,
             AckInterrupt(bits, clear)
      PROVE  [Protocol!Next]_Protocol!vars
  <2> DEFINE params == IF clear THEN <<>> ELSE pending_params
             left   == irq_pending \ bits
  <2>1. CASE left = {} /\ cmd = None /\ pending_cmd # None
    <3>1. BeginCommand(pending_cmd, params)
      BY <1>2, <2>1 DEF AckInterrupt
    <3>2. pending_cmd \in Command \cup {Unhandled}
      BY <2>1 DEF IInv, TypeOK, QueueType
    <3> QED
      BY <2>1, <3>1, <3>2, BeginRefines
  <2>2. CASE ~(left = {} /\ cmd = None /\ pending_cmd # None)
    <3>1. irq_pending' \subseteq irq_pending /\ UNCHANGED cmdVars
      BY <1>2, <2>2 DEF AckInterrupt
    <3>2. Protocol!GuestAcknowledges
      BY <3>1, PhaseNext DEF cmdVars, Protocol!GuestAcknowledges
    <3> QED
      BY <3>2 DEF Protocol!Next
  <2> QED
    BY <2>1, <2>2
<1>3. ASSUME \/ \E b \in Bytes : WriteParam(b)
             \/ \E m \in Masks : WriteIrqMask(m)
             \/ ReadResult
             \/ ReadData
             \/ StoreIrqCtl
      PROVE  [Protocol!Next]_Protocol!vars
  BY <1>3, Stutters
  DEF WriteParam, Die, WriteIrqMask, ReadResult, ReadData, StoreIrqCtl,
      cmdVars, irqVars
<1> QED
  BY <1>1, <1>2, <1>3 DEF Guest

\* A last response is Answer after RecvCmd and Complete after INT3.
LEMMA AnswerRefines ==
  ASSUME NEW tag, NEW n \in 1..5, Answer(tag, n), irq_pending = {},
         \/ cmd_state = "Resp1" /\ cmd \in OnePhase /\ n \in {3, 5}
         \/ cmd_state = "Resp2" /\ n \in {2, 5} /\ (n = 5 => cmd = "getid")
  PROVE  Protocol!Next
<1>1. cmd' = None /\ cmd_state' = "RecvCmd" /\ irq_pending' = INT(n)
  BY DEF Answer, FinishCommand, SetInterrupt
<1>2. CASE cmd_state = "Resp1" /\ cmd \in OnePhase /\ n \in {3, 5}
  <2>1. Protocol!Answer(n)
    BY <1>1, <1>2, SameVocabulary, PhaseValue, PhaseNext DEF Protocol!Answer
  <2> QED
    BY <1>2, <2>1 DEF Protocol!Next
<1>3. CASE cmd_state = "Resp2" /\ n \in {2, 5} /\ (n = 5 => cmd = "getid")
  <2>1. Protocol!Complete(n)
    BY <1>1, <1>3, SameVocabulary, PhaseValue, PhaseNext DEF Protocol!Complete
  <2> QED
    BY <1>3, <2>1 DEF Protocol!Next
<1> QED
  BY <1>2, <1>3

LEMMA AcknowledgeRefines ==
  ASSUME Acknowledge, irq_pending = {}, cmd_state = "Resp1", cmd \in TwoPhase
  PROVE  Protocol!Next
<1>1. cmd' = cmd /\ cmd_state' = "Resp2" /\ irq_pending' = INT(3)
  BY DEF Acknowledge, SetInterrupt
<1>2. Protocol!Acknowledge
  BY <1>1, SameVocabulary, PhaseValue, PhaseNext DEF Protocol!Acknowledge
<1> QED
  BY <1>2 DEF Protocol!Next

LEMMA DieRefines ==
  ASSUME NEW why, Die(why) PROVE UNCHANGED Protocol!vars
  BY Stutters DEF Die, cmdVars, irqVars

\* One step of the command in progress is one abstract step, or none if the
\* process dies.
LEMMA Resp1Refines ==
  ASSUME IInv, Resp1, cmd_state = "Resp1", irq_pending = {}
  PROVE  Protocol!Next \/ UNCHANGED Protocol!vars
<1>1. CASE RejectCount
  BY <1>1, AnswerRefines DEF RejectCount, WrongCount, ParamCount, OnePhase
<1>2. CASE Resp1Plain
  <2>1. PICK tag \in {"stat", "info", "error"}, n \in {3, 5} : Answer(tag, n)
    BY <1>2 DEF Resp1Plain
  <2> QED
    BY <1>2, <2>1, AnswerRefines DEF Resp1Plain, OnePhase
<1>3. CASE Resp1Test
  <2>0. cmd \in OnePhase
    BY <1>3 DEF Resp1Test, OnePhase
  <2>1. CASE Answer("info", 3)
    BY <2>0, <2>1, AnswerRefines
  <2>2. CASE Die("bad parameter")
    BY <2>2, DieRefines
  <2> QED
    BY <1>3, <2>1, <2>2 DEF Resp1Test
<1>4. CASE Resp1Setloc
  <2>0. cmd \in OnePhase
    BY <1>4 DEF Resp1Setloc, OnePhase
  <2>1. CASE Answer("stat", 3)
    BY <2>0, <2>1, AnswerRefines
  <2>2. CASE Die("bad parameter")
    BY <2>2, DieRefines
  <2> QED
    BY <1>4, <2>1, <2>2 DEF Resp1Setloc
<1>5. CASE Resp1Setmode
  BY <1>5, AnswerRefines DEF Resp1Setmode, OnePhase
<1>6. CASE Resp1Readn
  <2>0. cmd \in OnePhase
    BY <1>6 DEF Resp1Readn, OnePhase
  <2>1. CASE Answer("stat", 3)
    BY <2>0, <2>1, AnswerRefines
  <2>2. CASE Die("no disc")
    BY <2>2, DieRefines
  <2> QED
    BY <1>6, <2>1, <2>2 DEF Resp1Readn
<1>7. CASE Resp1Play
  <2>1. CASE Die("bad parameter")
    BY <2>1, DieRefines
  <2>2. CASE SetInterrupt(3) /\ FinishCommand
    <3>1. cmd' = None /\ cmd_state' = "RecvCmd" /\ irq_pending' = INT(3)
      BY <2>2 DEF SetInterrupt, FinishCommand
    <3>2. cmd \in OnePhase
      BY <1>7 DEF Resp1Play, OnePhase
    <3>3. Protocol!Answer(3)
      BY <3>1, <3>2, SameVocabulary, PhaseValue, PhaseNext
      DEF Protocol!Answer
    <3> QED
      BY <3>3 DEF Protocol!Next
  <2> QED
    BY <1>7, <2>1, <2>2 DEF Resp1Play
<1>8. CASE Resp1Seekl
  BY <1>8, AcknowledgeRefines, DieRefines DEF Resp1Seekl, TwoPhase
<1>9. CASE Resp1Stop
  BY <1>9, AcknowledgeRefines DEF Resp1Stop, TwoPhase
<1>10. CASE Resp1TwoPhase
  BY <1>10, AcknowledgeRefines DEF Resp1TwoPhase, TwoPhase
<1> QED
  BY <1>1, <1>2, <1>3, <1>4, <1>5, <1>6, <1>7, <1>8, <1>9, <1>10 DEF Resp1

LEMMA Resp2Refines ==
  ASSUME IInv, Resp2, cmd_state = "Resp2", irq_pending = {}
  PROVE  Protocol!Next \/ UNCHANGED Protocol!vars
<1>1. CASE Resp2Seekl
  <2>1. CASE Answer("stat", 2)
    BY <2>1, AnswerRefines
  <2>2. CASE Die("no disc")
    BY <2>2, DieRefines
  <2> QED
    BY <1>1, <2>1, <2>2 DEF Resp2Seekl
<1>2. CASE Resp2Pause
  BY <1>2, AnswerRefines DEF Resp2Pause
<1>3. CASE Resp2Init
  BY <1>3, AnswerRefines DEF Resp2Init
<1>4. CASE Resp2Stop
  BY <1>4, AnswerRefines DEF Resp2Stop
<1>5. CASE Resp2Report
  <2>1. PICK tag \in {"stat", "info"}, n \in {2, 5} :
                Answer(tag, n) /\ (n = 5 => cmd = "getid")
    BY <1>5 DEF Resp2Report
  <2> QED
    BY <2>1, AnswerRefines
<1> QED
  BY <1>1, <1>2, <1>3, <1>4, <1>5 DEF Resp2

\* A sector, a report or the end of a track is an unsolicited interrupt.
LEMMA StreamRefines ==
  ASSUME IInv, Streaming, Stream
  PROVE  Protocol!Next \/ UNCHANGED Protocol!vars
<1>1. cmd_state = "RecvCmd" /\ irq_pending = {}
  BY DEF IInv, CommandIsArmed, Streaming
<1>2. ASSUME NEW n \in {1, 4}, SetInterrupt(n), UNCHANGED cmdVars
      PROVE  Protocol!Next
  <2>1. Protocol!Unsolicited(n)
    BY <1>1, <1>2, SameVocabulary, PhaseValue, PhaseNext
    DEF SetInterrupt, cmdVars, Protocol!Unsolicited
  <2> QED
    BY <2>1 DEF Protocol!Next
<1>3. CASE UNCHANGED <<cmdVars, irqVars>>
  BY <1>3, Stutters DEF cmdVars, irqVars
<1>4. CASE Die("no disc")
  BY <1>4, DieRefines
<1>5. CASE StreamSeek \/ StreamOffDisc
  BY <1>3, <1>5 DEF StreamSeek, StreamOffDisc
<1>6. CASE ReadSector
  BY <1>2, <1>3, <1>6 DEF ReadSector
<1>7. CASE PlayAutoPause
  BY <1>2, <1>7 DEF PlayAutoPause
<1>8. CASE PlaySector
  BY <1>2, <1>3, <1>8 DEF PlaySector
<1> QED
  BY <1>4, <1>5, <1>6, <1>7, <1>8 DEF Stream

LEMMA NextRefines ==
  ASSUME IInv, [Next]_vars
  PROVE  [Protocol!Next]_Protocol!vars
<1>1. CASE Guest
  BY <1>1, GuestRefines
<1>2. CASE TickCommand
  <2>1. CASE cmd_state = "Resp1" /\ Resp1
    BY <1>2, <2>1, Resp1Refines DEF TickCommand
  <2>2. CASE cmd_state = "Resp2" /\ Resp2
    BY <1>2, <2>2, Resp2Refines DEF TickCommand
  <2>3. CASE UNCHANGED <<cmd, cmd_state, irqVars>>
    BY <2>3, Stutters DEF irqVars
  <2> QED
    BY <1>2, <2>1, <2>2, <2>3 DEF TickCommand
<1>3. CASE TickStream
  BY <1>3, StreamRefines DEF TickStream
<1>4. CASE UNCHANGED vars
  BY <1>4, Stutters DEF vars, cmdVars, irqVars
<1> QED
  BY <1>1, <1>2, <1>3, <1>4 DEF Next, Tick

\* For every disc and every guest the drive answers each command once, in
\* order, and never lets another interrupt slip in between.
THEOREM Refinement == Spec => ImplementsProtocol
<1>1. Init => Protocol!Init
  BY PhaseValue, SameVocabulary DEF Init, Protocol!Init
<1>2. IInv /\ [Next]_vars => [Protocol!Next]_Protocol!vars
  BY NextRefines
<1> QED
  BY <1>1, <1>2, Invariance, PTL DEF Spec, ImplementsProtocol, Protocol!Spec

-----------------------------------------------------------------------------
(***************************************************************************)
(* The drive's interrupts on their way through the interrupt controller.   *)
(***************************************************************************)
\* What a part of a step may do to the interrupts: nothing, drop the flags,
\* or post one of the five.
Quiet    == UNCHANGED irqVars
Drops    == irq_pending' = {} /\ UNCHANGED <<irq_mask, irqctl>>
Posts    == \E n \in 1..5 : SetInterrupt(n)

-----------------------------------------------------------------------------
(* The steps of the drive.                                                 *)

LEMMA BeginIrq ==
  ASSUME NEW c, NEW params, BeginCommand(c, params)
  PROVE  Quiet \/ Drops \/ Posts
<1>1. CASE ArmCommand(c, params)
  BY <1>1 DEF ArmCommand, Drops
<1>2. CASE AnswerGettn(c)
  BY <1>2 DEF AnswerGettn, Posts
<1>3. CASE UNCHANGED irqVars
  BY <1>3 DEF Quiet
<1> QED
  BY <1>1, <1>2, <1>3 DEF BeginCommand

LEMMA ResponseIrq ==
  /\ \A tag : \A n \in 1..5 : Answer(tag, n) => Posts
  /\ Acknowledge => Posts
<1>1. \A tag : \A n \in 1..5 : Answer(tag, n) => Posts
  BY DEF Answer, Posts
<1>2. Acknowledge => Posts
  BY DEF Acknowledge, Posts
<1> QED
  BY <1>1, <1>2

LEMMA Resp1Irq == ASSUME Resp1 PROVE Quiet \/ Posts
<1>1. CASE RejectCount
  BY <1>1, ResponseIrq DEF RejectCount
<1>2. CASE Resp1Plain
  BY <1>2, ResponseIrq DEF Resp1Plain
<1>3. CASE Resp1Test
  <2>1. Die("bad parameter") \/ Answer("info", 3)
    BY <1>3 DEF Resp1Test
  <2>2. CASE Die("bad parameter")
    BY <2>2 DEF Die, Quiet
  <2>3. CASE Answer("info", 3)
    BY <2>3, ResponseIrq
  <2> QED
    BY <2>1, <2>2, <2>3
<1>4. CASE Resp1Setloc
  <2>1. Die("bad parameter") \/ Answer("stat", 3)
    BY <1>4 DEF Resp1Setloc
  <2>2. CASE Die("bad parameter")
    BY <2>2 DEF Die, Quiet
  <2>3. CASE Answer("stat", 3)
    BY <2>3, ResponseIrq
  <2> QED
    BY <2>1, <2>2, <2>3
<1>5. CASE Resp1Setmode
  <2>1. Answer("stat", 3)
    BY <1>5 DEF Resp1Setmode
  <2> QED
    BY <2>1, ResponseIrq
<1>6. CASE Resp1Readn
  <2>1. Die("no disc") \/ Answer("stat", 3)
    BY <1>6 DEF Resp1Readn
  <2>2. CASE Die("no disc")
    BY <2>2 DEF Die, Quiet
  <2>3. CASE Answer("stat", 3)
    BY <2>3, ResponseIrq
  <2> QED
    BY <2>1, <2>2, <2>3
<1>7. CASE Resp1Play
  <2>1. Die("bad parameter") \/ SetInterrupt(3)
    BY <1>7 DEF Resp1Play
  <2>2. CASE Die("bad parameter")
    BY <2>2 DEF Die, Quiet
  <2>3. CASE SetInterrupt(3)
    BY <2>3 DEF Posts
  <2> QED
    BY <2>1, <2>2, <2>3
<1>8. CASE Resp1Seekl \/ Resp1Stop \/ Resp1TwoPhase
  <2>1. Die("no seekloc") \/ Acknowledge
    BY <1>8 DEF Resp1Seekl, Resp1Stop, Resp1TwoPhase
  <2>2. CASE Die("no seekloc")
    BY <2>2 DEF Die, Quiet
  <2>3. CASE Acknowledge
    BY <2>3, ResponseIrq
  <2> QED
    BY <2>1, <2>2, <2>3
<1> QED
  BY <1>1, <1>2, <1>3, <1>4, <1>5, <1>6, <1>7, <1>8 DEF Resp1

LEMMA Resp2Irq == ASSUME Resp2 PROVE Quiet \/ Posts
<1>1. CASE Resp2Seekl
  <2>1. Die("no disc") \/ Answer("stat", 2)
    BY <1>1 DEF Resp2Seekl
  <2>2. CASE Die("no disc")
    BY <2>2 DEF Die, Quiet
  <2>3. CASE Answer("stat", 2)
    BY <2>3, ResponseIrq
  <2> QED
    BY <2>1, <2>2, <2>3
<1>2. CASE Resp2Pause \/ Resp2Init \/ Resp2Stop
  <2>1. Answer("stat", 2)
    BY <1>2 DEF Resp2Pause, Resp2Init, Resp2Stop
  <2> QED
    BY <2>1, ResponseIrq
<1>3. CASE Resp2Report
  BY <1>3, ResponseIrq DEF Resp2Report
<1> QED
  BY <1>1, <1>2, <1>3 DEF Resp2

LEMMA TickIrq == ASSUME Tick PROVE Quiet \/ Posts
<1>1. CASE TickCommand
  BY <1>1, Resp1Irq, Resp2Irq DEF TickCommand, Quiet
<1>2. CASE TickStream
  <2>1. \A why : Die(why) => Quiet
    BY DEF Die, Quiet
  <2>2. CASE StreamSeek \/ StreamOffDisc
    BY <2>2 DEF StreamSeek, StreamOffDisc, Quiet
  <2>3. CASE ReadSector
    BY <2>3 DEF ReadSector, Quiet, Posts
  <2>4. CASE PlayAutoPause
    BY <2>4 DEF PlayAutoPause, Posts
  <2>5. CASE PlaySector
    BY <2>5 DEF PlaySector, Quiet, Posts
  <2> QED
    BY <1>2, <2>1, <2>2, <2>3, <2>4, <2>5 DEF TickStream, Stream
<1> QED
  BY <1>1, <1>2 DEF Tick

\* An interrupt posted leaves the controller as it was or raises its source.
LEMMA PostsRaise ==
  ASSUME Posts
  PROVE  irqctl' = irqctl \/ irqctl' = Raise(irqctl, "cdrom")
  BY DEF Posts, SetInterrupt

-----------------------------------------------------------------------------
(* The two copies of the status.                                           *)

\* Every change of the controller goes through one of its three operations.
Operated ==
    \/ irqctl' = irqctl
    \/ irqctl' = Raise(irqctl, "cdrom")
    \/ \E keep : irqctl' = StoreStat(irqctl, keep)
    \/ \E m : irqctl' = StoreMask(irqctl, m)

LEMMA StepOperates == ASSUME [Next]_vars PROVE Operated
<1>1. ASSUME NEW c, NEW params, BeginCommand(c, params) PROVE Operated
  BY <1>1, BeginIrq, PostsRaise DEF Quiet, Drops, Operated, irqVars
<1>2. ASSUME NEW c, WriteCommand(c) PROVE Operated
  BY <1>1, <1>2 DEF WriteCommand, Operated, irqVars
<1>3. ASSUME NEW b, WriteParam(b) PROVE Operated
  BY <1>3 DEF WriteParam, Die, Operated, irqVars
<1>4. ASSUME NEW bits, NEW clear, AckInterrupt(bits, clear) PROVE Operated
  BY <1>1, <1>4 DEF AckInterrupt, Operated
<1>5. ASSUME NEW m, WriteIrqMask(m) PROVE Operated
  BY <1>5 DEF WriteIrqMask, Operated
<1>6. CASE ReadResult \/ ReadData
  BY <1>6 DEF ReadResult, ReadData, Operated, irqVars
<1>7. CASE StoreIrqCtl
  BY <1>7 DEF StoreIrqCtl, Operated
<1>8. CASE Tick
  BY <1>8, TickIrq, PostsRaise DEF Quiet, Operated, irqVars
<1>9. CASE UNCHANGED vars
  BY <1>9 DEF vars, Operated, irqVars
<1> QED
  BY <1>2, <1>3, <1>4, <1>5, <1>6, <1>7, <1>8, <1>9 DEF Next, Guest

LEMMA OperationsAgree ==
  ASSUME irqctl \in IrqCtl, IrqRegistersAgree, Operated
  PROVE  IrqRegistersAgree'
<1>1. CASE irqctl' = irqctl
  BY <1>1 DEF IrqRegistersAgree
<1>2. CASE irqctl' = Raise(irqctl, "cdrom")
  BY <1>2 DEF IrqRegistersAgree, Raise, IrqCtl
<1>3. ASSUME NEW keep, irqctl' = StoreStat(irqctl, keep)
      PROVE  IrqRegistersAgree'
  BY <1>3 DEF IrqRegistersAgree, StoreStat, IrqCtl
<1>4. ASSUME NEW m, irqctl' = StoreMask(irqctl, m)
      PROVE  IrqRegistersAgree'
  BY <1>4 DEF IrqRegistersAgree, StoreMask, IrqCtl
<1> QED
  BY <1>1, <1>2, <1>3, <1>4 DEF Operated

\* The register the guest reads and the one the CPU samples are the same,
\* after every sequence of edges and stores.
THEOREM IrqAgree == Spec => []IrqRegistersAgree
<1>1. Init => IrqRegistersAgree
  BY DEF Init, IrqReset, IrqRegistersAgree
<1>2. IrqRegistersAgree /\ IInv /\ [Next]_vars => IrqRegistersAgree'
  BY StepOperates, OperationsAgree DEF IInv, TypeOK, IrqType
<1> QED
  BY <1>1, <1>2, Invariance, PTL DEF Spec

-----------------------------------------------------------------------------
(* No edge is lost.                                                        *)

\* The drive's part of the guest's setup: both masks stay as boot left them.
Enabled ==
    /\ irq_mask = IntBit
    /\ irq_pending \subseteq IntBit
    /\ irqctl \in IrqCtl
    /\ "cdrom" \in irqctl.mask

\* Until the handler has acknowledged I_STAT, an unacknowledged interrupt of
\* the drive is in the register the CPU samples.  Afterwards a new one may
\* come, but then the drive's acknowledgement is still to follow, and what is
\* posted after it raises the source anew.
EdgeInv ==
    /\ Enabled
    /\ IrqRegistersAgree
    /\ Running /\ irq_pending # {} /\ isr \in {"main", "first"}
           => "cdrom" \in irqctl.int

\* A posted interrupt reaches the controller: the drive's mask lets every
\* number through, and a source already raised is latched as well.
LEMMA PostsReach ==
  ASSUME Enabled, IrqRegistersAgree, Posts
  PROVE  Enabled' /\ IrqRegistersAgree' /\ "cdrom" \in irqctl'.int
<1>1. PICK n \in 1..5 : SetInterrupt(n)
  BY DEF Posts
<1>2. INT(n) \cap irq_mask # {}
  BY IntType, IntNonEmpty DEF Enabled
<1>3. /\ irqctl' = Raise(irqctl, "cdrom") /\ irq_mask' = irq_mask
      /\ irq_pending' \subseteq IntBit
  BY <1>1, <1>2, IntType DEF SetInterrupt
<1>4. "cdrom" \in IrqSource
  BY DEF IrqSource
<1>5. irqctl' \in IrqCtl
  BY <1>3, <1>4, RaiseType DEF Enabled
<1>6. IrqRegistersAgree'
  BY <1>3, OperationsAgree DEF Operated, Enabled
<1>7. /\ irqctl'.mask = irqctl.mask
      /\ "cdrom" \in irqctl'.int
  BY <1>3 DEF Raise, Enabled, IrqRegistersAgree, IrqCtl
<1> QED
  BY <1>3, <1>5, <1>6, <1>7 DEF Enabled

\* Whatever does one of the three things keeps the invariant, in any place of
\* the handler it does not move.
LEMMA DriveKeepsEdge ==
  ASSUME EdgeInv, Running, Quiet \/ Drops \/ Posts, isr' = isr
  PROVE  EdgeInv'
<1>1. CASE Quiet
  BY <1>1 DEF Quiet, irqVars, EdgeInv, Enabled, IrqRegistersAgree
<1>2. CASE Drops
  BY <1>2 DEF Drops, EdgeInv, Enabled, IrqRegistersAgree
<1>3. CASE Posts
  BY <1>3, PostsReach DEF EdgeInv
<1> QED
  BY <1>1, <1>2, <1>3

\* The drive's acknowledgement leaves no flag, or only those of the answer it
\* set off, whose edge is fresh; or the command it starts kills the process.
LEMMA AckKeepsEdge ==
  ASSUME EdgeInv, AckDrive
  PROVE  /\ Enabled' /\ IrqRegistersAgree'
         /\ Running' /\ irq_pending' # {} => "cdrom" \in irqctl'.int
<1>1. CASE irq_pending' = {} /\ UNCHANGED <<irq_mask, irqctl>>
  BY <1>1 DEF EdgeInv, Enabled, IrqRegistersAgree
<1>2. CASE ~Running' /\ UNCHANGED irqVars
  BY <1>2 DEF EdgeInv, Enabled, IrqRegistersAgree, irqVars
<1>3. CASE Posts
  BY <1>3, PostsReach DEF EdgeInv
<1>4. ASSUME BeginCommand(pending_cmd, pending_params)
      PROVE  Posts \/ Drops \/ (~Running' /\ UNCHANGED irqVars)
  <2>1. CASE ArmCommand(pending_cmd, pending_params)
    BY <2>1 DEF ArmCommand, Drops
  <2>2. CASE AnswerGettn(pending_cmd)
    BY <2>2 DEF AnswerGettn, Posts
  <2>3. CASE panic' = "unhandled command" /\ UNCHANGED irqVars
    BY <2>3 DEF Running, None
  <2> QED
    BY <1>4, <2>1, <2>2, <2>3 DEF BeginCommand
<1>5. irq_pending \ IntBit = {}
  BY DEF EdgeInv, Enabled
<1> QED
  BY <1>1, <1>2, <1>3, <1>4, <1>5 DEF AckDrive, AckInterrupt, Drops

LEMMA MainKeepsEdge == ASSUME EdgeInv, MainProgram PROVE EdgeInv'
<1>1. ASSUME NEW c \in Opcodes, WriteCommand(c)
      PROVE  Quiet \/ Drops \/ Posts
  BY <1>1, BeginIrq DEF WriteCommand, Quiet
<1>2. ASSUME NEW b \in Bytes, WriteParam(b)
      PROVE  Quiet
  BY <1>2 DEF WriteParam, Die, Quiet
<1>3. Running
  BY DEF MainProgram, WriteCommand, WriteParam
<1> QED
  BY <1>1, <1>2, <1>3, DriveKeepsEdge DEF MainProgram

\* The handler of a guest that acknowledges I_STAT first.
LEMMA HandlerKeepsEdge ==
  ASSUME StatFirst, EdgeInv, Handler
  PROVE  EdgeInv'
<1>1. CASE TakeException
  BY <1>1 DEF TakeException, vars, irqVars, EdgeInv, Enabled,
              IrqRegistersAgree, Running
<1>2. CASE HandlerFirst
  <2>1. isr' = "read" /\ AckStat
    BY <1>2 DEF HandlerFirst
  <2>2. irqctl' = StoreStat(irqctl, IrqSource \ {"cdrom"})
    BY <2>1 DEF AckStat
  <2>3. irqctl'.mask = irqctl.mask
    BY <2>2 DEF StoreStat, EdgeInv, Enabled, IrqCtl
  <2>4. irqctl' \in IrqCtl
    BY <2>2 DEF StoreStat, EdgeInv, Enabled, IrqCtl
  <2>5. IrqRegistersAgree'
    BY <2>2, OperationsAgree DEF Operated, EdgeInv, Enabled
  <2>6. Enabled'
    BY <2>1, <2>3, <2>4 DEF AckStat, EdgeInv, Enabled
  <2> QED
    BY <2>1, <2>5, <2>6 DEF EdgeInv
<1>3. CASE HandlerRead
  BY <1>3 DEF HandlerRead, irqVars, EdgeInv, Enabled, IrqRegistersAgree
<1>4. CASE HandlerLast
  BY <1>4, AckKeepsEdge DEF HandlerLast, EdgeInv
<1> QED
  BY <1>1, <1>2, <1>3, <1>4 DEF Handler

LEMMA NextEdge == StatFirst /\ EdgeInv /\ [HostNext]_hostVars => EdgeInv'
<1> SUFFICES ASSUME StatFirst, EdgeInv, [HostNext]_hostVars PROVE EdgeInv'
  OBVIOUS
<1>1. CASE DriveTick
  BY <1>1, TickIrq, DriveKeepsEdge
     DEF DriveTick, Tick, TickCommand, TickStream
<1>2. CASE UNCHANGED hostVars
  BY <1>2 DEF hostVars, vars, irqVars, EdgeInv, Enabled, IrqRegistersAgree,
              Running
<1> QED
  BY <1>1, <1>2, MainKeepsEdge, HandlerKeepsEdge DEF HostNext

LEMMA InitEdge == HostInit => EdgeInv
<1> SUFFICES ASSUME HostInit PROVE EdgeInv
  OBVIOUS
<1>1. irqctl = StoreMask(IrqReset, {"cdrom"})
  BY DEF HostInit
<1>2. irqctl \in IrqCtl /\ irqctl.mask = {"cdrom"}
  BY <1>1 DEF StoreMask, IrqReset, IrqCtl, IrqSource
<1>3. IrqRegistersAgree
  BY <1>1 DEF StoreMask, IrqReset, IrqRegistersAgree
<1> QED
  BY <1>2, <1>3 DEF HostInit, EdgeInv, Enabled

\* While an interrupt of the drive is unacknowledged and the guest is not
\* handling one, the CPU will be interrupted: for every handler that clears
\* I_STAT before it acknowledges the drive.
THEOREM EdgesKept == ASSUME StatFirst PROVE HostSpec => []NoLostEdge
<1>1. EdgeInv => NoLostEdge
  BY DEF EdgeInv, Enabled, NoLostEdge, IrqPending
<1>2. EdgeInv /\ [HostNext]_hostVars => EdgeInv'
  BY NextEdge
<1> QED
  BY <1>1, <1>2, InitEdge, PTL DEF HostSpec
-----------------------------------------------------------------------------
(* The sector cache the controller reads through, for every disc,          *)
(* readahead, stride and capacity that CacheAssumption allows.             *)

USE CacheAssumption DEF threadVars, readerVars, requestVars, cacheVars

\* The readahead of a request never outlives its sector: what is left of it
\* plus the age of the sector stays below the readahead, hence below the
\* capacity, and the sector cannot be the one that is evicted.
WantedIsYoung ==
    reader # "idle" /\ Cached(want) => age[want] + prefetch_remaining < Readahead

\* Only a reader that is idle wants nothing, and nobody reads a dropped cache.
WantedIsKnown ==
    /\ reader = "idle" <=> want = NoRead
    /\ quit => reader = "idle"

CacheInv ==
    /\ CacheTypeOK
    /\ CacheMatchesDisc
    /\ NoLostWakeup
    /\ RequestNotForgotten
    /\ WantedIsYoung
    /\ WantedIsKnown

LEMMA ZeroAdds ==
  ASSUME NEW a, NEW b \in Nat, NEW c \in Nat, a = 0, b < c
  PROVE  a + b < c
  OBVIOUS

LEMMA NoReadIsNoSector == NoRead \notin Sectors
  BY DEF NoRead, Disc!NoRead

-----------------------------------------------------------------------------

LEMMA CacheInitHolds == CacheInit => CacheInv
  <1> SUFFICES ASSUME CacheInit PROVE CacheInv
    OBVIOUS
  <1>1. DOMAIN sectors = {} /\ DOMAIN age = {}
    BY 1..0 = {} DEF CacheInit
  <1>2. age \in [DOMAIN sectors -> 0..(Capacity - 1)]
    BY <1>1 DEF CacheInit
  <1>3. DOMAIN sectors \subseteq Nat
    BY <1>1
  <1>4. prefetch_next \in Nat /\ prefetch_remaining \in 0..Readahead
    BY DEF CacheInit
  <1>5. /\ reader \in {"idle", "waiting", "woken"}
        /\ want \in Sectors \cup {NoRead}
        /\ prefetcher \in {"running", "waiting", "done", "dead"}
        /\ quit \in BOOLEAN
    BY DEF CacheInit
  <1>6. CacheTypeOK
    BY <1>2, <1>3, <1>4, <1>5, Zenon DEF CacheTypeOK
  <1> QED
    BY <1>1, <1>6 DEF CacheInit, CacheInv, CacheMatchesDisc, NoLostWakeup,
       RequestNotForgotten, WantedIsYoung, WantedIsKnown, Cached

\* A turn of the reader's loop, whichever way it was entered.
LEMMA TryReadKeeps ==
  ASSUME CacheInv, NEW s \in Sectors, TryRead(s),
         prefetcher # "dead", ~quit
  PROVE  CacheInv'
  <1> USE NoReadIsNoSector
  <1>1. /\ prefetch_next' = s /\ prefetch_remaining' = Readahead
        /\ prefetcher' = (IF prefetcher = "waiting" THEN "running" ELSE prefetcher)
        /\ UNCHANGED <<sectors, quit>>
    BY DEF TryRead, Request, WakePrefetcher, Get
  <1>2. CASE Cached(s)
    <2>1. /\ reader' = "idle" /\ want' = NoRead
          /\ age' = [k \in DOMAIN age |->
                       IF k = s THEN 0
                       ELSE IF age[k] < age[s] THEN age[k] + 1 ELSE age[k]]
      BY <1>2 DEF TryRead, Get
    <2>2. age' \in [DOMAIN sectors -> 0..(Capacity - 1)]
      BY <1>2, <2>1 DEF CacheInv, CacheTypeOK, Cached
    <2>3. CacheTypeOK'
      BY <1>1, <2>1, <2>2 DEF CacheInv, CacheTypeOK
    <2>4. CacheMatchesDisc'
      BY <1>1 DEF CacheInv, CacheMatchesDisc
    <2> QED
      BY <1>1, <2>1, <2>3, <2>4
      DEF CacheInv, NoLostWakeup, RequestNotForgotten, WantedIsYoung, WantedIsKnown, CacheTypeOK
  <1>3. CASE ~Cached(s)
    <2>1. reader' = "waiting" /\ want' = s /\ UNCHANGED <<cacheVars, result>>
      BY <1>3 DEF TryRead
    <2>2. CacheTypeOK'
      BY <1>1, <2>1 DEF CacheInv, CacheTypeOK
    <2>3. CacheMatchesDisc'
      BY <1>1 DEF CacheInv, CacheMatchesDisc
    <2> QED
      BY <1>1, <1>3, <2>1, <2>2, <2>3
      DEF CacheInv, NoLostWakeup, RequestNotForgotten, WantedIsYoung, WantedIsKnown,
          CacheTypeOK, Cached
  <1> QED BY <1>2, <1>3

\* Moving the request on never makes more of it.
LEMMA AdvanceBounds ==
  ASSUME CacheTypeOK, prefetch_remaining # 0, Advance
  PROVE  /\ prefetch_next' \in Nat
         /\ prefetch_remaining' \in 0..Readahead
         /\ prefetch_remaining' <= prefetch_remaining - 1
  BY DEF CacheTypeOK, Advance

LEMMA SkipKeeps == CacheInv /\ Skip => CacheInv'
  <1> SUFFICES ASSUME CacheInv, Skip PROVE CacheInv'
    OBVIOUS
  <1> USE DEF CacheInv
  <1>1. /\ prefetch_next' \in Nat /\ prefetch_remaining' \in 0..Readahead
        /\ prefetch_remaining' <= prefetch_remaining - 1
    BY AdvanceBounds DEF Skip
  <1>2. Cached(prefetch_next) /\ prefetcher = "running"
    BY DEF Skip
  <1>3. UNCHANGED <<readerVars, prefetcher, cacheVars, quit>>
    BY DEF Skip
  <1>4. CacheTypeOK'
    BY <1>1, <1>3 DEF CacheTypeOK
  <1>5. RequestNotForgotten'
    BY <1>2, <1>3 DEF RequestNotForgotten, Cached
  <1>6. WantedIsYoung'
    BY <1>1, <1>3 DEF WantedIsYoung, Cached, CacheTypeOK
  <1> QED
    BY <1>2, <1>3, <1>4, <1>5, <1>6
    DEF CacheMatchesDisc, NoLostWakeup, WantedIsKnown, Cached

LEMMA FetchKeeps == CacheInv /\ Fetch => CacheInv'
  <1> SUFFICES ASSUME CacheInv, Fetch PROVE CacheInv'
    OBVIOUS
  <1> USE NoReadIsNoSector DEF CacheInv
  <1> DEFINE got  == prefetch_next
             kept == {k \in DOMAIN sectors : age[k] + 1 < Capacity}
  <1>1. /\ prefetch_next' \in Nat /\ prefetch_remaining' \in 0..Readahead
        /\ prefetch_remaining' <= prefetch_remaining - 1
    BY AdvanceBounds DEF Fetch
  <1>2. /\ sectors' = [k \in kept \cup {got} |->
                          IF k = got THEN Disc!Data(got) ELSE sectors[k]]
        /\ age' = [k \in kept \cup {got} |-> IF k = got THEN 0 ELSE age[k] + 1]
    BY DEF Fetch, Put
  <1>3. /\ prefetcher = "running" /\ ~quit /\ ~Cached(got)
        /\ prefetch_remaining # 0
        /\ reader' = (IF reader = "waiting" THEN "woken" ELSE reader)
        /\ UNCHANGED <<want, result, prefetcher, quit>>
    BY DEF Fetch, WakeReader
  <1>4. CacheTypeOK'
    <2>1. DOMAIN sectors' \subseteq Nat
      BY <1>2 DEF CacheTypeOK
    <2>2. age' \in [DOMAIN sectors' -> 0..(Capacity - 1)]
      BY <1>2 DEF CacheTypeOK
    <2> QED BY <1>1, <1>3, <2>1, <2>2 DEF CacheTypeOK
  <1>5. CacheMatchesDisc'
    BY <1>2 DEF CacheMatchesDisc
  <1>6. ASSUME reader # "idle", Cached(want) PROVE want \in kept
    BY <1>3, <1>6 DEF WantedIsYoung, CacheTypeOK, Cached
  <1>7. RequestNotForgotten'
    BY <1>2, <1>3, <1>6 DEF RequestNotForgotten, Cached
  <1>8. WantedIsYoung'
    <2> SUFFICES ASSUME reader' # "idle", Cached(want)'
                 PROVE  age'[want'] + prefetch_remaining' < Readahead
      BY DEF WantedIsYoung
    <2>1. want' = want /\ reader # "idle"
      BY <1>3
    <2>2. CASE want = got
      <3>1. age'[want] = 0
        BY <1>2, <2>2
      <3>2. prefetch_remaining' < Readahead
        BY <1>1 DEF CacheTypeOK
      <3>3. prefetch_remaining' \in Nat
        BY <1>1
      <3>4. age'[want'] = 0
        BY <2>1, <3>1, Zenon
      <3>5. Readahead \in Nat
        OBVIOUS
      <3> QED BY <3>2, <3>3, <3>4, <3>5, ZeroAdds
    <2>3. CASE want # got
      <3>1. want \in kept /\ age'[want] = age[want] + 1
        BY <1>2, <2>1, <2>3 DEF Cached
      <3>2. age[want] + prefetch_remaining < Readahead /\ age[want] \in Nat
        BY <2>1, <3>1 DEF WantedIsYoung, Cached, CacheTypeOK
      <3> QED BY <1>1, <2>1, <3>1, <3>2 DEF CacheTypeOK
    <2> QED BY <2>2, <2>3
  <1>9. NoLostWakeup' /\ WantedIsKnown'
    BY <1>3 DEF NoLostWakeup, WantedIsKnown
  <1> QED BY <1>4, <1>5, <1>7, <1>8, <1>9

LEMMA CacheNextKeeps == CacheInv /\ [CacheNext]_threadVars => CacheInv'
  <1> SUFFICES ASSUME CacheInv, [CacheNext]_threadVars PROVE CacheInv'
    OBVIOUS
  <1> USE DEF CacheInv
  <1>1. ASSUME NEW s \in Sectors, BeginRead(s) PROVE CacheInv'
    BY <1>1, TryReadKeeps DEF BeginRead
  <1>2. CASE ResumeRead
    <2>1. want \in Sectors /\ ~quit
      BY <1>2 DEF ResumeRead, CacheTypeOK, WantedIsKnown
    <2> QED BY <1>2, <2>1, TryReadKeeps DEF ResumeRead
  <1>3. CASE DropCache
    BY <1>3 DEF DropCache, WakePrefetcher, CacheTypeOK, CacheMatchesDisc, NoLostWakeup,
       RequestNotForgotten, WantedIsYoung, WantedIsKnown, Cached
  <1>4. CASE Quit
    BY <1>4 DEF Quit, CacheTypeOK, CacheMatchesDisc, NoLostWakeup,
       RequestNotForgotten, WantedIsYoung, WantedIsKnown, Cached
  <1>5. CASE Sleep
    BY <1>5 DEF Sleep, CacheTypeOK, CacheMatchesDisc, NoLostWakeup,
       RequestNotForgotten, WantedIsYoung, WantedIsKnown, Cached
  <1>6. CASE FetchFails
    <2>1. /\ prefetch_next' \in Nat /\ prefetch_remaining' \in 0..Readahead
          /\ prefetch_remaining' <= prefetch_remaining - 1
      BY <1>6, AdvanceBounds DEF FetchFails
    <2> QED
      BY <1>6, <2>1 DEF FetchFails, CacheTypeOK, CacheMatchesDisc, NoLostWakeup,
         RequestNotForgotten, WantedIsYoung, WantedIsKnown, Cached
  <1>7. CASE SpuriousWakeup
    BY <1>7 DEF SpuriousWakeup, CacheTypeOK, CacheMatchesDisc, NoLostWakeup,
       RequestNotForgotten, WantedIsYoung, WantedIsKnown, Cached
  <1>8. CASE UNCHANGED threadVars
    BY <1>8 DEF CacheTypeOK, CacheMatchesDisc, NoLostWakeup,
       RequestNotForgotten, WantedIsYoung, WantedIsKnown, Cached
  <1> QED
    BY <1>1, <1>2, <1>3, <1>4, <1>5, <1>6, <1>7, <1>8, SkipKeeps, FetchKeeps
    DEF CacheNext, Prefetch

\* The inductive invariant of the two threads.
THEOREM CacheInvariance == CacheSpec => []CacheInv
  BY CacheInitHolds, CacheNextKeeps, PTL DEF CacheSpec

\* Types of both threads' state.
THEOREM CacheTypeCorrect == CacheSpec => []CacheTypeOK
  <1>1. CacheInv => CacheTypeOK
    BY DEF CacheInv
  <1> QED BY <1>1, CacheInvariance, PTL

\* Whatever is cached is the disc's own data (cd_cache.rs, run_prefetcher).
THEOREM CacheCorrect == CacheSpec => []CacheMatchesDisc
  <1>1. CacheInv => CacheMatchesDisc
    BY DEF CacheInv
  <1> QED BY <1>1, CacheInvariance, PTL

\* Neither thread sleeps on what is already there, spurious wakeups included.
THEOREM NoWakeupLost == CacheSpec => []NoLostWakeup
  <1>1. CacheInv => NoLostWakeup
    BY DEF CacheInv
  <1> QED BY <1>1, CacheInvariance, PTL

\* A sector that is asked for stays first in line or in the cache until it is
\* taken, for every capacity that is at least the readahead.
THEOREM RequestKept == CacheSpec => []RequestNotForgotten
  <1>1. CacheInv => RequestNotForgotten
    BY DEF CacheInv
  <1> QED BY <1>1, CacheInvariance, PTL

-----------------------------------------------------------------------------
\* Each turn of the loop is a step of the plain disc or none at all.
LEMMA TryReadImplements ==
  ASSUME CacheInv, NEW s \in Sectors, TryRead(s)
  PROVE  \/ Cached(s) /\ result' = Disc!Data(s) /\ want' = NoRead
         \/ UNCHANGED result /\ want' = s
  BY DEF TryRead, CacheInv, CacheMatchesDisc, Cached

LEMMA CacheImplements == CacheInv /\ [CacheNext]_threadVars => [Disc!Next]_<<want, result>>
  <1> SUFFICES ASSUME CacheInv, [CacheNext]_threadVars PROVE [Disc!Next]_<<want, result>>
    OBVIOUS
  <1> USE DEF CacheInv, NoRead
  <1>1. ASSUME NEW s \in Sectors, BeginRead(s) PROVE Disc!Next
    <2>1. want = NoRead /\ TryRead(s)
      BY <1>1 DEF BeginRead, WantedIsKnown
    <2>2. Disc!Ask(s) \/ Disc!AskAndReply(s)
      BY <2>1, TryReadImplements DEF Disc!Ask, Disc!AskAndReply
    <2> QED BY <2>2 DEF Disc!Next
  <1>2. CASE ResumeRead
    <2>1. want \in Sectors /\ want # NoRead /\ TryRead(want)
      BY <1>2 DEF ResumeRead, CacheTypeOK, WantedIsKnown
    <2>2. Disc!Reply \/ UNCHANGED <<want, result>>
      BY <2>1, TryReadImplements DEF Disc!Reply
    <2> QED BY <2>2 DEF Disc!Next
  <1>3. CASE DropCache
    BY <1>3 DEF DropCache
  <1>4. CASE Prefetch
    BY <1>4 DEF Prefetch, Quit, Sleep, Skip, Fetch, FetchFails
  <1>5. CASE SpuriousWakeup
    BY <1>5 DEF SpuriousWakeup
  <1> QED BY <1>1, <1>2, <1>3, <1>4, <1>5 DEF CacheNext

\* Behind the cache the emulator thread sees a plain disc: what a read returns
\* is what is on the disc at that sector.
THEOREM CacheRefines == CacheSpec => ImplementsDisc
  <1>1. CacheInit => Disc!Init
    BY DEF CacheInit, Disc!Init, NoRead
  <1> QED
    BY <1>1, CacheImplements, CacheInvariance, PTL
    DEF CacheSpec, ImplementsDisc, Disc!Spec, Disc!vars
=============================================================================
